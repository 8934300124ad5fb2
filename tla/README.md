# AB Planner in TLA+

AB Planner is the backend of a university timetable: a FastAPI service over
PostgreSQL that keeps programs, groups, lessons and selections, signs users in
with Microsoft, and notifies students of lesson changes through Firebase Cloud
Messaging (FCM). These modules model the parts of it where several requests,
processes or failures meet; TLC checks them on small instances, and TLAPS proves
their safety properties for every instance: of the outbox, notification rows,
push tokens, selections, program structure, lessons, auth sessions, sign-in (keys,
users and roles), catalog and API process.

Paths below are relative to `src/app/`.

## What the system consists of

All state is in PostgreSQL, except for one cache in memory. A request gets a
session of its own (`api/deps.py:26`), reads and writes through it in one
transaction (login and refresh: several), and commits at the end. The engine
sets no isolation level, so transactions are READ COMMITTED, and the session
factory turns autoflush off (`core/database.py:36`): writes are sent at an
explicit flush or at the commit, and queries in between do not see them. FastAPI
runs the handlers in a thread pool, so any two requests may interleave between
any two statements. One handler, the login, is a coroutine of the event loop:
it gives way only where it awaits Microsoft.

| Component | State | Operations | Hard behaviour | What makes it correct |
|---|---|---|---|---|
| Notification outbox (`services/push_service.py`, `main.py`, `scripts/send_notifications.py`) | `notification_outbox` delivery columns, `fcm_tokens` | enqueue, create, `process_outbox` by the API's loop and by cron | two senders; HTTP under row locks; a whole batch in one transaction; crash, timeout, poison payload; retry budget and backoff | no row processed twice at once, attempts within the budget and spaced, outcomes the life cycle allows, everything ends |
| Notification rows (`services/notification_service.py`) | read columns of the same rows | PATCH | a PATCH works on a copy older than a delivery | read marks and deliveries survive each other |
| Push tokens (`services/fcm_token_service.py`) | `fcm_tokens` | register, delete | a device changes hands; no unique constraint | one holder per token |
| Selections (`services/selection_service.py`) | `student_group_selection`, `change_logs` | PUT, DELETE | read, DELETE, INSERT see three snapshots | one selection per student; the log replays |
| Program structure (`services/program_service.py`) | programs, years, specializations, groups | create, change of program, update, delete with cascade | validation on rows that are not locked | references exist; a group's year and specialization are of its program |
| Lessons (`services/lesson_service.py`) | `lessons`, queued notifications | create, series, update, delete | overlapping changes of one lesson; students switching groups | a positive time window; group and lecturer notified; one cancellation |
| Auth sessions (`services/auth_service.py`, `scripts/cleanup_auth_sessions.py`) | `auth_sessions` | login, refresh, logout, cleanup | a refresh is two commits; cleanup at any time | one live session per login, none after logout, good tokens known |
| OAuth client (`services/microsoft_oauth.py`) | key cache in memory | `_get_jwks` by interleaved coroutines | answers stored out of order | the cache serves recent keys |
| Users and roles (`services/auth_service.py`, `services/user_service.py`, `scripts/seed_minimal_db.py`) | `users` | first and later logins, `set_user_role`, the administrator script | a coroutine, a thread and another process write one row from copies | a login takes no role back; the administrator stays one |
| Catalog and change log (`services/catalog_service.py`, `services/audit_service.py`) | `subjects`, `rooms`, `change_logs` | create, update, delete | entries show copies; a deletion's entry is older than its DELETE | the log replays to the table |
| API process (`main.py`, `api/deps.py`, `core/database.py`) | threads, connections, two background tasks, stop event | request, login, batch, cleanup, startup, shutdown, crash | requests wait for threads, threads for connections, both for the loop | nothing leaks; every request and every shutdown ends |
| Lecturer plan, migrations, configuration, seeds | see *Not modelled* | | | |

They interact through the tables: lessons and broadcasts insert outbox rows in
their own transaction; senders read the rows and the tokens; a sender deletes
tokens FCM calls invalid; selections decide who is notified of a lesson, and
lessons and selections keep a group from being deleted, and lessons a subject or
a room. The services record what they change in `change_logs`. All of them run
in the API process, whose threads and connections they share, except for the
cron sender and the seed script, which are processes of their own.

## Modules

| Module | Models | State and actions |
|---|---|---|
| `Delivery` | what the outbox promises: the life cycle of one notification with no senders, locks or time | `Create`, `Record` |
| `Outbox` | `process_outbox` and its callers | rows (`deliveryStatus`, `attempts`, `lastAttempt`, `createdAt`), `tokens`, and per sender the open transaction (`batch`, `cur`, `pending`, `result`, `invalid`, `elapsed`); each has its own budget, batch size and backoff. `Select` is the batch query; `LoadTokens`, `PushAccepted`, `PushRefused`, `Settle` are the loop; `Commit` the one commit; `PushRaises` and `Crash` the ways a batch is lost. `Enqueue`, `CreateNotification`, `RegisterToken`, `DeleteToken`, `Tick` are the world around |
| `OutboxPushes` | the same, with a memory of what FCM saw, which no rollback erases | `rounds`, `reached`, `missed` ride along with the steps of `Outbox` |
| `NotificationRow` | one row, PATCH requests against senders | `Load`, `Update`; `Lock`, `Deliver`, `RollBack` |
| `RowStore` | a READ COMMITTED table (PostgreSQL is external: modelled from how the services use it) | operators that transactions are made of |
| `Selections`, `FcmTokens` | the two services, statement by statement, over `RowStore` | one action per statement; `Snapshot` and `Delete`/`Purge` are the two halves of a DELETE, which sees what is committed when it starts and then waits for the rows. In `Selections`, `Refuse` is the lookup of a group that is gone and `DeleteGroup` takes one away at any time nothing refers to it |
| `ProgramStructure` | `program_service.py` | one action per read or write of a request; `CascadeToYears` and `CascadeToSpecs` are the reads by which a program's deletion finds its years and specializations; `UseGroup`, `FreeGroup`: lessons and selections of a group |
| `Lessons` | `lesson_service.py` | validation and flush, one read of recipients per lesson, commit |
| `AuthSessions` | `auth_service.py` and the cleanup | one action per commit |
| `JwksCache` | `_get_jwks` | one action per stretch between two awaits; no specification of its own |
| `SignIn` | the user row of one address: `_get_or_create_user`, `set_user_role`, `_ensure_admin_user` | `Verify` goes from the keys to the read of the user without giving way, `CommitUser` is the rest of the login; `loop` says who has the event loop. `LoadUser`, `SetRole` are the request, `ReadAdmin`, `EnsureAdmin` the script |
| `ChangeLog` | how entries of `record_change` are read as the state of a table | operators |
| `AuditedTable` | what the change log promises of a table: no change without its entry, and the entries replay to the table | `Append` |
| `Catalog` | `catalog_service.py` on one table | `Create`; `Load`, `Update`; `FlushDelete`, `RemoveRow` (the entry gets its id before the DELETE waits for the row); `UseItem`, `FreeItem`: lessons |
| `ApiProcess` | the process: loop, slots, pool, tasks, lifespan | `stage` takes a request through `Arrive`, `Authenticate`, `TakeConnection`, `Authenticated`, `Handle`, `RunHandler`, `Return`, `Close`; a login through `SignIn`, `SignedIn`; `task` a task through `Wake`, `TaskConnects`, `Work`, `Sleep` (the daily cleanup twice through the middle ones, one session after the other); `turn` says who has the event loop; `Startup`, `Signal`, `SetStopEvent`, `Exit`, `Crash` |
| `OutboxProofs`, `SelectionsProofs`, `ProgramStructureProofs`, `LessonsProofs`, `AuthSessionsProofs`, `CatalogProofs` | theorems about the module each is named after (`OutboxProofs`: about `OutboxPushes` too) | |
| `NotificationProofs` | theorems about `NotificationRow` and `FcmTokens`, the two tables of a user's devices | |
| `SignInProofs` | theorems about `SignIn` and `ApiProcess`, the two models of the event loop | |
| `MC...` | values for the constants of the runs | |

`OutboxPushes` extends `Outbox`; `Selections` and `FcmTokens` extend `RowStore`;
`SignIn` is composed of the steps of `JwksCache`; `AuditedTable` and `Catalog`
extend `ChangeLog`; `Catalog` implements
`AuditedTable` under `table <- row`, `trail <- log`; and `Outbox` implements `Delivery` under the mapping `status <- deliveryStatus`,
`tries <- attempts`, `Budgets <-` the senders' `max_attempts`.

An UPDATE by SQLAlchemy sets the columns that differ from what the session
loaded, on the row as PostgreSQL has it by then. `NotificationRow`,
`ProgramStructure`, `Lessons`, `SignIn` and `Catalog` each say so (`Written`,
`CommitUpdate`, `Changed`), because
it is what saves some interleavings and breaks others.

Definitions named as variants of another one (`EligibleWithoutBackoff`,
`SkipPurge`, ...) are what a plausible bug would leave in its place. No
specification uses them: they show that each checked property can fail.

## Runs

Runs that pass:

| Configuration | Asks | Instance |
|---|---|---|
| `OutboxSafety` | do two senders with different budgets, backoffs and batch sizes record only what the life cycle allows (`TypeOK`, `ExclusiveProcessing`, `AttemptsWithinBudget`, `BatchMatchesRows`, `BackoffBetweenRecords`, `ImplementsDelivery`), and does the database know what FCM saw (`RoundsAccounted`, `SentWasReached`)? | `OutboxPushes` with 2 users, a notification each, 2 devices, 2 senders that both retry, budgets 2 and 1, backoffs 1 and 2, batches of 2 and 1, 2 token rows, 1 fault |
| `OutboxLiveness` | does every queued row get its attempt and every failed row its end (`DrainsQueued`, `RetriesConclude`)? | 1 sender, batch of 1 with 2 rows waiting, backoff 2, 1 fault |
| `NotificationRow` | do read marks and deliveries survive each other, and does a PATCH leave what it asks for, on whatever row it finds (`PatchTakesEffectUnlessClashed`)? | 3 PATCH requests, 2 senders; a third read status and delivery status stand for all other strings |
| `Selections` | is there one selection, unless PUT requests overlap, and what does a request do after they have (`UndisturbedRequestsHold`)? | 3 requests over 2 users and 2 groups, either of which may be deleted |
| `FcmTokens` | is there one holder, unless registrations overlap, and what does one do after they have (`LoneRegistrationHolds`)? | 4 requests over 2 users and 2 tokens: two may race and two more follow |
| `ProgramStructure` | do references exist, are groups consistent unless raced? | 3 requests, 2 programs, years and specializations, 1 group that may come into use |
| `Lessons` | is a window positive unless two updates overlap, a cancellation announced once unless two deletions do, and do group and lecturer hear of every change unless another request moves the lesson meanwhile? | 3 requests, 2 groups, a student and a lecturer, 2 lessons, 1 switch of group |
| `AuthSessions` | one live session per login, none after logout, good tokens known | 1 user, 3 requests, 3 sessions, 4 ticks with a lifetime of 2 and a grace of 1 |
| `SignIn` | is the key cache recent, do roles survive logins, does the administrator stay one? | 2 logins, 2 role requests, 2 runs of the script, 4 ticks with a time to live of 2 |
| `Catalog` | does the change log replay to the table, however requests overlap? | 3 requests, 2 subjects, of which one is yet to be created, 2 columns of 2 values, one unique |
| `ApiProcess` | does every request end, and every shutdown; is nothing left behind? | 2 requests, 1 login, both tasks, 1 slot, 1 connection |

One run ends in a counterexample to something the repository says of itself
(PROJECT.json quotes it):

| Configuration | What it shows |
|---|---|
| `PoisonBlocks` | a payload whose `data` is no object makes the sender raise, its batch is rolled back and selected again each minute, and the rows beside it stay queued |

The passing properties named `...Unless...` are the other side of those races:
they say exactly which requests have to overlap for the promise to break, and
that nothing else breaks it. What overlapped is a history variable that no guard
reads. The exempted overlaps are real: the models reach them, the code does
nothing about them, and no document of the repository promises otherwise.
Without the exemption, TLC finds these counterexamples:

- overlapping PUT requests of one student for different groups leave two
  selections, after which every request of that student fails, because
  `scalar_one_or_none()` (`selection_service.py:46-48`) raises
  (`OneSelectionUnlessRaced`); the entries of overlapping requests name rows that
  were replaced in between (`AuditReplays`);
- overlapping registrations leave a token with two users, or one user with two
  rows of it, after which that user's registrations fail
  (`OneHolderUnlessRaced`);
- two overlapping updates of a lesson, one of its start and one of its end, each
  valid, leave a lesson that ends before it starts (`WindowUnlessRaced`);
- two overlapping deletions of a lesson announce its cancellation twice
  (`CanceledOnceUnlessRaced`);
- an update of a lesson that another request moves between its read and its
  commit is announced to the group the lesson has just left
  (`GroupNotifiedUnlessMoved`);
- overlapping PATCH requests for different statuses leave `read_status` and
  `read_at` of different requests (`PatchTakesEffectUnlessClashed`);
- a year or specialization changes program under a group created since it was
  checked (`ConsistentUnlessRaced`);
- a refresh that has passed its checks opens a session after a logout of all
  sessions has run (`OneLivePerLogin`);
- a role request that read the user before the script made it an administrator
  takes that back (`AdminUnlessRaced`);
- of two overlapping updates of a subject, the entry of the second shows the
  other's column as it was (`LastEntryShowsRowUnlessRaced`, which is proved and
  not run): the log replays only if each entry is read as the columns it
  changes, which is how `AuditedTable` reads it.

Two of these properties also say what happens *after* such a race: a selection
request that no PUT overlaps, and a registration that no other overlaps, either
do what they are asked for or fail without changing a row, and they fail only on
what an earlier race has left, a group that is gone, or a token row that was
deleted after it was found. For these two the exemption is of single requests
(`disturbed`, `rivals`) and does not outlast them.

`RoundsAccounted` likewise says how far the database may fall behind FCM: by the
open batches and by those that were rolled back. A poison payload rolls its batch
back every minute without being a fault, so with one (`Poison # {}`) the rows of
its batch that went before it are pushed again without end, beyond the budget.
A login counts as ended (`closed`) once a logout revokes one of its sessions or
all of the user's; a logout that names a token which a refresh has revoked
already ends nothing, as in the code.
`SentWasReached` is one direction only: a row that is not `sent` may have
reached devices, which then get the message again (a partial failure is retried
for all of them), and may do so before it ends as `permanent_failure`.
`BackoffBetweenRecords` is about recorded attempts, and about the backoff of the
sender that makes the new attempt: attempts carry the time their batch began
(`push_service.py:247`), and the last rows of a batch that takes as long as the
backoff may be retried soon after they were pushed.

### Bounds, and why they are enough

- *Actors.* Every race found takes two requests; the third lets a request
  observe the state a race left, or race with a pair. In `FcmTokens` a fourth
  observes what the third did with that state. Two senders suffice for
  `ExclusiveProcessing`; the proof covers any number. The two notifications of
  `OutboxSafety` belong to different users, so tokens change owner between them.
- *Time* in `Outbox` is an age up to `Horizon`, which is at least every sender's
  backoff: beyond it all ages satisfy the same guards, and no bound on the clock
  is needed. `AuthSessions` runs `MaxTime = 4` ticks with a lifetime of 2 and a
  grace of 1: the cleanup deletes a session opened at the start from tick 3 if it
  is revoked and at tick 4, past its grace, if it is live, and one opened by a
  refresh within that lifetime still expires. No second grace period is reached;
  it would repeat the first, since sessions do not look at each other's times. `SignIn` runs 4 ticks with a time to live of 2: two
  generations of keys one after the other.
- *`MaxRows`* (token rows ever registered), *`MaxFaults`* (crashes and transient
  exceptions), *`MaxLessons`*, *`MaxSwitches`*, *`MaxSessions`* stop counters
  that grow for ever. One fault at any point is enough for every loss of a
  batch; a second one repeats it. The proofs do not depend on these bounds.
- *`RoundCap`* stops the history counter `rounds` where no property looks
  further.
- Requests, and in `OutboxSafety` notifications and devices, are symmetric where
  a configuration says `SYMMETRY`; none of those checks liveness.
- *Slots and connections.* With one of each, a request that keeps the connection
  and waits for the slot, one that has the slot and waits for the connection, a
  login that holds the loop and a task that wants both all meet; `ApiProcess`
  has no other counter, its clients come again and again, and it is checked for
  deadlock.
- *Values* in `Catalog` are two for a column: enough to differ and to collide.
- `CHECK_DEADLOCK FALSE` appears where requests run out: the system then really
  has nothing to do.

### Fairness

`FairSpec` of `Outbox` assumes weak fairness of each sender's steps and of time.
The code gives as much: the loop of `main.py:82-100` swallows every exception and
runs again after a minute, every request has a timeout of ten seconds, and rows
locked by others are skipped, so a sender never waits for another one. Only
boundedly many faults happen (`MaxFaults`): if every batch failed, nothing would
be delivered. Nothing is assumed of users or administrators.
`PoisonBlocks` uses the same fairness.

`FairSpec` of `ApiProcess` assumes that whatever is ready in the event loop gets
its turn and that slots are given in the order they were asked for, which is
what asyncio and anyio do: strong fairness of `LoopStep`, because others may
take the loop or the slot in between, and of `SetStopEvent`, which waits for the
last request. Handlers, batches and cleanups end, or time out waiting for a
connection, by weak fairness of their own steps. Nothing is assumed of clients,
of signals or of crashes. Without the pool's timeout (30 s by default) requests
would not end: one that keeps its connection while it waits for a slot and one
that has the slot and waits for a connection would wait for each other, and a
login or the daily cleanup, which wait in the event loop, for all the others
(variant `WaitForEver`).

## Proofs

The theorems hold for every value of the constants that satisfies the
assumptions their module names. Besides what the types of the constants say and
that bounds are natural numbers, these are:

- `Outbox`: notifications belong to users, and no status an administrator gives
  a new row stands for the missing row (`NotesAssumption`); budgets are positive,
  batch sizes and backoffs natural numbers (`SendersAssumption`); no backoff
  exceeds `Horizon` (`BoundsAssumption`); there are finitely many senders, since
  open batches are counted (`PushesAssumption`);
- `NotificationRow`: read statuses include `read` and `unread` (besides any
  others), the budget is positive, and there are finitely many PATCH requests,
  since the clock counts them (`RowAssumption`);
- `Selections`, `FcmTokens`: before the requests a student has at most one
  selection (`SelectionsAssumption`), and a token at most one row, of finitely
  many (`TokensAssumption`);
- `ProgramStructure`: ids of different tables differ, and the initial groups are
  consistent (`StructureAssumption`);
- `Lessons`: times are natural numbers and the interval of a series is positive
  (`LessonsAssumption`). Students and lecturers may be the same users;
- `AuthSessions`: the lifetime is positive, the grace period a natural number
  (`SessionsAssumption`);
- `Catalog`: a request that leaves a column out differs from every value
  (`CatalogAssumption`);
- `ApiProcess`: there is at least one slot and one connection
  (`ProcessAssumption`).

What stands for "no row" is no row (`AbsentAssumption` and conjuncts of the
others).

| Module | Theorem | Says |
|---|---|---|
| `OutboxProofs` | `TypeCorrect` | `TypeOK` is invariant |
| | `NoDoubleProcessing` | `ExclusiveProcessing` is invariant |
| | `BudgetRespected` | `AttemptsWithinBudget` is invariant |
| | `BatchConsistent` | `BatchMatchesRows` is invariant |
| | `RecordsSpaced` | `BackoffBetweenRecords` |
| | `Refinement` | `ImplementsDelivery` |
| | `SentMeansReached` | `SentWasReached` is invariant |
| | `EveryRoundAccounted` | `RoundsAccounted` is invariant if no payload is poison |
| | `PushesBounded` | then a notification is pushed at most as often as the largest `max_attempts`, plus once per fault |
| | `FinishedStaysOver` | a notification whose delivery has ended is pushed no more and keeps its outcome |
| `NotificationProofs` | `RowTypeCorrect` | `TypeOK` is invariant |
| | `PatchTakesEffect` | `PatchTakesEffectUnlessClashed` |
| | `MarksKept` | `DeliveryAndReadMarksKept` |
| | `TokensTypeCorrect` | `TokensTypeOK` is invariant |
| | `OneHolderHolds` | `OneHolderUnlessRaced` is invariant |
| | `LoneRegistration` | `LoneRegistrationHolds` |
| `SelectionsProofs` | `SelectionsTypeCorrect` | `TypeOK` is invariant |
| | `OneSelection` | `OneSelectionUnlessRaced` is invariant |
| | `AuditAlwaysReplays` | `AuditReplays` is invariant |
| | `UndisturbedHold` | `UndisturbedRequestsHold` |
| `ProgramStructureProofs` | `StructureTypeCorrect` | `TypeOK` is invariant |
| | `ReferencesKept` | `ReferencesExist` is invariant |
| | `GroupsConsistent` | `ConsistentUnlessRaced` is invariant |
| `LessonsProofs` | `TypesHold` | `TypeOK` is invariant |
| | `WindowHolds` | `WindowUnlessRaced` is invariant |
| | `CanceledOnce` | `CanceledOnceUnlessRaced` is invariant |
| | `GroupNotified` | `GroupNotifiedUnlessMoved` |
| `AuthSessionsProofs` | `SessionsTypeCorrect` | `TypeOK` is invariant |
| | `GoodTokensStayKnown` | `GoodTokensKnown` is invariant |
| | `OneSessionLives` | `OneLivePerLogin` is invariant |
| `SignInProofs` | `SignInTypeCorrect` | `SignInTypeOK` is invariant |
| | `KeysStayRecent` | `CachedKeysAreRecent` is invariant |
| | `AdminStays` | `AdminUnlessRaced` is invariant |
| | `LoginKeepsRole` | `RoleSurvivesLogin` |
| | `ProcessTypeCorrect` | `ProcessTypeOK` is invariant |
| | `NothingIsLeaked` | `NothingLeaks` is invariant |
| `CatalogProofs` | `CatalogTypeCorrect` | `TypeOK` is invariant |
| | `CatalogIsAudited` | `ImplementsAuditedTable` |
| | `LastEntryShows` | `LastEntryShowsRowUnlessRaced` is invariant (proved, not run) |

*Outbox.* `ExclusiveProcessing` is inductive with little more than types. The
budget is not: at a commit it follows from the verdict, which was computed from
`attempts` when the record was settled, so the invariant must say that the row
has not changed since. That is `IInv`: batches are disjoint
(`ExclusiveProcessing`), a sender keeps results only for rows of its batch
(`HoldsOnlyBatch`), a row in a batch is still as eligible as when it was
selected (`StillEligible`), each result fits the attempts of its row
(`OutcomesFit`), a queued row was never attempted (`Unattempted`), and the
record being sent is one of the batch without a result (`SendsOwnBatch`).
`StillEligible` needs that an age, once at a backoff, does not fall below it
(`OlderType`, with `Horizon` at least every backoff); this is also what
`RecordsSpaced` rests on. `Refinement` maps `Commit` to one
`Record` of the batch and `Enqueue` and `CreateNotification` to `Create`; every
other step is a stutter. `BatchConsistent` adds `TInv`: token ids are unique
and below the sequence, the tokens being pushed belong to the record's owner,
and ids marked invalid are of such tokens, so that what a commit deletes was
its own even if tokens came and went during the batch. The history of
`OutboxPushes` rides along (`PushesRefine`), so all of this holds of it too.
`SentMeansReached` adds that whoever has a message accepted or a record settled
as sent has pushed it and FCM has it, and that a refusal in the current round is
remembered until the record is settled (`Reaching`). For `EveryRoundAccounted`,
`RoundBound` looks at the one sender that moves: it forgets a record's pushes
only by a commit, which counts an attempt, or by a fault, which counts itself,
and `CountLess` compares the sets of senders before and after. A poison payload
rolls batches back without being a fault, hence the hypothesis; it is a value of
a constant, and the one `OutboxSafety` runs with. `PushesBounded` adds that at most
one sender has the notification in its batch, and that it then has an attempt left
(`InFlightHasBudget`). `FinishedStaysOver` is `StillEligible` again: a batch has no
finished notification.

*Notification rows.* `WrittenColumns` says what an UPDATE leaves in each column.
The sender that holds the row has its delivery columns (`Holding`), so only a
PATCH can write a stale one, and no PATCH assigns any. Requests for different
statuses that overlap are among the clashed (`ClashesFound`), so as long as
nobody works against a request, each read column is as in its copy or already as
it wants it (`NoneAgainst`): writing only what differs from the copy then leaves
what was asked for. `Earlier` says that a new `read_at` differs from every old
one, hence is always written; `Counted` ties the clock to the requests that have
ended.

*Push tokens and selections.* Both are requests over `RowStore`, and both proofs
rest on what a request that nobody disturbs knows of the table between two
statements. A transaction has rows of its own student or token only, and only
while it writes (`OwnRows`, `HoldsOwn`); who overlaps is found out (`RacesKnown`,
`RivalsFound`); so nobody else adds a row that the request must delete, and
what its DELETE has seen and then deleted is all there is (`SeesAll`, `Knows`),
although the two are separate steps and deletions may run in between. The
exemption is of the requests that a PUT of the same student, or a registration of
the same token, overlapped (`disturbed`, `rivals`): what an earlier race has left
is in the table when a later request reads it, and the theorems cover that
request too. `UndisturbedHold` puts together what a commit leaves of the rows a
request saw and that what it inserted is what it was asked for (`InsertsAsked`,
`Concludes`); a group that is gone never comes back, so a failed INSERT shows
one that is gone when the request ends. `LoneRegistration` needs what a
registration knows in each stage: one that has found a row of its user knows
that there is no other, one that has found none that there is still none
(`EndsAtOnce`). `AuditAlwaysReplays` is about a student none of whose requests
overlapped: such a request has read the row there is (`ReadsCurrent`), and an
entry appended to the log leaves what was replayed before it alone
(`LeftAfterAppend`, `ReplaysAppend`). The last entry of a student is described by
quantifiers over positions, not by recursion over the log, so that this is a
first-order fact.

*Program structure.* `ReferencesExist` needs only types and `Asked` (a request
is still what it was asked to be): `Referenced` is evaluated in the step that
deletes, and a row is written only if what it refers to is there. Consistency
spans several steps: what a request found when it checked a year stays true
unless the group is raced (`Checked`), because a change of program made in
between would have put the group among the raced ones (`RacingKnown`), and a
change of program about to be written finds no other groups (`Unlinked`).

*Lessons.* The rows a request will write are known to nobody else: ids of a
create are its own and unused (`Creating`), and one request holds the lock of a
row (`Locks`). An update that has flushed is valid and holds its row
(`Changing`); that this is still the row it loaded when it commits holds only of
an update that no other update of the lesson overlapped, and that a deletion is
the first only of one that no other deletion overlapped (`Alone`; an update may
overlap deletions and the other way round). This is where a raced update may
leave a window of two requests. `Notified` follows the recipients from the read
to the commit: whoever switches groups in between is among the unsettled. It
speaks of the group and lecturer the request has loaded or assigned, and these
are the ones of the committed row unless another request moved the lesson.

*Auth sessions.* Live sessions of one login are counted with
`FiniteSetTheorems`; the invariant says instead that two live ones are the same
(`OneLive`). Between the two commits of a refresh its login has no live session
and is not closed (`Pending`), which holds because the only request of the user
is this one (`Alone`). `GoodTokensKnown` is inductive with types: the cleanup
deletes only what has expired, and time does not run backwards.

*Sign-in.* A key set in the cache expires no later than its time to live after
Microsoft served it (`Stamped`: a call precedes its answer), whichever coroutine
stores last. The user is never deleted (`StillThere`), and a request is at work
on an administrator only if it raced (`AdminsAlone`). `LoginKeepsRole` follows
from `Renamed` leaving the role alone.

*API process.* `NothingLeaks` needs that the stop event is set only when no
request is left (`Quiet`); slots and connections are counted over finite sets
(`Accounts`), and a client takes a slot only where one is free (`ClientGoes`).

*Catalog.* Ids of entries differ, those of deletions not yet committed included
(`IdsDistinct`), and what was never inserted has no entry (`Unseen`); then each
new entry changes the replay of its own item only and as the table changes
(`Replays`). `Written` sets the columns that differ from the copy, and the entry
names just those, which is why stale copies do no harm. `LastEntryShows` adds
that the one request at an item that is not raced has the committed row as its
copy (`Alone`), and that a last entry exists (`LastShown`).

Only model-checked: liveness of `Outbox` (`DrainsQueued`, `RetriesConclude`) and
of `ApiProcess` (`RequestsConclude`, `ShutdownCompletes`). It rests on fairness,
and so on when steps are enabled, about which the prover cannot reason. Every
other property of the passing runs is a theorem. `PushesBounded`,
`FinishedStaysOver` and `LastEntryShows` go beyond what the runs check: they
rest on the same inductive invariants.

## Not modelled

- *Lecturer plan*: reads the lessons of a week and lays them out as a PDF; it
  changes nothing, and what it does is layout.
- *Change log retention* (`scripts/cleanup_change_logs.py`): one DELETE by age.
  The log then replays from a later table; that its ids and ages agree is not
  promised anywhere.
- *Migrations, configuration, schemas*: migrations run once before the first
  request; constraints, settings and the values a schema admits are guards,
  constants and sets of requests of the modules that depend on them.
- *Seeds and mock data*: `seed_db.py` fills an empty development database in one
  sequence, and nothing uses the store in memory. The administrator of
  `seed_minimal_db.py`, which runs beside the API, is in `SignIn`.
- *A startup that fails* ends the process before it serves anything.
- *Who may call what* (roles, ownership): each handler decides it before it
  touches anything; the models let any request come from any actor.
- *Users* are never deleted by any handler, so the lookup of one
  (`selection_service.py:43`) and foreign keys to `users` never fail. The
  `db.refresh` that handlers end with, after their commit, only reads: it fails
  if the row was deleted in between, and the tables stay as they are. "ok" and
  "error" in `Selections` and `FcmTokens` are how the transaction ended.
- Wording of notifications, formatting, names and codes, and the status of an
  answer. `catalog_service.py` answers 500 where it means 404 or 409, since it
  names `status` without importing it; the tables are the same either way.

## Plan

Written, in this order: `Delivery`, `Outbox` and its proofs; `OutboxPushes`;
`NotificationRow`; `RowStore` with `Selections` and `FcmTokens`;
`ProgramStructure`; `Lessons`; `AuthSessions`; `JwksCache`; `ChangeLog`,
`AuditedTable` and `Catalog`; `ApiProcess`; `SignIn`; then the proofs about
sign-in, catalog, notification rows, auth sessions and program structure; then
those about pushes, lessons, selections, push tokens and the API process.

Next, to prove: that an entry of the change log is never rewritten, carried over
to `Catalog` by `CatalogIsAudited`; that the lone requests of `Selections` and
`FcmTokens` implement an atomic replacement of a row, as a refinement.

To extend the model, what is left is composition: `Lessons` over the outbox, so
that a lesson's commit inserts the rows that `Outbox` drains, and broadcasts
against selections and the deletion of groups.
