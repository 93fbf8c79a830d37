# Verification of the AI commerce intelligence platform

TLA+ models of the platform's core, TLC configurations that check them on small
instances, and TLAPS proofs of the properties that matter most.  Paths below are
those of the repository (`backend/...` is `src/backend/...` in PROJECT.json).

## 1. The system

The platform keeps orders in MySQL and shows them in dashboards, reports and an
AI assistant.  Orders change in three ways: producers send **events**, users
upload **files**, an operator runs a **CLI import**.  Everything else reads.

| Component | State it keeps | Operations | Talks to | What is hard | What makes it correct |
|---|---|---|---|---|---|
| Order event service (`services/order_event_service.py`, `routes/order_events.py`) | ledger `order_events`, read model `orders`, counter `data_state` | apply an event: look up, insert into the ledger, read or lock the order, create or change it, replay earlier events, bump the version, commit; answer | caches after the commit | concurrent transactions under REPEATABLE READ, lock waits and cycles, timeouts that hide a commit, retries, events out of order | ledger explains every order, one row per event id, orders never regress, version counts the changes, answers are durable |
| Data import, runs (`services/data_import_service.py`, `routes/data_import.py`) | `data_import_runs`, the named lock, background tasks | upload and cleanup, validate, confirm, execute, cancel | rows, MySQL named lock | loaded status is stale at the UPDATE, token rotation, the probe of the lock, crash of the process | one execution at a time, verdicts are final, "nothing was written" is true, started runs end unless the process dies or its bookkeeping raises |
| Data import, rows | `data_import_rows`, `orders`, ledger, version, AUTO_INCREMENT | stage a batch, apply the conflict policy, write a chunk, consistency check | event service (same tables) | events between two chunks, savepoints, keys taken by AUTO_INCREMENT | imported means in the ledger, failures have a reason, counters are exact |
| Cache of analytics (`utils/cache.py`) and RFM snapshots (`services/rfm_service.py`) | Redis or a dictionary, lock dictionaries with user counts, snapshots | cached read, cleanup, invalidation, clearing | Redis, sessions | awaits between look, lock and store; cleanup while requests wait; version read twice; Redis going away | one rebuilder per key, content matches its version |
| Orders and BI paging (`services/order_service.py`, `routes/bi.py`, `bi_api.py`) | none; client keeps pages | page at a version, retry the whole read | `data_state` | commits between pages, RENAME of the table | a delivered read is one snapshot |
| CLI import, reconciliation (`scripts/import_orders.py`, `scripts/reconcile_orders.py`) | staging table, named lock, audit rows | guard, stage, swap tables, bump the version; select and rewrite refunds no event told | same tables | swap and bump are two commits, guard before the swap, events between select and update | every status has an event or an audit row, a torn read only between swap and bump |
| Sales, RFM and exports (`services/analytics_service.py`, `services/rfm_service.py`, `utils/rfm_scoring.py`, `bi_rfm.py`, `streamlit_app.py`, `routes/export.py`) | the session of the dashboard: rows, parameters, an offered file | aggregate, score, segment, export; the same again in a data frame | orders | two implementations of one figure; a file older than what it stands beside | page, API and file agree on the same orders, as far as thresholds and names of customers do |
| AI limits (`services/ai_limits.py`) | in-flight counts, semaphore, audit rows | quota, acquire and release a slot | AI gateway | check before, count after; timeout racing the grant | slots never leak, limits hold |
| AI gateway (`routes/ai.py`, `services/ai_service.py`) | one task per request | query, stream, test, pop the last turn; audit | limits, agent, stores | disconnect and timeout at any step | every slot comes back, whatever is cancelled |
| Agent (`agent_core/runtime.py`, `routing.py`) | the state of one question | route, generate, validate, execute, synthesize, save | model services, SQL, stores | three edges sharing one retry counter | an answer rests on the result of its own last query |
| Conversation store (`agent_core/session.py`) | turns in Redis, or in memory | get, save, pop | agent | WATCH conflicts, calls that raise after their effect, fallback and return of Redis | each store is a log of turns; context is complete |
| Memories (`agent_core/memory.py`, `services/memory_service.py`, `services/episode_memory_service.py`) | preferences and episodes per owner | remember, recall, prune, delete, embed later | agent | an embedding written long after its turn | what is deleted or over never comes back |
| Assistant page (`ai-ecommerce-assistant/app.py`) | messages, thread, ratings of a browser session | ask, show, clear, rate, regenerate | AI gateway | a click ends the script where it is, the backend goes on | what was cleared or taken back is not in later prompts |
| Rate limiter, authentication (`utils/rate_limiter.py`, `utils/auth.py`, `routes/auth.py`, `scripts/manage_auth.py`, middleware of `main.py`) | windows, login failures and locks, accounts, token versions | count, lock; bootstrap, login, refresh, logout, commands of the operator | all routes | awaits between check and record; two starts at once; a command that waits at the terminal | sessions end when they are ended, guesses are limited, passwords are kept |
| Others (section 7) | - | - | - | - | - |

Interaction: `OrderLedger` names the tables all writers share.  The event service
the imports and the reconciliation write them; each change moves
`data_state.data_version`, and the cache and the paging reader key what they keep
by that version.  On the AI side a request of the page passes the rate limiter and
the authentication, then quota and slots, walks through the graph, which reads and
writes the conversation store and the memories, and leaves an audit row, which the
quota counts.

## 2. Modules

| Module | Models | Uses |
|---|---|---|
| `OrderLedger` | what the event service promises: one atomic step per event (abstract specification) and the properties of the tables | |
| `OrderEvents` | the transactions of `order_event_service.py`, statement by statement | `OrderLedger`, which it implements |
| `OrderLedgerProofs`, `OrderEventsProofs` | theorems | both |
| `ImportRuns` | the life of an import: requests, background tasks, named lock, crash | |
| `ImportRunsProofs` | theorems | `ImportRuns` |
| `ImportFiles` | an uploaded file: type, header, columns, cells, amounts and times, and the orders its lines stand for | |
| `ImportRows` | staging, chunks, counters, consistency check and reports, with events in between | `ImportFiles`; `OrderLedger` as the environment |
| `ImportRowsProofs` | theorems | `ImportRows` |
| `AnalyticsCache` | the `@cached` decorator and the RFM snapshot below it | |
| `AnalyticsCacheProofs` | theorems | `AnalyticsCache` |
| `OrderSnapshots` | what a reader of all orders is promised (abstract specification) | |
| `Sales`, `Rfm` | the figures of orders, sales and customers, in SQL and in the data frame | |
| `OrderReads` | paged reads, dashboard session, CLI import, reconciliation | `OrderLedger` as the environment, `Rfm`; implements `OrderSnapshots` |
| `OrderReadsProofs` | theorems | `OrderReads` |
| `AiLimits` | quota, in-flight counts, semaphore | |
| `AgentGraph` | the nodes of the graph as what each may leave behind | |
| `TurnLog` | what a store of conversations promises (abstract specification) | |
| `Conversations` | Redis and memory stores with WATCH, retries and fallback | implements `TurnLog`, twice |
| `Memories` | preferences and episodes | |
| `AiRequests` | the AI gateway: one request through limits, graph, stores, audit | composes the four above |
| `AiRequestsProofs` | theorems | `AiRequests`, `Assistant` |
| `Assistant` | the page of the assistant | on top of `AiRequests` |
| `RateLimiter` | windows, login failures, locks, periodic cleanup | |
| `Access` | logins, sessions, credentials and the operator's commands | `RateLimiter` |
| `AccessProofs` | theorems | `Access` |
| `MC...` | constants for TLC | one each |

### Order events

A session (one request's database session) goes through the statements of
`_apply_in_transaction`; `pc` names the statement it executes next.  Plain
`SELECT`s read `seen`, the snapshot taken by the first one; writes and
`FOR UPDATE` act on the committed tables.  Effects become visible only in
`CommitApplied` and `CommitRejected`, so the committed tables are the variables
of `OrderLedger` itself and the refinement needs no mapping.  Locks are derived
from where transactions stand (`HoldsLedgerRow`, `HoldsOrderRow`,
`HoldsOrderGap`, `DataStateLocked`), following the unique keys, `FOR UPDATE` on
present and missing rows, and the `UPDATE` of the single `data_state` row.
`Abort` is the 5 s timeout, a lock wait timeout, a lost connection or a crash;
`Answer` may turn a committed result into an error.  A client may send any event
again at any time.

### Import runs

Each request is a sequence of steps: load and check, then one conditional
`UPDATE` that repeats (or does not repeat) what was checked.  What was loaded is
kept in `request`.  A task is the validation or the execution of one run; the
execution holds the named lock from `GetLock` to `ReleaseLock`.  Rows are counted
in chunks.  A statement that no handler covers ends its request or task and leaves
the run as it is (`Strand`): loading the run after the claim was committed,
connecting and `GET_LOCK`, opening the session and loading the run, and
`_mark_execution_failed` itself (`RecordFailure`).  `old` stands for
"past the retention period": `finished_at` is set
when validation ends and by no later confirmation or start.  `written`, `late`
and `stranded` are history variables for the properties.

### Import rows

`ImportFiles` says what is read of an upload: which header maps to which field
(with its alias and its blanks), how a cell becomes text, amount, time or key,
what is wrong with a line, and which order it stands for, in thousandths of the
currency and in hours.  An import is then staged in batches, written in chunks;
a chunk reads what exists (`SelectChunk`), then inserts, records events, bumps the
version and updates rows and counters in one transaction (`ExecuteChunk`), falling
back to row-by-row savepoints on a conflict.  Between all of these, events of the
API commit as the atomic steps of `OrderLedger`; `OrderEventsProofs!Refinement` is
the reason why that is enough.  `seqs` and `nextSeq` are the primary keys and the
AUTO_INCREMENT counter, which a failed attempt uses up as well.  `Progress`,
`Preview`, `RowPage`, `Result` and `Failures` are what the status, preview, page,
result and export endpoints show of a run.

### Analytics cache

A request is a coroutine; a step is what it does between two awaits, with the
answer of Redis or MySQL it waited for.  The content of `orders` is named by its
data version (justified by `VersionMovesWithOrders`), a cached value by the
content it was computed from.  Lock objects are numbers; a dictionary entry may
be dropped while requests still hold or queue on the object, and a new object is
then created: that is the hazard the user counts are for.  A request reads the
version in its session, which fixes its snapshot, and the RFM functions read it
again; each read may fail.

### Reads of orders

A reader is a session of the dashboard.  A read is one request per page; the first
fixes version and total, each later one compares both (`SamePages`), a difference
begins the read again, at most `MaxAttempts` times.  `taken` (the list when the
first page was read) and `torn` (the table was swapped since) are history.  The
CLI import is one action per statement that commits, with `ImportRaises` and
`ImportDies` in every position: `Rename` changes the orders, `Bump` the version.
The reconciliation selects candidates and later rewrites those that did not change
(`Changed`).  The session keeps the last result, the parameters of its page
(`view`) and the file it offers.  `Rfm` and `Sales` have every figure twice, over a
set of orders as the SQL computes it (`Sql...`) and over a list as the data frame
does (`Frame...`); quantile scores are computed once, as in the code.  A customer
has three names: the one stored (`UserOf`), the one MySQL groups it under
(`CustomerOf`; `utf8mb4_unicode_ci` takes several spellings for one name), and the
masked one (`MaskedOf`) that `routes/bi.py` sends to a principal without
`data:pii`.  The page groups by what it got (`Names`); which of the two that is does
not depend on the session alone, since `load_data` keeps its rows for all sessions
of the dashboard, so a read chooses `masked` when it is complete.

### AI requests

`pc` says where a request is between two awaits: before its authentication, before
or in the queue of the semaphore, running, at its audit row.  `AiLimits` has the
semaphore of asyncio as it is: a released slot is handed to the first waiter, and
its wait may time out before it takes the slot up.  `run` is the state of the
graph; `AgentGraph` gives for each node the set of states it may leave behind, the
edge included, since what the model writes and what the database returns is
outside; `generated`, `sql` and `rows` say which statement each belongs to.  A call of
the store (`call`) is a step per command of Redis, or one step on the memory of
the process; it may raise with or without its effect.  `Disconnect`, the timeouts
of `BreakOff` and `GiveUpQueue` may come at each step.  `used`, the audit rows of
the day, is what the quota counts.  The page (`Assistant`) sends requests; a click
while it waits ends the script (`Interrupt`) and leaves the stream to the backend.
`Replace` deletes an answer and its question whatever the pop has answered: `gone`
has all that was cleared or replaced, `kept` those the backend has not said it took
back.

### Access

A call is a request, a start of a process or a command of the operator, split
where it awaits: the middleware counts the address (`Enters`, `TooMany`; the page
that logs out is `Uncounted`), then the handler reads the account, compares and
records.  A login comes with a name as typed (`NameOf`, stripped and lower-cased),
which is what its failures are counted under (`LoginKey`), and finds an account
(`UserOf`), which MySQL looks up by its collation; several names may find one
account.  A start (`StartProcess`) replaces the process, whose counters and requests
are gone (`RatesForgotten`), or adds a worker with counters of its own; the counters
modelled are those of one process (the `Dockerfile` starts one worker).
`seen` is the row a call has read, which its session repeats.  `born` of
a token is how often the sessions of its account had been ended before its login;
`lost` are the accounts whose version a command overwrote (finding 4); `failed` and
`late` say when a login was refused, and when its key was locked while it was
on its way; `crowd` is the largest number of logins of a key that were past
`check_login_lock` together: history, as `born` is.

## 3. Runs

All runs are on small instances that make the interesting case happen.

| Run | Instance | Shows |
|---|---|---|
| `events_race` | 2 sessions, 4 events on 2 orders (one from the CSV, refunded), one reused id, 1 abort; 23,332 states | transactions refine `LedgerSpec`; ledger explains orders; ids unique; answers durable; orders never regress; every event that is sent again and again is recorded: no lock cycle |
| `events_lost_refund` | 2 sessions, 3 events on 1 order | **violation**, finding 1 |
| `import_runs_race` | 1 run, 3 requests, 2 tasks, 2 tokens, 2 chunks, 1 crash; 188,385 states | verdicts are final, the latest token starts the run, cancellation messages are true, cancellation stops the next chunk |
| `import_runs_pair` | 2 runs, 1 request, 2 tasks; 858,037 states | executions exclude each other, completed is complete, started runs end, but for errors that nobody handles, which still give the lock back |
| `import_runs_cleanup` | 2 runs, 2 requests | **violation**, finding 2 |
| `import_rows_race` | 16 files: repeated orders and keys, amounts that round, lines and files that are refused; batches and chunks of 2, 4 API events; 39,408 states | rows, ledger, orders, counters, reports and version agree at each step; imported orders are sound |
| `import_columns` | same | **violation**, finding 3 |
| `cache_race` | 3 requests, 2 functions, 2 versions, 2 faults; 568,139 states | one rebuilder per key, versions hold, answers are fresh, lock entries do not accumulate |
| `order_reads` | 1 reader with 2 reads of 2 attempts, pages of 1 order, 2 events, 2 CLI imports with different files, reconciliation, 3 names of customers of which two are one for MySQL and two others have one mask; 1,362,134 states | reads refine `OrderSnapshots`; every status has its cause; page, API and file agree as far as thresholds and names do |
| `ai_requests` | 5 sets of arrivals (below); 230,811 states | no slot is lost and every one comes back; answers rest on evidence; context is complete; stores are logs; what was deleted, cleared or taken back stays away |
| `access` | 6 sets of calls (below); 447,706 states | ended sessions stay ended, guesses are limited, passwords are kept |
| `access_password` | same | **violation**, finding 4 |

### Bounds

`MaxAborts`, `MaxTokens`, `MaxCrashes`, `MaxChunks`, `MaxVersion`, `MaxFaults`,
`MaxReads`, `MaxAsks`, `MaxNow`, `MaxSessions` bound what could go on for ever; each is a
constant of its module and a guard of the action it bounds (`MaxChunks` bounds the
length of a file).  One failing transaction shows what a failure in each
position leaves behind, since a failed transaction leaves no state other than the
freed session.  Two tokens are one rotation.  Two chunks are one before and one
after a cancel request, and one crash leaves the database in each state it can
be found in.  Two data versions are "before and after a commit"; three requests
are one that rebuilds, one that waits and one that arrives after a cleanup.
Two reads of one reader are one and the one that follows it, with what the session
kept; two pages are the first and a later one, readers do not change anything, so
one is enough.  Sessions beyond two meet at the same kinds of locks; the theorems
cover any number.  Events are chosen so that each reason to reject, a duplicate, a
reused id, a replay and a competition between two final statuses happen.  Symmetry
is used only in runs with safety properties.

`Arrivals` (of `AiRequests` and `Access`) is a bound of another kind: the sets of
calls that come together, since all of them at once are too many.  AI requests: two
questions of one thread with a pop, a question and a test of another principal that
wait for one slot, a test and a question about data, documents or both of one
principal, a preference and a question that refers to it, and the page alone with
three questions, of which it asks two (`MaxAsks`).  `Faulty` names the callers
whose calls to Redis may raise, `Volatile` the threads that may expire,
`PageThreads` the threads the page opens one after the other.  Access: four logins
of one name; three of one and one of another spelling, in a store with room for
one; three logins and a restart; two starts with commands; a session with logout,
refresh and a new password; one with deactivation; queries of a user and a service.  `Uploads` are
the files of the import runs.

Limits of TLC's integers play no role: the largest value is an amount.

`ImportRuns`, `ImportRows`, `OrderReads`, `AiRequests` and `Access` stop in the end
(a bounded number of uploads, one import, bounded reads, calls that come once), so
these runs do not check for deadlock; waiting for ever is covered by
`StartedRunsEnd` and `SlotsComeBack`.  The event and cache runs check it.

### Fairness

`OrderEvents!FairSpec`: weak fairness of each session's next statement (the event
loop runs ready coroutines, InnoDB grants a free lock to a waiter), strong
fairness of taking up each event (a producer sends an event until it is answered;
other requests may keep the sessions busy, but each time one becomes free the
server may pick this request).  Aborts are bounded and not fair.
`ImportRuns!FairSpec`: weak fairness of each task; clients promise nothing.  A
crash ends tasks for good, and so does a statement that raises outside every handler;
`StartedRunsEnd` has both as exceptions (`crashes`, `stranded`), and still asks that
the named lock be free in the end.
`AiRequests!FairSpec` and `Assistant!FairPageSpec`: weak fairness of "some request
takes a step", which is less than fairness of each request: the event loop runs
somebody who can go on, and the waits for a slot and for an answer end by their
timeouts.  Since calls are bounded this is enough for `SlotsComeBack`; clients,
disconnects, faults and clicks promise nothing.

## 4. Proofs

The proof modules contain no assumption beyond those the specifications state on
their constants, which TLC evaluates in every run of the module:
`EventsAssumption` and `SnapshotAssumption` (events have the fields of the
request schema, the imported orders are orders), `NoEventAssumption` and
`MaxAbortsAssumption`, `ActorsAssumption` (requests and tasks are different, and
none of them is the free lock), `FunctionsAssumption`, `LocksAssumption` (there
are lock objects, different from "none"), `BoundsAssumption`, and for the reads
`PagesAssumption`, `ViewsAssumption`, `ImportsAssumption`, `ListingAssumption` (the
listing has every order once, so there are finitely many), `ColumnsAssumption`
(an order has a day and an amount in cents) and `NamesAssumption` (one spelling is
one customer for MySQL and has one mask; what has no name stays without), and for the AI gateway
`PrincipalsAssumption` (each of finitely many requests has a principal),
`LimitsAssumption`, `CallersAssumption`, `StoresAssumption`, `MemoriesAssumption`,
`RequestsAssumption`, `ThreadsAssumption` and `PageAssumption` (who calls what,
bounds that are positive), for access `AccessAssumption`, `RatesAssumption` and its own
`LocksAssumption`, for files `FieldsAssumption`, `UploadsAssumption` and
`SizesAssumption`.  The theorems hold for every number of
sessions, orders, events, runs, requests, tasks, keys, versions, readers, pages,
CLI imports, principals, threads, files and accounts, and for every value of the
bounds.  Four of the assumptions carry weight.  `ThreadsAssumption`: a thread has
one principal, as the keys of both stores hold the owner besides the name.
`PageAssumption`: the page never opens a thread a second time, since a `thread_id`
is a fresh uuid4 (`app.py:281`, 939).
`UploadsAssumption`: no producer sends an event id that is the hash of a file and a
line of it.  `LocksAssumption` of `RateLimiter`: a lock lasts at least as long as
the window of the failures that led to it; both are 300 s
(`rate_limiter.py:16-18`).

**The atomic ledger** (`OrderLedgerProofs`, about `LedgerSpec`).  The inductive
invariant `LedgerInv` (`LedgerInvariant`) is the type invariant, one row per id,
and "the ledger explains every order": from it follow `LedgerExplained` and
`EventIdsAreUnique`.  `OrdersNeverRegress`, `VersionFollowsOrders` and
`LedgerRowsAreFinal` are about single steps and use the invariant for the state
before the step (that a creation finds no order, for instance).

**The transactions** (`OrderEventsProofs`, about `Spec` of `OrderEvents`).  None
of the properties is inductive by itself: a transaction decides many statements
before it commits.  `IInv` says what a lock holder may still rely on:
`LedgerLocksInv` (an uncommitted ledger row is held by one session and its id is
not committed), `OrderLocksInv` (row locks on an order exclude each other and gap
locks), `DecisionInv` (the decision about to be committed is still right),
`SnapshotInv` (what an old snapshot saw was true, and of the rejected events it
saw only a creation can take the verdict back), `ReplayInv` (a creation replays
nothing, or one rejected event above its version), `VersionInv` (the version
about to be committed is the next one, and one session has it).
`LockDiscipline` proves it, one lemma per conjunct and one step per action.
`Refinement` then maps each commit to a step of the ledger and every other
statement to a stutter, so `TransactionsExplained`, `TransactionsIdempotent`,
`TransactionsNeverRegress`, `TransactionsMoveVersion` and
`TransactionsAppendOnly` are the ledger's theorems read through it.
`AnswersHold` adds that an answer given is backed by a row that stays.
`TypeCorrect` is the type invariant.

**Imports** (`ImportRunsProofs`).  What a request or a task loaded may be stale,
so the invariant says which facts are not: `RequestOK` (a confirmation loaded a
confirmable status, a run selected for cleanup is past validation, a probe gives
back its own lock), `TaskOK` (a validation finds its run "validating", an
execution never finds a run that did not start, it has the lock until it releases
it, and reaches finalization with no row left unless it saw a cancel request),
`OneTaskPerRun`, and `RunOK` (nothing is written before the start; a run cancelled
before the start has neither rows nor a task; a late chunk was the last one).  One lemma per
action proves `ImportInvariant`; actions of a kind share `RequestMoves`,
`TaskMoves`, `RunIsScheduled`, `RunIsUpdated` and `VerdictIsRecorded`.  It gives
`TypeCorrect`, `ImportsAreExclusive`, `NotStartedIsTrue`, `CancellationIsPrompt`
and `CompletionIsTotal`; `VerdictsAreFinal` and `TokensAreCurrent` follow from it
for each step (`StepsOfRuns`).  That a deleted run has no rows left is needed for
finding 2: a task whose run is deleted under it stops at the end of its chunk.
Which runs are stranded matters to no safety property; the proofs carry `stranded`
along and need only that a stranding step moves nothing else.

**Rows of an import** (`ImportRowsProofs`).  `ImportInv` says what each status of a
row stands for, at each step: an imported row has its order and its events
(`RowsInv`, `RecordedInv`), a row in conflict, failed or skipped has a rival in the
file or in the tables that is still there, since nothing is deleted.  `ReadInv` is
what makes that true of a verdict reached from what the chunk read before events of
the API committed: what it found exists still, and what it did not find is met at
the insert by its key.  `SeqInv` (keys in use are below the counter), `CountInv`
(counters are the numbers of rows), `PhaseInv` (which statuses occur when) and
`FileInv` complete it.  An accepted chunk leaves the ledger explaining each order,
with the creation, and the refund if there is one, of each row
(`LedgerInv`, the same as of the atomic ledger).  The fallback row by row is a
recursive function on sets of rows; that it exists and tries each of them is shown
by induction on the size of the set (`TriedAll`).  `ImportInvariant` gives the theorems on
rows, orders, reasons and ends; `ProgressIsTrue` adds that pages of a status cover
its rows (a lemma on division), that the tables of a finished run leave no row out
and the rounding of the percentage.

**Cache** (`AnalyticsCacheProofs`).  The invariant has a part about locks and one
about versions.  `Locking`: whoever took a lock object out of a dictionary finds
the same object in it until it leaves, so a new object is made only when there is
no user, and two holders of one key's lock would be holders of one object.  The
cleanup preserves this because it drops only locks without users, and a leaving
user because it drops the lock only if it was the last one (`KeyLockStep`,
`SnapshotLockLeave`).  `Versioning`: the version in a key is the one the session
read, which fixed its snapshot; so a value on its way into the cache is the
content of its key's version, unless it came out of the snapshot cache (finding
4).  `CacheInvariant` gives `TypeCorrect`, `RebuildersAreAlone`,
`SnapshotLocksDoNotPileUp`, `EntriesMatchTheirVersion`, `AnswersMatchTheSession`.

**Reads** (`OrderReadsProofs`).  `ReadsInv` is the type invariant and `ReadOK` of
every reader: while a read is under way its version is not ahead of the data
version; as long as the table is not swapped and the version is still the one of
its first page, the list of the orders is still the list taken then; its rows are
the pages of that list up to the current one; between reads nothing is left.  The
type invariant alone does not say what a version stands for, and this is what
makes a page that finds version and total unchanged the next page of the same
list.  It is kept because each event that changes the list moves the version
(`ReadsKeptByTableStep`), the reconciliation likewise, and RENAME, which does not,
marks the reads as torn; a page joined to its predecessors is a prefix again (a lemma
on `SubSeq`).  `SnapshotReads` maps each action to a step of `OrderSnapshots`: the
first page takes the list, `Assemble` delivers it, `Rename` is the swap.
`StatusesExplained` is inductive with the type invariant: an event that gives an
order a final status leaves the row that explains it, a later one finds the order
final; the reconciliation writes its audit row with the status, and only to orders
that are still untouched; a swap leaves only active ones.
`ReadsTypeCorrect` is the type invariant, with the
CLI's and the reconciliation's variables.

`ViewsAlwaysAgree` needs little of a behaviour (`FilesFit`: a file was made for the
view it is kept under, and that is the one the page has) and much of the figures.
The list of a set of orders has each of them once (`ListOfOrders`).  A sum over a
set is the same whichever element is taken first (`AnyFirst`) and the same over
places as over what stands there, if nothing stands there twice (`TotalOver`); so
the rows of a list give the figures of its orders (`RowsAreOrders`), and, if the
page tells customers apart as MySQL does (`Told`), data frame and SQL the same
customers and measures (`SameMeasures`).  The sales page is a filter and a grouping
of such rows (`PageFigures`, `SalesAlwaysAgree`).  Of its number of customers less is
true: names that are a function of other names are no more than those (`FewerNames`),
and names as stored determine those of MySQL, and those of MySQL the stored ones only
if each customer has one spelling (`UsersAgree`).  Cards depend on the thresholds:
they agree where those of the page are the API's (`SameCards`), the total always does
(`TotalCounts`), and the first view of the page has the thresholds of the API's
defaults (`FirstThresholds`: 3 of 5 bins).  Files agree for all thresholds, since the
page sends its own.  Overviews of page and API count recency from different days at
first, the latest order shown and the latest of all: the k-th smallest value moves
with the values (`SmallestMoves`), hence the bounds of the quantiles, and no score
changes (`ScoreStays`, `SameScores`, `SameOverview`, joined in
`OverviewsAlwaysAgree`); for this both days must be no earlier than any current order
(`PageHasDays`).  Sums and extremes are defined by recursion on sets; what they do is
shown by induction on the number of elements, with sets of numbers instead of
predicates (`Induction`, from the well-foundedness of the naturals).

**AI requests** (`AiRequestsProofs`, about `Spec` of `AiRequests`).
`StoresImplementLogs`: Redis and the memory of the process each implement `TurnLog`.
`StoreInv` is what a transaction under WATCH may rely on: one nobody disturbed since
it read still finds in Redis what it read, and what it is about to write is one turn
more or one turn less.  Whatever a save or a pop does (write, conflict, retry, fall
back to memory, be cancelled, find its thread expired) is then a step of the log or
none.  `SlotsConserved`: the counts of the semaphore and of the principals say
nothing of the deque, so `SlotInv` adds that it has each waiter once and nobody
else, and that a request that has not passed the quota has no slot: nobody enters
twice.  `WakeMoves` counts the holders when a slot goes to the first waiters, and
`MovesKeepSlots` covers taking up, release and timeout at once; a waiter that times
out just when it was granted a slot hands it on.
`AnswersAreGrounded`: the state of a graph between two nodes says too little, so
`OnItsWay` says for each node what a run that is about to enter it has behind it: how
many nodes, calls and retries, that a statement to be validated or executed is the
one just generated, that rows are those of the last statement unless an error says
so, that the evidence of an analysis comes from tools that have run.  One lemma per
node follows `AgentGraph`.
`ContextsAreComplete`: with one slot per principal and a Redis that does not fail, a
request that has loaded its history stays in line with its thread, because nobody
else of its principal is between load and save (`PlaceInv`) and each thread has one
principal: so each turn in Redis was answered with the turn before it in its
context (`Chained` of `ContextInv`).  The property speaks of two turns that are in
the store in this order; in between are pops, expiry and the cut to the last
`MaxTurns`, all of which take from one end (`Piece`).
`ForgottenIsForgotten`: `MemoryInv` says that a row was written by its turn, and that
a deleted one had been written; since a turn writes its row once, at one node of
its graph, nothing that is deleted comes back, nor is it recalled.

**The page** (`AiRequestsProofs`, about `PageSpec` of `Assistant`).  A step of the
page begins requests of `AiRequests` or takes the answers up, so `ServerInv`, the
conjunction of the invariants above, has to be kept by it too
(`PageNextKeepsPage`): a question is asked by a request that has not been asked, and
so has left nothing behind yet (`Asleep`).  `PageKeepsPromises`, `PageKeepsLogs` and
`PageForgets` are the properties of the requests read through it,
`PageTypeCorrect` its type invariant.
`PromptsFollow` needs to know where turns are.  `Within` a thread in one of the stores
is only what was saved in it (`TurnsInv`); with a Redis that does not fail each turn
is there once, and in one of the two stores only.  So a turn that a pop has taken, or
that expired, is in no store and is never saved again: it is `Taken`, and stays so
(`TakenStays`).  `OpenInv` says of the page that what is gone from its messages is
`Taken`, belongs to a thread it has left (`Left`), or is `kept`: replaced on the page
and not taken back as far as the page was told.  A context has none of the turns that
were gone when its question was asked, but kept ones of its own thread.  The case
that decides is a pop that has answered
"removed": it has removed some turn with the same question, and this is the replaced
one only because no other turn of the thread asked the same (`TakenBack`); for a
question asked twice it may be another (section 5).  That a turn of a thread the
page has left does not come back is where the fresh `thread_id` is needed.

**Access** (`AccessProofs`).  `AccessInv`: the version of an account is one more than
the number of its endings unless a command has overwritten it (`UserOK`); a token
and a call that has read its account carry a version and a number of endings of one
moment (`TokenOK`, `CallOK`).  The second part is what lets a login, or a refresh
whose account is logged out meanwhile, give out a token that is refused from the
beginning: `EndedStaysEnded`.  `PasswordsKept` follows since accounts of the
environment are inserted only where no row is, and a command that changes a password
adds one to the version it read.
`GuessesLimited`: the list of failures is pruned, cleared by a lock and overwritten
at each attempt, so the number of failures in a window is not in the state.
`GuessInv` puts it there, for each key and each window that is not over.  Either the
key was not locked in it (`NotLockedIn`): then each login refused in it has an entry
of its own in the list (`Cover`, an injection that keeps times), so there are fewer
than the limit.  Or it was (`LockedIn`): then the lock outlasts the window, and who is
on the way now was on the way when it came, and is marked `late`.  So the refused
logins of any window are those the list has counted (`InTime`, at most the limit: the
last one brings the lock) and those that were past the check together with that last
one (`Late`, fewer than `crowd`), which is `WindowOK`.  This is what the code limits: it
checks before it reads the account and counts after, so a crowd of attempts is
refused, one by one, although the key is locked by then.  `RatesTypeOK` adds that
each list is in the order of time, which is why pruning from the front is pruning by
age.  `AccessTypeCorrect` is the type invariant.

TLC checked each inductive invariant on the instances of the runs before it was
proved.

What only TLC shows: liveness (`EveryEventIsRecorded`, `StartedRunsEnd`,
`SlotsComeBack`), which the prover does not reach.  Every invariant and every action
property of the passing runs is a theorem.  The type
invariants of the ledger, the transactions, the import runs, the cache and the reads
are theorems and appear in no run.

Two attempts failed for a reason that lay in the property, and TLC confirmed it:

- "A cancelled run shows 100.0 % only if nothing is left" is what the comment at
  `data_import_service.py:830` is after.  The percentage is rounded to one decimal,
  so a file of 2001 rows cancelled after four chunks of 500 shows 100.0.
  `ProgressIsExact` now says that what is left is at most half of the last digit.
- "No window has more refused logins of an account than the limit" is false in
  several ways.  Logins that are past the check together are all refused, lock or not:
  the bound counts them (`crowd`).  The list begins anew after a successful login of
  the key, with a new process, and when the cleanup drops the key for want of room
  (`_MAX_STORE_SIZE`): the bound does not join what was before with what came after.
  And a key is a spelling of a name, not an account (section 5).

Three properties have exceptions the code's texts do not have; each exception was
dropped once to see TLC refute the property without it: `StartedRunsEnd` (errors
nobody handles), `ViewsAgree` (thresholds, masks, spellings) and
`PromptsFollowThePage` (what was replaced but not taken back).

## 5. Findings

1. **A refund can be lost between ledger and read model**
   (`events_lost_refund`).  The comment at `order_event_service.py:237` promises
   that a refund that arrives before the creation is replayed in the creation's
   transaction.  The replay reads the snapshot taken at line 80: a refund
   rejected after that moment and before the creation's insert is not seen.  The
   order stays ACTIVE, the refund REJECTED, its retry is answered "duplicate".
2. **Cleanup can delete a run that is being executed** (`import_runs_cleanup`).
   The docstring at `data_import_service.py:907` says never; the `DELETE` at
   935-940 repeats no status.
3. **A padded column of a CSV is mapped and read as empty** (`import_columns`).
   The docstring at `data_import_service.py:143` promises that blanks around a
   header are removed.  The mapping keeps the stripped name, the cells are keyed by
   the unstripped one (543): an optional column is silently lost, a refunded order
   becomes an active one.
4. **A session opened with the old password outlives the new one**
   (`access_password`).  The comment at `manage_auth.py:97` says all old tokens end
   at once.  The command writes the version it read before it asked for the
   password, plus one; a logout and a login in between have used that version.

Smaller disagreements met on the way; no run is about them:

- The final check of an import also fails runs whose orders agree with the ledger:
  a refund or cancellation of an imported order between its chunk and the check,
  or a rejected event with a higher version, counts as a mismatch
  (README.md:245 against `data_import_service.py:1532-1570`).
- `AMOUNT_OUT_OF_RANGE` lets amounts of 17 integer digits pass that the columns do
  not hold (`data_import_service.py:360`), and `order_seq_id` has no upper bound: the
  chunk raises and the whole run fails.
- An RFM snapshot kept under the unversioned key may be stored under a new version
  when the second read of the version fails (`rfm_service.py:49-50` against 230);
  `VersionedEntriesHold` leaves it out.
- An event committed between the second guard of the CLI import and RENAME stays in
  the ledger while its order is gone; and an import that fails after RENAME has
  changed the orders (`import_orders.py:10-11` says it does not).
- Some errors leave a started run in "running" for ever, though the handlers of
  `execute_import_run` are there to record each failure (1706-1714): `db.refresh` after
  the claim is committed, so that no task is scheduled
  (`data_import_service.py:1250-1256`); connecting and `GET_LOCK` (1691-1694); the
  session and its first read (1702-1703), outside the inner `try`; and
  `_mark_execution_failed` itself (1697, 1709, 1713), which unlike its counterpart of
  the validation (551-569) catches nothing.  `stranded` names these runs.
- Failed logins are counted by the name as typed, in lower case
  (`rate_limiter.py:134-137`), but MySQL finds the account under
  `utf8mb4_unicode_ci` (`auth.py:264`, `alembic/versions/0004_auth_identity.py:38`),
  which equates more spellings: each has a count of its own, against "same account and
  same IP" (`routes/auth.py:104`).
- The cards of the customers are labelled as those of /api/rfm
  (`streamlit_app.py:404`, 424; `rfm_scoring.py:14-15`), which has no thresholds to set
  and derives them from the bins (`rfm_service.py:339`).  The sliders of the page begin
  at 3 for any number of bins: the same for 5 bins, another one for 3 bins (2) or 10
  (6).  `ViewsAgree` demands equal cards where the thresholds are equal only.
- For a principal without `data:pii` the API of the page masks the names
  (`routes/bi.py:60-62`), and the page groups customers by what it got: two customers
  with one mask are one on the page and two in /api/rfm.  Names that MySQL takes for
  one (accents, case, width) are one customer there and several on the page.  And
  `load_data` keeps rows for all sessions of the dashboard, so the masks, or their
  absence, may be those of another session's principal.
- A read that is under way between RENAME and the bump of the version may be torn;
  this is the one exception of `OrderSnapshots`.
- The daily quota is checked before a query and counted after it, so concurrent
  queries, and audit rows that are lost, overshoot it (docs/OPERATIONS.md:9).
- Regenerating an answer asks the backend to pop the last turn if it answers the same
  question, and replaces the answer on the page whatever came of it
  (`app.py:1017-1028`).  For an answer in the middle of a thread nothing is popped, for a
  question asked twice the later turn is: the deleted answer stays in the context, which
  the comment at `app.py:1015` says it must not.  The episode of a popped turn stays and
  may be recalled in any case.
- A memory that is deleted while a question is embedded may still reach that answer:
  the rows were read before (`episode_memory_service.py:183-196`).
- `app.py:1157` says the question was not written to the session although it was.
- `get_user_behavior` counts the group of orders without a user as a repeat user;
  the page drops orders without a platform or a product, the SQL groups them.

## 6. Plan

Done, in this order: order events with their abstract specification, import runs
and cache, with their proofs; files and rows of imports; reads of orders with the
CLI import, the reconciliation and the figures, all with proofs; AI requests from the
limits to the page, with proofs; access, with proofs; proofs of the rows of imports.
Next:

1. The entries of the cache that sessions of the dashboard share, as actions; the list
   of import runs and the ownership of a run.

## 7. Not modelled, and why

- Monitoring, health probes, the streamed order and analytics reports, the
  interactive search of orders and the list of import runs: reads without state of
  their own.
- Prompts, masking, refund analysis texts and the SQL guard: functions of text (the
  guard rests on an external parser).  Model adapters and provider policy call
  external services and keep no state; whether a call succeeds is a choice in
  `AgentGraph`.
- The rest of the start-up and configuration is wiring; the creation of accounts is
  in `Access`, pools are in `OrderEvents`, the periodic cleanups in `AnalyticsCache`
  and `RateLimiter`.
- The event producer is a load generator; its retries and its order are the
  environment of `OrderEvents`.  Migrations are DDL whose constraints the models
  use.
- Line-ups, charts and texts of the two pages, retrieval over documents; the cache
  that several sessions of the dashboard share is only the choice whether a read's
  names are masked.
- Abstractions inside the modelled parts: XLSX archives and encodings are a choice
  of failing; order numbers are atoms (MySQL compares them without case, the
  duplicate check within a file does not), and so are platforms and products; the
  scopes of a principal do not change during a read; recalling memories is one step;
  that only the operator changes passwords is stated through the token version, which
  commands of the operator move and starts and logins do not; which episodes are
  similar to a question is left open; audit rows of logins are left out, their errors are swallowed; the
  tag indexes and size limits of the cache are evictions; the limit of 200 rows of
  an RFM table, rounding of averages, ties in orderings, and orders without a time or an
  amount (both columns may be NULL) are left out.
