# Verification of the silo-forge control plane

TLA+ models of the backend (`backend/app`, FastAPI, PostgreSQL, Redis) and of the
console (`frontend/src`, Next.js, React Query), the TLC runs that check small
instances of them, and TLAPS proofs of the backend's protocols and of the console's
lists, panels and feeds for instances of every size. All paths below are relative to
`src/`.

## 1. The system

Silo Forge is a control plane for AI agents. Operators and agents use an HTTP
API; boards hold tasks; tasks need approvals and are executed by *runs* that are
dispatched to an external service (Symphony) through a bridge and come back as
HTTP callbacks; agents live behind external OpenClaw gateways and are woken and
watched by a lifecycle protocol; a worker process consumes a queue in Redis.

The console is a client of that API with state of its own: a cache of answers
shared by all pages, and on the board, group and activity pages lists that are
loaded once and then kept up to date by server-sent events.

Three kinds of process touch the server's state: API workers (one database session
per request, many at a time), the queue worker (one task at a time, but nothing
prevents a second worker), and outside services. What they share is PostgreSQL
at READ COMMITTED, without row locks except where noted, and Redis without
transactions. Almost everything hard in the backend comes from that. What is hard
in the console is that answers, events, renders and the router's navigations
arrive in any order, each holding values read before the others.

### Inventory

| Component | State | Operations | Talks to | What makes it correct |
|---|---|---|---|---|
| Background queue (`services/queue.py`, `queue_worker.py`) | Redis list, sorted set of delayed envelopes, the popped envelope | enqueue, delayed enqueue, drain, pop, handle, requeue, drop | every producer; handlers of three task types; telemetry rows | an accepted job is not lost, retries are capped, every job is settled |
| Approvals (`api/approvals.py`, `services/approval_task_links.py`) | approval rows, links to tasks, row locks | create, PATCH, list/stream | task gates, lead notification, run escalation | one pending approval per task, no deadlock, the lead hears the final status |
| Execution runs (`services/task_execution_runs.py` and its API, callback, dispatch and worker files) | run rows, task row, dispatch messages | create, retry, PATCH, cancel, acknowledge, escalate, dispatch, callback | queue, bridge, approvals, task status | timestamps agree with status, no double dispatch, no forgotten dispatch, cancel stays |
| Agent lifecycle (`services/openclaw/lifecycle_*.py`, `provisioning_db.py`, `core/agent_auth.py`) | agent row: status, generation, wake attempts, deadline | provision/update/wake, reconcile, heartbeat | queue, gateway | a woken agent checks in or is declared offline; stale messages are ignored |
| Tasks API (`api/tasks.py`) | task rows | create, update (admin, lead, agent rules), assign, comment | approvals (gates), dependencies, agents | closed only with an approval; gates hold at the commit |
| Task dependencies (`services/task_dependencies.py`) | edges | validate, replace | tasks API | acyclic |
| Webhooks (`api/board_webhooks.py`, `services/webhooks`) | webhook and payload rows | ingest, deliver, retry | queue, gateway | an accepted payload is delivered or reported |
| Rate limiter (`core/rate_limit.py`) | hits per key | is_allowed | Redis | no more than the limit per window |
| Silos (`services/silos`, `api/silo_*`) | silo, target, spawn request rows | plan, validate, apply, spawn request cycle | gateway runtime | what is recorded is what was applied |
| Organizations (`api/organizations.py`, `services/organizations.py`) | members, invites | invite, accept, change role, remove | auth | an invite is used once, an owner remains |
| Boards, memory, onboarding, tags, custom fields, activity, metrics, skills, souls | rows | CRUD and read-only views | - | single transactions |
| Gateways, OpenClaw client | websocket calls | rpc | external | - |
| API client (`frontend/src/api`, `lib/silos.ts`) | - | one request per operation, one cache key per read | API, query cache | operations and keys do not collide |
| Query cache and pages (`frontend/src/app`, `lib/list-delete.ts`) | cache entries, mutations in flight, route | mount, poll, refetch, mutate, invalidate, optimistic delete, redirect | API client | a page shows the user's own answered writes; no optimistic edit stays; redirects end |
| Live lists (`app/boards/[boardId]/page.tsx`, `app/board-groups`) | list, cursor, connection, own requests | snapshot, stream, reconnect, create/save/move/delete/decide/post | event generators of the API | a replica of the rows: nothing missed, nothing set back |
| Board panels (`app/boards/[boardId]/page.tsx`) | panels, address, comments, form | open, close, save, delete, comment | router, streams, API | one panel, an address that names it, the right comments |
| Activity feeds (the board's, `app/activity/page.tsx`) | items, ids seen | load, poll, streams | activity API | no duplicates, no unexplained loss |
| Dashboard summaries, onboarding dialog, UI components, contracts, scripts | - | rendering, generated code, tooling | - | - |

`PROJECT.json` lists every component, the ones not modelled with the reason,
and the hazards: the places where a test would hardly find a mistake.

## 2. Modules

| Module | Models |
|---|---|
| `WorkQueue` | the queue and the worker loop |
| `Approvals` | approvals, their lock-check-write protocol, and escalations |
| `ExecutionRuns` | runs of one task: API sessions, callbacks, dispatch worker, bridge |
| `AgentLifecycle` | one agent: lifecycle runs, the row lock, the gateway, check-ins, the reconcile worker |
| `ApiClient` | the operations of the generated client that go through the query cache |
| `ApiSurface` | the rest of the generated client, and what is assumed of all of it |
| `ConsolePages` | what each page reads, how, and what its mutations do to the cache and the route |
| `QueryCache` | the cache, the requests and the navigation, over `ConsolePages` |
| `Replica` | what a live list promises |
| `BoardStreams` | the six live lists with the server's generators; implements `Replica` |
| `BoardPanels` | side panels, address, comments and form of the board page |
| `LiveFeed` | the feeds of the board and activity pages |
| `MC...` | instances for TLC: which kinds of job, which task ids, symmetry |
| `WorkQueueProofs` | theorems about the queue with any number of workers, and with one |
| `ApprovalsProofs`, `ExecutionRunsProofs`, `AgentLifecycleProofs` | theorems about the other protocols of the backend |
| `BoardStreamsProofs`, `BoardPanelsProofs`, `LiveFeedProofs` | theorems about the board and activity pages |
| `QueryCacheProofs` | theorems about the query cache and every page that uses it |

Definitions whose comment says *mutant* are not part of a specification: they
are wrong variants of the definition below them, kept to show that the
properties notice.

### WorkQueue

`queue` is the Redis list (head popped next), `waiting` and `due` the sorted set
split by whether the score has passed (`Ripen` moves one over: time). An
envelope is job, `attempts` and `created_at` (`stamp`): two envelopes with the
same three are the same Redis member, which is what ZADD and ZREM see. `pc`,
`batch` and `held` are a worker's place in `flush_queue`/`dequeue_task`, the
members it read in a drain, and what it popped.

Each Redis command of `_drain_ready_scheduled_tasks` is an action (`DrainRead`,
`DrainPush`, `DrainRemove`), so drains interleave and crash in between.
`PopTask`/`PopDiscarded`/`PopTimeout` are BRPOP with `_decode_task` and the
handler lookup; `HandleOk`/`HandleFails`/`HandleDefers` the handler
(`HandleDefers` is `defer_lifecycle_reconcile`); `RecordSuccess`/`RecordFailure`
the telemetry rows, which can raise; `Requeue`/`DropTask` are
`requeue_if_failed`. Faults: a Redis error at every command, an executed BRPOP
whose reply is lost, a telemetry insert that raises, the death of the worker.
After a BRPOP timeout the code drains once more before it returns, and the next
call drains again: one `drain` stage stands for both.

`fate` records how copies of a job left. `lost` is a fate on purpose: the queue
has no acknowledgement, so a worker that dies with a popped task, or whose
failure telemetry raises before the requeue, loses it. `NoSilentLoss` says that
nothing *else* does.

### Approvals

Rows (`status`, `links`) are the committed database; `owner` is FOR UPDATE on a
task row, `sharers` the FOR KEY SHARE that the insert of a referencing row
takes; `phase` and `req` are the requests in flight with what they loaded.
`BeginCreate`, `LockTask`, `CheckPasses`/`CheckConflicts`, `InsertLink`,
`CommitInsert` are `create_approval`; `BeginUpdate`, the same locks and check,
`CommitUpdate` and `Notify` are `update_approval`; `BeginEscalate` is the part
of `escalate_run` that creates an approval and takes no lock. `Abort` is a
request that fails before its commit. `CommitUpdate` writes the status only if
it differs from the loaded one, as SQLAlchemy's UPDATE does. `unannounced` is a
history variable: resolved approvals whose present status no request has passed
to the lead notification. Whether the gateway then delivers it is best effort in
the code and left out, as are confidence scores, texts and the read-only
endpoints. A PATCH without a status changes nothing the model has.

### ExecutionRuns

One task, several runs. A session (API request or worker) loads rows, decides,
and commits; `MergeRun` and `MergeTask` write only the columns the session
changed relative to what it loaded, so concurrent sessions mix columns. The
order of loads is the code's: operator endpoints read the task first and the
run second (`BeginOperator`, `LoadRun`), the callback reads both in one query
(`BeginCallback`), `_can_auto_transition_task` looks for pending approvals
between the load and the commit (`Decide`). Dispatch is `BeginDispatch` (or a
created run that is dispatched at once), `Enqueue`, `TakeMessage`, the bridge
call (`DispatchAccepted`, `DispatchRejected`, `DispatchReplyLost`) and
`CommitDispatch`; `EnqueueFails` is the fallback to a dispatch inside the
request. Timestamps are reduced to set or not set. `sent`, `lost`, `asked` and
`failed` are history. The queue's own races are in `WorkQueue`, so here it is a
bag of messages; approvals are one Boolean, because `Approvals` covers them.
`acknowledge_run` writes an activity row only and is left out; so are payload
texts, silo and role lookup.

The task's status and `in_progress_at` (`working`) are also written from
elsewhere. `create_task` takes any status and never a stamp (`Init`, `Created`);
`BeginMove`, `MovedTask` and `CommitMove` are the PATCH of a task by an
administrator, an agent or the board lead, whose start of an inbox task stamps
nothing (`LeadMoves`); `AssigneeDeleted` is the deletion of the agent at work.
The gates of `api/tasks.py` are left open: the property about these writes,
`InProgressStamped`, is about the stamp only. `unstamped` is history: the task
was last put in progress by one of the two steps that stamp nothing.
`InProgressStamped` says that a task in progress has a stamp unless that is so,
and that a task in the inbox or in review has none. The cycle-time queries
(`api/metrics.py:205`, `:317`) ask for tasks in review that do have one: with one
request at a time there is none, so they have nothing to average.

### AgentLifecycle

One agent. `agent` is the committed row, `lock` the session that holds it FOR
UPDATE, `session` what each open session has loaded and its place in the code,
`messages` the reconcile messages (a set that may duplicate: the queue itself is
`WorkQueue`). Timestamps are counted in wakes, which is all that
`_has_checked_in_since_wake` can tell apart; a deadline is none, ahead or passed.

`BeginRun` is a request (`update_agent`, `ensure_board_lead_agent`,
`provision_main_agent_record` wake the agent, the template synchronisation does
not); `LockAgent`, `GatewayApplies`/`GatewayFails`, `EnqueueReconcile` are
`run_lifecycle`, for a request and for the worker alike. `BeginCheckin` and
`CommitCheckin` are heartbeats and the presence touch of any request the agent
makes. `TakeMessage` is `process_lifecycle_queue_task` up to its choice between
ignoring, deferring, waking again and giving up (`GiveUp`); `Timeout` is its
60-second limit. `Crash`, `EnqueueFails` and `Redeliver` are faults.

Two things decide what interleavings do. SELECT ... FOR UPDATE without
`populate_existing` waits for the lock but returns the object the session has
already loaded (`expire_on_commit` is off), so `Stamped` counts from the loaded
row; and a commit writes only the columns that changed relative to that row.
`rewakes` is history: wakes recorded by the worker since an operator or the agent
last intervened.

### ApiClient, ApiSurface and ConsolePages

Definitions without state. A read of the client is its path, its React Query key
(`[path]`, or `[path, params]`, so that the key without parameters is a prefix of
the others) and the collection it reads; a write is method, path and collection.
`ApiSurface` has the operations that no page sends through the cache, most of
them for agents. TLC evaluates what is assumed of the client: the 77 reads and 88
writes are distinct (`OperationsApart`), a write under the path of a read is
about the same collection (`AddressesAgree`), hand-written requests are those of
the client (`HandWrittenRequests`), and two reads that share a key anywhere in
the site are the same read (`KeysNameReads`). The generated code repeats one
pattern, so these two modules stand for a large part of the source lines the
project maps (about 23,500 of 31,300 lines of TypeScript); the behaviour is in the
modules below.

A page of `ConsolePages` is its route, the queries it watches with their options
(`refetchOnMount: "always"`, `refetchInterval`, admins only), those it watches
while a dialog is open, and its mutations: optimistic removal, rows replaced by
the answer, keys invalidated, whether the callback awaits the refetch, belongs to
the call or also runs after an error, and where it navigates.

### QueryCache

One tab. `cache` has an entry per key: data, whether it is invalidated, the read
in flight (`sent`, `answered`); `muts` the mutations in flight; `server` the rows
of the collection the behaviour is about, `view` the part of the site that
concerns it; `route` and `panel` what is on screen.
The actions are navigation (`Go`, `OpenPanel`, redirects), `Mutate` with its
optimistic part, the server's half of a request (`ServerTakes`), its answer
(`Succeed`, `Leave`, `Error`), reads (`Answer`, `Deliver`, `FailRead`, `Poll`,
`Focus`) and writes by others. The cache itself is TanStack Query 5, which is not
in the repository; it is modelled from how the code uses it, with two points that
matter: an invalidation joins a first load in flight instead of restarting it,
and a read whose function takes the abort signal (the generated ones do, the
hand-written ones mostly not) is cancelled when nobody watches it. Staleness and
garbage collection are nondeterministic. `late` marks a read that may have been
overtaken by a write and was not restarted. `due` is history: which versions a
watched key must reflect.

The page of all approvals asks each board for its approvals, under a key made of
the boards' ids. `GlobalApprovals(s)` is that key for one set of boards, and
`BoardsChange` a change of the set while the page is on screen: the observer moves to
another entry, the callbacks of a decision stay with the old one.
`AnswerInPart` is `Promise.allSettled`: the request for the board of the followed
collection fails, and the answer is a success without its approvals.

`ReadYourWrites` promises nothing of an entry whose last read failed (`failed`) or
joined an earlier one (`late`), that is edited ahead of the answer of a delete
(`edited`, the business of `NoGhostRows`), or, on the approvals pages, that has not
been read since a write whose callbacks were dropped by a second decision or were
about the key of other boards (`missed`), or whose read had no answer for the board
(`partial`). A decision that another one followed before its answer is thus shown by
the next read only: the refetch of the other if that is still to come, or else the poll
(`PollsConverge`).

### BoardStreams and Replica

A behaviour is about one of six lists; `AllLists` records how each page treats
its list (whether the first read replaces or merges, whether it restarts the
stream, whether an item received again replaces, what the stream does when the
server ends it). `rows`, `log`, `now` are the server; `link` is a connection with
the server's cursor and the events on the wire; `own` are requests of this
page's user. `Poll` is one round of the generators in `backend/app/api/tasks.py`,
`approvals.py`, `agents.py` and the memory modules.

The stream of tasks follows activity events, which are recorded by a second
transaction with a later stamp: a write is `told` (both at once), `owed` (the row
now, the event by `RecordEvent`) or `lost` (the row alone: the tasks of a deleted
agent, a request that fails in between). The other streams select rows by their
stamps. A stamp is taken before the commit, so it may be older than what a
stream has passed (`MaxLate`); a reopened approval keeps both of its stamps
(`RemoteQuiet`). A first read of approvals, chat or a group's memory returns the
newest 200 (`Snapshots`, `SnapLimit`).

Each of these leaves an item behind for good, and so do a stream without a cursor, a
connection cut and an own answer. `missed[i]` is history: the reasons why the page
may never be told of item i as it is. They are recorded where they arise, for that item,
and go when no old version of it is left on the page or under way to it, and with
its next change that is announced in time. `CaughtUp` and `Converges` say that there
are no others:

| Reason | Where it comes from |
|---|---|
| `quiet` | no event (`provisioning_db.py:1895`, or a failure between `tasks.py:2887` and `:2897`), or no new stamp (`approvals.py:500`, `provisioning_db.py:1922`) |
| `late` | committed after the server's clock had passed the stamp |
| `limit` | the first read was full (`board_snapshot.py:143`, `:193`; the group page, `:272`, `:288`) |
| `bare` | an empty list has no cursor: the stream starts at the present |
| `cut` | the connection went with the item on its way and a newer stamp already shown |
| `own` | an answer to this page's own request set the item back, or moved the cursor past its event |

A task whose event is still owed is excused by `CaughtUp` only until the event is
recorded. Deletions are announced by no stream and are not counted as items left
behind. Fields that the server computes from other rows or the clock (whether a task is
blocked, an agent offline) are not part of an item.

`Replica` says what a list is: on its own it moves only towards versions that
exist, and steps back only for an answer. `ImplementsReplica` is the refinement,
with the versions of the rows as `truth`, those on the page as `shown`, and
`asking` while a request of the page, or an event it has overtaken, is under way.

### BoardPanels

`ui` holds the panels, the selected task, the card its form was filled from and
the refs that remember what the address opened already; `url` is the address
rendered, `nav` the one `router.replace` was last asked for, which `Land` renders
later. The handlers are functions from a page to a page (`openComments`,
`closeComments`, `openBoardChat`, ...), because the code calls them from each
other; `Effects` are the two effects that open panels from the address, run
wherever React would rerun them. `hasty`, `apart` and `doubt` are history:
situations in which the code promises nothing about address, form and comments,
until they are right again.

### LiveFeed

An event is its place in the server's log. The board's feed takes events from
the task stream, the history, polls and the activity stream (`pushLiveFeed`,
`fetchHistory`, `pollGenericActivity`); the activity page's from `loadInitial` and
streams, through React's queue of updates (`queued`, `Render`), because
`seenIdsRef` is written at once and the items are not. `wiped`, `raced`, `missed`
and `buried` are history.

A poll reads the newest 100 events of everything the user may see, whatever board they
are about (`boards/[boardId]/page.tsx:1898`), and the history the newest 1000
(`:1819`); `Newest(PollLimit)` and `Newest(HistLimit)` are those, and foreign events
are among them. An event is `buried` when it is relevant, not on the feed, and neither
ahead of a stream, nor in an answer under way, nor among what the next read would
return. `EventsShown` says that an open, uncrowded feed ends up with every
other. With the activity stream gone, 100 events of other boards between two
polls bury one of this board. The history also stops at 200 items collected,
those made of chat, agents and approvals among them, which is more than the 50 a feed
holds and so a crowded feed. Events committed late are left out here; they are in
`BoardStreams`.

## 3. Runs

Deadlock is checked in the queue, approvals and runs modules. An agent at rest, and
a page whose user does nothing more, stay at rest when the bounded requests,
events and faults are used up, so it is not checked in the others.

| Run | Instance | Checks | States |
|---|---|---|---|
| `queue_race` | 2 workers, 1 delayed job, 1 retry, 1 deferral, 1 fault | `TypeOK`, `NoSilentLoss`, `ZremBacked` | 1.43 M |
| `queue_single` | 1 worker; handled, delayed, unhandled and undecodable job; 1 retry, immediate; 1 fault | `OneCopy`, `RetryBudget`, `EventuallySettled` | 92 k |
| `approvals_api` | 2 requests, 3 approvals, 2 tasks, no escalation | `TypeOK`, `OnePending`, `FinalStatusAnnounced` | 470 k |
| `approvals_finish` | 2 requests, 2 approvals, 2 tasks, escalations | `OrderedLocks`, `RequestsFinish` | 205 k |
| `runs_concurrent` | 1 run, 2 API sessions, 1 worker, 1 lost reply | `TypeOK`, `RunTimestamps`, `DispatchOnce`, `DispatchNotForgotten` | 2.72 M |
| `runs_serial` | 2 runs, 1 request at a time, no worker, three report statuses, a task created and moved in every status, by its lead or others, Redis down or up | `InProgressStamped`, `DispatchNotForgotten` | 2.70 M |
| `lifecycle_limit` | 2 requests, 1 agent session, 1 worker, 2 runs of either kind, 1 check-in, any 1 fault, limit 2 | `TypeOK`, `WakeLimit` | 1.13 M |
| `lifecycle_converge` | 2 requests, 1 agent session, 1 worker, 2 runs with a wake, 1 check-in, no fault, limit 2 | `Watched`, `Converges` | 107 k |
| `query_cache` | each of 17 collections in turn, 2 rows, 1 navigation (2 for users and groups), 1 write (2 for users, gateways and approvals), 1 change of the boards on the page of all approvals, 1 fault, admin or not | `TypeOK`, `ReadYourWrites`, `NoGhostRows`, `PollsConverge`, `OnboardingSettles` | 297 k |
| `board_streams` | each of 6 lists in turn, 2 items, up to 2 of them there at first, 3 steps of others, of the user or faults (a change committed late, or without its event at once, counts as two), 2 own requests in flight, stamps 1 behind, a first read of 1 where it is limited | `TypeOK`, `CaughtUp`, `NoPhantomMove`, `ImplementsReplica`, `Converges` | 789 k |
| `board_panels` | 2 tasks, 2 filters, 2 acts of the user, 1 event | `PanelsOK`, `UrlAgrees`, `CommentsRight`, `FormCurrent`, `ComesToRest` | 299 k |
| `live_feed` | both feeds, 3 events, room for 2, polls that read 1 and a history that reads 2, 1 poll in flight, 1 toggle, 1 fault | `FeedOK`, `SeenIsShown`, `OnlyCapDrops`, `EventsShown` | 297 k |

Why the bounds are enough. The drain's hazards need two workers and one member;
a retry needs the cap to be at least 1, so that a stale ZREM can meet a retried
copy, and one deferral gives a member with the same attempts and another
`created_at`. `BatchSize` 2 lets a batch be partial and full. An approval
conflict involves two requests; a third approval lets both conflict with a
row that is already there; two tasks are the least with an order to violate. A stale write
needs one session that reads, and two more that write meanwhile; two runs are
needed for retry, which clones. `MaxMessages` 1 is enough because a second
message finds a run that is no longer dispatchable; the proofs have no such
bounds. In `AgentLifecycle` a wake limit of 2 and one retry give messages that
are current, stale, retried and dropped; two requests are needed for a run that
waits for the lock with a stale row.

In the console the hazards are races of two: a write and a read in flight, an
answer and an event, a click and a navigation. One write by the user or by others
meets a read that was sent before it, and two of them (`Busy`) a second optimistic
delete, a second decision about an approval and the profile that is saved and read
again; two rows tell the row of a mutation from the others. Three steps in
`board_streams` are an own request and two changes by others, which give an answer
that is older than an event and one that is newer, and a cursor that is past an
item, at it, or absent; or a late change and one that moved the cursor; or two own requests
and a fault. With a limit of 1 a first read is full at two items. Each of the six
reasons was found necessary: with any one of them, or with owed events, no longer
excused, TLC finds the behaviour of the code that leaves an item behind. Two acts are
a panel and what replaces it, or a request and what is done before its answer. A feed
of two items is full after two events, a poll of one misses the first of two, and a
history of two the first of three. `NoPhantomMove` promises nothing if a second
request overlaps a move (`overlap`): a failed move then brings back a card that a
second move had changed meanwhile.

Symmetry is used for workers, requests and approval ids in safety runs only.

### Fairness

`WorkQueue`: weak fairness of each worker's own steps (the loop is `while True`,
exceptions are caught, the supervisor restarts a dead process, the BRPOP timeout
is finite) and of time passing. Nothing is assumed about handlers except that
they end: they may fail every time. `Approvals`: PostgreSQL grants a lock that
is freed again and again to a waiter (strong fairness of a request's progress)
and aborts a member of a deadlock. Nothing is assumed about clients.
`AgentLifecycle`: gateway calls return or raise, PostgreSQL queues the waiters of
a row lock, the worker loop goes on, and time passes. Strong fairness of a run's
and a worker's steps, because the lock comes and goes; it does not exclude a run
that hits the time limit at every attempt, which ends at the retry cap. Nothing
is assumed about operators, about faults, or about the agent except that a
check-in it began commits.

`QueryCache`, `BoardStreams`, `BoardPanels`, `LiveFeed`: the network answers a
request in the end, timers fire, generators go on, React renders and the router
arrives. An answer may be an error, as often as the bound on faults allows. Nothing
is assumed of users, of other writers, of the focus of the tab or of staleness.
`PollsConverge` needs the fairness of the reads that are polled only, because
nothing else in the console repeats.

## 4. Proofs

No theorem bounds the number of jobs, workers, requests, approvals, runs, sessions,
items, clicks, events or faults: the bounds of section 3 are constants and a proof
knows no more than that they are natural numbers. `PROJECT.json` lists the 31 theorems.
Every safety and action property a run checks is proved.

### What is assumed

Of the constants, what their modules declare and TLC evaluates in every run: their
types (`ConstantsAssumption`, `PanelsAssumption`, `LimitsAssumption`); that task ids
are finitely many numbers in `Approvals` and items finitely many in `BoardStreams`
(`BoundsAssumption`), because a finite set has a highest id and a connection sends
one batch; that the values which stand for nothing are not sessions, tasks,
addresses or rows (`NoneAssumption`, `NavAssumption`, `IdsAssumption`); and that `2
^ n` is between 1 and 256 for `n` up to 8 (`PowersAssumption`), arithmetic the
provers do not have.

Some theorems have a hypothesis, each a restriction of the deployment without which
the property fails:

* `OneWorker` (`SingleCopy`, `RetriesAreCapped`, `WakesAreLimited`): with two workers
  both can push the member that both have read, and two runs can record a wake over
  the same loaded count.
* `OneDispatcher` (`DispatchedOnce`): one worker and a Redis that takes every message.
  Nothing in `dispatch_run` locks the run.
* `OneRequest` (`StampFollowsTask`): two requests mix their columns. Workers do not
  matter, and any number of them is allowed.
* `WatchKept` (`OwedIsWatched`): runs wake the agent, a redelivery is the only fault
  and the agent makes one request at a time; section 5 says what each of the others does.
* `OnePendingPerTask` is about `SpecApi`, the approvals API without escalations.

### The queue

* `WorkQueueProofs`: `TypeCorrect`, `JobsAreNotLost`, `PendingZremIsBacked`.
  `NoSilentLoss` is not inductive: the last copy of a job may be a member that
  a pending ZREM is about to take. `Sound` is the set of copies no pending ZREM
  can take, and `IInv` says that every unsettled job has a sound copy
  (`Covered`) and that each member in a pending ZREM is backed by a sound copy
  with at least as many attempts (`ZremBacked`). A retry increments `attempts`,
  so it is another member, and a copy that is scheduled again under a pending
  ZREM is backed by the one that backed that ZREM. `Carry` reduces each
  action to four facts about `fate`, `Sound`, `offered` and `batch`.
* With one worker: `SingleCopy`, `RetriesAreCapped`. Between LPUSH and ZREM a
  job is in Redis twice, so `OneCopy` is proved of three places: the list, `Pend` (the
  sorted set without what a ZREM under way will remove) and the worker's hands. `SInv`
  says that at most one of them holds a job, once (`Unique`), that what a drain has read
  and not pushed is still in the sorted set (`BatchRead`), that what is in the queue was
  accepted (`Known`) and is not settled (`Unsettled`), and that the attempts of a copy
  bound how often the handler has run (`Counted`). All of this is for jobs that are
  `Tracked`: a drain that fails between its two commands does leave two copies, but
  not of a job that never enters the sorted set.

### Approvals, runs, agents

* `ApprovalsProofs`: `TypeCorrect`; `LeadHearsFinalStatus`, by `AnnouncedInv`
  (`RowInv`: a PATCH in flight works on an existing row and on its links, which
  never change); `OnePendingPerTask`, by
  `PendingInv`: a request between its check and its commit still owns its tasks
  (`LocksHeld`), so no other pending approval can have appeared on them
  (`StaysCleared`). With escalations the property fails (section 5).
  `DeadlocksNeedAnUnlockedCreation`: `LocksOrdered` says who holds what (locks are
  taken from the lowest id up, foreign-key locks only while inserting). In a set of
  requests that wait for each other, without a creation that skips the lock, take the
  highest id any of them waits for: whoever holds it waits for a higher one.
* `ExecutionRunsProofs`: `TypeCorrect`; `TimestampsConsistent`, although sessions
  write single columns over rows that have moved on. Timestamps are only ever
  set, so a loaded row is behind the stored one (`LoadedInv`: `Tracks`,
  `Behind`), and a session that writes a status also writes, or had loaded, its
  timestamp. `NoDispatchForgotten`: `DispatchNotForgotten` is inductive with the types,
  since each step hands what its session carried to the queue, to a session or
  to an error (`HandsOn`). `DispatchedOnce`, by `OnceInv`: the session in `dispatch_run`
  is the worker's and found the run dispatchable (`Careful`), and a run that
  is dispatchable and not about to be committed has been sent by lost calls only
  (`Undispatched`). `StampFollowsTask`, by `SerialInv`: what the open request has loaded
  is what the row still says, so a merge of columns is the new row, and a lead's move
  is one that the lead may make. A deletion of the agent may come between the load and
  the commit: it is a request like any other, so with one request it does not.
* `AgentLifecycleProofs`: `TypeCorrect`, which includes that exactly the session
  at the gateway holds the row lock; `WakesAreLimited`.
  `WakeLimit` is about a history variable, and the code compares
  `wake_attempts`, possibly in a stale copy. `Counted` links them: the worker's
  wakes since the last intervention never exceed `wake_attempts`, in the row and
  in the copy that a worker is about to increment, and that copy was below the
  limit when it was taken. Operators and check-ins can write smaller counts over
  the row, but each of them also starts a new count. `OwedIsWatched`: `Watched` is not
  inductive, because a worker about to give the agent up holds the last current message
  and may have loaded a row that owed nothing. `Guarded` counts such a session (`OnWatch`)
  only if the row it loaded had a deadline; `WatchInv` adds that `last_seen_at` never
  goes back, for which the one session of the agent is needed.

### The console

* `BoardStreamsProofs`: `Types`, `StreamCatchesUp`, `MovedCardsSettle` and
  `ListIsAReplica`, the refinement of `Replica`, from one invariant in nine parts.
  `DueInv` is the argument for `CaughtUp`: of an item that has an old version on the
  page or on the wire, either there is a reason to have missed it, or its event is
  owed, or it is on the wire as it is now, or its event is ahead (`Ahead`): not yet
  sent on this connection, no older than the cursor, nor than anything on the list,
  nor than anything on the wire, so that a new connection cannot start past it
  whenever this one breaks. `ReadInv` is the same for what the first read brought,
  once the page has loaded it. An idle stream has nothing on the wire and nothing
  ahead, which leaves the reasons. Because the reasons are an item's own, each step
  of the proof asks one question only: can what the step did to the cursor, the list
  or the row make an item lag without one? The rest says that the wire, the log of
  task events, the events owed and the requests carry only versions that exist, and
  each event once (`KnownInv`, `WireInv`, `LogInv`, `ItemInv`, `OwnInv`); and that a
  moved card has its move in flight (`OptInv`). For the refinement every action is
  shown to change the server only, to move the list forward, to begin a request or
  to be an answer.
* `BoardPanelsProofs`: `OnePanel`, `AddressNamesThePanel`, `FormIsCurrent`,
  `CommentsAreRight`. The handlers are functions from page to page, so there is a
  lemma for each, composed as the code composes them. `PageInv`: when the router is at
  rest, or once it arrives, the address matches the panels (`Reflected`), and the form is
  the card's (`Filled`). `TalkInv`: an open task has a read of its comments in
  flight, or only its own are shown, the streamed ones among them. `WritesInv` and
  `ReadsInv` say what an answer can carry.
* `LiveFeedProofs`: `NoItemTwice`, `SeenIsOnTheFeed`, `OnlyAFullFeedDrops`. The
  point is what React has not run yet (`QueueInv`): without a load in the queue,
  what is on the feed is marked as seen; the last queued load has exactly the items
  marked; pushes that were queued before a load are among its items, unless the page
  has raced. `UpdateTurns` carries the feed through a queue of any length, one
  update at a time, and `PollSteps` through an answer of any length.

* `QueryCacheProofs`: `TypesCorrect`, `GhostsVanish`, `OwnWritesRead`. The argument is in
  two halves.

  The first is about the pages of `ConsolePages` and mentions no state. A page is OK
  (`PageOK`) if each of its mutations is about a row, leads to a route of the site and
  invalidates what it edits or sets (`WellFormed`); if its success leaves the page or
  invalidates every key of the collection the page always refetches (`Refetches`); if an
  optimistic delete edits every list of its collection on the page, those of the shell
  included, and always settles (`Edits`); and if a dialog always refetches only what
  its page does not watch. There is a lemma for each of the 38 pages, resting on
  one for each of the few shapes they have, and `SiteOK` joins them. `ActsOfPage`,
  `PanelWatches` and `WatchedKeys` are what is left of it for one collection.

  The second is about the cache. `GhostInv`: an entry edited ahead of an answer
  either has a mutation in flight that will invalidate it, or is marked and, on
  screen, being read again or failed. The rollback of one delete may put back what
  another has removed meanwhile; but it invalidates in the same step, so nobody has
  to know which edit the data comes from. `FreshInv`: an entry that the page always
  refetches and that is at rest, or answered and not overtaken, has what it owes.
  The answer of a read has it because nothing owed is ahead of the server
  (`Backed`), and that rests on `Counted`: every version is one of the counted
  writes, and each write on its way has a number of its own. An entry that nobody
  watches owes what it owed when it was left; a change of the boards may bring it
  back without a read, so `KeptInv` says that such an entry, while it is not
  invalidated, still has it. `Made` links both halves: a mutation whose page is
  still mounted is one of the page on screen, so that `ActsOfPage` applies when its
  answer comes.

  Two of TanStack's rules decide the cases. A mount that meets a read under way, or
  an invalidation that meets a first load, joins it; the model calls that read
  `late`, and the properties ask nothing of it. Any other invalidation of a watched
  key starts a read afresh, and a delete cancels the reads of what it edits, so no
  answer older than the edit can come after it.

### Only model-checked

* Liveness (`EventuallySettled`, `RequestsFinish`, `Converges` of both modules,
  `PollsConverge`, `OnboardingSettles`, `ComesToRest`, `EventsShown`): the prover has no
  rules for fairness and ENABLED.
* What is assumed of the generated client (`OperationsApart` and so on), which TLC
  evaluates on the actual operations.

## 5. Known defects and limits

### Defects of the backend that the models reproduce

No run of the project is about them, because no property of the code as it is
excludes them. Each is found by TLC with the constants given.

* Two pending approvals for one task, against `api/approvals.py:159` ("Each task
  can have only one pending approval."): `escalate_run`
  (`task_execution_runs.py:419`) checks for a conflict without the task lock, so an
  approval created between its check and its commit slips through. The constants of
  `ApprovalsFinish.cfg` with `Spec` and the invariant `OnePending`.
* A cancelled run comes back: `dispatch_run` (`task_execution_runs.py:554`) keeps
  the row it loaded across the bridge call and commits `dispatching` over a
  cancellation, although `api/task_execution_runs.py:281` counts cancelled runs
  among the terminal ones. `ExecutionRuns` with one run, two requests and one worker
  violates `[][\A r \in Runs : run[r].status = "cancelled" => run'[r].status #
  "dispatching"]_vars`.
* An agent nobody watches: a wake by the worker that meets a gateway error
  (`lifecycle_orchestrator.py:126`) commits a new generation and deadline and queues
  no message, and the retry of the old message is stale. The agent is neither woken
  again nor given up, against step 6 of
  `docs/troubleshooting/gateway-agent-provisioning.md`. `Converges` fails with one
  request, one worker, `MaxWakes = 3`, `MaxRetries = 3`, `RunKinds = {"wake"}`,
  `MaxRuns = 1`, `FaultKinds = {"gateway"}`, `MaxFaults = 1`.
* Two runs with one generation: `_lock_agent` (`lifecycle_orchestrator.py:47`)
  returns the row loaded before the lock was granted. With two requests and `MaxRuns
  = 2`, `[][agent'.woken # agent.woken => agent'.generation >
  agent.generation]_vars` fails.

### What the console does not promise

The properties of the console name these as exceptions, each by a history variable
or a condition that the models set exactly where the code goes wrong.

* A list may miss an item for good, for the six reasons of `BoardStreams` in section 2
  (`CaughtUp`, `Converges`): among them the tasks of a deleted agent, which are changed
  without an event, a reopened approval, a transaction that commits after the cursor
  has passed its stamp, and the 201st approval or message. A cursor is the newest stamp
  the page holds, so the answer to an own write, or the part of a batch that arrived
  before the connection broke, moves it past items never delivered.
* The answer to an own request that is older than an event already shown sets the
  item back until the next event (`ImplementsReplica`, `Reply`). Deleted rows are
  announced by no stream.
* The group page does not open a stream again that ended without an error
  (`Converges`, `ended`), and the board's activity stream none that failed:
  `backoff.nextDelay` does not exist. Then only polls bring its events, and an event
  followed by 100 others of any board before the next poll is never shown
  (`EventsShown`, `buried`).
* The answer of a save selects its task again, and that of a delete closes whatever
  is open with the address of the click (`hasty`, `late`); comments of the task
  selected before replace those of the present one (`stray`), and an answer read
  before a streamed comment drops it (`overtaken`).
* A move or its failure changes the card under an open form (`apart`).
* The activity page's load throws away what its streams pushed before (`wiped`), and
  may leave an item marked as seen that is not shown (`raced`). A poll of a crowded
  board feed pushes newest first and so evicts the newest items.
* A second decision about an approval before the first is answered drops the first
  one's callbacks: its row stays as it was until the next read, which is the poll if
  the second was answered first (`missed`); so does that of a decision answered
  after the boards of the global page changed. A board whose approvals cannot be
  read is left out of that page's answer without an error (`partial`).
* An invalidation that meets a first load joins it and may leave the old row until
  the next read (`late`). The onboarding page leaves with the old profile in the
  cache: the user is sent back once before the refetch sends them on.

### Limits

* `DispatchOnce` is checked and proved with one worker and Redis up. With two workers, or
  with the fallback of a request running beside the worker, two sessions can
  both read a dispatchable run and both call the bridge: nothing in
  `dispatch_run` locks the run.
* `InProgressStamped` is checked and proved for one request at a time. Two requests
  that mix their columns can leave `in_progress` without a stamp.
* A process that dies between the commit of a run and its enqueue, or between
  the commit of a resolution and its notification, leaves nothing that would
  make up for it.
* The foreign-key locks of a created approval that is not pending are taken in
  payload order and without the id-ordered lock: `OrderedLocks` names this as
  the one kind of request a deadlock needs. PostgreSQL then aborts one request.
* Clock arithmetic, jitter and scores are abstracted to waiting and due. More
  members with one float score than a batch holds would give BRPOP the timeout
  0, which means none.
* The rule "Done tasks cannot be dispatched to Symphony" is enforced when a run
  is created; `dispatch_run` looks at the run only, so a run created while the
  task was open is dispatched after the task became done.
* Only a heartbeat resets `wake_attempts`. Re-running an update for an agent that
  was given up, which the troubleshooting guide calls a new attempt cycle,
  therefore gives one wake before it is given up again.
* `Watched` is checked and proved without gateway and Redis errors, which break it by
  design of the code (see above), without the template
  synchronisation and with one session of the agent: a synchronisation that
  waited for the lock can move the generation back, and two overlapping
  check-ins can move `last_seen_at` back, and either leaves an agent that owes a
  check-in with only stale messages.
* `WakeLimit` counts recorded wakes. A run that the time limit rolls back may
  have woken the agent and is not recorded; the retry cap of the message bounds
  those.
* Not in `AgentLifecycle`: tokens (a rolled-back run leaves a token at the
  gateway that the row does not know), deletion, creation, gateways without a
  URL, a missing gateway or board, a status given by PATCH or, other than
  `online`, by a heartbeat, and `with_computed_status`, which changes the object
  that is returned and is not committed.

* `QueryCache` follows one collection at a time: a mutation that invalidates keys of
  several collections is checked for each of them separately. The member detail of
  the organization page is shown from the cache after an update of its access if the
  dialog was left before the answer; `ReadYourWrites` is about reads that refetch on
  every mount. Lists longer than the limit of their read (200 approvals of a board) are
  left out.
* A silo may be called "Spawn Requests": its slug is then `spawn-requests`
  (`services/silos/service.py:710` reserves none), and the router of spawn requests,
  included before that of silos (`main.py:575`), answers for it.

### Not modelled

Backend parts without a module: the gates of the tasks API, task dependencies,
webhook delivery, rate limiting, silo runtime and invites: points 2 to 5 of the
plan. Their hazards are known: the approval a task needs to be closed is looked up
before the commit (`api/tasks.py:253`, `:312`); two requests can each add an edge of
a cycle (`task_dependencies.py:187`); `enqueue_webhook_delivery` ignores a refused
enqueue (`webhooks/queue.py:94`); bundles are applied to one gateway after another
and recorded at the end (`silos/runtime_orchestrator.py:152`). In the console: the
onboarding dialog, the dashboard's activity stream and summaries, authentication and
the UI components, which render what the other parts hold. Gateways, Symphony and the
database are external and appear as nondeterministic outcomes.

## 6. Plan

In this order; each with an MC module, runs and mutants.

1. `AgentLifecycle`, the rest: deletion, tokens, the heartbeat that a task
   assignment writes for the agent, `Watched` under further faults.
2. `TaskLifecycle`: status rules and approval gates of `api/tasks.py`, gates
   against concurrent approvals.
3. `TaskDependencies`: `_has_cycle` against a reachability reference, and two
   replacements racing.
4. `RateLimiter`: sliding window against its reference; limit never exceeded.
5. `Webhooks`, `SiloRuntime`, `Invites`, `OnboardingDialog`.
6. `RetryLedger`, the abstract promise of the queue (a job is offered, tried at
   most so many times, settled), and `WorkQueue` shown to implement it for one
   worker.
