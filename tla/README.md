# Verification of multi-channel-ai-gateway

TLA+ models of the gateway: specifications translated from the Python sources, runs of the
model checker TLC on small instances of them, and theorems checked by the proof system
TLAPS for instances of every size. Paths are relative to the repository, and
`tasks.py`, `services.py`, `worker.py` and `main.py` are those of `src/wecom_ai_gateway/`.

## 1. The system

The gateway answers chat messages that reach it over WeCom customer service and over WeChat
("ClawBot" instances) with the help of language models. docker-compose starts one API
process (uvicorn, `main.py`), one worker process (`worker.py`), an optional bridge process
that holds the WeChat sessions (`bridge/`), PostgreSQL and Redis. The worker is written so
that several of them can run; the models have several where it matters.

| Component | State it keeps | Operations | What makes it correct |
|---|---|---|---|
| Outbox task queue, `tasks.py` | table `outbox_tasks`: status, attempts, `rerun_requested`, `available_at`, `locked_at`, `lease_token` | `add_task`, `create_sync_task`, `claim_task`, `renew_task_lease`, `complete_task`, `fail_task`, `replay_task`, `reconcile_message_tasks` | one executor per task, results only under one's own lease, no lost request, no lost message, every task ends |
| Worker loop, `worker.py` | the task in hand, its heartbeat | `drain_available_tasks`, `execute_task`, periodic scans | crash and lapse of a lease are survived |
| Message processing, `services.py` 406-733, 1362-1424 | table `messages`: status, `metadata_json["reply_dispatch"]` | `process_message`, `_deliver_reply` | the user gets one answer, never a repeated one |
| Merging, `services.py` 1268-1359 | `metadata_json["merged_into"]` | `_merge_pending_messages`, `_release_merged_messages`, `_restore_merged_messages` | merged messages get one reply together, and none of their own |
| Synchronisation and ingestion, `services.py` 146-376 | table `channel_states` (cursor of each account), `messages` | `sync_wecom_messages`, `ingest`, `ingest_channel_message` | each platform message is stored, however synchronisations overlap and fail |
| Model calls, `services.py` 781-1265, `model_routing.py`, `providers.py` | the line in use, the tool calls so far, `usage_records` | `_complete_ai`, `complete_with_routing` | every paid answer that says something is booked, nothing goes to a line it must not go to, the loop ends |
| Channel instances, `channel_health.py`, `clawbot.py`, `main.py` 2334-2553 | the row of an instance: desired state, reported status | start, stop, status callback, forwarded message, periodic reconciliation | a stopped instance stays stopped, a forwarded message is stored |
| Bridge runtime, `bridge/src/clawbot_bridge/` | one asyncio task per instance, encrypted session file, polling cursor | start, stop, login, QR rotation, monitor, restore | one session per instance, no message passed over, the intent survives a restart |
| Login and second factor, `auth.py`, `mfa.py`, `totp.py`, `password_reset.py` | accounts, sessions, challenges, credentials, reset links | login, code, change and reset of the password, set-up, enabling and removal of the factor | no session outlives the password it rests on, a code counts once |
| Activation, `account_activation.py`, `main.py` 350-428 | one-time links, user names | link, activation, registration, provisioning | a link works until its user has an account |
| Identity binding, `binding.py`, `main.py` 1399-1470 | identities, bind codes, everything that has an owner | bind code, merge, unbind | a merge loses nothing, nobody is left without an identity |
| Knowledge, `knowledge.py` | documents and their chunks | upload, re-index, migration, deletion | what is quoted is what was given last |
| Cards and presets, `commands.py`, `presets.py`, `main.py` 1519-1614 | cards, the active flag, presets | creation, choice, deletion, presets | one active card |
| HTTP API, `main.py` | sessions of the requests | the endpoints of all of these | requests interleave with the worker and with each other |
| Runtime settings, policy, tools, media, retention | configuration, content | pure decisions and external calls | no behaviour over time |

How they interact. A callback of the platform creates or reactivates a synchronisation task
in the API process (`create_sync_task`) and wakes the worker through Redis; the wake-up is a
hint only, since the worker also polls. Executing a synchronisation stores messages together
with a task for each. Executing a message task runs `process_message`, which may take sibling
messages of the conversation into its own answer while their tasks are still in the queue.
A task that fails is retried with backoff, and after `task_max_attempts` failures it and its
message become dead letters, a notification task is added, and an administrator may replay
it. Everything is shared through database rows. The sessions read a row in one statement and
commit in another; SQLAlchemy writes back the columns that differ from what was loaded, keyed
by primary key alone (`expire_on_commit=False`, no version column), and that is where most
of the hard behaviour comes from.

A WeChat instance has no callback from the platform: its task in the bridge polls iLink and
posts each message to the API, which stores it with its task; its status goes the same way,
and start and stop go the other way while the administrator's request waits. The web and the
chat reach the same cards, documents, identities and accounts.

Hard behaviours: overlapping sessions on one row; leases that lapse while their holder
lives; crashes between any two commits, above all between sending a reply and recording it;
messages that are merged, released and restored while they have tasks of their own;
retries and replays of what has been done; requests that check something and commit what
rests on it later; coroutines that are cancelled, replaced or overtaken between two awaits;
callbacks that are handled late and out of order; everything that must eventually happen.
`PROJECT.json` lists the hazards, each with its line and the properties that cover it.

## 2. The modules

| Module | Models | Size of its runs |
|---|---|---|
| `Queue` | abstract: the outbox as a queue whose operations are atomic | (implemented by `Outbox`, used by `MessageFlow`) |
| `TaskRow` | one row of `outbox_tasks` and what each function of `tasks.py` assigns to it | (used by `Outbox`) |
| `Outbox` | queue, workers, callback endpoint, replays, time, crashes | about 27 000 to 66 000 states |
| `MCOutbox` | `Outbox` with symmetry sets, for TLC | |
| `OutboxProofs` | theorems about `Outbox` | |
| `MessageFlow` | `process_message`, its delivery fence, merging | 0.9 and 2.1 million states |
| `MCMessageFlow` | `MessageFlow` with conversation maps, for TLC | |
| `MessageFlowProofs` | theorems about `MessageFlow` | |
| `Inbox` | abstract: what a channel promises about the messages that arrive | (implemented by `Channel` and `KfSync`) |
| `ChannelRow` | the row of a channel instance, the statuses of bridge and row | (used by `Bridge`) |
| `Bridge` | one instance in the bridge: its objects, asyncio tasks, files | (used by `Channel`) |
| `Channel` | `Bridge` with the gateway's side of the instance | 1.5 million states |
| `ChannelProofs` | theorems about `Channel` | |
| `MCChannel` | `Channel` with symmetry sets, for TLC | |
| `KfSync` | the synchronisations of one WeCom account | see `MCGateway` |
| `KfSyncProofs` | theorems about `KfSync` | |
| `Sessions` | login, password and second factor of one account | see `MCGateway` |
| `SessionsProofs` | theorems about `Sessions` | |
| `Completion` | the model calls of one message | see `MCGateway` |
| `CompletionProofs` | theorems about `Completion` | |
| `Knowledge` | one document of a user and its index | see `MCGateway` |
| `Cards` | the cards and presets of one user | see `MCGateway` |
| `MCGateway` | `KfSync`, `Sessions`, `Completion`, `Knowledge` and `Cards` as one machine that runs one of them | 1.2 million states |
| `GatewayProofs` | theorems about `Knowledge`, `Cards` and `MCGateway` | |
| `Activation` | links, user names and accounts | see `MCOwners` |
| `Binding` | users, identities, what they own, merges | see `MCOwners` |
| `MCOwners` | `Activation` and `Binding` as one machine that runs one of them | 0.3 million states |
| `OwnersProofs` | theorems about `Activation`, `Binding` and `MCOwners` | |

Definitions whose comment begins with "Faulty" are the definition that follows them with a
bug planted in it. No specification uses them. `PROJECT.json` ("mutants") tells which
property of which run notices which of them.

### Queue, TaskRow and Outbox

`tasks` is the table by dedupe key: a task is `<<"message", m>>`, `<<"notify", m>>` or
`<<"sync", k>>`. The timestamps are kept as far as `claim_task` compares them with the
clock: `due` is `available_at <= now`, and `locked` is `locked_at`, NULL, recent or older
than `task_lock_timeout_seconds`. `BackoffElapses`, `OrphanedLeaseExpires` and `LeaseLapses`
are the passing of time.

The worker is a program counter: `SelectCandidate`, `Claim` or `ClaimLost`, `ReadBack`
(`claim_task`, with the read-back of the row in a new transaction), the body, then
`BeginComplete`/`CommitComplete` or `BeginFail`/`CommitRetry`/`CommitDead`. `complete_task`
and `fail_task` select the row by its lease and commit by its key, so each of them is two
actions, and `Flush` says what a commit does to a row that others have changed meanwhile.
`create_sync_task` and `replay_task` are split in the same way, into `BeginCreateSync` and
`CommitCreateSync`, `BeginReplay` and `CommitReplay`.

What a task does is abstract in this module: a message ends sent or failed ("sent" stands for
"ignored" as well), a synchronisation fetches what is there, a notification has no effect. All messages
are in conversations of their own, so merging does not occur. `Crash` kills a worker at any
point. A message that has no task is one an earlier release left behind
(`reconcile_message_tasks`); that is why `Init` has such messages.

`Queue` is what all this is for: tasks that are added, claimed by a worker that has nothing in
hand, completed, failed or lost by the worker that has them, and started over, each in one
step. The refinement mapping (`AtomicQueue` in `Outbox`) takes status and attempts from the
rows; a worker has a task in hand from its claim to its commit. So the property
`QueueSpec` says that the leases make up for the operations being split: what a session has
read and acts on is still so when it commits.

### MessageFlow

A worker in `process_message` holds a copy `seen` of the row as its session loaded it: the
session never reads the row again, so it decides by the copy, and when it writes
`metadata_json` it writes all of it as loaded. Each commit is an action. `changed` are the
rows that a worker has updated and not committed: PostgreSQL keeps others from updating them
(`Unlocked`). The tasks of this module are handled as by the atomic queue that `Outbox` is shown
to be while leases hold, and `FlowQueueSpec` says that they are: the module refines the
same `Queue`.

A message is a chat message, a command (answered without merging, or silently ignored), or
"special" (answered through `_deliver_reply`: accounts, binding, QR codes). `AskModel`
fixes what the reply takes up: the message itself and some of the siblings. Which ones is
left open, because the history is cut off after `context_messages` rows and because a lost
image, a spent quota or a missing model is answered with a fixed text. The limit of 10 merged
messages is not modelled; no instance reaches it. `replies` counts deliveries per message,
`confirmed` are the messages whose delivery was recorded, `answered` those that a delivered
reply has taken up. `Deliver` ends in "finish" or in "abort", because a call may fail after
the platform has accepted the message.

The fence is never taken down. `process_message` stores a dict in `metadata_json` and commits
(`services.py` 613-618), then changes the same dict to "sent" and assigns it again (710-711).
The column is plain `JSON` and the session keeps its objects over a commit
(`expire_on_commit=False`), so that SQLAlchemy compares the value with itself and writes
nothing: the row says "started" for good. `Finish` therefore writes the status alone, and
`dispatch` has no value "sent". `_deliver_reply` (1371-1423) does the same.

### Inbox, KfSync, Bridge and Channel

`Inbox` is the promise of a channel to its users, in two actions: a message arrives, and the
gateway takes messages while the channel's cursor goes to a place behind which none is left
untaken. A channel may read the same message again (`ingest` drops what it knows); it may
not pass one over. Both channels are shown to implement it, by the refinement mappings
`Promise` in `KfSync` and `Channel`.

`KfSync` is `sync_wecom_messages` for one account. `ReadCursor` loads the row of the cursor,
`FetchPage` is the call of the platform, `CommitPage` the commit of a page together with the
cursor. A synchronisation whose lease has lapsed runs on beside its successor (`Outbox`
shows that this happens), so several overlap; the session writes the cursor only where it
differs from what it has loaded (`SavedState`), and only one can insert the row. A cursor
may therefore go back; it never goes ahead of what is stored.

`Bridge` is one instance in `runtime.py`. An asyncio task is a program counter, and a step
runs from one await to the next. The objects of `_instances` that have been replaced live on
as long as a task refers to them: `Finally` is the "finally" of a task that ends and writes
into an object that may have a successor by then. `stored` is the encrypted session file,
`cursor` the file of the polling cursor; both survive `Crash`, and `Boot` is `restore_all`.
`calls` are the status callbacks on the wire: a task that is cancelled leaves its request
there.

`Channel` adds the gateway: `ApiStart`, `ApiStop`, `BridgeCalled`, `ApiCommit` and
`ApiFailed` are a request that commits the intent, calls the bridge and commits its answer;
`ApplyCall` handles a callback, in any order; `Reconcile` is the periodic comparison;
`Accept` and `Refuse` are the endpoint to which the bridge forwards a message. The field
`overlapped` records the one known way to two sessions, see the comment before the
properties of `Channel`; what depends on there being one session is claimed up to that.

### Sessions, Activation and Binding

A request is a handler with a transaction of its own. What it has read is kept in the handler
and may be out of date when it commits; what runs under a row lock is one step. `Sessions`
has one account with the sessions and challenges that rest on its password and factor.
Passwords and secrets are numbers, time codes are the counters around the clock, and one
recovery code stands for the list. Fields kept for the properties only (`overtaken`,
`uses`, `doubled`) say what the properties excuse: a login that was overtaken by a
change of the password between its check and its commit does get its session.

`Activation` has the links, user names and accounts of several persons, with the locks
of PostgreSQL on link and name (`TokenFree`, `NameFree`), because what is at stake is what a
transaction that fails half-way leaves behind. `Binding` has users, identities and the
rows they own, unnamed (messages, memories) and named (cards, presets, documents, which a
merge drops where the target has one of the name). A merge reads in one step and deletes the
source in another; `Moving` are the rows changed by a merge that is not committed.

### Completion, Knowledge and Cards

`Completion` is `_complete_ai` from one await to the next: `Ask` and `AskGroup` send a
request, `Settle` is what comes of it, `Take`, `TakeLimited` and `TakeFinal` what is done
with an answer, `Execute` a tool call. Prompts and tools are abstract; the number of active
routes of a group is read again for every request and may have changed (`Reconfigure`).
`trail` and `ledger` record where the message was sent and which answers are booked: `owed`
counts what was paid for, less what was booked. A request that fails may have been paid for
as well, when the provider answers with HTTP 200 and without text (`Failure`, `providers.py`
75-102).

`Knowledge` is one document: its text, the text its chunks are made of, and the writers
that read one and write the other. `Cards` are the cards of one user, the `active` flags,
`active_card_id` and the presets that hold a card. `MergeCards` is what `_merge_into`
(`binding.py` 220-241) does to the user whom another is merged into: cards arrive with their
flags and beyond the limit, presets with the cards they hold, and the settings stay. A
user who is merged away is not followed any further; what his requests write after the merge
is among the late rows of `Binding`.

## 3. The runs

| Run | Instance | Shows |
|---|---|---|
| `outbox_message` | one message with its notification, 2 workers, 1 administrator, 1 crash, 2 attempts | type invariant; no double execution; results only under one's own lease; no message lost, none recorded as done too early; message and task die and are revived together; implements `Queue`; every task ends |
| `outbox_sync` | one account, callbacks at any time, 2 workers, 1 crash | callbacks do not take the task from its holder; a pending synchronisation fetches or is given up |
| `outbox_lapse` | one message, 2 workers, 1 crash, 1 lapse of a live lease | the budget of attempts is exact and every message is settled even so |
| `outbox_late_result` | one message, 2 workers, 1 lapse | finding: a late result overrides the new lease |
| `outbox_lost_rerun` | one account, 2 workers | finding: a request for a rerun is lost |
| `flow_alone` | 2 messages in conversations of their own, all kinds, 2 workers, 1 crash, 1 replay | no reply is sent twice; what is recorded as sent was answered; no message is stranded; uses the queue as `Queue` says |
| `flow_merge` | 3 messages of one conversation, 1 worker, 1 crash | merged messages get no reply of their own; what counts as sent is accounted for |
| `channel` | one instance, 2 objects, 3 tasks, 2 messages of which one cannot be read, 2 callbacks on the wire, 2 start or stop requests, 1 crash of the bridge | implements `Inbox`; the cursor is never ahead of the gateway; one session; what was taken can be answered; stopped stays stopped; no instance without a task that works for it |
| `owners` | 2 persons, 2 names, 2 requests; 3 users, 3 identities, 3 rows, 2 jobs | links work, merges lose nothing, everybody keeps an identity |
| `gateway` | login: 2 handlers, 2 passwords, 2 secrets, 5 requests; model calls: 1 group, 2 routes, 2 tool calls, 1 change; a document: 2 writers, 4 texts; cards: 2 clients, 2 cards; synchronisation: 2 at a time, 3 messages of which one cannot be read | sessions rest on the present password and factor; codes count once; usage is booked; lines are kept to; messages come to an end; the index is current; putting a card in use leaves one flag; synchronisations implement `Inbox` |
| `flow_unanswered` | 2 messages of one conversation, 1 worker | finding: a message is skipped as answered with another one that was given up |
| `flow_unshown` | 2 messages of one conversation, 1 worker | finding: a merged message is recorded as sent with a reply that did not take it up |

`gateway` and `owners` each hold several modules: a behaviour chooses one of them at the start
(`part`). This keeps the number of runs small; what one part does to another is a step of the
part it is done to. In the code a merge (`Binding`) moves cards and presets: that is
`MergeCards`. It also moves documents, with their chunks, in the transaction of the merge,
which changes neither text nor index (`Knowledge`), and usage records that are booked
(`Completion`); an activation (`Activation`) makes an account, whose sessions begin after it
(`Sessions`).

`HolderKeepsTask` and `QueueSpec` hold on both instances of `Outbox`, and each run checks one of
them; the theorems cover both. The typing of `MessageFlow` is proved (`TypeCorrect`) and not
run as well.

Deadlock is not checked: the system stops when all messages are settled and the bounds are
used up.

Bounds. Two attempts (the default is 5) have a first failure that retries and a last one
that gives up. The properties of `Outbox` are about one row each, or about one message with
its two rows, and rows interact only through the workers: one message or one account gives
every interleaving on a row. Two workers are the least that compete. Three leases suffice
for two workers and a row, four when a lease lapses. `MessageFlow` merges siblings, so
three messages give a main message with two siblings, and siblings that become main
messages. One crash is enough for every place where a crash can leave the rows; a crash
during the recovery from a crash needs two, and the theorems cover any number.

`channel` has two objects and three tasks because a rotation needs the old task, its
successor and a reporter, and a replaced object lives beside the current one. Two messages
are the least of which one can be read and one not, and the least for a cursor between them.
Two requests in `Sessions`, `Binding`, `Activation`, `Knowledge` and `Cards` are the least
that overlap; the rows are as many as two requests can tell apart. The five requests of
`Sessions` suffice for a password, a set-up, an enabling, a login and a fifth that crosses
one of them. In `Completion` a limit of two calls is reached by one answer or by two, and is
crossed by the next.

Fairness. Of `Completion`: every request to a model has a timeout (`providers.py` 75-108), so
that an await always ends; `MessageComesToAnEnd` needs nothing else, and nothing of
the administrator. Of `Outbox`: a worker that is up goes round its loop (weak fairness of
`DrainAvailableTasks`). `claim_task` orders candidates by `available_at`, so that a task that stays
claimable is eventually chosen: strong fairness of choosing each task. The 60-second scan,
the clock, and the commits of requests that have begun keep happening: weak fairness.
Nothing is assumed of arrivals, replays, renewals of a lease, crashes and lapses. The scan
runs between two drains of the queue, and the queue is empty again and again because the
attempts of a task are bounded. The liveness
properties speak of finitely many crashes: a crash does not count as an attempt
(`tasks.py` 113-117), so a task that kills its worker each time is never given up.

Findings. (1) `fail_task`'s docstring (`tasks.py:177`) says that a late result does not
override a new lease; its lease check and its commit are two statements, and it does if the
lease changes hands between them. (2) A callback is said to reactivate the task
(`tasks.py:25`); if it sets `rerun_requested` after `complete_task` has read the row, the
task ends done and the messages wait for the next callback. (3) `services.py:416` skips
messages "already answered with another one"; `_restore_merged_messages` leaves
`merged_into` in messages whose main message failed, and their next attempt records them as
sent. (4) Merged messages are to enter the history of the model, so that one call replies to
all (`services.py:1273`); the history may be too short for them, or no model is asked, and
the release marks them as sent all the same.

`commands.py:254` says that one card of a user is active at a time. Two requests that cross,
and a merge that brings a flagged card, leave two flags. This is a step of `Cards` and not a
finding with a run of its own; `OneActiveCard` claims what the code does keep.

## 4. The theorems

Every invariant, every action property and every refinement that a passing run checks is also
stated by a theorem, for all values of the constants, with the one exception of `SentIsAnswered`
(see MessageFlow). Each module proves its type invariant without further assumptions; what
else a theorem assumes is said below, with the reason.

### Outbox (`OutboxProofs`)

For all messages, accounts, workers, administrators, leases, attempts and crashes:
`LeaseSafety` (`NoDoubleRun`), `ResultsUnderLease` (`ResultUnderOwnLease`),
`MessagesAccountedFor` (`NoStrandedMessage`), `DoneMeansSettled` (`DoneTaskIsSettled`),
`DeadWithItsTask` (`DeadTogether`) and `HolderIsAlone` (the action property
`HolderKeepsTask`) assume `NoLapses` and `SingleReviver`: no live worker loses its lease, and
no two sessions can bring one dead row back to life (one administrator at a time, and
callbacks do not meet replays). The runs keep to these assumptions too. They are needed: with
two administrators TLC finds a counterexample to each of the six, and with one lapse to all
but `DoneTaskIsSettled`.

None of these properties is inductive. `IInv` adds: a worker past its claim owns a row that is
locked and bears its lease (`LeaseInv`), so there is at most one (`OneWorkerPerTask`); what a
reviving session has read is still so when it commits (`SessionInv`), because nothing else
leaves the states done and dead; a worker that is about to record a message task as done has
settled the message (`MessageInv`). The lemma of each group of actions shows that the group
preserves the typing and then the rest of `IInv`. `HolderKeepsTask` follows from `IInv` before
and after the step: the row of a worker that has not moved is still locked under its lease.

`OutboxIsAQueue` (`QueueSpec`), under the same assumptions: the table and its sessions implement
`Queue`. `SeenInv` is added to the invariant: a session that has read a row it may settle or
revive has read the attempts that the row still has, so that a commit which writes them back
increments or resets what is there. Selections, renewals, messages and the passing of time are
stutters, the commit of `claim_task` is `Claim`, each commit of `complete_task` and `fail_task`
the operation of that name, and a commit that finds nothing to do is a stutter or `Lose`.

`AttemptsBounded` (`AttemptBudget`) needs less: that there are no accounts, or the two
assumptions above. A session that writes the status writes the attempts that it has read along
with it (`BudgetInv`), so that even a late commit under a lapsed lease leaves a row whose
status and attempts agree. The one exception is the rerun of a synchronisation, which sets
the status and leaves the attempts as they are in the row; it relies on the lease.

### MessageFlow (`MessageFlowProofs`)

`NobodyIsAnsweredTwice` (`AtMostOneReply`) assumes nothing: for any conversations, kinds of
messages, workers, crashes and replays, the reply to a message goes out once at most. The core
of its invariant `FlowInv` is `FenceInv`: once the reply to a message has gone out the row
bears a mark (the fence, or `merged_into` where a merging session has written older metadata
over the fence), and a worker that could still send the reply has either seen the fence or is
the first to send. `HolderInv` says that a task in processing has at most one worker. This is
why the merge, which rewrites the metadata of rows that other workers are processing, cannot
break the fence: it replaces one mark by another.

`SentMeansAccountedFor` (`SentIsAccountedFor`) assumes nothing either: a message counts as sent
because a reply has taken it up, because it was merged, or because the reply to another message
of its conversation was recorded. `AccountInv` says that a worker which prepares a reply to
a message that is already recorded as sent works on one that was so released (`Accounts`). The
findings show that no more is true: a merged message need not be answered at all.

`FlowUsesQueue` (`FlowQueueSpec`) assumes nothing: `ProcessMessage` takes a worker through its
task without touching the queue, and a task in processing that nobody has in hand is free,
by `HolderInv`. With `OutboxIsAQueue` the two modules meet at `Queue`: one implements it, the
other relies on no more than it.

The other two properties depend on merging, and each is proved as far as it holds:

- `NobodyIsStranded` (`NoStrandedMessage`) assumes `Apart`: no conversation has two messages to
  be answered. Any number of workers, crashes and replays is allowed. The invariant `ApartInv`
  says that what the worker has read of its message is still so (`Undisturbed`), since nobody
  merges it. With merging it fails: a message that is restored after its own task has been
  done has nothing that takes it up.
- `MergedHaveNoReply` (`MergedHasNoReply`) assumes `OneByOne`: one worker, which is what
  docker-compose starts. The invariant is `OrderInv`: a message that is queued has had no reply,
  what the worker is about to merge is queued, and a message in processing is not merged
  (`Orderly`). With a second worker it fails: `_restore_merged_messages` selects messages
  and updates them in two statements, and queues one again that the other worker has answered in
  between.

`SentIsAnswered` is checked where messages are alone in their conversations (`flow_alone`). There it
says that no failure, crash or replay after the fence records a message as sent that was not
answered; `SentMeansAccountedFor` is what holds beyond.

### Channels (`KfSyncProofs`, `ChannelProofs`)

Both ways in keep what `Inbox` promises, for any number of synchronisations, objects, tasks,
callbacks, requests and crashes:

- `SyncKeepsPromise`: `KfSyncSpec => KfInboxSpec`. `SyncInv` says that no message is passed
  over by the cursor of the account nor by that of any synchronisation, and that a page goes
  on from where its synchronisation was. Then a commit is a step `Take` of the inbox, also a
  late one that takes the cursor back, and all other steps leave the inbox alone.
- `ChannelKeepsPromise`: `ChannelSpec => InboxSpec`, and `CursorNeverAhead`. `ReadInv` needs
  little of the bridge: every task that polls starts from a place behind which nothing is
  missing, and of the batch a task forwards, what is neither stored nor unreadable is still
  to do (`Careful`). That holds for each task by itself, so two sessions, rotations, lost
  callbacks and crashes cannot break it: that is why `Inbox` holds without the condition
  on `overlapped` that other properties of `Channel` have.

The properties of the session need to know what the tasks of the bridge are to each other.
`SessionInv` says it in five parts: a bridge that is down has no present object; a task is where
it may be, given the object it refers to and whether that has been replaced (`Placed`); the
present object, while its status says that somebody works for it, has such a task (`Attended`);
tokens are in the file, in the memory of the present object, and there before their message
is forwarded (`Kept`); a stop that was answered stays in force until the next start (`Asked`).
From `Placed` follows `OnlyOneSession` (`OneSession`), from `Attended` `SomebodyWorks`
(`NeverStranded`), from `Kept` `TokensAreKept` (`AcceptedCanBeAnswered`), from `Asked`
`StopIsFinal` (`StoppedStaysStopped`). No bound on tasks, objects, callbacks, requests or
crashes is assumed. `Kept` and `Placed` hold up to `overlapped`, as the properties do.

### Accounts and owners (`SessionsProofs`, `OwnersProofs`)

- `PasswordIsCurrent` and `FactorIsPassed`. In between the two commits of a password change, or
  of the enabling of the factor, sessions exist that should not. `LoginInv` says that each of
  them is doomed: some request is about to delete it (`Doomed`), and not a request that was
  made with it. So of two requests that delete at once neither can leave behind what the
  other had doomed.
- `CodeIsUsedOnce`: `UsedOnce` says that a code which could still be accepted has not been.
- `LinksWork` (`LinkWorks`): for any number of persons, names and requests. `ActivationInv` adds
  that a request which is about to write a name has one, and that links are for users who are
  known (`Knows`).
- `MergesLoseNothing` (`NothingLost`) and `IdentityIsKept` (`KeepsAnIdentity`): for any number of
  users, identities, rows and jobs. `BindingInv` adds that a merge in progress has read all
  rows of its source but those that came later (`ReadAll`), that an unbinding still has another
  identity to leave (`HasAnother`), and that the row locks keep jobs `Apart`: no two merges out of
  one user, no two unbindings of one user, and no unbinding of a user that takes part in a merge.
  `ActivationAssumption` and `BindingAssumption` only say that the values for "no name" and
  "nobody" are none of the names and users, and that there is somebody.

### Model calls, documents, cards (`CompletionProofs`, `GatewayProofs`)

For all groups, routes, limits and changes of the administrator:

- `UsageIsKept`: of the answers that were paid for, those are not booked that came back without
  text and tool calls (`empty`), and the one in hand when the worker dies (`lost`). The
  invariant is `CompletionTypeOK /\ UsageKept`; a step books what the step before it owed.
- `LinesAllowed`: texts of users with a provider of their own, and images, stay on their
  lines. It needs that the line of the next request is one of them, and that a message
  that may not fall back is never in a state that comes after a fallback.
- `FallbackIsKept`: once on the fallback line, always there, unless a group serves the
  message; and the switch is audited before the reply. It needs `hit` to be set from the
  switch until it is booked.
- `IndexFollowsText`: a request that may still write holds the text the user has given last
  (`UpToDate`).
- `OneCardInUse`: a request that is about to commit and was overtaken neither by another request
  nor by a merge takes the flag from every card that has it (`TakesAll`), however many there
  are.
- `GatewayTypeCorrect` and, in `OwnersProofs`, `OwnersTypeCorrect`: the machines that the runs
  `gateway` and `owners` check are well typed, from the invariants of their parts.

### Only model-checked

Liveness: `TasksSettle`, `MessagesSettle` and `PendingSyncFetches` of `Outbox`,
`MessageComesToAnEnd` of `Completion`. They rest on weak and strong fairness, hence on
ENABLED, for which the prover has no rules here. The findings are counterexamples and need
no proof.

## 5. What is not modelled, and why

- Redis wake-ups: a worker that misses one polls; the loss of a hint is the idle worker of the model.
- The Redis locks of messages and accounts: a busy lock is `FailEarly`, which may happen
  at any time; that a lock excludes others is never relied on.
- Time as numbers: backoff and timeouts may take any time.
- The content of messages, prompts, tools, media, persona: they decide what a reply says, not
  whether it is sent.
- `notify_model_error` and alerts: fire-and-forget, without a fence.
- Rows deleted by retention (off by default).
- Runtime settings, the tables of command policies, statistics and listings: lookups and
  request/response code without behaviour over time. `main.py` 2704 writes its audit record
  with columns that `AuditLog` does not have, so that the backfill of personas ends in an
  error after its work; a single statement, not a behaviour to check.
- The iLink protocol: encoding, encryption of media and HTTP. `Bridge` has what its calls may
  answer and how they may fail.
- Chunking and scoring in `knowledge.py`, rendering of cards, the web console, the migrations.
- Progress of `Channel`: a login waits for a person, iLink may never answer, and neither the
  bridge nor the gateway promises that a message arrives in time; no fairness is justified.

## 6. Plan

The dozen runs that the project allows itself are in use. What can be added without another:
the pure decisions as functions checked against reference definitions, namely the command
policy (`policy.py`), the lookup of settings by scope (`runtime_settings.py`) and the splitting
of replies (`services.py` 1691-1720).
