# rogichat in TLA+

rogichat is a chat service: one streamer and many fans share a FAN room, each
fan has a private inbox with the streamer, and the streamer may publish an
anonymous copy of a private message to the whole room. The server
(`src/apps/api`, NestJS over MySQL, run as `api` and `worker` processes) keeps a
per-room event log; clients (`src/apps/web`) follow it with signed cursors and
keep a cache in memory and a small durable outbox. Slow work (media, push,
physical deletion) goes through a durable job queue in the same database. A
deletion is also written to an append-only ledger outside the database, so that
neither a crash nor a restored backup undoes it.

This directory models the parts where the program's own protocols are, and where
its tests reach least because everything depends on the order of transactions and
calls of several processes: the **transactions** every part is built from, the
**job queue with its worker loop**, the **room log with the client that follows
it**, the client's **outbox**, the **deletion ledger with its reconciler and
restore gate**, **media assets** and their cleanup, **push** fan-out and delivery,
and the **web login**.

- [Inventory](#inventory): the parts of the system, their state, their hazards
- [Modules](#modules): what models what
- [Runs](#runs): what TLC checks, within which bounds
- [Fairness](#fairness)
- [Proofs](#proofs)
- [A disagreement between code and documentation](#a-disagreement-between-code-and-documentation)
- [What is abstracted, what is left out](#what-is-abstracted-what-is-left-out)
- [Plan](#plan)

Paths below are under `src/`; `api/` stands for `src/apps/api/src/`.

## Inventory

| Component | State | Operations | What must be right |
|---|---|---|---|
| Job queue, `api/modules/jobs` | table `jobs`: state, due time, generation, attempts, lease (owner, token, until), last error | enqueue, claim, exhaust, renew, complete, retry, continue | one live lease per row, one committed effect per job, bounded leases, finished rows stay finished |
| Recovery scans, `api/modules/deletion/purge-worker.*`, `api/modules/media` | `deletion_intents`, `media_cleanup_checkpoints` | insert or reopen the job of an obligation | only rows they own, never a running one, never a permanently failed one |
| Worker loop, `api/modules/jobs/worker-loop.ts`, `worker-runtime.service.ts` | timers, the run in flight, the claim turn, stop and drain flags | poll, claim, handle, hand back, probe, stop | no starvation between purge and other jobs, nothing starts after stop, shutdown ends and leaves no timer behind |
| Room log, `api/modules/rooms`, `messages`, `publications`, `reactions` | `messages`, `message_publications`, `room_events`, `room_counters`, `command_receipts` | send, publish, react, delete | idempotent sends, events in commit order, deletions final |
| Membership and moderation, `api/modules/membership-scope`, `moderation`, `rooms` | `room_members`, pair grants, blocks, epochs | join, leave, ban, unban, block, unblock | every change of what may be read invalidates cursors |
| Visibility policy, `api/modules/messages/fan-message-policy.ts`, `messages-query.*` | none of its own | page windows, audience, `affected` | deletions reach whoever saw the message, nobody else |
| Message purge, `api/modules/deletion/message-purge.*` | the rows it removes | one page per transaction, in a fixed order | an order that never leaves a stale reference a cursor cannot see |
| Account deletion, `api/modules/deletion/account-*` | account state, per-family checkpoints | mark DELETING, cleanup families | content unreadable at once, and gone in the end |
| Sync, `api/modules/sync` | signed cursors held by clients | snapshot, history page, events page | complete pages, no gap, no page of an old authority |
| Web chat controller, `apps/web/src/features/chat/chat-controller.ts` | cache, tombstones, cursors, one flight, screen | refresh, page, re-read, reset, clear | fresh, complete, no resurrection, catches up |
| Deletion ledger and admission, `api/modules/deletion` | external append-only ledger, `deletion_requests`, `account_deletion_obligations`, `deletion_intents` | authorize, write intent, read it back, apply | no deletion lost between the steps, one durable request time |
| Deletion reconciler, `api/modules/deletion/deletion-reconciler.ts` | `deletion_replay_sources` (cursor, claim), `deletion_replay_entries` (phase, state, pinned receipt, claim) | list a page, register it, claim an entry, apply, scrub | complete passes whatever claims expire, nothing observed before it is done, every intent carried out |
| Transactions, `api/infrastructure/database` | pending count, the checkout of a connection with its abort handle | admit, check out, run, commit, roll back, retry, give up | bound kept, places returned, what a caller is told is true, a late timer takes nobody else's connection |
| Realtime gateway, `api/modules/realtime` | sockets, subscriptions | hints, revocation, slow consumers | a revoked session hears nothing more |
| Notifications and push, `api/modules/notifications` | preferences, subscriptions (generation, revoked), delivery intents | fan out by pages, authorize, prepare, authorize again, send | nobody eligible is missed, a revocation bites within one request, Web requests of an intent do not overlap |
| Read state, `api/modules/read-state` | read boundary per member | advance | monotone |
| Media, `api/modules/media` and the media worker | assets, objects with their write proofs, cleanup checkpoints, the storage budget | reserve, upload, transform, clean up by pages, recover, attach | nothing comes back under a closed key, all bytes that may exist are paid for, an attached asset is left alone, cleanup ends |
| Authentication, `api/modules/auth` | login flows, sessions, identities, guards | start, claim, exchange, finish, deny, log out | one session per login, none for a deleted account |
| Restore gate, `api/modules/restore-gate` | one checkpoint per restored database: its boundary and phase | prepare (quarantine, replay of the ledger), observe, consume (release); the service is activated by its custodian | nothing deleted and nobody's old session comes back with a backup |
| Web outbox, `apps/web/src/features/chat/outbox` | one record in IndexedDB shared by all tabs: the grant, its epoch, commands with payload and receipt | authorize, suspend, revoke, prepare, send, look up, retry, settle, quarantine, erase | no payload of another session or membership, no answer of another grant, a logout erases its own and nothing else |
| Stickers, users, channels, health, administration, infrastructure, mobile clients | rows of their own | CRUD | no protocol of their own, or the same one again |

**How they interact.** Every command is one MySQL transaction that locks the
room's row first, writes its rows, its event and its receipt, and enqueues jobs
in the same transaction. A job is executed by whichever process leases it; the
handler's own transaction completes the lease together with the handler's
effect. Realtime hints only say "look again"; clients fetch what changed. A
deletion tombstones the message at once, and a purge job removes the rows page
by page much later, with other commands in between.

**What is hard.**
- *Leases.* A handler may outlive its lease, die, or never learn that its COMMIT
  succeeded; whatever it does next has to be harmless.
- *Two classes in one queue.* Purge obligations are claimed first and recheck
  for ever; only one claim in four is reserved for the rest.
- *Every await is a boundary.* stop, destroy and the probe interleave with the
  loop's awaits.
- *Orders are drawn before they are committed.* Readers pass orders; only the
  room lock keeps an event from landing behind them.
- *Visibility is computed, not stored.* What a viewer may read depends on blocks,
  grants, membership, the account's state and the publication's state; a cursor
  is only valid for the authority it was issued under (`acl`).
- *Doubt.* A COMMIT may succeed without the caller knowing, a PUT may land after
  its caller gave up, a push provider may accept what is then lost: whatever comes
  next must be right in both cases.
- *Timers of a transaction outlive it.* The connection they could destroy may by
  then be another's.
- *Several tabs, one store.* Each acts on its own view of session and room.
- *Deletion against reading.* A deletion, the purge that removes the deletion's
  own event, a page in flight and a cache cleared meanwhile can come in any order.

`PROJECT.json` lists each of these under "hazards" at the line where it bites,
with the properties that guard it.

## Modules

```
TransactionOutcome <--implements-- Transactions ---- TransactionsProofs

JobQueue ------ MCJobQueue          RoomLog
   \-- JobProofs                       |
   /                                RoomSync ----- MCRoomSync ---- MCRoomScenarios
WorkerLoop                             \-- RoomProofs
                                    Outbox ------- MCOutbox
Deletion ------ MCDeletion              \-- OutboxProofs
   \-- DeletionProofs
                                    MediaAssets -- MCMediaAssets
LoginFlow ----- LoginFlowProofs         \-- MediaAssetsProofs
Push ---------- MCPush
   \-- PushProofs
```

`Transactions` is the ground the server's models stand on: what each of them calls
one action "with or without its acknowledgement" is a call of `TransactionOutcome`.
`RoomLog` has the *applied* deletion of a message with all it does to the room;
`Deletion` has everything before and after that transaction, which it reduces to
"the target is blocked", and `LoginFlow` what an account's deletion does to logins.
`JobQueue` has the jobs that media, push and purge run in; `MediaAssets` and `Push`
keep of them what their handlers see, the state and whose lease runs. `Outbox` is
the other half of `RoomLog`'s idempotent send.

The `MC` modules give the constants values and, where one set of bounds for all
would be too large, a choice of *scenarios*: the initial state picks one, and
`Played` keeps the behaviour to its rows, commands and counts. One run then
covers all of them.

### JobQueue

One action is one transaction of `jobs.service.ts` or of a recovery scan.
`rows` is the table, `held` the lease objects in the memory of processes
(dead leases stay there until their holder gives up, so that a late handler can
still try), `now` the database clock, `tokens` the supply of lease tokens.
`intents` and `checkpoints` are the two tables that make a row durable, that is
exempt from exhaustion. `effects`, `revivals` and `runs` only record history.

| Action | Code |
|---|---|
| `Enqueue` | `jobs-core.service.ts` enqueue: insert, or find the row of the same purpose and dedupe key |
| `AdmitIntent` | a deletion is admitted: intent and PURGE job in one transaction |
| `OpenCleanup` | a media handler starts a cleanup: checkpoint, from where on its row is durable |
| `Claim(w, j, ack)`, `Exhaust` | claim: lease a due row, or fail it when its attempts are spent; `ack` says whether the worker learned of the COMMIT |
| `Renew`, `Complete`, `Retry`, `Continue` | the owner's updates, each behind `Fence`, the WHERE clause of all of them |
| `LoseLease`, `Crash` | the process forgets one lease, or all |
| `RecoverPurge`, `RecoverMedia` | the scans: insert the missing row of an obligation or reopen a finished one |
| `Tick` | time |

A completion or continuation whose acknowledgement is lost (`ack = FALSE`) has
committed; the handler keeps the lease object and may try again. The only guard
against a second effect is the fence.

### WorkerLoop

The same queue seen from inside one worker process, at the grain of its awaits:
`pc` is where the run in flight is suspended. The table is reduced to `due` (in
claim order), `resting` (waiting for time, or for the recovery scan),
`orphaned` (RUNNING without a living owner) and the attempts of ordinary jobs.
`Poll`, `ReadyOk`/`NotReady`, `ClaimRow`/`ClaimNothing`/`ClaimFails`, `Claimed`,
`HandBack`/`LetGo`, `Finish`/`Defer`/`LeaseLost` are the stretches between two
awaits of the poll loop; `ProbeFires`, `ProbeEnds`, `Destroy`, `StopResolves`,
`DestroyResolves` are the runtime's probe and its shutdown.

`HandBack` is the release at the stop boundary. The code does it through `retry`,
so an ordinary job claimed for the last time fails there without having run; a
purge is retained.

### RoomLog

One FAN room seen by one fan, the *viewer*, who is not an author of private
messages. A message is named by the command that creates it; author, stream,
root (the private source of a copy) and quote are constants of the instance.
Commands that draw an order from the room counter are two actions, `Begin` and
`Commit` (or `Rollback`), so that readers run between them; `writers` holds the
one that has the room lock. The others are one action.

| Action | Code |
|---|---|
| `Send` | `messages-core.service.ts` send: receipt check, room lock, order, row, event, receipt |
| `Publish` | `publications`: the transaction that finalizes a text copy |
| `SetReaction` | `reactions`: a new version of the message and its event |
| `Remove`, `RemoveDeleted` | deletion of a message with its copies, and the request on one that is already deleted |
| `JoinRoom`, `LeaveRoom`, `Ban`, `Block` | membership, pair grants and blocks with the epochs they advance |
| `PurgeStep` | one page of `message-purge.service.ts`: quotes, receipts, link, events, row |
| `DeleteAccount`, `CleanAccount` | the account becomes DELETING; cleanup tombstones and removes its messages |

`Readable`, `audience`, `eventAudience`, `Blocked`, `affected` and `Projection`
are the visibility policy. `viewer.revision` stands for the hash
`authorizationRevision`: every input of that hash which changes in the model
is an epoch or a list that only grows, so equal hashes are equal revisions.

### RoomSync

`RoomSync` extends `RoomLog` with the viewer's web client. `snapshot`,
`history` and `eventsPage` are the server's answers, each one read transaction.
The client runs one flight at a time through `Authorize`, `Ask`, `Receive...`,
`Reread`, `Reauthorize`, `Present`, or `LoadOlder`, `ReceiveOlder`; `reply` is
the answer on its way, so commands commit between question, answer and screen.
`Invalidate` clears the cache while a flight is out, `Fail` is any request that
errs, `RefreshAfterResume` the restored tab. `buried` remembers which deletions
the client was told.

### Deletion

A *target* is a message or an account. Its request id is computed from it
(`messageDeletionId`, `accountDeletionId`) and names the ledger's key, so one
number is target, request and key; keys are listed in the order of the numbers.
`ledger` is the bucket, `puts` the PUTs under way (a PUT may land after its
sender gave up), `db` every table concerned, `admissions` the requests in
progress in the API, `ticks` each worker's reconciler, `gate` the restored
database's run and the commands working on it. `born`, `acked`, in `db` `passKeys`
and `missed`, and in `gate` `listed` and each command's `began` record history.

| Action | Code |
|---|---|
| `Authorize`, `ReadIntent`, `PutIntent`, `ApplyAdmission`, `GiveUp` | `messages.service.ts` remove, `account-deletion.service.ts` remove: preflight transaction, `ensureIntent`, apply |
| `Land`, `Drop` | what becomes of a PUT with `If-None-Match` |
| `ClaimDiscovery`, `List`, `RegisterPage`, `FailDiscovery` | the first half of a reconciler tick: one page of the listing |
| `ClaimEntry`, `PinReceipt`, `Replay`, `FailEntry`, `EndTick` | the second half: entries, each in the phase APPLY or SCRUB |
| `ExpireDiscovery`, `ExpireEntry`, `Crash` | leases run out, processes die |
| `Create`, `OpenSession`, `LinkIdentity`, `DeletedWithSource`, `Purge` | what the rest of the service does to a target |
| `TakeBackup`, `Restore` | the database of an earlier moment, every process stopped; the ledger is as it is |
| `Call` | `restore-gate.service.ts`: prepare, observe or consume starts and lists the bucket (`receipts`) before anything else |
| `Begin`, `PrepareReceipt`, `ObserveAfter` | the transactions of prepare, and the listing of the observation it ends with |
| `Observe`, `Consume` | the transaction that records an observation, and the one that authorizes the release, each long after the listing |
| `Abandon` | a rejection, an expired proof or deadline, custody lost, the process dead: after any step |
| `Activate` | the custodian acts on the release; the code only returns `servingAuthorized: false` |

`Applied` is the transaction that admission, replay and restore share
(`applyInTransaction`), `Resolved` whether it finds what the intent names,
`Conflict` when it throws. Steps that the code separates are merged only where
nothing can come between them that matters: reading an object and pinning its
digest are one action, because an object never changes and the fence is checked
at the pin; a read that finds nothing and the PUT are one, because what
the PUT does is decided when it lands; the scrub of a restored account is in the
action of its receipt, because the quarantine has ended every session before and
nothing opens one behind the gate. `holder` is the worker whose claim has *not
expired*: a token is new for each claim, so a worker whose claim ran out fails the
fence whoever has the row.

A command of the gate is a chain of actions with everything else in between. It lists
the bucket, then inventories the media for up to 300 s, and only then runs the
transaction that observes or releases, which looks at the database and not at the
bucket again (`restore-gate.service.ts:141-186`). A PUT that was under way at the
restore may land in that window, and it does in the model: the release then
authorizes a database in which the late intent is not applied, and the reconciler
applies it once the service is active. `GateOpensClean` therefore speaks of
what the releasing command had listed, and `AckedStays` of what anyone was told.
`restore-proof.ts:111-112` wants the issuer of a boundary to attest that pending
admissions are resolved (`pendingAdmissionsResolved`); the code can check only that it
is said, so the model does not rely on it. A listing itself is one step: whatever
lands while its pages are read counts as landing after it. Commands may overlap, and
a row is locked only inside a transaction, so `Locked` is evaluated anew in each. The run's
`target_id` is unique: a restored database has one run with one boundary, and another
boundary needs another restore.

### Transactions

A call goes through `Admit` (the pending count, or a refusal), `Acquire` (a
connection, with a deadline of its own), BEGIN, the operation's statements, COMMIT
or ROLLBACK. `run` is where the work of a call is, `told` what its caller knows;
the two part at `Deadline`, when the caller leaves and the work goes on. `abort`
is the checkout's handle by which timers destroy a connection, `server` what MySQL
makes of the session, so that a COMMIT on its way may still land (`CommitLands`)
or not (`CommitLost`). `Answer` is what the code makes of an error: failure, doubt,
or another attempt. Prisma and the MariaDB driver are external; their answers are
those the repository's tests give them. `TransactionOutcome` is the abstract
specification, `Implements` the refinement.

### MediaAssets

An object of the model is one immutable key. `put` is its PUT (not begun, on its
way, landed, acknowledged), `object` its row with the proof of writing, `store`
the bucket, `asset` the row with reservation, checkpoint and cursor. `handlers`
are the runs of the worker, including the one that lost its lease and does not
know. `upload` is the client's request.

| Action | Code |
|---|---|
| `ReserveMedia`, `BeginUpload`, `PutInput`, `AcknowledgeInput`, `FinishUpload`, `FailUpload`, `UploadLate` | `media-core.service.ts`, `media.service.ts`: the upload in its transactions, with the PUT between |
| `prepareMedia`, the attempt, its PUT and acknowledgement, the finish (within `Work`) | `media-worker.service.ts` transform: a new key for every try |
| `cleanupPage`, `Remove`, `Removed`, `finishPage` | a page of keys planned, deleted one by one, recorded together, the cursor moved |
| `RecoverMedia`, `TakeSnapshot` | the recovery scan, which chose its asset in an older read view |
| `Attach`, `DeleteMessage`, `AdmitAccountMedia`, `Revoke` | what messages, accounts and rooms do to an asset |

### Push

`job[Fanout]` is the fan-out, `job[s]` the delivery to one subscription, `worker`
what a handler has read and where it is. Time is what is left of leases and
requests; `lost[s]` is how long a subscription has been without authorization.
`ReadPage`, `enqueue`, `CompleteFanout` are the fan-out; `Authorize`, `Prepare`,
`AuthorizeAgain` (the second transaction, which also asks for time left on the
lease), `Send`, `Answered`, `Finish`, `Rejected` a delivery. Users `register`
(rotate), `remove`, change preferences and lose sessions, accounts and access
between any two.

### LoginFlow

`start`, `claim`, `Exchange`, then the last transaction in two steps, `resolve`
(locks and looks up the subject) and `finish`, or `Duplicate` or `Rollback`; `fail`
is the failure path, which also follows a COMMIT the callback was not told of.
`deny`, `Expire`, `revoke` (logout) and the three transactions of an account's
deletion run beside it. Whether the deployment has an identity guard key is
chosen at the beginning.

### Outbox

`store` is the grant in IndexedDB with its epoch, `record` the commands in it, `tab`
the `DurableOutbox` of each tab, `flow` a send, a retry or a look-up under way.
Each IndexedDB transaction is one action; what a tab asks the server (`Ask`) may be
old when it authorizes the store with it. `eraser` is a logout's
own connection. `suspend`, `authorize`, `revoke`, `quarantine`, `prepare`,
`lookupNotFound`, `settle` are methods of `indexeddb.ts`; `Submit`, `Post`, `LookUp`,
`Answered`, `NotFound` the flows of `chat-controller.ts` through them.

## Runs

Every run ends with no error except `room_sync_purged_copy`, which is a finding.
Page size is 1 wherever there are pages, so that everything with two entries is
paged.

| Run | Question | Bounds | States |
|---|---|---|---|
| `job_queue` | Can two handlers commit, an effect repeat, a poison job run for ever, a lease be stolen, a finished row reopened, asking twice take effect twice? | two scenarios: one row that may become a push, transform, cleanup or purge job, two workers, lease 2 ticks, clock to 5, generation to 5; two rows with and without a key, beside an api process, clock to 2, generation to 3; 2 attempts | 522 k |
| `worker_loop` | Is shutdown safe at every await, does it end and leave nothing running, is anything starved? | 2 purges that recheck for ever, 1 ordinary job, 2 attempts, up to 2 claims a tick, one crash with restart; fair | 46 k |
| `room_sync` | Are sends idempotent, deletions final, events in order, is the screen fresh and complete? | three scenarios: source, copy and a post quoting the copy under send, publish, remove and purge, 6 orders; a post and an inbox message that quotes it under join, leave, ban, block and updates, 5 orders, 2 authority changes; deletion of accounts, 3 orders | 882 k |
| `room_sync_catches_up` | Does the screen catch up? | source, copy, post; 4 orders, 2 authority changes; fair | 23 k |
| `room_sync_purged_copy` | Does a deleted copy leave the screen while it is purged? (no) | source, copy, post; 4 orders | violated |
| `deletion_restore` | Is the ledger ahead of the database at every moment, does an acknowledged deletion survive a restore, has all that the release listed taken effect when the service serves again? | a message and an account, one request at a time, PUTs landing late; logins, links, source deletion, purge; one restore from a backup of any moment, two commands of the gate at a time (interchangeable, hence the symmetry in `MCDeletion`); clock to 2 | 2.8 M |
| `deletion_replay` | Are passes complete, is an observed intent done, does every durable intent take effect? | an account and a foreign object in the bucket, two workers, page size 1, logins, one request at a time; fair | 70 k |
| `media_assets` | Can anything come back under a closed key, is it paid for, is an attached asset safe, does cleanup end? | one asset, a budget of 3; four scenarios: retries up to 3 objects; two handlers with 2 objects; a message that takes the asset; the loss of room and account; fair | 166 k |
| `transactions` | Is admission exact, is what callers are told true, does a connection serve one transaction, do places come back? | three calls, one a write with 2 attempts, one connection, 2 places; fair | 493 k |
| `push` | Is anybody missed, does a revocation bite, do requests overlap? | two subscriptions, one native; two workers; lease 4, reserve 2, Web request 1, native 2, COMMIT 1; 2 changes; scenarios: the fan-out to both, or all of one subscription | 3.2 M |
| `login_flow` | One session per login, none for a deleted account? | 2 logins, 2 callbacks, 2 accounts, 2 subjects, with and without guard key | 1.0 M |
| `outbox` | Whose payloads are in the store, whose answers, what does a logout erase? | three scenarios: two tabs and two flows while the room's membership changes, 3 grants; a logout and a successor session, two tabs; a store of 1 record and two commands | 964 k |

**Why these bounds are enough to be interesting.** With a lease of 2 ticks and a
clock to 5, a row is leased, expires, is leased by the other worker, expires
again and is recovered after its cooldown, with the first holder still trying.
Two attempts are the fewest with a first, a last and a spent one. Two claims a
tick and a turn counter modulo four make the reserved claim fall on every index,
and two purges always leave one due ahead of the ordinary job.
In the rooms, three messages are a source, its copy and a message that quotes
the copy: the longest chain of references the schema allows (a copy quotes
nothing and is not copied). Five or six orders are enough to create all of them,
change one, delete and have the counter pass the deletion. With a page size of 1
two events are two pages, and a snapshot, a history page and an events page can
be interleaved with every command. The cap on authority changes bounds `join`,
`leave`, `ban`, `block` and reactions, not the epoch advances of the purge, which are
bounded by what there is to remove.

For deletion, a clock of two values gives two attempts on one target different
request times, of which only the one that lands first may ever be applied; the
restore may fall at any point of them, and the boundary that a command is
given is any set of keys. Two commands are a prepare whose replay another one's observation
or release overtakes, or two releases; what a third would do to the row, one of the two
could have done before. Two keys on pages of one give a pass two claims, which
two workers can interleave, expire and repeat; the foreign object makes the
pass longer without making an intent.

For media, two objects are the input and one output, the third is a retry; two
handlers are the one that lost its lease and its successor. For transactions,
one connection makes every wait an acquisition and every release a hand-over to
another call; three calls on two places need a refusal. In push, two
subscriptions on pages of one are two pages with a gap between them, and the
lease is twice the reserve, so that a delivery may outlive it. Two callbacks on one
login, or on two logins of one subject, are all the races a login has. Three
epochs of the outbox's grant are a change of authority and the way back.

**Deadlock** is checked everywhere else, and switched off where the system comes to
rest: a worker process that was shut down, an account deleted and cleaned up, an
asset that is gone, calls that were all told, and `deletion_restore`, where an intent
that cannot be resolved keeps the gate closed for good, as described below.

**Properties**, each broken by a plausible bug planted in the definition it is
about ("mutants" in `PROJECT.json`):

- `OneLiveLease`, `NoStolenLease`, `EffectOnce`, `KeyedEffectOnce`,
  `LeasesBounded`, `TerminalStays` for the queue. `EffectOnce` allows one more
  effect for every time the media scan reopened a *completed* cleanup, which it
  does by design. `LeasesBounded` does not speak of durable rows, which are
  claimed for ever, with a saturated attempt counter. `TerminalStays`: a finished row
  changes only in a scan that owns it, and a purge that failed for good in none.
- `OtherServed`, `NoWorkAfterStop`, `QuietWhenDown`, `ShutdownEnds` for the worker.
- `LedgerFirst`: nothing in the database says a deletion was requested, or when,
  unless the ledger has that very intent, and no client was told so. `AckedStays`:
  whoever was told that a deletion is done never sees the target live again.
  `GateOpensClean`: when the service serves again after a restore, every intent that
  the ledger had when the release listed it has taken effect, and there is no session,
  whatever commands, late PUTs and deaths came between listing, observation,
  release and activation. `PassComplete`: a pass lists every key that was durable
  when it began. `ObservedIsDone`, `SessionsEnd`, `IntentsTakeEffect`: an observed
  entry's target is blocked and logged out; a blocked account loses its sessions; a
  durable intent takes effect whoever wrote it is gone.
- `SentOnce`, `DeletedForGood`, `EventsInCommitOrder` for the room.
- `ScreenFresh`: once the client's cursor is good and past the deletion of a
  message or its source, neither the message nor a quote of it is on screen.
  The excuses are named: the deletion lies ahead of the cursor (`Excused`), the
  author's account is being deleted and cleanup has not reached the message, or
  the copy is in the window of the finding below (`Unlinked`).
- `NothingMissing`: at rest, every readable message up to the cursor and down to
  the oldest page loaded is on screen, in the version its last event announced.
- `NeverResurrected`: no late answer, history page, re-read or new cache shows a
  message again whose deletion the client was told.
- `CatchesUp`: the screen of a member who stays a member is the room as it is,
  again and again.
- `ClosedForGood`: a key whose deletion was recorded is empty and nothing on its way
  can fill it. `BytesPaidFor`: all that is, or may yet arrive, in the bucket is within
  the reservations, and these within the budget. `AttachedStays`, `CleanupEnds`. By
  design a key whose writer was never acknowledged is never closed, so `CleanupEnds`
  speaks of assets whose writers have answered and whose cleanup has a checkpoint:
  a cleanup job that exhausts its attempts before its first page leaves none.
- `Admitted`, `CheckoutKept`, `PlacesReturned` and the refinement `Implements` for
  transactions. `Admitted` counts attempts that have not settled: one that is still in
  the driver's queue at its acquisition deadline settles there, in the code as in the
  model, and what the driver then does with its request is not counted.
- `FanoutComplete`, `RevocationTakesEffect`, `OneInFlight` for push. A native
  provider is left out of the last: its look-up (2 s) and request (5 s) exceed the
  reserve of 6 s, so two requests may overlap.
- `OneSessionPerLogin`, `DeletedStaysOut` for the login.
- `PayloadsOfTheSession`: a payload is in the store only while it is open for the
  session and the membership it was written under. `SettledUnderItsGrant`: an answer
  is stored only under the very grant its operation began under. `LogoutErasesItsOwn`:
  a logout leaves no payload of its session and takes none of a successor's; its
  excuse (`raced`) is a tab that did not know of the logout and authorized the
  session anew between the logout's look and its transaction.

## Fairness

*Worker* (`Fairness`). The event loop runs what is runnable and handlers settle,
as they carry timeouts (weak fairness of the loop and of the shutdown); delays
and leases run out, and the recovery scan runs on a timer (weak fairness of
`BecomeDue` and `Expire`). A database asked again and again answers in the end:
strong fairness of the readiness check and of an acknowledged claim, for
reserved and unreserved claims separately, since failures could otherwise
always hit the reserved one. For each purge job also that it is claimed and
deferred in the end: a purge row whose lease is always lost keeps its old
`available_at`, returns to the head of its class and, being exempt from
exhaustion, would block the other purges for ever. That is an assumption about
the environment (`jobs.repository.ts:27` is where the row returns to the head).

*Reconciler* (`Fairness` of `Deletion`). Ticks repeat and each goes on to its next
step (weak fairness of `Advance`), leases run out (weak fairness). Strong
fairness of listing, registering, claiming an entry, pinning and replaying *while
the claim is alive*: a tick gives discovery 10 s and replay 20 s of a lease of 60 s,
so a step that is tried again and again is not always too late, and the store
and the database do not fail every time. Every entry gets its turn, as candidates
are taken by due time and each try moves that time forward. Admissions, PUTs and
logins have no fairness.

*Media* (`Fairness` of `MediaAssets`). The recovery scan runs on a timer, a lease
nobody renews lapses, a handler goes on or fails (weak fairness). Strong fairness
of claims and of each step of a cleanup while its lease is alive: storage and
database do not fail every time, and each step renews the lease it needs.

*Transactions* (`Fairness`). Every wait of the work has a timer in the code, and a
body awaits only its own statements, which have one (weak fairness of `Work`); a
write that is to be tried again is (weak fairness of its `Admit`).

*Client* (`SyncFairness`). The 15 s timer keeps refreshing while the tab is
visible (weak fairness of `Refresh`, and of the end of an aborted flight); no
request fails every time (strong fairness of every step a failure or a clear
could pre-empt). Commands of the room have no fairness: nobody has to send
anything, and a purge may never run.

## Proofs

Eight modules of theorems, checked by TLAPS for every value of the constants that
the named assumptions of the models allow: any rows, processes, clock values and
attempts; any set of messages with any authors, streams, roots and quotes; any
tabs, commands and sessions; any finite sets of targets, calls, assets,
subscriptions, logins; any page size and any bound. They state every invariant and
every action property that a run checks and expects to hold.

| Theorem | Says |
|---|---|
| `JobProofs!TypeCorrect` | `Spec => []TypeOK`, with attempts never above their maximum |
| `AtMostOneLiveLease`, `EffectAtMostOnce`, `KeyedEffectAtMostOnce`, `PoisonIsBounded` | `Spec => []` of `OneLiveLease`, `EffectOnce`, `KeyedEffectOnce`, `LeasesBounded` |
| `FinishedStays` | `Spec => TerminalStays`: no enqueue, late worker or scan changes a finished row that is not a scan's own |
| `LeaseNeverStolen` | `Spec => NoStolenLease`: while a lease's time runs, only its holder ends it |
| `DownIsQuiet`, `StoppedStartsNothing` | `LoopSpec => []QuietWhenDown`, `LoopSpec => NoWorkAfterStop` |
| `RoomProofs!TypeCorrect` | `RoomSpec => []RoomTypeOK` |
| `SentAtMostOnce`, `EventsCommitInOrder`, `DeletedStays` | `SentOnce`, `EventsInCommitOrder`, `DeletedForGood` |
| `RoomUnderReaders` | `SyncSpec => RoomSpec`: the theorems on the room hold of it under any readers |
| `DeletedNeverShown`, `ScreenIsFresh`, `NothingIsMissing` | `SyncSpec => []` of `NeverResurrected`, `ScreenFresh`, `NothingMissing` |
| `OutboxProofs!PayloadsStayWithSession` | `Spec => []PayloadsOfTheSession` |
| `AnswersUnderTheirGrant`, `LogoutErases` | `Spec => SettledUnderItsGrant`, `Spec => LogoutErasesItsOwn` |
| `DeletionProofs!TypeCorrect` | `Spec => []DeletionTypeOK` |
| `TheLedgerIsFirst`, `ToldAndGone`, `ObservedOnlyWhenDone`, `NothingSkipped`, `TheGateOpensClean` | `LedgerFirst`, `AckedStays`, `ObservedIsDone`, `PassComplete`, `GateOpensClean` |
| `TransactionsProofs!AdmissionHolds` | `Spec => []Admitted` |
| `TellsTheTruth` | `Spec => Implements`: the refinement of `TransactionOutcome` |
| `CheckoutsAreKept` | `Spec => CheckoutKept` |
| `MediaAssetsProofs!ClosedKeysStayEmpty`, `AttachedAssetsStay` | `Spec => []ClosedForGood`, `Spec => AttachedStays` |
| `ReservationsPay` | `Spec => []BytesPaidFor` |
| `PushProofs!FanoutReachesAll`, `RevocationsBite`, `NeverTwoInFlight` | `FanoutComplete`, `RevocationTakesEffect`, `OneInFlight` |
| `LoginFlowProofs!AtMostOneSession`, `DeletedAccountsStayOut` | `OneSessionPerLogin`, `DeletedStaysOut` |

`PushAssumption` holds one fact nothing in the code states: that COMMIT of the
second authorization and the request's timer fit in the reserve it asked for
(`CommitLimit + WebLimit <= Reserve`). The reserve is 6 s and the timer 5 s;
that the COMMIT takes no longer than the second between them is an assumption.
`SyncAssumption` asks for a page of at least one row (the routes take a limit of 1
to 100, `sync.dto.ts:6-7`) and that no cursor is None; `OutboxAssumption` that no
tab, command or authority is.

**The queue's invariant** is `TypeOK /\ TokensOnce /\ EffectsCounted`.
`OneLiveLease` is not inductive: nothing in it stops a second lease object from
having the same token. `TokensOnce` says that tokens in memory and on rows have
been drawn, and that two leases with one token are one lease; then two leases
that both pass the fence of one row carry that row's token.
`EffectsCounted` ties the history to the state: a row's committed effects are
exactly its reopenings, plus one while it is COMPLETED. A completion needs the
fence, the fence needs RUNNING, so an effect is counted only where none is
outstanding; a reopening moves the one of the completed row to the other side.

For keys and attempts a second invariant, `RowsOnce`, says that a key belongs to one
row of its purpose and that a row which is not durable has spent an attempt for
every lease; `SameRows` that what a row *is*, durable included, never changes, which
is what makes the count of attempts a bound. `NoStolenLease` needs the same
invariant at one step: a claim takes a RUNNING row only once its time is over, the
recovery scans reopen rows that are not RUNNING, and a step of another lease on
the row would need a token that is not its own.

**The worker's invariant** says where the run may be suspended with a lease, that
the poll timer is armed only between runs, that nothing is armed behind the stop
boundary, and that what each step of the shutdown waited for is at rest.

**The room's invariant** is `RoomTypeOK /\ Accounted /\ LockHeld`. `Accounted`
relates the history of insertions to what stops a second one: no message was
inserted twice, one never inserted is absent, and one that a send inserted has a
receipt, through tombstone and purge. `LockHeld` is why the two halves of a
command fit together: while a command holds the room lock its order is ahead of
the committed counter, and the receipt or copy it did not find when it began is
still not there when it commits.

**The client's invariant** is built in three layers over the room's, one for each
property, as the code has one mechanism for each. The room's steps enter them only
through what readers can rely on (`Grows`, `Moves`): versions grow, what goes is gone
for good, an order below the counter never gets a new event, and under one authority
whatever changes leaves an event with a new order.

- *Nothing comes back* (`Buried`, `Carried`): what was told deleted is finished in the
  room, is in no cache, and in no answer that is still on its way, because an
  answer in flight when a deletion is accepted is aborted or is that very answer; and
  an answer holds no version older than the client has. An answer is read in one
  step with what it is computed from, so it starts out as new as the room.
- *What is shown is fresh* (`Cursors`, `InRange`): every cache is *in time* for a cursor,
  that of the client, the next one of a re-read, or that of the answer. In time is what
  `ScreenFresh` says, but with a reason that lasts: the deletion of a message that is
  still held lies ahead of the cursor *and its event is still in the log*, or its
  copy's publication is purged. The hard step is a page of events: what is held and not
  told deleted must be in time for the new cursor. If the event lies in the
  page's window it is one of the first `PageSize`, or the new cursor stops before it
  (`PageTimely`); and an event that is purged takes the authority with it.
- *Nothing is missing* (`Granted`, `Completed`): every cache is *complete* from its oldest
  page to its cursor; a page of history fills what its cursor had not reached, and a
  message that a page of events does not bring has no event between the two
  cursors (`PageFills`). That a cursor is only given to a member is what rules out a
  message that becomes readable under the same authority.

`RoomUnderReaders` is a refinement with the identity as its mapping: a client's step
leaves the room alone.

**The outbox's invariant** rests on the epoch: a grant anywhere in a tab or a logout
is older than the store's or the store's own (`GrantsOfTheStore`), because every change
of authority and every erasure draws a new epoch. So an operation that carries the
epoch of its tab's grant (`UnderItsGrant`, all but a retry that was told 404 and waits
for any grant) finds at its guard the very authority it began under, through A to B
and back to A. A payload stays permitted because the authority a command was
typed under, the record's and the store's are compared in a chain (`OfTheSession`): each
authorization scrubs whatever the new one does not permit. `LogoutAtWork` says that
the session can have the store back under another grant only if it was authorized
anew after the logout looked, which is the exception the property makes.

**Deletion's invariant** is `DeletionTypeOK /\ Sound(db, ledger, born) /\
(backup # None => Sound(backup, ledger, born)) /\ InHand /\ Claimed /\ AckedStays`.
A restore puts the backup in the place of the database, so whatever is claimed of
one must hold of the other, under the ledger as it is *now*; that works because
objects of the ledger never change and only grow in number (`SoundGrows`). `Sound`
has four parts. `Agrees`: times, checkpoints and pinned receipts are the ledger's.
`InEffect`: a checkpoint that says blocked tells the truth, and stays true,
because an account's links were covered when it was blocked and only an ACTIVE
account gets another. `InOrder`: scrubbing follows blocking, observing follows
both. `Passing`: every key of the current pass has been listed or lies ahead of
the cursor. `InHand` says the same of what a request, a tick or
the gate's boundary carries between two transactions, and `Claimed` that a worker
which still holds the listing's claim has a page that leaves out no key up to its
next cursor. That last fact is about the listing itself: a page cut off at
`PageSize` keys has a last key and everything not on it comes later (`PageEnds`,
by a count of the keys up to each one, for any finite set of keys and any size).

The gate's part is `Custody`, with which that invariant is inductive. Between a
command's listing and its release lie steps of other commands and PUTs that land, so
that what was true at the listing must be something that lasts: while the gate is
closed no request is in progress, hence what was acknowledged is in every listing
made since (`acked \subseteq began`); a listing equals the boundary, hence the
release's check of the database against the boundary is one against the listing; and
from the release to the activation no action touches sessions or checkpoints, since all
that could need an open gate, or a row that is not released. `AckedStays` at the
activation follows from that, not from a look at the ledger.

**The transactions' invariant** is `TransactionsTypeOK /\ Admitted /\` for each call
`Consistent`: which answers, attempts, places of the work, states of the server and
numbers of effects go together. A COMMIT is sent only for a caller that still
waits, as every way of leaving closes the state first; so whoever left before it
was told of a failure that is true, and whoever left after it of a doubt. Every
step then is shown to keep it *and* to be a step of `TransactionOutcome` or none.
`CheckoutKept` rests on the handles: an armed handle names the connection its call
still has.

**Media's invariant** says what may still be on its way: a write that was ever
acknowledged has landed (`Proofs`); a run that has put a key knows that it arrived,
and one that found keys acknowledged *before* its DELETE finds them empty after it
(`Knows`); the keys of an asset that is gone are empty for good (`Gone`). What was
acknowledged during the DELETE is not among them, which is the rule the code's
comment states. For the bytes (`Paid`) each reserved unit is an element of a
set, so that the budget is a cardinality rather than a sum: a reservation adds its
units, an output adds one with its key, a release takes out those of its asset. A
reservation that is not given back covers every key its asset ever had; one that
was leaves keys which are empty and to which nothing is on its way.

**Push's invariant** follows a run of the fan-out (`FanningOut`): behind its cursor
nobody eligible is without an intent but those on the page in hand, which needs
that a page has the *first* candidates and that eligibility is only lost
(`OnlyLose`). `Requesting` and `OneHolder` are the clocks: an admitted request has a
lease that outlasts it, it is late by no more than its age, and one worker at a
time believes it has the lease.

**The login's invariant** is about the last transaction's locks (`Locked`): what it
found of login and account under them is still so when it commits, because a
deletion's transactions wait for the same rows; and where no guard key locks a
subject, the duplicate is found at the insert.

**Only model-checked.** What holds under fairness, as liveness is beyond the prover:
`OtherServed`, `ShutdownEnds`, `CatchesUp`, `IntentsTakeEffect`, `SessionsEnd`,
`CleanupEnds`, `PlacesReturned`. And the one property of `room_sync_purged_copy`, which
does not hold.

## A disagreement between code and documentation

`room_sync_purged_copy` checks what `docs/backend-message-row-purge.md:68-71`
says: references through which `affected` discovers changes are removed in
transactions that advance `rooms.content_epoch`. A copy's publication is such a
reference: `affected` finds the deletion of a copy through its source's event only
while the publication row is PUBLISHED or REVOKED. But the page that
deletes that row (`message-purge.repository.ts:82-90`) commits on its own and
advances nothing; the events page comes after it. TLC's trace: source and copy
are sent, published and shown; the source is deleted; the purge removes the
copy's publication; the client asks with a cursor from before, is given an
ordinary page, passes the deletion and keeps showing the deleted copy with a good
cursor. The window closes with the next page of the purge that advances the epoch.

## What is abstracted, what is left out

*Queue.* Several rows claimed by one transaction are several claims. The
jitter of a retry is a choice from a set. The discovery cursor of the purge scan
and the asset states behind media cleanup are not modelled: the decision on each
found obligation is. Claim order (purges first, due time, id) is in `WorkerLoop`;
`JobQueue` lets a claim take any due row, which allows more.

*Transactions.* The categories of failure are one; a body awaits nothing but its own
statements. The driver's answers to COMMIT and ROLLBACK are those of the
repository's fakes. Capability discovery at startup is left out.

*Room.* Photo, video and sticker bodies, reaction contents, notifications,
hints, push jobs, reports and moderation records are left out, and with them
their pages of the purge. Publishing is the finalizing transaction only. A pair
is granted when it is created and revoked by a ban. The order in which purge or
cleanup takes several copies is free; the code takes the first by id. The owner's
and the authors' own views are not modelled. An account that enters DELETING
makes its messages unreadable with no event and no epoch; clients learn of it
when cleanup reaches the messages, hence the excuse in `ScreenFresh`.

*Client.* Cursor signatures are taken as unforgeable; cursor expiry (24 h),
profile pages, media URLs, composer and send path are left out. Resets that
other rooms, profiles or recipients cause are covered by `Fail` and `Invalidate`
at any time. The cache id and the abort signal of a flight are one fence
(`aborted`). `loadOlder` merges, verifies the session and shows in one step.
Items cleared by a change of hints are not modelled. `CatchesUp` is checked
without purge and account deletion, whose epochs and excuses are the safety runs'
subject.

*Outbox.* All sessions are of one account and all commands of one room. Payloads have
no size, so the limit is on records only; `attempted`, which nothing reads, is left
out; the broadcast of changes is covered by tabs that authorize at any time. What a
tab keeps of commands in memory is not modelled: it may ask for any that is stored.
A failed guard is `suspend`. Two things the model makes visible: a tab with an old
view that authorizes the store scrubs what the successor session has not sent yet;
and one that authorizes a session between a logout's look and its erasure keeps that
session's payloads until the next authorization or their expiry (15 minutes).

*Media.* An input and an output take one unit each. Images only: a video's poster
would be a second output. Sticker invalidation, daily quotas, assets a deleted
account leaves preserved for another, and copies of photos by publications are left
out; attempt counters are a choice (any failure may be the last). Of the recovery
scan's query only the references are read in its older view (`TakeSnapshot`), which
is what its re-check under the lock is about; the jobs and objects in the same query's
subqueries (`media-worker.repository.ts:99-108`) are read as they are at the action. In an older
view they would let the scan block or reopen an asset that has a live job by now.

*Push.* Attempts are a choice as well. Generations stand for times: a subscription or
preference was changed after the message exactly if its generation is not the first.
Registration of native devices, the in-app inbox, and the purge of intents and jobs are
left out.

*Login.* Rates, browser digests, terms, profiles, the 15 minutes a link's session may be
old, re-verification of revoked identities, native and password logins are left out,
and the cleanup that clears all login rows of an account in the end. With a guard key
a subject is locked by its row and the duplicate-key race cannot happen; it is
modelled without one.

*Deletion.* Due times, lanes and attempt counters of replay entries are left out:
a waiting entry may be claimed at any time. So are object sizes and conflicting
listings (`evidence_conflict`), the rows of the identity guards, and the pages of
100 of a scrub, which is one step. An account's identities are "one" or "a second
one linked". In the gate, proof signatures, the renewal of custody (their expiry
and its loss are `Abandon`), the provider's quarantine pages, what the media inventory
finds (its duration is the window between two actions) and the observation's digest,
which only makes a release rarer, are left out; the inventory a boundary signs is an
arbitrary set of keys. The tables that the quarantine resets are "sessions", those of
accounts that have one. What
application does to the room is `RoomLog`'s.

Three things the model makes visible, none of them a contradiction with the
documentation. (1) A backup from before a deleted message was sent has no row to
block, and a copy whose row went with its source's purge before its own intent
was applied has none either. The intent stays pending, as
`docs/backend-deletion-ledger.md:46-51` says it must, and the gate then rejects
every prepare of a boundary that lists it. (2) An account to which an identity
is linked between authorization and application is DELETING, but the guards in
its ledger receipt do not cover it: the intent is pending for good, and its
sessions, which no longer authenticate, are never scrubbed. (3) Any other
object in the bucket keeps the gate closed, while the reconciler only records it.

*Not modelled at all:* the components marked so in `PROJECT.json`, each with its
reason.

## Plan

Done, the most important behaviour first: `JobQueue`, `WorkerLoop`, `RoomLog`,
`RoomSync`, `Deletion`, `MediaAssets`, `Transactions` with its refinement, `Push`,
`LoginFlow`, `Outbox`, and the proofs above. What would come next:

1. Refinements: `JobQueue` of a set of obligations each taken by one effect,
   `RoomSync` of a screen that is some past state of the room under the present
   authority, `Outbox` over `RoomLog`'s idempotent send.
2. `Realtime`: subscriptions, slow consumers, a revoked session. Its hints are only
   an optimisation for the models here.
3. Videos and stickers in `MediaAssets`, photo publications, and the remaining
   families of account cleanup.
