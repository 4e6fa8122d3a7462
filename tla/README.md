# A TLA+ development of mailts

mailts (`src/src`) is a TypeScript library that sends and reads mail: a send
queue with retries and a dead-letter queue, pools of SMTP and IMAP connections,
a database-backed queue shared by processes, a worker that pulls messages from a
broker, a mailbox watcher and OAuth token providers. This directory holds TLA+
modules of its stateful parts and of the conversions between them, TLC
configurations that check them on small instances, and proofs, checked by TLAPS,
of what holds on every instance.

Paths below are relative to the repository root; `MailQueue.ts:184` is line 184
of `src/queue/MailQueue.ts`.

## 1. The system

| Component | State it keeps | Operations | What is hard | What makes it correct |
|---|---|---|---|---|
| **Send queue** `queue/MailQueue.ts`, `JobController.ts`, `RetryPolicy.ts`, `RateLimiter.ts`, `DeadLetterQueue.ts` | four tiers of pending jobs, scheduled jobs and one timer, running jobs, a controller per running send, drain promises, paused / closed | enqueue, tick, execute, promoteDue, pause / resume, cancel, interrupt, abort, drain, shutdown | microtasks between the end of a send and the freeing of its slot, timeouts that do not stop a send, a shutdown of three waits | every job in one place, slots and retries bounded, promises settled, nothing starts after close |
| **Persistent queue** `queue/SqliteQueue.ts`, `JobCodec.ts` | a table of jobs with owner and lease, the in-memory queue above it | claim, restore, poll, renew, status updates, close | several processes, expired leases, a crash between send and update | one owner sends a job at a time, no row is stranded |
| **Queue worker** `queue/MailWorker.ts`, `QueueDriver.ts` | held messages, consume loop, a wake-up callback | start, pause, resume, shutdown, ack / nack on settle | redelivery, pause during a dequeue, a full worker | each message settled once, never acked before it is sent |
| **SMTP pool** `smtp/SmtpPool.ts` | clients (in use, idle, connecting), waiters | acquire, release, abort, retire, idle expiry, drain | a failed connection with waiters, an aborted waiter | limit kept, no waiter stranded, no client leaked |
| **SMTP client** `smtp/SmtpClient.ts`, `SmtpStream.ts`, `SmtpCommand.ts`, `SmtpProxy.ts` | socket, reply buffer, phase of the session | connect, STARTTLS, AUTH, transaction with pipelining, RSET, QUIT | replies that come after their timeout | each reply answers its own command |
| **IMAP pool** `imap/ImapPool.ts` | sessions per account, waiters, global and per-account limits | acquire, release, evict, expire, retire, drain | two limits and waiters of several accounts | both limits kept, no waiter stranded while it could be served |
| **IMAP session and client** `imap/ImapSession.ts`, `ImapClient.ts`, parsers | connection, selected mailbox, command lock, IDLE | connect, close, commands, idle | close during connect, IDLE interrupted by commands | one command at a time, no leaked connection |
| **Mailbox watcher** `imap/MailboxWatcher.ts` | last message seen, reconnect loop | start, stop, reconnect | stop during reconnect, messages that arrive while disconnected | one loop, no message missed |
| **Token providers** `oauth/OAuthClient.ts`, `appOnly.ts`, `core/Credential.ts` | cached token, shared in-flight refresh | getToken, invalidate | invalidation during a refresh | no invalidated token is served |
| **Facade** `core/MailTs.ts` | queue, pool, session, providers | configure, send, shutdown | order of shutdown, reconfiguration | queue stops before its pool |
| **Messages and MIME** `core/Message.ts`, `MimeParser.ts`, `Attachment.ts`, `RichContent.ts`, `Reply.ts` | none across calls | build, parse, reply, forward | encodings, boundaries, dots and sections that must fit together | what is read is what was written; a reply stays in its thread |
| **Transports and mailboxes over HTTP** `transports/`, `mailbox/` | the place a watcher has read up to, ids it remembers | send, search, change, watch | pages read while mail arrives, a 401 answer in the middle | mail reported once, a request performed once |
| **Trap server, testing package** `packages/trap`, `packages/testing` | received messages in memory and in a file, event streams, the page of its user | SMTP sessions, HTTP requests, stop, start | killed while it writes, a page that follows events and answers at once | a restart brings back what there was, the page shows what there is |
| **Health checks, login helpers, message helpers, logging, CLI** | none across calls | formatting, single exchanges | – | unit tests reach it |

How they interact: `MailTs.send` or `queue.enqueue` hands a message to the send
queue; `tick()` calls the send function, which acquires a client from the SMTP
pool, runs one transaction and releases it. The result, or an abort signal from
the job's controller, settles the attempt; events of the queue (`success`,
`retry`, `dead`, `cancelled`, `interrupted`) drive the persistent queue's rows
and the worker's acks. The IMAP pool lends sessions to mailboxes and the watcher;
both SMTP and IMAP ask a token provider for credentials when they authenticate.

Everything runs on one JavaScript thread, so the interleavings are those of
callbacks: a synchronous call is atomic, an `await` is a gap where any other
callback, timer or call of the application may run. The persistent queue adds
several processes on one database.

## 2. The modules and how they compose

| Section | Modules | Composition |
|---|---|---|
| 3 | `MailQueue`, `MailQueueContract`, `Sublists`, `MailQueueProofs` | `MailQueue` implements `MailQueueContract` |
| 4 | `SmtpPool`, `PoolProofs` | – |
| 5 | `ImapPool`, `ImapPromises`, `PoolProofs` | `ImapPromises` states what an `INSTANCE` of `ImapPool` promises |
| 6 | `SqliteQueue`, `StorageProofs` | – |
| 7 | `MailWorker`, `MailWorkerProofs` | over an `INSTANCE` of `MailQueueContract` |
| 8 | `SmtpClient`, `SmtpClientProofs` | – |
| 9 | `ImapSession`, `MailboxWatcher`, `WatcherPromises`, `ImapProofs` | `WatcherPromises` states what an `INSTANCE` of `MailboxWatcher` promises |
| 10 | `MailTs`, `MailTsProofs` | over what the pool, the queue and the session promise |
| 11 | `ApiMailbox`, `ApiMailboxProofs` | watchers, calls and token providers |
| 12 | `Journey` over `SmtpWire`, `ImapWire`, `ApiTransports`, `JobCodec`, `Mime`, `Reply`, `TrapServer`, `Arrival` | a message from one user to another and back |
| 13 | `TrapServer`, `TrapAlone`, `StorageProofs` | `TrapAlone` composes `TrapServer` with anyone who sends, `Journey` with SMTP |

A `MC` module gives a specification its constants and nothing else. One run
checks each specification, the send queue's two questions have two. Most
properties are conjunctions of named parts, each part with its own comment; a run
checks the conjunction. Each property is paired in `PROJECT.json` with a mutant: a
plausible mistake in one definition, kept beside it in the module, that the
property catches.

Two conventions hold throughout. A step is one event (a call, a timer, an answer)
with everything that runs up to the next `await`; an `await` is where steps
interleave. Where the code makes no promise, a property says so by name: a *history* field such as
`stranded`, `lagged`, `missed`, `crossed` or `overran` marks the situation, and
the property holds outside it. Those situations are listed under *Known limits*
in each section: they are facts of the code, met while modelling.

What could still be done: a proof for `ExecutingJobsTracked` without interrupts,
and what section 14 lists.

## 3. The send queue

### Modules

| Module | What it holds |
|---|---|
| `MailQueue` | the queue: state, actions, properties |
| `MailQueueContract` | what the queue promises: jobs wait, are sent, end |
| `MCMailQueue` | constants of the TLC instances |
| `Sublists` | what a loop that removes elements leaves of a list |
| `MailQueueProofs` | lemmas about lists without repetitions, what each operation on the fields keeps, the inductive invariant and the theorems, first about the places of jobs, then about what is forgotten, the contract and delivery |

### State and code

| In the model | In the code |
|---|---|
| `q.pending`, `q.scheduled`, `q.throttled`, `q.running` | `pending`, `scheduled`, `throttled`, `runningJobs` (`MailQueue.ts:45-70`) |
| `q.ctrl[j]` | the `JobController` of `j` in `controllers` with the outcome of the promise of `sendWithTimeout`; `Idle` when there is none |
| `q.status`, `q.attempts` | the job's fields |
| `q.used` | sends the rate limiter counts in its window |
| `q.armed` | `scheduleTimer !== null` |
| `q.paused`, `q.closed`, `q.sendFn` | the fields |
| `micro` | promise reactions that are due: a resumption of `execute()` after its `await`, or the `.finally()` of `tick()` (`:205`) |
| `persisting` | dead jobs whose DLQ `persist` callback runs (`DeadLetterQueue.ts:25`) |
| `drain` | a promise returned by `drain()` |
| `shut` | where `shutdown()` is: its three waits, and the microtask after each |
| `orphans` | sends that go on though their attempt was timed out or signalled |
| `delivered` | what the mail server accepted |

Each public call is one action (`Enqueue`, `Pause`, `Unpause` for `resume()`,
`Cancel`, `Control` for cancel / interrupt / abort of a running job, `Drain`,
`Shutdown`) and includes the calls of `tick()`, `armSchedule()` and
`checkDrained()` the code makes. `Tick` computes the whole loop: the jobs it
starts (`Started`) and those it puts back over the rate limit (`Held`).
`ExecuteResumes` is `execute()` after its `await`, `ExecuteEnds` the
`.finally()`; between them any number of other steps may happen. Timers fire only when
`micro` is empty, as in Node; calls of the application may come between two
microtasks, because its own microtasks and listeners run there.

Abstractions. Delays are not modelled: a scheduled job may fall due at any time.
The rate limiter has one bucket and every send costs one. Back-off and jitter
only choose delays. `deadLetter.enabled` is true; the DLQ's contents are not
kept. An idempotency key never expires, and the application uses a job's id
once. One `shutdown()` call and one caller of `drain()` are followed.
`restore()` belongs to the persistent queue. The model states no deadlock
freedom: a queue with nothing to do rests (`CHECK_DEADLOCK FALSE`).

### What is checked

| Run | Instance | Shows |
|---|---|---|
| `queue_controls` | 2 jobs, 2 tiers, 1 slot, 1 retry, 1 send per window, every control | `EveryJobInOnePlace`, `AttemptsWithinPolicy`; `NothingForgotten`: running jobs, the timer, `drain()` and `shutdown()` are accounted for; `KeepsContract`, the refinement |
| `queue_live` | 2 jobs, 2 slots, pause and shutdown, fairness | `DeliveredAtMostOnce` when no attempt is cut off; every job is decided; a timed shutdown returns |

Bounds. Two jobs are enough for one to wait behind, overtake or be cancelled
beside another; two tiers show the order between tiers and within one. One retry
gives each job a first, a middle and a last attempt. A limit of one send per
window makes every second send wait. `MaxOrphans` caps the sends that outlive an
attempt, `AtMost` the deliveries counted (two are enough to see a duplicate). In
`queue_controls` orphans are not counted, since no property of that run reads
them. Idempotency keys are in the model; the run that uses them is `mail_worker`, where
redelivery makes them matter.

Fairness (`FairSpec`). Node runs each queued microtask and each due timer, so
`ExecuteResumes`, `ExecuteEnds`, `PromoteDue` and the shutdown's steps are weakly
fair, and the limiter's window slides. A send settles or its attempt times out
(`jobTimeout` is always armed, `MailQueue.ts:312`). The persist callback of the
DLQ is assumed to return. Nothing is assumed of the application. `EveryJobDecided` excuses
a queue that is paused or has no send function, as the code does.

### Known limits

- *Concurrency.* `types/queue.ts:68` calls `concurrency` "Max parallel send
  operations". `interrupt()` puts the job back in its tier before the `.finally()`
  of its first execution has run. If a `tick()` runs in between (an `enqueue()`,
  or the `.finally()` of another job), the job starts again under the same id
  and the old `.finally()` removes that id from `runningJobs` while it is being
  sent; the next tick sees a slot that is not free. With one slot this cannot
  happen, because the slot is held until the `.finally()`.
- *Order.* `MailQueue.ts:240` says that throttled jobs keep their place. Jobs
  that fall due in one `promoteDue()` are unshifted one after the other, so they
  come out in reverse; and a job waiting in the tier may overtake one that
  comes back, though `README.md:989` speaks of FIFO within a tier.
- *Crashes.* Each interrupt or restart during an attempt gives the attempt back,
  so a message that brings the process down is tried for ever.
- *Drain.* `shutdown({ pending: 'drain' })` without a timeout waits for ever when the
  application pauses the queue meanwhile.

### What is proved

For every finite set of jobs, every assignment of tiers and keys, every
`Concurrency > 0`, `MaxRetries`, `Limit` and set of calls (assumption
`QueueConstants`):

| Theorem | States |
|---|---|
| `TypeCorrect` | `[]TypeOK` |
| `EveryJobHasOnePlace` | `[]EveryJobInOnePlace`: a job is once in its tier, once in `scheduled`, under a controller or finished, as its status says |
| `RetryPolicyKept` | `[]AttemptsWithinPolicy` |
| `SlotsNeverExceeded` | `runningJobs` never holds more than `Concurrency` jobs |
| `ClosedQueueStartsNothing` | once `shutdown()` has closed the queue no attempt starts and no job is accepted: the part of the contract (below) that needs no hypothesis |

The argument. `EveryJobInOnePlace` is not inductive: a list could hold a
job twice, or in the wrong tier, and a later removal would break it. The
invariant `IInv` adds that lists have no repetitions, that tiers hold their own
priority, that a closed queue is paused (so `tick()` does nothing), that
attempts fit the status, and that a queued resumption of `execute()` belongs to a
controller whose send has settled and is the only one for it (`TasksSound`): a
second resumption would take a job that is already back in a list.
`MailQueueProofs` first shows for each operation (`Push`, `Unshift`, `Schedule`,
`Tick`, `Promoted`, `Cancelled`, `Signalled`, `Resumed`) that it keeps `Sound`;
`Step` has one case per action. `SlotsNeverExceeded` is about
the queue's own account; interrupts make that account wrong when there are several
slots (*Concurrency*, above), and so `ExecutingJobsTracked` holds only with one
slot or without them.

And each for every value of the constants that its hypothesis allows:

| Theorem | States | Hypothesis |
|---|---|---|
| `NoneForgotten` | `[]NothingForgotten` | `OnePerSlot`: one slot, or no `interrupt()` |
| `ContractKept` | `KeepsContract`: `MailQueue` implements `MailQueueContract` | `OnePerSlot` |
| `NoneDeliveredTwice` | `[]DeliveredAtMostOnce` | `SendsEndWithAttempts`: no `interrupt()`, `abort()` or timeout |

`OnePerSlot` is the line that *Concurrency*, above, draws: with two slots and
`interrupt()` a job may start again under its old entry in `runningJobs`, and the
two statements are false of the code. The interrupts of `shutdown()` need no
hypothesis, for they come after the queue is closed. `SendsEndWithAttempts` is the
proviso of the property itself: a send that goes on after its attempt was given
up may deliver a message that the next attempt delivers again.

The argument. `Account` adds to `IInv` what the code never writes down. `Slots`: a
job under a controller has its entry in `runningJobs`; each queued `.finally()` is the
only one of a job that still has its entry and that cannot start before it runs
(`Ended`: finished, scheduled, or pending while its own entry fills the one
slot or the queue is closed); a send that has settled has its resumption queued.
`TimerSound`, `ShutSound` and `DrainSound` say the rest of `NothingForgotten`
at every step, the waits of `shutdown()` included: it closes the queue with its
first wait for running jobs, nothing is open once it has interrupted, and
nothing runs once that wait is over. `AccountKept` and `AccountChecked` are the
two ways in which a step keeps it, without and with `checkDrained()`.

The refinement goes step by step. `TickContract` shows that `tick()` starts a set of
waiting jobs that fits in the slots, which is where `Slots` is needed:
the contract counts jobs that are being sent, the code counts entries.
`TickRefined`, `SubmitRefined`, `ResumeRefined`, `CancelRefined` and `StopRefined` map
the actions to `Start`, `Submit`, `Finish` or `GiveBack`, and `CancelWaiting`;
the others change nothing that the contract sees. For delivery, `AllDelivered`
counts for each job the messages the server has and the sends that may still deliver:
at most one, and then the job has no open attempt and will get none.

Only model-checked: `EveryJobDecided` and `TimedShutdownReturns`, liveness under
fairness.

## 4. The SMTP pool

`SmtpPool` models `src/smtp/SmtpPool.ts` with what a caller does to a leased
client (`transports/SmtpTransport.ts:22`, `MailTs.ts:500`) and the events a
client emits (`SmtpClient.ts:196`).

| In the model | In the code |
|---|---|
| `pool.entries`, `pool.inUse` | `entries` and the `inUse` of each |
| `pool.timers`, `pool.waiting`, `pool.closing` | `idleTimers`, `waiting`, `closing` |
| `pool.state[c]`, `pool.sent[c]` | the client's `state` as `isReady` and `quit()` tell it apart, `messagesSent` |
| `pool.call[p]`, `pool.holds[p]` | where a caller's `acquire()` is, and its client |
| `pool.promised[c]` | the caller that the `acquire()` awaiting `c` works for: its own, or that of `dispatchWaiting()` (`:185`) |
| `via` of a waiting slot | whether the slot is a caller's own or belongs to the `acquire()` of `dispatchWaiting()` |
| `phase` | the progress of `drain()` |

`Acquired` is `acquire()` up to its `await`; `Dispatched` is `dispatchWaiting()`,
which calls it for a waiter *without the waiter's signal*. `Released` is
`release()`. `SendEnds` is the end of a send with the `release()` in its
`finally`; `Closes` the close event with `onClientClose()`; `HandOver` the
microtask in which `dispatchWaiting()` resumes with a client that was ready at
once. Timers and socket events wait for it (`Quiet`), calls of the application
do not. A connection that left the pool and quits by itself is not followed, so the
size checked is that of the pool's own list.

| Run | Instance | Shows |
|---|---|---|
| `smtp_pool` | 2 callers, 2 connections, 2 messages each, every fault, fairness | `LeasesExclusive`; `PoolInOrder`: size, idle timers, one thing that settles each waiting call, nothing left after `drain()`; `EveryCallReturns` |

Two callers and two connections, each of which may send one message more, are the least for a caller to wait, overtake
and be handed the other's connection while one is retired or fails. Names of
connections are reused, four being enough for two in the pool and one that each
caller still holds. Fairness: `connectionTimeout` and `socketTimeout` end every
attempt and every wait for a reply, and a socket that is silent for
`socketTimeout` is destroyed (`SmtpClient.ts:159`, `:210`), which closes a
connection that nobody uses. Callers are not obliged to abort or to drain.

*An aborted waiter.* If its signal fires after `dispatchWaiting()` has taken its
slot, the connection obtained for it stays `inUse` with nobody to release it.
The model shows that this lasts until the socket's own timeout, so `drain()`
waits for it but returns.

*Stranded waiters.* When `connect()` fails in `acquire()`, when a connection has a
socket error or when its idle timer fires, the place in the pool is freed
without `dispatchWaiting()` (`SmtpPool.ts:76-86`, `:149`). If it was the last
connection, the callers behind it wait until some later call is served and released, or
for ever. The field `stranded` (`Strands`) marks it, and `EveryCallReturns` holds
for everyone else.

### What is proved

For every finite set of callers and of connections, every `MaxConnections` and
`MaxMessages` above 0 and every set of faults (assumption `PoolConstants`), in
`PoolProofs`:

| Theorem | States |
|---|---|
| `LeasesAlwaysExclusive` | `[]LeasesExclusive` |
| `PoolAlwaysInOrder` | `[]PoolInOrder` |

The argument. Neither is inductive. A connection promised to a caller could be one
that is not marked in use, and then go to a second caller as idle; a caller could
have two things to settle it, and get a connection while it sends with another. `IInv`
adds what the code relies on: a promised connection is in the list and in use, one
that connects is promised, a ready one is in the list, a listed one has a message
left to send, and a caller has one slot or one promise, or none while it sends
(`OneSettler`). `SoundBut(s, X, Y)` leaves out the connections and callers that
an operation has in hand, such as the connection whose attempt has failed and
the caller that is yet to be rejected while `dispatchWaiting()` already serves the next.
Each operation keeps it (`AcquiredSound`, `DispatchedSound`, `RemovedSound`,
`ReleasedSound` and the rest), and `Step` has one case per action. That a pool
which may open a connection finds an unused name for it is a count (`UnusedThere`):
the names in use are those in the list, fewer than `MaxConnections`, and those that callers
hold, one each; `PoolConstants` asks for as many names as both together.

Only model-checked: `EveryCallReturns`.

## 5. The IMAP pool

`ImapPool` models `src/imap/ImapPool.ts`: `use()` (`Use`, `Opened`, `OpenFails`,
`UseEnds`), the waiting and idle timers, `close()`, `closeAll()` and the
`settle()` both await (`Settles`). `Taken` is `tryTake()` with its eviction,
`Pumped` the loop of `pump()`, `Retired` `retire()`, `Released` `release()`.

| In the model | In the code |
|---|---|
| `pool.slots[k]` | `slots` |
| `pool.order` | the slots by `lastUsed`, which `lruIdle()` searches |
| `pool.busy`, `pool.retired`, `pool.timers`, `pool.open` | the fields of `Slot`; `open` means that `session` is set |
| `pool.closing` | `pendingCloses` |
| `pool.waiting`, `pool.holds` | `waiters`, and the slot that a call of `use()` works with |
| `pool.doomed` | not in the code: the slots a `close()` found, for the properties |
| `settling` | calls of `close()` and `closeAll()` in flight |

| Run | Instance | Shows |
|---|---|---|
| `imap_pool` | 4 callers (two of one account), 3 accounts, 2 sessions, 1 per account | `SlotsAccounted`: both limits; a lent session is exclusive and not closed under its callback; every session is lent or will expire. `CloseTakesEffect`: `close()` leaves none of the sessions it found, and no later call gets one |

With two sessions for three accounts the total limit forces evictions, and with two callers
of one account the other limit makes one wait. `MaxClosing` bounds the sessions that
close at once. Waits end by their own timer, so the model states no liveness.
Two slots with the same `lastUsed` millisecond are taken in the order of use.

*Blocked callers.* `acquire()` queues whenever anybody waits (`ImapPool.ts:150`), although the
comment at `:226` says that a waiter does not block others' keys: only `pump()` skips
waiters it cannot serve, and it does not run when a caller is queued.

### What is proved

For every finite set of callers and of slots, any accounts and all limits above 0, which
the constructor checks, with enough names for slots (assumption `ImapConstantsFit`), in
`PoolProofs`. `ImapPromises` gives the pool's variables and promises names that
differ from those of `SmtpPool`:

| Theorem | States |
|---|---|
| `SlotsAlwaysAccounted` | `[]SlotsAccounted` |
| `CloseAlwaysTakesEffect` | `CloseTakesEffect` |

The argument. Neither is inductive. That a lent slot is busy does not say that a busy slot
is lent: a busy slot that nobody holds would never be released, and count for ever.
That a slot has an idle timer does not say that it has a session, and a slot
without one would close without trace. And that `settle()` finds nothing busy among the
retired says something only if every slot that a `close()` found is retired or
closing. `ImapInv` has these (`Placed`, `Ending`), with the agreement of the lists
(`ImapListed`) and the slots of callers (`ImapLent`); after `closeAll()` nobody waits
and every slot in the lists is lent and retired, so when `settle()` returns nothing is left.

`pump()`, `close()` and `closeAll()` are loops that change the pool they look at:
`retire()` serves waiters, who may evict a slot that the loop has yet to reach.
`Ending(f, X)` leaves out the slots `X` that remain to be retired, and says that no waiter is
of an account that has one, so none of them is lent meanwhile. `Loop` carries such an
invariant through the rounds: it is proved from the least round that breaks it
(`LeastMember`), without induction, and shows at once that the loop's function exists. `Later` is
what any such round may change: no caller gets a slot that a `close()` found. A pool
with room finds a name for a new slot by a count (`NewThere`): `B` holds all that may
close in one step, at most `MaxClosing + MaxSessions` slots (`Few`).

## 6. The persistent queue

`SqliteQueue` models queues that share one database, in one process or in several:
`src/queue/SqliteQueue.ts`, above what `MailQueue` already says of order, slots
and delays. In this module a pending job may start, and an attempt may end, at any time.

| In the model | In the code |
|---|---|
| `row[j]` | the row of `queue_jobs`: `status` (`"absent"` for no row), `attempts`, `owner`, and `lapsed` for `lease_until < now` |
| `request[j]` | the row of `queue_control` |
| `life[q]` | `isClosed`, and whether `shutdown()` is under way; `"replaced"` after a `close()` that did not stop the queue |
| `held[q][j]` | the job in the memory of `q` (`"nowhere"` for none), with the reason of its controller |
| `todo[q]` | the rows `restoreJobs()` has read and not yet reached in its loop |
| `delivered`, `stalled`, `mishaps`, `overran` | not in the code: what the server accepted, processes that stand still, the faults so far, and whether a queue has gone on without its leases |

| Action | Code |
|---|---|
| `Open` | the constructor with `releaseDeadLocalOwners()` and the SELECT of `restoreJobs()` |
| `Poll` | `poll()`: leases renewed, requests done and forgotten, rows read |
| `Restore` | one turn of the loop of `restoreJobs()`: `claim()`, `restore()`, `updateStatus()`, or an unreadable row moved to the DLQ |
| `Enqueue`, `Start`, `SendEnds`, `Promote` | the calls and callbacks of the queue with the `updateStatus()` of its events |
| `Accept` | the mail server accepts the attempt under way |
| `Shutdown`, `InterruptStragglers`, `Close` | `shutdown()` and the `close()` it ends with |
| `Replace`, `Vanish` | `MailTs.configure({ queue })`, and the end of the queue it gave up |
| `Crash`, `Stall`, `Wake`, `LeaseLapses` | a process dies or stands still; time goes by |
| `Ask`, `Requeue`, `ClearDlq` | the functions the command line calls on the database |

A statement of SQL is atomic and a call runs without a pause, but other processes
run between the SELECT of `restoreJobs()` and each of its claims, which is the
gap the model keeps. The statements of `poll()` before that SELECT concern jobs
that this queue owns and requests for them, and are one step with it. `Open` and `Poll` choose whether dead owners were on
this host (`local`) and which requests are a minute old (`old`). An owner
id is never used again, so the rows of a dead queue get the owner `Gone`.

| Run | Instance | Shows |
|---|---|---|
| `sqlite_queue` | 2 queues, 1 job, 1 retry, 3 mishaps of every kind, fairness | `MemoryMatchesRow`; `OwnedRowsHeld`: no row renewed without being worked on; `AttemptsWithinPolicy`; `EveryJobSettled`: every job is decided, and stays so |

Queues meet only on a row, and every property is about single rows, so two
queues and one job show what can happen; three mishaps allow a crash or stall
of one queue, a second of the other and a request in between. Attempts are bounded by the retries and the mishaps,
the only ways an attempt is given back.

`overran`. A lease lasts 30 seconds (`LEASE_MS`) and is renewed every poll. A queue that stands still for
longer, or that was replaced, goes on sending jobs whose rows others may claim:
no design with leases avoids this without a fencing token, so `OneHolder`,
`MemoryMatchesRow` and `FinalStaysFinal` are stated for behaviours in which nobody outlives a
lease. `OwnedRowsHeld` and `EveryJobSettled` hold with stalls as well: the table
recovers.

Fairness. Timers, polls and loops run; `jobTimeout` ends attempts; a process
that stood still comes back and clocks go on; an application that is down is
started again. Recovery does not rely on `releaseDeadLocalOwners()`: `Open` and `Poll` are fair
without it, so the leases alone free the rows.

*A replaced queue.* `configure({ queue })` refuses to replace an in-memory queue
that has unsent jobs, but for a `SqliteQueue` it calls only `close()`, which
releases the rows and leaves the `MailQueue` underneath running
(`MailTs.ts:177-181`). The old queue and the new one send the same jobs: the
"delivered exactly once" of `README.md:1039` holds while no queue is replaced.

*Stale attempts.* `restoreJobs()` claims a row as it is and restores it as it was
read. If another queue claims the row in between, fails an attempt and gives the row back,
that attempt is forgotten; `AttemptsWithinPolicy` allows one more for each mishap.

### What is proved

For every finite set of queues and jobs, every `MaxRetries` and any number of
mishaps (assumption `SqliteQueueConstants`), in `StorageProofs`:

| Theorem | States |
|---|---|
| `NoRowForgotten` | `[]OwnedRowsHeld` |
| `TableMatchesMemory` | `[]MemoryMatchesRow` |
| `OneHolderAlways` | `[]OneHolder` |
| `AttemptsAlwaysWithinPolicy` | `[]AttemptsWithinPolicy` |
| `DecidedForGood` | `FinalStaysFinal` |

The argument. The invariant `Inv` has four parts: `Shape` (types), `Working` (only an
open queue has rows to restore, only an overrun one is replaced), `Owned` (a row with an
owner is a job that its owner holds and still saves) and `Matched`
(`MemoryMatchesRow`, without records). `Matched` gives `OneHolder`: two holders
would both be the row's owner. It is kept by `Restore` because a row that
`claim()` accepts has no owner, an owner that is the queue itself, or a lapsed lease, and none of
these matches another holder. `Owned` is kept when a stalled queue wakes and
writes a row that is no longer its own, because `updateStatus()` writes owner
and status together. `QueueStep` is the common argument for an action of one
queue; `JobStep`, `SavedStep`, `RequestsStep` and `DroppedStep` specialise it
to one job, to a saved job, to a poll or shutdown, and to the end of a queue.

The last two theorems need a second invariant, `Policy`, on top of `Inv`. Its first
part, `Counted`, cannot simply be the bound of the property: a bound that grows with
`mishaps` must leave room for one more attempt wherever one may start. So what waits, in
memory, in the table or in `todo`, has at most `MaxRetries + mishaps` attempts, and only a
running job may have one more. A row that says `running` is ambiguous: it may
be restored and started again. It may have that extra attempt only while it is
`Worked` on, that is while its owner is open and awake and the lease runs; a
queue loses the row by a crash, a stall, a `shutdown()` or a replacement, each of
which is a mishap and adds one to the bound. The second part, `Calm`, says what a state without mishaps is like: every
active row has an owner, nothing is restored, and a message whose holder has no answer yet was not
delivered. The third, `Free`, says that a decided row has no owner, so neither
`close()` nor `releaseDeadLocalOwners()` touches it. Each action has one lemma
(`StartPolicy`, `RestorePolicy`, ...), which is an instance of one of four:
`OneJobStep` (one job changes), `TableStep` (a poll or a constructor), `MishapStep`
and `LaterStep` (a step that is possible only after a mishap). All of them end in
`PolicyStep`, which also says that decided rows stay so.

Only model-checked: the second conjunct of `EveryJobSettled`, that every job is decided in the
end.

## 7. The worker of an external queue

`MailWorker` models `src/queue/MailWorker.ts` between a backend (Redis, SQS, a
table) and the send queue. The send queue is an `INSTANCE` of
`MailQueueContract`, the abstract specification that `MailQueue` implements, so
its starts, retries, interrupts and ends are the steps of that contract.

| In the model | In the code |
|---|---|
| `idMap` | `idMap`: the message of each job not yet acked, nacked or released |
| `w` | the other fields, where the consumer loop is, and the `shutdown()` under way |
| `ops` | calls of the driver whose promise is open |
| `of`, `phase`, `tries`, `accepting` | jobs and the send queue as its contract shows them |
| `backend` | external: `ready`, `out`, `gone` (acked), `dead` (nacked) |
| `loose` | messages lost for a reason outside the worker: a failed answer of the driver, a malformed message, no `release()` |

`Test`, `Dequeued` and the other steps of the loop are its code between two
awaits; `Settle` is a listener of the queue's events; `Expire` is the backend
that gives a message out again. The run `mail_worker` has two messages, one with an idempotency key, a
driver with `release()` and one without, one failing call and one redelivery.
`EachInItsPlace`: never more messages than `concurrency + prefetch`, and none that
is in nobody's hands. `NeverSentTwice`: one key, one mail; what is handed back at
a shutdown is not being sent. `NobodyWaitsForEver`: ready messages are taken
while the worker consumes, and `shutdown()` returns. Fairness: the driver
answers, and attempts end as in section 3.

Known limits. A message whose data makes `enqueue()` throw is neither nacked nor
released (`MailWorker.ts:169-179`). With `deadLetter.enabled = false` a message that
fails keeps its place for ever. A redelivered message is acknowledged while its first
delivery is still being sent. The application is taken to make no call after `shutdown()`.

### What is proved

For every finite set of messages, every assignment of keys, every `Concurrency` and
`MaxTries` above 0, every `Prefetch`, every set of drivers and every number of jobs,
calls, redeliveries and failures (assumption `MailWorkerConstants`), in
`MailWorkerProofs`:

| Theorem | States |
|---|---|
| `NoMessageForgotten` | `[]EachInItsPlace` |
| `NothingSentTwice` | `[]NeverSentTwice` |

The argument. Neither is inductive. The limit on held messages needs to know that the
loop calls `dequeue()` only when it has seen a free place and that nothing but the
loop takes one (`LoopSound`). That a held message is not forgotten needs that a held job
has not ended (`JobsSound`): each end of a job goes through `settle()`, which opens the
driver's call in the step that removes the job (`SettleStep`). That what goes back is
unsent needs the account of each message `OneOfEach`: it has one job at most, which is
held or is told of in one call of the driver, and a message that is ready, or will be
once its release is answered, has a job only if the queue was closed before the job
started (`Unsent`). It is claimed while nothing was given out again, and `ExpireStep`
ends it; `SentOncePerKey` does not depend on it. `OneStep` has one lemma per action. The
send queue is its contract there, not `MailQueue`: that `MailQueue` keeps the contract is
the property `KeepsContract` of section 3.

Only model-checked: `NobodyWaitsForEver`.

## 8. An SMTP connection

`SmtpClient` models `src/smtp/SmtpClient.ts`: dialling, greeting, EHLO, STARTTLS,
the mechanisms of AUTH with a refreshed token, pipelined and serial recipients,
the body, RSET, QUIT, `destroy()`, and the queue of waits that matches replies to
commands. `c` is the client with the call under way, `c.at` the `await` it is at;
an operator named `On...` is what follows that `await`. The server is external:
it answers in order, as late as it likes, or not at all.

| Property | Says |
|---|---|
| `DialogueInStep` | the waits are those of the replies due, in order; a client that says `ready` has no transaction open; no credentials in the clear |
| `ResultTruthful` | "sent" for exactly the recipients the server took; "failed" only if it did not, unless the wait for its verdict was cut |
| `CallReturns` | every call returns though the server falls silent |

The run has two recipients, two messages on one connection, six configurations and every
fault. Two recipients let one be refused, two messages show what the first leaves behind.
Fairness is of timers and of the events of a destroyed socket only, never of the server.

Known limits. A wait that times out leaves the queue, and its reply, when it
comes, answers the next command (`SmtpClient.ts:249`; the field `lagged`).
The handshake of STARTTLS has no timer (`:301-304`), nor has TLS through a
proxy (`:133-136`). `destroy()` during dialling does not reach the socket
(`:534`). A socket error of a client without an `error` listener ends the process
(`:219`; the field `crashed`).

### What is proved

For every number of recipients and of messages above 0, every set of configurations
and every set of faults (assumption `SmtpClientConstants`), in `SmtpClientProofs`:

| Theorem | States |
|---|---|
| `Invariant` | `[]Inv`: at each stage of a call, waits, commands and replies line up and the server knows what the client takes it to know |
| `DialogueHolds` | `[]DialogueInStep` |
| `ResultsHold` | `[]ResultTruthful` |

The argument. That replies meet their commands (`Matched`, place by place) says nothing of
what a reply makes the client do. `Inv` ties it to the stage: the live
waits are of the stage's own command, one but for a pipelined batch whose
recipients all differ (`LiveSound`); the only other wait there can be is that of
a body given up before its verdict, and then only while RSET is under way
(`Queued`), because that wait stays in the list where others are removed. What the
server knows is stated for each stage (`ServerSound`): the recipients it took are those
the client has heard of and those granted in replies on their way; during DATA and the
body they are the accepted ones; after the answer to RSET nothing is open. So the
server takes a body for exactly the recipients the client will report, and a
message that failed was taken only if its wait was cut (`InHand`, `MailsSound`).
Both are claimed while no wait was given up (`~lagged`) and, what concerns the server, on
an open socket; the rest (`Sound`, `StageSound`) holds throughout, so that a late reply
or a timer after a lost one leaves at least a client that is not `ready` by mistake.

A step of the client ends in what follows its next `await`, so each operator `On...` has a
lemma for what the server did when the reply is heard (`MailReplyInv`, `RcptReplyInv`,
`RcptsInv`, `BodyReplyInv`, `ResetReplyInv`, `ConnectReplyInv`), `CutInv` one for every wait that
ends without its reply, and `AwaitInv` and `FinishInv` for how they go on. `HearsInv`
is `onReply()`, `TimesOutInv` a timer, `FailPendingInv` the loss of the connection,
`ServeInv` an answer of the server; `StepInv` puts them together.

Only model-checked: `CallReturns`.

## 9. IMAP: the session and the watcher

`ImapSession` models `ImapSession.ts` on the client it drives, `ImapClient.ts`: the session
lock that makes SELECT and the commands after it one piece, connecting with
retries, keep-alive, commands carried out whose answer is lost, and `close()`.
`op` are the calls, `cl` the clients (one per attempt to connect), `server` what
the server has selected, copied and appended.

`ActsAsAsked`: a command reaches the server while its own mailbox is selected, a
changing one while it is selected for writing; a move never loses the message, an
append happens once. `ConnectionKept`: one connection but for those that are
logging out, no login in the clear, none left after `close()` unless an attempt
was under way (`late`), and no more attempts than `reconnect.retries` allows. `EveryCallSettles`: no lost answer, refusal or `close()` blocks the lock,
as long as no wait without a timer is endless. The run makes two calls out of six kinds under three configurations, with one
fault, one keep-alive and one `connect()`: two calls are what a lock is about.

`MailboxWatcher` models `MailboxWatcher.ts` with the IDLE loop of the client:
`loops` are the calls of `open()`, `conn` the connections, `w.uidNext` the place
it has read up to. `WatcherPromises` states its properties. `EachNewOnce`: the messages reported are those from the start
of the watch up to `uidNext`, each once, through two drops, refusals, bursts and a
mailbox made anew. `EveryMailReported` and `StopEnds` are its liveness. Fairness:
the server answers and tells of mail while a mailbox is selected.

Fairness. The event loop runs what is ready, and the server answers or the timers of
`connect()`, of a command and of LOGOUT end the wait. Two waits of `connect()` have no
timer (`Untimed`): the handshake after STARTTLS (`ImapClient.ts:208-212`), and the
application's token provider (`:245`). Of these nothing is assumed: a server that is
silent in the handshake leaves `connecting` pending, and every call queued on the
session lock waits for ever; only a server that breaks the connection off ends it. The
hypothesis of `EveryCallSettles` says so, and a reconnect of the watcher shares it.

Known limits. An IDLE the server never confirms blocks the later commands of its
connection (`timeoutMs` 0, `ImapClient.ts:830`). `close()` while connecting
leaves the connection that then opens. A notice that comes with the answer to EXAMINE, and one
whose search was refused, wait for the next notice (`missed`). A drop during
`open()` of a reconnect starts a second loop, whose connection `stop()` may leave open.

### What is proved

For every set of mailboxes with at least two, every set of configurations and every
number of calls, connections, faults, probes and calls of `connect()` (assumption
`ImapSessionConstants`), and for every number of messages, mailboxes made anew and lost
or refused connections of a watcher (`WatchConstantsFit`), in `ImapProofs`:

| Theorem | States |
|---|---|
| `CommandsActAsAsked` | `[]ActsAsAsked` |
| `OneConnectionKept` | `[]ConnectionKept` |
| `NewMailOnce` | `[]EachNewOnce` |

The argument. A command meets its mailbox because three accounts of the selection
agree whenever it matters: what the client of the call holds is what the server has
(`Known`), what the session holds is what its client holds (`Agreed`), and while a
call still runs on a client the session has given up, the new one has nothing
selected (`Elsewhere`), so the late answer that writes `current` misleads nobody.
`RunSound` says of the running call that its next command on messages finds its mailbox
selected, for writing if need be. It is the only one to
send commands: whoever is past the queue is first in the line (`Locked`). A move is
safe at each step of its plan (`MoveSound`): where it is about to remove the message, the
copy is made or the message is not there. A session dials only while its client is
not open (`SessionSound`), and every other open client is logging out
(`ClientSound`). `ServedFacts` has one case per command, `InvStep` one per action.

The watcher's invariant is `WatchInv`. A search is on its way, and a mailbox open,
only once the watch has a mailbox and its `uidNext` is at or above the start of the
watch (`WatchKnown`): so a search reports from `uidNext`, however late its
answer and on whichever connection, and `uidNext` never goes back. Only the answer to
EXAMINE sets it anew, together with the start and what was reported. What
else the invariant says is that `open()` finds a connection to use and a lost one a
call of `reconnect()`: each call of `open()` has a connection of its own
(`WatchOpens`), each connection and each sleeping call but one has cost a fault
(`Few`), and only a stopped watcher logs out and waits for a connection to close
(`Stops`), so that a reconnect may take any that is free. `Kept` says once which changes of
the fields keep all that, `Gone`, `Slept` and `Opened` how a connection or a call
comes and goes, and each action has a lemma.

Only model-checked: `EveryCallSettles`, `EveryMailReported` and `StopEnds`.

## 10. The facade

`MailTs` models `src/core/MailTs.ts`: messages through `send()` and through the
queue, the pool they lease from, the copy for the Sent mailbox, hooks,
middleware, `configure()` and `shutdown()`. The pool, the queue and the session
appear as sections 3, 4 and 9 show them: a send takes a free place of the pool or
waits (`Acquire`, `Wait`), a connection that comes back goes to whoever waits
(`Releases`), and one that could not be opened leaves its place to nobody
(`ConnectFails`). `VerdictLost` is section 8's caveat: the server takes the message
and its reply is never read. `cut` counts how often.

`AnswerMatchesDelivery`: a send is answered `ok` only if the server took the message
and said so, and failed only if it did not take it or its reply was never read; the
server gets the message once, and once more for each such reply.
`ConfigurationInForce`: a copy goes to the Sent mailbox of its own account, and
`shutdown()` leaves no pool or session open. `EverySendAnswered`: every send is
answered, however pools are drained and sessions closed, but for the two waits named
below. Fairness is the event loop, the queue, and the timers of a
transmission (`Goes`); of what has no timer (`Untimed`) nothing is assumed. The run
has two messages, a pool of one connection, one new SMTP and one new IMAP
configuration, two failures, and five setups; each of the two waits occurs in it.

A lost verdict. When the reply to the body times out (`SmtpClient.ts:449`), is lost
with the connection or the send is aborted, `client.send()` throws for a message the
server has. `sendDirect()` answers a failure (`MailTs.ts:469-473`), and the queue, for
which a timeout is retryable (`MailQueue.ts:294`), sends the message again: the
server may accept it once for each attempt. A client of SMTP cannot
tell the two cases apart, and the property states what is left.

Two waits. A caller that waits for a place of the pool while the last connection fails
to open is woken by nobody (`SmtpPool.ts:84-87` drops the client without
`dispatchWaiting()`), until another call comes and goes: `Stranded`, as in section 4.
A message is held up for ever by a wait without a timer: middleware, a TLS handshake
through a proxy, or the session of the Sent mailbox (sections 8 and 9). A send that
waits for a place is held up by another's.

Known limits. `onSend` is called inside the `try` after delivery (`MailTs.ts:467`): a hook
that throws turns the answer into a failure, and if its error looks like one of the network the queue
sends again, though `README.md:1331` says "Throwing inside a hook does not affect
the send/queue operation". Likewise a throwing `onError` makes `send()`, which "never
throws" (`README.md:164`), reject. `AnswerMatchesDelivery` is about setups whose hooks do not throw. A
lookup of the Sent mailbox in flight across `configure({ imap })` leaves the name of the
old account behind (`:387`; the field `crossed`). A send with a copy to save that is under
way at a shutdown makes a session nobody closes (`late`).

### What is proved

For every set of messages and of setups, every `Size` and `MaxTries` above 0 and
every number of configurations and of failures (assumption `MailTsConstants`), in
`MailTsProofs`:

| Theorem | States |
|---|---|
| `AnswersTruthful` | `[]AnswerMatchesDelivery` |
| `ConfigurationAlwaysInForce` | `[]ConfigurationInForce` |

The argument. The answer is right because of where a message stands: before the
transmission it was accepted as often as a reply was lost, after it once more, and
no path leads back (`Placed`). The lemmas `AnsweredEnds` to `UnsavedEnds` show it for
each way out of `sendDirect()`, `DrainSound` for the waiters a drain rejects,
`HandsOverStep` for the waiter that gets a place: its pool is open, since nobody waits
for one that is being drained (`WaitersSound`). A copy goes to its own
account because a lookup was started on the account in force (`Copied`), and the
kept mailbox and session are those of that account (`SessionsSound`). The pool in
use is the only open one, and none is once the shutdown has reached it
(`PoolsSound`). Sessions are numbered as they are made, one for each configuration
and one after the shutdown (`Made`), so `Save` always finds a number. `OneStep` has one
lemma per action.

Only model-checked: `EverySendAnswered`.

## 11. Mail over HTTP

`ApiMailbox` models `GmailMailbox`, `GraphMailbox` and their polling watchers,
`authorizedRequest()` and the token providers they share (`oauth/OAuthClient.ts`,
`appOnly.ts`). `tok` is the closure of a provider, `req` the request of each
actor, `watch` the place the watcher has read up to; `srv` is external.

`ReportedOnce`: a message is reported once, and the place read up to never passes
one that was not; Graph's watcher repeats only what it was made to forget. `TokensInStep`:
after a 401 the rejected token is not tried again, callers share a refresh, the
refresh token kept is the last one issued, no request is performed twice.
`EveryMailReported`: mail is reported as long as the watcher's own requests are
answered, and a call whose requests are answered ends, whoever else's refresh it waits
for and whether or not a request of the other is ever answered. One
call, one watcher, two messages, pages of two and of one message, one fault
and one token that grows old: enough for a check to fail between two pages and for
a refresh to meet an invalidation.

Fairness. A refresh ends by an answer or by its timer (`AbortSignal.timeout`,
`OAuthClient.ts:162`, `appOnly.ts:34`), the application's callbacks `onTokens` and
`onRefreshToken` are taken to end, and the timer of the watcher fires. That an endpoint of the mailbox
answers is assumed of nobody: it is a hypothesis of each part of `EveryMailReported`.

Known limits. A request to the mailbox has no timer: `httpRequest` sets none
(`HttpClient.ts:41-72`), and `GmailMailbox.call` (`GmailMailbox.ts:95-101`) and that of
`GraphMailbox` pass no signal. A server that accepts the connection and stays silent
leaves the call pending for ever, and a watcher with it: its timer is set again only
after the check (`Mailbox.ts:160-167`), so it never polls again and `stop()` is all that
is left. As many messages as a page holds with one time of arrival stop
Graph's watcher, hence the assumption `PerTick`; a message moved in with an older date is
never reported; above 5000 remembered ids the list is emptied and messages are
reported again. A rotating refresh whose answer is lost signs the user out. A
connection lost after a send was performed is reported as a failure that may be repeated.

### What is proved

For every set of calls, every size of a page and of the list of ids, and any number of
messages, times, faults and tokens (assumption `ApiMailboxConstants`), in
`ApiMailboxProofs`:

| Theorem | States |
|---|---|
| `TokensAlwaysInStep` | `[]TokensInStep` |
| `EachReportedOnce` | `[]ReportedOnce` |

The argument. The invariant `Inv` is `Types` with three parts that are not types.
`Tokens`: tokens are known by the numbers under which they are issued, so one that is
issued later differs from every rejected one (`Numbered`). That is not enough for
`Told`, which hands out the access token there is when the callbacks of a refresh have
ended: a request that waits after a 401 (`Retried`) must not find its rejected token
there. It does not, because `createTokenProvider` has cleared the token before that
request waited, and any later one has a higher number; for the app-only providers,
which clear nothing, a waiting request gets only what a refresh issues, and they have no
`telling` stage (`Granted`). `Calls`: a request that is under way belongs to a call that has
performed exactly the steps before the one it is at.

`Watched` has one form for each API. For Gmail, what was reported lies at or below `base`, and
a check under way has collected exactly the ids from `base` to `cursor`: a failed
check drops them and leaves `base`, so the next one collects them again, and reports
them for the first time. For Graph, everything counted is remembered or was
forgotten, and everything older than `base` was counted. The second holds because a
listing has no gaps (`ListedFromTheStart`: with a message, every earlier one that is not
too old is on the page) and mail comes in the order of its times (`InOrder`). The theorem
does not need the bound `PerTick`, which only lets the watcher make progress.

Each action has one lemma (`ToldKept`, `GmailHistoryKept`, ...). They rest on `GetTokenKept`,
`ResolveKept` and `AskingEnds` for requests and tokens, `EndedKept` for whatever ends without
success, and `UserStep` and `WatcherStep` for the call or the watcher that goes on.

Only model-checked: `EveryMailReported`, which is liveness.

## 12. A message on its way

`Journey` composes what happens to one message: `Mime` builds it (`Message.ts`) and parses
it (`MimeParser.ts`), `SmtpWire` carries its bytes through a proxy and
`SmtpClient` to the trap server, `TrapServer` keeps and shows it, `ImapWire` stores and
fetches it as literals and sections, `Reply` answers it, `JobCodec` keeps it in
a row of the persistent queue, `ApiTransports` tells it to the services.
`Arrival` lets data come in pieces that end anywhere.

Bytes are tokens: the content of a line with the dots it begins with, a header
block, CR, LF. Contents are sequences of *classes of lines*, named for what an
encoder or a reader must do about them (`dot`, `lone`, `blank`, `utf8`, `long`,
`brace` for a line that ends like an IMAP literal ...). What is conversion in the code
is conversion here: quoted-printable, base64, dot-stuffing, header encodings,
reply lines, literals, body structures.

| Property | Says |
|---|---|
| `ArrivesWhole` | a message accepted is at the server, line by line as it was built, for all its recipients, wherever data was cut; what services are told is what the bytes say; what cannot be sent is refused |
| `ReadAsWritten` | subject, texts and files as read are those written, whatever the structure, the encodings and the sections fetched |
| `ThreadKept` | answers name what they answer, keep the chain and the subject, and go to whom they should |

The run starts from eighteen shapes of messages, each cut once anywhere and each
answered once in every way; one thread of two answers; four proxies; rows of both versions of
the codec; seven services; and four schedules of the user and operator of the trap
with a kill and a restart. It states safety only.

Known limits. A stream is consumed by the first `build()`: a retry, or a transport that
reads it again, waits for ever. Gmail, Graph and SES go by the bytes, so Bcc
recipients, reported as accepted, get nothing. SendGrid, Postmark and Resend are not told of
invites, embedded messages, priority and dates. A message read by its texts
alone has no references, so a reply to it starts its thread anew (`Reply.ts:104-107` fetches them).
Messages cut off at the parser's limits are marked in the parser but not in what
`fetch()` returns. In the trap, characters of eight bits that come in two pieces
are garbled (`SmtpServer.ts:47`) and commands in two pieces are not put together.
In `JobCodec`, objects of the user that look like its marks are taken for bytes and dates.

The three properties are only model-checked: messages are built and read by recursion over
their parts. The run also checks the two properties of section 13, on the trap of its journeys.

## 13. The trap server

`TrapServer` models `packages/trap` behind the end of a message's data: the stores, the HTTP
interface with its stream of events, `stop()` and the start after it, and the page
that `ui.ts` serves with its user; and `waitForMessage()` of `packages/testing`.
`Journey` sends it messages through SMTP, with few acts of the user and one kill; `TrapAlone`
says what the trap may do at all: anyone sends it anything, the user clicks, tests
wait, the process is killed and started, and however often. Each step of the trap in `Journey`
is a step of `TrapAlone`: both are put together from the actions of `TrapServer`, and a message
that SMTP brings is a `NewMessage` there, too.

| In the model | In the code |
|---|---|
| `trap.mem`, `trap.file` | `MemoryStore.messages`; the lines of `PersistStore`'s file, each whole, torn or corrupt |
| `trap.sse`, `trap.up` | the page's stream in `HttpServer.sseClients`; how far `stop()` is |
| `page` | `messages`, `currentId` and the state of the `EventSource` in `ui.ts` |
| `calls`, `events` | requests with the answers that are under way; events under way |
| `Killed`, `Partly` | external: the process is killed in a write, and what is left of the file |

| Property | Says |
|---|---|
| `StoreSurvivesRestart` | the trap's file holds what its memory holds, through kills at any point |
| `PageInStep` | the trap's page shows the messages there are once nothing is under way |

The run `journey` checks both: two messages in a store of one, up to three acts of the user or of
the operator and one kill are enough for a message that makes room, an event that comes
while an answer is under way, and a stream that ends and is made again.

Known limits. `clear()` before the first message throws (`PersistStore.ts:42`), a torn last
line spoils the line appended to it: `StoreSurvivesRestart` holds as long as no line is
corrupt. Answers are taken to reach the page in the order of its requests, and one page is
open.

### What is proved

For every `MaxMessages`, any messages, and any number of them, of clicks, kills and starts (assumption
`TrapConstants`), of every behaviour of `TrapAlone`, in `StorageProofs`:

| Theorem | States |
|---|---|
| `StoreComesBack` | `[]StoreSurvivesRestart` |
| `PageFollows` | `[]PageInStep` |

The argument. The invariant `TrapInv` is the types with four parts. `Kept` is
`StoreSurvivesRestart` with the limit: without `Len(trap.mem) <= MaxMessages` a file that is
rewritten would not load to the memory it was written from, because `load()` makes room.
That one does, and that a line appended is loaded last, are the lemmas `LoadRewritten` and
`LoadAppended`. `Load` is a recursive function, and what holds of it is shown at the
first place where it would not (`LeastNumber`), since induction rules are out of reach.

`PageInStep` says nothing of the moments between two quiet ones, so the invariant says
where the page's next list comes from. `Following`: a page whose stream is live is about
to hear of a change (`Carries(Reloads)`), or has asked for the list or has asked for something that
ends with asking for it (`Due`), or is `Current`: the list that it shows, or the last one it was
answered, is the server's, and whatever was answered after that one says only
that a message is gone which that list does not have. `InOrder` is needed for it: what is answered is
before what is not. A page whose stream has ended is excused, but only while it has yet to
hear of the end (`Streaming`), and this holds for a page with events under way as well:
the first of them may be the one that makes its stream live.

Each action has one lemma (`ServeDeleteKeeps`, `PageEventKeeps`, ...). They rest on `AnswerHolds`,
`AskHolds` and `TakenHolds` for the list of requests, `ToldHolds` and `EndTold` for events,
`ChangeKeeps` for what changes the store and `DiedKeeps` for what kills the process.

Only model-checked: what `waitForMessage()` does, as part of section 12.

## 14. Not modelled

- Send queue: what the dead-letter queue keeps and expires; `deadLetter.enabled = false`.
- Persistent queue: `findIdempotent()`, `pause()`, writes that fail.
- IMAP: commands that only ask and answer (search, quota, rename ...), which have
  the shape of the modelled ones; the grammar of their responses; the watcher's
  `flags` and `expunge` events.
- Facade: `drain()`, a custom transport, `configure({ queue })` (in section 6 as
  a replaced queue).
- Message helpers (templates, calendars, DKIM, unsubscribe headers, address
  parsing), logging and redaction, reading of settings, health checks, the
  interactive OAuth login and the command line: functions or single exchanges
  with no state that survives the call. Unit tests reach them.
- Liveness is model-checked only: the prover has no rules for fairness. So is all
  of section 12, where a message is built and read by recursion over its parts (`Mime` and
  its readers).
