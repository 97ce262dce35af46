# WazzapAgent: verification project

TLA+ models of WazzapAgent, a WhatsApp assistant written in Go: what happens to
a message between its arrival and the record that its reply is out, and what
surrounds that: accounts, settings, tasks, broadcasts, transcripts, permissions,
maintenance, the data directory. The modules are written from the code under
`src/internal`; paths below are relative to that directory. `PROJECT.json` maps
every definition to the lines it stands for.

## 1. The system

One process serves one WhatsApp account. All durable state is in SQLite and
every write is a transaction; all the rest is memory that a crash loses.

| Component | State it keeps | Operations | Talks to | Modules |
|---|---|---|---|---|
| WhatsApp adapter (`adapters/whatsapp/hypermeow`) | `ready`, event channel, copy of the groups, workers | `Start`, events in, `SendText`, `ExecuteEffect`, group refresh | its workers call `Dispatcher.Handle`; senders are called by the outbox | `Connection`, `Broadcasts`, `Access` |
| Account runtime (`account/runtime.go`) | connection state, `opened` | turns signals into a state, opens the account | application, UI | `Connection` |
| Inbound dispatcher (`inbound/dispatcher.go`, `inbound.go`) | per chat: `pending`, `overflow`, `refilling`, `timer`, `running`, `retries`, the burst for the judge, commands lock | `Handle`, `Resume`, `Recover`, `startTurn`, `refill`, `judge` | inbox, agent, command registry | `ChatQueue`, `Admission` |
| Inbox (`adapters/sqlite/inbound.go`, `batch.go`) | `inbound_events`: turn state, attempts, order | claim, ignore, close, list unfinished, claim a batch | dispatcher | `ChatQueue`, `Transcript` |
| Agent turn (`agent/agent.go`, `adapters/sqlite/turn.go`) | turn state and attempts of the same rows | `Claim`, listing, `CommitPlan`, `FailGeneration` | model, outbox | `Transcript`, `Outbox` |
| Outbox (`action`, `effect`, their stores) | `outbound_actions`, `typed_effects` | plan, `Dispatch` (load, check, `Start`, run, record), redelivery, `ResolveInterrupted` | sender, policy, turn state | `Outbox` |
| History (`adapters/sqlite/history.go`, `agent/context.go`) | `history_entries`, `history_resets` | append, list, reset | turn, page, maintenance | `Transcript`, `Retention` |
| Scheduled tasks (`inbound/tasks.go`) | `scheduled_tasks`, timers, `taskEdits` | schedule, delete, fire, move to the next day | agent turn | `ScheduledTasks` |
| Smart trigger (`policy/fixed.go`, `dispatcher.go`) | the burst that waits, remembered judgments | judge the newest message of a burst | dispatcher | `Admission` |
| Settings, chat configuration, agent registry (`control/settings.go`, `adapters/sqlite/config.go`, `settings.go`, `agent/registry.go`, `gate.go`) | `application_settings`, `agent_configs`, agents in memory | save by revision, update by version, reconcile at start | pages, commands, turns | `Configuration`, `SettingsRules` |
| Policy (`policy`, `adapters/sqlite/inbound.go`) | `participants`, `chats`, `sender_refs` | reconcile, admit, authorize a command, a turn, a send | all of the above | `Access` |
| Session and runtime controllers, application (`control`, `app`) | session binding, the run of the bot | pair, resume, log out, start, apply, stop, close | UI, device store | `Sessions`, `Lifecycle` |
| Broadcasts (`broadcast`, `hypermeow/broadcast.go`) | schedule rows, group handles | send, schedule, cancel, recover | adapter | `Broadcasts` |
| Maintenance (`adapters/sqlite/maintenance.go`) | deletes from five tables | one pass an hour | history, quotes, effects | `Retention` |
| Host, data root, backup (`host`, `datadir`, `backup`) | lease, `bootstrap.json`, directories | open, close, backup, restore | — | `DataRoot` |
| LLM client, media, identity, web, UI, observability | — | — | — | section 6 |

The hard parts:

- **Delivery.** A reply must not go out twice and must not be forgotten, although
  the process may die, and a write may fail, between the provider's answer and
  its record. Three kinds of threads may dispatch one row: the one that planned
  it, a replay of its message, the redelivery loop.
- **The chat's queue.** Memory is bounded, the inbox is not. A full queue leaves
  messages in the inbox and must read them back, in order, whatever timers,
  failing turns, commands and new arrivals do meanwhile.
- **Batches.** Messages waiting together become one turn; all but the last are
  recorded as handled by the last (the anchor), so losing the anchor loses them.
- **Resets, repeats, retries.** The provider repeats messages, `/reset` discards
  messages already queued or under way, generation is retried and gives up.
- **Copies of configuration.** A page, a command, a turn and the registry hold
  what they read; starts, saves and resets write behind their backs.
- **Copies of the outside.** The adapter keeps groups and readiness in memory;
  a refresh, an event and a lost connection may cross.
- **Stop.** Pairing, logout, the bot and chat actions share one device store;
  any of them may be cancelled, time out or fail half-way.
- **Retention.** Five deletions by age must spare what other rows still need.

## 2. Modules

Every module keeps the control of the code and abstracts the data. Operators
named `Bad...` are plausible bugs of the definition that follows them; they are
used only to confirm that a property notices. Counters named `faults`,
`crashes`, `mishaps`, `restarts`, `stops`, `deliveries` bound the failures of a
behaviour; constants named `Max...` are bounds unless their comment names a
constant of the code.

### `AtMostOnceDelivery` and `Outbox`: replies and typed effects

`AtMostOnceDelivery` is the promise: each item is planned, claimed, attempted
once at most; `succeeded` only after an attempt, `failed_terminal` only without
a claim, `unknown` otherwise. It knows nothing of threads, restarts or
connections. `Outbox` implements it:

| Variable | Code |
|---|---|
| `turn` | `inbound_events.turn_state` |
| `state` | `outbound_actions.state`, `typed_effects.state` (`action.State`, `effect.State`) |
| `up`, `ready` | the process; `Ready()` of the sender |
| `pc`, `row`, `todo`, `listing` | where each goroutine is in `Dispatch`, its row, the rest of its plan or listing |
| `ran`, `lost` | observations: provider calls that took effect; rows whose outcome write failed |

A reply is named after its turn (a turn has at most one). `CommitPlan` is the
transaction of `TurnStore.CommitPlan`; `Load`, `CheckReply`/`CheckEffect`,
`Start`, `Run`, `Complete`, `MarkUnknown` and `FailTerminal` are the calls
`Dispatch` makes, one action for each read or write of shared state, so any two
threads interleave between them. `Start` and `Finish` are the guarded updates
(`WHERE state = ?`). `Record` is the helper of that name: it writes once and drops
the error. `ListReplies` and `ListEffects` are the flush on connection and the
minute's sweep; the sweep leaves out a set of rows that are too young. `Crash`
clears every goroutine; `Restart` is `ResolveInterrupted`, which
`app/compose.go` calls before anything else runs. Policy decisions, provider
answers and failures are free choices. A failed policy read of a reply is final
in the code (`AuthorizeSend`), one of an effect is not when it is retryable; the
model keeps the difference.

### `OneReply` and `ChatQueue`: one chat of the dispatcher

`OneReply` is what a chat promises about each message addressed to the agent: it is
heard, waits, and then has a turn of its own that ends answered or failed, or joins
another message that is answered for both, or is discarded by a reset, also while its
turn is under way (`Cancels`); whatever it came to is never taken back
(`SettledForGood`). It knows nothing of the queue, the inbox,
goroutines, retries or crashes. A message that the provider repeated while it was
queued may join itself, and only such a one has a turn after it joined. `ChatQueue`
implements it, with the row of a message for its `fate` and `anchorOf` for its
`answerer`; commands are not part of the promise.

| Variable | Code |
|---|---|
| `row`, `attempts`, `arrived`, `resetAt` | `inbound_events` (turn state and `turn_claimed` as one value, `generation_attempts`, `rowid` order), `history_resets` |
| `pending`, `overflow`, `refilling`, `timer`, `running`, `retries` | fields of `chatQueue` |
| `users`, `holder` | `chatQueue.users`, the `commands` mutex |
| `jobs` | the goroutines of `startTurn` and `refill`, with what they hold |
| `at`, `msg` | each caller of `Resume` (adapter workers, `Recover`) and its message |
| `recovered`, `page`, `more`, `after`, `passFailed` | the pass of `Recover` |
| `dropped`, `anchorOf` | observations: messages given up with an error, the anchor a message was batched into |

`row` is `received` before the turn's claim, then `generating`, `retryable`,
`answered` (a plan is committed: from here on it is `Outbox`'s business) or
`failed`; or `ignored`, `batched`, `closed` (a command handled without a reply).
Everything the code does under `mu` is one action, and every transaction is one;
between them anything may happen. `timer` is a flag: a scheduled timer may fire
at any time, and a replaced one never does (`timerSeq`). `AuthorizeInvocation`
is stable per message; a command may be allowed or denied, succeed, fail, or
reset the history. `Reset` is the transaction of `ResetIfConfigVersion`: it moves
`resetAt` and makes every row whose turn was begun and has no answer `ignored`, also
that of the turn under way, which learns of it only when it claims its anchor, enters
it in the transcript or commits its plan (`Blocked`, `Generate`) and then fails. What
such a reset leaves waiting, the next `ClaimBatch` discards. The reset of this module
covers all that has arrived at its step; that the command reads the clock before the
transaction is `Transcript`'s. The failures of storage, registry and model are actions of
their own (`Failure`) that use up one of `MaxFaults`.

### `Admission`: mute and the smart trigger in front of the queue

The same chat seen from the other side: `awaiting` and `judging` are the burst
that waits for the judge and the one being judged, `judgeTimer` its timer,
`judged` the remembered judgments, `mute` the row of `chat_mutes`, `asking` the
request under way. Workers route messages (`Handle`, `WorkerStep`), a goroutine
judges (`JudgeStep`), another takes a batch and authorizes it message by message
or reads the inbox back (`QueueStep`). `status` is the state of an inbox row,
`stage` where the worker of a message is. A failed revocation of a muted member's
message is `RevokeFails`. `dropped` observes what is left to the next startup: by
an error, or by a refill that passes over a judged message (section 5).
Generation, retries and crashes are `ChatQueue`'s.

### `Transcript`: what a turn is shown

`log` is `history_entries` in the order of the sequence, `cutoff` and `resetAt`
the row of `history_resets`, `state` the turn states, `turn` the turn under way
(claimed, appended, prompted, sending), `reset` the command under way: it reads
the clock, then resets only if the configuration still has its version, then
plans its answer. `Prompt` is `list`, `placeLateReplies` and `Build`: the window
of the newest entries, each late answer moved behind its message, cut from the
front. What these make of a list is written as recursive functions (`PlaceReplies`,
`Filter`, `Fit`), so that it can be proved about. The transactions of `Append`, `Claim`, `CommitPlan` and
`ResetIfConfigVersion` carry the guards that keep a reset final.

### `Retention`: what maintenance may remove

`Maintain` is the five deletions of one pass, each of a batch of the oldest;
`kept`, `state`, `effects`, `stickers`, `bindings` are what it deletes from.
The other actions write what may still lean on a row: answers to be sent, quotes
of a message or of the window, effects that delete or react, sticker records,
mentions, resets. `ListBotMessages` and `ResolveMessageTarget` are the readers.

### `ScheduledTasks`: timers and rows

`rows` is `scheduled_tasks`, `timers` the armed or running timers with what each
does next, `entry` says whether `tasks[id]` is that timer, `edits` who holds
`taskEdits`. A command, a model call or the window asks for a task
(`RunScheduleTask`, `RunDailyTask`, `AddChatTask`), `DeleteChatTask` and
`CancelDelete`/`CancelStop` are `CancelTask`, the timer's steps run the turn,
delete or move the row and arm again (`Arm`), `RecoverList`/`ArmStoredTasks`/
`RecoverEnds` are the startup. `Stop`, `Exit`, `Crash`, `Start` are the process.

### `Connection`: one account while it runs

The adapter's `Start`, `handleEvent` and group worker, the account runtime and
the recovery loop, against servers that connect, disconnect and change the
group. A group is a version number; `truth` is the servers', `groups` the copy
in memory, `stored` the one in the store. `signals` is the bounded channel of
connection events, whose overflow drops the event.

### `Broadcasts`

`jobs` are the schedule rows, `senders` the worker and the request that sends at
once, each group by group in batches; `handles` is the list the operator was
shown. The worker claims a due row by a guarded update, closes it with what came
of each group, and closes what an interrupted run left as failed.

### `Sessions` and `Lifecycle`: pairing, the bot, the device

`Sessions` is `SessionController`: the operations (pair, resume, stop, cancel,
logout) as steps between two releases of a mutex, the run it supervises, and
`binding`, the row it writes. `Lifecycle` extends it with `AgentController` and
the application: one operation at a time (`op`), the bot's run (`agent`), a chat
action that holds the runtime, and the end of the process. `clients` is who has
a client open on the device store. A stop waits for the action and then cancels the
run; `Close`, the stop of `Host.Close`, cancels it with the root context first
(`CancelRoot`) and waits afterwards. `action` is `orphaned` when the runtime under it
ended by itself and `overtaken` when it was cancelled (section 5).

### `SettingsRules` and `Configuration`

`SettingsRules` is the validation of settings as a pure operator over field
states (unset, ok, bad): what a draft needs, what a session and the bot need of
it. `Configuration` is the life of settings and chat configurations: pages
(`forms`) load and save by revision or version, commands and turns (`handling`)
hold the configuration they read, `agents` is the registry, `Start` projects the
settings on the chats. `Rules` are the rules a draft of the settings may have; the
settings stored before the first start are some that a save accepted.

### `Access`: owner, allowlist, references

`policy` is what the bot is configured with, `allowed` and `owner` the flags in
`chats` and `participants`, `ref` the random sender references, `at` what the bot
does with a message. A message claims its row and writes what it shows about its
sender and its chat; a start reconciles the flags; a command, a turn and a send
check them.

### `DataRoot`: the lease, backup and restore

Processes launch the application, write a backup or restore one. `disk` is the
files of each root by version, `holder` its lock, `partial` the directory a
restore fills. Every file copied is an action; a process may die at any.

The `MC...` modules give TLC the small instances. The `...Proofs` modules hold
the theorems about the module they are named after (section 4); `LifecycleProofs`
is also about `Sessions`, which `Lifecycle` extends, and about `Connection`,
`AccessProofs` also about `Admission`, `DataRootProofs` also about `Retention`,
`ConfigurationProofs` also about `Transcript`; these four name their initial states,
steps and specification apart for that (`AccountInit`, `AdmissionNext`,
`RetentionSpec`, `TranscriptTypeOK` and so on).

## 3. Runs

Every run asks one question of one part, checks its type invariant as a conjunct
of a named composite, and is small enough to be exhaustive. Every property of a
run is broken by at least one of the `Bad...` operators (`PROJECT.json`,
"mutants").

| Run | What it shows | Bounds |
|---|---|---|
| `outbox` | `AtMostOnce`; `EffectFollowsReply`; `RecordsAreTrue`: outcomes true, the turn mirrors its reply, executing rows have an owner; the refinement `RepliesKeepThePromise`; `PendingReplySettles` and `DeliveredEffectSettles` | a reply, the command that follows it, an effect of the desktop; a worker and the flusher; 1 crash, 1 fault, 1 lost connection |
| `queue` | `NoMessageLost`, `BatchedHasAnAnchor`, `TakenInOrder`, `QueueIsSound` (one turn at a time, a reader for the overflow, bounded memory), the refinement `EachAnsweredOnce`, `EventuallySettled` | 3 messages of which the second may be a command or unwanted, queue of 1, batch of 2, 1 attempt, 1 requeue; a worker and `Recover`; one of: a repeat, a fault, a crash |
| `admission` | `WaitersAreServed`: whoever waits for the judge or in the inbox has somebody to come; `HeldIsJudged` | 4 of: 2 smart messages (one of the muted member), 2 mentions, a mute command; a worker, queue of 2, 1 fault |
| `transcript` | `AnswersAreShown`, `ResetIsFinal`, `GivenUpForAReason` | 3 of: 2 messages, a reset, a task, a window message; a change of the configuration or a fault; window of 3 |
| `retention` | `KeptWhileNeeded`, `ResetHidesQuotes` | 2 of: 2 messages, a window message, a sticker, an effect; 3 times with retention ages of 1, batches of 2 |
| `tasks` | `TimersFollowRows` (one row, one timer, none forgotten, no timer for a deleted task after its move), `KeptUntilRun`, `DailyBounded`, `DueTaskSettles` | a one-off and a daily command, a daily call, at most one daily task, 3 times; one mishap |
| `connection` | `GroupCopiesAgree`, `ConnectionSettles` | 2 connections, 3 versions of a group, channel of 2, 1 failing call |
| `broadcasts` | `SentAtMostOnce`, `RowsAreSound`, `DueBroadcastEnds` | a schedule and one sent at once, 2 groups, batches of 1, 1 fault, 1 crash |
| `lifecycle` | `BindingsAreSound` (what the page is told is so, no scope reserved for nobody), `RuntimesAreOwned` (one client on the device; a run is cancelled, and closed, under a chat action only by the end of the process), `OperationsEnd` | 3 scopes, 2 revisions, 2 faults, 1 crash or `Host.Close` |
| `configuration` | `ConfigurationIsSound`, `OneInvocationPerChat`, `SavesOnlyWhatWasSeen` | 2 pages, one chat, a command or two turns of it, 2 saves, 3 versions, 1 restart |
| `access` | `StandingIsConfigured`, `ActsInside` | 2 people, a phone number, a group, 2 direct chats, a status; 3 policies, 2 restarts |
| `dataroot` | `RootHasOneOwner` (leases, a backup of one point in time), `RestoreIsSound`, `OnlyTheOwnerWrites` | 2 processes, 3 roots, 2 files, 1 crash, 1 fault |

Why these bounds are enough for the interesting cases. A queue of one overflows
with the second message and is read back with a page that is full, so a full page,
a missed row and the empty page all occur with three messages. A worker that
replays its own plan and the flusher lose to each other at every guarded update
of the outbox; the proofs of section 4 cover any number of threads. One crash or
fault can fall between any two steps, and the hazards listed in `PROJECT.json`
need one each. In `admission` the queue has two places: with one, every page that
is read back is full and is read on, and what a shorter page passes over would never
show. Its one worker routes beside the judge, the turn and the refill; `WaitersAreServed`
is proved for any number of workers. A second connection is what crosses with an event or a refresh of
the first; three versions of a group are needed for a change applied to a stale
copy. Three scopes are what a pairing needs that reserves a second after the
first was lost. Two restarts show an owner who comes back. Retention ages of one
tick over three ticks put every row on both sides of its limit.

Symmetry is used over interchangeable messages, pages, references, processes and
files, and never in a run that checks liveness. Deadlock checking is off where
everything settles and the system rests; `outbox` and `dataroot` never rest.
`TakenInOrder` speaks of behaviours without a crash: after a restart `Recover`
and new arrivals race by design (`ClaimBatch` sorts what meets in a batch), and of
one adapter worker, as two may hand over messages in either order. In `outbox`
there is no bare turn; the theorems cover those.

### Fairness

- `outbox`: every goroutine inside `Dispatch` keeps running (calls to the provider
  and the store return, each has a timeout); the process is restarted and the
  session reconnects (`account.Runtime` and the service manager retry for ever);
  the flusher's listing is strongly fair for the empty `young` set because the
  sweep comes every minute and no row stays younger than a minute. `Disconnect`
  and `Crash` have no fairness and are bounded, so the connection is up for good
  in the end.
- `queue`: weak fairness of the process as a whole (`Progress`): it does something
  as long as it can, which goroutine goes first is left open. Deliveries, repeats,
  failures and crashes are never required.
- `tasks`: the same, with the clock, the restart and the retry of `Recover`.
- `connection`: the client keeps connecting; the handler of events, the group
  worker, `Start`, the account runtime and the recovery loop each proceed.
- `broadcasts`: the worker, a call in progress, a restart and a reconnect.
- `lifecycle`: what was cancelled ends, every step that is not a wait for the
  outside is taken, a chat action returns (it has a timeout). A user never has to
  press anything.
- `admission`: each worker with a message, the judge and the turn.

`ConnectionSettles` excludes a run in which a connection event was dropped or
`Start` wrote an older answer over `ready` (`missed`); `EventuallySettled` one in
which a row that is not to be answered stays unfinished; `DueBroadcastEnds` one
in which the closing write failed. Each exclusion is a hazard of the code with
its line in `PROJECT.json` or section 5. `AnswersAreShown`, a safety property, asks
for the answers only while no more of them came late than the window holds, for the
same reason.

## 4. Proofs

Eight modules prove theorems for every value of the constants; `PROJECT.json`
lists them with the property of the run they state. Each has the same outline:
an inductive invariant `IInv`, one lemma for each action that keeps it, and the
properties of the run as consequences. TLC checked every `IInv` on the instance of
the run first. They assume what the modules assume of their constants, no more:
kinds of things are distinct, bounds are natural numbers, sizes are not 0, `None`
is nothing else, sets that are counted are finite, the settings stored before the
first start were accepted by a save.

**`OutboxProofs`** (any replies, bare turns, effects, workers, plan order).
`TypeCorrect`; `AtMostOnceHolds`, no row is carried out twice; `FinalityHolds`, no
step rewrites a final state; `RecordsHold`, what the tables say happened;
`EffectsFollowReplies`; `PromiseIsKept`, the refinement of `AtMostOnceDelivery`.

`AtMostOnce` is not inductive. `ClaimInv` adds what it rests on: an executing row
has one owner (`OneOwner`); a row nobody claimed was not carried out and is owned
by nobody (`UnclaimedIsUntouched`); a thread about to call the provider is the
first (`OwnerRunsFirst`); and, because `CommitPlan` writes `pending`, a turn still
generating has no rows (`UnplannedIsBlank`), without which planning could put a
row that already ran back to pending. All steps but `Start` and `Run` are *quiet*:
they claim nothing, carry nothing out and make no row pending again
(`OnlyStartAndRun`); `ClaimStep` then treats three cases.

The records share the invariant `OutboxInv`, which is `TypeOK`, `ClaimInv`,
`DownIsIdle` and `RecordInv`. `RecordInv` is `RecordsAreTrue` with what it rests on:
a reply that a thread owns is executing (`OwnedReplyExecutes`), or a record about
to be written could find another state and be dropped; a thread about to write
"succeeded" did carry its row out (`CompletedRan`); only a command is refused by
its effect (`OnlyCommandsRefuse`), so a refusal writes no reply. `DownIsIdle` is
what a restart needs: whatever executes then has no owner left, and
`ResolveInterrupted` makes it unknown. Most steps are those of a *bystander*: they
write no row and neither gain nor lose an owner, so one lemma (`BystanderKeeps`)
covers them. `EffectsFollowReplies` strengthens its property to effects that are
under way (`EffectsFollow`): `Start` looks at what the effect waits for as it
claims it, and what it saw stays so (`DeliveredStays`). `PromiseIsKept` maps each
step to a step of the promise or a stutter: the claim to `Claim`, the provider call
to `Attempt`, the record to its outcome, a restart to `LoseOutcome` of every reply
still executing.

**`ChatQueueProofs`** (any messages, workers and sizes). `IInv` types the variables
and says what each caller holds at its step, what each goroutine holds of its
batch, and what flags a queue of each length has: `TheQueueIsSound` follows. Its
rows move only forward (`RowMoves`). `NothingIsLost`
rests on `NoMessageLost` saying, of every message still to be answered, in
whose hands it is (`Safe`): in the queue, with a caller, in the batch or the
page of a goroutine, in the part of the inbox that the reader or `Recover` has not
come to (`ToRecover`), or given up; every action then hands each message on.
`AnchorsHold` needs that a sequence the code builds (queue, batch, what is put
back) holds a message twice only after a repeated delivery of it. The lemmas on
the way are about the module's own operators: `Filter` keeps order, a list cut
in two, what `listUnfinished` leaves out, what `ClaimBatch` takes.

`TakenUpInOrder` states `TakenInOrder` for any number of workers that hand one
message at a time to the queue (`OneAtTheDoor`), and `OneWorkerKeepsOrder` for one
worker, where that is so by itself. With several, which is the default
(`config/config.go:26`), two workers that stored a message each may reach `admitAI`
in the other order, and then the later one is taken up first. `OrderInv` is the
invariant: `NobodyOvertaken`, which is the property but for messages in a
batch; `QueueInOrder`, whoever waits before a message of the batch, of what is
put back or of the queue stands before it there (`InOrder`); and
`WaitingArePlaced`, without which nothing could be said of a message that is not
there yet: who waits is at the door, in the queue, with the goroutine, or left to a
reader with everybody after it. The order of a sequence is kept by what the
code does to it, each a lemma: `InOrderConcat` (admission, requeue), `InOrderCut`
(`startTurn`), `InOrderFilter` (a page without its commands), `PageInOrder`
(`listUnfinished`), `ClaimKeepsOrder` (`ClaimBatch`, which takes a prefix in order and
may only leave out what it discards). It is an invariant until the process dies.

`EachIsAnsweredOnce` is the refinement of `OneReply`: a delivery maps to `Hear`, the
claim of a batch to `TakeUp` or `Discard`, the agent's claim of the anchor to `Begin`,
its end to `Settle`, a reset to `Discard` of everything under way, everything else to a
stutter. It needs that the anchor of a turn is still to be answered or was cancelled by
a reset, and has not joined another message meanwhile (`AnchorsMayRun`): a turn that
was cancelled goes on, and may neither begin nor settle. `SettledIsFinal` follows: what was answered,
failed, discarded, also under way, or answered as a part of another message is never
given a turn.

**`DataRootProofs`** (any processes, roots, files): `InvariantHolds`,
`OwnersAreApart`, `RestoresAreSound`, `OwnersWrite`. A process that is past `idle`
holds the lock of its root and the root exists (`Leased`); a backup under way has
copied from the one state of its root; a partial directory has one writer; a
restore that verified a file either copies what it verified or the file was
damaged later (`RestoresABackup`).

The module also proves the properties of `Retention` (any messages, stickers,
effects, ages, batch): `RetentionHolds`, `NeededIsKept`, `QuotesAreHidden`. A pass
of the maintenance deletes by age alone, so `RetentionInv` says why age is enough:
rows, entries and planned answers go together (`RowsOK`, `WindowOK`), a row goes only
when its entries are as old as the rows that go (`AgesOK`), the mark of a deletion
stays as long as the entry it marks (`MarksOK`), a mention as long as an entry that
shows it (`MentionsOK`). What a page or a turn quotes is there (`QuotedIsThere`), what
the page shows is newer than the reset (`VisibleIsNew`), and so is what it
quotes (`QuotesAreNew`). The proofs assume that messages, effects and stickers are
different things (`KindsAreApart`) and that ages, sizes and the horizon are not 0
(`RetentionIsBounded`).

**`BroadcastsProofs`** (any broadcasts, finite set of groups, batch size):
`InvariantHolds`, `SentOnce`, `RowsHold`. What a sender still has to do was not
done, and what it noted is so (`SendersKnow`); the worker's row stays `sending`
while it works on it (`WorkerOwnsItsRow`); a final row tells the truth
(`RowsAreTruthful`).

**`ScheduledTasksProofs`** (any sources of tasks, delays, times of day):
`InvariantHolds`, `TimersAgreeWithRows`, `TasksAreKept`, `DailyTasksAreBounded`.
`taskEdits` is held by whoever is in a section it guards (`EditsAreHeld`), ids are
minted once (`IdsAreMinted`), every stored task has a timer or somebody about to
arm it (`RowsAreCovered`), who has counted the daily tasks finds them as it
counted them (`RoomForDaily`), and what a timer ran or deleted is over or gone
(`RanIsOver`, `DeletedIsGone`).

**`ConfigurationProofs`** (any drafts, pages, chats, commands, turns):
`InvariantHolds`, `SettingsAndChatsAgree`, `OneTurnPerChat`, `SavesAreHonest`. The
invariant says what a copy is: of a row that exists, not newer than it, and equal
to it at the same version (`CopyOK`), for each page (`PageOK`) and each message in
work (`PlaceOK`); writes only replace a row by one of a later version (`Grow`). That
a saved draft can pair a phone is a lemma about the validation alone
(`AcceptedCanPair`).

The module also proves the properties of `Transcript` (any messages, commands, tasks,
window and context size): `TranscriptHolds`, `EntriesAreInOrder`, `ResetsAreFinal`,
`TurnsAreGivenUpForAReason`, `AnswersShown`. `TranscriptInv` says that a row and its
entries agree: a message with an answer in the log was answered (`LogMatches`), an
entry is there once and its answer after it (`AnswersFollow`), nothing after the cutoff
was received before the reset (`CutoffHides`); a turn past its claim has its row, and
a turn that a reset overtook has lost it (`TurnStands`); a reset under way still has
its command waiting (`ResetStands`). `ResetsAreFinal` then needs that whatever
`Build` makes of the list is of the page or an answer (`ListWithin`,
`ShownIsListed`). `AnswersShown` follows a list through the four things that are done
to it, and shows of each that it keeps two facts: the anchor is last and nothing else
is of it (`EndsWith`), and a message is followed by its answer if that is in a given
set (`Followed`). The page has both for what the log holds up to the anchor
(`PageKeeps`); placing a late answer adds it to the set (`PlaceFollows`,
`RepliesPlaced`), and the late answers that fit the window are all there are
(`LateHas`); a filter keeps both facts if it keeps the answers of the messages it
keeps (`FilterEnds`, `FilterFollows`), which is so of what was sent and of what is
left without the oldest invocation (`DropKeeps`, `FitKeeps`). The recursive functions
are unfolded by induction over a set of natural numbers (`NumberInduction`), which
rests on every such set having a least element (`LeastNumber`). `KindsAreDisjoint`
says that messages, commands, tasks and messages of the window are different things.

**`AccessProofs`** (any people, numbers, chats, messages, policies):
`InvariantHolds`, `StandingFollowsPolicy`, `OnlyInsideActs`. Beside the property
itself: a number in somebody's row was shown by one of that person's messages
(`PhoneWasShown`), and who was granted the owner's commands has them under the
policy in force (`GrantIsConfigured`).

The module also proves `WaitersAreServed` of `Admission` (any messages, commands,
workers, sizes and faults), with `AdmissionInv`: `AdmissionHolds` and
`WaitersHaveSomebody`. `NobodyForgotten` is not inductive, since the goroutine of the
judge lets go of a burst after it settled it. `JudgmentOver` says what has become
of the burst by then: once the judge has answered only the newest message is left
of it, and once that one is admitted or denied the queue has it or will read it
(`InHands`). `TurnIsApart` says that the inbox is only read while the queue is empty
and no batch is out, so that a page loses nothing; `RowsFirst` that whoever is in work
has a row, which a page of the inbox then finds. All steps of the queue go through
one lemma (`QueueKeeps`): what the queue had and still needs an answer, it has
afterwards, or the judge does. The proof attempt found the passed-over message of
section 5: the invariant is false without the `dropped` of `Refill`.

**`LifecycleProofs`** (any scopes, revisions and bounds): `InvariantHolds`,
`StatusCanBeTrusted`, `OneUserAtATime` (the device and the chat actions,
`RuntimesAreOwned`). `OpOK` says what each operation relies on: one that pairs, logs out or waits for the bot has no session beside it, one that
will start the bot can (`Startable`); `BotOK` that the bot has no session beside it
and is shown as running from the end of its start to its stop, and that its run is not
cancelled with an action on it unless the process is ending; `RunOK` that a
session pairs until the binding says so; `ClientsOK` that a client is open just
while its user works; `ReservedOK` that without a failure a reserved scope is the
one being paired. Each action falls under an operation, the goroutine of the
session or the bot, and each of these has a lemma of its own (`OperationKeeps`,
`RunKeeps`, `BotKeeps`).

It also proves `CopiesAgree` of `Connection` (any versions of the group, channel of
signals, connections and failures), with an invariant of its own, `AccountInv`. The
copies of the group agree because of what is under way: the last event about the
group tells how it is (`WireLeads`), a refresh that nothing overtook has read it so
(`SyncIsCurrent`), and the end of a connection stays under way until what was known
is given up (`EndIsTold`); a client that is not connected is told nothing.

Only model-checked:

- every liveness property (`EventuallySettled`, `HeldIsJudged` and the others of
  section 3): liveness and fairness are out of the prover's reach. Every invariant
  and every action property of the runs is a theorem.

## 5. Where the code and its comments disagree

Found while modelling. The models contain each of these behaviours; the
properties are stated so that they hold beside them.

Delivery:

- `FailTerminal` of an effect accepts `executing` rows so that a refused command
  can be recorded (`adapters/sqlite/effect.go:238-241`: "nothing ran yet, or a
  command was refused before it did anything"). A dispatcher that loaded the row
  pending and is then denied overwrites the row that another dispatcher is
  executing, and an effect that ran is on record as failed. Replies are not
  affected (`ReplyOutcomeIsTrue`).

The queue:

- "A command runs once" (`inbound/dispatcher.go:304`): a repeated delivery waits
  for the command lock; when it gets it, the first run is over, its row is closed
  without a planned reply, and nothing reads the row again: it runs twice.
- A repeated delivery may enter the queue while its message's turn runs; the turn
  fails, the message is put back in front, and the batch holds it twice: it is
  recorded as batched into itself (`dispatcher.go:497`, `524`). If that turn fails
  too, no restart finds it.
- `refill` lists what is unfinished, also a message that its own caller has
  stored but not yet ignored (`dispatcher.go:574`). As the anchor of a batch it
  gets the batch denied.
- A command whose caller failed before closing it stays in the inbox with nobody
  running it; `refill` skips it, and when such rows fill a page it reads the same
  page again and again (`dispatcher.go:561-590`).
- "The refill reads them back in arrival order" (`inbound/dispatcher.go:345-346`),
  "reads back the messages that were left in the inbox" (`:548`): a judged message
  that finds the queue full, or a refill under way, is left in the inbox by `admitAI`,
  while its goroutine still counts it as judged (`:435` comes in a later section of
  the lock). A refill that works in its page between the two skips it as held for the
  judge (`:571`), and when the page was not full nobody reads it until the queue
  overflows again or the bot restarts. It takes a refill that works in its page
  between two adjacent critical sections. `Refill` of `Admission` counts such a
  message as `dropped`.
- The judge is "never asked about again" (`policy/fixed.go:108-111`), but two
  callers that both missed the remembered judgment both ask.
- `IsChatMuted` deletes a mute it read as expired without looking again
  (`adapters/sqlite/inbound.go:1123`): a mute set in between is deleted with it.

Transcript and tasks:

- "Every reply to an earlier invocation was sent before this one started"
  (`adapters/sqlite/history.go:110`): a reply that could not be sent stays pending
  while the next turn starts, and is not shown to it.
- Bounding the list at the anchor "would hide the answer from its own turn, and the
  bot would answer the earlier message again" (`adapters/sqlite/history.go:106-109`):
  the late answers are read with the limit of the page, oldest first (`:120`), before
  it is known which of their messages are on the page. When more answers came late
  than the window holds, those of older messages, which are not on the page, take the
  places, and the answer of a message that is shown may be left out. With a window of
  2, the page is the third and fourth message and the late answers are those of the
  first three: the third is shown without its answer. The window is 1 to 256, by
  default 64. The proof of `AnswersShown` asked for the hypothesis that excludes it.
- "A late result cannot commit" (`agent/history.go:127-128`): the reset reads the
  clock before its transaction; a message received in between, whose turn has its
  transcript already, is not cancelled and commits.
- A task of a command that is resumed after a crash is stored again if its first
  row already ran and was removed (`inbound/tasks.go:80`,
  `adapters/sqlite/scheduled_tasks.go:24`).
- `change` "must set absolute values" (`command/context.go:276`), but
  `/trigger smart add` appends (`inbound/commands/trigger.go:130`): replayed after
  a crash it adds its rule twice.

Access, maintenance, lifecycle, data:

- "So the runtime is never closed underneath an action"
  (`control/agent_runtime.go:66-67`), "stop waits for the action to return before it
  closes the runtime" (`control/chat_actions.go:121-123`): `AgentController.Close`, which
  `Host.Close` calls, cancels the root context (`agent_runtime.go:257`) before `stopRun`
  waits for the actions (`:433`). The context of the run derives from the root (`:317`),
  so `Application.run` leaves its select (`app/app.go:205`) and its deferred
  `runtime.close` (`:146-150`) closes the adapter and the store while an action, which is
  cancelled but not waited for, may still be working: one that has sent its message can
  no longer record it (`app/chat_actions.go:80-84`). In the model it is `Close` with an
  action under way, then `RuntimeEnds` and `CloseRuntime`, which leaves `action` as
  `overtaken`: TLC reports it at once when `action # "overtaken"` is checked.
  `StopWaitsForActions` is what every other stop keeps; all it says of this one is that
  the process is ending. A runtime that ends by itself, as on a logout, is closed under
  an action as well (`orphaned`).
- A direct chat admitted by an alias (`policy/allowlist.go:85-87`) is denied after a
  restart: `ReconcileAccountPolicy` compares `provider_address` only
  (`adapters/sqlite/inbound.go:401-421`).
- Inbound rows "only serve deduplication and usage stats by then"
  (`adapters/sqlite/maintenance.go:13-14`), but a quoted message's identifier is
  read from its row: a reply to a message older than the retention fails.
- `ValidateSettings` rejects a policy revision of 0 and an empty prompt mode that
  a save accepts.
- A leftover `.partial` directory blocks every later restore (`backup/backup.go:233`),
  and files are not compared with the manifest again while they are copied
  (`:247`). `docs/multiplatform/README.md:515` says the lock file is left out of a
  backup; the code copies it.

## 6. Not modelled

- `ChatQueue`: graceful shutdown (a crash covers its effect on memory), debounce
  delays, other chats (they share only `mu` and the store), `forgetIfIdle` (an idle
  queue equals a new one). Typing signals and observers change nothing that is
  kept.
- `Outbox`: desktop messages sent without the outbox, and batched execution of
  several commands (each has its row and its own outcome).
- The text of prompts, entries and answers; the digest of the context; token
  budgets other than as a number of entries.
- LLM client and fallback: one request and its retries over HTTP, whose outcome is
  a free choice of the turn.
- Media, stickers and mentions: conversions without shared state. Identifiers and
  flags: parsing.
- Web, UI and observability: presentation, authentication and logging; their entry
  points are the inputs of `Broadcasts`, `Sessions`, `Lifecycle`, `Configuration`.
- Build, deployment, documentation.
- `History.Trim` has no caller in the program.

## 7. Plan

`ChatQueue` and `Admission` composed in one module, when its state space allows:
today `Admission` has a queue without retries and crashes, and `ChatQueue` takes a
message without a judge in front of it.
