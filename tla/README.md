# Verification of KomeHub (こめはぶ)

KomeHub is a hub for comments of YouTube live streams. An Electron process opens
a hidden chat window and injects a scraper into it. A Rust core (a napi addon)
receives the comments, keeps the session and the database of listeners, fires
effects, reads comments aloud, and serves overlays over HTTP, SSE and shared
memory. This directory holds TLA+ models of the parts of it where the order of
events matters, TLC configurations that check them on small instances, and
proofs for any instance where there are some.

All paths below are relative to the repository's root, `src/` here.

## 1. The system

One task, `ModelQueue::run` (core/src/model_queue.rs), owns nearly all state and
handles one `ModelCommand` at a time, in the order of one FIFO channel. What makes
the program hard lies around that task:

* the Electron main process, whose window handlers share four global variables
  and run whenever Electron calls them;
* the engine queues (core/src/engine/mod.rs): tasks that compute beside
  ModelQueue and write back by commands on the same channel;
* the speech worker and the health probes (core/src/tts.rs), which share atomics,
  mutexes and a `Notify` with ModelQueue's handlers;
* deliveries of one comment by several paths (DOM backfill, DOM observer, fetch
  intercept), each of which may repeat what another has sent;
* the start and the end of the Electron process, where the port, the windows, the
  startup import, the final export and the core wait for one another;
* the feed to the window of the application, whose subscriber is told of a change and
  then reads shared memory, which the hub may have changed again by then;
* the pages in browser sources, which lose their event stream, load anew, and keep
  queues, timers and frames of their own.

| Component | State | Operations | Talks to | What is hard | What makes it correct |
|---|---|---|---|---|---|
| Stream connection (model_queue.rs, listener_owner_handlers.rs) | connection, pending_stream_owner, configured_owner_channel_ids | ConnectionStateChanged, AnnounceStreamOwner, SetOwnerChannels | Electron (commands), clients (push) | announcements and stray statuses in any order | the owner is the owner of the current video; the own-stream flag is fresh |
| Comment ingest (model_queue.rs, realtime_handlers.rs, state/comment.rs) | replay store, timeline, seen ids, live stats, listener memory | IncomingComments*, CommentDeleted, change of video | aux queue, record queue, clients | redelivery, deletion overtaking, comments that are late for their stream | once per comment; the two replay sources agree; nothing crosses streams |
| Listener database (engine/listener_manager.rs) | listeners, streams, comments tables | record, classify, search, tags, merge | ModelQueue, OneComme sync | busy database, records that lag behind classification | idempotent record, aggregates equal to rows |
| Chat session (electron/main.js) | chatWindow, currentVideoId, isManualDisconnect, reconnectTimer | connectChat, disconnectChat, window handlers | core-bridge | handlers of closed windows on the state of their successors | quiet after disconnect; heals; no storm |
| Speech queue (tts.rs) | queue, counter, generation, Notify, pause | enqueue, pause, clear, save, run_tts_queue | ModelQueue, players | interleaving of enqueuing, clearing and playing | no lost wake-up, nothing spoken after OFF, counter right |
| Speech health (tts.rs) | one status per provider, poller flags | refresh, check, poll, mark | speech worker, screen | overlapping probes, the poller's end | no status stuck; unreachable is watched |
| Notifications (model_queue/notification.rs) | settings, pause | dispatch, mute | speech queue | share the queue with comments | served while comments are paused |
| Application lifecycle (electron/main.js, core-bridge.js) | mainWindow, startup import, export flags, shuttingDown, retries of the bind | start, close, quit, reset, second instance | core, OneComme | a close meets the import, the export and every other way out | the import is not cut, nothing is left unexported, nothing hangs |
| Reset and migration (electron/main.js, migration.js) | marker file, store, app-config.json, scenes | reset, migrations | files | interruptions, locked files and failing writes at any step | only what was asked is lost; resets and migrations are carried through |
| Performance engine (engine/performance.rs) | superchat and manual queues, cooldowns, active effects | evaluate, enqueue, expire, pause, clear | overlays | limits, expiry, pause | bounded, no early or lost effect |
| Overlay effects page (effects-overlay/js, plugins) | live counter, one queue per plugin, pause flag | execute, clear, setPaused | event stream of a scene | wake-ups of many kinds, pauses and clears between them | nothing waits for ever; exclusive displays are alone |
| Template runtime (effects-overlay/template-runtime) | entries, order, timers and frames of cards | upsert, remove, trim, reload | event stream of a template | redelivery, deletion and overflow while timers run | every card accounted for, in order; the list comes to rest |
| HTTP, SSE, WebSocket surface (core/src/surface) | subscribers | broadcast, replay | pages | replay against live | order kept |
| Shared memory and the application's feed (shared_memory.rs, napi_bridge.rs, renderer.js) | gates, double banks, broadcast channel, cursor of the subscriber, comment list | publish, broadcast, take, read again, show | hub, renderer | notice and content travel apart; three limits that drop the oldest | every comment once and in order, none passed over, the state shown is the state |
| Scenes, effects, presets, templates | scenes in memory and on disk | edit, queued engine tasks, writeback | ModelQueue | an edit between task and writeback | no lost update |
| Backup, restore, export, import | files, database | backup, restore, import | all stores | a restore under a running hub | what is replaced is reloaded |
| OneComme synchronisation (surface/onecomme.rs) | watermarks | pull, write back, detect reset | OneComme | a reset on the other side | every row once |
| Image and font caches, user interface | files, views | input and output | — | mostly I/O | — |

`PROJECT.json` lists each component with its status, and every hazard at the line
where it bites.

## 2. Modules

| Module | Stands for | Built on |
|---|---|---|
| `HubStream` | the promise about the attached stream | — |
| `StreamConnection` | the connection inside ModelQueue, the channel, and the Electron messages that fill it | implements `HubStream` |
| `CommentIngest` | the life of a comment from the scraper to stores and database | extends `StreamConnection` |
| `CommentIngestProofs` | theorems about it and about `StreamConnection` | `CommentIngest` |
| `ChatSession` | the chat windows and the reconnect timer of the Electron process | — |
| `ChatSessionProofs` | theorems about it | `ChatSession` |
| `TtsQueue` | speech queue, its worker and its users | — |
| `TtsHealth` | health cells, probes and pollers | — |
| `SpeechProofs` | theorems about both | `TtsQueue`, `TtsHealth` |
| `AppShutdown` | one life of the Electron process, from the start of the core to its exit | — |
| `AppShutdownProofs` | theorems about it | `AppShutdown` |
| `ResetMigration` | a reset across restarts, and the data migrations | — |
| `ResetMigrationProofs` | theorems about it | `ResetMigration` |
| `TemplateList` | the hub's template stream and the comment list of a page | — |
| `TemplateListProofs` | theorems about it | `TemplateList` |
| `OverlayEffects` | the performance engine, its stream, the page and its plugins | — |
| `OverlayEffectsProofs` | theorems about it | `OverlayEffects` |
| `RuntimeFeed` | hub, shared memory, broadcast channel, subscriber and main window | — |
| `RuntimeFeedProofs` | theorems about it | `RuntimeFeed` |
| `MC*` | instances for TLC | the module they name |

### StreamConnection
`inbox` is the channel, and `HandleConnectionStateChanged`,
`HandleAnnounceStreamOwner` and `HandleSetOwnerChannels` are the three handlers,
each with the push of the derived flag that ends it (`push_connection_status`).
The senders are the Electron process: `ConnectChat` sends the disconnect and the
preliminary `(false, video)` message in one go, `ScraperStatus` is a message of a
window, which names *its own* video and may come after a later `ConnectChat`, and
`OwnerResolved`/`OwnerFetchFailed` end a fetch of a watch page, which nothing
cancels. Ids are values: the optional `yt-` prefix is dropped by both sides of the
comparison. A reload of the channels after a restore is left out.

### CommentIngest
A comment is its id, with its author and the video it was posted on. `aux` and
`preparing` are `comment_aux_queue` and its worker, which handles one batch at a
time; the handler treats the comments of a batch one after the other and the
worker writes them back one by one, so every batch here holds one comment.
`HandleIncomingComment` is the whole of `handle_incoming_comments` for one comment:
stamp with the current video, annotate the listener, look for a duplicate, then
refresh or store, count, queue the record and broadcast, in the code's order.
`seenIds` is the parser's thread-local memory, one set per worker thread of tokio.
`history` is a record for the properties: what was broadcast and greeted.
Amounts, reactions, effects and the text of comments are left out.

### ChatSession
The four global variables, the life of every window, and one action per handler.
A window asked to close is `closing` until its `closed` event, an action of its
own: Electron emits it on a later turn of the event loop. `ClosedHandler` works on
whatever the variables then hold, as the code does.

### TtsQueue
Two program counters: `hub` is ModelQueue inside a handler, `worker` is
`run_tts_queue`. A step is what no other task can split: one atomic, one section
under the mutex, one await. The queue is a set of jobs with their places in line (`placed`
numbers them); `Candidates` are the jobs the worker may take, which while paused are the
notifications only, and `Takeable` is the first of them. `permit` is the permit stored in the `Notify`
(`notify_one` stores one, `notify_waiters` does not). Bouyomi-chan's stop commands
are left out: an utterance is a child process that can be killed once it exists.
The filters of comments are a choice. `SetTtsEnabled` has no caller in the
repository (the ON/OFF switch sends `SetTtsSettings`), so it has no action.

### TtsHealth
`health` holds the two status cells; `tasks` are checks in flight
(`refresh_health`, and `check_provider` called from the settings screen), `poller`
is the recovery task of a provider together with its flag. Each probe is three
steps: write `checking`, ask, write the verdict. `up` is the provider outside.

### AppShutdown
`port`, `core`, `zombieTried` and `retries` are `coreBridge.start` with its `onError`:
the first EADDRINUSE probes the owner of the port (`attemptZombieRecovery`), later
ones are retried after 1.5 s until `MaxRetries`. `CoreReady` opens the main window and
arms the startup import. `CloseHandler` is the whole of `mainWindow.on('close')`, with
its four early ways out in the code's order; what it starts goes on in steps, one per
timer or await (`QueryDirty`, `CleanAnswer`, `DirtyAnswer`, `Settled`, `ExportEnds`,
`ExportShown`). `asked` is a `mainWindow.close()` whose `close` event has not been
emitted yet. `Shutdown` is `shutdownApp` for its first caller; for later callers
`shuttingDown` makes it return at once, and they go straight to `app.quit` or
`app.exit` (`ShutdownOrExit`). `QueryDirty` answers "clean" when the core is gone,
because `isListenerDbDirty` (core-bridge.js:732) resolves to `dirty: false` and the
`.catch` of main.js:880 never runs. Of the other windows two stand for all: the
manual, whose presence keeps `closed` from shutting down, and the ponout window,
which nobody waits for.

### ResetMigration
The disk is the reset marker, whether each area still holds the user's content, the
recorded version, the legacy keys and app-config.json. `pc` is where the one
synchronous thread of the process is; `Crash` ends it anywhere. A crash in a step that
writes a file leaves it torn, and the code reads a torn marker as a reset of
everything and a torn app-config.json as `{}`. The step of `migrateRustOwnedLegacySettings`
is split at its writes: each key leaves the store as it is taken (`TakeKey`), and the
file is written at the end (`WriteTaken`). A locked file is skipped by the reset. A step of
a migration that cannot read, copy or write a file throws (`MigrationFails`): `run` catches
it, the process lives on, and the next start tries that version again. A write of
app-config.json that fails or is cut leaves the file as it was, or unreadable (`Left`).
The settings that are lost in this way are recorded, those of a process that ended in `cut`
and those of one that lives on in `unwritten`. A marker of another data directory is left out.

### TemplateList
The hub's side is the replay store, the broadcaster and the three awaits of
`template_sse_inner` (`Request`, `Recent`, `Subscribe`): what is broadcast before
`Subscribe` does not reach the page. The page's side is `createRenderlessListController`
with the flex layout: `phase` holds the entries, `ordered` is `orderedIds`, and
`rendering`, `activation`, `arming`, `removing`, `pushedOut` are pending frames and
timers, each of which fires as an action of its own. `Upsert` keeps phase and place
of an entry that exists and only clears its `removeTimer`, as the code does; new ones join
`ordered` in the order they came (`InOrderOf`). `Flush` pushes out the `Overflow` oldest.

### OverlayEffects
One scene. An effect is its number and its kind. `Served` is `process_queue` (gifts
first), `Unexpired` the loop of `expire_active_effects` (any number of the oldest have
run out), `Emit` the push of what has fired. On the page `Execute` is
`Renderer.execute` with the `show` of the effect's plugin, and every plugin's
`processQueue` is a `...Next` operator from the state its caller has brought it to. The
geometry of bubbles is reduced to `Room`, any answer: there may be none beside others, and
none on an empty page either, for a bubble wider than what margins and the centre exclusion
leave of it (sprout.js:33-79). `unfit` remembers the bubbles that wait for the second
reason. The animation frames that a hidden page does not run are timers here.

### RuntimeFeed
A comment is named by its cursor, its place in `pushed`. `NewComment` and
`AnnounceComment` are the two ends of the handler of a new comment: pushed and published
first, broadcast last. `push_connection_status` has them the other way round
(`PushConnectionStatus`, then `PublishConnection`). `Take` is the `recv` of
`subscribe_runtime_events`, the `Deliver...` actions are `runtime_events_from_sse`, and the hub
may move between them: both run on one multi-threaded runtime. A publication and a
read are each one step, which the gate of a buffer gives. What a bank's byte arena holds is
any suffix of the timeline with at least `MinFit` entries (`BankStarts`). The renderer
keeps the order of the subscriber and is in the same step. A redelivered comment rewrites
its entry in place and is not broadcast, so it is no action; neither are deletions of
comments that were not received, which remove nothing. `Broadcast` is tokio's channel: full,
it drops the oldest, and the receiver goes on (`lagged` remembers it).

## 3. What is checked

Every run with `Spec` explores all interleavings; `MaxTurns`, `MaxUser`, `MaxOps`,
`MaxFaults`, `MaxPushes`, `MaxResets`, `MaxCrashes`, `MaxLocked`, `MaxSent`, `MaxUpsets`,
`MaxFires`, `MaxPauses` and the `MAX_` bounds of `RuntimeFeed` bound only the environment, that is how often users,
windows, files and providers act, never how often the program itself moves (`MaxInbox`
makes senders wait, which loses no order of messages). Deadlock checking is off:
when the environment has used up its turns and the program is idle, the system
really has nothing to do.

| Run | Properties | What it shows |
|---|---|---|
| stream_connection | TypeOK, OwnerMatchesVideo, ImplementsHub | two videos of two channels and five messages: the owner is right; the detailed module implements `HubStream` |
| ingest | IngestTypeOK, OncePerStream, ReplayAgreesWithTimeline, FirstTimeOnce | two comments of one listener, three deliveries, stores that hold one comment, two streams of the user's with a stray window of the first |
| chat_session | TypeOK, QuietAfterDisconnect, ChatWindowIsLive, SessionHeals | two user steps, two faults, two streams |
| tts_health | HealthTypeOK, CheckingMeansProbing, PollerRecovers | two providers, two checks in flight, both pollers, four outside steps |
| tts_queue | TypeOK, NoLostWakeup, CountNotInflated, JobsServed | two comments, one with a notification, two commands |
| app_shutdown | ShutdownTypeOK, SyncNotCutByClose, ExportedBeforeStop, AppSettles | a port of any kind, two retries, three openings or connects, every way out at any moment |
| reset_migration | ResetTypeOK, OnlyAskedIsLost, BegunResetIsFinished, SettingsKept, MigrationsFinish | two scenes, two resets, two ends of the process, two files that are locked or cannot be written, from every stored version |
| template_list | ListTypeOK, CardsAccounted, ListInOrder, CardsRest | a list of two cards, three comments, any deletions, and one second delivery, break or switch of visibility |
| feed | FeedTypeOK, DeliveredInOrder, NoLossWithoutLag, DeletedNotShown, CaughtUpAtRest | four comments, deletions, a change of stream, a reaction, a ring of three and a channel of one |
| overlay_effects | EffectsTypeOK, ExclusiveAlone, QueuesAwake, GiftsKept | three effects of any of five kinds, queues of two, two pauses or resumes, one clear or break |

Why the bounds are enough. A wrong owner takes two videos, one announcement and
one message in between. A duplicate that the store no longer holds takes a store
of one and a second comment, hence capacities of 1 and three pushes: the code has
1000 and 2000, and compares lengths with capacities only. `MaxSeenIds = 1` lets
the parser's memory be emptied within a run. A reconnect needs at most two windows
per step (`NoReconnectStorm`), so nine windows are never what stops one. A lost
wake-up takes one look, one enqueue or resume, and one wait. A stuck status takes
two probes of one provider. The retries of the bind differ only in number, so two of
the code's five are enough to meet success, a second failure and the limit. An
interrupted reset needs one crash, one that is interrupted again two. A list of two
cards overflows with the third comment; that comment meets deletions, which are not
bounded, and one upset. Two upsets at once (a second delivery *and* a break) are not
covered by the run: they take ten times the states, and a break ends in a reload, which
forgets what the first upset did to the page. An effect that waits takes a limit
of two and a third trigger; the limits of the code (1000 in the plugins, and those of
the engine) are only compared with lengths. In `RuntimeFeed` a message is overwritten
with the second one behind a taken one, and the ring drops entries from the fourth comment
on. Its assumption `ChanCap + 2 <= MinFit` is the code's sizing: 256 messages against
1000 entries in a megabyte; what it rules out is proved and not only explored.

### Properties worth explaining
* `OncePerStream` relates the broadcasts and the live counter to the ids seen; it fails
  as soon as a redelivery counts, the duplicate check forgets an id, or a change of
  stream leaves one of the three behind.
* `ReplayAgreesWithTimeline` relates two stores with different limits that are
  both refreshed by redeliveries.
* `ExportedBeforeStop` speaks of the ends through windows only: quit from the tray,
  signals, the reset and a second instance go past the export by the code's choice.
* `AppSettles` has two halves: the start reaches a window or the fatal dialog, and a
  click on the close button ends the process unless another window is kept open.
* `BegunResetIsFinished` and `OnlyAskedIsLost` relate files to the user's wishes across
  lives of the process; both are about the order marker, removal, end of marker.
* `CardsRest` relies on a stream that ends: `MaxSent` comments, and no reconnect after
  the bound. While comments keep coming, each activation may be armed anew.
* `QueuesAwake` is the safety half of liveness: whatever waits has a pending event that
  will look at it. It is proved (section 5); the step from there to "is shown" needs
  only that timers fire and animations end. It excepts the queue of bubbles while one of
  those in it found no room on an empty page: `spawn` only queues that one, no display is
  left whose end would look again, and it waits for the next bubble that is shown or the
  next resume (`NoBubbleSleeps`, section 4).
* `SettingsKept` has two exceptions for losses, each for exactly the settings concerned: an
  end of the process (`cut`), and a migration that throws (`unwritten`), in both cases
  between the deletion of a key from the store and the end of the write of
  app-config.json, or halfway through that write. Between the steps, through any number of
  starts, repeated migrations and resets, no setting is lost. That a failure alone loses
  nothing is refuted (`FailureLosesNothing`, section 4).
* `NoLossWithoutLag` and `CaughtUpAtRest` are about reads that skip: one read takes
  the comments of several notices, and the later notices must find nothing new. A lag is
  an exception because the code only logs it; the next comment then reads what the
  bank still has.
* `ChatWindowIsLive` looks like a typing fact and is the hard one of `ChatSession`: the
  `closed` handler of any window empties `chatWindow`, and no handler may leave a window
  there that is dead or belongs to the stream before.
* Definitions that also hold on the instance of their module's run and are not part of
  it: `IsOwnStreamFresh` and `PendingIsForAnotherVideo` (proved, and what the refinement
  rests on), `EngineServes` and
  `ListenerMemoryScoped`, `CursorsNeverReused` and `NoReconnectStorm` (proved). The last bounds windows by causes: the code does open a second
  window after a switch, since the closed event of the first schedules a reconnect (see
  4), and it ends there.
* `NoLostWakeup` holds because every path that makes a job playable stores a permit,
  and the paths that use `notify_waiters` only remove jobs.

### Fairness
* `ChatSession`: the timer, the load of a page, the injection timeout and the close
  of a window asked to close each happen in the end: JavaScript timers and Electron
  events. The user and the faults owe nothing.
* `TtsQueue`: ModelQueue runs its handler to its end, and tokio polls a worker that
  is ready; every utterance ends (requests fail or answer, players are waited for).
* `TtsHealth`: every probe ends and every sleeping poller wakes. `PollerRecovers` is
  conditional: while a provider answers, is selected, and no check is in flight, a
  poller that watches it restores it.
* `AppShutdown`: timers fire, windows asked to close do, the core answers, and an export
  is given up after 30 s without progress (main.js). The user owes nothing, and a
  kept window is an exception of the property.
* `ResetMigration`: the user starts the application again, and each life goes on. Crashes,
  locks and failing writes are bounded, or nothing would ever finish.
* `TemplateList`: the hub answers, messages arrive, and the browser runs its frames and
  timers.
* `StreamConnection`, `CommentIngest`, `OverlayEffects` and `RuntimeFeed` state safety only
  and assume no fairness.

## 4. Where the code differs from what it says

Two runs each check one sentence of the code's comments, tests or labels and find it
violated; `PROJECT.json` quotes the sentence.

| Run | What happens |
|---|---|
| resumed_gift_shows | the gifts that waited are pushed before the resume is, and a page that is still paused drops those of ScreenOverlay |
| hidden_never_shown | of several comments read at once only the last keeps its author; those of a hidden listener are then shown |

The modules state more such sentences, as definitions that are no property of a run.
TLC refutes each on the constants of its module's passing run (`DeletionForwarded` with
`Threads = {t1, t2}`):

| Definition | The sentence | What happens |
|---|---|---|
| `NoCrossStream` (CommentIngest) | model_queue.rs:433 | a comment of the old stream prepared after a switch is stored under the new stream's id |
| `StreamCountExact` (CommentIngest) | state/comment.rs:108 | the listener's count is raised before the duplicate check, so redeliveries count |
| `DeletionForwarded` (CommentIngest) | model_queue/realtime_handlers.rs:142 | the parser's memory is per thread, the task may be polled by any thread of the runtime (napi_bridge.rs:63), and a deletion of an id the other thread knows is dropped |
| `ConnectionShown` (RuntimeFeed) | state/connection.rs:26, napi_bridge.rs:625 | the notice of a connection is sent before the connection is published (model_queue.rs:358); a subscriber that reads in between shows the old one, and nothing tells it again |
| `ClearedStaysCleared` (OverlayEffects) | ponout.html:34 | a clear empties the page, not the queues of its plugins: what waited is shown afterwards |
| `UnreachableIsWatched` (TtsHealth) | tts.rs:698 | a check from the settings screen marks a provider unreachable and starts no poller |
| `PauseSticks` (TtsQueue) | performance_handlers.rs:322 | the next live comment undoes the user's pause |
| `SilentAfterClear` (TtsQueue) | performance_handlers.rs:251 | a comment past the last generation check but without a player yet is spoken after OFF or Clear |
| `ReconnectOnlyIfUnexpected` (ChatSession) | main.js:2036 | a switch closes the old window on request; its event then forgets the new window and schedules a reconnect |
| `ExitAfterStop` (AppShutdown) | main.js:4184 | a second way out during a shutdown does not wait for `coreBridge.stop` and ends the process |
| `ResetKeepsTheRest` (ResetMigration) | main.js:442 | a marker that was cut while written is read as a reset of everything |
| `MascotMigrated` (ResetMigration) | migration.js:67 | a scene whose config.json was written and whose frames were not is skipped for ever |
| `FailureLosesNothing` (ResetMigration) | migration.js:229-238 | a failed migration is to be tried again at the next start, but it has deleted the legacy keys (279, 289, 299) before it writes them (303): what the write does not bring to disk is in neither file |
| `NoBubbleSleeps` (OverlayEffects) | sprout.js:972 | "no room: put into the queue and wait": on an empty page nothing will look at the queue, until another bubble ends or the user resumes |
| `NoLostCard` (TemplateList) | runtime.js:628 | a comment that comes again while its card is leaving keeps the entry and loses its removal: the card stays, outside the list |
| `DeletionReachesPage` (TemplateList) | docs/template-authoring-guide.md:360 | a deletion between the answer of the replay and the subscription never reaches the page |

More that the models do and no sentence of the code decides: a deletion
that overtakes its comment, or comes before a later delivery of it, is forgotten
(`CanonicalCommentStore` remembers no deletions); a comment still in the aux queue
when the user disconnects is stored without a live id; the poller's flag is
released after its loop has ended, and a failure marked in between starts no new
poller; a late failure of a provider the user has left empties the queue of the new
one; a query of the database that fails counts as "nothing to export"; a page that
loads anew while the engine is paused is not told of it; the counter of live effects
may fall below zero after a clear.

`DeletionForwarded` needs two threads; with one, the parser is right. That the
`closed` event comes on a later turn is Electron's behaviour and is assumed.

## 5. What is proved

Every module of section 2 that models code has its theorems in one module of proofs, where
two parts that are extended together (connection and ingest, speech queue and provider
health) share one. Every invariant a run checks is a theorem, without the bounds of the run:
the constants that are left are only assumed to be what the module's `ASSUME` says.

`CommentIngestProofs`, first part, proves of the connection, for any sets of videos and
channels, any ownership and any bounds (only `StreamAssumption` is used):

* `StreamInvariant`: `Spec => []StreamInv`.
* `StreamTypeCorrect`, `OwnerIsRight`: the two invariants of the run; `OwnFlagIsFresh` and
  `PendingIsElsewhere`: the two more that the refinement needs.
* `StreamImplementsHub`: `Spec => ImplementsHub`, that is `HubStream` under the mapping
  video ← connection.videoId, owner ← connection.owner, own ← configured, isOwn ←
  connection.isOwn.

`OwnerMatchesVideo` is not inductive by itself: an announcement waiting in the
channel could name a wrong owner. `StreamInv` adds `AnnouncementsTrue` (every waiting
announcement names the owner of its video). It is carried through `Append` and
`Tail` by `AppendTruthful` and `TailTruthful`; `SendKeepsInv` then covers every
action of the Electron side at once, and one lemma covers each of the three
handlers. The refinement needs `OwnerMatchesVideo` and `PendingIsForAnotherVideo`
to map a handler to `Attach`, `Learn`, `Declare` or a stutter.

The lemmas speak of a channel that may hold comments as well (`HubTypeOK`), so they serve the
composition: `OwnerIsRightInIngest` and `IngestImplementsHub` prove the same promise of
`IngestSpec`, where comments and deletions travel between the messages of the connection
(`PipeKeepsStreamInv` covers all that is not the connection's).

`AppShutdownProofs` (only `ShutdownAssumption` is used): `ShutdownInvariant`,
`ShutdownTypeCorrect`, `ImportIsNotCut`, `NothingUnexported`. The two safety properties
speak of the end, so they are not inductive: the invariant adds that a shutdown by windows
has lost its main window (`ByWindowIsClosed`), that a window that closes was let go by the
export (`ClosedIsDone`), that the export begins only after the import (`ExportAfterSync`),
and that once it is done nothing is dirty but what came late, what failed, and what a core
that had been told to stop would not say (`ExportIsComplete`).

`ResetMigrationProofs` (`ResetAssumption`): `ResetInvariant`, `ResetTypeCorrect`,
`NothingElseIsLost`, `ResetIsCarriedThrough`, `NoSettingIsLost`. The invariant says for every
place of the process what marker, areas and files may be: while a reset is under
way its marker is there and says what is removed (`ResetFollowsMarker`); what a marker
will take was asked for and is covered by a snapshot or a warning (`MarkerIsCovered`);
what a reset has begun to remove is gone, or still ahead of it or of the next start
(`BegunIsAhead`); and the settings that have left the store are in the hands of the
migration, which holds the whole file (`KeysInHand`). `LeftFacts` says what a write that is
cut or fails leaves of app-config.json; what it does not leave is what `Crash` and
`MigrationFails` record as lost.

`OverlayEffectsProofs` (`EffectsAssumption`): `EffectsInvariant`, `EffectsTypeCorrect`,
`EngineAlwaysServes`, `ExclusiveNeverOverlap`, `NoWakeUpIsLost`, `GiftsAreKept`. The
invariant is a conjunction of one part for the hub (types, bounds, what `Served` leaves)
and one per plugin, so that an action of one plugin leaves the parts of the others alone.
Its types are tighter than `EffectsTypeOK`: whatever waits, shows or travels has been
triggered (`Seen`), which is what gives each of them a kind. `EngineServes`,
`ExclusiveAlone` and `QueuesAwake` are then inductive with these types, because every
handler that ends a display, or ends a pause, serves the queue it could wake; a bubble that
is queued again either stands beside another, whose end will wake it, or is recorded in
`unfit`. What the
sequences of the engine hold after `Enqueue`, `Served` and `SubSeq` is stated in lemmas.
`GiftsKept` is inductive on top of these: a gift is followed by sets (`Ids` of the stream,
`Elements` of a queue, `OnPage`), each handler moves it from one to the next in one step,
and what it drops it takes out of `held`.

`RuntimeFeedProofs` (the three assumptions of `RuntimeFeed`): `FeedInvariant`,
`FeedTypeCorrect`, `CommentsInOrder`, `NothingPassedOver`, `ViewIsTheState`,
`DeletedStaysAway`. The order follows from the cursor alone. That nothing is passed over
has to relate four lengths: `BankHolds` says that the bank reaches back to the change of
stream or holds `MinFit` entries, and `QueueInStep` with `MessageOnTheWay` that, while
nothing has been overwritten, the oldest notice of a comment is at most a channel and a
hand behind what has been announced. `SizesAssumption` then makes the bank the longer of
the two. `ViewIsTheState` needs one part more: a total of reactions that the window does
not show yet is on the way to it (`ReactionOnTheWay`). `DeletedStaysAway` too: a deletion
is only as good as the list it meets, so a deleted comment that has not been read must
have its deletion in the channel *behind* the notice that will make the window read it
(`DeletionBehindNotice`).

`ChatSessionProofs` (`SessionAssumption`): `SessionInvariant`, `SessionTypeCorrect`,
`DisconnectIsQuiet`, `CurrentWindowLives`, `ReconnectsAreCaused`. The invariant is the
conjunction of the three properties: each needs the others, since the closed handler of
*any* window empties `chatWindow` and may set the timer. So each case is about a window
that need not be the current one. `NoReconnectStorm` is a matter of counting: a closing
window owes one more window, a timer one and another if it replaces a window, and what is
opened and owed together never exceeds two for each step of the user and each fault
(`OwedIsPaid`).

`SpeechProofs` (`QueueAssumption`, `HealthAssumption`): of the queue `QueueInvariant`,
`QueueTypeCorrect`, `NoWakeupIsLost`, `CounterIsCovered`. `NoLostWakeup` speaks of a hub
at rest and a worker that sleeps; `SleepsRightly` says what holds before: a worker that
saw the pause and has no permit is still paused when it looks, and one that parks has
missed nothing unless the hub is about to notify. That the first job exists whenever there
is one to take comes from the well-foundedness of the places. `CountCovered` follows the
counter through the steps between: it may run ahead by the job the hub has counted and not
queued (`Counted`), and by the one the worker has taken and not counted (`Uncounted`),
which has to be fresh, and `QueueIsFresh` says that all queued jobs are but during a
clear.

Of the provider checks: `HealthTypeCorrect`, `CheckingIsSomebodysProbe`.
`CheckingMeansProbing` is inductive once it is known that a check in flight is one of an
external provider: each step that ends a probe writes its verdict in the same step, and
writes of another probe or of the worker never write "checking".

`TemplateListProofs` (`ListAssumption`): `ListInvariant`, `ListTypeCorrect`,
`NoCardLeftOver`, `ListKeepsOrder`. That the page is in order rests on the hub's order,
the replay and what is on its way, so the invariant follows a comment from the hub to the
page: the hub keeps it once (`HubOnce`), replay and messages hold no comment twice
(`ReplyOnce`, `WireOnce`), nothing reaches a page that has not subscribed, and until the
hub has forgotten its comments whatever is on its way is newer than everything the page
has, message by message (`WireInOrder`). `PageApart` keeps the list and the cards pushed
out of it apart. The lemmas on sequences say what a thinned, a joined and a filtered
sequence keep of order and uniqueness.

`CommentIngestProofs` (`StreamAssumption`, `IngestAssumption`): `IngestInvariant`,
`IngestTypeCorrect`, `BroadcastOncePerStream`, `StoresAgree`, `GreetedOnce`,
`ListenersOfThisStream`. Lemmas say what `Upsert`, `DeleteId`, `PushTimeline` and
`UpdateTimeline` leave in a sequence: within the capacity, no id twice, and every element
the new comment or an old one of another id. `AgreementKept` needs no more than that of
both stores. `ReplayAgreesWithTimeline` carries the inclusion in `seen`, without which a new
comment could meet itself in a store. `FirstTimeOnce` is not inductive: `GreetedAreSeen`
adds that a greeted listener is remembered for the session. Every step outside
ModelQueue is covered by `OutsideKeepsInv`. `CursorsAreFresh` proves an action property,
`CursorsNeverReused`, which no run checks: each step of the ingest either leaves the cursors
where they are, drops some, or gives the new comment one that was never used.

Only model-checked: the liveness properties `SessionHeals`, `PollerRecovers`, `JobsServed`,
`AppSettles`, `MigrationsFinish` and `CardsRest` (the prover does not handle fairness or
ENABLED); and the two refuted sentences of section 4, which have no proof to be had. No
module has recursive definitions, and induction over data is not used.

## 6. What is not modelled, and why

* Shared memory beyond the three buffers of the feed: the byte layouts of two banks
  behind one gate per buffer (a mutex and a condition variable). `RuntimeFeed` assumes what
  the gate gives, that a reader sees one whole publication.
* Scenes, presets and templates on disk: edits of one user. The one interleaving, an
  edit between a queued task and its writeback, is a hazard without a property.
* Backup and restore, OneComme synchronisation, the listener database beyond what
  ingest needs: copies of files and SQL statements. The import at the start and the
  export at the end are steps of `AppShutdown`.
* Parsing of pages and of InnerTube responses beyond ids, texts and amounts, HTTP routes,
  image and font caches, logging: no state the properties could tell apart.
* The user interface beyond the live feed of the main window: views that ask the hub and
  redraw. Their buttons are the user's steps in the modules.
* Effect plugins that draw and forget, the treasure animation, card effects, the rigid
  scroll layout and the ticker starter of the template runtime: geometry and drawing.
* Within the modelled parts: a listener whose classification fails (model_queue.rs:926-932:
  the comment goes on without annotation, hence ungreeted), superchat amounts, demo comments, deletions by
  author (their marker removes nothing from the replay store), cooldowns of effects,
  Bouyomi-chan's stop commands, the polling of stream metadata, pages of the event
  stream that lag behind the broadcast channel (the application's own subscriber does).

## 7. Running

    tlc -workers 2 -config MCStreamConnection.cfg MCStreamConnection
    tlapm CommentIngestProofs.tla

and likewise for the other configurations.
