------------------------------- MODULE TtsQueue -------------------------------
(***************************************************************************)
(* The speech queue: comments to read and notifications to play share one    *)
(* queue, filled by ModelQueue and emptied by the worker task run_tts_queue.  *)
(* Between them lie a mutex, a generation number that Clear and OFF bump, a   *)
(* counter for the screen, and a tokio Notify.                              *)
(*                                                                         *)
(* Each of the two tasks is a program counter over the steps between which   *)
(* the other may run. What TtsHealth models in full is one set here, the      *)
(* providers believed unreachable, which its probes may change at any time.  *)
(* The VecDeque is the set of its jobs, each with its place in the line.      *)
(* Bouyomi-chan's stop commands are not modelled: an utterance is a child     *)
(* process, as for VOICEVOX and the built-in voice.                          *)
(***************************************************************************)
EXTENDS Integers, FiniteSets

CONSTANTS
    Comments,   \* comments to read, each arriving at most once
    Notifying,  \* those that also raise a notification
    Providers,  \* external speech providers
    Builtin,    \* the built-in voice
    MaxOps      \* bound: commands of the user in a behaviour

ASSUME QueueAssumption ==
    /\ Notifying \subseteq Comments
    /\ Builtin \notin Providers
    /\ MaxOps \in Nat

VARIABLES
    enabled, provider,    \* CURRENT_TTS_SETTINGS
    paused,               \* TTS_PAUSED
    muted,                \* notifications are off or paused
    unreachable,          \* external providers whose health is Unreachable
    queue, count, generation, speaking,  \* TtsRuntime
    placed,               \* places given so far in the queue
    permit,               \* TtsRuntime.notify holds a stored permit
    hub,                  \* where ModelQueue is in its handler, and its job
    worker,               \* where run_tts_queue is, and its job
    arrived,              \* comments that came in so far
    ops,                  \* user commands so far (bounded by MaxOps)
    userPaused            \* what the user last asked for; read by a property only

settingVars == <<enabled, provider, paused, muted, userPaused>>
runtimeVars == <<queue, placed, count, generation, speaking>>
vars == <<settingVars, unreachable, runtimeVars, permit, hub, worker, arrived, ops>>

Voices == Providers \cup {Builtin}
Kinds == {"comment", "notice"}
Job == [kind : Kinds, id : Comments, gen : Nat, place : Nat]
NoJob == [kind |-> "none"]

HubPc == {"idle", "push", "notify", "notice", "clear", "kill", "publish"}
WorkerPc == {"look", "take", "park", "wait", "gen", "count", "drop", "ready",
             "check", "start", "play", "done", "purge", "zero", "finish"}
Results == {"none", "ok", "provider", "device"}

IsNotice(j) == j.kind = "notice"
Fresh(j) == j.gen = generation
NewJob(kind, c) == [kind |-> kind, id |-> c, gen |-> generation, place |-> placed + 1]

Init ==
    /\ enabled \in BOOLEAN /\ provider \in Voices
    /\ paused = FALSE /\ muted = FALSE /\ userPaused = FALSE
    /\ unreachable = {}
    /\ queue = {} /\ placed = 0 /\ count = 0 /\ generation = 0 /\ speaking = FALSE
    /\ permit = FALSE
    /\ hub = [pc |-> "idle", job |-> NoJob, off |-> FALSE, voice |-> Builtin]
    /\ worker = [pc |-> "look", job |-> NoJob, sawPaused |-> FALSE,
                 voice |-> Builtin, result |-> "none"]
    /\ arrived = {}
    /\ ops = 0

-----------------------------------------------------------------------------
(* ModelQueue.                                                              *)

\* notify_waiters wakes a worker that waits, and stores no permit.
Woken == IF worker.pc = "wait" THEN [worker EXCEPT !.pc = "look"] ELSE worker

Idle == hub.pc = "idle"
Op == Idle /\ ops < MaxOps /\ ops' = ops + 1

\* set_paused: a resume wakes the worker.
StorePaused(b) ==
    /\ paused' = b
    /\ permit' = IF b THEN permit ELSE TRUE

\* After the comment itself comes its notification, if notifications are on.
AfterComment(c) ==
    IF c \in Notifying /\ ~muted
    THEN [hub EXCEPT !.pc = "notice", !.job = NewJob("notice", c)]
    ELSE [hub EXCEPT !.pc = "idle", !.job = NoJob]

\* handle_incoming_comments, a new live comment: set_paused with the "paused" of
\* the saved settings, which is never stored there, then enqueue_comment, which
\* skips it while reading is off, the provider is unreachable or a filter of the
\* settings excludes it.
CommentArrives(c) ==
    /\ Idle
    /\ c \notin arrived
    /\ arrived' = arrived \cup {c}
    /\ StorePaused(FALSE)
    /\ \/ /\ enabled /\ provider \notin unreachable
          /\ count' = count + 1
          /\ hub' = [hub EXCEPT !.pc = "push", !.job = NewJob("comment", c)]
       \/ /\ hub' = AfterComment(c)
          /\ UNCHANGED count
    /\ UNCHANGED <<enabled, provider, muted, userPaused, unreachable, queue, placed, generation,
                   speaking, worker, ops>>

HubPush ==
    /\ hub.pc = "push"
    /\ queue' = queue \cup {hub.job}
    /\ placed' = placed + 1
    /\ hub' = [hub EXCEPT !.pc = "notify"]
    /\ UNCHANGED <<settingVars, unreachable, count, generation, speaking, permit, worker,
                   arrived, ops>>

\* Mutant: notify_waiters instead of notify_one: no permit is stored.
HubNotifyWaiters ==
    /\ hub.pc = "notify"
    /\ worker' = Woken
    /\ hub' = IF IsNotice(hub.job) THEN [hub EXCEPT !.pc = "idle", !.job = NoJob]
              ELSE AfterComment(hub.job.id)
    /\ UNCHANGED <<settingVars, unreachable, runtimeVars, permit, arrived, ops>>

HubNotify ==
    /\ hub.pc = "notify"
    /\ permit' = TRUE
    /\ hub' = IF IsNotice(hub.job) THEN [hub EXCEPT !.pc = "idle", !.job = NoJob]
              ELSE AfterComment(hub.job.id)
    /\ UNCHANGED <<settingVars, unreachable, runtimeVars, worker, arrived, ops>>

\* enqueue_notification: no look at the provider's health.
HubNotice ==
    /\ hub.pc = "notice"
    /\ count' = count + 1
    /\ hub' = [hub EXCEPT !.pc = "push"]
    /\ UNCHANGED <<settingVars, unreachable, queue, placed, generation, speaking, permit, worker,
                   arrived, ops>>

\* SetTtsPaused.
UserPauses(b) ==
    /\ Op
    /\ StorePaused(b)
    /\ userPaused' = b
    /\ UNCHANGED <<enabled, provider, muted, unreachable, runtimeVars, hub, worker, arrived>>

\* SetTtsSettings, also what the ON/OFF switch sends: pausing is undone first. With
\* reading on the settings are published and the queue is left alone, whatever the
\* provider; with reading off the queue is cleared before they are published.
UserSaves(on, p) ==
    /\ Op
    /\ StorePaused(FALSE)
    /\ userPaused' = FALSE
    /\ \/ /\ on
          /\ enabled' = TRUE /\ provider' = p
          /\ UNCHANGED <<generation, hub>>
       \/ /\ ~on
          /\ generation' = generation + 1
          /\ hub' = [hub EXCEPT !.pc = "clear", !.off = TRUE, !.voice = p]
          /\ UNCHANGED <<enabled, provider>>
    /\ UNCHANGED <<muted, unreachable, queue, placed, count, speaking, worker, arrived>>

\* ClearTts: clear_pending bumps the generation ...
UserClears ==
    /\ Op
    /\ generation' = generation + 1
    /\ hub' = [hub EXCEPT !.pc = "clear", !.off = FALSE]
    /\ UNCHANGED <<settingVars, unreachable, queue, placed, count, speaking, permit, worker, arrived>>

\* ... empties the queue ...
HubClear ==
    /\ hub.pc = "clear"
    /\ queue' = {} /\ count' = 0 /\ speaking' = FALSE
    /\ worker' = Woken
    /\ hub' = [hub EXCEPT !.pc = "kill"]
    /\ UNCHANGED <<settingVars, unreachable, placed, generation, permit, arrived, ops>>

\* ... and kills the speaking process, if there is one yet.
HubKill ==
    /\ hub.pc = "kill"
    /\ worker' = IF worker.pc = "play" THEN [worker EXCEPT !.pc = "done", !.result = "device"]
                 ELSE worker
    /\ hub' = [hub EXCEPT !.pc = IF hub.off THEN "publish" ELSE "idle"]
    /\ UNCHANGED <<settingVars, unreachable, runtimeVars, permit, arrived, ops>>

\* SetTtsSettings with reading off publishes the settings last.
HubPublish ==
    /\ hub.pc = "publish"
    /\ enabled' = FALSE /\ provider' = hub.voice
    /\ hub' = [hub EXCEPT !.pc = "idle"]
    /\ UNCHANGED <<paused, muted, userPaused, unreachable, runtimeVars, permit, worker,
                   arrived, ops>>

\* SetNotificationPaused(true), SetNotificationEnabled(false):
\* clear_pending_notifications, under the lock.
UserMutes ==
    /\ Op
    /\ muted' = TRUE
    /\ queue' = {j \in queue : ~IsNotice(j)}
    /\ count' = Cardinality(queue')
    /\ worker' = Woken
    /\ UNCHANGED <<enabled, provider, paused, userPaused, unreachable, placed, generation,
                   speaking, permit, hub, arrived>>

UserUnmutes ==
    /\ Op
    /\ muted' = FALSE
    /\ UNCHANGED <<enabled, provider, paused, userPaused, unreachable, runtimeVars, permit, hub,
                   worker, arrived>>

\* A probe of TtsHealth changes a verdict.
ProbeVerdict(p) ==
    /\ ops < MaxOps /\ ops' = ops + 1
    /\ unreachable' = IF p \in unreachable THEN unreachable \ {p} ELSE unreachable \cup {p}
    /\ UNCHANGED <<settingVars, runtimeVars, permit, hub, worker, arrived>>

-----------------------------------------------------------------------------
(* run_tts_queue.                                                           *)

At(pc) == worker.pc = pc
Go(pc) == [worker EXCEPT !.pc = pc]

WorkerLooks ==
    /\ At("look")
    /\ worker' = [worker EXCEPT !.pc = "take", !.sawPaused = paused, !.job = NoJob,
                                !.result = "none"]
    /\ UNCHANGED <<settingVars, unreachable, runtimeVars, permit, hub, arrived, ops>>

\* While paused only notifications are taken.
Candidates == {j \in queue : worker.sawPaused => IsNotice(j)}

\* Mutant: while paused only the head is looked at.
TakeableHead == {j \in Candidates : \A k \in queue : j.place =< k.place}

\* The first of them.
Takeable == {j \in Candidates : \A k \in Candidates : j.place =< k.place}

WorkerTakes ==
    /\ At("take")
    /\ \/ \E j \in Takeable :
             /\ worker' = [worker EXCEPT !.pc = "gen", !.job = j]
             /\ queue' = queue \ {j}
       \/ Takeable = {} /\ worker' = Go("park") /\ UNCHANGED queue
    /\ UNCHANGED <<settingVars, unreachable, placed, count, generation, speaking, permit, hub, arrived, ops>>

\* notified().await: returns at once on a stored permit, else waits for one.
WorkerParks ==
    /\ At("park") /\ ~permit
    /\ worker' = Go("wait")
    /\ UNCHANGED <<settingVars, unreachable, runtimeVars, permit, hub, arrived, ops>>

WorkerWakes ==
    /\ worker.pc \in {"park", "wait"} /\ permit
    /\ permit' = FALSE
    /\ worker' = Go("look")
    /\ UNCHANGED <<settingVars, unreachable, runtimeVars, hub, arrived, ops>>

\* A stale comment is skipped without counting it down (Clear reset the count);
\* a stale notification is counted down and skipped.
WorkerChecksGeneration ==
    /\ At("gen")
    /\ worker' = Go(IF Fresh(worker.job) THEN "count"
                    ELSE IF IsNotice(worker.job) THEN "drop" ELSE "look")
    /\ UNCHANGED <<settingVars, unreachable, runtimeVars, permit, hub, arrived, ops>>

\* decrement_queue_count saturates at zero.
\* Mutant: the notification worker forgets to count down.
WorkerCountsComments ==
    /\ worker.pc \in {"count", "drop"}
    /\ count' = IF count = 0 \/ IsNotice(worker.job) THEN count ELSE count - 1
    /\ worker' = Go(IF At("count") THEN "ready" ELSE "look")
    /\ UNCHANGED <<settingVars, unreachable, queue, placed, generation, speaking, permit, hub, arrived, ops>>

\* Mutant: the count is subtracted from without saturating.
WorkerCountsBelowZero ==
    /\ worker.pc \in {"count", "drop"}
    /\ count' = count - 1
    /\ worker' = Go(IF At("count") THEN "ready" ELSE "look")
    /\ UNCHANGED <<settingVars, unreachable, queue, placed, generation, speaking, permit, hub, arrived, ops>>

WorkerCounts ==
    /\ worker.pc \in {"count", "drop"}
    /\ count' = IF count = 0 THEN 0 ELSE count - 1
    /\ worker' = Go(IF At("count") THEN "ready" ELSE "look")
    /\ UNCHANGED <<settingVars, unreachable, queue, placed, generation, speaking, permit, hub, arrived, ops>>

\* The settings of this moment decide: off, filtered or empty text ends the job.
WorkerPrepares ==
    /\ At("ready")
    /\ \/ /\ worker' = Go("look")
          /\ UNCHANGED speaking
       \/ /\ ~IsNotice(worker.job) /\ enabled
          /\ worker' = [worker EXCEPT !.pc = "check", !.voice = provider]
          /\ speaking' = TRUE
       \/ /\ IsNotice(worker.job)
          /\ \E v \in Voices : worker' = [worker EXCEPT !.pc = "start", !.voice = v]
          /\ speaking' = TRUE
    /\ UNCHANGED <<settingVars, unreachable, queue, placed, count, generation, permit, hub, arrived, ops>>

\* Mutant: a stale job ends the task (return in place of continue).
WorkerChecksAgainReturns ==
    /\ At("check") /\ Fresh(worker.job)
    /\ worker' = Go("start")
    /\ UNCHANGED <<settingVars, unreachable, runtimeVars, permit, hub, arrived, ops>>

\* The last look at the generation before speaking.
WorkerChecksAgain ==
    /\ At("check")
    /\ IF Fresh(worker.job) THEN worker' = Go("start") /\ UNCHANGED speaking
       ELSE worker' = Go("look") /\ speaking' = FALSE
    /\ UNCHANGED <<settingVars, unreachable, queue, placed, count, generation, permit, hub, arrived, ops>>

\* Synthesis: an external provider may fail; otherwise the player starts.
WorkerStarts ==
    /\ At("start")
    /\ \/ worker' = Go("play")
       \/ worker.voice \in Providers /\ worker' = [worker EXCEPT !.pc = "done", !.result = "provider"]
    /\ UNCHANGED <<settingVars, unreachable, runtimeVars, permit, hub, arrived, ops>>

WorkerEnds ==
    /\ At("play")
    /\ \E r \in {"ok", "device"} : worker' = [worker EXCEPT !.pc = "done", !.result = r]
    /\ UNCHANGED <<settingVars, unreachable, runtimeVars, permit, hub, arrived, ops>>

\* A comment's provider failure marks the provider, unless the user cleared
\* meanwhile; a success clears the mark; notifications report nothing.
WorkerJudges ==
    /\ At("done")
    /\ IF IsNotice(worker.job) THEN worker' = Go("finish") /\ UNCHANGED unreachable
       ELSE \/ /\ worker.result = "provider" /\ Fresh(worker.job)
               /\ \/ unreachable' = unreachable \cup {worker.voice} /\ worker' = Go("purge")
                  \/ worker.voice \in unreachable /\ worker' = Go("finish") /\ UNCHANGED unreachable
            \/ /\ worker.result = "provider" /\ ~Fresh(worker.job)
               /\ worker' = Go("finish") /\ UNCHANGED unreachable
            \/ /\ worker.result # "provider"
               /\ unreachable' = IF worker.result = "ok" THEN unreachable \ {worker.voice}
                                 ELSE unreachable
               /\ worker' = Go("finish")
    /\ UNCHANGED <<settingVars, runtimeVars, permit, hub, arrived, ops>>

\* mark_provider_unreachable empties the queue, then zeroes the count.
WorkerPurges ==
    /\ At("purge")
    /\ queue' = {}
    /\ worker' = Go("zero")
    /\ UNCHANGED <<settingVars, unreachable, placed, count, generation, speaking, permit, hub, arrived, ops>>

WorkerZeroes ==
    /\ At("zero")
    /\ count' = 0
    /\ worker' = Go("finish")
    /\ UNCHANGED <<settingVars, unreachable, queue, placed, generation, speaking, permit, hub, arrived, ops>>

WorkerFinishes ==
    /\ At("finish")
    /\ speaking' = FALSE
    /\ worker' = Go("look")
    /\ UNCHANGED <<settingVars, unreachable, queue, placed, count, generation, permit, hub, arrived, ops>>

-----------------------------------------------------------------------------
HubStep == HubPush \/ HubNotify \/ HubNotice \/ HubClear \/ HubKill \/ HubPublish

User ==
    \/ \E b \in BOOLEAN : UserPauses(b)
    \/ \E on \in BOOLEAN, p \in Voices : UserSaves(on, p)
    \/ UserClears \/ UserMutes \/ UserUnmutes

WorkerStep ==
    \/ WorkerLooks \/ WorkerTakes \/ WorkerParks \/ WorkerWakes
    \/ WorkerChecksGeneration \/ WorkerCounts \/ WorkerPrepares \/ WorkerChecksAgain
    \/ WorkerStarts \/ WorkerEnds \/ WorkerJudges \/ WorkerPurges \/ WorkerZeroes
    \/ WorkerFinishes

Next ==
    \/ \E c \in Comments : CommentArrives(c)
    \/ HubStep \/ User \/ WorkerStep
    \/ \E p \in Providers : ProbeVerdict(p)

Spec == Init /\ [][Next]_vars

\* Handlers run to their end, the worker task is polled whenever it is ready,
\* and every utterance ends (requests, processes and pollings have an end).
FairSpec == Spec /\ WF_vars(HubStep) /\ WF_vars(WorkerStep)

-----------------------------------------------------------------------------
(* Every variable holds a value of its type. *)
TypeOK ==
    /\ enabled \in BOOLEAN /\ paused \in BOOLEAN /\ muted \in BOOLEAN
    /\ provider \in Voices
    /\ unreachable \subseteq Providers
    /\ queue \subseteq Job /\ placed \in Nat
    /\ count \in Nat /\ generation \in 0..MaxOps
    /\ speaking \in BOOLEAN /\ permit \in BOOLEAN
    /\ hub.pc \in HubPc /\ hub.job \in Job \cup {NoJob} /\ hub.off \in BOOLEAN
    /\ hub.voice \in Voices
    /\ worker.pc \in WorkerPc /\ worker.job \in Job \cup {NoJob}
    /\ worker.voice \in Voices /\ worker.result \in Results

Servable == \E j \in queue : ~paused \/ IsNotice(j)

(* No lost wake-up: when ModelQueue has finished its handler, a worker that     *)
(* sleeps with no wake-up on its way has nothing it could play, whatever mix of  *)
(* enqueues, pauses, resumes, clears and mutes came between its look at the     *)
(* queue and its wait.                                                        *)
NoLostWakeup ==
    Idle /\ worker.pc \in {"park", "wait"} /\ ~permit => ~Servable

(* The screen never shows waiting comments that do not exist: between handlers   *)
(* the counter is at most what is queued, plus the job the worker has taken and  *)
(* not counted yet.                                                           *)
CountNotInflated ==
    Idle /\ ~At("zero") =>
        count =< Cardinality(queue) + (IF worker.pc \in {"gen", "count", "drop"} THEN 1 ELSE 0)

Queued(kind, c) == \E j \in queue : j.kind = kind /\ j.id = c

(* A queued comment is taken or discarded, unless reading is paused; a queued    *)
(* notification is taken or discarded even while comments are paused.           *)
JobsServed ==
    /\ \A c \in Comments : Queued("comment", c) ~> (~Queued("comment", c) \/ paused)
    /\ \A c \in Notifying : Queued("notice", c) ~> ~Queued("notice", c)

-----------------------------------------------------------------------------
(* What the code's comments say, and the code does not keep.                 *)

(* A pause lasts for the session: only the user (or a restart) ends it.        *)
PauseSticks == userPaused => paused

(* OFF and Clear kill what is being spoken: once the handler is over, no        *)
(* comment queued before it is heard.                                         *)
SilentAfterClear ==
    Idle /\ At("play") /\ ~IsNotice(worker.job) => Fresh(worker.job)
=============================================================================
