---------------------------- MODULE SpeechProofs -----------------------------
(***************************************************************************)
(* What the two modules of the speech service guarantee for any comments,    *)
(* providers, user and number of checks. TtsQueue: the worker never sleeps   *)
(* on a job it could play, and the counter of the screen never shows more    *)
(* than there is, although neither is changed under the lock of the queue.   *)
(* TtsHealth: a status of "checking" is always somebody's probe.             *)
(***************************************************************************)
EXTENDS TtsQueue, TtsHealth, FiniteSetTheorems, WellFoundedInduction, TLAPS

\* The two program counters as records, and what they hold.
HubRecord == [pc : HubPc, job : Job \cup {NoJob}, off : BOOLEAN, voice : Voices]
WorkerRecord == [pc : WorkerPc, job : Job \cup {NoJob}, sawPaused : BOOLEAN,
                 voice : Voices, result : Results]

Flags ==
    /\ enabled \in BOOLEAN /\ paused \in BOOLEAN /\ muted \in BOOLEAN
    /\ speaking \in BOOLEAN /\ permit \in BOOLEAN
Numbers ==
    /\ placed \in Nat /\ count \in Nat
    /\ ops \in 0..MaxOps /\ generation \in 0..ops
TaskRecords ==
    /\ hub \in HubRecord /\ worker \in WorkerRecord
    /\ queue \subseteq Job /\ IsFiniteSet(queue)
    /\ hub.pc \in {"push", "notify", "notice"} => hub.job \in Job
Verdicts ==
    /\ provider \in Voices /\ unreachable \subseteq Providers
    /\ worker.pc = "done" /\ worker.result = "provider" => worker.voice \in Providers

\* Only while ModelQueue is clearing does the queue hold jobs of an older
\* generation; the job it is about to queue is of the present one.
QueueIsFresh ==
    /\ hub.pc # "clear" => \A j \in queue : Fresh(j)
    /\ hub.pc \in {"push", "notice"} => Fresh(hub.job)

\* The line grows at its end: the job ModelQueue holds is not in it yet.
LineGrows ==
    /\ \A j \in queue : j.place =< placed
    /\ hub.pc \in {"push", "notice"} => hub.job.place = placed + 1

\* The job the worker has taken and will count down, and the one ModelQueue has
\* counted and not queued.
Uncounted ==
    IF \/ worker.pc \in {"count", "drop"}
       \/ worker.pc = "gen" /\ (Fresh(worker.job) \/ IsNotice(worker.job))
    THEN 1 ELSE 0
Counted == IF hub.pc = "push" THEN 1 ELSE 0

CountCovered ==
    hub.pc # "clear" /\ worker.pc # "zero" => count =< Cardinality(queue) + Uncounted + Counted

\* A worker that goes to sleep, or is about to look, has not missed a resume; one
\* that sleeps has missed no job unless its wake-up is the next step.
SleepsRightly ==
    /\ worker.pc = "take" /\ worker.sawPaused /\ ~permit => paused
    /\ worker.pc \in {"park", "wait"} /\ ~permit /\ hub.pc # "notify" => ~Servable

\* The inductive invariant.
IInv ==
    /\ Flags /\ Numbers /\ TaskRecords /\ Verdicts
    /\ QueueIsFresh /\ LineGrows /\ CountCovered /\ SleepsRightly

-----------------------------------------------------------------------------
(* A nonempty line has a first job among those the worker may take.          *)
LEMMA FirstExists ==
    ASSUME TaskRecords, Candidates # {}
    PROVE  Takeable # {}
<1> DEFINE places == {j.place : j \in Candidates}
<1>1. places \subseteq Nat /\ places # {}
  BY DEF TaskRecords, Candidates, Job
<1>2. PICK x \in places : \A y \in places : ~(<<y, x>> \in OpToRel(<, Nat))
  BY <1>1, NatLessThanWellFounded, WFMin
<1>3. \A y \in places : x =< y
  <2>1. ASSUME NEW y \in places, y < x PROVE FALSE
    <3>1. <<y, x>> \in OpToRel(<, Nat)
      BY <1>1, <2>1 DEF OpToRel
    <3> QED BY <1>2, <3>1
  <2>2. ASSUME NEW y \in places PROVE x =< y
    <3>1. x \in Nat /\ y \in Nat
      BY <1>1, <2>2
    <3>2. ~(y < x)
      BY <2>1, <2>2
    <3> QED BY <3>1, <3>2
  <2> QED BY <2>2
<1>4. PICK j \in Candidates : j.place = x
  BY <1>2
<1>5. j \in Takeable
  BY <1>3, <1>4 DEF Takeable
<1> QED BY <1>5

-----------------------------------------------------------------------------
(* Each record after a step that moves one of the two tasks.                 *)
LEMMA WorkerMoves ==
    ASSUME worker \in WorkerRecord, NEW p \in WorkerPc, worker' = [worker EXCEPT !.pc = p]
    PROVE  /\ worker' \in WorkerRecord /\ worker'.pc = p /\ worker'.job = worker.job
           /\ worker'.sawPaused = worker.sawPaused
           /\ worker'.voice = worker.voice /\ worker'.result = worker.result
BY DEF WorkerRecord

LEMMA HubMoves ==
    ASSUME hub \in HubRecord, NEW p \in HubPc, hub' = [hub EXCEPT !.pc = p]
    PROVE  /\ hub' \in HubRecord /\ hub'.pc = p /\ hub'.job = hub.job
BY DEF HubRecord

LEMMA HubTakesJob ==
    ASSUME hub \in HubRecord, NEW p \in HubPc, NEW j \in Job \cup {NoJob},
           hub' = [hub EXCEPT !.pc = p, !.job = j]
    PROVE  /\ hub' \in HubRecord /\ hub'.pc = p /\ hub'.job = j
BY DEF HubRecord

LEMMA WorkerWoken ==
    ASSUME worker \in WorkerRecord, worker' = Woken
    PROVE  /\ worker' \in WorkerRecord
           /\ worker'.pc = IF worker.pc = "wait" THEN "look" ELSE worker.pc
           /\ worker'.job = worker.job /\ worker'.sawPaused = worker.sawPaused
           /\ worker'.voice = worker.voice /\ worker'.result = worker.result
<1>1. CASE worker.pc = "wait"
  <2>1. worker' = [worker EXCEPT !.pc = "look"] /\ "look" \in WorkerPc
    BY <1>1 DEF Woken, WorkerPc
  <2> QED BY <1>1, <2>1, WorkerMoves
<1>2. CASE worker.pc # "wait"
  BY <1>2 DEF Woken
<1> QED BY <1>1, <1>2

\* What AfterComment makes of ModelQueue: a notification to queue, or the end.
LEMMA AfterCommentHub ==
    ASSUME TaskRecords, Numbers, NEW c \in Comments, hub' = AfterComment(c)
    PROVE  /\ hub' \in HubRecord
           /\ \/ hub'.pc = "idle"
              \/ hub'.pc = "notice" /\ hub'.job = NewJob("notice", c) /\ hub'.job \in Job
<1>1. NewJob("notice", c) \in Job
  BY DEF NewJob, Job, Kinds, Numbers
<1>2. CASE hub' = [hub EXCEPT !.pc = "notice", !.job = NewJob("notice", c)]
  BY <1>1, <1>2, HubTakesJob DEF TaskRecords, HubPc
<1>3. CASE hub' = [hub EXCEPT !.pc = "idle", !.job = NoJob]
  BY <1>3, HubTakesJob DEF TaskRecords, HubPc
<1> QED BY <1>2, <1>3 DEF AfterComment

-----------------------------------------------------------------------------
(* ModelQueue.                                                              *)

LEMMA HubPushInv == ASSUME IInv, HubPush PROVE IInv'
<1>1. hub' \in HubRecord /\ hub'.pc = "notify" /\ hub'.job = hub.job
  BY HubMoves DEF HubPush, IInv, TaskRecords, HubPc
<1>2. hub.job \in Job /\ hub.job.place = placed + 1 /\ Fresh(hub.job)
  BY DEF HubPush, IInv, TaskRecords, LineGrows, QueueIsFresh
<1>3. hub.job \notin queue
  BY <1>2 DEF IInv, LineGrows, Numbers, TaskRecords, Job
<1>4. IsFiniteSet(queue') /\ Cardinality(queue') = Cardinality(queue) + 1
  BY <1>3, FS_AddElement DEF HubPush, IInv, TaskRecords
<1>5. Flags'
  BY DEF HubPush, IInv, Flags, settingVars
<1>6. Numbers'
  BY DEF HubPush, IInv, Numbers
<1>7. TaskRecords'
  BY <1>1, <1>2, <1>4 DEF HubPush, IInv, TaskRecords
<1>8. Verdicts'
  BY DEF HubPush, IInv, Verdicts, settingVars
<1>9. QueueIsFresh'
  BY <1>1, <1>2 DEF HubPush, IInv, QueueIsFresh, Fresh
<1>10. LineGrows'
  BY <1>1, <1>2 DEF HubPush, IInv, LineGrows, Numbers, TaskRecords, Job
<1>11. CountCovered'
  BY <1>1, <1>4, FS_CardinalityType DEF HubPush, IInv, CountCovered, Numbers, Uncounted, Counted, Fresh, TaskRecords
<1>12. SleepsRightly'
  BY <1>1 DEF HubPush, IInv, SleepsRightly, settingVars
<1> QED BY <1>5, <1>6, <1>7, <1>8, <1>9, <1>10, <1>11, <1>12 DEF IInv

LEMMA HubNotifyInv == ASSUME IInv, HubNotify PROVE IInv'
<1>1. hub.job \in Job /\ hub.job.id \in Comments
  BY DEF HubNotify, IInv, TaskRecords, Job
<1>2. /\ hub' \in HubRecord
      /\ \/ hub'.pc = "idle"
         \/ hub'.pc = "notice" /\ hub'.job = NewJob("notice", hub.job.id) /\ hub'.job \in Job
  <2>1. CASE hub' = [hub EXCEPT !.pc = "idle", !.job = NoJob]
    BY <2>1, HubTakesJob DEF IInv, TaskRecords, HubPc
  <2>2. CASE hub' = AfterComment(hub.job.id)
    BY <1>1, <2>2, AfterCommentHub DEF IInv
  <2> QED BY <2>1, <2>2 DEF HubNotify
<1>3. hub.pc = "notify" /\ permit' = TRUE
      /\ UNCHANGED <<settingVars, unreachable, runtimeVars, worker, ops>>
  BY DEF HubNotify
<1>4. Flags'
  BY <1>3, Zenon DEF IInv, Flags, settingVars, runtimeVars
<1>5. Numbers' /\ TaskRecords' /\ Verdicts'
  BY <1>2, <1>3 DEF IInv, Numbers, TaskRecords, Verdicts, settingVars, runtimeVars
<1>6. QueueIsFresh' /\ LineGrows'
  BY <1>2, <1>3 DEF IInv, QueueIsFresh, LineGrows, Fresh, NewJob, runtimeVars
<1>7. CountCovered'
  BY <1>2, <1>3 DEF IInv, CountCovered, Uncounted, Counted, Fresh, runtimeVars
<1>8. SleepsRightly'
  BY <1>3 DEF IInv, SleepsRightly
<1> QED BY <1>4, <1>5, <1>6, <1>7, <1>8 DEF IInv

LEMMA HubNoticeInv == ASSUME IInv, HubNotice PROVE IInv'
<1>1. hub' \in HubRecord /\ hub'.pc = "push" /\ hub'.job = hub.job /\ hub.job \in Job
  BY HubMoves DEF HubNotice, IInv, TaskRecords, HubPc
<1>2. hub.pc = "notice" /\ count' = count + 1
      /\ UNCHANGED <<settingVars, unreachable, queue, placed, generation, speaking, permit, worker, ops>>
  BY DEF HubNotice
<1>3. Flags'
  BY <1>2 DEF IInv, Flags, settingVars
<1>4. Numbers' /\ TaskRecords' /\ Verdicts'
  BY <1>1, <1>2 DEF IInv, Numbers, TaskRecords, Verdicts, settingVars
<1>5. QueueIsFresh' /\ LineGrows'
  BY <1>1, <1>2 DEF IInv, QueueIsFresh, LineGrows, Fresh
<1>6. CountCovered'
  BY <1>1, <1>2, FS_CardinalityType
    DEF IInv, CountCovered, Uncounted, Counted, Fresh, Numbers, TaskRecords
<1>7. SleepsRightly'
  BY <1>1, <1>2 DEF IInv, SleepsRightly, Servable, settingVars
<1> QED BY <1>3, <1>4, <1>5, <1>6, <1>7 DEF IInv

LEMMA CommentArrivesInv ==
    ASSUME IInv, NEW c \in Comments, CommentArrives(c) PROVE IInv'
<1>1. /\ hub.pc = "idle" /\ paused' = FALSE /\ permit' = TRUE
      /\ UNCHANGED <<enabled, provider, muted, unreachable, queue, placed, generation,
                     speaking, worker, ops>>
  BY DEF CommentArrives, Idle, StorePaused
<1>2. NewJob("comment", c) \in Job
  BY DEF NewJob, Job, Kinds, IInv, Numbers
<1>3. Flags'
  BY <1>1, Zenon DEF IInv, Flags
<1>4. SleepsRightly'
  BY <1>1 DEF SleepsRightly
<1>5. CASE /\ count' = count + 1
           /\ hub' = [hub EXCEPT !.pc = "push", !.job = NewJob("comment", c)]
  <2>1. hub' \in HubRecord /\ hub'.pc = "push" /\ hub'.job = NewJob("comment", c)
    BY <1>2, <1>5, HubTakesJob DEF IInv, TaskRecords, HubPc
  <2>2. Numbers' /\ TaskRecords' /\ Verdicts'
    BY <1>1, <1>2, <1>5, <2>1 DEF IInv, Numbers, TaskRecords, Verdicts
  <2>3. QueueIsFresh' /\ LineGrows'
    BY <1>1, <2>1 DEF IInv, QueueIsFresh, LineGrows, Fresh, NewJob
  <2>4. CountCovered'
    BY <1>1, <1>5, <2>1, FS_CardinalityType
      DEF IInv, CountCovered, Uncounted, Counted, Fresh, Numbers, TaskRecords
  <2> QED BY <1>3, <1>4, <2>2, <2>3, <2>4 DEF IInv
<1>6. CASE hub' = AfterComment(c) /\ UNCHANGED count
  <2>1. /\ hub' \in HubRecord
        /\ \/ hub'.pc = "idle"
           \/ hub'.pc = "notice" /\ hub'.job = NewJob("notice", c) /\ hub'.job \in Job
    BY <1>6, AfterCommentHub DEF IInv
  <2>2. Numbers' /\ TaskRecords' /\ Verdicts'
    BY <1>1, <1>6, <2>1 DEF IInv, Numbers, TaskRecords, Verdicts
  <2>3. QueueIsFresh' /\ LineGrows'
    BY <1>1, <2>1 DEF IInv, QueueIsFresh, LineGrows, Fresh, NewJob
  <2>4. CountCovered'
    BY <1>1, <1>6, <2>1 DEF IInv, CountCovered, Uncounted, Counted, Fresh
  <2> QED BY <1>3, <1>4, <2>2, <2>3, <2>4 DEF IInv
<1> QED BY <1>5, <1>6 DEF CommentArrives

LEMMA HubClearInv == ASSUME IInv, HubClear PROVE IInv'
<1>1. hub' \in HubRecord /\ hub'.pc = "kill" /\ hub'.job = hub.job
  BY HubMoves DEF HubClear, IInv, TaskRecords, HubPc
<1>2. /\ queue' = {} /\ count' = 0 /\ speaking' = FALSE /\ worker' = Woken
      /\ UNCHANGED <<settingVars, unreachable, placed, generation, permit, ops>>
  BY DEF HubClear
<1>3. /\ worker' \in WorkerRecord
      /\ worker'.pc = IF worker.pc = "wait" THEN "look" ELSE worker.pc
      /\ worker'.sawPaused = worker.sawPaused
      /\ worker'.voice = worker.voice /\ worker'.result = worker.result
  BY <1>2, WorkerWoken DEF IInv, TaskRecords
<1>4. IsFiniteSet(queue') /\ Cardinality(queue') = 0
  BY <1>2, FS_EmptySet
<1>5. Flags'
  BY <1>2, Zenon DEF IInv, Flags, settingVars
<1>6. Numbers' /\ TaskRecords' /\ Verdicts'
  BY <1>1, <1>2, <1>3, <1>4 DEF IInv, Numbers, TaskRecords, Verdicts, settingVars
<1>7. QueueIsFresh' /\ LineGrows'
  BY <1>1, <1>2 DEF QueueIsFresh, LineGrows
<1>8. CountCovered'
  BY <1>1, <1>2, <1>4 DEF CountCovered, Uncounted, Counted
<1>9. SleepsRightly'
  BY <1>2, <1>3 DEF IInv, SleepsRightly, Servable, settingVars
<1> QED BY <1>5, <1>6, <1>7, <1>8, <1>9 DEF IInv

LEMMA HubKillInv == ASSUME IInv, HubKill PROVE IInv'
<1>1. hub' \in HubRecord /\ hub'.pc \in {"publish", "idle"}
  BY HubMoves DEF HubKill, IInv, TaskRecords, HubPc
<1>2. /\ worker' \in WorkerRecord /\ worker'.job = worker.job
      /\ \/ worker' = worker
         \/ worker.pc = "play" /\ worker'.pc = "done" /\ worker'.result = "device"
  BY DEF HubKill, IInv, TaskRecords, WorkerRecord, WorkerPc, Results
<1>3. hub.pc = "kill" /\ UNCHANGED <<settingVars, unreachable, runtimeVars, permit, ops>>
  BY DEF HubKill
<1>4. Flags'
  BY <1>3 DEF IInv, Flags, settingVars, runtimeVars
<1>5. Numbers' /\ TaskRecords' /\ Verdicts'
  BY <1>1, <1>2, <1>3 DEF IInv, Numbers, TaskRecords, Verdicts, settingVars, runtimeVars
<1>6. QueueIsFresh' /\ LineGrows'
  BY <1>1, <1>3 DEF IInv, QueueIsFresh, LineGrows, Fresh, runtimeVars
<1>7. CountCovered'
  BY <1>1, <1>2, <1>3 DEF IInv, CountCovered, Uncounted, Counted, Fresh, runtimeVars
<1>8. SleepsRightly'
  BY <1>2, <1>3 DEF IInv, SleepsRightly, Servable, settingVars, runtimeVars
<1> QED BY <1>4, <1>5, <1>6, <1>7, <1>8 DEF IInv

LEMMA HubPublishInv == ASSUME IInv, HubPublish PROVE IInv'
<1>1. hub' \in HubRecord /\ hub'.pc = "idle" /\ hub.voice \in Voices
  BY HubMoves DEF HubPublish, IInv, TaskRecords, HubPc, HubRecord
<1>2. /\ hub.pc = "publish" /\ enabled' = FALSE /\ provider' = hub.voice
      /\ UNCHANGED <<paused, muted, unreachable, runtimeVars, permit, worker, ops>>
  BY DEF HubPublish
<1>3. Flags'
  BY <1>2, Zenon DEF IInv, Flags, runtimeVars
<1>4. Numbers' /\ TaskRecords' /\ Verdicts'
  BY <1>1, <1>2 DEF IInv, Numbers, TaskRecords, Verdicts, runtimeVars
<1>5. QueueIsFresh' /\ LineGrows'
  BY <1>1, <1>2 DEF IInv, QueueIsFresh, LineGrows, Fresh, runtimeVars
<1>6. CountCovered'
  BY <1>1, <1>2 DEF IInv, CountCovered, Uncounted, Counted, Fresh, runtimeVars
<1>7. SleepsRightly'
  BY <1>2 DEF IInv, SleepsRightly, Servable, runtimeVars
<1> QED BY <1>3, <1>4, <1>5, <1>6, <1>7 DEF IInv

-----------------------------------------------------------------------------
(* The user, and the probes.                                                *)

LEMMA UserPausesInv == ASSUME IInv, NEW b \in BOOLEAN, UserPauses(b) PROVE IInv'
<1>1. /\ hub.pc = "idle" /\ ops < MaxOps /\ ops' = ops + 1
      /\ paused' = b /\ (permit' = IF b THEN permit ELSE TRUE)
      /\ UNCHANGED <<enabled, provider, muted, unreachable, runtimeVars, hub, worker>>
  BY DEF UserPauses, Op, Idle, StorePaused
<1>2. Flags'
  BY <1>1, Zenon DEF IInv, Flags, runtimeVars
<1>3. Numbers' /\ TaskRecords' /\ Verdicts'
  BY <1>1, QueueAssumption DEF IInv, Numbers, TaskRecords, Verdicts, runtimeVars
<1>4. QueueIsFresh' /\ LineGrows' /\ CountCovered'
  BY <1>1 DEF IInv, QueueIsFresh, LineGrows, CountCovered, Uncounted, Counted, Fresh, runtimeVars
<1>5. SleepsRightly'
  <2>1. CASE b
    BY <1>1, <2>1 DEF IInv, SleepsRightly, Servable, runtimeVars
  <2>2. CASE ~b
    BY <1>1, <2>2 DEF SleepsRightly
  <2> QED BY <2>1, <2>2
<1> QED BY <1>2, <1>3, <1>4, <1>5 DEF IInv

LEMMA UserSavesInv ==
    ASSUME IInv, NEW on \in BOOLEAN, NEW p \in Voices, UserSaves(on, p) PROVE IInv'
<1>1. /\ hub.pc = "idle" /\ ops < MaxOps /\ ops' = ops + 1
      /\ paused' = FALSE /\ permit' = TRUE
      /\ UNCHANGED <<muted, unreachable, queue, placed, count, speaking, worker>>
  BY DEF UserSaves, Op, Idle, StorePaused
<1>2. SleepsRightly'
  BY <1>1 DEF SleepsRightly
<1>3. CASE enabled' = TRUE /\ provider' = p /\ UNCHANGED <<generation, hub>>
  <2>1. Flags'
    BY <1>1, <1>3, Zenon DEF IInv, Flags
  <2>2. Numbers' /\ TaskRecords' /\ Verdicts'
    BY QueueAssumption, <1>1, <1>3 DEF IInv, Numbers, TaskRecords, Verdicts
  <2>3. QueueIsFresh' /\ LineGrows' /\ CountCovered'
    BY <1>1, <1>3 DEF IInv, QueueIsFresh, LineGrows, CountCovered, Uncounted, Counted, Fresh
  <2> QED BY <1>2, <2>1, <2>2, <2>3 DEF IInv
<1>4. CASE /\ generation' = generation + 1 /\ UNCHANGED <<enabled, provider>>
           /\ hub' = [hub EXCEPT !.pc = "clear", !.off = TRUE, !.voice = p]
  <2>1. hub' \in HubRecord /\ hub'.pc = "clear"
    BY <1>4 DEF IInv, TaskRecords, HubRecord, HubPc
  <2>2. Flags'
    BY <1>1, <1>4, Zenon DEF IInv, Flags
  <2>3. Numbers' /\ TaskRecords' /\ Verdicts'
    BY QueueAssumption, <1>1, <1>4, <2>1 DEF IInv, Numbers, TaskRecords, Verdicts
  <2>4. QueueIsFresh' /\ LineGrows' /\ CountCovered'
    BY <1>1, <2>1 DEF IInv, QueueIsFresh, LineGrows, CountCovered
  <2> QED BY <1>2, <2>2, <2>3, <2>4 DEF IInv
<1> QED BY <1>3, <1>4 DEF UserSaves

LEMMA UserClearsInv == ASSUME IInv, UserClears PROVE IInv'
<1>1. /\ hub.pc = "idle" /\ ops < MaxOps /\ ops' = ops + 1 /\ generation' = generation + 1
      /\ UNCHANGED <<settingVars, unreachable, queue, placed, count, speaking, permit, worker>>
  BY DEF UserClears, Op, Idle
<1>2. hub' \in HubRecord /\ hub'.pc = "clear"
  BY DEF UserClears, IInv, TaskRecords, HubRecord, HubPc
<1>3. Flags'
  BY <1>1 DEF IInv, Flags, settingVars
<1>4. Numbers' /\ TaskRecords' /\ Verdicts'
  BY QueueAssumption, <1>1, <1>2 DEF IInv, Numbers, TaskRecords, Verdicts, settingVars
<1>5. QueueIsFresh' /\ LineGrows' /\ CountCovered'
  BY <1>1, <1>2 DEF IInv, QueueIsFresh, LineGrows, CountCovered
<1>6. SleepsRightly'
  BY <1>1, <1>2 DEF IInv, SleepsRightly, Servable, settingVars
<1> QED BY <1>3, <1>4, <1>5, <1>6 DEF IInv

LEMMA UserMutesInv == ASSUME IInv, UserMutes PROVE IInv'
<1>1. /\ hub.pc = "idle" /\ ops < MaxOps /\ ops' = ops + 1 /\ muted' = TRUE
      /\ queue' \subseteq queue /\ count' = Cardinality(queue') /\ worker' = Woken
      /\ UNCHANGED <<enabled, provider, paused, unreachable, placed, generation, speaking,
                     permit, hub>>
  BY DEF UserMutes, Op, Idle
<1>2. /\ worker' \in WorkerRecord /\ worker'.job = worker.job
      /\ worker'.pc = IF worker.pc = "wait" THEN "look" ELSE worker.pc
      /\ worker'.sawPaused = worker.sawPaused
      /\ worker'.voice = worker.voice /\ worker'.result = worker.result
  BY <1>1, WorkerWoken DEF IInv, TaskRecords
<1>3. IsFiniteSet(queue') /\ Cardinality(queue') \in Nat
  BY <1>1, FS_Subset, FS_CardinalityType DEF IInv, TaskRecords
<1>4. Flags'
  BY <1>1, Zenon DEF IInv, Flags
<1>5. Numbers' /\ TaskRecords' /\ Verdicts'
  BY QueueAssumption, <1>1, <1>2, <1>3 DEF IInv, Numbers, TaskRecords, Verdicts
<1>6. QueueIsFresh' /\ LineGrows'
  BY <1>1 DEF IInv, QueueIsFresh, LineGrows, Fresh
<1>7. CountCovered'
  BY <1>1, <1>3 DEF CountCovered, Uncounted, Counted
<1>8. SleepsRightly'
  BY <1>1, <1>2 DEF IInv, SleepsRightly, Servable
<1> QED BY <1>4, <1>5, <1>6, <1>7, <1>8 DEF IInv

LEMMA UserUnmutesInv == ASSUME IInv, UserUnmutes PROVE IInv'
<1>1. /\ ops < MaxOps /\ ops' = ops + 1 /\ muted' = FALSE
      /\ UNCHANGED <<enabled, provider, paused, unreachable, runtimeVars, permit, hub, worker>>
  BY DEF UserUnmutes, Op
<1>2. Flags'
  BY <1>1, Zenon DEF IInv, Flags, runtimeVars
<1>3. Numbers' /\ TaskRecords' /\ Verdicts'
  BY QueueAssumption, <1>1 DEF IInv, Numbers, TaskRecords, Verdicts, runtimeVars
<1>4. QueueIsFresh' /\ LineGrows' /\ CountCovered'
  BY <1>1 DEF IInv, QueueIsFresh, LineGrows, CountCovered, Uncounted, Counted, Fresh, runtimeVars
<1>5. SleepsRightly'
  BY <1>1 DEF IInv, SleepsRightly, Servable, runtimeVars
<1> QED BY <1>2, <1>3, <1>4, <1>5 DEF IInv

LEMMA ProbeVerdictInv == ASSUME IInv, NEW p \in Providers, ProbeVerdict(p) PROVE IInv'
<1>1. /\ ops < MaxOps /\ ops' = ops + 1
      /\ unreachable' \subseteq unreachable \cup {p}
      /\ UNCHANGED <<settingVars, runtimeVars, permit, hub, worker>>
  BY DEF ProbeVerdict
<1>2. Flags'
  BY <1>1 DEF IInv, Flags, settingVars, runtimeVars
<1>3. Numbers' /\ TaskRecords' /\ Verdicts'
  BY QueueAssumption, <1>1 DEF IInv, Numbers, TaskRecords, Verdicts, settingVars, runtimeVars
<1>4. QueueIsFresh' /\ LineGrows' /\ CountCovered'
  BY <1>1 DEF IInv, QueueIsFresh, LineGrows, CountCovered, Uncounted, Counted, Fresh, runtimeVars
<1>5. SleepsRightly'
  BY <1>1 DEF IInv, SleepsRightly, Servable, settingVars, runtimeVars
<1> QED BY <1>2, <1>3, <1>4, <1>5 DEF IInv

-----------------------------------------------------------------------------
(* The worker.                                                              *)

\* A step that moves the worker on and leaves the queue alone.
LEMMA WorkerMovesOn ==
    ASSUME IInv,
           UNCHANGED <<settingVars, queue, placed, count, generation, permit, hub, ops>>,
           speaking' \in BOOLEAN, unreachable' \subseteq Providers,
           worker' \in WorkerRecord, worker.pc # "zero", Uncounted' = Uncounted,
           worker'.pc \notin {"take", "park", "wait"},
           worker'.pc = "done" /\ worker'.result = "provider" => worker'.voice \in Providers
    PROVE  IInv'
<1>1. Flags'
  BY DEF IInv, Flags, settingVars
<1>2. Numbers' /\ TaskRecords' /\ Verdicts'
  BY DEF IInv, Numbers, TaskRecords, Verdicts, settingVars
<1>3. QueueIsFresh' /\ LineGrows'
  BY DEF IInv, QueueIsFresh, LineGrows, Fresh
<1>4. CountCovered'
  BY DEF IInv, CountCovered, Counted
<1>5. SleepsRightly'
  BY DEF SleepsRightly
<1> QED BY <1>1, <1>2, <1>3, <1>4, <1>5 DEF IInv

LEMMA WorkerLooksInv == ASSUME IInv, WorkerLooks PROVE IInv'
<1>1. worker' \in WorkerRecord /\ worker'.pc = "take" /\ worker'.sawPaused = paused
  BY DEF WorkerLooks, IInv, TaskRecords, Flags, WorkerRecord, WorkerPc, Results
<1>2. worker.pc = "look" /\ UNCHANGED <<settingVars, unreachable, runtimeVars, permit, hub, ops>>
  BY DEF WorkerLooks, At
<1>3. Flags'
  BY <1>2 DEF IInv, Flags, settingVars, runtimeVars
<1>4. Numbers' /\ TaskRecords' /\ Verdicts'
  BY <1>1, <1>2 DEF IInv, Numbers, TaskRecords, Verdicts, settingVars, runtimeVars
<1>5. QueueIsFresh' /\ LineGrows'
  BY <1>2 DEF IInv, QueueIsFresh, LineGrows, Fresh, runtimeVars
<1>6. CountCovered'
  BY <1>1, <1>2 DEF IInv, CountCovered, Uncounted, Counted, runtimeVars
<1>7. SleepsRightly'
  BY <1>1, <1>2 DEF SleepsRightly, settingVars
<1> QED BY <1>3, <1>4, <1>5, <1>6, <1>7 DEF IInv

\* A job taken is counted as taken; and who finds nothing to take may sleep.
LEMMA WorkerTakesInv == ASSUME IInv, WorkerTakes PROVE IInv'
<1>1. worker.pc = "take" /\ UNCHANGED <<settingVars, unreachable, placed, count, generation, speaking,
                                       permit, hub, ops>>
  BY DEF WorkerTakes, At
<1>2. Flags' /\ Numbers'
  <2>1. Flags'
    BY <1>1 DEF IInv, Flags, settingVars
  <2>2. Numbers'
    BY <1>1 DEF IInv, Numbers
  <2> QED BY <2>1, <2>2
<1>3. ASSUME NEW j \in Takeable, worker' = [worker EXCEPT !.pc = "gen", !.job = j],
             queue' = queue \ {j}
      PROVE  IInv'
  <2>1. j \in queue /\ j \in Job
    BY <1>3 DEF Takeable, Candidates, IInv, TaskRecords
  <2>2. worker' \in WorkerRecord /\ worker'.pc = "gen" /\ worker'.job = j
    BY <1>3, <2>1 DEF IInv, TaskRecords, WorkerRecord, WorkerPc
  <2>3. /\ IsFiniteSet(queue') /\ Cardinality(queue') = Cardinality(queue) - 1
        /\ Cardinality(queue) \in Nat
    BY <1>3, <2>1, FS_RemoveElement, FS_CardinalityType DEF IInv, TaskRecords
  <2>4. TaskRecords' /\ Verdicts'
    BY <1>1, <1>3, <2>2, <2>3 DEF IInv, TaskRecords, Verdicts, settingVars
  <2>5. QueueIsFresh' /\ LineGrows'
    BY <1>1, <1>3 DEF IInv, QueueIsFresh, LineGrows, Fresh
  <2>6. CountCovered'
    <3>1. hub.pc # "clear" => Uncounted' = 1 /\ Uncounted = 0
      BY <1>1, <2>1, <2>2 DEF IInv, QueueIsFresh, Uncounted, Fresh
    <3>2. Counted' = Counted /\ Counted \in Nat /\ count \in Nat
      BY <1>1 DEF Counted, IInv, Numbers
    <3> QED BY <1>1, <2>3, <3>1, <3>2 DEF IInv, CountCovered
  <2>7. SleepsRightly'
    BY <2>2 DEF SleepsRightly
  <2> QED BY <1>2, <2>4, <2>5, <2>6, <2>7 DEF IInv
<1>4. ASSUME Takeable = {}, worker' = Go("park"), UNCHANGED queue
      PROVE  IInv'
  <2>1. worker' \in WorkerRecord /\ worker'.pc = "park" /\ worker'.sawPaused = worker.sawPaused
    BY <1>4, WorkerMoves DEF Go, IInv, TaskRecords, WorkerPc
  <2>2. TaskRecords' /\ Verdicts'
    BY <1>1, <1>4, <2>1 DEF IInv, TaskRecords, Verdicts, settingVars
  <2>3. QueueIsFresh' /\ LineGrows'
    BY <1>1, <1>4 DEF IInv, QueueIsFresh, LineGrows, Fresh
  <2>4. CountCovered'
    BY <1>1, <1>4, <2>1 DEF IInv, CountCovered, Uncounted, Counted
  <2>5. Candidates = {}
    BY <1>4, FirstExists DEF IInv
  <2>6. SleepsRightly'
    BY <1>1, <1>4, <2>1, <2>5 DEF IInv, SleepsRightly, Servable, Candidates, settingVars
  <2> QED BY <1>2, <2>2, <2>3, <2>4, <2>6 DEF IInv
<1> QED BY <1>3, <1>4 DEF WorkerTakes

LEMMA WorkerParksInv == ASSUME IInv, WorkerParks \/ WorkerWakes PROVE IInv'
<1>1. /\ worker.pc \in {"park", "wait"}
      /\ UNCHANGED <<settingVars, unreachable, runtimeVars, hub, ops>>
  BY DEF WorkerParks, WorkerWakes, At
<1>2. /\ worker' \in WorkerRecord
      /\ \/ worker'.pc = "wait" /\ worker.pc = "park" /\ UNCHANGED permit
         \/ worker'.pc = "look" /\ permit' = FALSE
  BY WorkerMoves DEF WorkerParks, WorkerWakes, At, Go, IInv, TaskRecords, WorkerPc
<1>3. Flags'
  <2>1. permit' = permit \/ permit' = FALSE
    BY <1>2
  <2> QED BY <1>1, <2>1, Zenon DEF IInv, Flags, settingVars, runtimeVars
<1>4. Numbers' /\ TaskRecords' /\ Verdicts'
  BY <1>1, <1>2 DEF IInv, Numbers, TaskRecords, Verdicts, settingVars, runtimeVars
<1>5. QueueIsFresh' /\ LineGrows'
  BY <1>1 DEF IInv, QueueIsFresh, LineGrows, Fresh, runtimeVars
<1>6. CountCovered'
  BY <1>1, <1>2 DEF IInv, CountCovered, Uncounted, Counted, runtimeVars
<1>7. SleepsRightly'
  BY <1>1, <1>2 DEF IInv, SleepsRightly, Servable, settingVars, runtimeVars
<1> QED BY <1>3, <1>4, <1>5, <1>6, <1>7 DEF IInv

LEMMA WorkerChecksGenerationInv == ASSUME IInv, WorkerChecksGeneration PROVE IInv'
<1>1. /\ worker.pc = "gen"
      /\ UNCHANGED <<settingVars, unreachable, runtimeVars, permit, hub, ops>>
  BY DEF WorkerChecksGeneration, At
<1>2. /\ worker' \in WorkerRecord /\ worker'.job = worker.job
      /\ worker'.pc = IF Fresh(worker.job) THEN "count"
                      ELSE IF IsNotice(worker.job) THEN "drop" ELSE "look"
  BY WorkerMoves DEF WorkerChecksGeneration, Go, IInv, TaskRecords, WorkerPc
<1>3. Uncounted' = Uncounted
  BY <1>1, <1>2 DEF Uncounted, Fresh, runtimeVars
<1> QED BY <1>1, <1>2, <1>3, WorkerMovesOn DEF IInv, Flags, Verdicts, settingVars, runtimeVars

LEMMA WorkerCountsInv == ASSUME IInv, WorkerCounts PROVE IInv'
<1>1. /\ worker.pc \in {"count", "drop"}
      /\ count' = IF count = 0 THEN 0 ELSE count - 1
      /\ UNCHANGED <<settingVars, unreachable, queue, placed, generation, speaking, permit, hub, ops>>
  BY DEF WorkerCounts
<1>2. worker' \in WorkerRecord /\ worker'.pc \in {"ready", "look"}
  BY WorkerMoves DEF WorkerCounts, Go, IInv, TaskRecords, WorkerPc
<1>3. Flags'
  BY <1>1 DEF IInv, Flags, settingVars
<1>4. Numbers'
  BY <1>1 DEF IInv, Numbers
<1>5. TaskRecords' /\ Verdicts'
  BY <1>1, <1>2 DEF IInv, TaskRecords, Verdicts, settingVars
<1>6. QueueIsFresh' /\ LineGrows'
  BY <1>1 DEF IInv, QueueIsFresh, LineGrows, Fresh
<1>7. CountCovered'
  <2>1. Uncounted = 1 /\ Uncounted' = 0 /\ Counted' = Counted /\ Counted \in Nat
    BY <1>1, <1>2 DEF Uncounted, Counted
  <2>2. Cardinality(queue) \in Nat /\ count \in Nat
    BY FS_CardinalityType DEF IInv, TaskRecords, Numbers
  <2> QED BY <1>1, <2>1, <2>2 DEF IInv, CountCovered
<1>8. SleepsRightly'
  BY <1>2 DEF SleepsRightly
<1> QED BY <1>3, <1>4, <1>5, <1>6, <1>7, <1>8 DEF IInv

\* From the settings to the end of the job: the queue is not touched.
LEMMA WorkerSpeaksInv ==
    ASSUME IInv,
           \/ WorkerPrepares \/ WorkerChecksAgain \/ WorkerStarts \/ WorkerEnds
           \/ WorkerJudges \/ WorkerFinishes
    PROVE  IInv'
<1>1. /\ UNCHANGED <<settingVars, queue, placed, count, generation, permit, hub, ops>>
      /\ worker.pc \in {"ready", "check", "start", "play", "done", "finish"}
  BY DEF WorkerPrepares, WorkerChecksAgain, WorkerStarts, WorkerEnds, WorkerJudges, WorkerFinishes,
     At, runtimeVars
<1>2. speaking' = speaking \/ speaking' = TRUE \/ speaking' = FALSE
  BY DEF WorkerPrepares, WorkerChecksAgain, WorkerStarts, WorkerEnds, WorkerJudges, WorkerFinishes,
     runtimeVars
<1>3. speaking' \in BOOLEAN
  BY <1>2, Zenon DEF IInv, Flags
<1>4. unreachable' \subseteq Providers
  <2>1. CASE WorkerJudges
    <3>1. \/ worker.result = "provider" /\ unreachable' = unreachable \cup {worker.voice}
          \/ unreachable' \subseteq unreachable
      BY <2>1 DEF WorkerJudges
    <3> QED BY <2>1, <3>1 DEF WorkerJudges, At, IInv, Verdicts
  <2>2. CASE UNCHANGED unreachable
    BY <2>2 DEF IInv, Verdicts
  <2> QED BY <2>1, <2>2
    DEF WorkerPrepares, WorkerChecksAgain, WorkerStarts, WorkerEnds, WorkerFinishes
<1>5. /\ worker' \in WorkerRecord
      /\ worker'.pc \in {"look", "check", "start", "play", "done", "purge", "finish"}
      /\ worker'.pc = "done" /\ worker'.result = "provider" => worker'.voice \in Providers
  <2> USE DEF IInv, TaskRecords, Verdicts, WorkerRecord, WorkerPc, Results, At, Go
  <2>1. CASE WorkerPrepares
    BY <2>1 DEF WorkerPrepares
  <2>2. CASE WorkerChecksAgain \/ WorkerFinishes
    BY <2>2 DEF WorkerChecksAgain, WorkerFinishes
  <2>3. CASE WorkerStarts
    BY <2>3 DEF WorkerStarts
  <2>4. CASE WorkerEnds
    BY <2>4 DEF WorkerEnds
  <2>5. CASE WorkerJudges
    BY <2>5 DEF WorkerJudges
  <2> QED BY <2>1, <2>2, <2>3, <2>4, <2>5
<1>6. Uncounted' = Uncounted
  BY <1>1, <1>5 DEF Uncounted
<1> QED BY <1>1, <1>3, <1>4, <1>5, <1>6, WorkerMovesOn

LEMMA WorkerPurgesInv == ASSUME IInv, WorkerPurges PROVE IInv'
<1>1. /\ queue' = {}
      /\ UNCHANGED <<settingVars, unreachable, placed, count, generation, speaking, permit, hub, ops>>
  BY DEF WorkerPurges
<1>2. worker' \in WorkerRecord /\ worker'.pc = "zero"
  BY WorkerMoves DEF WorkerPurges, Go, IInv, TaskRecords, WorkerPc
<1>3. Flags'
  BY <1>1 DEF IInv, Flags, settingVars
<1>4. Numbers' /\ TaskRecords' /\ Verdicts'
  BY <1>1, <1>2, FS_EmptySet DEF IInv, Numbers, TaskRecords, Verdicts, settingVars
<1>5. QueueIsFresh' /\ LineGrows'
  BY <1>1 DEF IInv, QueueIsFresh, LineGrows, Fresh
<1>6. CountCovered' /\ SleepsRightly'
  BY <1>2 DEF CountCovered, SleepsRightly
<1> QED BY <1>3, <1>4, <1>5, <1>6 DEF IInv

LEMMA WorkerZeroesInv == ASSUME IInv, WorkerZeroes PROVE IInv'
<1>1. /\ count' = 0
      /\ UNCHANGED <<settingVars, unreachable, queue, placed, generation, speaking, permit, hub, ops>>
  BY DEF WorkerZeroes
<1>2. worker' \in WorkerRecord /\ worker'.pc = "finish"
  BY WorkerMoves DEF WorkerZeroes, Go, IInv, TaskRecords, WorkerPc
<1>3. Flags'
  BY <1>1 DEF IInv, Flags, settingVars
<1>4. Numbers' /\ TaskRecords' /\ Verdicts'
  BY <1>1, <1>2 DEF IInv, Numbers, TaskRecords, Verdicts, settingVars
<1>5. QueueIsFresh' /\ LineGrows'
  BY <1>1 DEF IInv, QueueIsFresh, LineGrows, Fresh
<1>6. CountCovered'
  <2>1. Cardinality(queue') \in Nat
    BY <1>1, FS_CardinalityType DEF IInv, TaskRecords
  <2> QED BY <1>1, <2>1 DEF CountCovered, Uncounted, Counted
<1>7. SleepsRightly'
  BY <1>2 DEF SleepsRightly
<1> QED BY <1>3, <1>4, <1>5, <1>6, <1>7 DEF IInv

-----------------------------------------------------------------------------
LEMMA InitInv == Init => IInv
<1> SUFFICES ASSUME Init PROVE IInv
  OBVIOUS
<1>1. Flags
  BY Zenon DEF Init, Flags
<1>2. Numbers
  BY QueueAssumption DEF Init, Numbers
<1>3. TaskRecords
  BY FS_EmptySet, QueueAssumption DEF Init, TaskRecords, HubRecord, WorkerRecord, Voices, HubPc, WorkerPc, Results
<1>4. Verdicts
  BY DEF Init, Verdicts
<1>5. QueueIsFresh /\ LineGrows /\ SleepsRightly
  BY DEF Init, QueueIsFresh, LineGrows, SleepsRightly
<1>6. CountCovered
  BY FS_EmptySet DEF Init, CountCovered, Uncounted, Counted
<1> QED BY <1>1, <1>2, <1>3, <1>4, <1>5, <1>6 DEF IInv

(* Every step of ModelQueue, of the user, of a probe or of the worker.       *)
LEMMA NextInv == IInv /\ [Next]_vars => IInv'
<1> SUFFICES ASSUME IInv, [Next]_vars PROVE IInv'
  OBVIOUS
<1>1. ASSUME NEW c \in Comments, CommentArrives(c) PROVE IInv'
  BY <1>1, CommentArrivesInv
<1>2. CASE HubStep
  BY <1>2, HubPushInv, HubNotifyInv, HubNoticeInv, HubClearInv, HubKillInv, HubPublishInv DEF HubStep
<1>3. CASE User
  BY <1>3, UserPausesInv, UserSavesInv, UserClearsInv, UserMutesInv, UserUnmutesInv DEF User
<1>4. CASE WorkerStep
  BY <1>4, WorkerLooksInv, WorkerTakesInv, WorkerParksInv, WorkerChecksGenerationInv, WorkerCountsInv,
     WorkerSpeaksInv, WorkerPurgesInv, WorkerZeroesInv DEF WorkerStep
<1>5. ASSUME NEW p \in Providers, ProbeVerdict(p) PROVE IInv'
  BY <1>5, ProbeVerdictInv
<1>6. CASE UNCHANGED vars
  <2>1. Flags'
    BY <1>6 DEF vars, IInv, Flags, settingVars, runtimeVars
  <2>2. Numbers' /\ TaskRecords' /\ Verdicts'
    BY <1>6 DEF vars, IInv, Numbers, TaskRecords, Verdicts, settingVars, runtimeVars
  <2>3. QueueIsFresh' /\ LineGrows' /\ CountCovered'
    BY <1>6 DEF vars, IInv, QueueIsFresh, LineGrows, CountCovered, Uncounted, Counted, Fresh, runtimeVars
  <2>4. SleepsRightly'
    BY <1>6 DEF vars, IInv, SleepsRightly, Servable, settingVars, runtimeVars
  <2> QED BY <2>1, <2>2, <2>3, <2>4 DEF IInv
<1> QED BY <1>1, <1>2, <1>3, <1>4, <1>5, <1>6 DEF Next

(* The inductive invariant of queue, counter, permit and the two tasks holds  *)
(* in every reachable state.                                                *)
THEOREM QueueInvariant == Spec => []IInv
BY InitInv, NextInv, PTL DEF Spec

(* Every variable keeps its type, for any comments, providers and commands.   *)
THEOREM QueueTypeCorrect == Spec => []TypeOK
<1>1. IInv => TypeOK
  <2> SUFFICES ASSUME IInv PROVE TypeOK
    OBVIOUS
  <2>1. generation \in 0..MaxOps /\ count \in Nat /\ placed \in Nat
    BY QueueAssumption DEF IInv, Numbers
  <2>2. /\ hub.pc \in HubPc /\ hub.job \in Job \cup {NoJob} /\ hub.off \in BOOLEAN
        /\ hub.voice \in Voices
        /\ worker.pc \in WorkerPc /\ worker.job \in Job \cup {NoJob}
        /\ worker.voice \in Voices /\ worker.result \in Results
    BY DEF IInv, TaskRecords, HubRecord, WorkerRecord
  <2> QED BY <2>1, <2>2 DEF IInv, Flags, Verdicts, TaskRecords, TypeOK
<1> QED BY <1>1, QueueInvariant, PTL

(* No wake-up of run_tts_queue is lost, whatever comes between its look at    *)
(* the queue and its wait on the Notify.                                    *)
THEOREM NoWakeupIsLost == Spec => []NoLostWakeup
<1>1. IInv => NoLostWakeup
  BY DEF IInv, SleepsRightly, NoLostWakeup, Idle
<1> QED BY <1>1, QueueInvariant, PTL

(* The counter beside the queue never stays above what is queued, though it   *)
(* is changed outside the lock by three operations.                         *)
THEOREM CounterIsCovered == Spec => []CountNotInflated
<1>1. IInv => CountNotInflated
  <2> SUFFICES ASSUME IInv, Idle, ~At("zero")
               PROVE  count =< Cardinality(queue)
                        + (IF worker.pc \in {"gen", "count", "drop"} THEN 1 ELSE 0)
    BY DEF CountNotInflated
  <2>1. count =< Cardinality(queue) + Uncounted + Counted
    BY DEF IInv, CountCovered, Idle, At
  <2>2. Counted = 0 /\ Uncounted \in 0..(IF worker.pc \in {"gen", "count", "drop"} THEN 1 ELSE 0)
    BY DEF Counted, Uncounted, Idle
  <2>3. Cardinality(queue) \in Nat /\ count \in Nat
    BY FS_CardinalityType DEF IInv, TaskRecords, Numbers
  <2> QED BY <2>1, <2>2, <2>3
<1> QED BY <1>1, QueueInvariant, PTL

-----------------------------------------------------------------------------
(* The provider checks of TtsHealth. One lemma per task and one for the rest: *)
(* each keeps the types and, provider by provider, the probe that stands       *)
(* behind a status of "checking".                                           *)
HealthInv == HealthTypeOK /\ CheckingMeansProbing

(* A check that begins writes "checking" and is in flight from then on.       *)
LEMMA TaskBeginInv ==
    ASSUME HealthInv, NEW t \in Tasks, TaskBegin(t) PROVE HealthInv'
<1>1. /\ tasks[t] \in Task /\ tasks[t].pc = "begin" /\ tasks[t].of \in Externals
      /\ health' = [health EXCEPT ![tasks[t].of] = "checking"]
      /\ tasks' = [tasks EXCEPT ![t].pc = "ask"]
      /\ UNCHANGED <<selected, up, turns, poller>>
  BY DEF HealthInv, HealthTypeOK, TaskBegin, userVars
<1>2. HealthTypeOK'
  BY <1>1 DEF HealthInv, HealthTypeOK, Task, TaskPc, Status
<1>3. CheckingMeansProbing'
  BY <1>1 DEF HealthInv, HealthTypeOK, Task, CheckingMeansProbing, Probing
<1> QED BY <1>2, <1>3 DEF HealthInv

(* The answer to a check leaves it in flight.                                *)
LEMMA TaskAnswerInv ==
    ASSUME HealthInv, NEW t \in Tasks, TaskAnswer(t) PROVE HealthInv'
<1>1. PICK saw \in {"sawUp", "sawDown"} : tasks' = [tasks EXCEPT ![t].pc = saw]
  BY DEF TaskAnswer, Answer
<1>2. /\ tasks[t] \in Task /\ tasks[t].pc = "ask"
      /\ UNCHANGED <<selected, up, turns, health, poller>>
  BY DEF HealthInv, HealthTypeOK, TaskAnswer, userVars
<1>3. HealthTypeOK'
  BY <1>1, <1>2 DEF HealthInv, HealthTypeOK, Task, TaskPc
<1>4. CheckingMeansProbing'
  BY <1>1, <1>2 DEF HealthInv, HealthTypeOK, Task, CheckingMeansProbing, Probing
<1> QED BY <1>3, <1>4 DEF HealthInv

(* A check that ends leaves a verdict, whoever else is probing.               *)
LEMMA TaskVerdictInv ==
    ASSUME HealthInv, NEW t \in Tasks, TaskVerdict(t) PROVE HealthInv'
<1>1. PICK verdict \in {"ok", "unreachable"} :
        health' = [health EXCEPT ![tasks[t].of] = verdict]
  BY DEF TaskVerdict, Verdict
<1>2. \/ tasks' = [tasks EXCEPT ![t] = [tasks[t] EXCEPT !.pc = "arm"]]
      \/ tasks' = [tasks EXCEPT ![t] = FreeTask]
  BY DEF TaskVerdict
<1>3. /\ tasks[t] \in Task /\ tasks[t].pc \in {"sawUp", "sawDown"}
      /\ tasks[t].of \in Externals
      /\ UNCHANGED <<selected, up, turns, poller>>
  BY DEF HealthInv, HealthTypeOK, TaskVerdict, userVars
<1>4. FreeTask \in Task /\ FreeTask.pc = "free" /\ [tasks[t] EXCEPT !.pc = "arm"] \in Task
  BY <1>3 DEF FreeTask, Task, TaskPc, Choices
<1>5. HealthTypeOK'
  BY <1>1, <1>2, <1>3, <1>4 DEF HealthInv, HealthTypeOK, Task, Status
<1>6. CheckingMeansProbing'
  <2> SUFFICES ASSUME NEW p \in Externals, health'[p] = "checking" PROVE Probing(p)'
    BY DEF CheckingMeansProbing
  <2>1. p # tasks[t].of /\ health[p] = "checking"
    BY <1>1, <1>3 DEF HealthInv, HealthTypeOK
  <2>2. Probing(p)
    BY <2>1 DEF HealthInv, CheckingMeansProbing
  <2>3. \A x \in Tasks : x # t => tasks'[x] = tasks[x]
    BY <1>2 DEF HealthInv, HealthTypeOK
  <2> QED BY <1>3, <2>1, <2>2, <2>3 DEF Probing
<1> QED BY <1>5, <1>6 DEF HealthInv

(* A refresh that armed the poller has no probe left of its own.              *)
LEMMA TaskArmInv ==
    ASSUME HealthInv, NEW t \in Tasks, TaskArm(t) PROVE HealthInv'
<1>1. /\ tasks[t] \in Task /\ tasks[t].pc = "arm" /\ tasks[t].of \in Externals
      /\ tasks' = [tasks EXCEPT ![t] = FreeTask]
      /\ UNCHANGED <<selected, up, turns, health>>
  BY DEF HealthInv, HealthTypeOK, TaskArm, userVars
<1>2. \/ poller' = poller
      \/ poller[tasks[t].of] = "none" /\ poller' = [poller EXCEPT ![tasks[t].of] = "sleep"]
  BY <1>1 DEF TaskArm, Armed, HealthInv, HealthTypeOK
<1>3. FreeTask \in Task /\ FreeTask.pc = "free"
  BY DEF FreeTask, Task, TaskPc, Choices
<1>4. HealthTypeOK'
  BY <1>1, <1>2, <1>3 DEF HealthInv, HealthTypeOK, PollerPc
<1>5. CheckingMeansProbing'
  <2> SUFFICES ASSUME NEW p \in Externals, health'[p] = "checking" PROVE Probing(p)'
    BY DEF CheckingMeansProbing
  <2>1. Probing(p)
    BY <1>1 DEF HealthInv, CheckingMeansProbing
  <2>2. \A x \in Tasks : tasks[x].pc \in {"ask", "sawUp", "sawDown"} => tasks'[x] = tasks[x]
    BY <1>1 DEF HealthInv, HealthTypeOK
  <2>3. poller[p] \in {"ask", "sawUp", "sawDown"} => poller'[p] = poller[p]
    BY <1>2 DEF HealthInv, HealthTypeOK
  <2> QED BY <1>1, <2>1, <2>2, <2>3 DEF Probing
<1> QED BY <1>4, <1>5 DEF HealthInv

(* The recovery poller: what it writes when it wakes is its own probe, and     *)
(* what it writes when it has an answer is a verdict.                        *)
LEMMA PollerInv ==
    ASSUME HealthInv, NEW q \in Externals,
           PollerWake(q) \/ PollerAnswer(q) \/ PollerVerdict(q) \/ PollerStop(q)
    PROVE  HealthInv'
<1>1. /\ poller \in [Externals -> PollerPc] /\ health \in [Externals -> Status]
      /\ UNCHANGED <<selected, up, turns, tasks>>
  BY DEF HealthInv, HealthTypeOK, PollerWake, PollerAnswer, PollerVerdict, PollerStop, userVars
<1>2. \E pc \in PollerPc : poller' = [poller EXCEPT ![q] = pc]
  BY <1>1 DEF PollerWake, PollerAnswer, PollerVerdict, PollerStop, PollerPc, Answer
<1>3. \E status \in Status : health' = [health EXCEPT ![q] = status]
  <2>1. health[q] \in Status /\ health = [health EXCEPT ![q] = health[q]]
    BY <1>1
  <2>2. {"checking", "ok", "unreachable"} \subseteq Status
    BY DEF Status
  <2> QED BY <2>1, <2>2 DEF PollerWake, PollerAnswer, PollerVerdict, PollerStop, Verdict
<1>4. health'[q] = "checking" =>
        poller'[q] \in {"ask", "sawUp", "sawDown"} \/ (health' = health /\ poller[q] \in {"sleep", "stop"})
  BY <1>1 DEF PollerWake, PollerAnswer, PollerVerdict, PollerStop, Verdict, Answer
<1>5. HealthTypeOK'
  BY <1>1, <1>2, <1>3 DEF HealthInv, HealthTypeOK
<1>6. CheckingMeansProbing'
  <2> SUFFICES ASSUME NEW p \in Externals, health'[p] = "checking" PROVE Probing(p)'
    BY DEF CheckingMeansProbing
  <2>1. CASE p = q
    BY <1>1, <1>4, <2>1 DEF HealthInv, CheckingMeansProbing, Probing
  <2>2. CASE p # q
    <3>1. health'[p] = health[p] /\ poller'[p] = poller[p]
      BY <1>1, <1>2, <1>3, <2>2
    <3> QED BY <1>1, <3>1 DEF HealthInv, CheckingMeansProbing, Probing
  <2> QED BY <2>1, <2>2
<1> QED BY <1>5, <1>6 DEF HealthInv

(* A save or a check from the screen takes a free slot; whoever is in flight    *)
(* stays so.                                                                *)
LEMMA OutsideInv ==
    ASSUME HealthInv, Outside PROVE HealthInv'
<1>1. turns \in 0..MaxTurns /\ turns' \in 0..MaxTurns
  BY HealthAssumption DEF HealthInv, HealthTypeOK, Outside, SaveProvider, UiCheck, ProviderFlips, Turn
<1>2. UNCHANGED <<health, poller>> /\ selected' \in Choices
  BY DEF HealthInv, HealthTypeOK, Outside, SaveProvider, UiCheck, ProviderFlips, probeVars, Choices
<1>3. up' \in [Externals -> BOOLEAN]
  BY DEF HealthInv, HealthTypeOK, Outside, SaveProvider, UiCheck, ProviderFlips
<1>4. \/ tasks' = tasks
      \/ \E p \in Externals : Spawn("refresh", p) \/ Spawn("check", p)
  BY DEF Outside, SaveProvider, UiCheck, ProviderFlips, probeVars, Choices
<1>5. \/ tasks' = tasks
      \/ \E t \in Tasks, p \in Externals, kind \in {"refresh", "check"} :
           /\ tasks[t].pc = "free"
           /\ tasks' = [tasks EXCEPT ![t] = [pc |-> "begin", kind |-> kind, of |-> p]]
  BY <1>4 DEF Spawn
<1>6. HealthTypeOK'
  BY <1>1, <1>2, <1>3, <1>5 DEF HealthInv, HealthTypeOK, Task, TaskPc, Choices
<1>7. \A x \in Tasks : tasks[x].pc \in {"ask", "sawUp", "sawDown"} => tasks'[x] = tasks[x]
  BY <1>5 DEF HealthInv, HealthTypeOK
<1>8. CheckingMeansProbing'
  BY <1>2, <1>7 DEF HealthInv, CheckingMeansProbing, Probing
<1> QED BY <1>6, <1>8 DEF HealthInv

(* The playback worker writes a verdict too.                                 *)
LEMMA WorkerMarksInv ==
    ASSUME HealthInv, NEW q \in Externals, WorkerFailed(q) \/ WorkerSpoke(q) PROVE HealthInv'
<1>1. turns \in 0..MaxTurns /\ turns' \in 0..MaxTurns
  BY HealthAssumption DEF HealthInv, HealthTypeOK, WorkerFailed, WorkerSpoke, Turn
<1>2. UNCHANGED <<selected, up, tasks>>
  BY DEF WorkerFailed, WorkerSpoke
<1>3. \/ UNCHANGED <<health, poller>>
      \/ /\ \E status \in {"ok", "unreachable"} : health' = [health EXCEPT ![q] = status]
         /\ \/ poller' = poller
            \/ poller[q] = "none" /\ poller' = [poller EXCEPT ![q] = "sleep"]
  BY DEF HealthInv, HealthTypeOK, WorkerFailed, WorkerSpoke, MarkUnreachable, MarkSpoken, Armed
<1>4. HealthTypeOK'
  BY <1>1, <1>2, <1>3 DEF HealthInv, HealthTypeOK, Status, PollerPc
<1>5. CheckingMeansProbing'
  <2> SUFFICES ASSUME NEW p \in Externals, health'[p] = "checking" PROVE Probing(p)'
    BY DEF CheckingMeansProbing
  <2>1. (health[p] = "checking" /\ poller'[p] = poller[p]) \/ UNCHANGED <<health, poller>>
    BY <1>3 DEF HealthInv, HealthTypeOK
  <2>2. Probing(p)
    BY <2>1 DEF HealthInv, CheckingMeansProbing
  <2> QED BY <1>2, <2>1, <2>2 DEF Probing
<1> QED BY <1>4, <1>5 DEF HealthInv

(* At the start nothing has been checked, and one refresh may be on its way.   *)
LEMMA HealthInitInv == HealthInit => HealthInv
<1> SUFFICES ASSUME HealthInit PROVE HealthInv
  OBVIOUS
<1>1. FreeTask \in Task /\ FreeTask.pc = "free"
  BY DEF FreeTask, Task, TaskPc, Choices
<1>2. tasks \in [Tasks -> Task] /\ \A t \in Tasks : tasks[t].pc # "free" => tasks[t].of \in Externals
  BY <1>1 DEF HealthInit, Task, TaskPc, Choices
<1> QED BY <1>2, HealthAssumption
        DEF HealthInit, HealthInv, HealthTypeOK, CheckingMeansProbing, Status, PollerPc

LEMMA HealthNextInv == HealthInv /\ [HealthNext]_healthVars => HealthInv'
<1> SUFFICES ASSUME HealthInv, [HealthNext]_healthVars PROVE HealthInv'
  OBVIOUS
<1>1. CASE Probes
  BY <1>1, TaskBeginInv, TaskAnswerInv, TaskVerdictInv, TaskArmInv, PollerInv DEF Probes
<1>2. CASE Outside
  BY <1>2, OutsideInv
<1>3. CASE \E p \in Externals : WorkerFailed(p) \/ WorkerSpoke(p)
  BY <1>3, WorkerMarksInv
<1>4. CASE UNCHANGED healthVars
  BY <1>4 DEF healthVars, HealthInv, HealthTypeOK, CheckingMeansProbing, Probing
<1> QED BY <1>1, <1>2, <1>3, <1>4 DEF HealthNext

(* The cells of the provider checks keep their types, for any number of        *)
(* providers and of checks in flight, and a check in flight is always one of    *)
(* an external provider.                                                     *)
THEOREM HealthTypeCorrect == HealthSpec => []HealthTypeOK
<1>1. HealthInv => HealthTypeOK
  BY DEF HealthInv
<1> QED BY <1>1, HealthInitInv, HealthNextInv, PTL DEF HealthSpec

(* However the probes of refreshes, of the screen and of the pollers overlap,   *)
(* and whatever the worker writes meanwhile, the screen says "checking" only     *)
(* while a probe of that provider is in flight (tts.rs: refresh_health,         *)
(* check_provider, spawn_recovery_polling, mark_provider_unreachable).         *)
THEOREM CheckingIsSomebodysProbe == HealthSpec => []CheckingMeansProbing
<1>1. HealthInv => CheckingMeansProbing
  BY DEF HealthInv
<1> QED BY <1>1, HealthInitInv, HealthNextInv, PTL DEF HealthSpec
=============================================================================
