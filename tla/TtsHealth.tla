------------------------------ MODULE TtsHealth ------------------------------
(***************************************************************************)
(* Which external speech providers (VOICEVOX, Bouyomi-chan) the hub believes *)
(* to be reachable. The belief is one cell per provider, written by several *)
(* tasks that run at the same time:                                         *)
(*   - refresh_health, spawned at start and whenever settings are saved;    *)
(*   - check_provider called by the settings screen, outside ModelQueue;    *)
(*   - the playback worker, when a provider fails to speak;                 *)
(*   - a recovery poller per provider, at most one (a CAS on a flag), which  *)
(*     probes every 10 s while the provider is unreachable and selected.    *)
(* While the selected provider is unreachable no comment is queued, so only  *)
(* a check can end the silence.                                             *)
(***************************************************************************)
EXTENDS Naturals

CONSTANTS
    Externals,     \* external providers
    BuiltinVoice,  \* the built-in voice, whose health is not tracked
    Tasks,         \* bound: checks in flight at the same time
    MaxTurns,      \* bound: steps of the user and of the providers in a behaviour
    MaxUiChecks    \* bound: how many of them are checks from the settings screen

ASSUME HealthAssumption ==
    /\ BuiltinVoice \notin Externals
    /\ MaxTurns \in Nat
    /\ MaxUiChecks \in Nat

VARIABLES
    selected,  \* the provider of the current settings
    up,        \* external: does the provider answer?
    health,    \* VOICEVOX_HEALTH, BOUYOMI_HEALTH
    poller,    \* spawn_recovery_polling: the task and its RUNNING flag
    tasks,     \* refresh_health and check_provider calls in flight
    turns,     \* bounded by MaxTurns
    uiChecks   \* bounded by MaxUiChecks

probeVars == <<health, poller, tasks>>
userVars == <<selected, up, turns, uiChecks>>
healthVars == <<selected, up, health, poller, tasks, turns, uiChecks>>

Choices == Externals \cup {BuiltinVoice}
Status == {"idle", "checking", "ok", "unreachable"}

\* The poller is not running, sleeping, probing, holding an answer, or past its
\* loop with its flag still set.
PollerPc == {"none", "sleep", "ask", "sawUp", "sawDown", "stop"}
TaskPc == {"free", "begin", "ask", "sawUp", "sawDown", "arm"}
FreeTask == [pc |-> "free", kind |-> "refresh", of |-> BuiltinVoice]
Task == [pc : TaskPc, kind : {"refresh", "check"}, of : Choices]

-----------------------------------------------------------------------------
\* tokio::spawn of a check, in a free slot.
Spawn(kind, p) ==
    \E t \in Tasks :
        /\ tasks[t].pc = "free"
        /\ tasks' = [tasks EXCEPT ![t] = [pc |-> "begin", kind |-> kind, of |-> p]]

\* spawn_recovery_polling: compare_exchange on the flag of the provider.
Armed(p) == [poller EXCEPT ![p] = IF @ = "none" THEN "sleep" ELSE @]

\* What a probe answers.
Answer(p) == IF up[p] THEN "sawUp" ELSE "sawDown"

\* The status a finished probe writes.
\* Mutant: a failed probe leaves the status as it is.
VerdictOkOnly(p, saw) == IF saw = "sawUp" THEN "ok" ELSE health[p]
Verdict(p, saw) == IF saw = "sawUp" THEN "ok" ELSE "unreachable"

HealthInit ==
    /\ selected \in Choices
    /\ up \in [Externals -> BOOLEAN]
    /\ health = [p \in Externals |-> "idle"]
    /\ poller = [p \in Externals |-> "none"]
    \* run() spawns one refresh; it returns at once for the built-in voice.
    /\ IF selected = BuiltinVoice
       THEN tasks = [t \in Tasks |-> FreeTask]
       ELSE \E t \in Tasks :
              tasks = [x \in Tasks |->
                         IF x = t THEN [pc |-> "begin", kind |-> "refresh", of |-> selected]
                         ELSE FreeTask]
    /\ turns = 0
    /\ uiChecks = 0

-----------------------------------------------------------------------------
(* The user and the providers.                                              *)

Turn == turns < MaxTurns /\ turns' = turns + 1

\* Mutant: the built-in voice is checked like the others.
SaveProviderAlways(p) ==
    /\ Turn
    /\ selected' = p
    /\ Spawn("refresh", p)
    /\ UNCHANGED <<up, health, poller, uiChecks>>

\* SetTtsSettings: the health of an external provider is checked at every save.
SaveProvider(p) ==
    /\ Turn
    /\ selected' = p
    /\ IF p = BuiltinVoice THEN UNCHANGED tasks ELSE Spawn("refresh", p)
    /\ UNCHANGED <<up, health, poller, uiChecks>>

\* The settings screen calls check_provider directly.
UiCheck(p) ==
    /\ Turn
    /\ uiChecks < MaxUiChecks
    /\ uiChecks' = uiChecks + 1
    /\ Spawn("check", p)
    /\ UNCHANGED <<selected, up, health, poller>>

ProviderFlips(p) ==
    /\ Turn
    /\ up' = [up EXCEPT ![p] = ~@]
    /\ UNCHANGED <<selected, probeVars, uiChecks>>

-----------------------------------------------------------------------------
(* refresh_health and check_provider.                                       *)

TaskBegin(t) ==
    /\ tasks[t].pc = "begin"
    /\ health' = [health EXCEPT ![tasks[t].of] = "checking"]
    /\ tasks' = [tasks EXCEPT ![t].pc = "ask"]
    /\ UNCHANGED <<userVars, poller>>

TaskAnswer(t) ==
    /\ tasks[t].pc = "ask"
    /\ tasks' = [tasks EXCEPT ![t].pc = Answer(tasks[t].of)]
    /\ UNCHANGED <<userVars, health, poller>>

\* Only refresh_health goes on to look at the status it left.
TaskVerdict(t) ==
    /\ tasks[t].pc \in {"sawUp", "sawDown"}
    /\ health' = [health EXCEPT ![tasks[t].of] = Verdict(tasks[t].of, tasks[t].pc)]
    /\ tasks' = [tasks EXCEPT ![t] = IF @.kind = "refresh" THEN [@ EXCEPT !.pc = "arm"]
                                     ELSE FreeTask]
    /\ UNCHANGED <<userVars, poller>>

TaskArm(t) ==
    /\ tasks[t].pc = "arm"
    /\ poller' = IF health[tasks[t].of] = "unreachable" THEN Armed(tasks[t].of) ELSE poller
    /\ tasks' = [tasks EXCEPT ![t] = FreeTask]
    /\ UNCHANGED <<userVars, health>>

-----------------------------------------------------------------------------
(* The recovery poller.                                                     *)

\* After 10 s: another provider is selected, or somebody else changed the
\* status, and the loop ends; otherwise it probes.
PollerWake(p) ==
    /\ poller[p] = "sleep"
    /\ IF selected # p \/ health[p] # "unreachable"
       THEN poller' = [poller EXCEPT ![p] = "stop"] /\ UNCHANGED health
       ELSE /\ poller' = [poller EXCEPT ![p] = "ask"]
            /\ health' = [health EXCEPT ![p] = "checking"]
    /\ UNCHANGED <<userVars, tasks>>

PollerAnswer(p) ==
    /\ poller[p] = "ask"
    /\ poller' = [poller EXCEPT ![p] = Answer(p)]
    /\ UNCHANGED <<userVars, health, tasks>>

\* Mutant: the poller gives up after one failed probe.
PollerVerdictOnce(p) ==
    /\ poller[p] \in {"sawUp", "sawDown"}
    /\ health' = [health EXCEPT ![p] = Verdict(p, poller[p])]
    /\ poller' = [poller EXCEPT ![p] = "stop"]
    /\ UNCHANGED <<userVars, tasks>>

PollerVerdict(p) ==
    /\ poller[p] \in {"sawUp", "sawDown"}
    /\ health' = [health EXCEPT ![p] = Verdict(p, poller[p])]
    /\ poller' = [poller EXCEPT ![p] = IF @ = "sawUp" THEN "stop" ELSE "sleep"]
    /\ UNCHANGED <<userVars, tasks>>

PollerStop(p) ==
    /\ poller[p] = "stop"
    /\ poller' = [poller EXCEPT ![p] = "none"]
    /\ UNCHANGED <<userVars, health, tasks>>

-----------------------------------------------------------------------------
(* The playback worker. The provider is the one the utterance was started     *)
(* with, which need not be selected any more.                               *)

\* mark_provider_unreachable; the queue it empties is TtsQueue's. Nothing is
\* done when neither the status nor the error text changes.
MarkUnreachable(p) ==
    \/ /\ health' = [health EXCEPT ![p] = "unreachable"]
       /\ poller' = Armed(p)
    \/ health[p] = "unreachable" /\ UNCHANGED <<health, poller>>

\* After a success the status is made "ok".
MarkSpoken(p) == health' = [health EXCEPT ![p] = "ok"] /\ UNCHANGED poller

WorkerFailed(p) == Turn /\ ~up[p] /\ MarkUnreachable(p) /\ UNCHANGED <<selected, up, uiChecks, tasks>>
WorkerSpoke(p) == Turn /\ up[p] /\ MarkSpoken(p) /\ UNCHANGED <<selected, up, uiChecks, tasks>>

-----------------------------------------------------------------------------
Probes ==
    \/ \E t \in Tasks : TaskBegin(t) \/ TaskAnswer(t) \/ TaskVerdict(t) \/ TaskArm(t)
    \/ \E p \in Externals : PollerWake(p) \/ PollerAnswer(p) \/ PollerVerdict(p) \/ PollerStop(p)

Outside ==
    \/ \E p \in Choices : SaveProvider(p)
    \/ \E p \in Externals : UiCheck(p) \/ ProviderFlips(p)

HealthNext ==
    \/ Probes
    \/ Outside
    \/ \E p \in Externals : WorkerFailed(p) \/ WorkerSpoke(p)

HealthSpec == HealthInit /\ [][HealthNext]_healthVars

\* tokio runs every ready task, timers fire and every probe ends (it has a
\* connect timeout); the user and the providers owe nothing.
FairProbes ==
    /\ \A t \in Tasks : WF_healthVars(TaskBegin(t) \/ TaskAnswer(t) \/ TaskVerdict(t) \/ TaskArm(t))
    /\ \A p \in Externals :
         WF_healthVars(PollerWake(p) \/ PollerAnswer(p) \/ PollerVerdict(p) \/ PollerStop(p))
FairHealthSpec == HealthSpec /\ FairProbes

-----------------------------------------------------------------------------
(* Every variable holds a value of its type. *)
HealthTypeOK ==
    /\ selected \in Choices
    /\ up \in [Externals -> BOOLEAN]
    /\ health \in [Externals -> Status]
    /\ poller \in [Externals -> PollerPc]
    /\ tasks \in [Tasks -> Task]
    /\ \A t \in Tasks : tasks[t].pc # "free" => tasks[t].of \in Externals
    /\ turns \in 0..MaxTurns

Probing(p) ==
    \/ poller[p] \in {"ask", "sawUp", "sawDown"}
    \/ \E t \in Tasks : tasks[t].of = p /\ tasks[t].pc \in {"ask", "sawUp", "sawDown"}

(* The screen says "checking" only while some probe of that provider is in     *)
(* flight: however the probes of refreshes, of the screen and of the poller    *)
(* overlap, the last one to finish leaves a verdict.                          *)
CheckingMeansProbing == \A p \in Externals : health[p] = "checking" => Probing(p)

(* A poller that watches a selected, answering provider while nothing else     *)
(* happens brings it back, also when the provider came up just after a probe   *)
(* failed.                                                                   *)
Quiet(p) == up[p] /\ selected = p /\ \A t \in Tasks : tasks[t].pc = "free"
Watching(p) ==
    \/ poller[p] \in {"ask", "sawUp", "sawDown"}
    \/ poller[p] = "sleep" /\ health[p] = "unreachable"
PollerRecovers ==
    \A p \in Externals : [](([]Quiet(p) /\ Watching(p)) => <>(health[p] = "ok"))

(* While the selected provider is unreachable, somebody is going to look at    *)
(* it again: a poller, or a check in flight (enqueue_comment: speech is silent *)
(* until the recovery polling restores the status).                           *)
UnreachableIsWatched ==
    \A p \in Externals :
        selected = p /\ health[p] = "unreachable" =>
            \/ poller[p] # "none"
            \/ \E t \in Tasks : tasks[t].of = p /\ tasks[t].pc # "free"
=============================================================================
