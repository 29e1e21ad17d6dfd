----------------------------- MODULE AppShutdown -----------------------------
(***************************************************************************)
(* One life of the Electron process, from the start of the core to its exit. *)
(* The core is started with retries while its port is held; onReady opens the *)
(* main window and arms the startup import. Closing the window is negotiated  *)
(* in steps: it waits for the import, asks the database whether anything is   *)
(* unexported, disconnects the chat and exports before it lets go. Every way  *)
(* out ends in shutdownApp, which runs once; later callers return at once.    *)
(***************************************************************************)
EXTENDS Naturals, FiniteSets

CONSTANTS
    MaxRetries,  \* MAX_TRANSIENT_BIND_RETRIES
    MaxUser      \* bound: connects and openings of windows by the user

ASSUME ShutdownAssumption == MaxRetries \in Nat /\ MaxUser \in Nat

VARIABLES
    port,        \* who holds the port of the core
    core,        \* the core, as coreBridge.start and stop drive it
    zombieTried, \* zombieRecoveryAttempted
    retries,     \* transientBindRetries
    main,        \* mainWindow
    others,      \* other windows of the user
    chat,        \* the hidden chat window; open: comments are recorded
    asked,       \* mainWindow.close() was called, its "close" not yet emitted
    sync,        \* the startup import
    pendingClose,\* pendingCloseDuringStartup
    exp,         \* where the close handler's export stands
    exportDone,  \* shutdownExportDone
    autoExport,  \* autoExportEnabled, with a OneComme directory
    dirty,       \* the database holds comments OneComme has not
    down,        \* shutdownApp
    reason,      \* what called it first
    announced,   \* window-all-closed was emitted
    proc,        \* the process
    userSteps,
    clicked,     \* history: the user has asked to close the main window
    late,        \* history: a comment came after the database had answered
    unexported   \* history: the export failed, stalled or was aborted

startVars == <<port, core, zombieTried, retries>>
exportVars == <<exp, exportDone, autoExport, dirty>>
endVars == <<down, reason, announced, proc>>
histVars == <<clicked, late, unexported>>
windowVars == <<main, others, chat, asked>>
syncVars == <<sync, pendingClose>>
shutdownVars == <<startVars, windowVars, syncVars, exportVars, endVars, histVars, userSteps>>

Syncing == sync \in {"armed", "importing"}            \* startupSyncInProgress
Exporting == exp \in {"asking", "clean", "dirty", "settling", "exporting"} \* shutdownExportInProgress
Blocking == others \cap {"manual"}                     \* manual, setup and login windows
NoWindows == main = "closed" /\ others = {} /\ chat = "none"

Init ==
    /\ port \in {"free", "zombie", "race", "live"}
    /\ core = "starting" /\ zombieTried = FALSE /\ retries = 0
    /\ main = "none" /\ others = {} /\ chat = "none" /\ asked = FALSE
    /\ sync = "none" /\ pendingClose = FALSE
    /\ exp = "none" /\ exportDone = FALSE /\ autoExport \in BOOLEAN /\ dirty \in BOOLEAN
    /\ down = "no" /\ reason = "none" /\ announced = FALSE /\ proc = "running"
    /\ userSteps = 0 /\ clicked = FALSE /\ late = FALSE /\ unexported = FALSE

Exit == proc' = "exited"

-----------------------------------------------------------------------------
(* Starting the core.                                                        *)

\* A previous hub lets go of its port some time after it has ended.
PortFrees ==
    /\ port = "race" /\ port' = "free"
    /\ UNCHANGED <<core, zombieTried, retries, windowVars, syncVars, exportVars, endVars, histVars, userSteps>>

\* Mutant: the retries are counted and never limited.
RetryForever ==
    core' = "waiting" /\ retries' = retries + 1 /\ UNCHANGED proc

\* retryTransientBind: 1.5 s later once more, or the fatal dialog.
Retry ==
    IF retries >= MaxRetries
    THEN core' = "fatal" /\ Exit /\ UNCHANGED retries
    ELSE core' = "waiting" /\ retries' = retries + 1 /\ UNCHANGED proc

\* onError with EADDRINUSE: the first time the owner of the port is probed.
InitFails ==
    /\ core = "starting" /\ port # "free"
    /\ IF zombieTried THEN Retry /\ UNCHANGED zombieTried
       ELSE core' = "probing" /\ zombieTried' = TRUE /\ UNCHANGED <<retries, proc>>
    /\ UNCHANGED <<port, windowVars, syncVars, exportVars, down, reason, announced, histVars, userSteps>>

\* attemptZombieRecovery: the children of a dead owner are killed, a live owner
\* is fatal, anything else (a failed probe as well) is retried.
ProbeAnswers ==
    /\ core = "probing"
    /\ \/ /\ port = "zombie" /\ port' = "free" /\ core' = "starting"
          /\ UNCHANGED <<retries, proc>>
       \/ port = "live" /\ core' = "fatal" /\ Exit /\ UNCHANGED <<port, retries>>
       \/ Retry /\ UNCHANGED port
    /\ UNCHANGED <<zombieTried, windowVars, syncVars, exportVars, down, reason, announced, histVars, userSteps>>

\* Any other error of init.
InitBreaks ==
    /\ core = "starting" /\ port = "free"
    /\ core' = "fatal" /\ Exit
    /\ UNCHANGED <<port, zombieTried, retries, windowVars, syncVars, exportVars, down, reason, announced,
                   histVars, userSteps>>

RetryTimer ==
    /\ core = "waiting" /\ core' = "starting"
    /\ UNCHANGED <<port, zombieTried, retries, windowVars, syncVars, exportVars, endVars, histVars, userSteps>>

\* onReady: the main window, then triggerStartupListenerSync, which a setting,
\* demo mode or a missing OneComme directory skips.
CoreReady ==
    /\ core = "starting" /\ port = "free"
    /\ core' = "up" /\ main' = "open"
    /\ sync' \in {"none", "armed"}
    /\ UNCHANGED <<port, zombieTried, retries, others, chat, asked, pendingClose, exportVars, endVars,
                   histVars, userSteps>>

-----------------------------------------------------------------------------
(* shutdownApp and the ways out.                                             *)

\* The chat window is asked to close.
HangUp == chat' = IF chat = "open" THEN "closing" ELSE chat

\* shutdownApp, by its first caller: closeAuxiliaryWindows, then coreBridge.stop.
Shutdown(why) ==
    /\ down' = "stopping" /\ reason' = why
    /\ others' = others \ Blocking
    /\ HangUp
    /\ core' = IF core = "up" THEN "draining" ELSE core
    /\ UNCHANGED proc

\* Every later caller goes straight on to what follows, app.quit or app.exit.
ShutdownOrExit(why) ==
    IF down = "no" THEN Shutdown(why)
    ELSE Exit /\ UNCHANGED <<down, reason, others, chat, core>>

\* coreBridge.stop has finished, or failed because there was no core.
StopDone ==
    /\ down = "stopping" /\ down' = "stopped"
    /\ core' = IF core = "draining" THEN "off" ELSE core
    /\ IF reason = "reset" THEN UNCHANGED proc ELSE Exit
    /\ UNCHANGED <<port, zombieTried, retries, windowVars, syncVars, exportVars, reason, announced,
                   histVars, userSteps>>

\* relaunchSoon.
Relaunch ==
    /\ reason = "reset" /\ down = "stopped" /\ Exit
    /\ UNCHANGED <<startVars, windowVars, syncVars, exportVars, down, reason, announced, histVars, userSteps>>

\* resetAndRelaunch, from the settings of the main window.
Reset ==
    /\ main = "open" /\ down = "no" /\ Shutdown("reset")
    /\ UNCHANGED <<port, zombieTried, retries, main, asked, syncVars, exportVars, announced, histVars, userSteps>>

\* before-quit (tray, system, updater) and the signals. A quit that comes during
\* a shutdown closes the windows, and so has to pass the main window's handler.
Quit ==
    /\ IF down = "no" THEN Shutdown("quit") /\ UNCHANGED asked
       ELSE IF main = "open"
            THEN asked' = TRUE /\ UNCHANGED <<down, reason, others, chat, core, proc>>
            ELSE Exit /\ UNCHANGED <<down, reason, others, chat, core, asked>>
    /\ UNCHANGED <<port, zombieTried, retries, main, syncVars, exportVars, announced, histVars, userSteps>>

Signal ==
    /\ ShutdownOrExit("signal")
    /\ UNCHANGED <<port, zombieTried, retries, main, asked, syncVars, exportVars, announced, histVars, userSteps>>

\* second-instance without a main window, and the user agrees to restart.
StaleRestart ==
    /\ main \in {"none", "closed"}
    /\ ShutdownOrExit("stale")
    /\ UNCHANGED <<port, zombieTried, retries, main, asked, syncVars, exportVars, announced, histVars, userSteps>>

\* window-all-closed
AllClosed ==
    /\ NoWindows /\ ~announced /\ announced' = TRUE
    /\ ShutdownOrExit("window-all-closed")
    /\ UNCHANGED <<port, zombieTried, retries, main, asked, syncVars, exportVars, histVars, userSteps>>

-----------------------------------------------------------------------------
(* The startup import.                                                       *)

SyncStarts ==
    /\ sync = "armed" /\ sync' = "importing"
    /\ UNCHANGED <<startVars, windowVars, pendingClose, exportVars, endVars, histVars, userSteps>>

\* Mutant: the deferred close is forgotten.
SyncEndsQuietly ==
    /\ sync = "importing" /\ sync' = "done"
    /\ pendingClose' = FALSE
    /\ UNCHANGED <<startVars, windowVars, exportVars, endVars, histVars, userSteps>>

\* The finally of triggerStartupListenerSync: a deferred close is asked again.
SyncEnds ==
    /\ sync = "importing" /\ sync' = "done"
    /\ pendingClose' = FALSE
    /\ asked' = (asked \/ (pendingClose /\ main = "open"))
    /\ UNCHANGED <<startVars, main, others, chat, exportVars, endVars, histVars, userSteps>>

-----------------------------------------------------------------------------
(* Closing the main window.                                                  *)

\* Mutant: a close during the startup import is not deferred.
CloseHandlerImpatient ==
    IF exportDone THEN main' = "closing" /\ UNCHANGED <<pendingClose, exp, exportDone>>
    ELSE IF Exporting THEN UNCHANGED <<main, pendingClose, exp, exportDone>>
    ELSE IF ~autoExport \/ Syncing
         THEN exportDone' = TRUE /\ main' = "closing" /\ UNCHANGED <<pendingClose, exp>>
    ELSE exp' = "asking" /\ UNCHANGED <<main, pendingClose, exportDone>>

\* mainWindow.on('close'): lets the window close, ignores the request, defers it
\* or starts the export.
CloseHandler ==
    IF exportDone THEN main' = "closing" /\ UNCHANGED <<pendingClose, exp, exportDone>>
    ELSE IF Exporting THEN UNCHANGED <<main, pendingClose, exp, exportDone>>
    ELSE IF Syncing THEN pendingClose' = TRUE /\ UNCHANGED <<main, exp, exportDone>>
    ELSE IF ~autoExport
         THEN exportDone' = TRUE /\ main' = "closing" /\ UNCHANGED <<pendingClose, exp>>
    ELSE exp' = "asking" /\ UNCHANGED <<main, pendingClose, exportDone>>

UserCloses ==
    /\ main = "open" /\ CloseHandler /\ clicked' = TRUE
    /\ UNCHANGED <<startVars, others, chat, asked, sync, autoExport, dirty, endVars, late, unexported, userSteps>>

AskedCloses ==
    /\ asked /\ asked' = FALSE
    /\ IF main = "open" THEN CloseHandler ELSE UNCHANGED <<main, pendingClose, exp, exportDone>>
    /\ UNCHANGED <<startVars, others, chat, sync, autoExport, dirty, endVars, histVars, userSteps>>

\* Mutant: the export counts as done as soon as it is begun.
QueryDirtyOnce ==
    /\ exp = "asking" /\ exportDone' = TRUE
    /\ exp' = IF dirty /\ core = "up" THEN "dirty" ELSE "clean"
    /\ UNCHANGED <<startVars, windowVars, syncVars, autoExport, dirty, endVars, histVars, userSteps>>

\* isListenerDbDirty: a core that is gone, or fails, answers "clean".
QueryDirty ==
    /\ exp = "asking"
    /\ exp' = IF dirty /\ core = "up" THEN "dirty" ELSE "clean"
    /\ UNCHANGED <<startVars, windowVars, syncVars, exportDone, autoExport, dirty, endVars, histVars, userSteps>>

CleanAnswer ==
    /\ exp = "clean" /\ exp' = "none" /\ exportDone' = TRUE
    /\ asked' = (asked \/ main = "open")
    /\ UNCHANGED <<startVars, main, others, chat, syncVars, autoExport, dirty, endVars, histVars, userSteps>>

DirtyAnswer ==
    /\ exp = "dirty" /\ exp' = "settling"
    /\ HangUp
    /\ UNCHANGED <<startVars, main, others, asked, syncVars, exportDone, autoExport, dirty, endVars, histVars, userSteps>>

\* 300 ms for the disconnection to reach the core.
Settled ==
    /\ exp = "settling" /\ exp' = "exporting"
    /\ UNCHANGED <<startVars, windowVars, syncVars, exportDone, autoExport, dirty, endVars, histVars, userSteps>>

\* runShutdownExport and its finally. A connected core aborts the export, one that
\* makes no progress for 30 s is given up.
ExportEnds ==
    /\ exp = "exporting" /\ exp' = "showing" /\ exportDone' = TRUE
    /\ \/ core = "up" /\ chat # "open" /\ dirty' = FALSE /\ UNCHANGED unexported
       \/ unexported' = TRUE /\ UNCHANGED dirty
    /\ UNCHANGED <<startVars, windowVars, syncVars, autoExport, endVars, clicked, late, userSteps>>

\* 200 ms later the window is closed.
ExportShown ==
    /\ exp = "showing" /\ exp' = "none"
    /\ asked' = (asked \/ main = "open")
    /\ UNCHANGED <<startVars, main, others, chat, syncVars, exportDone, autoExport, dirty, endVars, histVars, userSteps>>

\* mainWindow.on('closed')
MainClosed ==
    /\ main = "closing" /\ main' = "closed"
    /\ IF Blocking = {} THEN ShutdownOrExit("main-window-closed")
       ELSE HangUp /\ UNCHANGED <<down, reason, others, core, proc>>
    /\ UNCHANGED <<port, zombieTried, retries, asked, syncVars, exportVars, announced, histVars, userSteps>>

ChatClosed ==
    /\ chat = "closing" /\ chat' = "none"
    /\ UNCHANGED <<startVars, main, others, asked, syncVars, exportVars, endVars, histVars, userSteps>>

-----------------------------------------------------------------------------
(* The user and the stream.                                                  *)

Connect ==
    /\ main = "open" /\ chat = "none" /\ userSteps < MaxUser
    /\ chat' = "open" /\ userSteps' = userSteps + 1
    /\ UNCHANGED <<startVars, main, others, asked, syncVars, exportVars, endVars, histVars>>

CommentArrives ==
    /\ chat = "open" /\ core = "up"
    /\ dirty' = TRUE
    /\ late' = (late \/ exportDone \/ exp = "clean")
    /\ UNCHANGED <<startVars, windowVars, syncVars, exp, exportDone, autoExport, endVars, clicked, unexported, userSteps>>

OpenOther(w) ==
    /\ main = "open" /\ w \notin others /\ userSteps < MaxUser
    /\ others' = others \cup {w} /\ userSteps' = userSteps + 1
    /\ UNCHANGED <<startVars, main, chat, asked, syncVars, exportVars, endVars, histVars>>

CloseOther(w) ==
    /\ w \in others /\ others' = others \ {w}
    /\ UNCHANGED <<startVars, main, chat, asked, syncVars, exportVars, endVars, histVars, userSteps>>

-----------------------------------------------------------------------------
User == \/ UserCloses \/ Connect \/ Reset \/ Quit \/ Signal \/ StaleRestart
        \/ \E w \in {"manual", "ponout"} : OpenOther(w) \/ CloseOther(w)
Starting == InitFails \/ ProbeAnswers \/ RetryTimer \/ CoreReady
Closing == \/ AskedCloses \/ QueryDirty \/ CleanAnswer \/ DirtyAnswer \/ Settled
           \/ ExportEnds \/ ExportShown \/ MainClosed
World == PortFrees \/ InitBreaks \/ CommentArrives
Own == \/ Starting \/ SyncStarts \/ SyncEnds \/ Closing
       \/ ChatClosed \/ AllClosed \/ StopDone \/ Relaunch

Next == proc = "running" /\ (User \/ World \/ Own)
Spec == Init /\ [][Next]_shutdownVars

Step(A) == proc = "running" /\ A

\* Timers fire, windows asked to close do, and the core answers init, the
\* import, the query and stop; an export that hangs is given up after 30 s.
FairSpec ==
    /\ Spec
    /\ WF_shutdownVars(Step(Starting))
    /\ WF_shutdownVars(Step(SyncStarts)) /\ WF_shutdownVars(Step(SyncEnds))
    /\ WF_shutdownVars(Step(AskedCloses)) /\ WF_shutdownVars(Step(MainClosed))
    /\ WF_shutdownVars(Step(QueryDirty \/ CleanAnswer \/ DirtyAnswer \/ Settled \/ ExportEnds \/ ExportShown))
    /\ WF_shutdownVars(Step(ChatClosed)) /\ WF_shutdownVars(Step(AllClosed))
    /\ WF_shutdownVars(Step(StopDone)) /\ WF_shutdownVars(Step(Relaunch))

-----------------------------------------------------------------------------
(* Every variable holds a value of its type. *)
ShutdownTypeOK ==
    /\ port \in {"free", "zombie", "race", "live"}
    /\ core \in {"starting", "probing", "waiting", "up", "draining", "off", "fatal"}
    /\ zombieTried \in BOOLEAN /\ retries \in 0..MaxRetries
    /\ main \in {"none", "open", "closing", "closed"}
    /\ others \subseteq {"manual", "ponout"}
    /\ chat \in {"none", "open", "closing"} /\ asked \in BOOLEAN
    /\ sync \in {"none", "armed", "importing", "done"} /\ pendingClose \in BOOLEAN
    /\ exp \in {"none", "asking", "clean", "dirty", "settling", "exporting", "showing"}
    /\ exportDone \in BOOLEAN /\ autoExport \in BOOLEAN /\ dirty \in BOOLEAN
    /\ down \in {"no", "stopping", "stopped"}
    /\ reason \in {"none", "main-window-closed", "window-all-closed", "quit", "signal", "stale", "reset"}
    /\ announced \in BOOLEAN /\ proc \in {"running", "exited"}
    /\ userSteps \in 0..MaxUser
    /\ clicked \in BOOLEAN /\ late \in BOOLEAN /\ unexported \in BOOLEAN

ByWindow == reason \in {"main-window-closed", "window-all-closed"}

(* Closing windows never stops the core under the startup import: the close is *)
(* deferred, and repeated when the import has ended, however often the user    *)
(* clicks meanwhile.                                                          *)
SyncNotCutByClose == ByWindow => ~Syncing

(* With the export enabled, a process that ends through its windows leaves no  *)
(* comment unexported, but for those that came after the database had answered *)
(* and for an export that failed.                                             *)
ExportedBeforeStop == ByWindow /\ autoExport /\ dirty => late \/ unexported

(* Nothing hangs. The start gets out of the probe and the retries, with the     *)
(* main window or with the fatal dialog; and a close of the main window is never *)
(* lost between the import, the query and the export: the process ends, unless   *)
(* the user keeps another window open.                                          *)
AppSettles ==
    /\ <>(main # "none" \/ proc = "exited")
    /\ clicked ~> (proc = "exited" \/ others # {})

(* The process ends only after coreBridge.stop has released the listener.      *)
(* It need not: a second caller of shutdownApp does not wait for the first.     *)
ExitAfterStop == proc = "exited" => core # "draining"
=============================================================================
