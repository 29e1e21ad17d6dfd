-------------------------- MODULE AppShutdownProofs --------------------------
(***************************************************************************)
(* The types of AppShutdown and the two promises of closing the main window, *)
(* for any number of retries and of steps of the user. Both rest on what the  *)
(* export must have seen by the time it lets the window go.                   *)
(***************************************************************************)
EXTENDS AppShutdown, TLAPS

\* Until the core is up there is no window, no import and no export.
NotBeforeStart ==
    core \in {"starting", "probing", "waiting", "fatal"} =>
        main = "none" /\ sync = "none" /\ exp = "none" /\ ~exportDone

\* A window that goes, or has gone, was let go by the end of the export.
ClosedIsDone == main \in {"closing", "closed"} => exportDone

\* The export begins, and is over, only when the import is.
ExportAfterSync == exp # "none" \/ exportDone => ~Syncing

\* Who ends the application through its windows has lost the main window.
ByWindowIsClosed == ByWindow => main = "closed"
DownHasReason == (down = "no") = (reason = "none")

\* The export is needed, begins before it is over, and misses only what came late,
\* what failed, and what a core that was already told to stop would not say.
Stopped == down # "no" /\ ~ByWindow
ExportIsNeeded == exp # "none" => autoExport
ExportUnderWay ==
    /\ exp \in {"asking", "clean", "dirty", "settling", "exporting"} => ~exportDone
    /\ exp = "showing" => exportDone
CoreStopped == core \in {"draining", "off"} => down # "no"
CoreUp == main # "none" /\ down = "no" => core = "up"
ExportIsComplete ==
    autoExport /\ dirty /\ (exportDone \/ exp = "clean") => late \/ unexported \/ Stopped

ShutdownInv ==
    /\ ShutdownTypeOK
    /\ NotBeforeStart /\ ClosedIsDone /\ ExportAfterSync
    /\ ByWindowIsClosed /\ DownHasReason
    /\ ExportIsNeeded /\ ExportUnderWay /\ CoreStopped /\ CoreUp /\ ExportIsComplete
-----------------------------------------------------------------------------
USE ShutdownAssumption
USE DEF ShutdownAssumption, shutdownVars, startVars, windowVars, syncVars, exportVars, endVars, histVars,
        Syncing, Exporting, Blocking, NoWindows, ByWindow, Exit, Stopped

LEMMA ShutdownInit == Init => ShutdownInv
<1> SUFFICES ASSUME Init PROVE ShutdownInv
  OBVIOUS
<1>1. ShutdownTypeOK
  <2>1. retries \in 0..MaxRetries /\ userSteps \in 0..MaxUser
    BY DEF Init
  <2>2. autoExport \in BOOLEAN /\ dirty \in BOOLEAN
    BY DEF Init
  <2> QED BY <2>1, <2>2 DEF Init, ShutdownTypeOK
<1>2. NotBeforeStart /\ ClosedIsDone /\ ExportAfterSync /\ ByWindowIsClosed /\ DownHasReason
  BY DEF Init, NotBeforeStart, ClosedIsDone, ExportAfterSync, ByWindowIsClosed, DownHasReason
<1>3. ExportIsNeeded /\ ExportUnderWay /\ CoreStopped /\ CoreUp /\ ExportIsComplete
  BY DEF Init, ExportIsNeeded, ExportUnderWay, CoreStopped, CoreUp, ExportIsComplete
<1> QED BY <1>1, <1>2, <1>3 DEF ShutdownInv

(* The start leaves the windows and the export alone, and CoreReady finds none. *)
LEMMA StartStep ==
    ASSUME ShutdownInv, proc = "running",
           \/ PortFrees
           \/ InitFails
           \/ ProbeAnswers
           \/ InitBreaks
           \/ RetryTimer
           \/ CoreReady
    PROVE  ShutdownInv'
<1> USE DEF ShutdownInv, ShutdownTypeOK, NotBeforeStart, ClosedIsDone, ExportAfterSync, ByWindowIsClosed,
        DownHasReason, ExportIsNeeded, ExportUnderWay, CoreStopped, CoreUp, ExportIsComplete
<1>1. CASE PortFrees
  BY <1>1 DEF PortFrees
<1>2. CASE InitFails
  <2>1. /\ core' \in {"starting", "probing", "waiting", "up", "draining", "off", "fatal"}
        /\ zombieTried' \in BOOLEAN
    BY <1>2 DEF InitFails, Retry
  <2>2. /\ retries' \in 0..MaxRetries
        /\ proc' \in {"running", "exited"}
    BY <1>2 DEF InitFails, Retry
  <2>3. ShutdownTypeOK'
    BY <1>2, <2>1, <2>2 DEF InitFails, Retry
  <2> QED BY <1>2, <2>3 DEF InitFails, Retry
<1>3. CASE ProbeAnswers
  BY <1>3 DEF ProbeAnswers, Retry
<1>4. CASE InitBreaks
  BY <1>4 DEF InitBreaks
<1>5. CASE RetryTimer
  BY <1>5 DEF RetryTimer
<1>6. CASE CoreReady
  BY <1>6 DEF CoreReady
<1> QED BY <1>1, <1>2, <1>3, <1>4, <1>5, <1>6

(* The ways out: only the loss of the main window makes an end one of the windows. *)
LEMMA EndStep ==
    ASSUME ShutdownInv, proc = "running",
           \/ StopDone
           \/ Relaunch
           \/ Reset
           \/ Quit
           \/ Signal
           \/ StaleRestart
           \/ AllClosed
           \/ MainClosed
    PROVE  ShutdownInv'
<1> USE DEF ShutdownInv, ShutdownTypeOK, NotBeforeStart, ClosedIsDone, ExportAfterSync, ByWindowIsClosed,
        DownHasReason, ExportIsNeeded, ExportUnderWay, CoreStopped, CoreUp, ExportIsComplete
<1>1. CASE StopDone
  BY <1>1 DEF StopDone
<1>2. CASE Relaunch
  BY <1>2 DEF Relaunch
<1>3. CASE Reset
  BY <1>3 DEF Reset, Shutdown, HangUp
<1>4. CASE Quit
  <2>1. /\ core' \in {"starting", "probing", "waiting", "up", "draining", "off", "fatal"}
        /\ chat' \in {"none", "open", "closing"}
        /\ others' \subseteq {"manual", "ponout"}
    BY <1>4 DEF Quit, Shutdown, HangUp
  <2>2. /\ down' \in {"no", "stopping", "stopped"}
        /\ reason' \in {"none", "main-window-closed", "window-all-closed", "quit", "signal", "stale", "reset"}
        /\ proc' \in {"running", "exited"}
    BY <1>4 DEF Quit, Shutdown, HangUp
  <2>3. asked' \in BOOLEAN
    BY <1>4 DEF Quit, Shutdown, HangUp
  <2>4. ShutdownTypeOK'
    BY <1>4, <2>1, <2>2, <2>3 DEF Quit, Shutdown, HangUp
  <2> QED BY <1>4, <2>4 DEF Quit, Shutdown, HangUp
<1>5. CASE Signal
  <2>1. /\ core' \in {"starting", "probing", "waiting", "up", "draining", "off", "fatal"}
        /\ chat' \in {"none", "open", "closing"}
        /\ others' \subseteq {"manual", "ponout"}
    BY <1>5 DEF Signal, ShutdownOrExit, Shutdown, HangUp
  <2>2. /\ down' \in {"no", "stopping", "stopped"}
        /\ reason' \in {"none", "main-window-closed", "window-all-closed", "quit", "signal", "stale", "reset"}
        /\ proc' \in {"running", "exited"}
    BY <1>5 DEF Signal, ShutdownOrExit, Shutdown, HangUp
  <2>3. ShutdownTypeOK'
    BY <1>5, <2>1, <2>2 DEF Signal, ShutdownOrExit, Shutdown, HangUp
  <2> QED BY <1>5, <2>3 DEF Signal, ShutdownOrExit, Shutdown, HangUp
<1>6. CASE StaleRestart
  <2>1. /\ core' \in {"starting", "probing", "waiting", "up", "draining", "off", "fatal"}
        /\ chat' \in {"none", "open", "closing"}
        /\ others' \subseteq {"manual", "ponout"}
    BY <1>6 DEF StaleRestart, ShutdownOrExit, Shutdown, HangUp
  <2>2. /\ down' \in {"no", "stopping", "stopped"}
        /\ reason' \in {"none", "main-window-closed", "window-all-closed", "quit", "signal", "stale", "reset"}
        /\ proc' \in {"running", "exited"}
    BY <1>6 DEF StaleRestart, ShutdownOrExit, Shutdown, HangUp
  <2>3. ShutdownTypeOK'
    BY <1>6, <2>1, <2>2 DEF StaleRestart, ShutdownOrExit, Shutdown, HangUp
  <2> QED BY <1>6, <2>3 DEF StaleRestart, ShutdownOrExit, Shutdown, HangUp
<1>7. CASE AllClosed
  BY <1>7 DEF AllClosed, ShutdownOrExit, Shutdown, HangUp
<1>8. CASE MainClosed
  <2>1. /\ core' \in {"starting", "probing", "waiting", "up", "draining", "off", "fatal"}
        /\ chat' \in {"none", "open", "closing"}
        /\ others' \subseteq {"manual", "ponout"}
    BY <1>8 DEF MainClosed, ShutdownOrExit, Shutdown, HangUp
  <2>2. /\ down' \in {"no", "stopping", "stopped"}
        /\ reason' \in {"none", "main-window-closed", "window-all-closed", "quit", "signal", "stale", "reset"}
        /\ proc' \in {"running", "exited"}
    BY <1>8 DEF MainClosed, ShutdownOrExit, Shutdown, HangUp
  <2>3. ShutdownTypeOK'
    BY <1>8, <2>1, <2>2 DEF MainClosed, ShutdownOrExit, Shutdown, HangUp
  <2> QED BY <1>8, <2>3 DEF MainClosed, ShutdownOrExit, Shutdown, HangUp
<1> QED BY <1>1, <1>2, <1>3, <1>4, <1>5, <1>6, <1>7, <1>8

(* The import and the steps of closing the main window. *)
LEMMA CloseStep ==
    ASSUME ShutdownInv, proc = "running",
           \/ SyncStarts
           \/ SyncEnds
           \/ UserCloses
           \/ AskedCloses
           \/ QueryDirty
           \/ CleanAnswer
           \/ DirtyAnswer
           \/ Settled
           \/ ExportEnds
           \/ ExportShown
    PROVE  ShutdownInv'
<1> USE DEF ShutdownInv, ShutdownTypeOK, NotBeforeStart, ClosedIsDone, ExportAfterSync, ByWindowIsClosed,
        DownHasReason, ExportIsNeeded, ExportUnderWay, CoreStopped, CoreUp, ExportIsComplete
<1>1. CASE SyncStarts
  BY <1>1 DEF SyncStarts
<1>2. CASE SyncEnds
  <2>1. asked' \in BOOLEAN
    BY <1>2 DEF SyncEnds
  <2>2. pendingClose' \in BOOLEAN /\ sync' \in {"none", "armed", "importing", "done"}
    BY <1>2 DEF SyncEnds
  <2>3. ShutdownTypeOK'
    BY <1>2, <2>1, <2>2 DEF SyncEnds
  <2> QED BY <1>2, <2>3 DEF SyncEnds
<1>3. CASE UserCloses
  <2>1. /\ main' \in {"none", "open", "closing", "closed"}
        /\ exp' \in {"none", "asking", "clean", "dirty", "settling", "exporting", "showing"}
    BY <1>3 DEF UserCloses, CloseHandler
  <2>2. /\ pendingClose' \in BOOLEAN
        /\ exportDone' \in BOOLEAN
    BY <1>3 DEF UserCloses, CloseHandler
  <2>3. ShutdownTypeOK'
    BY <1>3, <2>1, <2>2 DEF UserCloses, CloseHandler
  <2> QED BY <1>3, <2>3 DEF UserCloses, CloseHandler
<1>4. CASE AskedCloses
  <2>1. /\ main' \in {"none", "open", "closing", "closed"}
        /\ exp' \in {"none", "asking", "clean", "dirty", "settling", "exporting", "showing"}
    BY <1>4 DEF AskedCloses, CloseHandler
  <2>2. /\ pendingClose' \in BOOLEAN
        /\ exportDone' \in BOOLEAN
    BY <1>4 DEF AskedCloses, CloseHandler
  <2>3. asked' \in BOOLEAN
    BY <1>4 DEF AskedCloses
  <2>4. ShutdownTypeOK'
    BY <1>4, <2>1, <2>2, <2>3 DEF AskedCloses
  <2> QED BY <1>4, <2>4 DEF AskedCloses, CloseHandler
<1>5. CASE QueryDirty
  BY <1>5 DEF QueryDirty
<1>6. CASE CleanAnswer
  BY <1>6 DEF CleanAnswer
<1>7. CASE DirtyAnswer
  BY <1>7 DEF DirtyAnswer, HangUp
<1>8. CASE Settled
  BY <1>8 DEF Settled
<1>9. CASE ExportEnds
  <2>1. /\ dirty' \in BOOLEAN
        /\ unexported' \in BOOLEAN
    BY <1>9 DEF ExportEnds
  <2>2. ShutdownTypeOK'
    BY <1>9, <2>1 DEF ExportEnds
  <2> QED BY <1>9, <2>2 DEF ExportEnds
<1>10. CASE ExportShown
  BY <1>10 DEF ExportShown
<1> QED BY <1>1, <1>2, <1>3, <1>4, <1>5, <1>6, <1>7, <1>8, <1>9, <1>10

(* The stream and the other windows: a comment that comes too late is late. *)
LEMMA UserStep ==
    ASSUME ShutdownInv, proc = "running",
           \/ ChatClosed
           \/ Connect
           \/ CommentArrives
           \/ (\E w \in {"manual", "ponout"} : OpenOther(w))
           \/ (\E w \in {"manual", "ponout"} : CloseOther(w))
    PROVE  ShutdownInv'
<1> USE DEF ShutdownInv, ShutdownTypeOK, NotBeforeStart, ClosedIsDone, ExportAfterSync, ByWindowIsClosed,
        DownHasReason, ExportIsNeeded, ExportUnderWay, CoreStopped, CoreUp, ExportIsComplete
<1>1. CASE ChatClosed
  BY <1>1 DEF ChatClosed
<1>2. CASE Connect
  BY <1>2 DEF Connect
<1>3. CASE CommentArrives
  BY <1>3 DEF CommentArrives
<1>4. CASE (\E w \in {"manual", "ponout"} : OpenOther(w))
  BY <1>4 DEF OpenOther
<1>5. CASE (\E w \in {"manual", "ponout"} : CloseOther(w))
  BY <1>5 DEF CloseOther
<1> QED BY <1>1, <1>2, <1>3, <1>4, <1>5

(* Every step keeps the invariant.                                           *)
LEMMA ShutdownStep == ShutdownInv /\ [Next]_shutdownVars => ShutdownInv'
<1> SUFFICES ASSUME ShutdownInv, [Next]_shutdownVars PROVE ShutdownInv'
  OBVIOUS
<1>1. CASE UNCHANGED shutdownVars
  BY <1>1 DEF ShutdownInv, ShutdownTypeOK, NotBeforeStart, ClosedIsDone, ExportAfterSync, ByWindowIsClosed,
        DownHasReason, ExportIsNeeded, ExportUnderWay, CoreStopped, CoreUp, ExportIsComplete
<1>2. CASE Next
  <2>1. proc = "running" /\ (User \/ World \/ Own)
    BY <1>2 DEF Next
  <2>2. CASE User
    BY <2>1, <2>2, EndStep, CloseStep, UserStep DEF User
  <2>3. CASE World
    BY <2>1, <2>3, StartStep, UserStep DEF World
  <2>4. CASE Own
    BY <2>1, <2>4, StartStep, EndStep, CloseStep, UserStep DEF Own, Starting, Closing
  <2> QED BY <2>1, <2>2, <2>3, <2>4
<1> QED BY <1>1, <1>2

(* The inductive invariant holds in every reachable state.                    *)
THEOREM ShutdownInvariant == Spec => []ShutdownInv
BY ShutdownInit, ShutdownStep, PTL DEF Spec

(* Every variable keeps its type, for any number of retries (main.js).         *)
THEOREM ShutdownTypeCorrect == Spec => []ShutdownTypeOK
<1>1. ShutdownInv => ShutdownTypeOK
  BY DEF ShutdownInv
<1> QED BY <1>1, ShutdownInvariant, PTL

(* Closing windows never stops the core under the startup import: the close     *)
(* handler defers (main.js, mainWindow.on('close')), and every way from the      *)
(* loss of the window to shutdownApp passes it.                                 *)
THEOREM ImportIsNotCut == Spec => []SyncNotCutByClose
<1>1. ShutdownInv => SyncNotCutByClose
  BY DEF ShutdownInv, SyncNotCutByClose, ByWindowIsClosed, ClosedIsDone, ExportAfterSync
<1> QED BY <1>1, ShutdownInvariant, PTL

(* With the export enabled, what is left unexported at an end through the        *)
(* windows came after the database had answered, or failed to be exported.       *)
THEOREM NothingUnexported == Spec => []ExportedBeforeStop
<1>1. ShutdownInv => ExportedBeforeStop
  BY DEF ShutdownInv, ExportedBeforeStop, ByWindowIsClosed, ClosedIsDone, ExportIsComplete
<1> QED BY <1>1, ShutdownInvariant, PTL
=============================================================================
