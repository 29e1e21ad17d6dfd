------------------------------ MODULE ChatSession ------------------------------
(***************************************************************************)
(* The chat windows of the Electron main process. connectChat opens a hidden *)
(* window on the live chat and, 3 s after it has loaded, injects the scraper; *)
(* a failure schedules a reconnect in 5 s, which is connectChat again. The    *)
(* handlers of a window share four variables of the process with those of    *)
(* every later window (chatWindow, currentVideoId, isManualDisconnect,        *)
(* reconnectTimer), and BrowserWindow.close() only asks: "closed" is emitted  *)
(* on a later turn of the event loop.                                       *)
(***************************************************************************)
EXTENDS Naturals, FiniteSets

CONSTANTS
    Videos,      \* videos the user connects to
    NoVideo,     \* currentVideoId = null
    NoWindow,    \* chatWindow = null
    MaxWindows,  \* bound: windows opened in a behaviour
    MaxUser,     \* bound: connects and disconnects of the user
    MaxFaults    \* bound: page failures, crashes, unrequested closes and reloads

ASSUME SessionAssumption ==
    /\ NoVideo \notin Videos
    /\ NoWindow \notin Nat
    /\ MaxWindows \in Nat /\ MaxUser \in Nat /\ MaxFaults \in Nat

Windows == 1..MaxWindows

VARIABLES
    current,    \* currentVideoId
    manual,     \* isManualDisconnect
    timer,      \* reconnectTimer is set
    chat,       \* chatWindow
    life,       \* what has become of each window
    videoOf,    \* the video its handlers were created for
    injecting,  \* windows whose 3 s injection timeout is pending
    scraping,   \* windows that run the scraper
    userSteps, faults

sessionVars == <<current, manual, timer, chat, life, videoOf, injecting, scraping, userSteps, faults>>

Lives == {"unused", "loading", "open", "closing", "closed"}
Alive(w) == life[w] \in {"loading", "open"}

Init ==
    /\ current = NoVideo /\ manual = FALSE /\ timer = FALSE
    /\ chat = NoWindow
    /\ life = [w \in Windows |-> "unused"]
    /\ videoOf = [w \in Windows |-> NoVideo]
    /\ injecting = {} /\ scraping = {}
    /\ userSteps = 0 /\ faults = 0

-----------------------------------------------------------------------------
\* scheduleReconnect
Schedule == timer' = (timer \/ (~manual /\ current # NoVideo))

\* disconnectChat's effect on the windows: the current one is asked to close.
Closing == IF chat = NoWindow THEN life ELSE [life EXCEPT ![chat] = "closing"]

\* disconnectChat
\* Mutant: the pending reconnect is not cancelled.
DisconnectKeepTimer ==
    /\ manual' = TRUE
    /\ life' = Closing
    /\ chat' = NoWindow /\ current' = NoVideo
    /\ UNCHANGED <<timer, videoOf, injecting, scraping>>

Disconnect ==
    /\ manual' = TRUE
    /\ timer' = FALSE
    /\ life' = Closing
    /\ chat' = NoWindow /\ current' = NoVideo
    /\ UNCHANGED <<videoOf, injecting, scraping>>

\* connectChat: disconnectChat, then a new window for the new video.
Connect(v) ==
    \E w \in Windows :
        /\ life[w] = "unused" /\ \A x \in 1..(w - 1) : life[x] # "unused"
        /\ manual' = FALSE /\ timer' = FALSE
        /\ current' = v /\ chat' = w
        /\ life' = [Closing EXCEPT ![w] = "loading"]
        /\ videoOf' = [videoOf EXCEPT ![w] = v]
        /\ UNCHANGED <<injecting, scraping>>

UserConnects(v) == userSteps < MaxUser /\ userSteps' = userSteps + 1 /\ Connect(v) /\ UNCHANGED faults
UserDisconnects == userSteps < MaxUser /\ userSteps' = userSteps + 1 /\ Disconnect /\ UNCHANGED faults

\* The reconnect timeout: connectChat of the current video. Its own test of
\* isManualDisconnect never fails, as disconnectChat cancels it.
TimerFires ==
    /\ timer
    /\ IF current # NoVideo /\ ~manual THEN Connect(current)
       ELSE timer' = FALSE /\ UNCHANGED <<current, manual, chat, life, videoOf, injecting, scraping>>
    /\ UNCHANGED <<userSteps, faults>>

-----------------------------------------------------------------------------
(* The handlers of window w. They run for windows being closed as well.      *)

\* did-finish-load arms the injection timeout.
Loaded(w) ==
    /\ life[w] = "loading"
    /\ life' = [life EXCEPT ![w] = "open"]
    /\ injecting' = injecting \cup {w}
    /\ UNCHANGED <<current, manual, timer, chat, videoOf, scraping, userSteps, faults>>

\* Mutant: chatWindow is not tested before the injection.
InjectionFiresBlindly(w) ==
    /\ w \in injecting
    /\ injecting' = injecting \ {w}
    /\ scraping' = scraping \cup {chat}
    /\ UNCHANGED <<current, manual, timer, chat, life, videoOf, userSteps, faults>>

\* The timeout injects into chatWindow, whichever window that is by now, if any.
InjectionFires(w) ==
    /\ w \in injecting
    /\ injecting' = injecting \ {w}
    /\ scraping' = IF chat = NoWindow THEN scraping ELSE scraping \cup {chat}
    /\ UNCHANGED <<current, manual, timer, chat, life, videoOf, userSteps, faults>>

\* did-fail-load, render-process-gone, a failed injection.
PageFails(w) ==
    /\ faults < MaxFaults /\ faults' = faults + 1
    /\ life[w] \in {"loading", "open", "closing"}
    /\ scraping' = scraping \ {w}
    /\ Schedule
    /\ UNCHANGED <<current, manual, chat, life, videoOf, injecting, userSteps>>

\* The health check of any live chat window finds the heap too large: it reloads
\* the current window, which loads and is injected again.
HealthReload ==
    /\ faults < MaxFaults /\ faults' = faults + 1
    /\ chat # NoWindow /\ life[chat] = "open"
    /\ life' = [life EXCEPT ![chat] = "loading"]
    /\ scraping' = scraping \ {chat}
    /\ UNCHANGED <<current, manual, timer, chat, videoOf, injecting, userSteps>>

\* Mutant: the closed window is forgotten, and nobody reconnects.
ClosedHandlerNoReconnect(w) ==
    /\ life' = [life EXCEPT ![w] = "closed"]
    /\ scraping' = scraping \ {w}
    /\ chat' = NoWindow
    /\ UNCHANGED <<timer, current, manual, videoOf, injecting, userSteps>>

\* Mutant: the handler leaves chatWindow alone.
ClosedHandlerKeepsWindow(w) ==
    /\ life' = [life EXCEPT ![w] = "closed"]
    /\ scraping' = scraping \ {w}
    /\ Schedule
    /\ UNCHANGED <<current, chat, manual, videoOf, injecting, userSteps>>

\* closed: forgets the current window, whichever window was closed, and
\* reconnects unless the user has disconnected.
ClosedHandler(w) ==
    /\ life' = [life EXCEPT ![w] = "closed"]
    /\ scraping' = scraping \ {w}
    /\ chat' = NoWindow
    /\ Schedule
    /\ UNCHANGED <<current, manual, videoOf, injecting, userSteps>>

Closes(w) == life[w] = "closing" /\ ClosedHandler(w) /\ UNCHANGED faults
DiesUnasked(w) ==
    /\ faults < MaxFaults /\ faults' = faults + 1
    /\ Alive(w) /\ ClosedHandler(w)

-----------------------------------------------------------------------------
User == UserDisconnects \/ \E v \in Videos : UserConnects(v)
Faults == HealthReload \/ \E w \in Windows : PageFails(w) \/ DiesUnasked(w)
Events == \/ TimerFires
          \/ \E w \in Windows : Loaded(w) \/ InjectionFires(w) \/ Closes(w)

Next == User \/ Faults \/ Events
Spec == Init /\ [][Next]_sessionVars

\* Timeouts fire, pages load or fail, and windows asked to close do close.
FairSpec ==
    /\ Spec
    /\ WF_sessionVars(TimerFires)
    /\ \A w \in Windows : /\ WF_sessionVars(Loaded(w))
                          /\ WF_sessionVars(InjectionFires(w))
                          /\ WF_sessionVars(Closes(w))

-----------------------------------------------------------------------------
(* Every variable holds a value of its type. *)
TypeOK ==
    /\ current \in Videos \cup {NoVideo}
    /\ manual \in BOOLEAN /\ timer \in BOOLEAN
    /\ chat \in Windows \cup {NoWindow}
    /\ life \in [Windows -> Lives]
    /\ videoOf \in [Windows -> Videos \cup {NoVideo}]
    /\ injecting \subseteq Windows /\ scraping \subseteq Windows
    /\ userSteps \in 0..MaxUser /\ faults \in 0..MaxFaults

(* After a manual disconnect the process is quiet: no handler of an old window *)
(* still closing, loading or failing arms the reconnect or names a window, so  *)
(* the stream the user left is not joined again.                              *)
QuietAfterDisconnect == manual => ~timer /\ current = NoVideo /\ chat = NoWindow

(* The window the process works with is a live window of the current video:    *)
(* no handler leaves a dead window, or one of another stream, in chatWindow.    *)
ChatWindowIsLive == chat # NoWindow => Alive(chat) /\ videoOf[chat] = current

(* Reconnects do not feed themselves: a request of the user or a fault opens at *)
(* most two windows, the second because the first one's predecessor reports its *)
(* close late. A window that is replaced never causes an endless replacement.   *)
NoReconnectStorm ==
    Cardinality({w \in Windows : life[w] # "unused"}) =< 2 * (userSteps + faults)

(* While the user wants a stream, the session heals: whatever windows fail,     *)
(* crash or finish closing late, a chat window is there again, scraping.       *)
SessionHeals == []<>(current = NoVideo \/ chat \in scraping)

(* The reconnect is for windows that close unexpectedly. One that closes on     *)
(* request reconnects nothing.                                               *)
ReconnectOnlyIfUnexpected ==
    [][ \A w \in Windows :
          life[w] = "closing" /\ life'[w] = "closed" => timer' = timer ]_sessionVars
=============================================================================
