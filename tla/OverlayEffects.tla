---------------------------- MODULE OverlayEffects ----------------------------
(***************************************************************************)
(* Effects from their trigger to the overlay page: the performance engine of  *)
(* the hub, its event stream, and on the page the renderer and the plugins    *)
(* that make effects wait or hold back while paused. One scene; an effect is  *)
(* its number, and its kind says which plugin shows it.                        *)
(***************************************************************************)
EXTENDS Integers, Sequences, FiniteSets

CONSTANTS
    Kinds,          \* kinds of effect that occur
    MaxEffects,     \* max_effects of the engine
    EngineQueue,    \* capacity of the engine's queues
    OverlayLimit,   \* MAX_OVERLAY_EFFECTS of the page
    PageQueue,      \* MAX_QUEUE and TICKER_MAX_QUEUE of the plugins
    MaxFires,       \* bound: triggers
    MaxPauses,      \* bound: pauses and resumes of the user
    MaxUpsets       \* bound: clears of the user and breaks of the event stream

AllKinds == {"fixed", "overlapping", "ticker", "bubble", "screen"}

ASSUME EffectsAssumption ==
    /\ Kinds \subseteq AllKinds
    /\ MaxEffects \in Nat /\ EngineQueue \in Nat \ {0}
    /\ OverlayLimit \in Nat /\ PageQueue \in Nat
    /\ MaxFires \in Nat /\ MaxPauses \in Nat /\ MaxUpsets \in Nat

VARIABLES
    paused,       \* engine: EngineState is Paused
    superchats,   \* engine: superchat_queue
    manuals,      \* engine: manual_queue
    active,       \* engine: active_effects, oldest first
    conn,         \* the page listens to the event stream
    inbox,        \* messages on their way to the page
    overlayPaused,\* overlayPaused of every plugin
    live,         \* activeOverlayEffects
    timers,       \* pending timeouts that decrement it
    showing,      \* Fixed: displays that have not finished
    queue,        \* Fixed: displays that wait
    queueTimer,   \* Fixed: queueTimer is set
    resumeChecks, \* Fixed: intervals set by a resume
    ticker,       \* Sprout: the ticker on display, 0 for none (tickerBusy)
    tickerQueue,  \* Sprout: tickers that wait
    bubbles,      \* Sprout: bubbles with a region
    bubbleQueue,  \* Sprout: bubbles that wait for room
    bubbleTimer,  \* Sprout: queueTimer is set
    spawnLock,    \* Sprout: the bubble whose template is fetched, 0 for none
    unfit,        \* history: bubbles that wait as they found no room on an empty page
    overlay,      \* ScreenOverlay: activeOverlay, "detached" once its node is gone
    fresh,        \* ScreenOverlay: the last trigger is younger than the duration
    checking,     \* ScreenOverlay: fadeoutTimer is set
    kind,         \* of the effects so far
    pauses, upsets,
    held,         \* history: gifts that came while paused and are still owed
    wiped         \* history: effects that waited on the page at a clear

engineVars == <<paused, superchats, manuals, active>>
fixedVars == <<showing, queue, queueTimer, resumeChecks>>
tickerVars == <<ticker, tickerQueue>>
bubbleVars == <<bubbles, bubbleQueue, bubbleTimer, spawnLock, unfit>>
screenVars == <<overlay, fresh, checking>>
pluginVars == <<fixedVars, tickerVars, bubbleVars, screenVars>>
rendererVars == <<live, timers>>
userVars == <<kind, pauses, upsets>>
effectHist == <<held, wiped>>
effectVars == <<engineVars, conn, inbox, overlayPaused, rendererVars, pluginVars, userVars, effectHist>>

Fires == 1..MaxFires
Elements(s) == {s[i] : i \in DOMAIN s}
Waiting == Elements(queue) \cup Elements(tickerQueue) \cup Elements(bubbleQueue)

Init ==
    /\ paused = FALSE /\ superchats = <<>> /\ manuals = <<>> /\ active = <<>>
    /\ conn = TRUE /\ inbox = <<>> /\ overlayPaused = FALSE
    /\ live = 0 /\ timers = 0
    /\ showing = {} /\ queue = <<>> /\ queueTimer = FALSE /\ resumeChecks = 0
    /\ ticker = 0 /\ tickerQueue = <<>>
    /\ bubbles = {} /\ bubbleQueue = <<>> /\ bubbleTimer = FALSE /\ spawnLock = 0
    /\ unfit = {}
    /\ overlay = "none" /\ fresh = FALSE /\ checking = FALSE
    /\ kind = <<>> /\ pauses = 0 /\ upsets = 0
    /\ held = {} /\ wiped = {}

-----------------------------------------------------------------------------
(* The engine.                                                               *)

Fire(i) == [type |-> "performance", id |-> i, paused |-> FALSE]
Pause(b) == [type |-> "pause", id |-> 0, paused |-> b]
ClearAll == [type |-> "performance-clear", id |-> 0, paused |-> FALSE]

Broadcast(msgs) == inbox' = IF conn THEN inbox \o msgs ELSE inbox

\* enqueue: the oldest one gives way.
Enqueue(q, i) == Append(IF Len(q) >= EngineQueue THEN Tail(q) ELSE q, i)

\* expire_active_effects: a number of the oldest effects have run out.
Unexpired == {SubSeq(active, n + 1, Len(active)) : n \in 0..Len(active)}

\* process_queue: gifts first, while there is room. What is fired, and what is
\* left of the queues.
Served(sc, mn, act, halted) ==
    LET all == sc \o mn
        room == IF MaxEffects > Len(act) /\ ~halted THEN MaxEffects - Len(act) ELSE 0
        n == IF room < Len(all) THEN room ELSE Len(all)
    IN  [fired |-> SubSeq(all, 1, n), active |-> act \o SubSeq(all, 1, n),
         superchats |-> SubSeq(sc, n + 1, Len(sc)),
         manuals |-> SubSeq(mn, IF n > Len(sc) THEN n - Len(sc) + 1 ELSE 1, Len(mn))]

Messages(ids) == [j \in DOMAIN ids |-> Fire(ids[j])]

\* The queues as they are left, and the push of what has fired at once, of what
\* was taken from the queues, and of what else the handler tells the pages.
Emit(owed, atOnce, served, then) ==
    /\ superchats' = served.superchats /\ manuals' = served.manuals /\ active' = served.active
    /\ held' = IF conn THEN owed ELSE owed \ Elements(served.fired)
    /\ Broadcast(Messages(atOnce \o served.fired) \o then)

NewFire == Len(kind) < MaxFires /\ \E k \in Kinds : kind' = Append(kind, k)
Newest == Len(kind) + 1
EngineStep == UNCHANGED <<paused, conn, overlayPaused, rendererVars, pluginVars, pauses, upsets>>

\* A comment with a gift: evaluate, or queue_paused_superchat.
Superchat ==
    /\ NewFire
    /\ \E act \in Unexpired :
         LET owed == held \cup (IF paused THEN {Newest} ELSE {})
             overrun == IF Len(superchats) >= EngineQueue THEN {Head(superchats)} ELSE {}
         IN  Emit(owed \ overrun, <<>>, Served(Enqueue(superchats, Newest), manuals, act, paused), <<>>)
    /\ EngineStep /\ UNCHANGED wiped

\* A comment with a keyword, or a reaction: shown at once or never.
Keyword ==
    /\ NewFire
    /\ \E act \in Unexpired :
         IF ~paused /\ Len(act) < MaxEffects
         THEN Emit(held, <<Newest>>, Served(superchats, manuals, Append(act, Newest), FALSE), <<>>)
         ELSE Emit(held, <<>>, Served(superchats, manuals, act, paused), <<>>)
    /\ EngineStep /\ UNCHANGED wiped

\* trigger_manual and the trigger_test family.
Manual ==
    /\ NewFire
    /\ \E act \in Unexpired :
         Emit(held, <<>>, Served(superchats, Enqueue(manuals, Newest), act, paused), <<>>)
    /\ EngineStep /\ UNCHANGED wiped

\* A comment that triggers nothing still serves the queues.
PlainComment ==
    /\ active # <<>>
    /\ \E act \in Unexpired : Emit(held, <<>>, Served(superchats, manuals, act, paused), <<>>)
    /\ EngineStep /\ UNCHANGED <<kind, wiped>>

\* SetPaused(true)
PauseEngine ==
    /\ pauses < MaxPauses /\ pauses' = pauses + 1
    /\ paused' = TRUE /\ Broadcast(<<Pause(TRUE)>>)
    /\ UNCHANGED <<superchats, manuals, active, conn, overlayPaused, rendererVars, pluginVars,
                   kind, upsets, effectHist>>

\* SetPaused(false): the effects that waited are pushed, then the new state.
ResumeEngine ==
    /\ pauses < MaxPauses /\ pauses' = pauses + 1
    /\ paused' = FALSE
    /\ \E act \in Unexpired : Emit(held, <<>>, Served(superchats, manuals, act, FALSE), <<Pause(FALSE)>>)
    /\ UNCHANGED <<conn, overlayPaused, rendererVars, pluginVars, kind, upsets, wiped>>

\* ClearPerformances, of this scene or of all.
ClearPerformances ==
    /\ upsets < MaxUpsets /\ upsets' = upsets + 1
    /\ active' = <<>> /\ superchats' = <<>> /\ manuals' = <<>>
    /\ held' = held \ (Elements(superchats) \cup Elements(manuals))
    /\ Broadcast(<<ClearAll>>)
    /\ UNCHANGED <<paused, conn, overlayPaused, rendererVars, pluginVars, kind, pauses,
                   wiped>>
-----------------------------------------------------------------------------
(* The page: plugins that show one thing after the other. A ...Next operator   *)
(* gives the plugin's next state, from the state its caller has brought it to.  *)

\* Mutant: the display before is not waited for.
FixedNextAtOnce(on, tm) ==
    IF queue = <<>> \/ overlayPaused'
    THEN showing' = on /\ queueTimer' = tm /\ UNCHANGED queue
    ELSE /\ showing' = on \cup {Head(queue)} /\ queue' = Tail(queue)
         /\ queueTimer' = (tm \/ Tail(queue) # <<>>)

\* Fixed.processQueue: the next display once nothing is on display.
FixedNext(on, tm) ==
    IF queue = <<>> \/ overlayPaused' \/ on # {}
    THEN showing' = on /\ queueTimer' = tm /\ UNCHANGED queue
    ELSE /\ showing' = {Head(queue)} /\ queue' = Tail(queue)
         /\ queueTimer' = (tm \/ Tail(queue) # <<>>)

\* The next ticker, once there is none.
TickerNext(on) ==
    IF tickerQueue = <<>> \/ overlayPaused' \/ on # 0
    THEN ticker' = on /\ UNCHANGED tickerQueue
    ELSE ticker' = Head(tickerQueue) /\ tickerQueue' = Tail(tickerQueue)

\* pickRandomX: there may be no room beside others, nor on an empty page for a
\* bubble wider than the part of the page it may use.
Room == BOOLEAN

\* Mutant: a bubble without room is given up.
PlaceOrDrop(i, on, q) ==
    \E room \in Room :
        /\ bubbles' = (IF room THEN on \cup {i} ELSE on) /\ bubbleQueue' = q
        /\ unfit' = unfit \ {i}

\* The bubble is measured and placed where there is room, or waits once more.
Place(i, on, q) ==
    \E room \in Room :
        /\ IF room THEN bubbles' = on \cup {i} /\ bubbleQueue' = q
           ELSE bubbles' = on /\ bubbleQueue' = Append(q, i)
        /\ unfit' = IF room \/ on # {} THEN unfit \ {i} ELSE unfit \cup {i}

\* spawn: wait behind a bubble whose template is fetched, or fetch the template
\* of this one, or have it from the cache.
Spawn(i, on, q) ==
    \/ /\ spawnLock # 0 /\ UNCHANGED <<spawnLock, unfit>>
       /\ bubbles' = on /\ bubbleQueue' = Append(q, i)
    \/ /\ spawnLock = 0 /\ spawnLock' = i
       /\ bubbles' = on /\ bubbleQueue' = q /\ unfit' = unfit \ {i}
    \/ spawnLock = 0 /\ UNCHANGED spawnLock /\ Place(i, on, q)

\* Sprout.processQueue
BubbleNext(on, tm) ==
    IF bubbleQueue = <<>> \/ overlayPaused'
    THEN bubbles' = on /\ bubbleTimer' = tm /\ UNCHANGED <<bubbleQueue, spawnLock, unfit>>
    ELSE /\ Spawn(Head(bubbleQueue), on, Tail(bubbleQueue))
         /\ bubbleTimer' = (tm \/ bubbleQueue' # <<>>)

-----------------------------------------------------------------------------
(* The page: messages.                                                       *)

Full(q) == Len(q) >= PageQueue

\* An effect the renderer or its plugin turns away.
Refused(i) ==
    \/ live >= OverlayLimit
    \/ kind[i] = "fixed" /\ showing # {} /\ Full(queue)
    \/ kind[i] = "ticker" /\ ticker # 0 /\ Full(tickerQueue)
    \/ kind[i] = "bubble" /\ Full(bubbleQueue)

\* showStamp and showTreasure; without noOverlap nothing is waited for.
ShowFixed(i) ==
    /\ IF kind[i] = "overlapping" \/ showing = {}
       THEN showing' = showing \cup {i} /\ UNCHANGED queue
       ELSE queue' = Append(queue, i) /\ UNCHANGED showing
    /\ UNCHANGED <<queueTimer, resumeChecks, tickerVars, bubbleVars, screenVars>>

\* Sprout.show for the ticker design
ShowTicker(i) ==
    /\ IF ticker = 0 THEN ticker' = i /\ UNCHANGED tickerQueue
       ELSE tickerQueue' = Append(tickerQueue, i) /\ UNCHANGED ticker
    /\ UNCHANGED <<fixedVars, bubbleVars, screenVars>>

\* Sprout.show for the other designs
ShowBubble(i) ==
    /\ Spawn(i, bubbles, bubbleQueue)
    /\ UNCHANGED <<fixedVars, tickerVars, bubbleTimer, screenVars>>

\* ScreenOverlay.show: nothing while paused; while there is an overlay, even one
\* that fades out, only the time of the trigger is kept.
ShowScreen ==
    /\ IF overlayPaused THEN UNCHANGED screenVars
       ELSE /\ fresh' = TRUE
            /\ IF overlay # "none" THEN UNCHANGED <<overlay, checking>>
               ELSE overlay' = "shown" /\ checking' = TRUE
    /\ UNCHANGED <<fixedVars, tickerVars, bubbleVars>>

Show(i) ==
    \/ kind[i] \in {"fixed", "overlapping"} /\ ShowFixed(i)
    \/ kind[i] = "ticker" /\ ShowTicker(i)
    \/ kind[i] = "bubble" /\ ShowBubble(i)
    \/ kind[i] = "screen" /\ ShowScreen

\* What has come on display is no longer owed, nor what was turned away.
Settle(lost) == held' = held \ (lost \cup showing' \cup bubbles' \cup {ticker'})

Receive(type) == inbox # <<>> /\ Head(inbox).type = type /\ inbox' = Tail(inbox)
PageStep == UNCHANGED <<engineVars, conn, userVars>>
Tick == PageStep /\ UNCHANGED <<inbox, overlayPaused, rendererVars, wiped>>

\* Renderer.execute: the effect counts as live for its duration even where its
\* plugin turns it away.
Execute ==
    /\ Receive("performance")
    /\ LET i == Head(inbox).id
           watched == kind[i] = "screen" /\ overlay' = "shown" /\ ~overlayPaused
       IN  /\ IF live >= OverlayLimit THEN UNCHANGED rendererVars
              ELSE live' = live + 1 /\ timers' = timers + 1
           /\ IF Refused(i) THEN UNCHANGED pluginVars ELSE Show(i)
           /\ Settle(IF Refused(i) \/ watched THEN {i} ELSE {})
    /\ PageStep /\ UNCHANGED <<overlayPaused, wiped>>

\* Renderer.clear empties the container and the counter; plugins are not told.
Clear ==
    /\ Receive("performance-clear")
    /\ live' = 0 /\ wiped' = wiped \cup Waiting
    /\ overlay' = IF overlay = "shown" THEN "detached" ELSE overlay
    /\ PageStep /\ UNCHANGED <<overlayPaused, timers, fixedVars, tickerVars, bubbleVars, fresh, checking, held>>

\* Mutant: a resume only clears the flag of Fixed.
SetPausedUnchecked ==
    /\ Receive("pause") /\ overlayPaused' = Head(inbox).paused
    /\ IF overlayPaused'
       THEN UNCHANGED <<tickerVars, bubbleVars>>
       ELSE TickerNext(ticker) /\ BubbleNext(bubbles, bubbleTimer)
    /\ UNCHANGED <<fixedVars, screenVars>>
    /\ PageStep /\ Settle({}) /\ UNCHANGED <<rendererVars, wiped>>

\* setPaused of every plugin. On a resume Fixed looks every 500 ms whether its
\* display has ended; the queues of Sprout go on at once.
SetPaused ==
    /\ Receive("pause") /\ overlayPaused' = Head(inbox).paused
    /\ IF overlayPaused'
       THEN UNCHANGED <<resumeChecks, tickerVars, bubbleVars>>
       ELSE resumeChecks' = resumeChecks + 1 /\ TickerNext(ticker) /\ BubbleNext(bubbles, bubbleTimer)
    /\ UNCHANGED <<showing, queue, queueTimer, screenVars>>
    /\ PageStep /\ Settle({}) /\ UNCHANGED <<rendererVars, wiped>>

-----------------------------------------------------------------------------
(* The page: timers and ends of animations.                                  *)

\* The timeout of execute
LiveEnds ==
    /\ timers > 0 /\ timers' = timers - 1 /\ live' = live - 1
    /\ PageStep /\ UNCHANGED <<inbox, overlayPaused, pluginVars, effectHist>>

\* onFinish: the removal of a stamp, or of a treasure by its end or after 14 s
FixedEnds(i) ==
    /\ Tick /\ i \in showing /\ FixedNext(showing \ {i}, queueTimer)
    /\ UNCHANGED <<resumeChecks, tickerVars, bubbleVars, screenVars>> /\ Settle({})

FixedTimer ==
    /\ Tick /\ queueTimer /\ FixedNext(showing, FALSE)
    /\ UNCHANGED <<resumeChecks, tickerVars, bubbleVars, screenVars>> /\ Settle({})

ResumeCheck ==
    /\ Tick /\ resumeChecks > 0 /\ showing = {} /\ resumeChecks' = resumeChecks - 1
    /\ FixedNext({}, queueTimer)
    /\ UNCHANGED <<tickerVars, bubbleVars, screenVars>> /\ Settle({})

\* onfinish of a ticker
TickerEnds ==
    /\ Tick /\ ticker # 0 /\ TickerNext(0)
    /\ UNCHANGED <<fixedVars, bubbleVars, screenVars>> /\ Settle({})

\* onfinish of a bubble, and removeRegion
BubbleEnds(i) ==
    /\ Tick /\ i \in bubbles /\ BubbleNext(bubbles \ {i}, bubbleTimer)
    /\ UNCHANGED <<fixedVars, tickerVars, screenVars>> /\ Settle({})

BubbleTimer ==
    /\ Tick /\ bubbleTimer /\ BubbleNext(bubbles, FALSE)
    /\ UNCHANGED <<fixedVars, tickerVars, screenVars>> /\ Settle({})

\* Mutant: the callback runs although it has run before.
FetchEndsAgain ==
    /\ Tick /\ spawnLock' = 0 /\ Place(spawnLock, bubbles, bubbleQueue)
    /\ UNCHANGED <<fixedVars, tickerVars, bubbleTimer, screenVars>> /\ Settle({})

\* The template has been fetched, or its default is taken. The queue is not
\* served here.
FetchEnds ==
    /\ Tick /\ spawnLock # 0 /\ spawnLock' = 0 /\ Place(spawnLock, bubbles, bubbleQueue)
    /\ UNCHANGED <<fixedVars, tickerVars, bubbleTimer, screenVars>> /\ Settle({})

\* The duration since the last trigger passes.
ScreenAges ==
    /\ Tick /\ fresh /\ fresh' = FALSE
    /\ UNCHANGED <<fixedVars, tickerVars, bubbleVars, overlay, checking>> /\ Settle({})

\* Mutant: the interval ends and leaves the overlay as it is.
ScreenCheckOnly ==
    /\ Tick /\ checking /\ ~fresh /\ checking' = FALSE
    /\ UNCHANGED <<fixedVars, tickerVars, bubbleVars, fresh, overlay>> /\ Settle({})

\* The interval of startFadeoutCheck
ScreenCheck ==
    /\ Tick /\ checking /\ ~fresh /\ checking' = FALSE /\ overlay' = "fading"
    /\ UNCHANGED <<fixedVars, tickerVars, bubbleVars, fresh>> /\ Settle({})

FadeEnds ==
    /\ Tick /\ overlay = "fading" /\ overlay' = "none"
    /\ UNCHANGED <<fixedVars, tickerVars, bubbleVars, fresh, checking>> /\ Settle({})

\* The event stream breaks: what is on its way is lost.
Drop ==
    /\ conn /\ upsets < MaxUpsets /\ upsets' = upsets + 1
    /\ conn' = FALSE /\ inbox' = <<>> /\ held' = held \ {inbox[j].id : j \in DOMAIN inbox}
    /\ UNCHANGED <<engineVars, overlayPaused, rendererVars, pluginVars, kind, pauses, wiped>>

\* It is open again, with a second version message: the page loads anew and
\* subscribes. It is not told whether the engine is paused.
Reload ==
    /\ ~conn /\ conn' = TRUE /\ overlayPaused' = FALSE
    /\ live' = 0 /\ timers' = 0
    /\ showing' = {} /\ queue' = <<>> /\ queueTimer' = FALSE /\ resumeChecks' = 0
    /\ ticker' = 0 /\ tickerQueue' = <<>>
    /\ bubbles' = {} /\ bubbleQueue' = <<>> /\ bubbleTimer' = FALSE /\ spawnLock' = 0
    /\ unfit' = {}
    /\ overlay' = "none" /\ fresh' = FALSE /\ checking' = FALSE
    /\ held' = held \ (Waiting \cup {spawnLock}) /\ wiped' = {}
    /\ UNCHANGED <<engineVars, inbox, userVars>>

-----------------------------------------------------------------------------
Trigger == Superchat \/ Keyword \/ Manual \/ PlainComment
User == PauseEngine \/ ResumeEngine \/ ClearPerformances
Deliver == Execute \/ Clear \/ SetPaused
Timers ==
    \/ LiveEnds \/ FixedTimer \/ ResumeCheck \/ TickerEnds \/ BubbleTimer \/ FetchEnds
    \/ ScreenAges \/ ScreenCheck \/ FadeEnds
    \/ \E i \in Fires : FixedEnds(i) \/ BubbleEnds(i)

Next == Trigger \/ User \/ Deliver \/ Timers \/ Drop \/ Reload
Spec == Init /\ [][Next]_effectVars

-----------------------------------------------------------------------------
(* Every variable holds a value of its type. *)
EffectsTypeOK ==
    /\ paused \in BOOLEAN /\ superchats \in Seq(Fires) /\ manuals \in Seq(Fires)
    /\ active \in Seq(Fires) /\ conn \in BOOLEAN
    /\ inbox \in Seq([type : {"performance", "pause", "performance-clear"}, id : 0..MaxFires,
                      paused : BOOLEAN])
    /\ overlayPaused \in BOOLEAN /\ live \in Int /\ timers \in Nat
    /\ showing \subseteq Fires /\ queue \in Seq(Fires) /\ queueTimer \in BOOLEAN /\ resumeChecks \in Nat
    /\ ticker \in 0..MaxFires /\ tickerQueue \in Seq(Fires)
    /\ bubbles \subseteq Fires /\ bubbleQueue \in Seq(Fires) /\ bubbleTimer \in BOOLEAN
    /\ spawnLock \in 0..MaxFires /\ unfit \subseteq Fires
    /\ overlay \in {"none", "shown", "fading", "detached"} /\ fresh \in BOOLEAN /\ checking \in BOOLEAN
    /\ kind \in Seq(Kinds) /\ pauses \in 0..MaxPauses /\ upsets \in 0..MaxUpsets
    /\ held \subseteq Fires /\ wiped \subseteq Fires

(* The engine's limit holds, and an effect waits in its queues only while the    *)
(* limit is reached or the engine is paused: no handler that makes room, or that *)
(* resumes, leaves the queues unserved.                                          *)
EngineServes ==
    /\ Len(active) =< MaxEffects
    /\ superchats # <<>> \/ manuals # <<>> => paused \/ Len(active) = MaxEffects

(* Two displays that must not overlap never do, whichever of the end of a        *)
(* display, the timer of the queue and the checks of several resumes comes first. *)
ExclusiveAlone ==
    \A i, j \in showing : kind[i] = "fixed" /\ kind[j] = "fixed" => i = j

(* While the page is not paused, whatever waits in a plugin has something that    *)
(* will look at its queue again: no wake-up is lost between pauses, ends and       *)
(* timers. Bubbles are excepted while one of those that wait found no room on an   *)
(* empty page: it sets no wake-up when it queues. An overlay has the interval that *)
(* ends it, paused or not.                                                        *)
BubblesAwake == bubbleQueue # <<>> => bubbles # {} \/ bubbleTimer \/ spawnLock # 0
QueuesAwake ==
    /\ ~overlayPaused =>
         /\ queue # <<>> => showing # {} \/ resumeChecks > 0
         /\ tickerQueue # <<>> => ticker # 0
         /\ BubblesAwake \/ Elements(bubbleQueue) \cap unfit # {}
    /\ overlay \in {"shown", "detached"} => checking

(* A bubble that found no room waits for some, and is looked at again.             *)
NoBubbleSleeps == ~overlayPaused => BubblesAwake

(* A gift that came while the engine was paused is kept until it is shown, but    *)
(* for those a limit, a clear or a break of the stream takes, and for the kind     *)
(* ResumedGiftShows is about.                                                     *)
Kept == Elements(superchats) \cup {inbox[j].id : j \in DOMAIN inbox} \cup Waiting \cup {spawnLock}
GiftsKept == \A i \in held : kind[i] # "screen" => i \in Kept

(* As GiftsKept, for every kind: "on a resume the queue is processed".            *)
ResumedGiftShows == held \subseteq Kept

(* A clear also takes what waits on the page.                                     *)
ClearedStaysCleared == wiped \cap (showing \cup bubbles \cup {ticker}) = {}
=============================================================================
