--------------------------- MODULE ChatSessionProofs ---------------------------
(***************************************************************************)
(* What ChatSession guarantees whatever the user does and whatever fails,   *)
(* for any number of windows. Every handler may run for any old window, so   *)
(* each case of the proof is about a window that need not be the current one. *)
(***************************************************************************)
EXTENDS ChatSession, FiniteSetTheorems, TLAPS

\* The inductive invariant.
IInv == TypeOK /\ QuietAfterDisconnect /\ ChatWindowIsLive

USE SessionAssumption DEF Windows

-----------------------------------------------------------------------------
(* Asking the current window to close touches no other window's life.       *)
LEMMA ClosingTouchesOne ==
    ASSUME TypeOK
    PROVE  /\ Closing \in [Windows -> Lives]
           /\ \A w \in Windows : w # chat => Closing[w] = life[w]
BY DEF TypeOK, Closing, Lives

(* connectChat leaves the process with a fresh window of the video asked for, *)
(* whichever windows are still about to close.                              *)
LEMMA ConnectKeepsInv ==
    ASSUME IInv, NEW v \in Videos, Connect(v),
           userSteps' \in 0..MaxUser, faults' \in 0..MaxFaults
    PROVE  IInv'
<1>1. PICK w \in Windows :
        /\ life[w] = "unused"
        /\ manual' = FALSE /\ timer' = FALSE /\ current' = v /\ chat' = w
        /\ life' = [Closing EXCEPT ![w] = "loading"]
        /\ videoOf' = [videoOf EXCEPT ![w] = v]
        /\ UNCHANGED <<injecting, scraping>>
  BY DEF Connect
<1>2. Closing \in [Windows -> Lives]
  BY ClosingTouchesOne DEF IInv
<1>3. life' \in [Windows -> Lives] /\ life'[w] = "loading"
  BY <1>1, <1>2 DEF Lives
<1>4. videoOf' \in [Windows -> Videos \cup {NoVideo}] /\ videoOf'[w] = v
  BY <1>1 DEF IInv, TypeOK
<1>5. TypeOK'
  BY <1>1, <1>3, <1>4 DEF IInv, TypeOK
<1>6. QuietAfterDisconnect' /\ ChatWindowIsLive'
  BY <1>1, <1>3, <1>4 DEF QuietAfterDisconnect, ChatWindowIsLive, Alive
<1> QED BY <1>5, <1>6 DEF IInv

(* disconnectChat, called by the user, leaves nothing armed and no window    *)
(* named, however many old windows are still to report.                     *)
LEMMA DisconnectKeepsInv ==
    ASSUME IInv, UserDisconnects
    PROVE  IInv'
<1>1. Closing \in [Windows -> Lives]
  BY ClosingTouchesOne DEF IInv
<1>2. /\ manual' = TRUE /\ timer' = FALSE /\ chat' = NoWindow /\ current' = NoVideo
      /\ life' \in [Windows -> Lives]
      /\ userSteps' = userSteps + 1 /\ userSteps < MaxUser
      /\ UNCHANGED <<videoOf, injecting, scraping, faults>>
  BY <1>1 DEF UserDisconnects, Disconnect
<1>4. TypeOK'
  <2>1. userSteps' \in 0..MaxUser
    BY <1>2 DEF IInv, TypeOK
  <2>2. manual' \in BOOLEAN /\ timer' \in BOOLEAN
    BY <1>2, Zenon
  <2> QED BY <1>2, <2>1, <2>2 DEF IInv, TypeOK
<1>3. QuietAfterDisconnect' /\ ChatWindowIsLive'
  BY <1>2 DEF QuietAfterDisconnect, ChatWindowIsLive
<1> QED BY <1>3, <1>4 DEF IInv

(* The closed handler of any window, current or not.                        *)
LEMMA ClosedKeepsInv ==
    ASSUME IInv, NEW w \in Windows, ClosedHandler(w), faults' \in 0..MaxFaults
    PROVE  IInv'
<1>1. life' \in [Windows -> Lives]
  BY DEF IInv, TypeOK, ClosedHandler, Lives
<1>2. timer' = (timer \/ (~manual /\ current # NoVideo))
  BY DEF ClosedHandler, Schedule
<1>3. TypeOK'
  BY <1>1, <1>2 DEF IInv, TypeOK, ClosedHandler
<1>4. QuietAfterDisconnect' /\ ChatWindowIsLive'
  BY <1>2 DEF IInv, TypeOK, ClosedHandler, QuietAfterDisconnect, ChatWindowIsLive
<1> QED BY <1>3, <1>4 DEF IInv

(* The reconnect timer.                                                     *)
LEMMA TimerKeepsInv ==
    ASSUME IInv, TimerFires
    PROVE  IInv'
<1>1. CASE current # NoVideo /\ ~manual
  <2>1. current \in Videos /\ Connect(current)
    BY <1>1 DEF IInv, TypeOK, TimerFires
  <2>2. userSteps' \in 0..MaxUser /\ faults' \in 0..MaxFaults
    BY DEF IInv, TypeOK, TimerFires
  <2> QED BY <2>1, <2>2, ConnectKeepsInv
<1>2. CASE ~(current # NoVideo /\ ~manual)
  BY <1>2 DEF TimerFires, IInv, TypeOK, QuietAfterDisconnect, ChatWindowIsLive, Alive
<1> QED BY <1>1, <1>2

(* A page that loads, alone or after a reload by the health check.           *)
LEMMA LoadKeepsInv ==
    ASSUME IInv, HealthReload \/ \E w \in Windows : Loaded(w)
    PROVE  IInv'
<1>1. CASE HealthReload
  <2>1. life' = [life EXCEPT ![chat] = "loading"] /\ chat \in Windows
    BY <1>1 DEF HealthReload, IInv, TypeOK
  <2>2. life' \in [Windows -> Lives] /\ life'[chat] = "loading"
    BY <2>1 DEF IInv, TypeOK, Lives
  <2>3. TypeOK'
    BY <1>1, <2>2 DEF IInv, TypeOK, HealthReload
  <2>4. QuietAfterDisconnect' /\ ChatWindowIsLive'
    BY <1>1, <2>2 DEF IInv, HealthReload, QuietAfterDisconnect, ChatWindowIsLive, Alive
  <2> QED BY <2>3, <2>4 DEF IInv
<1>2. ASSUME NEW w \in Windows, Loaded(w) PROVE IInv'
  <2>1. life' \in [Windows -> Lives] /\ \A x \in Windows : Alive(x) => Alive(x)'
    BY <1>2 DEF IInv, TypeOK, Loaded, Lives, Alive
  <2>2. TypeOK'
    BY <1>2, <2>1 DEF IInv, TypeOK, Loaded
  <2>3. QuietAfterDisconnect' /\ ChatWindowIsLive'
    BY <1>2, <2>1 DEF IInv, TypeOK, Loaded, QuietAfterDisconnect, ChatWindowIsLive
  <2> QED BY <2>2, <2>3 DEF IInv
<1> QED BY <1>1, <1>2

(* A failing page and an injection change no window that is named.           *)
LEMMA PageKeepsInv ==
    ASSUME IInv, NEW w \in Windows, PageFails(w) \/ InjectionFires(w)
    PROVE  IInv'
<1>1. CASE PageFails(w)
  BY <1>1 DEF IInv, TypeOK, PageFails, Schedule, QuietAfterDisconnect, ChatWindowIsLive, Alive
<1>2. CASE InjectionFires(w)
  BY <1>2 DEF IInv, TypeOK, InjectionFires, QuietAfterDisconnect, ChatWindowIsLive, Alive
<1> QED BY <1>1, <1>2

-----------------------------------------------------------------------------
(* The initial state satisfies the invariant: no window, no video, no timer. *)
LEMMA InitInv == Init => IInv
<1> SUFFICES ASSUME Init PROVE IInv
  OBVIOUS
<1>1. TypeOK
  <2>1. userSteps \in 0..MaxUser /\ faults \in 0..MaxFaults
    BY DEF Init
  <2>2. manual \in BOOLEAN /\ timer \in BOOLEAN
    BY Zenon DEF Init
  <2>3. /\ current \in Videos \cup {NoVideo} /\ chat \in Windows \cup {NoWindow}
        /\ injecting \subseteq Windows /\ scraping \subseteq Windows
    BY DEF Init
  <2>4. life \in [Windows -> Lives] /\ videoOf \in [Windows -> Videos \cup {NoVideo}]
    BY DEF Init, Lives
  <2> QED BY <2>1, <2>2, <2>3, <2>4 DEF TypeOK
<1>2. QuietAfterDisconnect /\ ChatWindowIsLive
  BY DEF Init, QuietAfterDisconnect, ChatWindowIsLive
<1> QED BY <1>1, <1>2 DEF IInv

(* Every step of the user, of a timer or of a window's handler keeps it.     *)
LEMMA NextInv == IInv /\ [Next]_sessionVars => IInv'
<1> SUFFICES ASSUME IInv, [Next]_sessionVars PROVE IInv'
  OBVIOUS
<1>1. ASSUME NEW v \in Videos, UserConnects(v) PROVE IInv'
  <2>1. userSteps' \in 0..MaxUser /\ faults' \in 0..MaxFaults /\ Connect(v)
    BY <1>1 DEF UserConnects, IInv, TypeOK
  <2> QED BY <2>1, ConnectKeepsInv
<1>2. CASE UserDisconnects
  BY <1>2, DisconnectKeepsInv
<1>3. CASE TimerFires
  BY <1>3, TimerKeepsInv
<1>4. CASE HealthReload \/ \E w \in Windows : Loaded(w)
  BY <1>4, LoadKeepsInv
<1>5. ASSUME NEW w \in Windows, PageFails(w) \/ InjectionFires(w) PROVE IInv'
  BY <1>5, PageKeepsInv
<1>6. ASSUME NEW w \in Windows, Closes(w) \/ DiesUnasked(w) PROVE IInv'
  <2>1. ClosedHandler(w) /\ faults' \in 0..MaxFaults
    BY <1>6 DEF Closes, DiesUnasked, IInv, TypeOK
  <2> QED BY <2>1, ClosedKeepsInv
<1>7. CASE UNCHANGED sessionVars
  BY <1>7 DEF sessionVars, IInv, TypeOK, QuietAfterDisconnect, ChatWindowIsLive, Alive
<1> QED BY <1>1, <1>2, <1>3, <1>4, <1>5, <1>6, <1>7 DEF Next, User, Faults, Events

(* The inductive invariant holds in every reachable state: types, silence     *)
(* after a disconnect, and a current window that is alive.                  *)
THEOREM SessionInvariant == Spec => []IInv
BY InitInv, NextInv, PTL DEF Spec

(* Every variable keeps its type, for any number of windows, steps and faults. *)
THEOREM SessionTypeCorrect == Spec => []TypeOK
<1>1. IInv => TypeOK
  BY DEF IInv
<1> QED BY <1>1, SessionInvariant, PTL

(* After a manual disconnect no handler of main.js's old windows arms the     *)
(* reconnect, names a window or a video.                                     *)
THEOREM DisconnectIsQuiet == Spec => []QuietAfterDisconnect
<1>1. IInv => QuietAfterDisconnect
  BY DEF IInv
<1> QED BY <1>1, SessionInvariant, PTL

(* The window in chatWindow is alive and of the current video, though every   *)
(* handler of every older window works on the same variable.                 *)
THEOREM CurrentWindowLives == Spec => []ChatWindowIsLive
<1>1. IInv => ChatWindowIsLive
  BY DEF IInv
<1> QED BY <1>1, SessionInvariant, PTL

-----------------------------------------------------------------------------
(* Reconnects do not feed themselves. A window that is closing owes at most  *)
(* one more window, by its closed handler; a timer that is set owes one, and  *)
(* a second by the window it replaces. What is opened and what is owed grows  *)
(* with the user's steps and the faults only.                                *)
Used == {w \in Windows : life[w] # "unused"}
Leaving == {w \in Windows : life[w] = "closing"}
OwedByTimer == IF timer THEN (IF chat # NoWindow THEN 2 ELSE 1) ELSE 0
Paid == 2 * (userSteps + faults)

OwedIsPaid == Cardinality(Used) + Cardinality(Leaving) + OwedByTimer =< Paid

LEMMA WindowCounts ==
    /\ IsFiniteSet(Used) /\ IsFiniteSet(Leaving)
    /\ Cardinality(Used) \in Nat /\ Cardinality(Leaving) \in Nat
<1>1. IsFiniteSet(Windows)
  BY FS_Interval
<1>2. IsFiniteSet(Used) /\ IsFiniteSet(Leaving)
  BY <1>1, FS_Subset DEF Used, Leaving
<1> QED BY <1>2, FS_CardinalityType

(* The window asked to close is one that was not closing yet.                *)
LEMMA ClosingOwes ==
    ASSUME IInv
    PROVE  /\ \A w \in Windows : (Closing[w] # "unused") <=> (w \in Used)
           /\ LET next == {w \in Windows : Closing[w] = "closing"} IN
              /\ IsFiniteSet(next)
              /\ Cardinality(next) = Cardinality(Leaving) + (IF chat # NoWindow THEN 1 ELSE 0)
<1> DEFINE next == {w \in Windows : Closing[w] = "closing"}
<1>1. CASE chat = NoWindow
  <2>1. Closing = life /\ next = Leaving
    BY <1>1 DEF Closing, Leaving
  <2> QED BY <1>1, <2>1, WindowCounts DEF Used
<1>2. CASE chat # NoWindow
  <2>1. chat \in Windows /\ Alive(chat) /\ life \in [Windows -> Lives]
    BY <1>2 DEF IInv, TypeOK, ChatWindowIsLive
  <2>2. Closing = [life EXCEPT ![chat] = "closing"]
    BY <1>2 DEF Closing
  <2>3. next = Leaving \cup {chat} /\ chat \notin Leaving
    BY <2>1, <2>2 DEF Leaving, Alive
  <2>4. \A w \in Windows : (Closing[w] # "unused") <=> (w \in Used)
    BY <2>1, <2>2 DEF Used, Alive
  <2> HIDE DEF next
  <2>5. IsFiniteSet(next) /\ Cardinality(next) = Cardinality(Leaving) + 1
    BY <2>3, WindowCounts, FS_AddElement
  <2> QED BY <1>2, <2>4, <2>5 DEF next
<1> QED BY <1>1, <1>2

(* connectChat opens one window and asks at most one to close.               *)
LEMMA ConnectOwes ==
    ASSUME IInv, NEW v \in Videos, Connect(v)
    PROVE  /\ Cardinality(Used') = Cardinality(Used) + 1
           /\ Cardinality(Leaving') = Cardinality(Leaving) + (IF chat # NoWindow THEN 1 ELSE 0)
           /\ OwedByTimer' = 0
<1>1. PICK w \in Windows :
        /\ life[w] = "unused" /\ timer' = FALSE
        /\ life' = [Closing EXCEPT ![w] = "loading"]
  BY DEF Connect
<1>2. Closing \in [Windows -> Lives]
  BY ClosingTouchesOne DEF IInv
<1>3. Closing[w] = "unused"
  BY <1>1, ClosingOwes DEF Used, IInv
<1>4. Used' = Used \cup {w} /\ w \notin Used
  BY <1>1, <1>2, ClosingOwes DEF Used
<1>5. Leaving' = {x \in Windows : Closing[x] = "closing"}
  BY <1>1, <1>2, <1>3 DEF Leaving
<1>6. Cardinality(Used') = Cardinality(Used) + 1
  BY <1>4, WindowCounts, FS_AddElement
<1>7. Cardinality(Leaving') = Cardinality(Leaving) + (IF chat # NoWindow THEN 1 ELSE 0)
  BY <1>5, ClosingOwes
<1>8. OwedByTimer' = 0
  BY <1>1 DEF OwedByTimer
<1> QED BY <1>6, <1>7, <1>8

LEMMA UserPays ==
    ASSUME IInv, OwedIsPaid, User
    PROVE  OwedIsPaid'
<1>1. userSteps \in Nat /\ faults \in Nat
  BY DEF IInv, TypeOK
<1>2. userSteps' = userSteps + 1 /\ faults' = faults
  BY DEF User, UserDisconnects, UserConnects
<1>3. OwedByTimer \in {0, 1, 2}
  BY DEF OwedByTimer
<1>4. Paid \in Nat /\ Paid' = Paid + 2
  BY <1>1, <1>2 DEF Paid
<1>5. ASSUME NEW v \in Videos, UserConnects(v) PROVE OwedIsPaid'
  <2>1. /\ Cardinality(Used') = Cardinality(Used) + 1
        /\ Cardinality(Leaving') = Cardinality(Leaving) + (IF chat # NoWindow THEN 1 ELSE 0)
        /\ OwedByTimer' = 0
    BY <1>5, ConnectOwes DEF UserConnects
  <2> QED BY <1>3, <1>4, <2>1, WindowCounts DEF OwedIsPaid
<1>6. CASE UserDisconnects
  <2>1. life' = Closing /\ timer' = FALSE
    BY <1>6 DEF UserDisconnects, Disconnect
  <2>2. Used' = Used
    BY <2>1, ClosingOwes DEF Used
  <2>3. Leaving' = {x \in Windows : Closing[x] = "closing"} /\ OwedByTimer' = 0
    BY <2>1 DEF Leaving, OwedByTimer
  <2>4. Cardinality(Leaving') = Cardinality(Leaving) + (IF chat # NoWindow THEN 1 ELSE 0)
    BY <2>3, ClosingOwes
  <2> QED BY <1>3, <1>4, <2>2, <2>3, <2>4, WindowCounts DEF OwedIsPaid
<1> QED BY <1>5, <1>6 DEF User

(* The timer opens the window it owed, and the window that one replaces owes  *)
(* the other.                                                               *)
LEMMA TimerPays ==
    ASSUME IInv, OwedIsPaid, TimerFires
    PROVE  OwedIsPaid'
<1>1. Paid' = Paid /\ Paid \in Nat
  BY DEF TimerFires, Paid, IInv, TypeOK
<1>2. OwedByTimer = (IF chat # NoWindow THEN 2 ELSE 1)
  BY DEF TimerFires, OwedByTimer
<1>3. CASE current # NoVideo /\ ~manual
  <2>1. current \in Videos /\ Connect(current)
    BY <1>3 DEF IInv, TypeOK, TimerFires
  <2>2. /\ Cardinality(Used') = Cardinality(Used) + 1
        /\ Cardinality(Leaving') = Cardinality(Leaving) + (IF chat # NoWindow THEN 1 ELSE 0)
        /\ OwedByTimer' = 0
    BY <2>1, ConnectOwes
  <2> QED BY <1>1, <1>2, <2>2, WindowCounts DEF OwedIsPaid
<1>4. CASE ~(current # NoVideo /\ ~manual)
  <2>1. UNCHANGED life /\ timer' = FALSE
    BY <1>4 DEF TimerFires
  <2>2. Used' = Used /\ Leaving' = Leaving /\ OwedByTimer' = 0
    BY <2>1 DEF Used, Leaving, OwedByTimer
  <2> QED BY <1>1, <1>2, <2>2, WindowCounts DEF OwedIsPaid
<1> QED BY <1>3, <1>4

(* A window asked to close exchanges its debt for the timer's; one that dies  *)
(* unasked is a fault, which pays for the timer.                             *)
LEMMA ClosedPays ==
    ASSUME IInv, OwedIsPaid, NEW w \in Windows, Closes(w) \/ DiesUnasked(w)
    PROVE  OwedIsPaid'
<1>1. life' = [life EXCEPT ![w] = "closed"] /\ chat' = NoWindow /\ userSteps' = userSteps
  BY DEF Closes, DiesUnasked, ClosedHandler
<1>2. life \in [Windows -> Lives] /\ userSteps \in Nat /\ faults \in Nat
  BY DEF IInv, TypeOK
<1>3. Used' = Used
  BY <1>1, <1>2 DEF Used, Closes, DiesUnasked, Alive
<1>4. OwedByTimer' \in {0, 1} /\ OwedByTimer \in {0, 1, 2} /\ (timer => OwedByTimer # 0)
  BY <1>1 DEF OwedByTimer
<1>5. CASE Closes(w)
  <2>1. Leaving' = Leaving \ {w} /\ w \in Leaving
    BY <1>1, <1>2, <1>5 DEF Leaving, Closes
  <2>2. Cardinality(Leaving') = Cardinality(Leaving) - 1
    BY <2>1, WindowCounts, FS_RemoveElement
  <2>3. Paid' = Paid /\ Paid \in Nat
    BY <1>1, <1>2, <1>5 DEF Paid, Closes
  <2> QED BY <1>3, <1>4, <2>2, <2>3, WindowCounts DEF OwedIsPaid
<1>6. CASE DiesUnasked(w)
  <2>1. Leaving' = Leaving
    BY <1>1, <1>2, <1>6 DEF Leaving, DiesUnasked, Alive
  <2>2. Paid' = Paid + 2 /\ Paid \in Nat
    BY <1>1, <1>2, <1>6 DEF Paid, DiesUnasked
  <2> QED BY <1>3, <1>4, <2>1, <2>2, WindowCounts DEF OwedIsPaid
<1> QED BY <1>5, <1>6

(* What is left of the handlers opens no window and asks none to close.      *)
LEMMA PagesPay ==
    ASSUME IInv, OwedIsPaid,
           HealthReload \/ \E w \in Windows : PageFails(w) \/ Loaded(w) \/ InjectionFires(w)
    PROVE  OwedIsPaid'
<1>1. /\ life \in [Windows -> Lives] /\ userSteps \in Nat /\ faults \in Nat
      /\ chat # NoWindow => chat \in Windows
  BY DEF IInv, TypeOK
<1>2. Used' = Used /\ Leaving' = Leaving
  BY <1>1 DEF Used, Leaving, HealthReload, PageFails, Loaded, InjectionFires
<1>3. UNCHANGED <<userSteps, chat>>
  BY DEF HealthReload, PageFails, Loaded, InjectionFires
<1>4. OwedByTimer \in {0, 1, 2} /\ OwedByTimer' \in {0, 1, 2}
  BY DEF OwedByTimer
<1>5. CASE UNCHANGED timer /\ (faults' = faults \/ faults' = faults + 1)
  <2>1. OwedByTimer' = OwedByTimer
    BY <1>3, <1>5 DEF OwedByTimer
  <2>2. Paid \in Nat /\ (Paid' = Paid \/ Paid' = Paid + 2)
    BY <1>1, <1>3, <1>5 DEF Paid
  <2> QED BY <1>2, <1>4, <2>1, <2>2, WindowCounts DEF OwedIsPaid
<1>6. CASE faults' = faults + 1
  <2>1. Paid \in Nat /\ Paid' = Paid + 2
    BY <1>1, <1>3, <1>6 DEF Paid
  <2> QED BY <1>2, <1>4, <2>1, WindowCounts DEF OwedIsPaid
<1> QED BY <1>5, <1>6 DEF HealthReload, PageFails, Loaded, InjectionFires

LEMMA StepPays == IInv /\ OwedIsPaid /\ [Next]_sessionVars => OwedIsPaid'
<1> SUFFICES ASSUME IInv, OwedIsPaid, [Next]_sessionVars PROVE OwedIsPaid'
  OBVIOUS
<1>1. CASE UNCHANGED sessionVars
  BY <1>1 DEF sessionVars, OwedIsPaid, Used, Leaving, OwedByTimer, Paid
<1> QED BY <1>1, UserPays, TimerPays, ClosedPays, PagesPay DEF Next, Faults, Events

(* A step of the user or a fault opens at most two chat windows, however many  *)
(* closed handlers of old windows schedule a reconnect (scheduleReconnect and  *)
(* the closed handler of main.js).                                           *)
THEOREM ReconnectsAreCaused == Spec => []NoReconnectStorm
<1>1. Init => OwedIsPaid
  <2> SUFFICES ASSUME Init PROVE OwedIsPaid
    OBVIOUS
  <2>1. Used = {} /\ Leaving = {} /\ OwedByTimer = 0 /\ Paid = 0
    BY DEF Init, Used, Leaving, OwedByTimer, Paid
  <2> QED BY <2>1, FS_EmptySet DEF OwedIsPaid
<1>2. IInv /\ OwedIsPaid => NoReconnectStorm
  <2> SUFFICES ASSUME IInv, OwedIsPaid PROVE NoReconnectStorm
    OBVIOUS
  <2>1. OwedByTimer \in {0, 1, 2} /\ Paid \in Nat
    BY DEF OwedByTimer, Paid, IInv, TypeOK
  <2>2. Cardinality(Used) =< Paid
    BY <2>1, WindowCounts DEF OwedIsPaid
  <2> QED BY <2>2 DEF NoReconnectStorm, Used, Paid
<1> QED BY <1>1, <1>2, SessionInvariant, StepPays, PTL DEF Spec
=============================================================================
