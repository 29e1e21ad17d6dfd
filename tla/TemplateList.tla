----------------------------- MODULE TemplateList -----------------------------
(***************************************************************************)
(* The comment list of a template page: the hub's event stream with the      *)
(* replay a new connection gets, and the renderless list of the runtime in   *)
(* its default flex layout. A comment becomes a card that enters, is active, *)
(* and leaves when it is deleted or pushed out; frames and timers of the     *)
(* browser run between any two messages.                                      *)
(***************************************************************************)
EXTENDS Naturals, Sequences, FiniteSets, SequencesExt

CONSTANTS
    MaxComments,    \* maxComments of the template, and the replay limit
    MaxSent,        \* bound: comments of the stream
    MaxUpsets,      \* bound: reconnects after which the stream's comments come again,
                    \* breaks of the event stream, switches of the scene's visibility
    ResetOnVisible  \* the page reloads when the scene is shown again

ASSUME ListAssumption ==
    /\ MaxComments \in Nat \ {0} /\ MaxSent \in Nat /\ MaxUpsets \in Nat
    /\ ResetOnVisible \in BOOLEAN

VARIABLES
    stored,     \* hub: the replay store, in order
    last,       \* hub: the latest comment of the stream
    deleted,    \* hub: comments a deletion has been broadcast for
    resend,     \* hub: comments about to arrive once more
    visible,    \* hub: sceneVisible
    conn,       \* where the request for the event stream stands
    reply,      \* the comments of the replay, once asked
    inbox,      \* messages on their way to the page
    ever,       \* everConnected
    hidden,     \* hiddenOnce
    phase,      \* phase of each entry, "none" without an entry
    ordered,    \* orderedIds
    dirty,      \* pendingIds: entries without a card yet
    rendering,  \* renderScheduled
    activation, \* activationScheduled
    arming,     \* entries with an activateTimer
    removing,   \* entries with a removeTimer
    pushedOut,  \* entries pushed out, their frame to "leaving" still to come
    forgets, upsets,
    again,      \* history: comments that came while they still had an entry
    retracted   \* history: cards a deletion has reached

hubVars == <<stored, last, deleted, resend, visible>>
wireVars == <<conn, reply, inbox>>
cardVars == <<phase, ordered, dirty, rendering, activation, arming, removing, pushedOut>>
pageVars == <<ever, hidden, cardVars>>
boundVars == <<forgets, upsets>>
listHist == <<again, retracted>>
listVars == <<hubVars, wireVars, pageVars, boundVars, listHist>>

Comments == 1..MaxSent
Shown == {c \in Comments : phase[c] # "none"}
Newest(s, n) == IF Len(s) =< n THEN s ELSE SubSeq(s, Len(s) - n + 1, Len(s))

\* A sequence that holds a comment at most once, without it.
Without(s, c) ==
    IF c \in ToSet(s) THEN RemoveAt(s, CHOOSE i \in DOMAIN s : s[i] = c) ELSE s

\* The members of S in the order they have in s, which holds each of them once:
\* the set of the one sequence that is meant.
InOrderOf(s, S) ==
    {t \in SeqOf(S, Len(s)) :
        /\ ToSet(t) = S
        /\ \A i, j \in DOMAIN t : i < j =>
             \E k, l \in DOMAIN s : k < l /\ t[i] = s[k] /\ t[j] = s[l]}

Message(kind, ids, shown) == [kind |-> kind, ids |-> ids, shown |-> shown]
CommentsMsg(s) == Message("comments", s, TRUE)
DeletedMsg(c) == Message("deleted", <<c>>, TRUE)
ConfigMsg(v) == Message("config", <<>>, v)

\* SseBroadcaster.broadcast reaches the subscribed handlers only.
Broadcast(m) == inbox' = IF conn = "open" THEN Append(inbox, m) ELSE inbox

EmptyPage ==
    /\ phase = [c \in Comments |-> "none"] /\ ordered = <<>> /\ dirty = {}
    /\ rendering = FALSE /\ activation = FALSE /\ arming = {} /\ removing = {} /\ pushedOut = {}

Init ==
    /\ stored = <<>> /\ last = 0 /\ deleted = {} /\ resend = <<>> /\ visible \in BOOLEAN
    /\ conn = "off" /\ reply = <<>> /\ inbox = <<>>
    /\ ever = FALSE /\ hidden = FALSE /\ EmptyPage
    /\ forgets = 0 /\ upsets = 0 /\ again = {} /\ retracted = {}

-----------------------------------------------------------------------------
(* The hub.                                                                  *)

\* A new comment is stored and broadcast in one handler.
Comment ==
    /\ last < MaxSent /\ resend = <<>>
    /\ last' = last + 1 /\ stored' = Append(stored, last + 1)
    /\ Broadcast(CommentsMsg(<<last + 1>>))
    /\ UNCHANGED <<deleted, resend, visible, conn, reply, pageVars, boundVars, listHist>>

\* CommentDeleted
Delete(c) ==
    /\ c =< last /\ c \notin deleted
    /\ deleted' = deleted \cup {c} /\ stored' = Without(stored, c)
    /\ resend' = Without(resend, c)
    /\ Broadcast(DeletedMsg(c))
    /\ UNCHANGED <<last, visible, conn, reply, pageVars, boundVars, listHist>>

\* The user disconnects and connects to the same stream: the hub forgets its
\* comments, and the scraper delivers them once more.
Forget ==
    /\ stored # <<>> /\ resend = <<>>
    /\ upsets < MaxUpsets /\ upsets' = upsets + 1 /\ forgets' = forgets + 1
    /\ resend' = stored /\ stored' = <<>>
    /\ UNCHANGED <<last, deleted, visible, wireVars, pageVars, listHist>>

Resend ==
    /\ resend # <<>> /\ resend' = Tail(resend)
    /\ stored' = Append(stored, Head(resend))
    /\ Broadcast(CommentsMsg(<<Head(resend)>>))
    /\ UNCHANGED <<last, deleted, visible, conn, reply, pageVars, boundVars, listHist>>

\* The user hides or shows the scene.
Toggle ==
    /\ upsets < MaxUpsets /\ upsets' = upsets + 1
    /\ visible' = ~visible /\ Broadcast(ConfigMsg(~visible))
    /\ UNCHANGED <<stored, last, deleted, resend, conn, reply, pageVars, forgets, listHist>>

-----------------------------------------------------------------------------
(* template_sse_inner: the settings and the replay are asked of ModelQueue,    *)
(* and only then the broadcasts are subscribed to.                             *)

\* connectStream, at the load or 3 s after an error; the settings are answered.
Request ==
    /\ conn = "off" /\ conn' = "config" /\ inbox' = <<ConfigMsg(visible)>>
    /\ UNCHANGED <<hubVars, reply, pageVars, boundVars, listHist>>

Recent ==
    /\ conn = "config" /\ conn' = "recent"
    /\ reply' = Newest(stored, MaxComments)
    /\ UNCHANGED <<hubVars, inbox, pageVars, boundVars, listHist>>

\* Mutant: the latest comment is sent before the replay.
SubscribeLatestFirst ==
    /\ conn = "recent" /\ ~ever /\ conn' = "open" /\ ever' = TRUE
    /\ inbox' = Append(inbox, CommentsMsg(Newest(stored, 1))) \o <<CommentsMsg(reply)>>
    /\ reply' = <<>>
    /\ UNCHANGED <<hubVars, hidden, cardVars, boundVars, listHist>>

\* The first onopen of the page.
Subscribe ==
    /\ conn = "recent" /\ ~ever /\ conn' = "open" /\ ever' = TRUE
    /\ inbox' = IF reply = <<>> THEN inbox ELSE Append(inbox, CommentsMsg(reply))
    /\ reply' = <<>>
    /\ UNCHANGED <<hubVars, hidden, cardVars, boundVars, listHist>>

\* location.reload(): a page that starts from nothing.
Reload ==
    /\ conn' = "off" /\ reply' = <<>> /\ inbox' = <<>> /\ ever' = FALSE /\ hidden' = FALSE
    /\ phase' = [c \in Comments |-> "none"] /\ ordered' = <<>> /\ dirty' = {}
    /\ rendering' = FALSE /\ activation' = FALSE
    /\ arming' = {} /\ removing' = {} /\ pushedOut' = {}
    /\ again' = {} /\ retracted' = {}

\* A later onopen reloads the page.
Reopen ==
    /\ conn = "recent" /\ ever /\ Reload
    /\ UNCHANGED <<hubVars, boundVars>>

\* eventSource.onerror
Drop ==
    /\ conn # "off" /\ upsets < MaxUpsets /\ upsets' = upsets + 1
    /\ conn' = "off" /\ reply' = <<>> /\ inbox' = <<>>
    /\ UNCHANGED <<hubVars, pageVars, forgets, listHist>>

-----------------------------------------------------------------------------
(* Messages at the page.                                                     *)

Clear ==
    /\ phase' = [c \in Comments |-> "none"] /\ ordered' = <<>> /\ dirty' = {}
    /\ arming' = {} /\ removing' = {} /\ pushedOut' = {}
    /\ again' = {} /\ retracted' = {}
    /\ UNCHANGED <<rendering, activation>>

\* upsertComment for each comment: a new one enters at the end; one that has an
\* entry keeps its place and phase, and loses its removeTimer. Whether it is
\* bound anew depends on what has changed in it.
Upsert(ids) ==
    LET fresh == ToSet(ids) \ Shown IN
    /\ phase' = [c \in Comments |-> IF c \in fresh THEN "entering" ELSE phase[c]]
    /\ \E t \in InOrderOf(ids, fresh) : ordered' = ordered \o t
    /\ dirty' = dirty \cup fresh
    /\ rendering' \in IF fresh = {} THEN {rendering, TRUE} ELSE {TRUE}
    /\ removing' = removing \ ToSet(ids)
    /\ again' = again \cup (ToSet(ids) \cap Shown)
    /\ retracted' = retracted \ fresh
    /\ UNCHANGED <<activation, arming, pushedOut>>

\* Mutant: the deferred removal is not armed.
RemoveByIdUntimed(c) ==
    IF c \notin Shown \/ c \in removing
    THEN UNCHANGED <<phase, arming, removing, retracted>>
    ELSE /\ phase' = [phase EXCEPT ![c] = "leaving"]
         /\ arming' = arming \ {c} /\ retracted' = retracted \cup {c}
         /\ UNCHANGED removing

\* removeById: nothing to do for a card that is on its way out.
RemoveById(c) ==
    IF c \notin Shown \/ c \in removing
    THEN UNCHANGED <<phase, arming, removing, retracted>>
    ELSE /\ phase' = [phase EXCEPT ![c] = "leaving"]
         /\ arming' = arming \ {c}
         /\ removing' = removing \cup {c} /\ retracted' = retracted \cup {c}

ReceiveComments ==
    /\ inbox # <<>> /\ Head(inbox).kind = "comments"
    /\ inbox' = Tail(inbox) /\ Upsert(Head(inbox).ids)
    /\ UNCHANGED <<hubVars, conn, reply, ever, hidden, boundVars>>

ReceiveDeleted ==
    /\ inbox # <<>> /\ Head(inbox).kind = "deleted"
    /\ inbox' = Tail(inbox) /\ RemoveById(Head(inbox).ids[1])
    /\ UNCHANGED <<hubVars, conn, reply, ever, hidden, boundVars, ordered, dirty, rendering,
                   activation, pushedOut, again>>

\* dispatchConfig and applySceneVisibility
ReceiveConfig ==
    /\ inbox # <<>> /\ conn = "open" /\ Head(inbox).kind = "config"
    /\ IF ~Head(inbox).shown
       THEN Clear /\ hidden' = TRUE /\ inbox' = Tail(inbox) /\ UNCHANGED <<conn, reply, ever>>
       ELSE IF hidden /\ ResetOnVisible THEN Reload
       ELSE inbox' = Tail(inbox) /\ UNCHANGED <<conn, reply, pageVars, listHist>>
    /\ UNCHANGED <<hubVars, boundVars>>

-----------------------------------------------------------------------------
(* Frames and timers of the list.                                            *)

\* Mutant: one card too many is kept.
OverflowBarely == IF Len(ordered) > MaxComments THEN Len(ordered) - MaxComments - 1 ELSE 0

\* trim: the oldest cards beyond maxComments.
Overflow == IF Len(ordered) > MaxComments THEN Len(ordered) - MaxComments ELSE 0
Surplus == {ordered[i] : i \in 1..Overflow}

\* Mutant: the card that is pushed out gets no removal.
PushOutForever(S) ==
    /\ pushedOut' = pushedOut \cup (S \ removing)
    /\ removing' = removing \ S

\* startOverflowLeaveAnimation: a card already on its way out is removed at once.
PushOut(S) ==
    /\ pushedOut' = pushedOut \cup (S \ removing)
    /\ removing' = (removing \cup S) \ (S \cap removing)

\* flushPending, in the frame scheduleRender asked for.
Flush ==
    /\ rendering /\ rendering' = FALSE
    /\ dirty' = {} /\ activation' = TRUE
    /\ ordered' = SubSeq(ordered, Overflow + 1, Len(ordered))
    /\ LET gone == Surplus \cap removing IN
         /\ phase' = [c \in Comments |-> IF c \in gone THEN "none" ELSE phase[c]]
         /\ arming' = arming \ gone
         /\ retracted' = retracted \ gone /\ again' = again \ gone
    /\ PushOut(Surplus)
    /\ UNCHANGED <<hubVars, wireVars, ever, hidden, boundVars>>

\* The frame of a pushed-out card sets it to leaving.
LeaveFrame(c) ==
    /\ c \in pushedOut /\ pushedOut' = pushedOut \ {c}
    /\ phase' = [phase EXCEPT ![c] = "leaving"] /\ arming' = arming \ {c}
    /\ UNCHANGED <<hubVars, wireVars, ever, hidden, ordered, dirty, rendering, activation, removing,
                   boundVars, listHist>>

\* The frame of scheduleActivation arms, or arms anew, the timer of each card
\* that is entering.
ActivationFrame ==
    /\ activation /\ activation' = FALSE
    /\ arming' = arming \cup {c \in ToSet(ordered) \ dirty : phase[c] = "entering"}
    /\ UNCHANGED <<hubVars, wireVars, ever, hidden, phase, ordered, dirty, rendering, removing, pushedOut,
                   boundVars, listHist>>

ActivateTimer(c) ==
    /\ c \in arming /\ arming' = arming \ {c}
    /\ phase' = [phase EXCEPT ![c] = IF @ = "entering" THEN "active" ELSE @]
    /\ UNCHANGED <<hubVars, wireVars, ever, hidden, ordered, dirty, rendering, activation, removing, pushedOut,
                   boundVars, listHist>>

\* Mutant: the activation timer of the entry outlives it.
RemoveTimerOnly(c) ==
    /\ c \in removing /\ removing' = removing \ {c}
    /\ phase' = [phase EXCEPT ![c] = "none"]
    /\ ordered' = Without(ordered, c)
    /\ pushedOut' = pushedOut \ {c} /\ dirty' = dirty \ {c}
    /\ again' = again \ {c} /\ retracted' = retracted \ {c}
    /\ UNCHANGED <<hubVars, wireVars, ever, hidden, arming, rendering, activation, boundVars>>

\* removeEntryNow
RemoveTimer(c) ==
    /\ c \in removing /\ removing' = removing \ {c}
    /\ phase' = [phase EXCEPT ![c] = "none"]
    /\ ordered' = Without(ordered, c) /\ arming' = arming \ {c}
    /\ pushedOut' = pushedOut \ {c} /\ dirty' = dirty \ {c}
    /\ again' = again \ {c} /\ retracted' = retracted \ {c}
    /\ UNCHANGED <<hubVars, wireVars, ever, hidden, rendering, activation, boundVars>>

-----------------------------------------------------------------------------
Hub == Comment \/ Forget \/ Resend \/ Toggle \/ \E c \in Comments : Delete(c)
Connecting == Request \/ Recent \/ Subscribe \/ Reopen
Receive == ReceiveComments \/ ReceiveDeleted \/ ReceiveConfig
Timers == \E c \in Comments : LeaveFrame(c) \/ ActivateTimer(c) \/ RemoveTimer(c)

Next == Hub \/ Connecting \/ Drop \/ Receive \/ Flush \/ ActivationFrame \/ Timers
Spec == Init /\ [][Next]_listVars

\* The hub answers, messages arrive, and the browser runs frames and timers.
FairSpec ==
    /\ Spec
    /\ WF_listVars(Connecting) /\ WF_listVars(Receive)
    /\ WF_listVars(Flush) /\ WF_listVars(ActivationFrame)
    /\ \A c \in Comments :
         WF_listVars(LeaveFrame(c)) /\ WF_listVars(ActivateTimer(c)) /\ WF_listVars(RemoveTimer(c))

-----------------------------------------------------------------------------
(* Every variable holds a value of its type, and timers and frames are pending  *)
(* for entries only.                                                            *)
ListTypeOK ==
    /\ stored \in Seq(Comments) /\ last \in 0..MaxSent /\ deleted \subseteq Comments
    /\ resend \in Seq(Comments) /\ visible \in BOOLEAN
    /\ conn \in {"off", "config", "recent", "open"} /\ reply \in Seq(Comments)
    /\ inbox \in Seq([kind : {"comments", "deleted", "config"}, ids : Seq(Comments), shown : BOOLEAN])
    /\ ever \in BOOLEAN /\ hidden \in BOOLEAN
    /\ phase \in [Comments -> {"none", "entering", "active", "leaving"}]
    /\ ordered \in Seq(Comments) /\ dirty \subseteq Shown
    /\ rendering \in BOOLEAN /\ activation \in BOOLEAN
    /\ arming \subseteq Shown /\ removing \subseteq Shown /\ pushedOut \subseteq Shown
    /\ upsets \in 0..MaxUpsets /\ forgets \in 0..upsets
    /\ again \subseteq Comments /\ retracted \subseteq Comments

(* No card is left over: every entry of the page has its place in the list or  *)
(* a pending removal, whatever deletions, overflows, clears and reloads meet,   *)
(* but for comments that were delivered again while their card was leaving.     *)
CardsAccounted == \A c \in Shown \ again : c \in ToSet(ordered) \cup removing

(* After a flush the list holds at most maxComments cards, each once, and the   *)
(* replay and the live comments together keep the order of the hub.             *)
ListInOrder ==
    /\ ~rendering => Len(ordered) =< MaxComments
    /\ IsInjective(ordered)
    /\ forgets = 0 => \A i, j \in DOMAIN ordered : i < j => ordered[i] < ordered[j]

(* Once the stream is quiet the list comes to rest: no card is left entering,    *)
(* however often its activation was armed anew, none that a deletion has reached, *)
(* and none leaving, but for comments that were delivered again.                 *)
CardsRest ==
    <>[](/\ retracted = {}
         /\ \A c \in Shown : phase[c] = "active" \/ (phase[c] = "leaving" /\ c \in again))

(* In the end no page shows a comment the hub has announced as deleted.         *)
DeletionReachesPage == \A c \in Comments : <>[](c \in deleted => c \notin Shown)

(* A comment that is delivered again neither doubles nor outlives its card.     *)
NoLostCard == \A c \in Shown : c \in ToSet(ordered) \cup removing
=============================================================================
