----------------------------- MODULE RuntimeFeed -----------------------------
(***************************************************************************)
(* The feed from the hub to the window of the application: ModelQueue      *)
(* writes comments, connection and reactions to shared memory and          *)
(* broadcasts a notice of each; the subscriber task of napi_bridge.rs      *)
(* takes the notices one by one, reads shared memory AGAIN for what they   *)
(* announce, and hands events to core-bridge.js, main.js and the renderer, *)
(* which keep their order.  Hub and subscriber run on different threads of *)
(* the tokio runtime, so the hub may go on between any two steps of the    *)
(* subscriber.                                                             *)
(*                                                                         *)
(* Comments are named by their place in "pushed", which is the cursor the  *)
(* timeline gives them.  A comment already seen only rewrites its entry in *)
(* place and is not broadcast: it changes nothing kept here.               *)
(***************************************************************************)
EXTENDS Integers, Sequences, FiniteSets

CONSTANTS Ids,        \* comment ids
          Authors, AuthorOf, HiddenAuthors, Nobody,
          Streams, NoStream,
          Capacity,   \* entries the timeline keeps (1000)
          MinFit,     \* entries that always fit the byte arena of a bank
          ChanCap,    \* messages the broadcast channel keeps (256)
          MAX_PUSHED, MAX_CONN, MAX_REACT   \* bounds of the runs

ASSUME SizesAssumption ==
  /\ Capacity \in Nat /\ MinFit \in Nat /\ ChanCap \in Nat \ {0}
  /\ MinFit <= Capacity /\ ChanCap + 2 <= MinFit
ASSUME BoundsAssumption ==
  MAX_PUSHED \in Nat /\ MAX_CONN \in Nat /\ MAX_REACT \in Nat
ASSUME AuthorsAssumption ==
  /\ AuthorOf \in [Ids -> Authors] /\ HiddenAuthors \subseteq Authors
  /\ Nobody \notin Authors /\ NoStream \notin Streams

VARIABLES
  conn,      \* main_store.connection
  seen,      \* main_session.seen_comment_ids
  pushed,    \* every comment pushed to the timeline; next_cursor = Len + 1
  first,     \* cursor of the oldest entry the timeline holds
  busy,      \* what the handler in progress has still to do
  pub,       \* first and last cursor of the published bank
  pubConn,   \* connection in shared memory
  reacts,    \* reaction_counts (total), published at once
  chan,      \* broadcast channel towards the subscriber
  hand,      \* the message the subscriber holds, shared memory not yet read
  cursor,    \* comment_cursor of the subscriber
  log,       \* cursors handed to the renderer, in order
  ui,        \* renderer: commentList, the last status, totalReactions
  \* history, read by no action
  lagged,    \* the channel overwrote a message
  wiped,     \* last cursor cleared by a change of stream
  deleted,   \* comments deleted after they were received
  conns

hub == <<conn, seen, pushed, first, busy, pub, pubConn, reacts>>
vars == <<conn, seen, pushed, first, busy, pub, pubConn, reacts, chan, hand,
          cursor, log, ui, lagged, wiped, deleted, conns>>

Conn    == [video : Streams \cup {NoStream}, connected : BOOLEAN, own : BOOLEAN]
Cursors == 1 .. MAX_PUSHED
Idle    == [do |-> "idle", cur |-> 0]
Announcing(k)  == [do |-> "announce", cur |-> k]
PublishingConn == [do |-> "connection", cur |-> 0]

ConnMsg       == [kind |-> "connection", cur |-> 0, id |-> Nobody]
ReactMsg      == [kind |-> "reaction", cur |-> 0, id |-> Nobody]
CommentMsg(k) == [kind |-> "comment", cur |-> k, id |-> pushed[k]]
DeleteMsg(i)  == [kind |-> "deleted", cur |-> 0, id |-> i]
NoMsg         == [kind |-> "none", cur |-> 0, id |-> Nobody]
Kinds == {"connection", "reaction", "comment", "deleted", "none"}

Init ==
  /\ conn = [video |-> NoStream, connected |-> FALSE, own |-> FALSE]
  /\ pubConn = conn
  /\ seen = {} /\ pushed = <<>> /\ first = 1 /\ busy = Idle
  /\ pub = [first |-> 1, last |-> 0]
  /\ reacts = 0 /\ chan = <<>> /\ hand = NoMsg /\ cursor = 0 /\ log = <<>>
  /\ ui = [list |-> {}, conn |-> conn, total |-> 0]
  /\ lagged = FALSE /\ wiped = 0 /\ deleted = {} /\ conns = 0

\* A full channel overwrites its oldest message; the receiver learns only
\* that it lagged, and goes on.
Broadcast(m) ==
  /\ chan' = IF Len(chan) < ChanCap THEN Append(chan, m)
             ELSE Append(Tail(chan), m)
  /\ lagged' = (lagged \/ Len(chan) >= ChanCap)

-----------------------------------------------------------------------------
\* The hub: one command at a time

\* Mutant: only the new entry is written, the parameter publish_entry has for it.
NewestEntryOnly(oldest, newest) == {newest}

\* The suffix of the timeline that is written to the inactive bank: from the
\* newest entry back while the arena has room.
BankStarts(oldest, newest) ==
  {s \in oldest .. newest + 1 : s = oldest \/ s <= newest + 1 - MinFit}

\* Mutant: the timeline never drops its oldest entry.
TimelineUncapped(i) ==
  /\ busy = Idle /\ i \notin seen
  /\ Len(pushed) < MAX_PUSHED
  /\ seen' = seen \cup {i}
  /\ pushed' = Append(pushed, i)
  /\ \E s \in BankStarts(first, Len(pushed')) :
       pub' = [first |-> s, last |-> Len(pushed')]
  /\ busy' = Announcing(Len(pushed'))
  /\ deleted' = deleted \ {i}
  /\ UNCHANGED <<conn, first, pubConn, reacts, chan, hand, cursor, log, ui,
                 lagged, wiped, conns>>

\* Mutant: the bank is published before the comment is pushed.
PublishedThenPushed(i) ==
  /\ busy = Idle /\ i \notin seen
  /\ Len(pushed) < MAX_PUSHED
  /\ seen' = seen \cup {i}
  /\ pushed' = Append(pushed, i)
  /\ first' = IF Len(pushed) + 1 - first >= Capacity THEN first + 1 ELSE first
  /\ pub' = [first |-> first, last |-> Len(pushed)]
  /\ busy' = Announcing(Len(pushed'))
  /\ deleted' = deleted \ {i}
  /\ UNCHANGED <<conn, pubConn, reacts, chan, hand, cursor, log, ui, lagged,
                 wiped, conns>>

\* A comment not seen before in this stream enters the timeline and the
\* published bank; its notice is broadcast later in the same handler.
NewComment(i) ==
  /\ busy = Idle /\ i \notin seen
  /\ Len(pushed) < MAX_PUSHED
  /\ seen' = seen \cup {i}
  /\ pushed' = Append(pushed, i)
  /\ first' = IF Len(pushed) + 1 - first >= Capacity THEN first + 1 ELSE first
  /\ \E s \in BankStarts(first', Len(pushed')) :
       pub' = [first |-> s, last |-> Len(pushed')]
  /\ busy' = Announcing(Len(pushed'))
  /\ deleted' = deleted \ {i}
  /\ UNCHANGED <<conn, pubConn, reacts, chan, hand, cursor, log, ui, lagged,
                 wiped, conns>>

AnnounceComment ==
  /\ busy.do = "announce"
  /\ Broadcast(CommentMsg(busy.cur))
  /\ busy' = Idle
  /\ UNCHANGED <<conn, seen, pushed, first, pub, pubConn, reacts, hand, cursor,
                 log, ui, wiped, deleted, conns>>

\* A deletion leaves the timeline alone: it is only forwarded.  (One of a
\* comment not received, or a second one, finds nothing to remove.)
CommentDeleted(i) ==
  /\ busy = Idle
  /\ i \in seen \ deleted
  /\ Broadcast(DeleteMsg(i))
  /\ deleted' = deleted \cup {i}
  /\ UNCHANGED <<conn, seen, pushed, first, busy, pub, pubConn, reacts, hand,
                 cursor, log, ui, wiped, conns>>

\* push_connection_status broadcasts BEFORE it publishes.
PushConnectionStatus(c) ==
  /\ conn' = c
  /\ Broadcast(ConnMsg)
  /\ busy' = PublishingConn
  /\ UNCHANGED <<pubConn, hand, cursor, log, ui>>

\* Another stream, or none: the stream's memory is cleared, next_cursor is
\* not; the bank of the timeline is left as it was published.
ClearStream ==
  /\ seen' = {} /\ first' = Len(pushed) + 1 /\ reacts' = 0
  /\ wiped' = Len(pushed)

\* connectChat reports the video before it is connected.
ConnectionStateChanged(v, up) ==
  /\ busy = Idle
  /\ conns < MAX_CONN /\ conns' = conns + 1
  /\ IF v # conn.video THEN ClearStream
     ELSE UNCHANGED <<seen, first, reacts, wiped>>
  /\ PushConnectionStatus([video |-> v, connected |-> up,
                           own |-> v = conn.video /\ conn.own])
  /\ UNCHANGED <<pushed, pub, deleted>>

AnnounceStreamOwner ==
  /\ busy = Idle /\ conn.video # NoStream /\ ~conn.own
  /\ PushConnectionStatus([conn EXCEPT !.own = TRUE])
  /\ UNCHANGED <<seen, pushed, first, pub, reacts, wiped, deleted, conns>>

PublishConnection ==
  /\ busy = PublishingConn
  /\ pubConn' = conn /\ busy' = Idle
  /\ UNCHANGED <<conn, seen, pushed, first, pub, reacts, chan, hand, cursor,
                 log, ui, lagged, wiped, deleted, conns>>

\* Counted and published, then broadcast.
IncomingReaction ==
  /\ busy = Idle /\ reacts < MAX_REACT
  /\ reacts' = reacts + 1
  /\ Broadcast(ReactMsg)
  /\ UNCHANGED <<conn, seen, pushed, first, busy, pub, pubConn, hand, cursor,
                 log, ui, wiped, deleted, conns>>

-----------------------------------------------------------------------------
\* The subscriber and, behind it in the same order, the renderer

Take ==
  /\ hand = NoMsg /\ chan # <<>>
  /\ hand' = Head(chan) /\ chan' = Tail(chan)
  /\ UNCHANGED <<hub, cursor, log, ui, lagged, wiped, deleted, conns>>

DeliverConnection ==
  /\ hand.kind = "connection"
  /\ hand' = NoMsg
  /\ ui' = [ui EXCEPT !.conn = pubConn]
  /\ UNCHANGED <<hub, chan, cursor, log, lagged, wiped, deleted, conns>>

DeliverReaction ==
  /\ hand.kind = "reaction"
  /\ hand' = NoMsg
  /\ ui' = [ui EXCEPT !.total = reacts]
  /\ UNCHANGED <<hub, chan, cursor, log, lagged, wiped, deleted, conns>>

DeliverDeletion ==
  /\ hand.kind = "deleted"
  /\ hand' = NoMsg
  /\ ui' = [ui EXCEPT !.list = @ \ {hand.id}]
  /\ UNCHANGED <<hub, chan, cursor, log, lagged, wiped, deleted, conns>>

\* The entries of the bank above the cursor, oldest first.
Unread == {k \in pub.first .. pub.last : k > cursor}

\* The bank does not hold the author: the newest entry read takes the author
\* of the MESSAGE, the others have none.
AuthorShown(k) == IF k = pub.last THEN AuthorOf[hand.id] ELSE Nobody

\* addComment of the renderer: not for a hidden author, and each id once.
Shown(ks) == {pushed[k] : k \in {j \in ks : AuthorShown(j) \notin HiddenAuthors}}

\* The cursors of the bank from "from" on, as the sequence they are sent in.
Batch(from) == [j \in 1 .. pub.last + 1 - from |-> from - 1 + j]

NewestFirst(a, b) == IF a > b THEN a ELSE b

\* Mutant: the entry at the cursor is read again.
DeliverFromCursor ==
  /\ hand.kind = "comment"
  /\ hand' = NoMsg
  /\ LET from == NewestFirst(pub.first, cursor) IN
     /\ log' = log \o Batch(from)
     /\ cursor' = IF from <= pub.last THEN pub.last ELSE cursor
     /\ ui' = [ui EXCEPT !.list = @ \cup Shown(Unread)]
  /\ UNCHANGED <<hub, chan, lagged, wiped, deleted, conns>>

\* Mutant: the renderer is shown the whole bank, not what is new in it.
DeliverWholeBank ==
  /\ hand.kind = "comment"
  /\ hand' = NoMsg
  /\ LET from == NewestFirst(pub.first, cursor + 1) IN
     /\ log' = log \o Batch(from)
     /\ cursor' = IF from <= pub.last THEN pub.last ELSE cursor
  /\ ui' = [ui EXCEPT !.list = @ \cup Shown(pub.first .. pub.last)]
  /\ UNCHANGED <<hub, chan, lagged, wiped, deleted, conns>>

DeliverComment ==
  /\ hand.kind = "comment"
  /\ hand' = NoMsg
  /\ LET from == NewestFirst(pub.first, cursor + 1) IN
     /\ log' = log \o Batch(from)
     /\ cursor' = IF from <= pub.last THEN pub.last ELSE cursor
     /\ ui' = [ui EXCEPT !.list = @ \cup Shown(Unread)]
  /\ UNCHANGED <<hub, chan, lagged, wiped, deleted, conns>>

-----------------------------------------------------------------------------
HubGoesOn == AnnounceComment \/ PublishConnection

Subscriber == \/ Take \/ DeliverConnection \/ DeliverReaction
              \/ DeliverDeletion \/ DeliverComment

Next ==
  \/ \E i \in Ids : NewComment(i) \/ CommentDeleted(i)
  \/ \E v \in Streams, up \in BOOLEAN : ConnectionStateChanged(v, up)
  \/ ConnectionStateChanged(NoStream, FALSE)
  \/ AnnounceStreamOwner \/ IncomingReaction
  \/ HubGoesOn
  \/ Subscriber

Spec == Init /\ [][Next]_vars

-----------------------------------------------------------------------------
AtRest == busy = Idle /\ chan = <<>> /\ hand = NoMsg

Msgs == {m \in [kind : Kinds, cur : 0 .. MAX_PUSHED, id : Ids \cup {Nobody}] :
           m.kind = "comment" => m.cur > 0 /\ m.id \in Ids}

\* Types, and the sizes of the ring, of the bank and of the channel: the
\* timeline holds at most Capacity entries, the bank a suffix of what was
\* pushed, and the subscriber has read no cursor that was not published.
FeedTypeOK ==
  /\ conn \in Conn /\ pubConn \in Conn 
  /\ seen \subseteq Ids /\ deleted \subseteq Ids
  /\ pushed \in Seq(Ids) /\ Len(pushed) <= MAX_PUSHED
  /\ first \in 1 .. Len(pushed) + 1 /\ Len(pushed) + 1 - first <= Capacity
  /\ busy \in {Idle, PublishingConn} \cup {Announcing(k) : k \in 1 .. Len(pushed)}
  /\ pub.last = Len(pushed) /\ pub.first \in 1 .. pub.last + 1
  /\ chan \in Seq(Msgs) /\ Len(chan) <= ChanCap /\ hand \in Msgs
  /\ reacts \in 0 .. MAX_REACT /\ conns \in 0 .. MAX_CONN
  /\ cursor \in 0 .. pub.last /\ log \in Seq(Cursors)
  /\ ui.list \subseteq Ids /\ ui.conn \in Conn /\ ui.total \in 0 .. MAX_REACT
  /\ lagged \in BOOLEAN /\ wiped \in 0 .. Len(pushed)

\* The renderer is given every comment at most once and in the order of the
\* timeline, also across overwritten messages and changes of stream: neither
\* resets a cursor.
DeliveredInOrder ==
  /\ \A i, j \in DOMAIN log : i < j => log[i] < log[j]
  /\ \A i \in DOMAIN log : log[i] <= cursor

\* While the channel has overwritten nothing, no comment of the current stream
\* is passed over, however far the hub runs ahead of the subscriber: the bank
\* still holds all the channel can be behind.
NoLossWithoutLag ==
  ~lagged => \A k \in wiped + 1 .. cursor : \E i \in DOMAIN log : log[i] = k

\* When nothing is under way the view is the state: every comment pushed has
\* been read, and the total of reactions shown is the total counted, from the
\* first reaction of the stream on.
CaughtUpAtRest ==
  AtRest /\ ~lagged => /\ cursor = Len(pushed)
                       /\ reacts > 0 => ui.total = reacts

\* A comment deleted after it was received does not come back to the list when
\* its deletion has gone through.
DeletedNotShown ==
  ~lagged => \A i \in deleted :
    i \in ui.list => \E m \in {hand} \cup {chan[j] : j \in DOMAIN chan} :
                       m.kind = "deleted" /\ m.id = i

\* ConnectionState's comment has shared memory as the copy of record the
\* renderer is served from: with nothing under way it shows the connection.
ConnectionShown == AtRest /\ ~lagged => ui.conn = conn

\* addComment keeps the comments of a hidden listener out of the list.
HiddenNeverShown ==
  \A i \in ui.list : i \in Ids /\ AuthorOf[i] \notin HiddenAuthors
=============================================================================
