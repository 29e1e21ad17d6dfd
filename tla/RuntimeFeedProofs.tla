-------------------------- MODULE RuntimeFeedProofs --------------------------
(***************************************************************************)
(* Proofs about RuntimeFeed, for any comments, streams, ring, channel and  *)
(* bounds.  That nothing is passed over is not inductive: the invariant    *)
(* says besides how far the announced comments can be ahead of the         *)
(* cursor.  While nothing is overwritten, a comment in the channel is      *)
(* followed by a message for each later one, so what is announced is at    *)
(* most a channel and a message in hand ahead of the cursor; what is       *)
(* pushed is one more; and the bank holds that much of the stream.         *)
(***************************************************************************)
EXTENDS RuntimeFeed, SequenceTheorems, TLAPS

\* The last comment whose notice has been broadcast.
Announced == IF busy.do = "announce" THEN Len(pushed) - 1 ELSE Len(pushed)

\* The timeline starts at the change of stream, or holds Capacity entries; the
\* bank holds all of it or MinFit entries, and is empty only at the start.
BankHolds ==
  /\ first <= wiped + 1 \/ first <= Len(pushed) + 1 - Capacity
  /\ pub.first <= wiped + 1 \/ pub.first <= Len(pushed) + 1 - MinFit
  /\ pub.first <= pub.last \/ pub.last = 0
  /\ busy.do = "announce" => busy.cur = Len(pushed)

\* A message follows for every comment announced later.
QueueInStep ==
  /\ \A i \in DOMAIN chan : chan[i].kind = "comment" =>
       chan[i].cur <= Announced /\ Announced - chan[i].cur <= Len(chan) - i
  /\ hand.kind = "comment" =>
       hand.cur <= Announced /\ Announced - hand.cur <= Len(chan)

\* An announced comment that is not read has a message before it, or its own.
MessageOnTheWay ==
  cursor < Announced =>
    \/ hand.kind = "comment" /\ hand.cur <= cursor + 1
    \/ \E i \in DOMAIN chan : chan[i].kind = "comment" /\ chan[i].cur <= cursor + 1

FeedInv == /\ FeedTypeOK /\ BankHolds /\ DeliveredInOrder /\ NoLossWithoutLag
           /\ ~lagged => QueueInStep /\ MessageOnTheWay

-----------------------------------------------------------------------------
(* The types, in parts.                                                      *)

HubTypes ==
  /\ conn \in Conn /\ pubConn \in Conn 
  /\ seen \subseteq Ids /\ deleted \subseteq Ids
  /\ pushed \in Seq(Ids) /\ Len(pushed) <= MAX_PUSHED
  /\ first \in 1 .. Len(pushed) + 1 /\ Len(pushed) + 1 - first <= Capacity
  /\ busy \in {Idle, PublishingConn} \cup {Announcing(k) : k \in 1 .. Len(pushed)}
  /\ pub.last = Len(pushed) /\ pub.first \in 1 .. pub.last + 1
  /\ reacts \in 0 .. MAX_REACT /\ conns \in 0 .. MAX_CONN
  /\ wiped \in 0 .. Len(pushed)
ChanTypes == chan \in Seq(Msgs) /\ Len(chan) <= ChanCap /\ lagged \in BOOLEAN
UiTypes == ui.list \subseteq Ids /\ ui.conn \in Conn /\ ui.total \in 0 .. MAX_REACT
ReadTypes == hand \in Msgs /\ cursor \in 0 .. pub.last /\ log \in Seq(Cursors)

LEMMA TypesInParts ==
  FeedTypeOK <=> HubTypes /\ ChanTypes /\ UiTypes /\ ReadTypes
BY DEF FeedTypeOK, HubTypes, ChanTypes, UiTypes, ReadTypes

(* A message is one of its kinds, and a comment's has its place.             *)
LEMMA MessageTypes ==
  ASSUME HubTypes
  PROVE  /\ ConnMsg \in Msgs /\ ReactMsg \in Msgs /\ NoMsg \in Msgs
         /\ \A k \in 1 .. Len(pushed) : CommentMsg(k) \in Msgs
         /\ \A i \in Ids : DeleteMsg(i) \in Msgs
<1>1. \A k \in 1 .. Len(pushed) : pushed[k] \in Ids
  BY DEF HubTypes
<1> QED BY <1>1, BoundsAssumption, SMT
     DEF ConnMsg, ReactMsg, NoMsg, CommentMsg, DeleteMsg, Msgs, Kinds, HubTypes

(* Sending: the channel keeps its limit, and unless it lags it only grows.   *)
LEMMA Sent ==
  ASSUME ChanTypes, NEW m \in Msgs, Broadcast(m)
  PROVE  /\ ChanTypes'
         /\ ~lagged' => ~lagged /\ chan' = Append(chan, m)
<1>1. CASE Len(chan) < ChanCap
  BY <1>1, SizesAssumption, SMT DEF ChanTypes, Broadcast
<1>2. CASE ~(Len(chan) < ChanCap)
  <2>1. chan # <<>> /\ Len(chan) = ChanCap
    BY <1>2, SizesAssumption, SMT DEF ChanTypes
  <2>2. Tail(chan) \in Seq(Msgs) /\ Len(Tail(chan)) = Len(chan) - 1
    BY <2>1, HeadTailProperties DEF ChanTypes
  <2>3. chan' \in Seq(Msgs) /\ Len(chan') = ChanCap
    BY <1>2, <2>1, <2>2, SMT DEF Broadcast
  <2>4. lagged' = TRUE
    <3>1. Len(chan) >= ChanCap
      BY <2>1, SizesAssumption, SMT
    <3> QED BY <3>1, Zenon DEF Broadcast
  <2> QED BY <2>3, <2>4, SizesAssumption, SMT DEF ChanTypes
<1> QED BY <1>1, <1>2

(* A message that announces nothing leaves the queue in step, and so does the *)
(* notice of the last comment pushed.                                         *)
LEMMA SentInStep ==
  ASSUME ChanTypes, HubTypes, hand \in Msgs, cursor \in Nat,
         NEW m \in Msgs, chan' = Append(chan, m),
         hand' = hand, cursor' = cursor, QueueInStep, MessageOnTheWay,
         Announced' \in Nat, Announced \in Nat,
         \/ Announced' = Announced /\ m.kind # "comment"
         \/ Announced' = Announced + 1 /\ m.kind = "comment" /\ m.cur = Announced'
  PROVE  QueueInStep' /\ MessageOnTheWay'
<1>1. Len(chan') = Len(chan) + 1 /\ DOMAIN chan' = 1 .. Len(chan) + 1
  BY SMT DEF ChanTypes
<1>2. \A i \in 1 .. Len(chan) : chan'[i] = chan[i] /\ chan[i] \in Msgs
  BY SMT DEF ChanTypes
<1>3. chan'[Len(chan) + 1] = m
  BY SMT DEF ChanTypes
<1>4. DOMAIN chan = 1 .. Len(chan) /\ Len(chan) \in Nat
  BY SMT DEF ChanTypes
<1>5. \A x \in Msgs : x.cur \in Nat
  BY BoundsAssumption, SMT DEF Msgs
<1>6. QueueInStep'
  <2>1. ASSUME NEW i \in 1 .. Len(chan) + 1, chan'[i].kind = "comment"
        PROVE  chan'[i].cur <= Announced' /\ Announced' - chan'[i].cur <= Len(chan') - i
    <3>1. CASE i = Len(chan) + 1
      BY <2>1, <3>1, <1>1, <1>3, <1>4, <1>5, SMT
    <3>2. CASE i \in 1 .. Len(chan)
      BY <2>1, <3>2, <1>1, <1>2, <1>4, <1>5, SMT DEF QueueInStep
    <3> QED BY <2>1, <3>1, <3>2, <1>4, SMT
  <2>2. hand'.kind = "comment" =>
          hand'.cur <= Announced' /\ Announced' - hand'.cur <= Len(chan')
    BY <1>1, <1>4, <1>5, SMT DEF QueueInStep
  <2> HIDE DEF Announced
  <2> QED BY <2>1, <2>2, <1>1 DEF QueueInStep
<1>7. MessageOnTheWay'
  <2> SUFFICES ASSUME cursor < Announced'
      PROVE  \/ hand.kind = "comment" /\ hand.cur <= cursor + 1
             \/ \E i \in DOMAIN chan' : chan'[i].kind = "comment" /\ chan'[i].cur <= cursor + 1
    BY DEF MessageOnTheWay
  <2>1. CASE cursor < Announced
    BY <2>1, <1>1, <1>2, <1>4, SMT DEF MessageOnTheWay
  <2>2. CASE ~(cursor < Announced)
    <3>1. m.kind = "comment" /\ m.cur = cursor + 1
      BY <2>2, SMT
    <3> QED BY <3>1, <1>1, <1>3, <1>4, SMT
  <2> QED BY <2>1, <2>2
<1> QED BY <1>6, <1>7

-----------------------------------------------------------------------------
(* The steps of the hub.                                                     *)

\* What a step of the hub leaves alone, but for the channel.
Read == <<hand, cursor, log, ui>>

(* The order and the completeness of what was read concern the reader only.  *)
LEMMA UnreadStep ==
  ASSUME FeedInv, UNCHANGED Read, lagged' \in BOOLEAN, ~lagged' => ~lagged,
         HubTypes', wiped' >= wiped
  PROVE  DeliveredInOrder' /\ NoLossWithoutLag'
<1>1. DeliveredInOrder'
  BY DEF FeedInv, DeliveredInOrder, Read
<1>2. NoLossWithoutLag'
  <2>1. wiped \in Int /\ wiped' \in Int /\ cursor \in Int
    BY SMT DEF FeedInv, FeedTypeOK, HubTypes
  <2>2. SUFFICES ASSUME ~lagged, NEW k, k \in wiped' + 1 .. cursor
        PROVE  \E i \in DOMAIN log : log[i] = k
    BY DEF NoLossWithoutLag, Read
  <2>3. k \in wiped + 1 .. cursor
    <3>1. wiped' >= wiped
      OBVIOUS
    <3>2. \A a, b, c \in Int : a >= b => a + 1 .. c \subseteq b + 1 .. c
      BY SMT
    <3>3. wiped' + 1 .. cursor \subseteq wiped + 1 .. cursor
      BY <2>1, <3>1, <3>2
    <3> QED BY <2>2, <3>3
  <2> QED BY <2>2, <2>3 DEF FeedInv, NoLossWithoutLag
<1> QED BY <1>1, <1>2

LEMMA NewCommentStep ==
  ASSUME FeedInv, NEW i \in Ids, NewComment(i)
  PROVE  FeedInv'
<1> USE DEF FeedInv
<1>1. HubTypes /\ ChanTypes /\ UiTypes /\ ReadTypes
  BY TypesInParts
<1>2. /\ pushed' \in Seq(Ids) /\ Len(pushed') = Len(pushed) + 1
      /\ Len(pushed) \in Nat
  BY <1>1, SMT DEF NewComment, HubTypes
<1>3. HubTypes' /\ BankHolds'
  <2>1. PICK s \in BankStarts(first', Len(pushed')) :
          pub' = [first |-> s, last |-> Len(pushed')]
    BY DEF NewComment
  <2>2. /\ first' \in 1 .. Len(pushed') /\ Len(pushed') + 1 - first' <= Capacity
        /\ first' <= wiped + 1 \/ first' <= Len(pushed') + 1 - Capacity
    BY <1>1, <1>2, SizesAssumption, SMT DEF NewComment, HubTypes, BankHolds
  <2>3. /\ s \in 1 .. Len(pushed')
        /\ s <= wiped + 1 \/ s <= Len(pushed') + 1 - MinFit
    BY <1>1, <1>2, <2>2, SizesAssumption, SMT DEF BankStarts, HubTypes
  <2>4. busy' = Announcing(Len(pushed'))
    BY DEF NewComment
  <2>5. HubTypes'
    <3>1. busy' \in {Announcing(k) : k \in 1 .. Len(pushed')}
      BY <1>2, <2>4, SMT
    <3>2. pub'.last = Len(pushed') /\ pub'.first \in 1 .. pub'.last + 1
      BY <1>2, <2>1, <2>3, SMT
    <3>3. Len(pushed') <= MAX_PUSHED /\ seen' \subseteq Ids /\ deleted' \subseteq Ids
      BY <1>1, <1>2, BoundsAssumption, SMT DEF NewComment, HubTypes
    <3>4. /\ wiped' \in 0 .. Len(pushed') /\ first' \in 1 .. Len(pushed') + 1
          /\ Len(pushed') + 1 - first' <= Capacity
      BY <1>1, <1>2, <2>2, SMT DEF NewComment, HubTypes
    <3> QED BY <1>1, <1>2, <3>1, <3>2, <3>3, <3>4 DEF NewComment, HubTypes
  <2>6. BankHolds'
    BY <1>2, <2>1, <2>2, <2>3, <2>4, SMT DEF NewComment, BankHolds, Announcing
  <2> QED BY <2>5, <2>6
<1>4. ChanTypes' /\ UiTypes' /\ ReadTypes'
  <2>1. cursor \in 0 .. pub'.last
    BY <1>1, <1>2, <1>3, SMT DEF ReadTypes, HubTypes
  <2> QED BY <1>1, <2>1 DEF NewComment, ChanTypes, UiTypes, ReadTypes
<1>5. Announced' = Announced
  BY <1>1, <1>2, SMT DEF NewComment, Announced, Announcing, Idle
<1>6. DeliveredInOrder' /\ NoLossWithoutLag'
  BY <1>1, <1>3, <1>4, UnreadStep, SMT DEF NewComment, Read, ChanTypes, HubTypes
<1>7. ~lagged' => QueueInStep' /\ MessageOnTheWay'
  BY <1>5 DEF NewComment, QueueInStep, MessageOnTheWay
<1> QED BY <1>3, <1>4, <1>6, <1>7
     DEF FeedTypeOK, HubTypes, ChanTypes, UiTypes, ReadTypes

LEMMA AnnounceCommentStep ==
  ASSUME FeedInv, AnnounceComment
  PROVE  FeedInv'
<1> USE DEF FeedInv
<1>1. HubTypes /\ ChanTypes /\ UiTypes /\ ReadTypes
  BY TypesInParts
<1>2. busy.cur = Len(pushed) /\ Len(pushed) \in Nat \ {0}
  BY <1>1, SMT DEF AnnounceComment, BankHolds, HubTypes, Idle, PublishingConn, Announcing
<1> DEFINE m == CommentMsg(busy.cur)
<1>3. m \in Msgs /\ m.kind = "comment" /\ m.cur = Len(pushed)
  BY <1>1, <1>2, MessageTypes, SMT DEF CommentMsg
<1>4. ChanTypes' /\ (~lagged' => ~lagged /\ chan' = Append(chan, m))
  BY <1>1, <1>3, Sent DEF AnnounceComment
<1>5. Announced' = Announced + 1 /\ Announced' = Len(pushed) /\ Announced \in Nat
  BY <1>2, SMT DEF AnnounceComment, Announced, Idle
<1>6. HubTypes' /\ UiTypes' /\ ReadTypes' /\ BankHolds'
  BY <1>1, SMT DEF AnnounceComment, HubTypes, UiTypes, ReadTypes, BankHolds, Idle
<1>7. DeliveredInOrder' /\ NoLossWithoutLag'
  BY <1>1, <1>4, <1>6, UnreadStep, SMT DEF AnnounceComment, Read, ChanTypes, HubTypes
<1>8. ASSUME ~lagged' PROVE QueueInStep' /\ MessageOnTheWay'
  <2>1. hand \in Msgs /\ cursor \in Nat /\ hand' = hand /\ cursor' = cursor
    BY <1>1, SMT DEF ReadTypes, HubTypes, AnnounceComment
  <2> HIDE DEF m, Announced
  <2> QED BY <1>1, <1>3, <1>4, <1>5, <1>8, <2>1, SentInStep, SMT
<1> QED BY <1>4, <1>6, <1>7, <1>8
     DEF FeedTypeOK, HubTypes, ChanTypes, UiTypes, ReadTypes

(* A message that announces no comment, sent by a handler that leaves the    *)
(* timeline in place or starts it anew.                                      *)
LEMMA OtherMessageStep ==
  ASSUME FeedInv, HubTypes', BankHolds', UNCHANGED Read, wiped' >= wiped,
         Len(pushed') = Len(pushed), pub' = pub,
         busy.do # "announce", busy'.do # "announce",
         NEW m \in Msgs, m.kind # "comment", Broadcast(m)
  PROVE  FeedInv'
<1> USE DEF FeedInv
<1>1. HubTypes /\ ChanTypes /\ UiTypes /\ ReadTypes
  BY TypesInParts
<1>2. ChanTypes' /\ (~lagged' => ~lagged /\ chan' = Append(chan, m))
  BY <1>1, Sent
<1>3. Announced' = Announced /\ Announced \in Nat
  BY <1>1, SMT DEF Announced, HubTypes
<1>4. UiTypes' /\ ReadTypes'
  BY <1>1 DEF UiTypes, ReadTypes, Read
<1>5. DeliveredInOrder' /\ NoLossWithoutLag'
  BY <1>2, UnreadStep, SMT DEF ChanTypes
<1>6. ASSUME ~lagged' PROVE QueueInStep' /\ MessageOnTheWay'
  <2>1. hand \in Msgs /\ cursor \in Nat /\ hand' = hand /\ cursor' = cursor
    BY <1>1, SMT DEF ReadTypes, HubTypes, Read
  <2> HIDE DEF Announced
  <2> QED BY <1>1, <1>2, <1>3, <1>6, <2>1, SentInStep, SMT
<1> QED BY <1>2, <1>4, <1>5, <1>6
     DEF FeedTypeOK, HubTypes, ChanTypes, UiTypes, ReadTypes

LEMMA CommentDeletedStep ==
  ASSUME FeedInv, NEW i \in Ids, CommentDeleted(i)
  PROVE  FeedInv'
<1>1. HubTypes /\ BankHolds
  BY TypesInParts DEF FeedInv
<1>2. HubTypes' /\ BankHolds'
  BY <1>1, SMT DEF CommentDeleted, HubTypes, BankHolds
<1>3. /\ UNCHANGED Read /\ wiped' >= wiped /\ Len(pushed') = Len(pushed)
      /\ pub' = pub /\ busy.do # "announce" /\ busy'.do # "announce"
  BY <1>1, SMT DEF CommentDeleted, Read, Idle, HubTypes
<1>4. DeleteMsg(i) \in Msgs /\ DeleteMsg(i).kind # "comment" /\ Broadcast(DeleteMsg(i))
  BY <1>1, MessageTypes, SMT DEF CommentDeleted, DeleteMsg
<1> QED BY <1>2, <1>3, <1>4, OtherMessageStep

LEMMA IncomingReactionStep ==
  ASSUME FeedInv, IncomingReaction
  PROVE  FeedInv'
<1>1. HubTypes /\ BankHolds
  BY TypesInParts DEF FeedInv
<1>2. HubTypes' /\ BankHolds'
  BY <1>1, BoundsAssumption, SMT DEF IncomingReaction, HubTypes, BankHolds
<1>3. /\ UNCHANGED Read /\ wiped' >= wiped /\ Len(pushed') = Len(pushed)
      /\ pub' = pub /\ busy.do # "announce" /\ busy'.do # "announce"
  BY <1>1, SMT DEF IncomingReaction, Read, Idle, HubTypes
<1>4. ReactMsg \in Msgs /\ ReactMsg.kind # "comment" /\ Broadcast(ReactMsg)
  BY <1>1, MessageTypes, SMT DEF IncomingReaction, ReactMsg
<1> QED BY <1>2, <1>3, <1>4, OtherMessageStep

(* Both handlers of the connection end in push_connection_status.            *)
LEMMA PushConnectionStatusStep ==
  ASSUME FeedInv, NEW c \in Conn, PushConnectionStatus(c), busy = Idle,
         UNCHANGED <<pushed, pub, deleted>>, conns' \in 0 .. MAX_CONN,
         ClearStream \/ UNCHANGED <<seen, first, reacts, wiped>>
  PROVE  FeedInv'
<1>1. HubTypes /\ BankHolds
  BY TypesInParts DEF FeedInv
<1>2. HubTypes' /\ BankHolds' /\ wiped' >= wiped
  <2>1. /\ seen' \subseteq Ids /\ first' \in 1 .. Len(pushed) + 1
        /\ Len(pushed) + 1 - first' <= Capacity /\ reacts' \in 0 .. MAX_REACT
        /\ wiped' \in 0 .. Len(pushed) /\ wiped' >= wiped
        /\ first' <= wiped' + 1 \/ first' <= Len(pushed) + 1 - Capacity
        /\ pub.first <= wiped' + 1 \/ pub.first <= Len(pushed) + 1 - MinFit
    BY <1>1, SizesAssumption, BoundsAssumption, SMT DEF ClearStream, HubTypes, BankHolds
  <2>2. HubTypes'
    BY <1>1, <2>1, BoundsAssumption, SMT DEF PushConnectionStatus, HubTypes
  <2>3. BankHolds'
    <3>1. busy'.do # "announce"
      BY SMT DEF PushConnectionStatus, PublishingConn
    <3>2. pushed' = pushed /\ pub' = pub
      OBVIOUS
    <3> QED BY <1>1, <2>1, <3>1, <3>2 DEF BankHolds
  <2> QED BY <2>1, <2>2, <2>3
<1>3. /\ UNCHANGED Read /\ Len(pushed') = Len(pushed)
      /\ pub' = pub /\ busy.do # "announce" /\ busy'.do # "announce"
  BY SMT DEF PushConnectionStatus, Read, Idle, PublishingConn
<1>4. ConnMsg \in Msgs /\ ConnMsg.kind # "comment" /\ Broadcast(ConnMsg)
  BY <1>1, MessageTypes, SMT DEF PushConnectionStatus, ConnMsg
<1> QED BY <1>2, <1>3, <1>4, OtherMessageStep

LEMMA ConnectionStateChangedStep ==
  ASSUME FeedInv, NEW v \in Streams \cup {NoStream}, NEW up \in BOOLEAN,
         ConnectionStateChanged(v, up)
  PROVE  FeedInv'
<1> DEFINE c == [video |-> v, connected |-> up, own |-> v = conn.video /\ conn.own]
<1>1. c \in Conn
  BY DEF Conn
<1>2. PushConnectionStatus(c)
  BY DEF ConnectionStateChanged
<1>3. busy = Idle /\ UNCHANGED <<pushed, pub, deleted>>
  BY DEF ConnectionStateChanged
<1>4. ClearStream \/ UNCHANGED <<seen, first, reacts, wiped>>
  BY Zenon DEF ConnectionStateChanged
<1>5. conns' \in 0 .. MAX_CONN
  BY BoundsAssumption, SMT DEF ConnectionStateChanged, FeedInv, FeedTypeOK
<1> HIDE DEF c
<1> QED BY <1>1, <1>2, <1>3, <1>4, <1>5, PushConnectionStatusStep

LEMMA AnnounceStreamOwnerStep ==
  ASSUME FeedInv, AnnounceStreamOwner
  PROVE  FeedInv'
<1> DEFINE c == [conn EXCEPT !.own = TRUE]
<1>1. c \in Conn
  BY DEF Conn, FeedInv, FeedTypeOK
<1>2. PushConnectionStatus(c)
  BY DEF AnnounceStreamOwner
<1>3. busy = Idle /\ UNCHANGED <<pushed, pub, deleted, seen, first, reacts, wiped>>
  BY DEF AnnounceStreamOwner
<1>4. conns' \in 0 .. MAX_CONN
  BY DEF AnnounceStreamOwner, FeedInv, FeedTypeOK
<1> HIDE DEF c
<1> QED BY <1>1, <1>2, <1>3, <1>4, PushConnectionStatusStep

LEMMA PublishConnectionStep ==
  ASSUME FeedInv, PublishConnection
  PROVE  FeedInv'
<1> USE DEF FeedInv
<1>1. HubTypes /\ ChanTypes /\ UiTypes /\ ReadTypes
  BY TypesInParts
<1>2. HubTypes' /\ ChanTypes' /\ UiTypes' /\ ReadTypes' /\ BankHolds'
  BY <1>1, SMT DEF PublishConnection, HubTypes, ChanTypes, UiTypes, ReadTypes, BankHolds, Idle
<1>3. Announced' = Announced
  BY SMT DEF PublishConnection, Announced, Idle, PublishingConn
<1>4. ~lagged' => QueueInStep' /\ MessageOnTheWay'
  BY <1>3 DEF PublishConnection, QueueInStep, MessageOnTheWay
<1>5. DeliveredInOrder' /\ NoLossWithoutLag'
  BY DEF PublishConnection, DeliveredInOrder, NoLossWithoutLag
<1> QED BY <1>2, <1>4, <1>5
     DEF FeedTypeOK, HubTypes, ChanTypes, UiTypes, ReadTypes

-----------------------------------------------------------------------------
(* The steps of the subscriber.                                              *)

LEMMA TakeStep ==
  ASSUME FeedInv, Take
  PROVE  FeedInv'
<1> USE DEF FeedInv
<1>1. HubTypes /\ ChanTypes /\ UiTypes /\ ReadTypes
  BY TypesInParts
<1>2. /\ hand = NoMsg /\ chan # <<>> /\ hand' = Head(chan) /\ chan' = Tail(chan)
      /\ UNCHANGED hub /\ UNCHANGED <<cursor, log, ui, lagged, wiped, deleted, conns>>
  BY DEF Take
<1>3. /\ hand' = chan[1] /\ chan' \in Seq(Msgs) /\ Len(chan') = Len(chan) - 1
      /\ \A i \in 1 .. Len(chan) - 1 : chan'[i] = chan[i + 1]
  BY <1>1, <1>2, HeadTailProperties DEF ChanTypes
<1>4. Len(chan) \in Nat \ {0} /\ \A i \in 1 .. Len(chan) : chan[i] \in Msgs
  BY <1>1, <1>2, SMT DEF ChanTypes
<1>5. DOMAIN chan = 1 .. Len(chan) /\ DOMAIN chan' = 1 .. Len(chan) - 1
  BY <1>1, <1>3, SMT DEF ChanTypes
<1>6. HubTypes' /\ ChanTypes' /\ UiTypes' /\ ReadTypes' /\ BankHolds'
  <2>1. ChanTypes' /\ hand' \in Msgs
    BY <1>1, <1>2, <1>3, <1>4, SizesAssumption, SMT DEF ChanTypes
  <2> QED BY <1>1, <1>2, <2>1 DEF hub, HubTypes, UiTypes, ReadTypes, BankHolds
<1>7. DeliveredInOrder' /\ NoLossWithoutLag'
  BY <1>2 DEF DeliveredInOrder, NoLossWithoutLag
<1>8. Announced' = Announced /\ Announced \in Int
  BY <1>1, <1>2, SMT DEF hub, Announced, HubTypes
<1>9. ASSUME ~lagged PROVE QueueInStep' /\ MessageOnTheWay'
  <2>1. \A x \in Msgs : x.cur \in Nat
    BY BoundsAssumption, SMT DEF Msgs
  <2>2. QueueInStep'
    <3>1. ASSUME NEW i \in 1 .. Len(chan) - 1, chan'[i].kind = "comment"
          PROVE  chan'[i].cur <= Announced /\ Announced - chan'[i].cur <= Len(chan') - i
      <4>1. i + 1 \in 1 .. Len(chan) /\ chan'[i] = chan[i + 1]
        BY <1>3, <1>4, SMT
      <4>2. /\ chan[i + 1].cur <= Announced
            /\ Announced - chan[i + 1].cur <= Len(chan) - (i + 1)
        BY <1>9, <3>1, <4>1, <1>5 DEF QueueInStep
      <4> QED BY <4>1, <4>2, <1>3, <1>4, <1>8, <2>1, SMT
    <3>2. hand'.kind = "comment" =>
            hand'.cur <= Announced /\ Announced - hand'.cur <= Len(chan')
      <4>1. chan[1].kind = "comment" =>
              chan[1].cur <= Announced /\ Announced - chan[1].cur <= Len(chan) - 1
        <5>1. 1 \in DOMAIN chan
          BY <1>4, <1>5, SMT
        <5> QED BY <1>9, <5>1 DEF QueueInStep
      <4> QED BY <4>1, <1>3
    <3> HIDE DEF Announced
    <3> QED BY <1>5, <1>8, <3>1, <3>2 DEF QueueInStep
  <2>3. MessageOnTheWay'
    <3> SUFFICES ASSUME cursor < Announced
        PROVE  \/ hand'.kind = "comment" /\ hand'.cur <= cursor + 1
               \/ \E i \in DOMAIN chan' : chan'[i].kind = "comment" /\ chan'[i].cur <= cursor + 1
      BY <1>2, <1>8 DEF MessageOnTheWay
    <3>1. PICK i \in DOMAIN chan : chan[i].kind = "comment" /\ chan[i].cur <= cursor + 1
      BY <1>2, <1>9, SMT DEF MessageOnTheWay, NoMsg
    <3>2. CASE i = 1
      BY <3>1, <3>2, <1>3
    <3>3. CASE i # 1
      <4>1. i - 1 \in DOMAIN chan' /\ chan'[i - 1] = chan[i]
        BY <3>3, <1>3, <1>4, <1>5, SMT
      <4> QED BY <3>1, <4>1
    <3> QED BY <3>2, <3>3
  <2> QED BY <2>2, <2>3
<1> QED BY <1>2, <1>6, <1>7, <1>9
     DEF FeedTypeOK, HubTypes, ChanTypes, UiTypes, ReadTypes

(* A message that is no comment changes only what the renderer shows.        *)
LEMMA DeliverOtherStep ==
  ASSUME FeedInv, hand.kind # "comment", hand' = NoMsg, UiTypes',
         UNCHANGED hub, UNCHANGED <<chan, cursor, log, lagged, wiped, deleted, conns>>
  PROVE  FeedInv'
<1> USE DEF FeedInv
<1>1. HubTypes /\ ChanTypes /\ ReadTypes
  BY TypesInParts
<1>2. NoMsg \in Msgs
  BY <1>1, MessageTypes
<1>3. HubTypes' /\ ChanTypes' /\ ReadTypes' /\ BankHolds'
  BY <1>1, <1>2 DEF hub, HubTypes, ChanTypes, ReadTypes, BankHolds
<1>4. DeliveredInOrder' /\ NoLossWithoutLag'
  BY DEF DeliveredInOrder, NoLossWithoutLag
<1>5. ~lagged' => QueueInStep' /\ MessageOnTheWay'
  BY DEF hub, QueueInStep, MessageOnTheWay, Announced, NoMsg
<1> QED BY <1>3, <1>4, <1>5
     DEF FeedTypeOK, HubTypes, ChanTypes, UiTypes, ReadTypes

LEMMA BatchFacts ==
  ASSUME HubTypes, NEW from \in 1 .. pub.last + 1
  PROVE  /\ Batch(from) \in Seq(Cursors) /\ Len(Batch(from)) = pub.last + 1 - from
         /\ \A j \in 1 .. pub.last + 1 - from : Batch(from)[j] = from - 1 + j
<1>1. pub.last \in Nat /\ pub.last <= MAX_PUSHED
  BY SMT DEF HubTypes
<1>2. pub.last + 1 - from \in Nat
  BY <1>1, SMT
<1>3. \A j \in 1 .. pub.last + 1 - from : from - 1 + j \in Cursors
  BY <1>1, BoundsAssumption, SMT DEF Cursors
<1> QED BY <1>2, <1>3, SMT DEF Batch

LEMMA DeliverCommentStep ==
  ASSUME FeedInv, DeliverComment
  PROVE  FeedInv'
<1> USE DEF FeedInv
<1>1. HubTypes /\ ChanTypes /\ UiTypes /\ ReadTypes
  BY TypesInParts
<1> DEFINE from == NewestFirst(pub.first, cursor + 1)
           n == pub.last + 1 - from
<1>2. /\ pub.last \in Nat /\ pub.last = Len(pushed) /\ cursor \in 0 .. pub.last
      /\ pub.first \in 1 .. pub.last + 1 /\ wiped \in 0 .. Len(pushed)
      /\ log \in Seq(Cursors) /\ Len(log) \in Nat /\ DOMAIN log = 1 .. Len(log)
      /\ \A i \in 1 .. Len(log) : log[i] \in Int
  BY <1>1, BoundsAssumption, SMT DEF HubTypes, ReadTypes, Cursors
<1>3. /\ from \in 1 .. pub.last + 1 /\ n \in Nat /\ from >= cursor + 1 /\ from >= pub.first
      /\ from = cursor + 1 \/ from = pub.first
  BY <1>2, SMT DEF NewestFirst
<1>4. /\ Batch(from) \in Seq(Cursors) /\ Len(Batch(from)) = n
      /\ \A j \in 1 .. n : Batch(from)[j] = from - 1 + j
  BY <1>1, <1>3, BatchFacts
<1>5. /\ hand.kind = "comment" /\ hand' = NoMsg /\ log' = log \o Batch(from)
      /\ cursor' = (IF from <= pub.last THEN pub.last ELSE cursor)
      /\ UNCHANGED hub /\ UNCHANGED <<chan, lagged, wiped, deleted, conns>>
      /\ ui' = [ui EXCEPT !.list = @ \cup Shown(Unread)]
  BY DEF DeliverComment
<1> HIDE DEF from, n
<1>6. /\ log' \in Seq(Cursors) /\ Len(log') = Len(log) + n
      /\ \A i \in 1 .. Len(log) : log'[i] = log[i]
      /\ \A j \in 1 .. n : log'[Len(log) + j] = from - 1 + j
  <2>1. \A i \in 1 .. Len(log) + n :
          log'[i] = IF i <= Len(log) THEN log[i] ELSE Batch(from)[i - Len(log)]
    BY <1>2, <1>4, <1>5, ConcatProperties
  <2>2. log' \in Seq(Cursors) /\ Len(log') = Len(log) + n
    BY <1>2, <1>4, <1>5, ConcatProperties
  <2>3. ASSUME NEW j \in 1 .. n PROVE log'[Len(log) + j] = from - 1 + j
    <3>1. /\ Len(log) + j \in 1 .. Len(log) + n /\ ~(Len(log) + j <= Len(log))
          /\ Len(log) + j - Len(log) = j
      BY <1>2, <1>3, SMT
    <3> QED BY <2>1, <3>1, <1>4
  <2>4. ASSUME NEW i \in 1 .. Len(log) PROVE log'[i] = log[i]
    BY <1>2, <1>3, <2>1, SMT
  <2> QED BY <2>2, <2>3, <2>4
<1>7. cursor' \in 0 .. pub.last /\ cursor' >= cursor
  BY <1>2, <1>5, SMT
<1>8. DOMAIN log' = 1 .. Len(log) + n
  BY <1>6, SMT
<1>9. HubTypes' /\ ChanTypes' /\ UiTypes' /\ ReadTypes' /\ BankHolds'
  <2>1. NoMsg \in Msgs
    BY <1>1, MessageTypes
  <2>2. HubTypes' /\ ChanTypes' /\ BankHolds'
    BY <1>1, <1>5 DEF hub, HubTypes, ChanTypes, BankHolds
  <2>3. Shown(Unread) \subseteq Ids
    <3>1. \A k \in 1 .. Len(pushed) : pushed[k] \in Ids
      BY <1>1 DEF HubTypes
    <3>2. Unread \subseteq 1 .. Len(pushed)
      BY <1>2, SMT DEF Unread
    <3> QED BY <3>1, <3>2 DEF Shown
  <2>4. /\ ui'.list = ui.list \cup Shown(Unread) \/ ui'.list = ui.list
        /\ ui'.conn = ui.conn /\ ui'.total = ui.total
    BY <1>5, SMT
  <2> QED BY <1>1, <1>5, <1>6, <1>7, <2>1, <2>2, <2>3, <2>4 DEF hub, UiTypes, ReadTypes
<1>10. DeliveredInOrder'
  <2>1. ASSUME NEW i \in DOMAIN log' PROVE log'[i] <= cursor' /\ log'[i] \in Int
    <3>1. CASE i \in 1 .. Len(log)
      BY <3>1, <1>2, <1>6, <1>7, SMT DEF DeliveredInOrder
    <3>2. CASE i \in Len(log) + 1 .. Len(log) + n
      <4>1. i - Len(log) \in 1 .. n /\ Len(log) + (i - Len(log)) = i
        BY <3>2, <1>2, <1>3, SMT
      <4>2. log'[i] = from - 1 + (i - Len(log))
        BY <4>1, <1>6
      <4>3. from <= pub.last /\ cursor' = pub.last
        BY <4>1, <1>2, <1>3, <1>5, SMT DEF n
      <4> QED BY <4>1, <4>2, <4>3, <1>2, <1>3, SMT DEF n
    <3> QED BY <2>1, <3>1, <3>2, <1>2, <1>3, <1>8, SMT
  <2>2. ASSUME NEW i \in DOMAIN log', NEW j \in DOMAIN log', i < j
        PROVE  log'[i] < log'[j]
    <3>0. i \in 1 .. Len(log) + n /\ j \in 1 .. Len(log) + n
      BY <1>8
    <3>1. CASE j \in 1 .. Len(log)
      BY <2>2, <3>0, <3>1, <1>2, <1>3, <1>6, SMT DEF DeliveredInOrder
    <3>2. CASE j \in Len(log) + 1 .. Len(log) + n
      <4>1. j - Len(log) \in 1 .. n /\ Len(log) + (j - Len(log)) = j
        BY <3>2, <1>2, <1>3, SMT
      <4>2. log'[j] = from - 1 + (j - Len(log))
        BY <4>1, <1>6
      <4>3. CASE i \in 1 .. Len(log)
        BY <4>1, <4>2, <4>3, <1>2, <1>3, <1>6, SMT DEF DeliveredInOrder
      <4>4. CASE i \in Len(log) + 1 .. Len(log) + n
        <5>1. i - Len(log) \in 1 .. n /\ Len(log) + (i - Len(log)) = i
          BY <4>4, <1>2, <1>3, SMT
        <5>2. log'[i] = from - 1 + (i - Len(log))
          BY <5>1, <1>6
        <5> QED BY <2>2, <4>1, <4>2, <5>1, <5>2, <1>2, <1>3, SMT
      <4> QED BY <3>0, <4>3, <4>4, <1>2, <1>3, SMT
    <3> QED BY <3>0, <3>1, <3>2, <1>2, <1>3, SMT
  <2> QED BY <2>1, <2>2 DEF DeliveredInOrder
<1>11. ASSUME ~lagged
       PROVE  pub.first <= wiped + 1 \/ pub.first <= cursor + 1
  <2>1. Len(pushed) <= cursor + ChanCap + 2 /\ Len(chan) \in Nat
    <3>1. Announced \in Int /\ Len(pushed) <= Announced + 1
      BY <1>2, SMT DEF Announced
    <3>2. \A x \in Msgs : x.cur \in Nat
      BY BoundsAssumption, SMT DEF Msgs
    <3>3. CASE cursor < Announced
      <4>1. PICK c \in Nat : c <= cursor + 1 /\ Announced - c <= Len(chan)
        <5>1. CASE hand.kind = "comment" /\ hand.cur <= cursor + 1
          BY <1>1, <1>11, <3>2, <5>1 DEF QueueInStep, ReadTypes
        <5>2. CASE \E i \in DOMAIN chan : chan[i].kind = "comment" /\ chan[i].cur <= cursor + 1
          <6>1. PICK i \in DOMAIN chan : chan[i].kind = "comment" /\ chan[i].cur <= cursor + 1
            BY <5>2
          <6>2. chan[i] \in Msgs /\ i \in Nat /\ Len(chan) \in Nat
            BY <1>1, <6>1, SMT DEF ChanTypes
          <6>3. Announced - chan[i].cur <= Len(chan) - i
            BY <1>11, <6>1 DEF QueueInStep
          <6> HIDE DEF Announced
          <6> QED BY <3>1, <3>2, <6>1, <6>2, <6>3, SMT
        <5> QED BY <1>11, <3>3, <5>1, <5>2 DEF MessageOnTheWay
      <4> HIDE DEF Announced
      <4> QED BY <1>1, <1>2, <3>1, <4>1, SizesAssumption, SMT DEF ChanTypes
    <3>4. CASE ~(cursor < Announced)
      BY <1>1, <1>2, <3>1, <3>4, SizesAssumption, SMT DEF ChanTypes
    <3> QED BY <3>3, <3>4
  <2> QED BY <1>2, <2>1, SizesAssumption, SMT DEF BankHolds
<1>12. NoLossWithoutLag'
  <2> SUFFICES ASSUME ~lagged, NEW k, k \in wiped + 1 .. cursor'
      PROVE  \E i \in DOMAIN log' : log'[i] = k
    BY <1>5 DEF NoLossWithoutLag
  <2>1. CASE k <= cursor
    <3>1. k \in wiped + 1 .. cursor
      BY <2>1, <1>2, <1>7, SMT
    <3>2. PICK i \in DOMAIN log : log[i] = k
      BY <3>1 DEF NoLossWithoutLag
    <3> QED BY <3>2, <1>2, <1>3, <1>6, <1>8, SMT
  <2>2. CASE ~(k <= cursor)
    <3>1. k >= from /\ k <= pub.last
      BY <2>2, <1>2, <1>3, <1>7, <1>11, SMT
    <3>2. k + 1 - from \in 1 .. n /\ from - 1 + (k + 1 - from) = k
      BY <3>1, <1>2, <1>3, <1>7, SMT DEF n
    <3>3. log'[Len(log) + (k + 1 - from)] = k
      BY <3>2, <1>6
    <3>4. Len(log) + (k + 1 - from) \in DOMAIN log'
      BY <3>2, <1>2, <1>3, <1>8, SMT
    <3> QED BY <3>3, <3>4
  <2> QED BY <2>1, <2>2
<1>13. ASSUME ~lagged PROVE QueueInStep' /\ MessageOnTheWay'
  <2>1. Announced' = Announced /\ Announced <= pub.last /\ Announced \in Int
    BY <1>2, <1>5, SMT DEF hub, Announced
  <2>2. QueueInStep'
    BY <1>5, <1>13, <2>1 DEF QueueInStep, NoMsg
  <2>3. cursor' >= Announced
    <3>1. CASE from <= pub.last
      BY <1>2, <1>5, <2>1, <3>1, SMT
    <3>2. CASE ~(from <= pub.last)
      BY <1>2, <1>3, <1>5, <2>1, <3>2, SMT DEF BankHolds
    <3> QED BY <3>1, <3>2
  <2> HIDE DEF Announced
  <2> QED BY <1>7, <2>1, <2>2, <2>3, <1>2, SMT DEF MessageOnTheWay
<1> QED BY <1>5, <1>9, <1>10, <1>12, <1>13
     DEF FeedTypeOK, HubTypes, ChanTypes, UiTypes, ReadTypes

-----------------------------------------------------------------------------
(* The feed starts empty and in step.                                        *)
LEMMA FeedStarts == Init => FeedInv
<1> SUFFICES ASSUME Init PROVE FeedInv
  OBVIOUS
<1>1. conn \in Conn
  BY DEF Init, Conn
<1>2. HubTypes
  BY <1>1, BoundsAssumption, SizesAssumption, SMT DEF Init, HubTypes, Idle
<1>3. ChanTypes /\ UiTypes /\ ReadTypes
  <2>1. hand \in Msgs
    BY <1>2, MessageTypes DEF Init
  <2>2. ChanTypes /\ cursor \in 0 .. pub.last /\ log \in Seq(Cursors)
    <3>1. \A S : <<>> \in Seq(S) /\ Len(<<>>) = 0
      BY SMT
    <3>2. chan = <<>> /\ log = <<>> /\ lagged = FALSE
      BY DEF Init
    <3>3. chan \in Seq(Msgs) /\ log \in Seq(Cursors) /\ Len(chan) = 0
      BY <3>1, <3>2
    <3>4. Len(chan) <= ChanCap /\ cursor \in 0 .. pub.last
      BY <3>3, SizesAssumption, SMT DEF Init
    <3> QED BY <3>2, <3>3, <3>4 DEF ChanTypes
  <2>3. UiTypes
    BY <1>1, BoundsAssumption, SMT DEF Init, UiTypes
  <2> QED BY <2>1, <2>2, <2>3 DEF ReadTypes
<1>4. BankHolds /\ Announced = 0
  BY SizesAssumption, SMT DEF Init, BankHolds, Idle, Announced
<1>5. DeliveredInOrder /\ NoLossWithoutLag
  BY SMT DEF Init, DeliveredInOrder, NoLossWithoutLag
<1>6. QueueInStep /\ MessageOnTheWay
  BY <1>4, SMT DEF Init, QueueInStep, MessageOnTheWay, NoMsg
<1> QED BY <1>2, <1>3, <1>4, <1>5, <1>6, TypesInParts DEF FeedInv

(* Every step of the hub and of the subscriber keeps the invariant.          *)
LEMMA FeedContinues == FeedInv /\ [Next]_vars => FeedInv'
<1> SUFFICES ASSUME FeedInv, [Next]_vars PROVE FeedInv'
  OBVIOUS
<1>1. ASSUME NEW i \in Ids, NewComment(i) PROVE FeedInv'
  BY <1>1, NewCommentStep
<1>2. ASSUME NEW i \in Ids, CommentDeleted(i) PROVE FeedInv'
  BY <1>2, CommentDeletedStep
<1>3. ASSUME NEW v \in Streams, NEW up \in BOOLEAN, ConnectionStateChanged(v, up)
      PROVE FeedInv'
  BY <1>3, ConnectionStateChangedStep
<1>4. CASE ConnectionStateChanged(NoStream, FALSE)
  BY <1>4, ConnectionStateChangedStep
<1>5. CASE AnnounceStreamOwner
  BY <1>5, AnnounceStreamOwnerStep
<1>6. CASE IncomingReaction
  BY <1>6, IncomingReactionStep
<1>7. CASE AnnounceComment
  BY <1>7, AnnounceCommentStep
<1>8. CASE PublishConnection
  BY <1>8, PublishConnectionStep
<1>9. CASE Take
  BY <1>9, TakeStep
<1>10. HubTypes /\ UiTypes /\ ReadTypes
  BY TypesInParts DEF FeedInv
<1>11. CASE DeliverConnection
  <2>1. UiTypes' /\ hand.kind # "comment"
    BY <1>10, <1>11, SMT DEF DeliverConnection, UiTypes, HubTypes
  <2> QED BY <1>11, <2>1, DeliverOtherStep DEF DeliverConnection
<1>12. CASE DeliverReaction
  <2>1. UiTypes' /\ hand.kind # "comment"
    BY <1>10, <1>12, SMT DEF DeliverReaction, UiTypes, HubTypes
  <2> QED BY <1>12, <2>1, DeliverOtherStep DEF DeliverReaction
<1>13. CASE DeliverDeletion
  <2>1. UiTypes' /\ hand.kind # "comment"
    BY <1>10, <1>13, SMT DEF DeliverDeletion, UiTypes
  <2> QED BY <1>13, <2>1, DeliverOtherStep DEF DeliverDeletion
<1>14. CASE DeliverComment
  BY <1>14, DeliverCommentStep
<1>15. CASE UNCHANGED vars
  BY <1>15 DEF vars, FeedInv, FeedTypeOK, BankHolds, DeliveredInOrder,
     NoLossWithoutLag, QueueInStep, MessageOnTheWay, Announced
<1> QED BY <1>1, <1>2, <1>3, <1>4, <1>5, <1>6, <1>7, <1>8, <1>9, <1>11, <1>12,
           <1>13, <1>14, <1>15 DEF Next, HubGoesOn, Subscriber

\* The inductive invariant: types, the reach of the bank, the order and the
\* completeness of what was read, and how far the channel can be behind.
THEOREM FeedInvariant == Spec => []FeedInv
BY FeedStarts, FeedContinues, PTL DEF Spec

\* Type correctness; the ring, the bank and the channel keep their sizes.
THEOREM FeedTypeCorrect == Spec => []FeedTypeOK
<1>1. FeedInv => FeedTypeOK
  BY DEF FeedInv
<1> QED BY <1>1, FeedInvariant, PTL

\* The renderer gets each comment at most once and in order.
THEOREM CommentsInOrder == Spec => []DeliveredInOrder
<1>1. FeedInv => DeliveredInOrder
  BY DEF FeedInv
<1> QED BY <1>1, FeedInvariant, PTL

\* As long as the channel has overwritten nothing, the subscriber passes over
\* no comment of the stream, for any ring that holds two entries more than the
\* channel has places.
THEOREM NothingPassedOver == Spec => []NoLossWithoutLag
<1>1. FeedInv => NoLossWithoutLag
  BY DEF FeedInv
<1> QED BY <1>1, FeedInvariant, PTL

-----------------------------------------------------------------------------
(* A total not yet shown has a notice on its way.                            *)
ReactionOnTheWay ==
  ~lagged /\ reacts > 0 /\ ui.total # reacts =>
    hand.kind = "reaction" \/ \E i \in DOMAIN chan : chan[i].kind = "reaction"

(* One more message takes none away, and a reaction's is one.                *)
LEMMA SentKeepsReaction ==
  ASSUME ChanTypes, NEW m \in Msgs, Broadcast(m), hand' = hand, ui' = ui, ReactionOnTheWay,
         reacts' = reacts \/ reacts' = 0 \/ m.kind = "reaction"
  PROVE  ReactionOnTheWay'
<1> SUFFICES ASSUME ~lagged', reacts' > 0, ui'.total # reacts'
    PROVE  hand'.kind = "reaction" \/ \E i \in DOMAIN chan' : chan'[i].kind = "reaction"
  BY DEF ReactionOnTheWay
<1>1. ~lagged /\ chan' = Append(chan, m)
  BY Sent
<1>2. /\ Len(chan) + 1 \in DOMAIN chan' /\ chan'[Len(chan) + 1] = m
      /\ \A i \in DOMAIN chan : i \in DOMAIN chan' /\ chan'[i] = chan[i]
  BY <1>1, SMT DEF ChanTypes
<1>3. CASE m.kind = "reaction"
  BY <1>2, <1>3
<1>4. CASE m.kind # "reaction"
  <2>1. reacts' = reacts
    BY <1>4, SMT
  <2>2. hand.kind = "reaction" \/ \E i \in DOMAIN chan : chan[i].kind = "reaction"
    BY <1>1, <2>1 DEF ReactionOnTheWay
  <2> QED BY <1>2, <2>2
<1> QED BY <1>3, <1>4

LEMMA ReactionTakeStep ==
  ASSUME ChanTypes, ReactionOnTheWay, Take
  PROVE  ReactionOnTheWay'
<1>1. /\ hand = NoMsg /\ chan # <<>> /\ hand' = Head(chan) /\ chan' = Tail(chan)
      /\ reacts' = reacts /\ ui' = ui /\ lagged' = lagged
  BY DEF Take, hub
<1>2. /\ hand' = chan[1] /\ Len(chan) \in Nat \ {0} /\ Len(chan') = Len(chan) - 1
      /\ chan' \in Seq(Msgs) /\ \A i \in 1 .. Len(chan) - 1 : chan'[i] = chan[i + 1]
  BY <1>1, HeadTailProperties, SMT DEF ChanTypes
<1>3. DOMAIN chan = 1 .. Len(chan) /\ DOMAIN chan' = 1 .. Len(chan) - 1
  BY <1>2, SMT DEF ChanTypes
<1> SUFFICES ASSUME ~lagged, reacts > 0, ui.total # reacts
    PROVE  hand'.kind = "reaction" \/ \E i \in DOMAIN chan' : chan'[i].kind = "reaction"
  BY <1>1 DEF ReactionOnTheWay
<1>4. PICK i \in DOMAIN chan : chan[i].kind = "reaction"
  BY <1>1, SMT DEF ReactionOnTheWay, NoMsg
<1>5. CASE i = 1
  BY <1>2, <1>4, <1>5
<1>6. CASE i # 1
  <2>1. i - 1 \in DOMAIN chan' /\ chan'[i - 1] = chan[i]
    BY <1>2, <1>3, <1>6, SMT
  <2> QED BY <2>1, <1>4
<1> QED BY <1>5, <1>6

LEMMA ReactionContinues ==
  FeedInv /\ ReactionOnTheWay /\ [Next]_vars => ReactionOnTheWay'
<1> SUFFICES ASSUME FeedInv, ReactionOnTheWay, [Next]_vars PROVE ReactionOnTheWay'
  OBVIOUS
<1>1. HubTypes /\ ChanTypes
  BY TypesInParts DEF FeedInv
<1>2. ASSUME NEW i \in Ids, NewComment(i) PROVE ReactionOnTheWay'
  BY <1>2 DEF NewComment, ReactionOnTheWay
<1>3. ASSUME NEW i \in Ids, CommentDeleted(i) PROVE ReactionOnTheWay'
  BY <1>1, <1>3, MessageTypes, SentKeepsReaction DEF CommentDeleted
<1>4. ASSUME NEW v, NEW up, ConnectionStateChanged(v, up) PROVE ReactionOnTheWay'
  <2>1. Broadcast(ConnMsg) /\ hand' = hand /\ ui' = ui
    BY <1>4 DEF ConnectionStateChanged, PushConnectionStatus
  <2>2. reacts' = reacts \/ reacts' = 0
    BY <1>4, Zenon DEF ConnectionStateChanged, ClearStream
  <2> QED BY <1>1, <2>1, <2>2, MessageTypes, SentKeepsReaction
<1>5. CASE AnnounceStreamOwner
  BY <1>1, <1>5, MessageTypes, SentKeepsReaction
     DEF AnnounceStreamOwner, PushConnectionStatus
<1>6. CASE IncomingReaction
  <2>1. ReactMsg.kind = "reaction"
    BY DEF ReactMsg
  <2> QED BY <1>1, <1>6, <2>1, MessageTypes, SentKeepsReaction DEF IncomingReaction
<1>7. CASE AnnounceComment
  <2>1. CommentMsg(busy.cur) \in Msgs
    <3>1. busy.cur \in 1 .. Len(pushed)
      BY <1>1, <1>7, SMT DEF AnnounceComment, HubTypes, Idle, PublishingConn, Announcing
    <3> QED BY <1>1, <3>1, MessageTypes
  <2> QED BY <1>1, <1>7, <2>1, SentKeepsReaction DEF AnnounceComment
<1>8. CASE PublishConnection
  BY <1>8 DEF PublishConnection, ReactionOnTheWay
<1>9. CASE Take
  BY <1>1, <1>9, ReactionTakeStep
<1>10. CASE DeliverReaction
  <2>1. ui'.total = reacts /\ reacts' = reacts
    BY <1>10, TypesInParts, SMT DEF DeliverReaction, hub, FeedInv, UiTypes
  <2> QED BY <2>1 DEF ReactionOnTheWay
<1>11. ASSUME hand.kind # "reaction", UNCHANGED hub, UNCHANGED <<chan, lagged>>,
              ui'.total = ui.total
       PROVE  ReactionOnTheWay'
  BY <1>11 DEF ReactionOnTheWay, hub
<1>12. CASE DeliverConnection
  BY <1>11, <1>12, SMT DEF DeliverConnection
<1>13. CASE DeliverDeletion
  BY <1>11, <1>13, SMT DEF DeliverDeletion
<1>14. CASE DeliverComment
  <2>1. hand.kind = "comment" /\ ui'.total = ui.total
    BY <1>14 DEF DeliverComment
  <2>2. UNCHANGED hub /\ UNCHANGED <<chan, lagged>>
    BY <1>14 DEF DeliverComment
  <2> QED BY <1>11, <2>1, <2>2
<1>15. CASE UNCHANGED vars
  BY <1>15 DEF vars, ReactionOnTheWay
<1> QED BY <1>2, <1>3, <1>4, <1>5, <1>6, <1>7, <1>8, <1>9, <1>10, <1>12, <1>13,
           <1>14, <1>15 DEF Next, HubGoesOn, Subscriber

\* When the hub is idle and nothing is on its way, and the channel has
\* overwritten nothing, all comments have been read and the total shown is right.
THEOREM ViewIsTheState == Spec => []CaughtUpAtRest
<1>1. Init => ReactionOnTheWay
  BY SMT DEF Init, ReactionOnTheWay
<1>2. FeedInv /\ ReactionOnTheWay => CaughtUpAtRest
  <2> SUFFICES ASSUME FeedInv, ReactionOnTheWay, AtRest, ~lagged
      PROVE  cursor = Len(pushed) /\ (reacts > 0 => ui.total = reacts)
    BY DEF CaughtUpAtRest
  <2>1. chan = <<>> /\ hand.kind = "none" /\ busy.do = "idle"
    BY DEF AtRest, NoMsg, Idle
  <2>2. DOMAIN chan = {}
    BY <2>1, SMT
  <2>3. Announced = Len(pushed) /\ ~(cursor < Announced)
    BY <2>1, <2>2 DEF Announced, FeedInv, MessageOnTheWay
  <2>4. cursor = Len(pushed)
    BY <2>3, TypesInParts, SMT DEF FeedInv, HubTypes, ReadTypes
  <2> QED BY <2>1, <2>2, <2>4 DEF ReactionOnTheWay
<1> QED BY <1>1, <1>2, FeedInvariant, ReactionContinues, PTL DEF Spec

-----------------------------------------------------------------------------
(* A deletion is not overtaken: a deleted comment that is still unread has    *)
(* its deletion in the channel, and a notice that makes the subscriber read   *)
(* it comes before that deletion.                                             *)
IsDeletion(m, i) == m.kind = "deleted" /\ m.id = i

ReadFirst(j) == \/ hand.kind = "comment"
                \/ \E k \in DOMAIN chan : k < j /\ chan[k].kind = "comment"

DeletionBehindNotice ==
  ~lagged => \A c \in cursor + 1 .. Len(pushed) : pushed[c] \in deleted =>
    \E j \in DOMAIN chan : IsDeletion(chan[j], pushed[c]) /\ ReadFirst(j)

DeletedInv == DeletionBehindNotice /\ DeletedNotShown

(* One more message keeps what is in the channel, and what comes before it.   *)
LEMMA SentKeepsDeletions ==
  ASSUME FeedInv, DeletedInv, NEW m \in Msgs, Broadcast(m),
         UNCHANGED <<hand, cursor, pushed, deleted, ui>>
  PROVE  DeletedInv'
<1>1. HubTypes /\ ChanTypes
  BY TypesInParts DEF FeedInv
<1>2. ~lagged' => ~lagged /\ chan' = Append(chan, m)
  BY <1>1, Sent
<1>3. ASSUME ~lagged'
      PROVE  \A j \in DOMAIN chan : j \in DOMAIN chan' /\ chan'[j] = chan[j]
  BY <1>1, <1>2, <1>3, SMT DEF ChanTypes
<1>4. DeletionBehindNotice'
  <2> SUFFICES ASSUME ~lagged', NEW c \in cursor + 1 .. Len(pushed), pushed[c] \in deleted
      PROVE  \E j \in DOMAIN chan' : IsDeletion(chan'[j], pushed[c]) /\ ReadFirst(j)'
    BY DEF DeletionBehindNotice, IsDeletion
  <2>1. PICK j \in DOMAIN chan : IsDeletion(chan[j], pushed[c]) /\ ReadFirst(j)
    BY <1>2, Zenon DEF DeletedInv, DeletionBehindNotice
  <2>2. ReadFirst(j)'
    BY <1>3, <2>1, Zenon DEF ReadFirst
  <2> QED BY <1>3, <2>1, <2>2
<1>5. DeletedNotShown'
  <2> SUFFICES ASSUME ~lagged', NEW i \in deleted, i \in ui.list
      PROVE  \E x \in {hand} \cup {chan'[j] : j \in DOMAIN chan'} : x.kind = "deleted" /\ x.id = i
    BY DEF DeletedNotShown
  <2>1. PICK x \in {hand} \cup {chan[j] : j \in DOMAIN chan} : x.kind = "deleted" /\ x.id = i
    BY <1>2, Zenon DEF DeletedInv, DeletedNotShown
  <2>2. x \in {hand} \cup {chan'[j] : j \in DOMAIN chan'}
    BY <1>3, <2>1, Zenon
  <2> QED BY <2>1, <2>2
<1> QED BY <1>4, <1>5 DEF DeletedInv

(* A deletion is sent when every comment pushed has been announced, so the    *)
(* notice of one still unread is already on its way.                          *)
LEMMA DeletedDeletes ==
  ASSUME FeedInv, DeletedInv, NEW i \in Ids, CommentDeleted(i)
  PROVE  DeletedInv'
<1>1. HubTypes /\ ChanTypes
  BY TypesInParts DEF FeedInv
<1>2. /\ busy = Idle /\ Broadcast(DeleteMsg(i)) /\ deleted' = deleted \cup {i}
      /\ hand' = hand /\ cursor' = cursor /\ pushed' = pushed /\ ui' = ui
  BY DEF CommentDeleted
<1>3. ~lagged' => ~lagged /\ chan' = Append(chan, DeleteMsg(i))
  BY <1>1, <1>2, MessageTypes, Sent
<1>0. PICK n \in Nat : n = Len(chan) + 1
  BY <1>1, SMT DEF ChanTypes
<1>4. ASSUME ~lagged'
      PROVE  /\ n \in DOMAIN chan' /\ chan'[n] = DeleteMsg(i)
             /\ \A j \in DOMAIN chan : j \in DOMAIN chan' /\ chan'[j] = chan[j] /\ j < n
  BY <1>0, <1>1, <1>3, <1>4, SMT DEF ChanTypes
<1>5. IsDeletion(DeleteMsg(i), i)
  BY DEF IsDeletion, DeleteMsg
<1>6. DeletionBehindNotice'
  <2> SUFFICES ASSUME ~lagged', NEW c \in cursor + 1 .. Len(pushed), pushed[c] \in deleted \cup {i}
      PROVE  \E j \in DOMAIN chan' : IsDeletion(chan'[j], pushed[c]) /\ ReadFirst(j)'
    BY <1>2 DEF DeletionBehindNotice, IsDeletion
  <2>1. CASE pushed[c] \in deleted
    <3>1. PICK j \in DOMAIN chan : IsDeletion(chan[j], pushed[c]) /\ ReadFirst(j)
      BY <1>3, <2>1, Zenon DEF DeletedInv, DeletionBehindNotice
    <3>2. ReadFirst(j)'
      BY <1>2, <1>4, <3>1, Zenon DEF ReadFirst
    <3> QED BY <1>4, <3>1, <3>2
  <2>2. CASE pushed[c] = i
    <3>1. cursor < Announced
      BY <1>1, <1>2, TypesInParts, SMT DEF Announced, Idle, FeedInv, ReadTypes, HubTypes
    <3>2. hand.kind = "comment" \/ \E k \in DOMAIN chan : chan[k].kind = "comment"
      <4>1. MessageOnTheWay
        BY <1>3, Zenon DEF FeedInv
      <4> QED BY <3>1, <4>1, Zenon DEF MessageOnTheWay
    <3>3. ReadFirst(n)'
      BY <1>2, <1>4, <3>2, Zenon DEF ReadFirst
    <3> QED BY <1>4, <1>5, <2>2, <3>3
  <2> QED BY <2>1, <2>2
<1>7. DeletedNotShown'
  <2> SUFFICES ASSUME ~lagged', NEW d \in deleted \cup {i}, d \in ui.list
      PROVE  \E x \in {hand} \cup {chan'[j] : j \in DOMAIN chan'} : x.kind = "deleted" /\ x.id = d
    BY <1>2 DEF DeletedNotShown
  <2>1. CASE d = i
    BY <1>4, <1>5, <2>1, Zenon DEF IsDeletion
  <2>2. CASE d \in deleted
    <3>1. PICK x \in {hand} \cup {chan[j] : j \in DOMAIN chan} : x.kind = "deleted" /\ x.id = d
      BY <1>3, <2>2, Zenon DEF DeletedInv, DeletedNotShown
    <3>2. x \in {hand} \cup {chan'[j] : j \in DOMAIN chan'}
      BY <1>4, <3>1, Zenon
    <3> QED BY <3>1, <3>2
  <2> QED BY <2>1, <2>2
<1> QED BY <1>6, <1>7 DEF DeletedInv

(* A comment that comes again is no deleted one.                              *)
LEMMA DeletedPushes ==
  ASSUME FeedInv, DeletedInv, NEW i \in Ids, NewComment(i)
  PROVE  DeletedInv'
<1>1. HubTypes /\ ReadTypes
  BY TypesInParts DEF FeedInv
<1>2. /\ pushed' = Append(pushed, i) /\ deleted' = deleted \ {i}
      /\ UNCHANGED <<chan, hand, cursor, ui, lagged>>
  BY DEF NewComment
<1>3. /\ Len(pushed') = Len(pushed) + 1 /\ pushed'[Len(pushed) + 1] = i
      /\ \A c \in 1 .. Len(pushed) : pushed'[c] = pushed[c]
      /\ Len(pushed) \in Nat /\ cursor \in Nat
  BY <1>1, <1>2, SMT DEF HubTypes, ReadTypes
<1>0. \A j : ReadFirst(j)' <=> ReadFirst(j)
  BY <1>2, Zenon DEF ReadFirst
<1>4. DeletionBehindNotice'
  <2> SUFFICES ASSUME ~lagged, NEW c \in cursor + 1 .. Len(pushed'), pushed'[c] \in deleted \ {i}
      PROVE  \E j \in DOMAIN chan : IsDeletion(chan[j], pushed'[c]) /\ ReadFirst(j)
    BY <1>0, <1>2, Zenon DEF DeletionBehindNotice, IsDeletion
  <2>1. c \in cursor + 1 .. Len(pushed) /\ pushed'[c] = pushed[c]
    BY <1>3, SMT
  <2> QED BY <2>1, Zenon DEF DeletedInv, DeletionBehindNotice
<1>5. DeletedNotShown'
  BY <1>2, Zenon DEF DeletedInv, DeletedNotShown
<1> QED BY <1>4, <1>5 DEF DeletedInv

(* The notice before a deletion is taken before it.                           *)
LEMMA DeletedTake ==
  ASSUME FeedInv, DeletedInv, Take
  PROVE  DeletedInv'
<1>1. ChanTypes
  BY TypesInParts DEF FeedInv
<1>2. /\ hand = NoMsg /\ chan # <<>> /\ hand' = Head(chan) /\ chan' = Tail(chan)
      /\ UNCHANGED <<pushed, cursor, ui, lagged, deleted>>
  BY DEF Take, hub
<1>3. /\ hand' = chan[1] /\ Len(chan) \in Nat \ {0} /\ Len(chan') = Len(chan) - 1
      /\ chan' \in Seq(Msgs) /\ \A j \in 1 .. Len(chan) - 1 : chan'[j] = chan[j + 1]
  BY <1>1, <1>2, HeadTailProperties, SMT DEF ChanTypes
<1>4. DOMAIN chan = 1 .. Len(chan) /\ DOMAIN chan' = 1 .. Len(chan) - 1
  BY <1>1, <1>3, SMT DEF ChanTypes
<1>5. \A j \in DOMAIN chan : j # 1 => j - 1 \in DOMAIN chan' /\ chan'[j - 1] = chan[j]
  BY <1>3, <1>4, SMT
<1>6. hand.kind = "none"
  BY <1>2 DEF NoMsg
<1>7. ASSUME NEW j \in DOMAIN chan, ReadFirst(j)
      PROVE  j # 1 /\ ReadFirst(j - 1)'
  <2>1. PICK k \in DOMAIN chan : k < j /\ chan[k].kind = "comment"
    BY <1>6, <1>7, SMT DEF ReadFirst
  <2>2. j # 1 /\ (k # 1 => k - 1 < j - 1)
    BY <2>1, <1>4, SMT
  <2>3. CASE k = 1
    BY <1>3, <2>1, <2>2, <2>3 DEF ReadFirst
  <2>4. CASE k # 1
    <3>1. k - 1 \in DOMAIN chan' /\ chan'[k - 1].kind = "comment" /\ k - 1 < j - 1
      BY <1>5, <2>1, <2>2, <2>4
    <3> QED BY <2>2, <3>1, Zenon DEF ReadFirst
  <2> QED BY <2>3, <2>4
<1>8. DeletionBehindNotice'
  <2> SUFFICES ASSUME ~lagged, NEW c \in cursor + 1 .. Len(pushed), pushed[c] \in deleted
      PROVE  \E j \in DOMAIN chan' : IsDeletion(chan'[j], pushed[c]) /\ ReadFirst(j)'
    BY <1>2 DEF DeletionBehindNotice, IsDeletion
  <2>1. PICK j \in DOMAIN chan : IsDeletion(chan[j], pushed[c]) /\ ReadFirst(j)
    BY Zenon DEF DeletedInv, DeletionBehindNotice
  <2> QED BY <2>1, <1>5, <1>7
<1>9. DeletedNotShown'
  <2> SUFFICES ASSUME ~lagged, NEW i \in deleted, i \in ui.list
      PROVE  \E x \in {hand'} \cup {chan'[j] : j \in DOMAIN chan'} : x.kind = "deleted" /\ x.id = i
    BY <1>2 DEF DeletedNotShown
  <2>1. PICK x \in {hand} \cup {chan[j] : j \in DOMAIN chan} : x.kind = "deleted" /\ x.id = i
    BY Zenon DEF DeletedInv, DeletedNotShown
  <2>2. PICK j \in DOMAIN chan : x = chan[j]
    BY <1>6, <2>1, SMT
  <2>3. CASE j = 1
    BY <1>3, <2>1, <2>2, <2>3
  <2>4. CASE j # 1
    <3>1. x \in {chan'[y] : y \in DOMAIN chan'}
      BY <1>5, <2>2, <2>4
    <3> QED BY <2>1, <3>1
  <2> QED BY <2>3, <2>4
<1> QED BY <1>8, <1>9 DEF DeletedInv

(* What is delivered is no comment: the list only loses what is deleted.      *)
LEMMA DeletedOther ==
  ASSUME FeedInv, DeletedInv, hand.kind # "comment", hand' = NoMsg,
         UNCHANGED <<pushed, chan, cursor, lagged, deleted>>,
         ui'.list \subseteq ui.list,
         hand.kind = "deleted" => hand.id \notin ui'.list
  PROVE  DeletedInv'
<1>1. DeletionBehindNotice'
  <2> SUFFICES ASSUME ~lagged, NEW c \in cursor + 1 .. Len(pushed), pushed[c] \in deleted
      PROVE  \E j \in DOMAIN chan : IsDeletion(chan[j], pushed[c]) /\ ReadFirst(j)'
    BY DEF DeletionBehindNotice, IsDeletion
  <2>1. PICK j \in DOMAIN chan : IsDeletion(chan[j], pushed[c]) /\ ReadFirst(j)
    BY Zenon DEF DeletedInv, DeletionBehindNotice
  <2>2. ReadFirst(j)'
    BY <2>1, Zenon DEF ReadFirst
  <2> QED BY <2>1, <2>2
<1>2. DeletedNotShown'
  <2> SUFFICES ASSUME ~lagged, NEW i \in deleted, i \in ui'.list
      PROVE  \E x \in {hand'} \cup {chan[j] : j \in DOMAIN chan} : x.kind = "deleted" /\ x.id = i
    BY DEF DeletedNotShown
  <2>1. PICK x \in {hand} \cup {chan[j] : j \in DOMAIN chan} : x.kind = "deleted" /\ x.id = i
    BY Zenon DEF DeletedInv, DeletedNotShown
  <2>2. x # hand
    BY <2>1, Zenon
  <2> QED BY <2>1, <2>2, Zenon
<1> QED BY <1>1, <1>2 DEF DeletedInv

(* A comment is read before its deletion, if it has one, is taken.            *)
LEMMA DeletedReads ==
  ASSUME FeedInv, DeletedInv, DeliverComment
  PROVE  DeletedInv'
<1>1. HubTypes /\ ReadTypes /\ UiTypes
  BY TypesInParts DEF FeedInv
<1> DEFINE from == NewestFirst(pub.first, cursor + 1)
<1>2. /\ pub.last \in Nat /\ pub.last = Len(pushed) /\ cursor \in 0 .. pub.last
      /\ pub.first \in 1 .. pub.last + 1
  BY <1>1, SMT DEF HubTypes, ReadTypes
<1>3. /\ hand.kind = "comment" /\ hand' = NoMsg
      /\ cursor' = (IF from <= pub.last THEN pub.last ELSE cursor)
      /\ ui' = [ui EXCEPT !.list = @ \cup Shown(Unread)]
      /\ UNCHANGED <<pushed, chan, lagged, deleted>>
  BY DEF DeliverComment, hub
<1>4. cursor' = Len(pushed)
  <2>1. pub.first <= pub.last \/ pub.last = 0
    BY DEF FeedInv, BankHolds
  <2> QED BY <1>2, <1>3, <2>1, SMT DEF NewestFirst
<1>5. DeletionBehindNotice'
  <2>1. \A n \in Nat : n + 1 .. n = {}
    BY SMT
  <2> QED BY <1>2, <1>3, <1>4, <2>1 DEF DeletionBehindNotice
<1>6. ui'.list \subseteq ui.list \cup Shown(Unread)
  BY <1>3, SMT
<1>7. DeletedNotShown'
  <2> SUFFICES ASSUME ~lagged, NEW i \in deleted, i \in ui.list \cup Shown(Unread)
      PROVE  \E j \in DOMAIN chan : chan[j].kind = "deleted" /\ chan[j].id = i
    BY <1>3, <1>6 DEF DeletedNotShown
  <2>1. CASE i \in ui.list
    <3>1. PICK x \in {hand} \cup {chan[j] : j \in DOMAIN chan} : x.kind = "deleted" /\ x.id = i
      BY <2>1, Zenon DEF DeletedInv, DeletedNotShown
    <3>2. x # hand
      BY <1>3, <3>1, SMT
    <3> QED BY <3>1, <3>2
  <2>2. CASE i \in Shown(Unread)
    <3>1. PICK c \in Unread : pushed[c] = i
      BY <2>2 DEF Shown
    <3>2. c \in cursor + 1 .. Len(pushed)
      BY <1>2, SMT DEF Unread
    <3>3. PICK j \in DOMAIN chan : IsDeletion(chan[j], i)
      BY <3>1, <3>2, Zenon DEF DeletedInv, DeletionBehindNotice
    <3> QED BY <3>3 DEF IsDeletion
  <2> QED BY <2>1, <2>2
<1> QED BY <1>5, <1>7 DEF DeletedInv

LEMMA DeletedStands ==
  ASSUME DeletedInv, UNCHANGED <<pushed, chan, hand, cursor, lagged, deleted, ui>>
  PROVE  DeletedInv'
<1>1. \A j : ReadFirst(j)' <=> ReadFirst(j)
  BY Zenon DEF ReadFirst
<1>2. DeletionBehindNotice'
  BY <1>1, Zenon DEF DeletedInv, DeletionBehindNotice, IsDeletion
<1>3. DeletedNotShown'
  BY Zenon DEF DeletedInv, DeletedNotShown
<1> QED BY <1>2, <1>3 DEF DeletedInv

LEMMA DeletedContinues == FeedInv /\ DeletedInv /\ [Next]_vars => DeletedInv'
<1> SUFFICES ASSUME FeedInv, DeletedInv, [Next]_vars PROVE DeletedInv'
  OBVIOUS
<1>1. HubTypes /\ UiTypes
  BY TypesInParts DEF FeedInv
<1>2. ASSUME NEW i \in Ids, NewComment(i) PROVE DeletedInv'
  BY <1>2, DeletedPushes
<1>3. ASSUME NEW i \in Ids, CommentDeleted(i) PROVE DeletedInv'
  BY <1>3, DeletedDeletes
<1>4. ASSUME NEW v, NEW up, ConnectionStateChanged(v, up) PROVE DeletedInv'
  <2>1. Broadcast(ConnMsg) /\ UNCHANGED <<hand, cursor, pushed, deleted, ui>>
    BY <1>4 DEF ConnectionStateChanged, PushConnectionStatus
  <2> QED BY <1>1, <2>1, MessageTypes, SentKeepsDeletions
<1>5. CASE AnnounceStreamOwner
  <2>1. Broadcast(ConnMsg) /\ UNCHANGED <<hand, cursor, pushed, deleted, ui>>
    BY <1>5 DEF AnnounceStreamOwner, PushConnectionStatus
  <2> QED BY <1>1, <2>1, MessageTypes, SentKeepsDeletions
<1>6. CASE IncomingReaction
  BY <1>1, <1>6, MessageTypes, SentKeepsDeletions DEF IncomingReaction
<1>7. CASE AnnounceComment
  <2>1. busy.cur \in 1 .. Len(pushed)
    BY <1>1, <1>7, SMT DEF AnnounceComment, HubTypes, Idle, PublishingConn, Announcing
  <2>2. CommentMsg(busy.cur) \in Msgs
    BY <1>1, <2>1, MessageTypes
  <2> QED BY <1>7, <2>2, SentKeepsDeletions DEF AnnounceComment
<1>8. CASE PublishConnection
  BY <1>8, DeletedStands DEF PublishConnection
<1>9. CASE Take
  BY <1>9, DeletedTake
<1>10. CASE DeliverConnection
  <2>1. /\ hand.kind # "comment" /\ hand.kind # "deleted" /\ hand' = NoMsg
        /\ UNCHANGED <<pushed, chan, cursor, lagged, deleted>>
    BY <1>10 DEF DeliverConnection, hub
  <2>2. ui'.list = ui.list
    BY <1>10 DEF DeliverConnection
  <2> QED BY <2>1, <2>2, DeletedOther
<1>11. CASE DeliverReaction
  <2>1. /\ hand.kind # "comment" /\ hand.kind # "deleted" /\ hand' = NoMsg
        /\ UNCHANGED <<pushed, chan, cursor, lagged, deleted>>
    BY <1>11 DEF DeliverReaction, hub
  <2>2. ui'.list = ui.list
    BY <1>11 DEF DeliverReaction
  <2> QED BY <2>1, <2>2, DeletedOther
<1>12. CASE DeliverDeletion
  <2>1. /\ hand.kind # "comment" /\ hand' = NoMsg
        /\ UNCHANGED <<pushed, chan, cursor, lagged, deleted>>
    BY <1>12 DEF DeliverDeletion, hub
  <2>2. ui'.list \subseteq ui.list \ {hand.id}
    BY <1>12, SMT DEF DeliverDeletion
  <2> QED BY <2>1, <2>2, DeletedOther
<1>13. CASE DeliverComment
  BY <1>13, DeletedReads
<1>14. CASE UNCHANGED vars
  BY <1>14, DeletedStands DEF vars
<1> QED BY <1>2, <1>3, <1>4, <1>5, <1>6, <1>7, <1>8, <1>9, <1>10, <1>11, <1>12, <1>13,
           <1>14 DEF Next, HubGoesOn, Subscriber

\* A comment deleted after it was received leaves the list of the window, and
\* no read that catches up brings it back, as long as nothing is overwritten.
THEOREM DeletedStaysAway == Spec => []DeletedNotShown
<1>1. Init => DeletedInv
  <2> SUFFICES ASSUME Init PROVE DeletedInv
    OBVIOUS
  <2>1. deleted = {}
    BY DEF Init
  <2> QED BY <2>1, Zenon DEF DeletedInv, DeletionBehindNotice, DeletedNotShown
<1>2. DeletedInv => DeletedNotShown
  BY DEF DeletedInv
<1> QED BY <1>1, <1>2, FeedInvariant, DeletedContinues, PTL DEF Spec
=============================================================================
