---------------------------- MODULE CommentIngest ----------------------------
(***************************************************************************)
(* The life of a chat comment inside the hub: from the scraper, through    *)
(* comment_aux_queue (parsing, image cache) and the ModelQueue channel, to *)
(* the session stores (replay store, shared-memory timeline, live          *)
(* counters, listener tags) and, through listener_record_queue, to the     *)
(* listeners database.                                                     *)
(*                                                                         *)
(* The connection itself is StreamConnection, extended here: the same      *)
(* FIFO channel carries its commands and the comments, and a change of     *)
(* video clears every per-stream store.                                    *)
(*                                                                         *)
(* A comment is its YouTube id. Author and Origin give its listener and    *)
(* the video it was posted on. A delivery marked as backfill only skips     *)
(* effects and speech, which are not part of this module. Every batch holds *)
(* one comment: the handler treats the comments of a batch one after the    *)
(* other, and the aux worker writes them back singly.                      *)
(***************************************************************************)
EXTENDS StreamConnection, FiniteSets, SequencesExt

CONSTANTS
    Comments,     \* comment ids
    Listeners,    \* user ids
    Author,       \* who wrote a comment
    Origin,       \* the video it was posted on
    Threads,      \* tokio worker threads: each has its own SEEN_IDS
    NoComment,    \* no comment: nothing to prepare, to add or to delete
    MaxSeenIds,   \* SEEN_IDS is emptied when it holds more (5000)
    TimelineCap,  \* CommentTimeline capacity (1000)
    StoreCap,     \* CanonicalCommentStore capacity (2000)
    MaxPushes     \* bound: messages the scraper windows send in a behaviour

ASSUME IngestAssumption ==
    /\ Author \in [Comments -> Listeners]
    /\ Origin \in [Comments -> Videos]
    /\ Threads # {}
    /\ NoComment \notin Comments
    /\ TimelineCap \in Nat \ {0}
    /\ StoreCap \in Nat \ {0}
    /\ TimelineCap =< StoreCap
    /\ MaxSeenIds \in Nat
    /\ MaxPushes \in Nat

VARIABLES
    aux,           \* comment_aux_queue: batches waiting for the aux worker
    preparing,     \* the comment whose images the aux worker is preparing
    seenIds,       \* SEEN_IDS of the InnerTube parser, per thread
    seen,          \* main_session.seen_comment_ids
    store,         \* main_session.canonical_comment_store (replay)
    timeline,      \* main_session.comment_timeline (shared memory)
    nextCursor,    \* its next cursor
    stats,         \* main_session.live_stream_stats
    seenInStream,  \* listener_seen_in_current_stream
    seenInSession, \* listener_seen_in_session
    streamCounts,  \* listener_current_stream_comment_counts
    recordQueue,   \* listener_record_queue
    db,            \* comments rows of listeners.db
    pushes,        \* messages sent so far (bounded by MaxPushes)
    history        \* what clients and effects saw; read by properties only

pipeVars == <<aux, preparing, seenIds, pushes>>
sessionVars == <<seen, store, timeline, nextCursor, stats>>
listenerVars == <<seenInStream, seenInSession, streamCounts>>
ingestVars == <<pipeVars, sessionVars, listenerVars, recordQueue, db, history>>
vars == <<streamVars, ingestVars>>

\* "first-time" is the tag of a listener nobody has seen before; "arrival"
\* stands for the other tags of a first comment in a stream (regular-arrival,
\* long-absence, returning), which differ by statistics of past streams only.
Tags == {"", "first-time", "arrival"}
StoredComment == [id : Comments, live : VideoOpt, tag : Tags, count : Nat]
TimelineEntry == [cursor : Nat \ {0}, comment : StoredComment]
Row == [id : Comments, video : Videos, own : BOOLEAN]

Ids(comments) == {comments[i].id : i \in DOMAIN comments}
\* What keeps the stores in order: an id is held at most once.
NoIdTwice(s) == \A i, j \in DOMAIN s : s[i].id = s[j].id => i = j
TimelineIds == {timeline[i].comment.id : i \in DOMAIN timeline}

-----------------------------------------------------------------------------
(* The session stores.                                                      *)

\* CanonicalCommentStore::upsert: an id that is present keeps its place and
\* takes the new content; a new one is appended, the oldest leaving a full
\* store.
Upsert(s, e) ==
    IF e.id \in Ids(s)
    THEN [i \in DOMAIN s |-> IF s[i].id = e.id THEN e ELSE s[i]]
    ELSE Append(IF Len(s) >= StoreCap THEN Tail(s) ELSE s, e)

\* CanonicalCommentStore::delete_ids, one id, which the store holds at most once
\* (NoIdTwice): nothing remembers the deletion.
DeleteId(s, c) ==
    IF c \in Ids(s) THEN RemoveAt(s, CHOOSE i \in DOMAIN s : s[i].id = c) ELSE s

\* Mutant: a full timeline keeps its oldest entry.
PushTimelineUncapped(t, e) == Append(t, [cursor |-> nextCursor, comment |-> e])

\* CommentTimeline::push and update_by_id.
PushTimeline(t, e) ==
    Append(IF Len(t) >= TimelineCap THEN Tail(t) ELSE t,
           [cursor |-> nextCursor, comment |-> e])
\* Mutant: a redelivery refreshes the replay store only.
UpdateTimelineForgotten(t, e) == t

UpdateTimeline(t, e) ==
    [i \in DOMAIN t |-> IF t[i].comment.id = e.id THEN [t[i] EXCEPT !.comment = e] ELSE t[i]]

-----------------------------------------------------------------------------
(* annotate_listener_comment_status: classification from the database (which *)
(* record_comment fills later, from its own queue) corrected by what this    *)
(* session has already seen.                                                *)

\* Rows of listener u on the current video, and on any stream of the user's
\* own channels (classify_comment_before_record).
RowsInStream(u) == {r \in db : Author[r.id] = u /\ r.video = connection.videoId}
HasPriorComment(u) == \E r \in db : Author[r.id] = u /\ OwnerOf[r.video] \in configured

\* Only comments of an own stream whose owner is known are annotated.
Annotates == /\ connection.videoId # NoVideo
             /\ IsCurrentStreamOwn(connection.owner, configured)

FirstInStream(u) == RowsInStream(u) = {} /\ u \notin seenInStream
\* Mutant: first-time is decided by the database alone.
FirstTimeByDatabase(u) == ~HasPriorComment(u)

FirstTime(u) == ~HasPriorComment(u) /\ u \notin seenInSession

TagOf(u) ==
    IF ~Annotates \/ ~FirstInStream(u) THEN ""
    ELSE IF FirstTime(u) THEN "first-time" ELSE "arrival"

\* The listener's comment count in this stream: seeded from the database on
\* the first comment, incremented in memory afterwards.
CountOf(u) ==
    IF ~Annotates THEN 0
    ELSE 1 + (IF u \in DOMAIN streamCounts THEN streamCounts[u]
              ELSE Cardinality(RowsInStream(u)))

\* Annotation of one delivery. It runs before the duplicate check.
Annotate(u) ==
    IF Annotates
    THEN /\ seenInStream' = seenInStream \cup {u}
         /\ seenInSession' = seenInSession \cup {u}
         /\ streamCounts' = [x \in DOMAIN streamCounts \cup {u} |->
                               IF x = u THEN CountOf(u) ELSE streamCounts[x]]
    ELSE UNCHANGED listenerVars

-----------------------------------------------------------------------------
IngestInit ==
    /\ aux = <<>>
    /\ preparing = NoComment
    /\ seenIds = [t \in Threads |-> {}]
    /\ seen = {}
    /\ store = <<>>
    /\ timeline = <<>>
    /\ nextCursor = 1
    /\ stats = [video |-> NoVideo, count |-> 0]
    /\ seenInStream = {}
    /\ seenInSession = {}
    /\ streamCounts = [x \in {} |-> 0]
    /\ recordQueue = <<>>
    /\ db = {}
    /\ pushes = 0
    /\ history = [broadcasts |-> [c \in Comments |-> 0],
                  firstTimes |-> [u \in Listeners |-> 0]]

-----------------------------------------------------------------------------
(* The scraper windows. A push reaches comment_aux_queue through a command   *)
(* of the ModelQueue channel whose handler only hands it over; it is queued  *)
(* here at once, which changes no order: the comment returns through the     *)
(* tail of the same channel.                                                *)

CommentsOf(v) == {c \in Comments : Origin[c] = v}

Push(v) ==
    /\ v \in windows
    /\ pushes < MaxPushes
    /\ pushes' = pushes + 1

\* pushComments: DOM backfill of a fresh window, or the DOM observer.
PushComments(v) ==
    /\ Push(v)
    /\ \E c \in CommentsOf(v) :
         aux' = Append(aux, [path |-> "json", add |-> c, delete |-> NoComment])
    /\ UNCHANGED <<streamVars, preparing, seenIds, sessionVars, listenerVars,
                   recordQueue, db, history>>

\* pushInnertubeActions: one response may add a comment and mark one deleted.
PushInnertube(v) ==
    /\ Push(v)
    /\ \E c, d \in CommentsOf(v) \cup {NoComment} :
         /\ <<c, d>> # <<NoComment, NoComment>>
         /\ aux' = Append(aux, [path |-> "innertube", add |-> c, delete |-> d])
    /\ UNCHANGED <<streamVars, preparing, seenIds, sessionVars, listenerVars,
                   recordQueue, db, history>>

\* pushCommentDeleted: the DOM observers' deletions go straight to ModelQueue.
PushDeleted(v) ==
    /\ Push(v)
    /\ Len(inbox) < MaxInbox
    /\ \E c \in CommentsOf(v) :
         inbox' = Append(inbox, [type |-> "commentDeleted", id |-> c])
    /\ UNCHANGED <<connVars, electronVars, aux, preparing, seenIds, sessionVars,
                   listenerVars, recordQueue, db, history>>

-----------------------------------------------------------------------------
(* The comment_aux worker: one batch at a time.                             *)

AuxIdle == preparing = NoComment /\ aux # <<>>

AuxTakeJson ==
    /\ AuxIdle /\ Head(aux).path = "json"
    /\ preparing' = Head(aux).add
    /\ aux' = Tail(aux)
    /\ UNCHANGED <<streamVars, seenIds, pushes, sessionVars, listenerVars,
                   recordQueue, db, history>>

\* parse_innertube_actions with the SEEN_IDS of whichever thread polls the
\* task: known ids are dropped, a deletion is reported only for a known id,
\* and deletions leave before the comments of the same response.
AuxParseInnertube(t) ==
    /\ AuxIdle /\ Head(aux).path = "innertube"
    /\ Len(inbox) < MaxInbox
    /\ LET batch == Head(aux)
            known == IF Cardinality(seenIds[t]) > MaxSeenIds THEN {} ELSE seenIds[t]
            added == {batch.add} \ (known \cup {NoComment})
            gone  == {batch.delete} \cap (known \cup added)
       IN  /\ seenIds' = [seenIds EXCEPT ![t] = (known \cup added) \ gone]
           /\ inbox' = IF gone = {} THEN inbox
                       ELSE Append(inbox, [type |-> "commentDeleted", id |-> batch.delete])
           /\ preparing' = IF added = {} THEN NoComment
                           ELSE batch.add
    /\ aux' = Tail(aux)
    /\ UNCHANGED <<connVars, electronVars, pushes, sessionVars, listenerVars,
                   recordQueue, db, history>>

\* The images are cached and the comment is written back ...
AuxWriteback ==
    /\ preparing # NoComment
    /\ Len(inbox) < MaxInbox
    /\ inbox' = Append(inbox, [type |-> "incomingComments", id |-> preparing])
    /\ preparing' = NoComment
    /\ UNCHANGED <<connVars, electronVars, aux, seenIds, pushes, sessionVars,
                   listenerVars, recordQueue, db, history>>

\* ... or preparing it fails: it is logged and dropped.
AuxPrepareError ==
    /\ preparing # NoComment
    /\ preparing' = NoComment
    /\ UNCHANGED <<streamVars, aux, seenIds, pushes, sessionVars, listenerVars,
                   recordQueue, db, history>>

-----------------------------------------------------------------------------
(* ModelQueue.                                                              *)

\* dispatch_listener_record: nothing is queued until the owner is known.
Dispatches == connection.owner # NoOwner /\ connection.videoId # NoVideo
RowOf(c) == [id |-> c, video |-> connection.videoId,
             own |-> IsCurrentStreamOwn(connection.owner, configured)]

\* Mutant: a redelivery is counted.
IngestDuplicateCounted(e) ==
    /\ store' = Upsert(store, e)
    /\ timeline' = UpdateTimeline(timeline, e)
    /\ stats' = [stats EXCEPT !.count = @ + 1]
    /\ UNCHANGED <<seen, nextCursor, recordQueue, history>>

\* A comment seen before on this stream: only the content is refreshed.
IngestDuplicate(e) ==
    /\ store' = Upsert(store, e)
    /\ timeline' = UpdateTimeline(timeline, e)
    /\ UNCHANGED <<seen, nextCursor, stats, recordQueue, history>>

\* A new one: stores, counters, record queue, broadcast.
IngestNew(e) ==
    LET u == Author[e.id] IN
    /\ seen' = seen \cup {e.id}
    /\ store' = Upsert(store, e)
    /\ timeline' = PushTimeline(timeline, e)
    /\ nextCursor' = nextCursor + 1
    /\ stats' = IF connection.videoId = NoVideo THEN stats
                ELSE [video |-> connection.videoId,
                      count |-> 1 + (IF stats.video = connection.videoId
                                     THEN stats.count ELSE 0)]
    /\ recordQueue' = IF Dispatches THEN Append(recordQueue, RowOf(e.id)) ELSE recordQueue
    /\ history' = [history EXCEPT
                      !.broadcasts[e.id] = @ + 1,
                      !.firstTimes[u] = IF e.tag = "first-time" THEN @ + 1 ELSE @]

\* Mutant: duplicates are looked up in the replay store, which evicts.
IsDuplicateByStore(c) == c \in Ids(store)

\* seen_comment_ids remembers an id for as long as the video stays.
IsDuplicate(c) == c \in seen

\* handle_incoming_comments, one comment.
HandleIncomingComment ==
    /\ NextCommand("incomingComments")
    /\ LET c == Head(inbox).id
            u == Author[c]
            e == [id |-> c, live |-> connection.videoId, tag |-> TagOf(u), count |-> CountOf(u)]
       IN  /\ Annotate(u)
           /\ IF IsDuplicate(c) THEN IngestDuplicate(e) ELSE IngestNew(e)
    /\ inbox' = Tail(inbox)
    /\ UNCHANGED <<connVars, electronVars, pipeVars, db>>

HandleCommentDeleted ==
    /\ NextCommand("commentDeleted")
    /\ store' = DeleteId(store, Head(inbox).id)
    /\ inbox' = Tail(inbox)
    /\ UNCHANGED <<connVars, electronVars, pipeVars, seen, timeline, nextCursor, stats,
                   listenerVars, recordQueue, db, history>>

\* Mutant: the live counter is not reset.
ClearStreamNotStats ==
    /\ seen' = {} /\ store' = <<>> /\ timeline' = <<>>
    /\ seenInStream' = {} /\ streamCounts' = [x \in {} |-> 0]
    /\ history' = [history EXCEPT !.broadcasts = [c \in Comments |-> 0]]
    /\ UNCHANGED <<nextCursor, seenInSession, stats>>

\* handle_connection_state_changed: a change of video empties every store of
\* the old stream; the cursor goes on counting.
ClearStream ==
    /\ seen' = {}
    /\ store' = <<>>
    /\ timeline' = <<>>
    /\ stats' = [video |-> connection'.videoId, count |-> 0]
    /\ seenInStream' = {}
    /\ streamCounts' = [x \in {} |-> 0]
    /\ history' = [history EXCEPT !.broadcasts = [c \in Comments |-> 0]]
    /\ UNCHANGED <<nextCursor, seenInSession>>

HandleConnection ==
    /\ HandleConnectionStateChanged
    /\ IF connection'.videoId # connection.videoId THEN ClearStream
       ELSE UNCHANGED <<sessionVars, listenerVars, history>>
    /\ UNCHANGED <<pipeVars, recordQueue, db>>

HandleOwner ==
    /\ HandleAnnounceStreamOwner \/ HandleSetOwnerChannels
    /\ UNCHANGED ingestVars

HandleCommand ==
    \/ HandleIncomingComment
    \/ HandleCommentDeleted
    \/ HandleConnection
    \/ HandleOwner

\* The record worker: INSERT ... ON CONFLICT(id) DO NOTHING.
RecordComment ==
    /\ recordQueue # <<>>
    /\ db' = IF Head(recordQueue).id \in {r.id : r \in db} THEN db
             ELSE db \cup {Head(recordQueue)}
    /\ recordQueue' = Tail(recordQueue)
    /\ UNCHANGED <<streamVars, pipeVars, sessionVars, listenerVars, history>>

\* The database stays locked through every retry: the comment is lost.
RecordBusy ==
    /\ recordQueue # <<>>
    /\ recordQueue' = Tail(recordQueue)
    /\ UNCHANGED <<streamVars, pipeVars, sessionVars, listenerVars, db, history>>

Scraper == \E v \in Videos : PushComments(v) \/ PushInnertube(v) \/ PushDeleted(v)
AuxWorker ==
    \/ AuxTakeJson \/ AuxWriteback \/ AuxPrepareError
    \/ \E t \in Threads : AuxParseInnertube(t)
RecordWorker == RecordComment \/ RecordBusy
ElectronStep == Electron /\ UNCHANGED ingestVars

IngestNext == ElectronStep \/ Scraper \/ AuxWorker \/ HandleCommand \/ RecordWorker

IngestSpec == Init /\ IngestInit /\ [][IngestNext]_vars

-----------------------------------------------------------------------------
(* Every variable holds a value of its type. *)
Batch == [path : {"json", "innertube"}, add : Comments \cup {NoComment},
          delete : Comments \cup {NoComment}]
IngestCommand ==
    StreamCommand \cup [type : {"incomingComments", "commentDeleted"}, id : Comments]

IngestTypeOK ==
    /\ connection \in ConnectionState
    /\ inbox \in Seq(IngestCommand)
    /\ aux \in Seq(Batch)
    /\ preparing \in Comments \cup {NoComment}
    /\ seenIds \in [Threads -> SUBSET Comments]
    /\ seen \in SUBSET Comments
    /\ store \in Seq(StoredComment) /\ Len(store) =< StoreCap
    /\ timeline \in Seq(TimelineEntry) /\ Len(timeline) =< TimelineCap
    /\ nextCursor \in Nat \ {0}
    /\ stats \in [video : VideoOpt, count : Nat]
    /\ seenInStream \in SUBSET Listeners
    /\ seenInSession \in SUBSET Listeners
    /\ DOMAIN streamCounts \in SUBSET Listeners
    /\ recordQueue \in Seq(Row)
    /\ db \in SUBSET Row
    /\ pushes \in 0..MaxPushes

(* However often a comment is delivered (DOM backfill, DOM observer, fetch   *)
(* intercept, two windows, a store that has already evicted it), it is       *)
(* broadcast exactly once per attachment to a stream, and the live counter of *)
(* the stream counts just these comments and nothing of the stream before.   *)
OncePerStream ==
    /\ \A c \in Comments : history.broadcasts[c] = IF c \in seen THEN 1 ELSE 0
    /\ connection.videoId # NoVideo =>
         stats = [video |-> connection.videoId, count |-> Cardinality(seen)]

(* A client that replays the store and one that reads the shared-memory      *)
(* timeline agree: no id is held twice, whatever either still holds has      *)
(* been handled on this stream, and a comment both hold has one content.     *)
ReplayAgreesWithTimeline ==
    /\ NoIdTwice(store)
    /\ \A i, j \in DOMAIN timeline :
         timeline[i].comment.id = timeline[j].comment.id => i = j
    /\ Ids(store) \cup TimelineIds \subseteq seen
    /\ \A i \in DOMAIN store, j \in DOMAIN timeline :
         store[i].id = timeline[j].comment.id => store[i] = timeline[j].comment

(* Cursors name one comment for the life of the process, also across a       *)
(* change of stream: a reader that asks for "after cursor n" misses nothing. *)
CursorStep ==
    /\ nextCursor' >= nextCursor
    /\ \A i \in DOMAIN timeline' :
         \/ timeline'[i].cursor \in nextCursor..(nextCursor' - 1)
         \/ \E j \in DOMAIN timeline :
               /\ timeline[j].cursor = timeline'[i].cursor
               /\ timeline[j].comment.id = timeline'[i].comment.id
CursorsNeverReused == [][CursorStep]_vars

(* What the hub remembers of listeners for the current stream concerns this   *)
(* attachment only: a listener is remembered, with a count, only if one of    *)
(* his comments was handled since the last change of video.                  *)
ListenerMemoryScoped ==
    /\ DOMAIN streamCounts = seenInStream
    /\ seenInStream \subseteq {Author[c] : c \in seen}

(* A listener is greeted as "first time" at most once while the hub runs,    *)
(* although the database learns of his comments later and may fail to.       *)
FirstTimeOnce == \A u \in Listeners : history.firstTimes[u] =< 1

-----------------------------------------------------------------------------
(* What comments and documentation of the code say, and the code does not   *)
(* keep.                                                                    *)

(* The replay source holds no comment of another stream: it is cleared on a  *)
(* change of video exactly so that none leaks to the new stream's clients.  *)
NoCrossStream == \A i \in DOMAIN store : store[i].live \in {NoVideo, Origin[store[i].id]}

(* The per-listener count shown with a comment is the number of comments     *)
(* this user has made in this stream.                                       *)
StreamCountExact ==
    \A u \in DOMAIN streamCounts :
        streamCounts[u] =< Cardinality({c \in Comments :
                               Author[c] = u /\ Origin[c] = connection.videoId})

(* A deletion reported by InnerTube for a comment the hub still replays is   *)
(* forwarded: the action property watches the parser, whose memory of seen   *)
(* ids is declared sound because the aux queue is single-threaded.          *)
DeletionForwarded ==
    [][ \A t \in Threads :
          (AuxParseInnertube(t) /\ Head(aux).delete \in UNION {seenIds[x] : x \in Threads})
          => inbox' # inbox ]_vars
=============================================================================
