--------------------------- MODULE StreamConnection ---------------------------
(***************************************************************************)
(* Which YouTube live the hub is attached to, and who owns it.             *)
(*                                                                         *)
(* Three asynchronous sources talk to the single-writer ModelQueue task    *)
(* through one FIFO channel:                                               *)
(*   - connectChat / disconnectChat in the Electron main process, which    *)
(*     always announce "no video" before they announce a new one;          *)
(*   - the scraper windows, whose status messages carry the video their    *)
(*     window was opened for, and which may outlive a later connectChat    *)
(*     because BrowserWindow.close() only requests the close;              *)
(*   - the watch-page fetch of resolveAndAnnounceStreamOwner, which        *)
(*     answers at any later time, or never.                                *)
(* ModelQueue keeps the connection, an owner announced too early           *)
(* (pending_stream_owner), and the channels the user declared as his own.  *)
(***************************************************************************)
EXTENDS Naturals, Sequences

CONSTANTS
    Videos,      \* video ids of live streams
    Channels,    \* channel ids
    OwnerOf,     \* the channel that owns each video (what the watch page says)
    NoVideo,     \* connection.video_id = None
    NoOwner,     \* connection.current_stream_owner_channel_id = None
    NoPending,   \* pending_stream_owner = None
    SaveChoices, \* channel lists the user may save while the hub runs
    MaxInbox,    \* bound: commands waiting in the ModelQueue channel
    MaxFetch,    \* bound: watch-page fetches in flight per video
    MaxTurns     \* bound: messages the Electron process sends in a behaviour

ASSUME StreamAssumption ==
    /\ OwnerOf \in [Videos -> Channels]
    /\ NoVideo \notin Videos
    /\ NoOwner \notin Channels
    /\ SaveChoices \subseteq SUBSET Channels
    /\ MaxInbox \in Nat
    /\ MaxFetch \in Nat
    /\ MaxTurns \in Nat

VARIABLES
    connection,    \* MainStore.connection
    pendingOwner,  \* ModelQueue.pending_stream_owner
    configured,    \* MainStore.configured_owner_channel_ids
    inbox,         \* the ModelCommand channel
    windows,       \* videos with a scraper window whose handlers still run
    fetching,      \* watch-page fetches in flight, per video
    turns          \* messages sent so far (bounded by MaxTurns)

connVars == <<connection, pendingOwner, configured>>
electronVars == <<windows, fetching, turns>>
streamVars == <<connection, pendingOwner, configured, inbox, windows, fetching, turns>>

VideoOpt == Videos \cup {NoVideo}
PendingOwner == [videoId : Videos, owner : Channels]

ConnectionState ==
    [connected : BOOLEAN, videoId : VideoOpt,
     owner : Channels \cup {NoOwner}, isOwn : BOOLEAN]

ConnectionCommand ==
    [type : {"connectionStateChanged"}, connected : BOOLEAN, videoId : VideoOpt]
AnnounceCommand ==
    [type : {"announceStreamOwner"}, videoId : Videos, owner : Channels]
OwnersCommand ==
    [type : {"setOwnerChannels"}, channels : SUBSET Channels]
StreamCommand == ConnectionCommand \cup AnnounceCommand \cup OwnersCommand

-----------------------------------------------------------------------------
(* ModelQueue's pure helpers.                                               *)

\* is_current_stream_own: the owner is known and is one of the user's channels.
\* Ids are compared after dropping an optional "yt-" prefix; a channel is one
\* value here.
IsCurrentStreamOwn(owner, own) == owner # NoOwner /\ owner \in own

\* Mutant: the owner outlives its video.
OwnerAfterKept(videoId, matches) ==
    IF matches THEN pendingOwner.owner ELSE connection.owner

\* Mutant: every connection message forgets the owner.
OwnerAfterForgotten(videoId, matches) ==
    IF matches THEN pendingOwner.owner ELSE NoOwner

\* The owner after a connection message: that of a matching pending
\* announcement, else unknown on a new video, else unchanged.
OwnerAfter(videoId, matches) ==
    IF matches THEN pendingOwner.owner
    ELSE IF connection.videoId # videoId THEN NoOwner ELSE connection.owner

\* apply_connection_state_changed: a new video forgets the owner, and a pending
\* announcement is applied if it is for the new video, kept if the video did
\* not change, dropped otherwise.
ApplyConnectionStateChanged(connected, videoId) ==
    LET changed == connection.videoId # videoId
        matches == pendingOwner # NoPending /\ pendingOwner.videoId = videoId
        owner   == OwnerAfter(videoId, matches)
    IN  /\ connection' = [connected |-> connected, videoId |-> videoId, owner |-> owner,
                          isOwn |-> IsCurrentStreamOwn(owner, configured)]
        /\ pendingOwner' = IF matches \/ changed THEN NoPending ELSE pendingOwner

\* Mutant: an announcement is applied to whatever video is current.
ApplyAnnouncementUnchecked(videoId, owner) ==
    /\ connection' = [connection EXCEPT
                         !.owner = owner,
                         !.isOwn = IsCurrentStreamOwn(owner, configured)]
    /\ pendingOwner' = NoPending

\* apply_stream_owner_announcement: applied at once for the current video,
\* remembered (the last one wins) for any other.
ApplyStreamOwnerAnnouncement(videoId, owner) ==
    IF connection.videoId = videoId
    THEN /\ connection' = [connection EXCEPT
                             !.owner = owner,
                             !.isOwn = IsCurrentStreamOwn(owner, configured)]
         /\ pendingOwner' = NoPending
    ELSE /\ pendingOwner' = [videoId |-> videoId, owner |-> owner]
         /\ UNCHANGED connection

-----------------------------------------------------------------------------
Init ==
    /\ connection = [connected |-> FALSE, videoId |-> NoVideo,
                     owner |-> NoOwner, isOwn |-> FALSE]
    /\ pendingOwner = NoPending
    /\ configured \in SUBSET Channels
    /\ inbox = <<>>
    /\ windows = {}
    /\ fetching = [v \in Videos |-> 0]
    /\ turns = 0

ConnectionCmd(connected, videoId) ==
    [type |-> "connectionStateChanged", connected |-> connected, videoId |-> videoId]

Turn == turns < MaxTurns /\ turns' = turns + 1

\* connectChat: disconnectChat first, then the preliminary (false, video) push,
\* then the owner fetch and the hidden window.
ConnectChat(v) ==
    /\ Turn
    /\ Len(inbox) + 2 =< MaxInbox
    /\ fetching[v] < MaxFetch
    /\ inbox' = Append(Append(inbox, ConnectionCmd(FALSE, NoVideo)), ConnectionCmd(FALSE, v))
    /\ windows' = windows \cup {v}
    /\ fetching' = [fetching EXCEPT ![v] = @ + 1]
    /\ UNCHANGED connVars

DisconnectChat ==
    /\ Turn
    /\ Len(inbox) < MaxInbox
    /\ inbox' = Append(inbox, ConnectionCmd(FALSE, NoVideo))
    /\ UNCHANGED <<connVars, windows, fetching>>

\* A status message of a scraper window: it names the window's own video, not
\* the current one.
ScraperStatus(v, connected) ==
    /\ Turn
    /\ v \in windows
    /\ Len(inbox) < MaxInbox
    /\ inbox' = Append(inbox, ConnectionCmd(connected, v))
    /\ UNCHANGED <<connVars, windows, fetching>>

\* A window finishes closing, on request or not.
WindowClosed(v) ==
    /\ v \in windows
    /\ windows' = windows \ {v}
    /\ UNCHANGED <<connVars, inbox, fetching, turns>>

\* The watch page arrives and names the owner ...
OwnerResolved(v) ==
    /\ fetching[v] > 0
    /\ Len(inbox) < MaxInbox
    /\ fetching' = [fetching EXCEPT ![v] = @ - 1]
    /\ inbox' = Append(inbox, [type |-> "announceStreamOwner",
                               videoId |-> v, owner |-> OwnerOf[v]])
    /\ UNCHANGED <<connVars, windows, turns>>

\* Mutant: the end of the fetch is not noted.
OwnerFetchFailedTwice(v) ==
    /\ fetching[v] >= 0
    /\ fetching' = [fetching EXCEPT ![v] = @ - 1]
    /\ UNCHANGED <<connVars, inbox, windows, turns>>

\* ... or the fetch fails, or the page holds no channel id: nothing is retried.
OwnerFetchFailed(v) ==
    /\ fetching[v] > 0
    /\ fetching' = [fetching EXCEPT ![v] = @ - 1]
    /\ UNCHANGED <<connVars, inbox, windows, turns>>

\* The user saves his channel list.
SaveOwnerChannels(own) ==
    /\ Turn
    /\ Len(inbox) < MaxInbox
    /\ inbox' = Append(inbox, [type |-> "setOwnerChannels", channels |-> own])
    /\ UNCHANGED <<connVars, windows, fetching>>

-----------------------------------------------------------------------------
(* ModelQueue: one command at a time, in channel order.                     *)

NextCommand(type) == inbox # <<>> /\ Head(inbox).type = type

HandleConnectionStateChanged ==
    /\ NextCommand("connectionStateChanged")
    /\ ApplyConnectionStateChanged(Head(inbox).connected, Head(inbox).videoId)
    /\ inbox' = Tail(inbox)
    /\ UNCHANGED <<configured, electronVars>>

HandleAnnounceStreamOwner ==
    /\ NextCommand("announceStreamOwner")
    /\ ApplyStreamOwnerAnnouncement(Head(inbox).videoId, Head(inbox).owner)
    /\ inbox' = Tail(inbox)
    /\ UNCHANGED <<configured, electronVars>>

\* Mutant: the new list is stored, the flag is not derived again.
HandleSetOwnerChannelsNoPush ==
    /\ NextCommand("setOwnerChannels")
    /\ configured' = Head(inbox).channels
    /\ inbox' = Tail(inbox)
    /\ UNCHANGED <<connection, pendingOwner, electronVars>>

\* handle_set_owner_channels: the write to owner_channels may fail, and then
\* neither the list nor the derived flag changes.
HandleSetOwnerChannels ==
    /\ NextCommand("setOwnerChannels")
    /\ \/ /\ configured' = Head(inbox).channels
          /\ connection' = [connection EXCEPT
                !.isOwn = IsCurrentStreamOwn(connection.owner, Head(inbox).channels)]
       \/ UNCHANGED <<configured, connection>>
    /\ inbox' = Tail(inbox)
    /\ UNCHANGED <<pendingOwner, electronVars>>

Electron ==
    \/ \E v \in Videos : ConnectChat(v)
    \/ DisconnectChat
    \/ \E v \in Videos, connected \in BOOLEAN : ScraperStatus(v, connected)
    \/ \E v \in Videos : WindowClosed(v)
    \/ \E v \in Videos : OwnerResolved(v)
    \/ \E v \in Videos : OwnerFetchFailed(v)
    \/ \E own \in SaveChoices : SaveOwnerChannels(own)

HandleStreamCommand ==
    \/ HandleConnectionStateChanged
    \/ HandleAnnounceStreamOwner
    \/ HandleSetOwnerChannels

Next == Electron \/ HandleStreamCommand

Spec == Init /\ [][Next]_streamVars

-----------------------------------------------------------------------------
(* Every variable holds a value of its type. *)
TypeOK ==
    /\ connection \in ConnectionState
    /\ pendingOwner \in PendingOwner \cup {NoPending}
    /\ configured \in SUBSET Channels
    /\ inbox \in Seq(StreamCommand)
    /\ windows \in SUBSET Videos
    /\ fetching \in [Videos -> Nat]
    /\ turns \in Nat

(* An announcement that is waiting names the owner the watch page gave.     *)
Truthful(cmd) ==
    cmd.type = "announceStreamOwner" => cmd.owner = OwnerOf[cmd.videoId]
AnnouncementsTrue == \A i \in 1..Len(inbox) : Truthful(inbox[i])

(* The owner the hub works with is the owner of the video it is attached    *)
(* to, however late announcements arrive and however often the video        *)
(* changes in between: comments of one stream are never attributed to the   *)
(* channel of another.                                                      *)
OwnerMatchesVideo ==
    /\ connection.owner # NoOwner =>
         /\ connection.videoId \in Videos
         /\ connection.owner = OwnerOf[connection.videoId]
    /\ pendingOwner # NoPending => pendingOwner.owner = OwnerOf[pendingOwner.videoId]

(* The derived flag every client shows (isOwnStream) is what                *)
(* is_current_stream_own would compute now: no handler that changes the     *)
(* owner, the video or the configured channels forgets to refresh it.       *)
IsOwnStreamFresh ==
    connection.isOwn = IsCurrentStreamOwn(connection.owner, configured)

(* A pending announcement is never for the current video: one that could    *)
(* be applied has been, so the owner is not left unknown while it waits.    *)
PendingIsForAnotherVideo ==
    pendingOwner # NoPending => pendingOwner.videoId # connection.videoId

(* The connection implements HubStream: it never shows a wrong owner, forgets *)
(* an owner only with its video, and never lets the own-stream flag lag, in   *)
(* any order of reconnects, late announcements, stray status messages of old  *)
(* windows and changes of the user's channels.                               *)
Hub == INSTANCE HubStream WITH
    video <- connection.videoId, owner <- connection.owner,
    own <- configured, isOwn <- connection.isOwn

ImplementsHub == Hub!HubSpec
=============================================================================
