-------------------------- MODULE CommentIngestProofs --------------------------
(***************************************************************************)
(* What StreamConnection and CommentIngest guarantee for any videos,         *)
(* channels, comments and listeners, any capacities of the stores, and       *)
(* messages and deliveries of any number, in any order.                     *)
(*                                                                         *)
(* First the connection alone, with its refinement of HubStream; then the    *)
(* ingest, whose specification takes the steps of the connection among its   *)
(* own.                                                                     *)
(***************************************************************************)
EXTENDS CommentIngest, FiniteSetTheorems, SequenceTheorems, TLAPS

-----------------------------------------------------------------------------
(* The connection.                                                          *)

\* The types of the connection whatever else travels in its channel: the ingest
\* puts comments among the commands.
HubTypeOK ==
    /\ connection \in ConnectionState
    /\ pendingOwner \in PendingOwner \cup {NoPending}
    /\ configured \in SUBSET Channels
    /\ inbox \in Seq(IngestCommand)
    /\ windows \in SUBSET Videos
    /\ fetching \in [Videos -> Nat]
    /\ turns \in Nat

\* The inductive invariant: the stated invariants, and the fact about waiting
\* announcements on which OwnerMatchesVideo rests.
StreamInv ==
    /\ HubTypeOK
    /\ AnnouncementsTrue
    /\ OwnerMatchesVideo
    /\ IsOwnStreamFresh
    /\ PendingIsForAnotherVideo

-----------------------------------------------------------------------------
(* A truthful command may join a truthful queue.                            *)
LEMMA AppendTruthful ==
    ASSUME NEW q \in Seq(IngestCommand), NEW cmd \in IngestCommand,
           \A i \in 1..Len(q) : Truthful(q[i]), Truthful(cmd)
    PROVE  /\ Append(q, cmd) \in Seq(IngestCommand)
           /\ \A i \in 1..Len(Append(q, cmd)) : Truthful(Append(q, cmd)[i])
<1> DEFINE r == Append(q, cmd)
<1>1. r \in Seq(IngestCommand) /\ Len(r) = Len(q) + 1
  OBVIOUS
<1>2. ASSUME NEW i \in 1..Len(r) PROVE Truthful(r[i])
  <2>1. CASE i \in 1..Len(q)
    <3>1. r[i] = q[i]
      BY <2>1
    <3> QED BY <2>1, <3>1
  <2>2. CASE i = Len(q) + 1
    <3>1. r[i] = cmd
      BY <2>2
    <3> QED BY <3>1
  <2> QED BY <1>1, <1>2, <2>1, <2>2
<1> QED BY <1>1, <1>2

(* Handling the head of a truthful queue leaves a truthful queue.           *)
LEMMA TailTruthful ==
    ASSUME NEW q \in Seq(IngestCommand), q # <<>>,
           \A i \in 1..Len(q) : Truthful(q[i])
    PROVE  /\ Head(q) \in IngestCommand /\ Truthful(Head(q))
           /\ Tail(q) \in Seq(IngestCommand)
           /\ \A i \in 1..Len(Tail(q)) : Truthful(Tail(q)[i])
<1>1. Head(q) = q[1] /\ 1 \in 1..Len(q) /\ Head(q) \in IngestCommand
  OBVIOUS
<1>2. Tail(q) \in Seq(IngestCommand) /\ Len(Tail(q)) = Len(q) - 1
  OBVIOUS
<1>3. ASSUME NEW i \in 1..Len(Tail(q)) PROVE Truthful(Tail(q)[i])
  <2>1. Tail(q)[i] = q[i + 1] /\ i + 1 \in 1..Len(q)
    BY <1>2, <1>3
  <2> QED BY <2>1
<1> QED BY <1>1, <1>2, <1>3

(* The type tag of a command tells its other fields.                        *)
LEMMA CommandFields ==
    ASSUME NEW cmd \in IngestCommand
    PROVE  /\ cmd.type = "connectionStateChanged" =>
                cmd.connected \in BOOLEAN /\ cmd.videoId \in VideoOpt
           /\ cmd.type = "announceStreamOwner" =>
                cmd.videoId \in Videos /\ cmd.owner \in Channels
           /\ cmd.type = "setOwnerChannels" => cmd.channels \in SUBSET Channels
<1>1. \/ cmd \in ConnectionCommand \/ cmd \in AnnounceCommand \/ cmd \in OwnersCommand
      \/ cmd \in [type : {"incomingComments", "commentDeleted"}, id : Comments]
  BY DEF IngestCommand, StreamCommand
<1>2. CASE cmd \in ConnectionCommand
  BY <1>2 DEF ConnectionCommand
<1>3. CASE cmd \in AnnounceCommand
  BY <1>3 DEF AnnounceCommand
<1>4. CASE cmd \in OwnersCommand
  BY <1>4 DEF OwnersCommand
<1>5. CASE cmd \in [type : {"incomingComments", "commentDeleted"}, id : Comments]
  BY <1>5
<1> QED BY <1>1, <1>2, <1>3, <1>4, <1>5

(* Connection commands are commands and claim nothing about owners.         *)
LEMMA ConnectionCmdType ==
    ASSUME NEW c \in BOOLEAN, NEW v \in VideoOpt
    PROVE  ConnectionCmd(c, v) \in IngestCommand /\ Truthful(ConnectionCmd(c, v))
BY DEF ConnectionCmd, IngestCommand, StreamCommand, ConnectionCommand, Truthful

-----------------------------------------------------------------------------
(* Whatever the Electron process sends, if the commands are truthful, the    *)
(* hub's own state is as good as before.                                    *)
LEMMA SendKeepsInv ==
    ASSUME StreamInv, UNCHANGED connVars,
           inbox' \in Seq(IngestCommand),
           \A i \in 1..Len(inbox') : Truthful(inbox'[i]),
           windows' \in SUBSET Videos,
           fetching' \in [Videos -> Nat], turns' \in Nat
    PROVE  StreamInv'
<1>1. HubTypeOK'
  BY DEF StreamInv, HubTypeOK, connVars
<1>2. AnnouncementsTrue'
  BY DEF AnnouncementsTrue
<1>3. OwnerMatchesVideo'
  BY DEF StreamInv, OwnerMatchesVideo, connVars
<1>4. IsOwnStreamFresh'
  BY DEF StreamInv, IsOwnStreamFresh, IsCurrentStreamOwn, connVars
<1>5. PendingIsForAnotherVideo'
  BY DEF StreamInv, PendingIsForAnotherVideo, connVars
<1> QED BY <1>1, <1>2, <1>3, <1>4, <1>5 DEF StreamInv

(* A connection message keeps the owner right: a pending announcement is     *)
(* applied to its own video only, and an owner does not outlive its video.   *)
LEMMA StreamConnectionKeepsInv ==
    ASSUME StreamInv, HandleConnectionStateChanged
    PROVE  StreamInv'
<1> DEFINE cmd == Head(inbox)
           matches == pendingOwner # NoPending /\ pendingOwner.videoId = cmd.videoId
           changed == connection.videoId # cmd.videoId
           newOwner == OwnerAfter(cmd.videoId, matches)
<1> USE DEF StreamInv
<1>1. /\ inbox \in Seq(IngestCommand) /\ inbox # <<>>
      /\ \A i \in 1..Len(inbox) : Truthful(inbox[i])
  BY DEF HubTypeOK, AnnouncementsTrue, HandleConnectionStateChanged, NextCommand
<1>2. /\ cmd \in IngestCommand
      /\ inbox' \in Seq(IngestCommand)
      /\ \A i \in 1..Len(inbox') : Truthful(inbox'[i])
  BY <1>1, TailTruthful DEF HandleConnectionStateChanged
<1>3. cmd.connected \in BOOLEAN /\ cmd.videoId \in VideoOpt
  BY <1>2, CommandFields DEF HandleConnectionStateChanged, NextCommand
<1>4. /\ connection' = [connected |-> cmd.connected, videoId |-> cmd.videoId,
                        owner |-> newOwner,
                        isOwn |-> IsCurrentStreamOwn(newOwner, configured)]
      /\ pendingOwner' = IF matches \/ changed THEN NoPending ELSE pendingOwner
      /\ UNCHANGED <<configured, windows, fetching, turns>>
  BY DEF HandleConnectionStateChanged, ApplyConnectionStateChanged, electronVars
<1>5. newOwner \in Channels \cup {NoOwner}
  BY DEF HubTypeOK, OwnerAfter, ConnectionState, PendingOwner
<1>6. HubTypeOK'
  <2>1. IsCurrentStreamOwn(newOwner, configured) \in BOOLEAN
    BY DEF IsCurrentStreamOwn
  <2>2. connection' \in ConnectionState
    BY <1>3, <1>4, <1>5, <2>1 DEF ConnectionState
  <2> QED BY <1>2, <1>4, <2>2 DEF HubTypeOK
<1>7. AnnouncementsTrue'
  BY <1>2 DEF AnnouncementsTrue
<1>8. OwnerMatchesVideo'
  <2>1. newOwner # NoOwner => cmd.videoId \in Videos /\ newOwner = OwnerOf[cmd.videoId]
    <3>1. CASE matches
      BY <3>1 DEF HubTypeOK, PendingOwner, OwnerMatchesVideo, OwnerAfter
    <3>2. CASE ~matches /\ changed
      BY <3>2 DEF OwnerAfter
    <3>3. CASE ~matches /\ ~changed
      BY <3>3 DEF OwnerAfter, OwnerMatchesVideo
    <3> QED BY <3>1, <3>2, <3>3
  <2>2. pendingOwner' # NoPending => pendingOwner' = pendingOwner
    BY <1>4
  <2> QED BY <1>4, <2>1, <2>2 DEF OwnerMatchesVideo
<1>9. IsOwnStreamFresh'
  BY <1>4 DEF IsOwnStreamFresh, IsCurrentStreamOwn
<1>10. PendingIsForAnotherVideo'
  BY <1>4 DEF PendingIsForAnotherVideo
<1> QED BY <1>6, <1>7, <1>8, <1>9, <1>10

(* An announcement is for the current video, or is kept for another.        *)
LEMMA AnnouncementKeepsInv ==
    ASSUME StreamInv, HandleAnnounceStreamOwner
    PROVE  StreamInv'
<1> DEFINE cmd == Head(inbox)
<1> USE DEF StreamInv
<1>1. /\ inbox \in Seq(IngestCommand) /\ inbox # <<>>
      /\ \A i \in 1..Len(inbox) : Truthful(inbox[i])
  BY DEF HubTypeOK, AnnouncementsTrue, HandleAnnounceStreamOwner, NextCommand
<1>2. /\ cmd \in IngestCommand /\ Truthful(cmd)
      /\ inbox' \in Seq(IngestCommand)
      /\ \A i \in 1..Len(inbox') : Truthful(inbox'[i])
  BY <1>1, TailTruthful DEF HandleAnnounceStreamOwner
<1>3. cmd.videoId \in Videos /\ cmd.owner \in Channels /\ cmd.owner = OwnerOf[cmd.videoId]
  BY <1>2, CommandFields DEF HandleAnnounceStreamOwner, NextCommand, Truthful
<1>4. UNCHANGED <<configured, windows, fetching, turns>>
  BY DEF HandleAnnounceStreamOwner, electronVars
<1>5. AnnouncementsTrue'
  BY <1>2 DEF AnnouncementsTrue
<1>6. CASE connection.videoId = cmd.videoId
  <2>1. /\ connection' = [connection EXCEPT !.owner = cmd.owner,
                            !.isOwn = IsCurrentStreamOwn(cmd.owner, configured)]
        /\ pendingOwner' = NoPending
    BY <1>6 DEF HandleAnnounceStreamOwner, ApplyStreamOwnerAnnouncement
  <2>2. IsCurrentStreamOwn(cmd.owner, configured) \in BOOLEAN
    BY DEF IsCurrentStreamOwn
  <2>3. HubTypeOK'
    BY <1>2, <1>3, <1>4, <2>1, <2>2 DEF HubTypeOK, ConnectionState
  <2>4. /\ connection'.videoId = connection.videoId
        /\ connection'.owner = cmd.owner
        /\ connection'.isOwn = IsCurrentStreamOwn(cmd.owner, configured)
    BY <2>1 DEF HubTypeOK, ConnectionState
  <2>5. OwnerMatchesVideo' /\ IsOwnStreamFresh' /\ PendingIsForAnotherVideo'
    BY <1>3, <1>4, <1>6, <2>1, <2>4
    DEF OwnerMatchesVideo, IsOwnStreamFresh, PendingIsForAnotherVideo, IsCurrentStreamOwn
  <2> QED BY <1>5, <2>3, <2>5
<1>7. CASE connection.videoId # cmd.videoId
  <2>1. /\ pendingOwner' = [videoId |-> cmd.videoId, owner |-> cmd.owner]
        /\ UNCHANGED connection
    BY <1>7 DEF HandleAnnounceStreamOwner, ApplyStreamOwnerAnnouncement
  <2>2. HubTypeOK'
    BY <1>2, <1>3, <1>4, <2>1 DEF HubTypeOK, PendingOwner
  <2>3. OwnerMatchesVideo' /\ IsOwnStreamFresh' /\ PendingIsForAnotherVideo'
    BY <1>3, <1>4, <1>7, <2>1
    DEF OwnerMatchesVideo, IsOwnStreamFresh, PendingIsForAnotherVideo, IsCurrentStreamOwn
  <2> QED BY <1>5, <2>2, <2>3
<1> QED BY <1>6, <1>7

(* Saving the channel list derives the flag again, or changes nothing.      *)
LEMMA SetOwnersKeepsInv ==
    ASSUME StreamInv, HandleSetOwnerChannels
    PROVE  StreamInv'
<1> DEFINE cmd == Head(inbox)
<1> USE DEF StreamInv
<1>1. /\ inbox \in Seq(IngestCommand) /\ inbox # <<>>
      /\ \A i \in 1..Len(inbox) : Truthful(inbox[i])
  BY DEF HubTypeOK, AnnouncementsTrue, HandleSetOwnerChannels, NextCommand
<1>2. /\ cmd \in IngestCommand
      /\ inbox' \in Seq(IngestCommand)
      /\ \A i \in 1..Len(inbox') : Truthful(inbox'[i])
  BY <1>1, TailTruthful DEF HandleSetOwnerChannels
<1>3. cmd.channels \in SUBSET Channels
  BY <1>2, CommandFields DEF HandleSetOwnerChannels, NextCommand
<1>4. UNCHANGED <<pendingOwner, windows, fetching, turns>>
  BY DEF HandleSetOwnerChannels, electronVars
<1>5. AnnouncementsTrue'
  BY <1>2 DEF AnnouncementsTrue
<1>6. CASE UNCHANGED <<configured, connection>>
  BY <1>2, <1>4, <1>6, SendKeepsInv DEF connVars, HubTypeOK
<1>7. CASE /\ configured' = cmd.channels
           /\ connection' = [connection EXCEPT
                               !.isOwn = IsCurrentStreamOwn(connection.owner, cmd.channels)]
  <2>1. IsCurrentStreamOwn(connection.owner, cmd.channels) \in BOOLEAN
    BY DEF IsCurrentStreamOwn
  <2>2. HubTypeOK'
    BY <1>2, <1>3, <1>4, <1>7, <2>1 DEF HubTypeOK, ConnectionState
  <2>3. /\ connection'.videoId = connection.videoId
        /\ connection'.owner = connection.owner
        /\ connection'.isOwn = IsCurrentStreamOwn(connection.owner, cmd.channels)
    BY <1>7 DEF HubTypeOK, ConnectionState
  <2>4. OwnerMatchesVideo' /\ IsOwnStreamFresh' /\ PendingIsForAnotherVideo'
    BY <1>4, <1>7, <2>3
    DEF OwnerMatchesVideo, IsOwnStreamFresh, PendingIsForAnotherVideo, IsCurrentStreamOwn
  <2> QED BY <1>5, <2>2, <2>4
<1> QED BY <1>6, <1>7 DEF HandleSetOwnerChannels

-----------------------------------------------------------------------------
(* The hub starts with nothing known and nothing claimed.                   *)
LEMMA StreamInitEstablishesInv == Init => StreamInv
<1> SUFFICES ASSUME Init PROVE StreamInv
  OBVIOUS
<1>1. connection \in ConnectionState
  BY DEF Init, ConnectionState, VideoOpt
<1>2. inbox = <<>> /\ inbox \in Seq(IngestCommand)
  BY DEF Init
<1>3. HubTypeOK
  BY <1>1, <1>2 DEF Init, HubTypeOK
<1>4. AnnouncementsTrue
  BY <1>2 DEF AnnouncementsTrue
<1>5. OwnerMatchesVideo /\ IsOwnStreamFresh /\ PendingIsForAnotherVideo
  BY DEF Init, OwnerMatchesVideo, IsOwnStreamFresh, PendingIsForAnotherVideo, IsCurrentStreamOwn
<1> QED BY <1>3, <1>4, <1>5 DEF StreamInv

(* Nothing the Electron process sends, in any order, breaks the invariant.   *)
LEMMA StreamElectronKeepsInv ==
    ASSUME StreamInv, Electron
    PROVE  StreamInv'
<1> USE DEF StreamInv
<1>1. /\ inbox \in Seq(IngestCommand)
      /\ \A i \in 1..Len(inbox) : Truthful(inbox[i])
      /\ windows \in SUBSET Videos
      /\ fetching \in [Videos -> Nat] /\ turns \in Nat
  BY DEF HubTypeOK, AnnouncementsTrue
<1>2. NoVideo \in VideoOpt /\ Videos \subseteq VideoOpt
  BY DEF VideoOpt
<1>3. ASSUME NEW v \in Videos, ConnectChat(v) PROVE StreamInv'
  <2> DEFINE c1 == ConnectionCmd(FALSE, NoVideo)
             c2 == ConnectionCmd(FALSE, v)
  <2>1. c1 \in IngestCommand /\ Truthful(c1) /\ c2 \in IngestCommand /\ Truthful(c2)
    BY <1>2, ConnectionCmdType
  <2> HIDE DEF c1, c2
  <2>2. /\ Append(inbox, c1) \in Seq(IngestCommand)
        /\ \A i \in 1..Len(Append(inbox, c1)) : Truthful(Append(inbox, c1)[i])
    BY <1>1, <2>1, AppendTruthful
  <2>3. /\ Append(Append(inbox, c1), c2) \in Seq(IngestCommand)
        /\ \A i \in 1..Len(Append(Append(inbox, c1), c2)) :
             Truthful(Append(Append(inbox, c1), c2)[i])
    BY <2>1, <2>2, AppendTruthful
  <2>4. /\ inbox' = Append(Append(inbox, c1), c2) /\ UNCHANGED connVars
        /\ windows' = windows \cup {v}
        /\ fetching' = [fetching EXCEPT ![v] = @ + 1] /\ turns' = turns + 1
    BY <1>3 DEF ConnectChat, Turn, c1, c2
  <2>5. fetching' \in [Videos -> Nat] /\ turns' \in Nat
    BY <1>1, <2>4
  <2> QED BY <1>1, <1>2, <2>3, <2>4, <2>5, SendKeepsInv
<1>4. ASSUME NEW v \in VideoOpt, NEW c \in BOOLEAN,
             inbox' = Append(inbox, ConnectionCmd(c, v)), UNCHANGED connVars,
             turns' = turns + 1,
             UNCHANGED <<windows, fetching>>
      PROVE  StreamInv'
  <2>1. ConnectionCmd(c, v) \in IngestCommand /\ Truthful(ConnectionCmd(c, v))
    BY ConnectionCmdType
  <2>2. /\ inbox' \in Seq(IngestCommand)
        /\ \A i \in 1..Len(inbox') : Truthful(inbox'[i])
    BY <1>1, <1>4, <2>1, AppendTruthful
  <2> QED BY <1>1, <1>2, <1>4, <2>2, SendKeepsInv
<1>5. CASE DisconnectChat
  BY <1>2, <1>4, <1>5 DEF DisconnectChat, Turn
<1>6. ASSUME NEW v \in Videos, NEW c \in BOOLEAN, ScraperStatus(v, c) PROVE StreamInv'
  BY <1>2, <1>4, <1>6 DEF ScraperStatus, Turn
<1>7. ASSUME NEW v \in Videos, WindowClosed(v) PROVE StreamInv'
  BY <1>1, <1>7, SendKeepsInv DEF WindowClosed
<1>8. ASSUME NEW v \in Videos, OwnerResolved(v) PROVE StreamInv'
  <2> DEFINE cmd == [type |-> "announceStreamOwner", videoId |-> v, owner |-> OwnerOf[v]]
  <2>1. cmd \in IngestCommand /\ Truthful(cmd)
    BY StreamAssumption DEF IngestCommand, StreamCommand, AnnounceCommand, Truthful
  <2> HIDE DEF cmd
  <2>2. inbox' = Append(inbox, cmd)
    BY <1>8 DEF OwnerResolved, cmd
  <2>3. /\ inbox' \in Seq(IngestCommand)
        /\ \A i \in 1..Len(inbox') : Truthful(inbox'[i])
    BY <1>1, <2>1, <2>2, AppendTruthful
  <2>4. fetching' \in [Videos -> Nat]
    BY <1>1, <1>8 DEF OwnerResolved
  <2> QED BY <1>1, <1>8, <2>3, <2>4, SendKeepsInv DEF OwnerResolved
<1>9. ASSUME NEW v \in Videos, OwnerFetchFailed(v) PROVE StreamInv'
  <2>1. fetching' \in [Videos -> Nat]
    BY <1>1, <1>9 DEF OwnerFetchFailed
  <2> QED BY <1>1, <1>9, <2>1, SendKeepsInv DEF OwnerFetchFailed
<1>10. ASSUME NEW own \in SaveChoices, SaveOwnerChannels(own) PROVE StreamInv'
  <2> DEFINE cmd == [type |-> "setOwnerChannels", channels |-> own]
  <2>1. cmd \in IngestCommand /\ Truthful(cmd)
    BY StreamAssumption DEF IngestCommand, StreamCommand, OwnersCommand, Truthful
  <2> HIDE DEF cmd
  <2>2. inbox' = Append(inbox, cmd) /\ turns' = turns + 1
    BY <1>10 DEF SaveOwnerChannels, Turn, cmd
  <2>3. /\ inbox' \in Seq(IngestCommand)
        /\ \A i \in 1..Len(inbox') : Truthful(inbox'[i])
    BY <1>1, <2>1, <2>2, AppendTruthful
  <2> QED BY <1>1, <1>10, <2>2, <2>3, SendKeepsInv DEF SaveOwnerChannels
<1> QED BY <1>3, <1>5, <1>6, <1>7, <1>8, <1>9, <1>10 DEF Electron

(* StreamInv is inductive.                                                       *)
LEMMA NextKeepsInv == StreamInv /\ [Next]_streamVars => StreamInv'
<1> SUFFICES ASSUME StreamInv, [Next]_streamVars PROVE StreamInv'
  OBVIOUS
<1>1. CASE Electron
  BY <1>1, StreamElectronKeepsInv
<1>2. CASE HandleConnectionStateChanged
  BY <1>2, StreamConnectionKeepsInv
<1>3. CASE HandleAnnounceStreamOwner
  BY <1>3, AnnouncementKeepsInv
<1>4. CASE HandleSetOwnerChannels
  BY <1>4, SetOwnersKeepsInv
<1>5. CASE UNCHANGED streamVars
  BY <1>5, SendKeepsInv DEF streamVars, connVars, StreamInv, HubTypeOK, AnnouncementsTrue
<1> QED BY <1>1, <1>2, <1>3, <1>4, <1>5 DEF Next, HandleStreamCommand

(* The inductive invariant holds in every state the hub reaches.            *)
THEOREM StreamInvariant == Spec => []StreamInv
BY StreamInitEstablishesInv, NextKeepsInv, PTL DEF Spec

\* Alone, the connection has nothing but its own commands in the channel.
OwnCommands == inbox \in Seq(StreamCommand)

LEMMA OwnCommandsKept == OwnCommands /\ [Next]_streamVars => OwnCommands'
<1> SUFFICES ASSUME OwnCommands, [Next]_streamVars PROVE OwnCommands'
  OBVIOUS
<1>1. \A c \in BOOLEAN, v \in VideoOpt : ConnectionCmd(c, v) \in StreamCommand
  BY DEF ConnectionCmd, StreamCommand, ConnectionCommand
<1>2. NoVideo \in VideoOpt /\ Videos \subseteq VideoOpt /\ FALSE \in BOOLEAN
  BY DEF VideoOpt
<1>3. \A cmd \in StreamCommand : Append(inbox, cmd) \in Seq(StreamCommand)
  BY DEF OwnCommands
<1>4. ASSUME NEW v \in Videos, ConnectChat(v) PROVE OwnCommands'
  <2>1. /\ inbox' = Append(Append(inbox, ConnectionCmd(FALSE, NoVideo)), ConnectionCmd(FALSE, v))
        /\ ConnectionCmd(FALSE, NoVideo) \in StreamCommand
        /\ ConnectionCmd(FALSE, v) \in StreamCommand
    BY <1>1, <1>2, <1>4 DEF ConnectChat
  <2>2. Append(inbox, ConnectionCmd(FALSE, NoVideo)) \in Seq(StreamCommand)
    BY <1>3, <2>1
  <2>3. Append(Append(inbox, ConnectionCmd(FALSE, NoVideo)), ConnectionCmd(FALSE, v))
          \in Seq(StreamCommand)
    BY <2>1, <2>2, AppendProperties, Zenon
  <2> QED BY <2>1, <2>3 DEF OwnCommands
<1>5. CASE DisconnectChat
  BY <1>1, <1>2, <1>3, <1>5 DEF DisconnectChat, OwnCommands
<1>6. ASSUME NEW v \in Videos, NEW c \in BOOLEAN, ScraperStatus(v, c) PROVE OwnCommands'
  BY <1>1, <1>2, <1>3, <1>6 DEF ScraperStatus, OwnCommands
<1>7. ASSUME NEW v \in Videos, OwnerResolved(v) PROVE OwnCommands'
  <2>1. [type |-> "announceStreamOwner", videoId |-> v, owner |-> OwnerOf[v]] \in StreamCommand
    BY StreamAssumption DEF StreamCommand, AnnounceCommand
  <2> QED BY <1>3, <1>7, <2>1 DEF OwnerResolved, OwnCommands
<1>8. ASSUME NEW own \in SaveChoices, SaveOwnerChannels(own) PROVE OwnCommands'
  <2>1. [type |-> "setOwnerChannels", channels |-> own] \in StreamCommand
    BY StreamAssumption DEF StreamCommand, OwnersCommand
  <2> QED BY <1>3, <1>8, <2>1 DEF SaveOwnerChannels, OwnCommands
<1>9. CASE HandleStreamCommand
  <2>1. inbox # <<>> /\ inbox' = Tail(inbox)
    BY <1>9
    DEF HandleStreamCommand, HandleConnectionStateChanged, HandleAnnounceStreamOwner,
        HandleSetOwnerChannels, NextCommand
  <2> QED BY <2>1 DEF OwnCommands
<1>10. CASE UNCHANGED inbox
  BY <1>10 DEF OwnCommands
<1> QED BY <1>4, <1>5, <1>6, <1>7, <1>8, <1>9, <1>10
    DEF Next, Electron, WindowClosed, OwnerFetchFailed, streamVars

(* Every variable keeps its type, for every set of videos and channels.      *)
THEOREM StreamTypeCorrect == Spec => []TypeOK
<1>1. Init => OwnCommands
  BY DEF Init, OwnCommands
<1>2. StreamInv /\ OwnCommands => TypeOK
  BY DEF StreamInv, HubTypeOK, OwnCommands, TypeOK
<1> QED BY <1>1, <1>2, StreamInvariant, OwnCommandsKept, PTL DEF Spec

(* The owner the hub works with is the owner of the video it is attached to,  *)
(* for any number of videos, windows and fetches in flight.                  *)
THEOREM OwnerIsRight == Spec => []OwnerMatchesVideo
<1>1. StreamInv => OwnerMatchesVideo
  BY DEF StreamInv
<1> QED BY <1>1, StreamInvariant, PTL

(* The own-stream flag is never stale.                                      *)
THEOREM OwnFlagIsFresh == Spec => []IsOwnStreamFresh
<1>1. StreamInv => IsOwnStreamFresh
  BY DEF StreamInv
<1> QED BY <1>1, StreamInvariant, PTL

(* No announcement waits that could have been applied.                      *)
THEOREM PendingIsElsewhere == Spec => []PendingIsForAnotherVideo
<1>1. StreamInv => PendingIsForAnotherVideo
  BY DEF StreamInv
<1> QED BY <1>1, StreamInvariant, PTL

-----------------------------------------------------------------------------
(* The refinement of HubStream.                                             *)

(* A step that leaves the connection and the declared channels alone is a    *)
(* stutter of the hub.                                                      *)
LEMMA ConnUnchangedIsStutter ==
    ASSUME UNCHANGED <<connection, configured>>
    PROVE  UNCHANGED Hub!hubVars
BY DEF Hub!hubVars

(* A connection message for another video attaches, one for the same video   *)
(* changes nothing the hub shows: no pending owner can be waiting for it.    *)
LEMMA ConnectionRefines ==
    ASSUME StreamInv, StreamInv', HandleConnectionStateChanged
    PROVE  [Hub!HubNext]_Hub!hubVars
<1> DEFINE cmd == Head(inbox)
           matches == pendingOwner # NoPending /\ pendingOwner.videoId = cmd.videoId
           newOwner == OwnerAfter(cmd.videoId, matches)
<1>1. /\ connection' = [connected |-> cmd.connected, videoId |-> cmd.videoId,
                        owner |-> newOwner,
                        isOwn |-> IsCurrentStreamOwn(newOwner, configured)]
      /\ UNCHANGED configured
  BY DEF HandleConnectionStateChanged, ApplyConnectionStateChanged
<1>2. /\ connection'.videoId = cmd.videoId /\ connection'.owner = newOwner
      /\ connection'.isOwn = Hub!Derived(newOwner, configured)
      /\ cmd.videoId \in Videos \cup {NoVideo}
  BY <1>1 DEF Hub!Derived, IsCurrentStreamOwn, StreamInv, HubTypeOK, ConnectionState, VideoOpt
<1>3. CASE cmd.videoId # connection.videoId
  <2>1. newOwner \in {NoOwner} \cup {OwnerOf[w] : w \in Videos \cap {cmd.videoId}}
    BY <1>2, <1>3 DEF OwnerAfter, StreamInv, OwnerMatchesVideo, HubTypeOK, PendingOwner
  <2>2. Hub!Attach(cmd.videoId)
    BY <1>1, <1>2, <1>3, <2>1 DEF Hub!Attach
  <2> QED BY <1>2, <2>2 DEF Hub!HubNext
<1>4. CASE cmd.videoId = connection.videoId
  <2>1. newOwner = connection.owner
    BY <1>4 DEF OwnerAfter, StreamInv, PendingIsForAnotherVideo
  <2>2. connection.isOwn = Hub!Derived(newOwner, configured)
    BY <2>1 DEF StreamInv, IsOwnStreamFresh, IsCurrentStreamOwn, Hub!Derived
  <2> QED BY <1>1, <1>2, <1>4, <2>1, <2>2 DEF Hub!hubVars
<1> QED BY <1>3, <1>4

(* An announcement for the current video teaches the hub its owner.         *)
LEMMA AnnouncementRefines ==
    ASSUME StreamInv, StreamInv', HandleAnnounceStreamOwner
    PROVE  [Hub!HubNext]_Hub!hubVars
<1> DEFINE cmd == Head(inbox)
<1>1. cmd \in IngestCommand /\ Truthful(cmd)
  BY TailTruthful
  DEF StreamInv, HubTypeOK, AnnouncementsTrue, HandleAnnounceStreamOwner, NextCommand
<1>2. cmd.videoId \in Videos /\ cmd.owner = OwnerOf[cmd.videoId] /\ cmd.owner \in Channels
  BY <1>1, CommandFields DEF Truthful, HandleAnnounceStreamOwner, NextCommand
<1>3. UNCHANGED configured
  BY DEF HandleAnnounceStreamOwner
<1>4. CASE connection.videoId # cmd.videoId
  <2>1. UNCHANGED connection
    BY <1>4 DEF HandleAnnounceStreamOwner, ApplyStreamOwnerAnnouncement
  <2> QED BY <1>3, <2>1, ConnUnchangedIsStutter
<1>5. CASE connection.videoId = cmd.videoId
  <2>1. connection' = [connection EXCEPT !.owner = cmd.owner,
                         !.isOwn = IsCurrentStreamOwn(cmd.owner, configured)]
    BY <1>5 DEF HandleAnnounceStreamOwner, ApplyStreamOwnerAnnouncement
  <2>2. /\ connection'.videoId = connection.videoId
        /\ connection'.owner = OwnerOf[connection.videoId]
        /\ connection'.isOwn = Hub!Derived(connection'.owner, configured)
    BY <1>2, <1>5, <2>1
    DEF StreamInv, HubTypeOK, ConnectionState, IsCurrentStreamOwn, Hub!Derived
  <2>3. CASE connection.owner = NoOwner
    <3>1. Hub!Learn
      BY <1>2, <1>3, <1>5, <2>2, <2>3 DEF Hub!Learn
    <3> QED BY <3>1 DEF Hub!HubNext
  <2>4. CASE connection.owner # NoOwner
    <3>1. connection'.owner = connection.owner
      BY <2>2, <2>4 DEF StreamInv, OwnerMatchesVideo
    <3>2. connection.isOwn = Hub!Derived(connection.owner, configured)
      BY DEF StreamInv, IsOwnStreamFresh, IsCurrentStreamOwn, Hub!Derived
    <3> QED BY <1>3, <2>2, <3>1, <3>2 DEF Hub!hubVars
  <2> QED BY <2>3, <2>4
<1> QED BY <1>4, <1>5

(* Saving the channel list declares it.                                     *)
LEMMA SetOwnersRefines ==
    ASSUME StreamInv, StreamInv', HandleSetOwnerChannels
    PROVE  [Hub!HubNext]_Hub!hubVars
<1> DEFINE cmd == Head(inbox)
<1>1. CASE UNCHANGED <<configured, connection>>
  BY <1>1, ConnUnchangedIsStutter
<1>2. CASE /\ configured' = cmd.channels
           /\ connection' = [connection EXCEPT
                               !.isOwn = IsCurrentStreamOwn(connection.owner, cmd.channels)]
  <2>1. /\ UNCHANGED <<connection.videoId, connection.owner>>
        /\ connection'.isOwn = Hub!Derived(connection.owner, cmd.channels)
    BY <1>2 DEF StreamInv, HubTypeOK, ConnectionState, IsCurrentStreamOwn, Hub!Derived
  <2>2. cmd.channels \in SUBSET Channels
    BY <1>2 DEF StreamInv, HubTypeOK
  <2>3. Hub!Declare(cmd.channels)
    BY <1>2, <2>1 DEF Hub!Declare
  <2> QED BY <2>2, <2>3 DEF Hub!HubNext
<1> QED BY <1>1, <1>2 DEF HandleSetOwnerChannels

(* What the Electron process does leaves the hub alone.                      *)
LEMMA ElectronRefines ==
    ASSUME Electron
    PROVE  UNCHANGED Hub!hubVars
BY ConnUnchangedIsStutter
DEF Electron, ConnectChat, DisconnectChat, ScraperStatus, WindowClosed, OwnerResolved,
    OwnerFetchFailed, SaveOwnerChannels, connVars

(* Every behaviour of the connection, with its windows, late answers and      *)
(* queued commands, is a behaviour of the simple hub.                       *)
THEOREM StreamImplementsHub == Spec => ImplementsHub
<1>1. Init => Hub!HubInit
  BY DEF Init, Hub!HubInit
<1>2. StreamInv /\ StreamInv' /\ [Next]_streamVars => [Hub!HubNext]_Hub!hubVars
  <2> SUFFICES ASSUME StreamInv, StreamInv', [Next]_streamVars
               PROVE  [Hub!HubNext]_Hub!hubVars
    OBVIOUS
  <2>1. CASE Electron
    BY <2>1, ElectronRefines
  <2>2. CASE HandleConnectionStateChanged
    BY <2>2, ConnectionRefines
  <2>3. CASE HandleAnnounceStreamOwner
    BY <2>3, AnnouncementRefines
  <2>4. CASE HandleSetOwnerChannels
    BY <2>4, SetOwnersRefines
  <2>5. CASE UNCHANGED streamVars
    BY <2>5, ConnUnchangedIsStutter DEF streamVars
  <2> QED BY <2>1, <2>2, <2>3, <2>4, <2>5 DEF Next, HandleStreamCommand
<1>3. Init /\ [][Next]_streamVars /\ []StreamInv => Hub!HubInit /\ [][Hub!HubNext]_Hub!hubVars
  BY <1>1, <1>2, PTL
<1> QED BY <1>3, StreamInvariant, PTL DEF Spec, ImplementsHub, Hub!HubSpec

-----------------------------------------------------------------------------
(* The ingest of comments.                                                  *)

\* What the types of the run leave open.
HistoryRecord == [broadcasts : [Comments -> Nat], firstTimes : [Listeners -> Nat]]
Counts ==
    /\ \A u \in DOMAIN streamCounts : streamCounts[u] \in Nat
    /\ IsFiniteSet(seen) /\ IsFiniteSet(db)
    /\ history \in HistoryRecord

\* The owner that waits is typed, as the connection takes its fields from it.
PendingTyped == pendingOwner \in PendingOwner \cup {NoPending}

\* A listener who has been greeted is remembered for the session.
GreetedAreSeen ==
    \A u \in Listeners :
        history.firstTimes[u] =< 1
        /\ (u \notin seenInSession => history.firstTimes[u] = 0)

\* The inductive invariant.
IInv ==
    /\ IngestTypeOK /\ Counts /\ PendingTyped
    /\ OncePerStream /\ ReplayAgreesWithTimeline /\ GreetedAreSeen
    /\ ListenerMemoryScoped

USE StreamAssumption, IngestAssumption

-----------------------------------------------------------------------------
(* The stores.                                                              *)

(* Appending to a full sequence drops its head: the result fits, and its     *)
(* elements are old ones and the new one.                                   *)
LEMMA AppendCapped ==
    ASSUME NEW S, NEW s \in Seq(S), NEW e \in S, NEW cap \in Nat \ {0}, Len(s) =< cap
    PROVE  LET r == Append(IF Len(s) >= cap THEN Tail(s) ELSE s, e)
               k == IF Len(s) >= cap THEN 1 ELSE 0
           IN  /\ r \in Seq(S) /\ Len(r) =< cap
               /\ Len(r) = Len(s) - k + 1
               /\ r[Len(r)] = e
               /\ \A i \in 1..(Len(r) - 1) : i + k \in 1..Len(s) /\ r[i] = s[i + k]
<1> DEFINE k == IF Len(s) >= cap THEN 1 ELSE 0
           t == IF Len(s) >= cap THEN Tail(s) ELSE s
<1>1. t \in Seq(S) /\ Len(t) = Len(s) - k /\ \A i \in 1..Len(t) : t[i] = s[i + k]
  <2>1. CASE Len(s) >= cap
    BY <2>1
  <2>2. CASE ~(Len(s) >= cap)
    BY <2>2
  <2> QED BY <2>1, <2>2
<1> HIDE DEF t
<1>2. Append(t, e) \in Seq(S) /\ Len(Append(t, e)) = Len(t) + 1
      /\ Append(t, e)[Len(t) + 1] = e
      /\ \A i \in 1..Len(t) : Append(t, e)[i] = t[i]
  BY <1>1
<1> QED BY <1>1, <1>2 DEF t

(* Rewriting elements in place keeps a sequence one of the same length.      *)
LEMMA RewrittenSeq ==
    ASSUME NEW S, NEW s \in Seq(S), NEW r, DOMAIN r = DOMAIN s,
           r = [i \in DOMAIN s |-> r[i]], \A i \in DOMAIN s : r[i] \in S
    PROVE  r \in Seq(S) /\ Len(r) = Len(s)
<1>1. DOMAIN s = 1..Len(s) /\ Len(s) \in Nat
  OBVIOUS
<1>2. r \in [1..Len(s) -> S]
  BY <1>1
<1> QED BY <1>1, <1>2

(* CanonicalCommentStore::upsert: the store stays within its capacity, holds *)
(* no id twice, and every other comment in it was there before.              *)
LEMMA UpsertFacts ==
    ASSUME NEW s \in Seq(StoredComment), Len(s) =< StoreCap, NoIdTwice(s),
           NEW e \in StoredComment
    PROVE  /\ Upsert(s, e) \in Seq(StoredComment) /\ Len(Upsert(s, e)) =< StoreCap
           /\ NoIdTwice(Upsert(s, e))
           /\ \A i \in DOMAIN Upsert(s, e) :
                \/ Upsert(s, e)[i] = e
                \/ Upsert(s, e)[i].id # e.id /\ \E j \in DOMAIN s : Upsert(s, e)[i] = s[j]
<1> DEFINE r == Upsert(s, e)
<1>1. CASE e.id \in Ids(s)
  <2>1. r = [i \in DOMAIN s |-> IF s[i].id = e.id THEN e ELSE s[i]]
    BY <1>1 DEF Upsert
  <2> HIDE DEF r
  <2>2. DOMAIN s = 1..Len(s) /\ \A i \in DOMAIN s : s[i] \in StoredComment
    OBVIOUS
  <2>3. DOMAIN r = DOMAIN s /\ r = [i \in DOMAIN s |-> r[i]]
        /\ \A i \in DOMAIN s : r[i] \in StoredComment
    BY <2>1, <2>2
  <2>4. r \in Seq(StoredComment) /\ Len(r) = Len(s)
    BY <2>3, RewrittenSeq
  <2>5. \A i \in DOMAIN s : r[i].id = s[i].id
    BY <2>1
  <2>6. NoIdTwice(r)
    BY <2>3, <2>5 DEF NoIdTwice
  <2>7. \A i \in DOMAIN r : r[i] = e \/ (r[i].id # e.id /\ r[i] = s[i])
    BY <2>1
  <2> QED BY <2>3, <2>4, <2>6, <2>7 DEF r
<1>2. CASE e.id \notin Ids(s)
  <2> DEFINE k == IF Len(s) >= StoreCap THEN 1 ELSE 0
  <2>1. r = Append(IF Len(s) >= StoreCap THEN Tail(s) ELSE s, e)
    BY <1>2 DEF Upsert
  <2> HIDE DEF r
  <2>2. /\ r \in Seq(StoredComment) /\ Len(r) =< StoreCap
        /\ Len(r) = Len(s) - k + 1
        /\ r[Len(r)] = e
        /\ \A i \in 1..(Len(r) - 1) : i + k \in 1..Len(s) /\ r[i] = s[i + k]
    BY <2>1, AppendCapped
  <2>3. \A i \in DOMAIN s : s[i].id # e.id
    BY <1>2 DEF Ids
  <2>4. DOMAIN s = 1..Len(s) /\ DOMAIN r = 1..Len(r)
    BY <2>2
  <2>5. ASSUME NEW i \in DOMAIN r PROVE r[i] = e \/ (r[i].id # e.id /\ \E j \in DOMAIN s : r[i] = s[j])
    <3>1. CASE i = Len(r)
      BY <2>2, <3>1
    <3>2. CASE i # Len(r)
      <4>1. i \in 1..(Len(r) - 1)
        BY <2>2, <2>4, <3>2
      <4>2. i + k \in DOMAIN s /\ r[i] = s[i + k]
        BY <2>2, <2>4, <4>1
      <4> QED BY <2>3, <4>2
    <3> QED BY <3>1, <3>2
  <2>6. NoIdTwice(r)
    <3> SUFFICES ASSUME NEW i \in DOMAIN r, NEW j \in DOMAIN r, r[i].id = r[j].id
                 PROVE  i = j
      BY DEF NoIdTwice
    <3>1. i = Len(r) <=> j = Len(r)
      <4>1. \A n \in DOMAIN r : n # Len(r) => r[n].id # e.id
        <5> SUFFICES ASSUME NEW n \in DOMAIN r, n # Len(r) PROVE r[n].id # e.id
          OBVIOUS
        <5>1. n \in 1..(Len(r) - 1)
          BY <2>2, <2>4
        <5>2. n + k \in DOMAIN s /\ r[n] = s[n + k]
          BY <2>2, <2>4, <5>1
        <5> QED BY <2>3, <5>2
      <4> QED BY <2>2, <4>1
    <3>2. CASE i # Len(r) /\ j # Len(r)
      <4>1. i \in 1..(Len(r) - 1) /\ j \in 1..(Len(r) - 1)
        <5>1. Len(r) \in Nat
          BY <2>2
        <5>2. i \in 1..Len(r) /\ j \in 1..Len(r)
          BY <2>4
        <5> QED BY <3>2, <5>1, <5>2
      <4>2. i + k \in DOMAIN s /\ r[i] = s[i + k] /\ j + k \in DOMAIN s /\ r[j] = s[j + k]
        BY <2>2, <2>4, <4>1
      <4>3. i + k = j + k
        BY <4>2 DEF NoIdTwice
      <4> QED BY <2>2, <2>4, <4>3
    <3> QED BY <3>1, <3>2
  <2> QED BY <2>2, <2>5, <2>6 DEF r
<1> QED BY <1>1, <1>2

(* Removing one element moves the later ones down.                          *)
LEMMA RemoveAtFacts ==
    ASSUME NEW S, NEW s \in Seq(S), NEW k \in 1..Len(s)
    PROVE  /\ RemoveAt(s, k) \in Seq(S) /\ Len(RemoveAt(s, k)) = Len(s) - 1
           /\ \A i \in 1..(Len(s) - 1) : RemoveAt(s, k)[i] = s[IF i < k THEN i ELSE i + 1]
<1> DEFINE a == SubSeq(s, 1, k - 1)
           b == SubSeq(s, k + 1, Len(s))
<1>1. Len(s) \in Nat /\ k \in Nat /\ 1 =< k /\ k =< Len(s)
      /\ \A i \in 1..Len(s) : s[i] \in S
  OBVIOUS
<1>2. /\ a \in Seq(S) /\ Len(a) = k - 1
      /\ \A i \in 1..(k - 1) : a[i] = s[i]
  BY <1>1
<1>3. /\ b \in Seq(S)
      /\ Len(b) = IF k + 1 <= Len(s) THEN Len(s) - (k + 1) + 1 ELSE 0
      /\ \A i \in 1..(Len(s) - (k + 1) + 1) : b[i] = s[(k + 1) + i - 1]
  BY <1>1, SubSeqProperties
<1>4. RemoveAt(s, k) = a \o b
  BY DEF RemoveAt
<1> HIDE DEF a, b
<1>5. Len(b) = Len(s) - k
  <2>1. CASE k + 1 <= Len(s)
    BY <1>1, <1>3, <2>1
  <2>2. CASE ~(k + 1 <= Len(s))
    BY <1>1, <1>3, <2>2
  <2> QED BY <2>1, <2>2
<1>6. /\ a \o b \in Seq(S) /\ Len(a \o b) = Len(a) + Len(b)
      /\ \A i \in 1..(Len(a) + Len(b)) : (a \o b)[i] = IF i <= Len(a) THEN a[i] ELSE b[i - Len(a)]
  <2>1. a \in Seq(S) /\ b \in Seq(S)
    BY <1>2, <1>3
  <2> QED BY <2>1, ConcatProperties
<1>7. Len(a) + Len(b) = Len(s) - 1
  BY <1>1, <1>2, <1>5
<1>8. ASSUME NEW i \in 1..(Len(s) - 1)
      PROVE  (a \o b)[i] = s[IF i < k THEN i ELSE i + 1]
  <2>1. CASE i < k
    BY <1>1, <1>2, <1>6, <1>7, <2>1
  <2>2. CASE ~(i < k)
    <3>1. /\ (a \o b)[i] = b[i - Len(a)]
          /\ i - Len(a) \in 1..(Len(s) - (k + 1) + 1)
          /\ (k + 1) + (i - Len(a)) - 1 = i + 1
      BY <1>1, <1>2, <1>6, <1>7, <2>2
    <3>2. b[i - Len(a)] = s[(k + 1) + (i - Len(a)) - 1]
      BY <1>3, <3>1, Zenon
    <3> QED BY <2>2, <3>1, <3>2
  <2> QED BY <2>1, <2>2
<1> QED BY <1>4, <1>6, <1>7, <1>8

(* CanonicalCommentStore::delete_ids: what remains was there before.          *)
LEMMA DeleteFacts ==
    ASSUME NEW s \in Seq(StoredComment), Len(s) =< StoreCap, NoIdTwice(s), NEW c
    PROVE  /\ DeleteId(s, c) \in Seq(StoredComment) /\ Len(DeleteId(s, c)) =< StoreCap
           /\ NoIdTwice(DeleteId(s, c))
           /\ \A i \in DOMAIN DeleteId(s, c) : \E j \in DOMAIN s : DeleteId(s, c)[i] = s[j]
<1>1. CASE c \notin Ids(s)
  BY <1>1 DEF DeleteId
<1>2. CASE c \in Ids(s)
  <2>1. PICK k \in 1..Len(s) : DeleteId(s, c) = RemoveAt(s, k)
    <3>1. (CHOOSE i \in DOMAIN s : s[i].id = c) \in DOMAIN s
      BY <1>2 DEF Ids
    <3>2. DOMAIN s = 1..Len(s)
      OBVIOUS
    <3>3. DeleteId(s, c) = RemoveAt(s, CHOOSE i \in DOMAIN s : s[i].id = c)
      BY <1>2 DEF DeleteId
    <3> QED BY <3>1, <3>2, <3>3, Zenon
  <2> DEFINE r == RemoveAt(s, k)
             shift(i) == IF i < k THEN i ELSE i + 1
  <2>2. /\ r \in Seq(StoredComment) /\ Len(r) = Len(s) - 1
        /\ \A i \in 1..(Len(s) - 1) : r[i] = s[shift(i)]
    BY RemoveAtFacts
  <2> HIDE DEF r
  <2>3. DOMAIN r = 1..(Len(s) - 1) /\ DOMAIN s = 1..Len(s) /\ Len(s) \in Nat
    BY <2>2
  <2>4. \A i \in DOMAIN r : shift(i) \in DOMAIN s
    BY <2>3
  <2>5. NoIdTwice(r)
    BY <2>2, <2>3, <2>4 DEF NoIdTwice
  <2> QED BY <2>1, <2>2, <2>3, <2>4, <2>5 DEF r
<1> QED BY <1>1, <1>2

(* CommentTimeline::push of a comment that is new on this stream.             *)
LEMMA PushFacts ==
    ASSUME NEW t \in Seq(TimelineEntry), Len(t) =< TimelineCap,
           \A i, j \in DOMAIN t : t[i].comment.id = t[j].comment.id => i = j,
           NEW e \in StoredComment, \A i \in DOMAIN t : t[i].comment.id # e.id,
           nextCursor \in Nat \ {0}
    PROVE  LET r == PushTimeline(t, e)
           IN  /\ r \in Seq(TimelineEntry) /\ Len(r) =< TimelineCap
               /\ \A i, j \in DOMAIN r : r[i].comment.id = r[j].comment.id => i = j
               /\ \A i \in DOMAIN r :
                    \/ r[i].comment = e
                    \/ r[i].comment.id # e.id /\ \E j \in DOMAIN t : r[i].comment = t[j].comment
<1> DEFINE new == [cursor |-> nextCursor, comment |-> e]
           r == Append(IF Len(t) >= TimelineCap THEN Tail(t) ELSE t, new)
           k == IF Len(t) >= TimelineCap THEN 1 ELSE 0
<1>1. new \in TimelineEntry /\ new.comment = e
  BY DEF TimelineEntry
<1> HIDE DEF new
<1>2. /\ r \in Seq(TimelineEntry) /\ Len(r) =< TimelineCap
      /\ Len(r) = Len(t) - k + 1
      /\ r[Len(r)] = new
      /\ \A i \in 1..(Len(r) - 1) : i + k \in 1..Len(t) /\ r[i] = t[i + k]
  BY <1>1, AppendCapped
<1>3. PushTimeline(t, e) = r
  BY DEF PushTimeline, new
<1> HIDE DEF r
<1>4. DOMAIN t = 1..Len(t) /\ DOMAIN r = 1..Len(r) /\ Len(r) \in Nat /\ Len(t) \in Nat
  BY <1>2
<1>5. ASSUME NEW i \in DOMAIN r, i # Len(r)
      PROVE  i + k \in DOMAIN t /\ r[i] = t[i + k] /\ r[i].comment.id # e.id
  <2>1. i \in 1..(Len(r) - 1)
    BY <1>4, <1>5
  <2>2. i + k \in DOMAIN t /\ r[i] = t[i + k]
    BY <1>2, <1>4, <2>1
  <2> QED BY <2>2
<1>6. ASSUME NEW i \in DOMAIN r, NEW j \in DOMAIN r, r[i].comment.id = r[j].comment.id
      PROVE  i = j
  <2>1. i = Len(r) <=> j = Len(r)
    BY <1>1, <1>2, <1>5, <1>6
  <2>2. CASE i # Len(r) /\ j # Len(r)
    <3>1. /\ i + k \in DOMAIN t /\ j + k \in DOMAIN t
          /\ t[i + k].comment.id = t[j + k].comment.id
      BY <1>5, <1>6, <2>2
    <3>2. i + k = j + k
      BY <3>1
    <3> QED BY <1>4, <3>2
  <2> QED BY <2>1, <2>2
<1>7. ASSUME NEW i \in DOMAIN r
      PROVE  \/ r[i].comment = e
             \/ r[i].comment.id # e.id /\ \E j \in DOMAIN t : r[i].comment = t[j].comment
  BY <1>1, <1>2, <1>5
<1> QED BY <1>2, <1>3, <1>6, <1>7

(* CommentTimeline::update_by_id: same places, the new content.               *)
LEMMA UpdateFacts ==
    ASSUME NEW t \in Seq(TimelineEntry), Len(t) =< TimelineCap,
           \A i, j \in DOMAIN t : t[i].comment.id = t[j].comment.id => i = j,
           NEW e \in StoredComment
    PROVE  LET r == UpdateTimeline(t, e)
           IN  /\ r \in Seq(TimelineEntry) /\ Len(r) =< TimelineCap
               /\ \A i, j \in DOMAIN r : r[i].comment.id = r[j].comment.id => i = j
               /\ \A i \in DOMAIN r :
                    \/ r[i].comment = e
                    \/ r[i].comment.id # e.id /\ \E j \in DOMAIN t : r[i].comment = t[j].comment
<1> DEFINE r == UpdateTimeline(t, e)
<1>1. r = [i \in DOMAIN t |-> IF t[i].comment.id = e.id THEN [t[i] EXCEPT !.comment = e] ELSE t[i]]
  BY DEF UpdateTimeline
<1> HIDE DEF r
<1>2. \A i \in DOMAIN t : t[i] \in TimelineEntry
  OBVIOUS
<1>3. ASSUME NEW i \in DOMAIN t
      PROVE  /\ r[i] \in TimelineEntry
             /\ r[i].comment.id = t[i].comment.id
             /\ r[i].comment = e \/ (r[i].comment.id # e.id /\ r[i].comment = t[i].comment)
  <2>1. t[i] \in TimelineEntry
    BY <1>2
  <2>2. CASE t[i].comment.id = e.id
    <3>1. r[i] = [t[i] EXCEPT !.comment = e]
      BY <1>1, <2>2
    <3>2. [t[i] EXCEPT !.comment = e] \in TimelineEntry /\ [t[i] EXCEPT !.comment = e].comment = e
      BY <2>1 DEF TimelineEntry
    <3> QED BY <2>2, <3>1, <3>2
  <2>3. CASE t[i].comment.id # e.id
    <3>1. r[i] = t[i]
      BY <1>1, <2>3
    <3> QED BY <2>1, <2>3, <3>1
  <2> QED BY <2>2, <2>3
<1>4. DOMAIN r = DOMAIN t /\ r = [i \in DOMAIN t |-> r[i]]
  BY <1>1
<1>5. r \in Seq(TimelineEntry) /\ Len(r) = Len(t)
  <2>1. \A i \in DOMAIN t : r[i] \in TimelineEntry
    BY <1>3
  <2>2. /\ DOMAIN r = DOMAIN t /\ r = [i \in DOMAIN t |-> r[i]]
        /\ \A i \in DOMAIN t : r[i] \in TimelineEntry
    BY <1>4, <2>1
  <2> HIDE DEF r
  <2> QED BY <2>2, RewrittenSeq
<1>6. \A i, j \in DOMAIN r : r[i].comment.id = r[j].comment.id => i = j
  BY <1>3, <1>4
<1>7. \A i \in DOMAIN r :
        \/ r[i].comment = e
        \/ r[i].comment.id # e.id /\ \E j \in DOMAIN t : r[i].comment = t[j].comment
  BY <1>3, <1>4
<1>8. Len(r) =< TimelineCap
  BY <1>5
<1> QED BY <1>5, <1>6, <1>7, <1>8 DEF r

(* Two stores whose new content is the same comment and whose old content    *)
(* agreed still agree.                                                      *)
LEMMA AgreementKept ==
    ASSUME ReplayAgreesWithTimeline, NEW e, seen \subseteq seen', e.id \in seen',
           NoIdTwice(store'),
           \A i, j \in DOMAIN timeline' : timeline'[i].comment.id = timeline'[j].comment.id => i = j,
           \A i \in DOMAIN store' :
             \/ store'[i] = e
             \/ store'[i].id # e.id /\ \E j \in DOMAIN store : store'[i] = store[j],
           \A i \in DOMAIN timeline' :
             \/ timeline'[i].comment = e
             \/ /\ timeline'[i].comment.id # e.id
                /\ \E j \in DOMAIN timeline : timeline'[i].comment = timeline[j].comment
    PROVE  ReplayAgreesWithTimeline'
<1>1. (Ids(store) \cup TimelineIds \subseteq seen)'
  BY DEF ReplayAgreesWithTimeline, Ids, TimelineIds
<1>2. ASSUME NEW i \in DOMAIN store', NEW j \in DOMAIN timeline',
             store'[i].id = timeline'[j].comment.id
      PROVE  store'[i] = timeline'[j].comment
  BY <1>2 DEF ReplayAgreesWithTimeline
<1> QED BY <1>1, <1>2 DEF ReplayAgreesWithTimeline, NoIdTwice

-----------------------------------------------------------------------------
(* The channel.                                                             *)

(* The type tag of a command tells its other fields.                        *)
LEMMA IngestCommandFields ==
    ASSUME NEW cmd \in IngestCommand
    PROVE  /\ cmd.type = "connectionStateChanged" =>
                cmd.connected \in BOOLEAN /\ cmd.videoId \in VideoOpt
           /\ cmd.type = "announceStreamOwner" =>
                cmd.videoId \in Videos /\ cmd.owner \in Channels
           /\ cmd.type \in {"incomingComments", "commentDeleted"} => cmd.id \in Comments
BY DEF IngestCommand, StreamCommand, ConnectionCommand, AnnounceCommand, OwnersCommand

(* A step that leaves hub and session alone keeps the invariant, whatever    *)
(* typed messages and rows it queues.                                       *)
LEMMA OutsideKeepsInv ==
    ASSUME IInv, UNCHANGED <<connVars, sessionVars, listenerVars, history>>,
           inbox' \in Seq(IngestCommand), aux' \in Seq(Batch),
           preparing' \in Comments \cup {NoComment},
           seenIds' \in [Threads -> SUBSET Comments],
           recordQueue' \in Seq(Row), db' \in SUBSET Row, IsFiniteSet(db'),
           pushes' \in 0..MaxPushes
    PROVE  IInv'
<1> USE DEF IInv, connVars, sessionVars, listenerVars
<1>1. IngestTypeOK'
  BY DEF IngestTypeOK
<1>2. Counts'
  BY DEF Counts
<1>3. PendingTyped'
  BY DEF PendingTyped
<1>4. OncePerStream'
  BY DEF OncePerStream
<1>5. ReplayAgreesWithTimeline'
  BY DEF ReplayAgreesWithTimeline, NoIdTwice, Ids, TimelineIds
<1>6. GreetedAreSeen'
  BY DEF GreetedAreSeen
<1>7. ListenerMemoryScoped'
  BY DEF ListenerMemoryScoped
<1> QED BY <1>1, <1>2, <1>3, <1>4, <1>5, <1>6, <1>7

(* A command, a deletion or a comment may join the channel.                  *)
LEMMA InboxGrows ==
    ASSUME NEW q \in Seq(IngestCommand)
    PROVE  /\ \A cmd \in IngestCommand : Append(q, cmd) \in Seq(IngestCommand)
           /\ \A v \in VideoOpt : Append(q, ConnectionCmd(FALSE, v)) \in Seq(IngestCommand)
           /\ \A c \in Comments :
                /\ Append(q, [type |-> "commentDeleted", id |-> c]) \in Seq(IngestCommand)
                /\ Append(q, [type |-> "incomingComments", id |-> c]) \in Seq(IngestCommand)
<1>1. \A cmd \in IngestCommand : Append(q, cmd) \in Seq(IngestCommand)
  OBVIOUS
<1>2. \A v \in VideoOpt : ConnectionCmd(FALSE, v) \in IngestCommand
  BY DEF ConnectionCmd, IngestCommand, StreamCommand, ConnectionCommand
<1>3. \A c \in Comments : /\ [type |-> "commentDeleted", id |-> c] \in IngestCommand
                          /\ [type |-> "incomingComments", id |-> c] \in IngestCommand
  BY DEF IngestCommand
<1> QED BY <1>1, <1>2, <1>3

(* What Electron sends is commands, and the connection is not its to change.  *)
LEMMA ElectronKeepsInv ==
    ASSUME IInv, ElectronStep
    PROVE  IInv'
<1>1. inbox \in Seq(IngestCommand)
  BY DEF IInv, IngestTypeOK
<1>2. StreamCommand \subseteq IngestCommand
  BY DEF IngestCommand
<1>3. \A c \in BOOLEAN, v \in VideoOpt : ConnectionCmd(c, v) \in StreamCommand
  BY DEF ConnectionCmd, StreamCommand, ConnectionCommand
<1>4. UNCHANGED connVars /\ inbox' \in Seq(IngestCommand)
  <2>1. CASE \E v \in Videos : ConnectChat(v)
    <3>1. PICK v \in Videos : ConnectChat(v)
      BY <2>1
    <3>2. NoVideo \in VideoOpt /\ v \in VideoOpt
      BY DEF VideoOpt
    <3>3. Append(inbox, ConnectionCmd(FALSE, NoVideo)) \in Seq(IngestCommand)
      BY <1>1, <3>2, InboxGrows
    <3>4. Append(Append(inbox, ConnectionCmd(FALSE, NoVideo)), ConnectionCmd(FALSE, v)) \in Seq(IngestCommand)
      BY <3>2, <3>3, InboxGrows
    <3> QED BY <3>1, <3>4 DEF ConnectChat
  <2>2. CASE DisconnectChat
    <3>1. Append(inbox, ConnectionCmd(FALSE, NoVideo)) \in Seq(IngestCommand)
      BY <1>1, InboxGrows DEF VideoOpt
    <3> QED BY <2>2, <3>1 DEF DisconnectChat
  <2>3. CASE \E v \in Videos, connected \in BOOLEAN : ScraperStatus(v, connected)
    <3>1. PICK v \in Videos, connected \in BOOLEAN : ScraperStatus(v, connected)
      BY <2>3
    <3>2. ConnectionCmd(connected, v) \in IngestCommand
      BY <1>2, <1>3 DEF VideoOpt
    <3> QED BY <1>1, <3>1, <3>2 DEF ScraperStatus
  <2>4. CASE \E v \in Videos : WindowClosed(v)
    BY <1>1, <2>4 DEF WindowClosed
  <2>5. CASE \E v \in Videos : OwnerResolved(v)
    <3>1. PICK v \in Videos : OwnerResolved(v)
      BY <2>5
    <3>2. [type |-> "announceStreamOwner", videoId |-> v, owner |-> OwnerOf[v]] \in IngestCommand
      BY <1>2 DEF StreamCommand, AnnounceCommand
    <3> QED BY <1>1, <3>1, <3>2 DEF OwnerResolved
  <2>6. CASE \E v \in Videos : OwnerFetchFailed(v)
    BY <1>1, <2>6 DEF OwnerFetchFailed
  <2>7. CASE \E own \in SaveChoices : SaveOwnerChannels(own)
    <3>1. PICK own \in SaveChoices : SaveOwnerChannels(own)
      BY <2>7
    <3>2. [type |-> "setOwnerChannels", channels |-> own] \in IngestCommand
      BY <1>2 DEF StreamCommand, OwnersCommand
    <3> QED BY <1>1, <3>1, <3>2 DEF SaveOwnerChannels
  <2> QED BY <2>1, <2>2, <2>3, <2>4, <2>5, <2>6, <2>7 DEF ElectronStep, Electron
<1>5. UNCHANGED ingestVars
  BY DEF ElectronStep
<1> QED
  BY <1>4, <1>5, OutsideKeepsInv
  DEF IInv, IngestTypeOK, Counts, ingestVars, pipeVars

(* The scraper windows fill the aux queue and the channel.                    *)
LEMMA ScraperKeepsInv ==
    ASSUME IInv, Scraper
    PROVE  IInv'
<1> USE DEF IInv, IngestTypeOK, Counts
<1>1. PICK v \in Videos : PushComments(v) \/ PushInnertube(v) \/ PushDeleted(v)
  BY DEF Scraper
<1>2. CommentsOf(v) \subseteq Comments
  BY DEF CommentsOf
<1>3. Push(v) => pushes' \in 0..MaxPushes
  BY DEF Push
<1>4. CASE PushComments(v)
  <2>1. PICK c \in Comments :
          aux' = Append(aux, [path |-> "json", add |-> c, delete |-> NoComment])
    BY <1>2, <1>4 DEF PushComments
  <2>2. [path |-> "json", add |-> c, delete |-> NoComment] \in Batch
    BY DEF Batch
  <2>3. aux' \in Seq(Batch)
    BY <2>1, <2>2
  <2> QED BY <1>3, <1>4, <2>3, OutsideKeepsInv DEF PushComments, streamVars, connVars
<1>5. CASE PushInnertube(v)
  <2>1. PICK c \in Comments \cup {NoComment}, d \in Comments \cup {NoComment} :
          aux' = Append(aux, [path |-> "innertube", add |-> c, delete |-> d])
    BY <1>2, <1>5 DEF PushInnertube
  <2>2. [path |-> "innertube", add |-> c, delete |-> d] \in Batch
    BY DEF Batch
  <2>3. aux' \in Seq(Batch)
    BY <2>1, <2>2
  <2> QED BY <1>3, <1>5, <2>3, OutsideKeepsInv DEF PushInnertube, streamVars, connVars
<1>6. CASE PushDeleted(v)
  <2>1. PICK c \in Comments : inbox' = Append(inbox, [type |-> "commentDeleted", id |-> c])
    BY <1>2, <1>6 DEF PushDeleted
  <2>2. [type |-> "commentDeleted", id |-> c] \in IngestCommand
    BY DEF IngestCommand
  <2>3. inbox' \in Seq(IngestCommand)
    BY <2>1, <2>2
  <2> QED BY <1>3, <1>6, <2>3, OutsideKeepsInv DEF PushDeleted
<1> QED BY <1>1, <1>4, <1>5, <1>6

(* The aux worker hands on comments and deletions it was given.               *)
LEMMA AuxKeepsInv ==
    ASSUME IInv, AuxWorker
    PROVE  IInv'
<1> USE DEF IInv, IngestTypeOK, Counts
<1>1. aux # <<>> => Head(aux) \in Batch /\ Tail(aux) \in Seq(Batch)
  OBVIOUS
<1>2. \A b \in Batch : b.add \in Comments \cup {NoComment} /\ b.delete \in Comments \cup {NoComment}
  BY DEF Batch
<1>4. CASE AuxTakeJson
  <2>1. aux' \in Seq(Batch) /\ preparing' \in Comments \cup {NoComment}
    BY <1>1, <1>2, <1>4 DEF AuxTakeJson, AuxIdle
  <2> QED BY <1>4, <2>1, OutsideKeepsInv DEF AuxTakeJson, streamVars, connVars
<1>5. CASE AuxWriteback
  <2>1. preparing \in Comments /\ preparing' = NoComment
    BY <1>5 DEF AuxWriteback
  <2>2. inbox' \in Seq(IngestCommand)
    <3>1. inbox' = Append(inbox, [type |-> "incomingComments", id |-> preparing])
      BY <1>5 DEF AuxWriteback
    <3> QED BY <2>1, <3>1, InboxGrows
  <2> QED BY <1>5, <2>1, <2>2, OutsideKeepsInv DEF AuxWriteback
<1>6. CASE AuxPrepareError
  BY <1>6, OutsideKeepsInv DEF AuxPrepareError, streamVars, connVars
<1>7. ASSUME NEW t \in Threads, AuxParseInnertube(t) PROVE IInv'
  <2> DEFINE batch == Head(aux)
             known == IF Cardinality(seenIds[t]) > MaxSeenIds THEN {} ELSE seenIds[t]
             added == {batch.add} \ (known \cup {NoComment})
             gone  == {batch.delete} \cap (known \cup added)
  <2>1. /\ seenIds' = [seenIds EXCEPT ![t] = (known \cup added) \ gone]
        /\ inbox' = IF gone = {} THEN inbox
                    ELSE Append(inbox, [type |-> "commentDeleted", id |-> batch.delete])
        /\ preparing' = IF added = {} THEN NoComment ELSE batch.add
        /\ aux' = Tail(aux)
    BY <1>7 DEF AuxParseInnertube
  <2>2. batch.add \in Comments \cup {NoComment} /\ batch.delete \in Comments \cup {NoComment}
        /\ Tail(aux) \in Seq(Batch)
    BY <1>1, <1>2, <1>7 DEF AuxParseInnertube, AuxIdle
  <2>3. known \subseteq Comments
    BY <1>7
  <2>4. added \subseteq Comments
    BY <2>2
  <2>5. seenIds' \in [Threads -> SUBSET Comments]
    BY <2>1, <2>3, <2>4
  <2>6. gone # {} => batch.delete \in Comments
    BY <2>3, <2>4
  <2>7. inbox' \in Seq(IngestCommand)
    <3>1. CASE gone = {}
      BY <2>1, <3>1
    <3>2. CASE gone # {}
      <4>1. Append(inbox, [type |-> "commentDeleted", id |-> batch.delete]) \in Seq(IngestCommand)
        BY <2>6, <3>2, InboxGrows
      <4> QED BY <2>1, <3>2, <4>1
    <3> QED BY <3>1, <3>2
  <2>8. preparing' \in Comments \cup {NoComment}
    BY <2>1, <2>2
  <2> QED BY <1>7, <2>1, <2>2, <2>5, <2>7, <2>8, OutsideKeepsInv DEF AuxParseInnertube
<1> QED BY <1>4, <1>5, <1>6, <1>7 DEF AuxWorker

(* The record worker adds one row or none.                                    *)
LEMMA RecordKeepsInv ==
    ASSUME IInv, RecordWorker
    PROVE  IInv'
<1> USE DEF IInv, IngestTypeOK, Counts
<1>1. recordQueue # <<>> /\ recordQueue' = Tail(recordQueue)
  BY DEF RecordWorker, RecordComment, RecordBusy
<1>2. Head(recordQueue) \in Row /\ recordQueue' \in Seq(Row)
  BY <1>1
<1>3. db' \in SUBSET Row /\ IsFiniteSet(db')
  <2>1. db' = db \/ db' = db \cup {Head(recordQueue)}
    BY DEF RecordWorker, RecordComment, RecordBusy
  <2>2. IsFiniteSet(db \cup {Head(recordQueue)})
    BY FS_AddElement
  <2> QED BY <1>2, <2>1, <2>2
<1>4. UNCHANGED <<streamVars, pipeVars, sessionVars, listenerVars, history>>
  BY DEF RecordWorker, RecordComment, RecordBusy
<1> QED BY <1>2, <1>3, <1>4, OutsideKeepsInv DEF streamVars, connVars, pipeVars

-----------------------------------------------------------------------------
(* ModelQueue.                                                              *)

(* The connection after a message of any window, and what became of the owner *)
(* that waits.                                                              *)
LEMMA ConnectionTyped ==
    ASSUME IInv, NEW connected \in BOOLEAN, NEW videoId \in VideoOpt,
           ApplyConnectionStateChanged(connected, videoId)
    PROVE  /\ connection' \in ConnectionState /\ connection'.videoId = videoId
           /\ PendingTyped'
<1> DEFINE matches == pendingOwner # NoPending /\ pendingOwner.videoId = videoId
           owner == OwnerAfter(videoId, matches)
<1>1. owner \in Channels \cup {NoOwner}
  BY DEF IInv, IngestTypeOK, PendingTyped, ConnectionState, PendingOwner, OwnerAfter
<1>2. IsCurrentStreamOwn(owner, configured) \in BOOLEAN
  BY DEF IsCurrentStreamOwn
<1> HIDE DEF owner, matches
<1>3. /\ connection' = [connected |-> connected, videoId |-> videoId, owner |-> owner,
                        isOwn |-> IsCurrentStreamOwn(owner, configured)]
      /\ pendingOwner' \in {NoPending, pendingOwner}
  BY DEF ApplyConnectionStateChanged, owner, matches
<1>4. connection' \in ConnectionState /\ connection'.videoId = videoId
  BY <1>1, <1>2, <1>3 DEF ConnectionState
<1>5. PendingTyped'
  BY <1>3 DEF IInv, PendingTyped
<1> QED BY <1>4, <1>5

(* A change of stream empties what belongs to the old one, and counts anew.   *)
LEMMA ConnectionKeepsInv ==
    ASSUME IInv, HandleConnection
    PROVE  IInv'
<1> USE DEF IInv
<1>1. /\ Head(inbox) \in IngestCommand /\ inbox' \in Seq(IngestCommand)
      /\ Head(inbox).type = "connectionStateChanged"
  <2>1. inbox \in Seq(IngestCommand) /\ inbox # <<>>
    BY DEF IngestTypeOK, HandleConnection, HandleConnectionStateChanged, NextCommand
  <2>2. inbox' = Tail(inbox) /\ Head(inbox).type = "connectionStateChanged"
    BY DEF HandleConnection, HandleConnectionStateChanged, NextCommand
  <2> QED BY <2>1, <2>2
<1>2. Head(inbox).connected \in BOOLEAN /\ Head(inbox).videoId \in VideoOpt
  BY <1>1, IngestCommandFields
<1>3. connection' \in ConnectionState /\ PendingTyped'
  BY <1>2, ConnectionTyped DEF HandleConnection, HandleConnectionStateChanged
<1>4. UNCHANGED <<pipeVars, recordQueue, db>>
  BY DEF HandleConnection
<1>5. CASE connection'.videoId # connection.videoId
  <2>1. /\ seen' = {} /\ store' = <<>> /\ timeline' = <<>>
        /\ stats' = [video |-> connection'.videoId, count |-> 0]
        /\ seenInStream' = {} /\ streamCounts' = [x \in {} |-> 0]
        /\ history' = [history EXCEPT !.broadcasts = [c \in Comments |-> 0]]
        /\ UNCHANGED <<nextCursor, seenInSession>>
    BY <1>5 DEF HandleConnection, ClearStream
  <2>2. IngestTypeOK'
    <3>1. stats' \in [video : VideoOpt, count : Nat]
      BY <1>3, <2>1 DEF ConnectionState
    <3>2. store' \in Seq(StoredComment) /\ Len(store') =< StoreCap
          /\ timeline' \in Seq(TimelineEntry) /\ Len(timeline') =< TimelineCap
      BY <2>1
    <3> QED BY <1>1, <1>3, <1>4, <2>1, <3>1, <3>2 DEF IngestTypeOK, pipeVars
  <2>3. history' \in HistoryRecord /\ history'.broadcasts = [c \in Comments |-> 0]
        /\ history'.firstTimes = history.firstTimes
    BY <2>1 DEF Counts, HistoryRecord
  <2>4. Counts'
    BY <1>4, <2>1, <2>3, FS_EmptySet DEF Counts
  <2>5. OncePerStream'
    BY <2>1, <2>3, FS_EmptySet DEF OncePerStream
  <2>6. ReplayAgreesWithTimeline'
    BY <2>1 DEF ReplayAgreesWithTimeline, NoIdTwice, Ids, TimelineIds
  <2>7. GreetedAreSeen'
    BY <2>1, <2>3 DEF GreetedAreSeen
  <2>8. ListenerMemoryScoped'
    BY <2>1 DEF ListenerMemoryScoped
  <2> QED BY <1>3, <2>2, <2>4, <2>5, <2>6, <2>7, <2>8
<1>6. CASE connection'.videoId = connection.videoId
  <2>1. UNCHANGED <<sessionVars, listenerVars, history>>
    BY <1>6 DEF HandleConnection
  <2> USE <1>4, <2>1 DEF sessionVars, listenerVars, pipeVars
  <2>2. IngestTypeOK'
    BY <1>1, <1>3 DEF IngestTypeOK
  <2>3. Counts'
    BY DEF Counts
  <2>4. OncePerStream'
    BY <1>6 DEF OncePerStream
  <2>5. ReplayAgreesWithTimeline'
    BY DEF ReplayAgreesWithTimeline, NoIdTwice, Ids, TimelineIds
  <2>6. GreetedAreSeen'
    BY DEF GreetedAreSeen
  <2>7. ListenerMemoryScoped'
    BY DEF ListenerMemoryScoped
  <2> QED BY <1>3, <2>2, <2>3, <2>4, <2>5, <2>6, <2>7
<1> QED BY <1>5, <1>6

(* Owner and channel list change nothing of the stream.                       *)
LEMMA OwnerKeepsInv ==
    ASSUME IInv, HandleOwner
    PROVE  IInv'
<1> USE DEF IInv
<1> DEFINE cmd == Head(inbox)
<1>1. UNCHANGED <<ingestVars>> /\ inbox # <<>> /\ inbox' = Tail(inbox)
  BY DEF HandleOwner, HandleAnnounceStreamOwner, HandleSetOwnerChannels, NextCommand
<1>2. cmd \in IngestCommand /\ inbox' \in Seq(IngestCommand)
  BY <1>1 DEF IngestTypeOK
<1>3. connection' \in ConnectionState /\ connection'.videoId = connection.videoId /\ PendingTyped'
  <2>1. CASE HandleAnnounceStreamOwner
    <3>1. cmd.videoId \in Videos /\ cmd.owner \in Channels
      BY <1>2, <2>1, IngestCommandFields DEF HandleAnnounceStreamOwner, NextCommand
    <3>2. IsCurrentStreamOwn(cmd.owner, configured) \in BOOLEAN
      BY DEF IsCurrentStreamOwn
    <3>3. ApplyStreamOwnerAnnouncement(cmd.videoId, cmd.owner)
      BY <2>1 DEF HandleAnnounceStreamOwner
    <3> HIDE DEF cmd
    <3>4. CASE connection.videoId = cmd.videoId
      <4>1. /\ connection' = [connection EXCEPT !.owner = cmd.owner,
                                !.isOwn = IsCurrentStreamOwn(cmd.owner, configured)]
            /\ pendingOwner' = NoPending
        BY <3>3, <3>4 DEF ApplyStreamOwnerAnnouncement
      <4> QED BY <3>1, <3>2, <4>1 DEF IngestTypeOK, ConnectionState, PendingTyped
    <3>5. CASE connection.videoId # cmd.videoId
      <4>1. /\ pendingOwner' = [videoId |-> cmd.videoId, owner |-> cmd.owner]
            /\ UNCHANGED connection
        BY <3>3, <3>5 DEF ApplyStreamOwnerAnnouncement
      <4> QED BY <3>1, <4>1 DEF IngestTypeOK, PendingTyped, PendingOwner
    <3> QED BY <3>4, <3>5
  <2>2. CASE HandleSetOwnerChannels
    <3>1. IsCurrentStreamOwn(connection.owner, cmd.channels) \in BOOLEAN
      BY DEF IsCurrentStreamOwn
    <3>2. \/ connection' = [connection EXCEPT
                   !.isOwn = IsCurrentStreamOwn(connection.owner, cmd.channels)]
          \/ UNCHANGED connection
      BY <2>2 DEF HandleSetOwnerChannels
    <3>3. UNCHANGED pendingOwner
      BY <2>2 DEF HandleSetOwnerChannels
    <3> HIDE DEF cmd
    <3> QED BY <3>1, <3>2, <3>3 DEF IngestTypeOK, ConnectionState, PendingTyped
  <2> QED BY <2>1, <2>2 DEF HandleOwner
<1> USE <1>1 DEF ingestVars, pipeVars, sessionVars, listenerVars
<1>4. IngestTypeOK'
  BY <1>2, <1>3 DEF IngestTypeOK
<1>5. Counts'
  BY DEF Counts
<1>6. OncePerStream'
  BY <1>3 DEF OncePerStream
<1>7. ReplayAgreesWithTimeline'
  BY DEF ReplayAgreesWithTimeline, NoIdTwice, Ids, TimelineIds
<1>8. GreetedAreSeen'
  BY DEF GreetedAreSeen
<1>9. ListenerMemoryScoped'
  BY DEF ListenerMemoryScoped
<1> QED BY <1>3, <1>4, <1>5, <1>6, <1>7, <1>8, <1>9

(* A deletion takes a comment from the replay store only.                     *)
LEMMA DeletionKeepsInv ==
    ASSUME IInv, HandleCommentDeleted
    PROVE  IInv'
<1> USE DEF IInv
<1>1. /\ store' = DeleteId(store, Head(inbox).id)
      /\ inbox # <<>> /\ inbox' = Tail(inbox)
      /\ UNCHANGED <<connVars, pipeVars, seen, timeline, nextCursor, stats,
                     listenerVars, recordQueue, db, history>>
  BY DEF HandleCommentDeleted, NextCommand
<1>2. inbox' \in Seq(IngestCommand)
  BY <1>1 DEF IngestTypeOK
<1>3. /\ store' \in Seq(StoredComment) /\ Len(store') =< StoreCap /\ NoIdTwice(store')
      /\ \A i \in DOMAIN store' : \E j \in DOMAIN store : store'[i] = store[j]
  BY <1>1, DeleteFacts DEF IngestTypeOK, ReplayAgreesWithTimeline
<1> USE <1>1 DEF connVars, pipeVars, listenerVars
<1>4. IngestTypeOK'
  BY <1>2, <1>3 DEF IngestTypeOK
<1>5. Counts'
  BY DEF Counts
<1>6. PendingTyped'
  BY DEF PendingTyped
<1>7. OncePerStream'
  BY DEF OncePerStream
<1>8. ReplayAgreesWithTimeline'
  <2>1. (Ids(store) \cup TimelineIds \subseteq seen)'
    BY <1>3 DEF ReplayAgreesWithTimeline, Ids, TimelineIds
  <2>2. ASSUME NEW i \in DOMAIN store', NEW j \in DOMAIN timeline',
               store'[i].id = timeline'[j].comment.id
        PROVE  store'[i] = timeline'[j].comment
    BY <1>3, <2>2 DEF ReplayAgreesWithTimeline
  <2> QED BY <1>3, <2>1, <2>2 DEF ReplayAgreesWithTimeline, NoIdTwice
<1>9. GreetedAreSeen'
  BY DEF GreetedAreSeen
<1>10. ListenerMemoryScoped'
  BY DEF ListenerMemoryScoped
<1> QED BY <1>4, <1>5, <1>6, <1>7, <1>8, <1>9, <1>10

(* The tag and the count of a comment, and who is remembered after it.        *)
LEMMA AnnotationFacts ==
    ASSUME IInv, NEW u \in Listeners, Annotate(u)
    PROVE  /\ TagOf(u) \in Tags /\ CountOf(u) \in Nat
           /\ TagOf(u) = "first-time" => u \notin seenInSession /\ u \in seenInSession'
           /\ seenInSession \subseteq seenInSession'
           /\ seenInStream' \in SUBSET Listeners /\ seenInSession' \in SUBSET Listeners
           /\ DOMAIN streamCounts' \in SUBSET Listeners
           /\ \A x \in DOMAIN streamCounts' : streamCounts'[x] \in Nat
           /\ DOMAIN streamCounts' = seenInStream' /\ seenInStream' \subseteq seenInStream \cup {u}
<1> USE DEF IInv, IngestTypeOK, Counts
<1>1. TagOf(u) \in Tags
  BY DEF TagOf, Tags
<1>2. CountOf(u) \in Nat
  <2>1. Cardinality(RowsInStream(u)) \in Nat
    <3>1. RowsInStream(u) \subseteq db
      BY DEF RowsInStream
    <3> QED BY <3>1, FS_Subset, FS_CardinalityType
  <2> QED BY <2>1 DEF CountOf
<1>3. CASE Annotates
  <2>1. /\ seenInStream' = seenInStream \cup {u}
        /\ seenInSession' = seenInSession \cup {u}
        /\ streamCounts' = [x \in DOMAIN streamCounts \cup {u} |->
                               IF x = u THEN CountOf(u) ELSE streamCounts[x]]
    BY <1>3 DEF Annotate
  <2>2. TagOf(u) = "first-time" => u \notin seenInSession
    BY DEF TagOf, FirstTime
  <2>3. /\ DOMAIN streamCounts' \in SUBSET Listeners
        /\ \A x \in DOMAIN streamCounts' : streamCounts'[x] \in Nat
    BY <1>2, <2>1
  <2>4. DOMAIN streamCounts' = seenInStream' /\ seenInStream' \subseteq seenInStream \cup {u}
    BY <2>1 DEF ListenerMemoryScoped
  <2> QED BY <1>1, <1>2, <2>1, <2>2, <2>3, <2>4
<1>4. CASE ~Annotates
  <2>1. UNCHANGED listenerVars
    BY <1>4 DEF Annotate
  <2>2. TagOf(u) = ""
    BY <1>4 DEF TagOf
  <2> QED BY <1>1, <1>2, <2>1, <2>2 DEF listenerVars, ListenerMemoryScoped
<1> QED BY <1>3, <1>4

(* A comment, delivered for the first time on this stream or again.           *)
LEMMA IncomingKeepsInv ==
    ASSUME IInv, HandleIncomingComment
    PROVE  IInv'
<1> DEFINE c == Head(inbox).id
           u == Author[c]
           e == [id |-> c, live |-> connection.videoId, tag |-> TagOf(u), count |-> CountOf(u)]
<1> USE DEF IInv
<1>1. /\ inbox # <<>> /\ Head(inbox).type = "incomingComments" /\ inbox' = Tail(inbox)
      /\ UNCHANGED <<connVars, pipeVars, db>>
      /\ Annotate(u)
      /\ IF IsDuplicate(c) THEN IngestDuplicate(e) ELSE IngestNew(e)
  BY DEF HandleIncomingComment, NextCommand
<1>2. Head(inbox) \in IngestCommand /\ inbox' \in Seq(IngestCommand)
  BY <1>1 DEF IngestTypeOK
<1>3. c \in Comments /\ u \in Listeners
  BY <1>1, <1>2, IngestCommandFields
<1>4. /\ TagOf(u) \in Tags /\ CountOf(u) \in Nat
      /\ TagOf(u) = "first-time" => u \notin seenInSession /\ u \in seenInSession'
      /\ seenInSession \subseteq seenInSession'
      /\ seenInStream' \in SUBSET Listeners /\ seenInSession' \in SUBSET Listeners
      /\ DOMAIN streamCounts' \in SUBSET Listeners
      /\ \A x \in DOMAIN streamCounts' : streamCounts'[x] \in Nat
      /\ DOMAIN streamCounts' = seenInStream' /\ seenInStream' \subseteq seenInStream \cup {u}
  BY <1>1, <1>3, AnnotationFacts
<1>5. e \in StoredComment /\ e.id = c /\ e.tag = TagOf(u)
  BY <1>3, <1>4 DEF StoredComment, IngestTypeOK, ConnectionState
<1> HIDE DEF e, c, u
<1>6. /\ store \in Seq(StoredComment) /\ Len(store) =< StoreCap /\ NoIdTwice(store)
      /\ timeline \in Seq(TimelineEntry) /\ Len(timeline) =< TimelineCap
      /\ \A i, j \in DOMAIN timeline :
           timeline[i].comment.id = timeline[j].comment.id => i = j
      /\ Ids(store) \cup TimelineIds \subseteq seen
  BY DEF IngestTypeOK, ReplayAgreesWithTimeline
<1>7. /\ Upsert(store, e) \in Seq(StoredComment) /\ Len(Upsert(store, e)) =< StoreCap
      /\ NoIdTwice(Upsert(store, e))
      /\ \A i \in DOMAIN Upsert(store, e) :
           \/ Upsert(store, e)[i] = e
           \/ /\ Upsert(store, e)[i].id # e.id
              /\ \E j \in DOMAIN store : Upsert(store, e)[i] = store[j]
  <2>1. e \in StoredComment /\ store \in Seq(StoredComment)
    BY <1>5, <1>6
  <2>2. Len(store) =< StoreCap /\ NoIdTwice(store)
    BY <1>6
  <2> HIDE DEF IInv
  <2> QED BY <2>1, <2>2, UpsertFacts
<1> USE <1>1 DEF connVars, pipeVars
<1>8. PendingTyped'
  BY DEF PendingTyped
<1>9. ASSUME seen \subseteq seen', c \in seen' PROVE ListenerMemoryScoped'
  <2>1. u = Author[c]
    BY DEF u
  <2> QED BY <1>4, <1>9, <2>1 DEF ListenerMemoryScoped
<1>10. CASE IsDuplicate(c)
  <2>1. /\ store' = Upsert(store, e) /\ timeline' = UpdateTimeline(timeline, e)
        /\ UNCHANGED <<seen, nextCursor, stats, recordQueue, history>>
    BY <1>10 DEF IngestDuplicate
  <2>2. /\ timeline' \in Seq(TimelineEntry) /\ Len(timeline') =< TimelineCap
        /\ \A i, j \in DOMAIN timeline' :
             timeline'[i].comment.id = timeline'[j].comment.id => i = j
        /\ \A i \in DOMAIN timeline' :
             \/ timeline'[i].comment = e
             \/ /\ timeline'[i].comment.id # e.id
                /\ \E j \in DOMAIN timeline : timeline'[i].comment = timeline[j].comment
    <3>1. e \in StoredComment /\ timeline \in Seq(TimelineEntry) /\ Len(timeline) =< TimelineCap
      BY <1>5, <1>6
    <3>2. \A i, j \in DOMAIN timeline :
            timeline[i].comment.id = timeline[j].comment.id => i = j
      BY <1>6
    <3> HIDE DEF IInv
    <3>3. LET r == UpdateTimeline(timeline, e)
          IN  /\ r \in Seq(TimelineEntry) /\ Len(r) =< TimelineCap
              /\ \A i, j \in DOMAIN r : r[i].comment.id = r[j].comment.id => i = j
              /\ \A i \in DOMAIN r :
                   \/ r[i].comment = e
                   \/ r[i].comment.id # e.id /\ \E j \in DOMAIN timeline : r[i].comment = timeline[j].comment
      BY <3>1, <3>2, UpdateFacts, Zenon
    <3>4. timeline' = UpdateTimeline(timeline, e)
      BY <2>1
    <3> QED BY <3>3, <3>4, Zenon
  <2>3. IngestTypeOK'
    BY <1>2, <1>4, <1>7, <2>1, <2>2 DEF IngestTypeOK
  <2>4. Counts'
    BY <1>4, <2>1 DEF Counts
  <2>5. OncePerStream'
    BY <2>1 DEF OncePerStream
  <2>6. ReplayAgreesWithTimeline'
    <3>1. seen \subseteq seen' /\ e.id \in seen'
      BY <1>5, <1>10, <2>1 DEF IsDuplicate
    <3>2. /\ NoIdTwice(store')
          /\ \A i \in DOMAIN store' :
               store'[i] = e \/ (store'[i].id # e.id /\ \E j \in DOMAIN store : store'[i] = store[j])
      BY <1>7, <2>1
    <3>3. ReplayAgreesWithTimeline
      BY DEF IInv
    <3> HIDE DEF IInv
    <3> QED BY <2>2, <3>1, <3>2, <3>3, AgreementKept
  <2>7. GreetedAreSeen'
    BY <1>4, <2>1 DEF GreetedAreSeen
  <2>8. ListenerMemoryScoped'
    BY <1>10, <1>9, <2>1 DEF IsDuplicate
  <2> QED BY <1>8, <2>3, <2>4, <2>5, <2>6, <2>7, <2>8
<1>11. CASE ~IsDuplicate(c)
  <2>1. /\ seen' = seen \cup {c} /\ store' = Upsert(store, e)
        /\ timeline' = PushTimeline(timeline, e) /\ nextCursor' = nextCursor + 1
        /\ stats' = IF connection.videoId = NoVideo THEN stats
                    ELSE [video |-> connection.videoId,
                          count |-> 1 + (IF stats.video = connection.videoId
                                         THEN stats.count ELSE 0)]
        /\ recordQueue' = IF Dispatches THEN Append(recordQueue, RowOf(c)) ELSE recordQueue
        /\ history' = [history EXCEPT
                          !.broadcasts[c] = @ + 1,
                          !.firstTimes[u] = IF TagOf(u) = "first-time" THEN @ + 1 ELSE @]
    BY <1>5, <1>11 DEF IngestNew, u
  <2>2. c \notin seen
    BY <1>11 DEF IsDuplicate
  <2>3. /\ timeline' \in Seq(TimelineEntry) /\ Len(timeline') =< TimelineCap
        /\ \A i, j \in DOMAIN timeline' :
             timeline'[i].comment.id = timeline'[j].comment.id => i = j
        /\ \A i \in DOMAIN timeline' :
             \/ timeline'[i].comment = e
             \/ /\ timeline'[i].comment.id # e.id
                /\ \E j \in DOMAIN timeline : timeline'[i].comment = timeline[j].comment
    <3>1. \A i \in DOMAIN timeline : timeline[i].comment.id # e.id
      BY <1>5, <1>6, <2>2 DEF TimelineIds
    <3>2. nextCursor \in Nat \ {0}
      BY DEF IngestTypeOK
    <3>3. e \in StoredComment /\ timeline \in Seq(TimelineEntry) /\ Len(timeline) =< TimelineCap
      BY <1>5, <1>6
    <3>4. \A i, j \in DOMAIN timeline :
            timeline[i].comment.id = timeline[j].comment.id => i = j
      BY <1>6
    <3> HIDE DEF IInv
    <3>5. LET r == PushTimeline(timeline, e)
          IN  /\ r \in Seq(TimelineEntry) /\ Len(r) =< TimelineCap
              /\ \A i, j \in DOMAIN r : r[i].comment.id = r[j].comment.id => i = j
              /\ \A i \in DOMAIN r :
                   \/ r[i].comment = e
                   \/ r[i].comment.id # e.id /\ \E j \in DOMAIN timeline : r[i].comment = timeline[j].comment
      BY <3>1, <3>2, <3>3, <3>4, PushFacts, Zenon
    <3>6. timeline' = PushTimeline(timeline, e)
      BY <2>1
    <3> QED BY <3>5, <3>6, Zenon
  <2>4. /\ history' \in HistoryRecord
        /\ history'.broadcasts = [history.broadcasts EXCEPT ![c] = @ + 1]
        /\ history'.firstTimes = [history.firstTimes EXCEPT
              ![u] = IF TagOf(u) = "first-time" THEN @ + 1 ELSE @]
    <3>1. /\ history.broadcasts \in [Comments -> Nat] /\ history.firstTimes \in [Listeners -> Nat]
          /\ history = [broadcasts |-> history.broadcasts, firstTimes |-> history.firstTimes]
      BY DEF Counts, HistoryRecord
    <3> DEFINE newB == [history.broadcasts EXCEPT ![c] = @ + 1]
               newF == [history.firstTimes EXCEPT
                          ![u] = IF TagOf(u) = "first-time" THEN @ + 1 ELSE @]
    <3>2. newB \in [Comments -> Nat] /\ newF \in [Listeners -> Nat]
      <4> HIDE DEF IInv
      <4> QED BY <1>3, <3>1
    <3>3. history' = [history EXCEPT !.broadcasts = newB, !.firstTimes = newF]
      BY <2>1
    <3> HIDE DEF newB, newF
    <3>4. history' = [broadcasts |-> newB, firstTimes |-> newF]
      BY <3>1, <3>3
    <3> QED BY <3>2, <3>4 DEF HistoryRecord, newB, newF
  <2>5. stats' \in [video : VideoOpt, count : Nat]
    BY <2>1 DEF IngestTypeOK, ConnectionState
  <2>6. recordQueue' \in Seq(Row)
    <3>1. Dispatches => RowOf(c) \in Row
      BY <1>3 DEF Dispatches, RowOf, Row, IngestTypeOK, ConnectionState, VideoOpt, IsCurrentStreamOwn
    <3>2. recordQueue \in Seq(Row)
      BY DEF IngestTypeOK
    <3> HIDE DEF IInv
    <3>3. CASE Dispatches
      BY <2>1, <3>1, <3>2, <3>3
    <3>4. CASE ~Dispatches
      BY <2>1, <3>2, <3>4
    <3> QED BY <3>3, <3>4
  <2>7. IngestTypeOK'
    <3>1. seen' \in SUBSET Comments /\ nextCursor' \in Nat \ {0}
      BY <1>3, <2>1 DEF IngestTypeOK
    <3>2. store' \in Seq(StoredComment) /\ Len(store') =< StoreCap
      BY <1>7, <2>1
    <3>3. /\ connection' \in ConnectionState /\ aux' \in Seq(Batch)
          /\ preparing' \in Comments \cup {NoComment}
          /\ seenIds' \in [Threads -> SUBSET Comments]
          /\ db' \in SUBSET Row /\ pushes' \in 0..MaxPushes
      BY DEF IngestTypeOK
    <3> QED BY <1>2, <1>4, <2>3, <2>5, <2>6, <3>1, <3>2, <3>3 DEF IngestTypeOK
  <2>8. IsFiniteSet(seen') /\ Cardinality(seen') = Cardinality(seen) + 1
        /\ Cardinality(seen) \in Nat
    BY <2>1, <2>2, FS_AddElement, FS_CardinalityType DEF Counts
  <2>9. Counts'
    BY <1>4, <2>4, <2>8 DEF Counts
  <2>10. OncePerStream'
    <3>1. \A x \in Comments : history'.broadcasts[x] = IF x \in seen' THEN 1 ELSE 0
      BY <1>3, <2>1, <2>2, <2>4 DEF OncePerStream, Counts, HistoryRecord
    <3>2. connection'.videoId # NoVideo =>
            stats' = [video |-> connection'.videoId, count |-> Cardinality(seen')]
      BY <2>1, <2>8 DEF OncePerStream
    <3> QED BY <3>1, <3>2 DEF OncePerStream
  <2>11. ReplayAgreesWithTimeline'
    <3>1. seen \subseteq seen' /\ e.id \in seen'
      BY <1>5, <2>1
    <3>2. ReplayAgreesWithTimeline
      OBVIOUS
    <3>3. /\ NoIdTwice(store')
          /\ \A i \in DOMAIN store' :
               \/ store'[i] = e
               \/ store'[i].id # e.id /\ \E j \in DOMAIN store : store'[i] = store[j]
      BY <1>7, <2>1, Zenon
    <3> HIDE DEF IInv
    <3> QED BY <2>3, <3>1, <3>2, <3>3, AgreementKept
  <2>12. GreetedAreSeen'
    BY <1>3, <1>4, <2>4 DEF GreetedAreSeen, Counts, HistoryRecord
  <2>13. ListenerMemoryScoped'
    BY <1>9, <2>1
  <2> QED BY <1>8, <2>7, <2>9, <2>10, <2>11, <2>12, <2>13
<1> QED BY <1>10, <1>11

-----------------------------------------------------------------------------
(* The hub starts with empty stores.                                         *)
LEMMA InitEstablishesInv == Init /\ IngestInit => IInv
<1> SUFFICES ASSUME Init, IngestInit PROVE IInv
  OBVIOUS
<1>1. connection \in ConnectionState /\ connection.videoId = NoVideo
  BY DEF Init, ConnectionState, VideoOpt
<1>2. stats \in [video : VideoOpt, count : Nat]
  BY DEF IngestInit, VideoOpt
<1>3. store \in Seq(StoredComment) /\ Len(store) =< StoreCap
      /\ timeline \in Seq(TimelineEntry) /\ Len(timeline) =< TimelineCap
  BY DEF IngestInit
<1>4. inbox \in Seq(IngestCommand)
  BY DEF Init
<1>5. IngestTypeOK
  BY <1>1, <1>2, <1>3, <1>4 DEF IngestInit, IngestTypeOK
<1>6. history \in HistoryRecord /\ history.broadcasts = [c \in Comments |-> 0]
      /\ history.firstTimes = [u \in Listeners |-> 0]
  BY DEF IngestInit, HistoryRecord
<1>7. Counts
  BY <1>6, FS_EmptySet DEF IngestInit, Counts
<1>8. PendingTyped
  BY DEF Init, PendingTyped
<1>9. OncePerStream
  BY <1>1, <1>6 DEF IngestInit, OncePerStream
<1>10. ReplayAgreesWithTimeline
  BY DEF IngestInit, ReplayAgreesWithTimeline, NoIdTwice, Ids, TimelineIds
<1>11. GreetedAreSeen
  BY <1>6 DEF GreetedAreSeen
<1>12. ListenerMemoryScoped
  BY DEF IngestInit, ListenerMemoryScoped
<1> QED BY <1>5, <1>7, <1>8, <1>9, <1>10, <1>11, <1>12 DEF IInv

(* The inductive invariant holds in every reachable state: deliveries may     *)
(* repeat, arrive late or overtake each other as they like.                   *)
THEOREM IngestInvariant == IngestSpec => []IInv
<1>1. Init /\ IngestInit => IInv
  BY InitEstablishesInv
<1>2. IInv /\ [IngestNext]_vars => IInv'
  <2> SUFFICES ASSUME IInv, [IngestNext]_vars PROVE IInv'
    OBVIOUS
  <2>1. CASE ElectronStep
    BY <2>1, ElectronKeepsInv
  <2>2. CASE Scraper
    BY <2>2, ScraperKeepsInv
  <2>3. CASE AuxWorker
    BY <2>3, AuxKeepsInv
  <2>4. CASE HandleCommand
    BY <2>4, IncomingKeepsInv, DeletionKeepsInv, ConnectionKeepsInv, OwnerKeepsInv DEF HandleCommand
  <2>5. CASE RecordWorker
    BY <2>5, RecordKeepsInv
  <2>6. CASE UNCHANGED vars
    BY <2>6, OutsideKeepsInv
    DEF vars, streamVars, ingestVars, pipeVars, connVars, sessionVars, listenerVars,
        IInv, IngestTypeOK, Counts
  <2> QED BY <2>1, <2>2, <2>3, <2>4, <2>5, <2>6 DEF IngestNext
<1> QED BY <1>1, <1>2, PTL DEF IngestSpec

(* Every variable holds a value of its type, for any capacities.              *)
THEOREM IngestTypeCorrect == IngestSpec => []IngestTypeOK
<1>1. IInv => IngestTypeOK
  BY DEF IInv
<1> QED BY <1>1, IngestInvariant, PTL

(* handle_incoming_comments broadcasts and counts a comment once per           *)
(* attachment to a stream, for any number of comments, windows and deliveries. *)
THEOREM BroadcastOncePerStream == IngestSpec => []OncePerStream
<1>1. IInv => OncePerStream
  BY DEF IInv
<1> QED BY <1>1, IngestInvariant, PTL

(* The replay store and the timeline agree, whatever either has evicted.      *)
THEOREM StoresAgree == IngestSpec => []ReplayAgreesWithTimeline
<1>1. IInv => ReplayAgreesWithTimeline
  BY DEF IInv
<1> QED BY <1>1, IngestInvariant, PTL

(* annotate_listener_comment_status greets no listener twice as new, however   *)
(* late the database learns of his comments.                                 *)
THEOREM GreetedOnce == IngestSpec => []FirstTimeOnce
<1>1. IInv => FirstTimeOnce
  BY DEF IInv, GreetedAreSeen, FirstTimeOnce
<1> QED BY <1>1, IngestInvariant, PTL

(* What the hub remembers of listeners never outlives the stream.             *)
THEOREM ListenersOfThisStream == IngestSpec => []ListenerMemoryScoped
<1>1. IInv => ListenerMemoryScoped
  BY DEF IInv
<1> QED BY <1>1, IngestInvariant, PTL

-----------------------------------------------------------------------------
(* The connection within the ingest.                                        *)

(* Whatever scraper windows, parser and database do, the connection stays     *)
(* what it was and the channel holds true announcements.                     *)
LEMMA PipeKeepsStreamInv ==
    ASSUME StreamInv, UNCHANGED <<connVars, electronVars>>,
           \/ inbox' = inbox
           \/ \E c \in Comments, t \in {"incomingComments", "commentDeleted"} :
                inbox' = Append(inbox, [type |-> t, id |-> c])
           \/ inbox # <<>> /\ inbox' = Tail(inbox)
    PROVE  StreamInv'
<1>1. /\ inbox \in Seq(IngestCommand) /\ \A i \in 1..Len(inbox) : Truthful(inbox[i])
      /\ windows' \in SUBSET Videos /\ fetching' \in [Videos -> Nat] /\ turns' \in Nat
  BY DEF StreamInv, HubTypeOK, AnnouncementsTrue, electronVars
<1>2. UNCHANGED connVars
  OBVIOUS
<1>3. inbox' \in Seq(IngestCommand) /\ \A i \in 1..Len(inbox') : Truthful(inbox'[i])
  <2>1. CASE inbox' = inbox
    BY <1>1, <2>1
  <2>2. ASSUME NEW c \in Comments, NEW t \in {"incomingComments", "commentDeleted"},
               inbox' = Append(inbox, [type |-> t, id |-> c])
        PROVE  inbox' \in Seq(IngestCommand) /\ \A i \in 1..Len(inbox') : Truthful(inbox'[i])
    <3>1. [type |-> t, id |-> c] \in IngestCommand
      BY DEF IngestCommand
    <3>2. Truthful([type |-> t, id |-> c])
      BY DEF Truthful
    <3> QED BY <1>1, <2>2, <3>1, <3>2, AppendTruthful
  <2>3. CASE inbox # <<>> /\ inbox' = Tail(inbox)
    BY <1>1, <2>3, TailTruthful
  <2> QED BY <2>1, <2>2, <2>3
<1> QED BY <1>1, <1>2, <1>3, SendKeepsInv

LEMMA IngestStepKeepsStreamInv ==
    ASSUME StreamInv, IngestTypeOK, [IngestNext]_vars
    PROVE  StreamInv'
<1>1. CASE ElectronStep
  BY <1>1, StreamElectronKeepsInv DEF ElectronStep
<1>2. CASE HandleConnection
  BY <1>2, StreamConnectionKeepsInv DEF HandleConnection
<1>3. CASE HandleOwner
  BY <1>3, AnnouncementKeepsInv, SetOwnersKeepsInv DEF HandleOwner
<1>4. ASSUME NEW v \in Videos, PushDeleted(v) PROVE StreamInv'
  <2>1. PICK c \in CommentsOf(v) : inbox' = Append(inbox, [type |-> "commentDeleted", id |-> c])
    BY <1>4 DEF PushDeleted
  <2>2. c \in Comments
    BY DEF CommentsOf
  <2>3. UNCHANGED <<connVars, electronVars>>
    BY <1>4 DEF PushDeleted
  <2> QED BY <2>1, <2>2, <2>3, PipeKeepsStreamInv
<1>5. ASSUME NEW t \in Threads, AuxParseInnertube(t) PROVE StreamInv'
  <2> DEFINE known == IF Cardinality(seenIds[t]) > MaxSeenIds THEN {} ELSE seenIds[t]
             added == {Head(aux).add} \ (known \cup {NoComment})
             gone == {Head(aux).delete} \cap (known \cup added)
  <2>1. inbox' = IF gone = {} THEN inbox
                 ELSE Append(inbox, [type |-> "commentDeleted", id |-> Head(aux).delete])
    BY <1>5 DEF AuxParseInnertube
  <2>2. gone # {} => Head(aux).delete \in Comments
    <3>1. Head(aux) \in Batch
      <4>1. aux \in Seq(Batch) /\ aux # <<>>
        BY <1>5 DEF IngestTypeOK, AuxParseInnertube, AuxIdle
      <4> QED BY <4>1
    <3>2. known \subseteq Comments /\ added \subseteq Comments
      BY <3>1 DEF IngestTypeOK, Batch
    <3> QED BY <3>2
  <2> HIDE DEF gone
  <2>3. UNCHANGED <<connVars, electronVars>>
    BY <1>5 DEF AuxParseInnertube
  <2> QED BY <2>1, <2>2, <2>3, PipeKeepsStreamInv
<1>6. CASE AuxWriteback
  <2>1. preparing \in Comments
    BY <1>6 DEF AuxWriteback, IngestTypeOK
  <2>2. /\ inbox' = Append(inbox, [type |-> "incomingComments", id |-> preparing])
        /\ UNCHANGED <<connVars, electronVars>>
    BY <1>6 DEF AuxWriteback
  <2> QED BY <2>1, <2>2, PipeKeepsStreamInv
<1>7. CASE HandleIncomingComment \/ HandleCommentDeleted
  <2>1. inbox # <<>> /\ inbox' = Tail(inbox) /\ UNCHANGED <<connVars, electronVars>>
    BY <1>7 DEF HandleIncomingComment, HandleCommentDeleted, NextCommand
  <2> QED BY <2>1, PipeKeepsStreamInv
<1>8. CASE UNCHANGED streamVars
  <2>1. inbox' = inbox /\ UNCHANGED <<connVars, electronVars>>
    BY <1>8 DEF streamVars, connVars, electronVars
  <2> QED BY <2>1, PipeKeepsStreamInv
<1>9. ASSUME NEW v \in Videos, PushComments(v) \/ PushInnertube(v) PROVE UNCHANGED streamVars
  BY <1>9 DEF PushComments, PushInnertube
<1>10. CASE AuxTakeJson \/ AuxPrepareError \/ RecordWorker \/ UNCHANGED vars
  BY <1>8, <1>10 DEF AuxTakeJson, AuxPrepareError, RecordWorker, RecordComment, RecordBusy, vars
<1>11. CASE Scraper
  BY <1>4, <1>8, <1>9, <1>11 DEF Scraper
<1>12. CASE AuxWorker
  BY <1>5, <1>6, <1>10, <1>12 DEF AuxWorker
<1>13. CASE HandleCommand
  BY <1>2, <1>3, <1>7, <1>13 DEF HandleCommand
<1> QED BY <1>1, <1>10, <1>11, <1>12, <1>13 DEF IngestNext

LEMMA StreamInvInIngest == IngestSpec => []StreamInv
<1>1. Init => StreamInv
  BY StreamInitEstablishesInv
<1>2. StreamInv /\ IngestTypeOK /\ [IngestNext]_vars => StreamInv'
  BY IngestStepKeepsStreamInv
<1> QED BY <1>1, <1>2, IngestTypeCorrect, PTL DEF IngestSpec

(* Comments and deletions in the same channel, behind and between the         *)
(* messages of the connection, do not disturb what the hub knows of owners.  *)
THEOREM OwnerIsRightInIngest == IngestSpec => []OwnerMatchesVideo
<1>1. StreamInv => OwnerMatchesVideo
  BY DEF StreamInv
<1> QED BY <1>1, StreamInvInIngest, PTL

LEMMA IngestStepRefines ==
    ASSUME StreamInv, StreamInv', [IngestNext]_vars
    PROVE  [Hub!HubNext]_Hub!hubVars
<1>1. CASE ElectronStep
  BY <1>1, ElectronRefines DEF ElectronStep
<1>2. CASE HandleConnection
  BY <1>2, ConnectionRefines DEF HandleConnection
<1>3. CASE HandleOwner
  BY <1>3, AnnouncementRefines, SetOwnersRefines DEF HandleOwner
<1>4. CASE UNCHANGED connVars
  BY <1>4, ConnUnchangedIsStutter DEF connVars
<1>5. CASE Scraper
  BY <1>4, <1>5 DEF Scraper, PushComments, PushInnertube, PushDeleted, streamVars, connVars
<1>6. CASE AuxWorker
  BY <1>4, <1>6
  DEF AuxWorker, AuxTakeJson, AuxParseInnertube, AuxWriteback, AuxPrepareError, streamVars, connVars
<1>7. CASE HandleIncomingComment \/ HandleCommentDeleted
  BY <1>4, <1>7 DEF HandleIncomingComment, HandleCommentDeleted
<1>8. CASE RecordWorker \/ UNCHANGED vars
  BY <1>4, <1>8 DEF RecordWorker, RecordComment, RecordBusy, vars, streamVars, connVars
<1> QED BY <1>1, <1>2, <1>3, <1>5, <1>6, <1>7, <1>8 DEF IngestNext, HandleCommand

(* With the whole ingest around it the connection is still the simple hub:    *)
(* handlers of comments read its video and its owner and never change them.  *)
THEOREM IngestImplementsHub == IngestSpec => ImplementsHub
<1>1. Init => Hub!HubInit
  BY DEF Init, Hub!HubInit
<1>2. StreamInv /\ StreamInv' /\ [IngestNext]_vars => [Hub!HubNext]_Hub!hubVars
  BY IngestStepRefines
<1> QED BY <1>1, <1>2, StreamInvInIngest, PTL DEF IngestSpec, ImplementsHub, Hub!HubSpec

-----------------------------------------------------------------------------
(* Cursors.                                                                 *)

(* A step that gives no comment a cursor: entries stay, are rewritten in      *)
(* place, or all go.                                                        *)
LEMMA NoCursorGiven ==
    ASSUME IngestTypeOK, UNCHANGED nextCursor,
           \A i \in DOMAIN timeline' : /\ i \in DOMAIN timeline
                                      /\ timeline'[i].cursor = timeline[i].cursor
                                      /\ timeline'[i].comment.id = timeline[i].comment.id
    PROVE  CursorStep
BY DEF IngestTypeOK, CursorStep

LEMMA HandlerKeepsCursors ==
    ASSUME IngestTypeOK, HandleIncomingComment
    PROVE  CursorStep
<1> DEFINE c == Head(inbox).id
           e == [id |-> c, live |-> connection.videoId, tag |-> TagOf(Author[c]),
                 count |-> CountOf(Author[c])]
<1>1. e.id = c
  OBVIOUS
<1> HIDE DEF e
<1>2. CASE IngestDuplicate(e)
  <2>1. timeline \in Seq(TimelineEntry) /\ UNCHANGED nextCursor
    BY <1>2 DEF IngestTypeOK, IngestDuplicate
  <2>2. \A i \in DOMAIN timeline : timeline[i] \in TimelineEntry
    BY <2>1
  <2>3. timeline' = [i \in DOMAIN timeline |->
                       IF timeline[i].comment.id = e.id
                       THEN [timeline[i] EXCEPT !.comment = e] ELSE timeline[i]]
    BY <1>2 DEF IngestDuplicate, UpdateTimeline
  <2>4. \A i \in DOMAIN timeline' : /\ i \in DOMAIN timeline
                                   /\ timeline'[i].cursor = timeline[i].cursor
                                   /\ timeline'[i].comment.id = timeline[i].comment.id
    BY <2>2, <2>3 DEF TimelineEntry
  <2> QED BY <2>1, <2>4, NoCursorGiven
<1>3. CASE IngestNew(e)
  <2> DEFINE new == [cursor |-> nextCursor, comment |-> e]
             s == timeline
             k == IF Len(s) >= TimelineCap THEN 1 ELSE 0
  <2>1. /\ s \in Seq(TimelineEntry) /\ nextCursor \in Nat /\ nextCursor' = nextCursor + 1
        /\ timeline' = Append(IF Len(s) >= TimelineCap THEN Tail(s) ELSE s, new)
    BY <1>3 DEF IngestTypeOK, IngestNew, PushTimeline
  <2>2. new.cursor = nextCursor
    OBVIOUS
  <2> HIDE DEF new
  <2>3. ASSUME NEW i \in DOMAIN timeline'
        PROVE  timeline'[i] = new \/ \E j \in DOMAIN timeline : timeline'[i] = timeline[j]
    <3>1. CASE Len(s) >= TimelineCap
      <4>1. Tail(s) \in Seq(TimelineEntry) /\ s # <<>>
        BY <2>1, <3>1
      <4>2. timeline' = Append(Tail(s), new)
        BY <2>1, <3>1
      <4>3. CASE i = Len(Tail(s)) + 1
        BY <4>1, <4>2, <4>3
      <4>4. CASE i # Len(Tail(s)) + 1
        <5>1. i \in 1..Len(Tail(s)) /\ timeline'[i] = Tail(s)[i]
          BY <2>3, <4>1, <4>2, <4>4
        <5>2. i + 1 \in DOMAIN s /\ Tail(s)[i] = s[i + 1]
          BY <2>1, <4>1, <5>1
        <5> QED BY <5>1, <5>2
      <4> QED BY <4>3, <4>4
    <3>2. CASE ~(Len(s) >= TimelineCap)
      <4>1. timeline' = Append(s, new)
        BY <2>1, <3>2
      <4>2. CASE i = Len(s) + 1
        BY <2>1, <4>1, <4>2
      <4>3. CASE i # Len(s) + 1
        BY <2>1, <2>3, <4>1, <4>3
      <4> QED BY <4>2, <4>3
    <3> QED BY <3>1, <3>2
  <2>4. nextCursor \in nextCursor..(nextCursor' - 1) /\ nextCursor' >= nextCursor
    BY <2>1
  <2> QED BY <2>2, <2>3, <2>4 DEF CursorStep
<1> QED BY <1>2, <1>3 DEF HandleIncomingComment, e

LEMMA StepKeepsCursors ==
    ASSUME IngestTypeOK, [IngestNext]_vars
    PROVE  CursorStep
<1>1. CASE HandleIncomingComment
  BY <1>1, HandlerKeepsCursors
<1>2. CASE UNCHANGED <<timeline, nextCursor>>
  BY <1>2, NoCursorGiven
<1>3. CASE HandleConnection
  <2>1. CASE ClearStream
    BY <2>1, NoCursorGiven DEF ClearStream
  <2>2. CASE ~ClearStream
    BY <1>2, <1>3, <2>2 DEF HandleConnection, sessionVars
  <2> QED BY <2>1, <2>2
<1>4. CASE HandleCommentDeleted \/ HandleOwner
  BY <1>2, <1>4 DEF HandleCommentDeleted, HandleOwner, ingestVars, sessionVars
<1>5. CASE ElectronStep
  BY <1>2, <1>5 DEF ElectronStep, ingestVars, sessionVars
<1>6. CASE Scraper
  BY <1>2, <1>6 DEF Scraper, PushComments, PushInnertube, PushDeleted, sessionVars
<1>7. CASE AuxWorker
  BY <1>2, <1>7
  DEF AuxWorker, AuxTakeJson, AuxParseInnertube, AuxWriteback, AuxPrepareError, sessionVars
<1>8. CASE RecordWorker \/ UNCHANGED vars
  BY <1>2, <1>8 DEF RecordWorker, RecordComment, RecordBusy, vars, ingestVars, sessionVars
<1> QED BY <1>1, <1>3, <1>4, <1>5, <1>6, <1>7, <1>8 DEF IngestNext, HandleCommand

(* CommentTimeline::push never hands out a cursor again, also across a change  *)
(* of stream, and no refresh moves a comment to another cursor: a reader that  *)
(* asks for what is after its cursor is not answered with an old comment.     *)
THEOREM CursorsAreFresh == IngestSpec => CursorsNeverReused
<1>1. IngestTypeOK /\ [IngestNext]_vars => [CursorStep]_vars
  BY StepKeepsCursors
<1> QED BY <1>1, IngestTypeCorrect, PTL DEF IngestSpec, CursorsNeverReused
=============================================================================
