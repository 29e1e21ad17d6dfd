------------------------------ MODULE HubStream ------------------------------
(***************************************************************************)
(* What the hub promises about the stream it is attached to, without        *)
(* channels, windows or late answers: it is attached to at most one video,  *)
(* it either does not know the owner of that video or knows the right one,  *)
(* it forgets the owner only by leaving the video, and it shows a stream as *)
(* the user's own exactly when the known owner is among the channels the    *)
(* user declared.                                                          *)
(***************************************************************************)
CONSTANTS Videos, Channels, OwnerOf, NoVideo, NoOwner

VARIABLES video, owner, own, isOwn

hubVars == <<video, owner, own, isOwn>>

\* The flag follows from the owner and the declared channels.
Derived(o, channels) == o # NoOwner /\ o \in channels

HubInit ==
    /\ video = NoVideo
    /\ owner = NoOwner
    /\ own \in SUBSET Channels
    /\ isOwn = FALSE

\* The hub attaches to another video, or to none; it may already know the owner.
Attach(v) ==
    /\ v # video
    /\ video' = v
    /\ owner' \in {NoOwner} \cup {OwnerOf[w] : w \in Videos \cap {v}}
    /\ own' = own
    /\ isOwn' = Derived(owner', own)

\* It learns who owns the video.
Learn ==
    /\ video \in Videos /\ owner = NoOwner
    /\ owner' = OwnerOf[video]
    /\ isOwn' = Derived(owner', own)
    /\ UNCHANGED <<video, own>>

\* The user declares his channels.
Declare(channels) ==
    /\ own' = channels
    /\ isOwn' = Derived(owner, channels)
    /\ UNCHANGED <<video, owner>>

HubNext ==
    \/ \E v \in Videos \cup {NoVideo} : Attach(v)
    \/ Learn
    \/ \E channels \in SUBSET Channels : Declare(channels)

HubSpec == HubInit /\ [][HubNext]_hubVars
=============================================================================
