--------------------------- MODULE MCCommentIngest ---------------------------
(* Instances of CommentIngest: two comments of one listener, on two streams of *)
(* the user's, or on an own and a guest stream.                             *)
EXTENDS CommentIngest, TLC

CONSTANTS v1, v2, own, guest, c1, c2, u1, t1, t2

OneOwner == v1 :> own
BothOwn == (v1 :> own) @@ (v2 :> own)
OwnAndGuest == (v1 :> own) @@ (v2 :> guest)
NoSaves == {}
SaveNothing == {{}}
MCAuthor == (c1 :> u1) @@ (c2 :> u1)
MCOrigin == (c1 :> v1) @@ (c2 :> v1)
=============================================================================
