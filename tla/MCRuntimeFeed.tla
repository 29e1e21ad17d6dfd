---------------------------- MODULE MCRuntimeFeed ----------------------------
(***************************************************************************)
(* Instances of RuntimeFeed: up to four comments, one of a hidden author,  *)
(* one stream and the state of being in none.                              *)
(***************************************************************************)
EXTENDS RuntimeFeed, TLC

CONSTANTS i1, i2, i3, i4, fan, troll, s1, none, nobody

FourIds == {i1, i2, i3, i4}
TwoIds == {i1, i2}
MCAuthors == {fan, troll}
MCAuthorOf == [i \in Ids |-> IF i = i2 THEN troll ELSE fan]
MCHidden == {troll}
MCStreams == {s1}

\* The comments of the same author may be exchanged.
SameAuthor == Permutations({i1, i3, i4})
=============================================================================
