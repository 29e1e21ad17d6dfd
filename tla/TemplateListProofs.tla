-------------------------- MODULE TemplateListProofs --------------------------
(***************************************************************************)
(* Proofs about TemplateList, for any stream, limit and number of breaks.    *)
(* That no card is left over and that the list is in order is not inductive: *)
(* the invariant says besides that the hub keeps a comment once, that no     *)
(* comment reaches a page before it has subscribed, and, until the hub has   *)
(* forgotten its comments, that what is on its way is newer than what the    *)
(* page has.                                                                 *)
(***************************************************************************)
EXTENDS TemplateList, SequenceTheorems, TLAPS

Increasing(s) == \A i, j \in DOMAIN s : i < j => s[i] < s[j]
CommentsAt(i) == i \in DOMAIN inbox /\ inbox[i].kind = "comments"

\* The hub keeps a comment once: stored, or about to be sent again.
HubOnce ==
    /\ IsInjective(stored) /\ IsInjective(resend)
    /\ ToSet(stored) \cap ToSet(resend) = {}
    /\ ToSet(stored) \subseteq 1..last /\ ToSet(resend) \subseteq 1..last
    /\ forgets = 0 => Increasing(stored) /\ resend = <<>>

ReplyOnce ==
    /\ IsInjective(reply) /\ ToSet(reply) \subseteq 1..last
    /\ forgets = 0 => Increasing(reply)

\* A page that has not subscribed has no comments on their way.
WireOnce ==
    /\ \A i : CommentsAt(i) => IsInjective(inbox[i].ids) /\ ToSet(inbox[i].ids) \subseteq 1..last
    /\ conn # "open" => \A i : ~CommentsAt(i)

\* What is on its way is newer than what the page has.
WireInOrder ==
    forgets = 0 => \A i : CommentsAt(i) =>
        /\ Increasing(inbox[i].ids)
        /\ \A c \in ToSet(inbox[i].ids), d \in Shown : d < c
        /\ \A j : i < j /\ CommentsAt(j) =>
             \A c \in ToSet(inbox[i].ids), d \in ToSet(inbox[j].ids) : c < d

\* The list holds entries that have not been pushed out, and none before the
\* page has subscribed.
PageApart ==
    /\ ToSet(ordered) \subseteq Shown /\ ToSet(ordered) \cap pushedOut = {}
    /\ Shown \subseteq 1..last
    /\ ~ever => conn # "open" /\ Shown = {}

ListInv == /\ ListTypeOK /\ CardsAccounted /\ ListInOrder
           /\ HubOnce /\ ReplyOnce /\ WireOnce /\ WireInOrder /\ PageApart

-----------------------------------------------------------------------------
(* The types, in parts.                                                      *)

Msgs == [kind : {"comments", "deleted", "config"}, ids : Seq(Comments), shown : BOOLEAN]
Phases == {"none", "entering", "active", "leaving"}

HubTypes ==
    /\ stored \in Seq(Comments) /\ last \in 0..MaxSent /\ deleted \subseteq Comments
    /\ resend \in Seq(Comments) /\ visible \in BOOLEAN
BoundTypes == upsets \in 0..MaxUpsets /\ forgets \in 0..upsets
WireTypes ==
    /\ conn \in {"off", "config", "recent", "open"} /\ reply \in Seq(Comments)
    /\ inbox \in Seq(Msgs)
PageTypes ==
    /\ ever \in BOOLEAN /\ hidden \in BOOLEAN
    /\ phase \in [Comments -> Phases]
    /\ ordered \in Seq(Comments) /\ dirty \subseteq Shown
    /\ rendering \in BOOLEAN /\ activation \in BOOLEAN
    /\ arming \subseteq Shown /\ removing \subseteq Shown /\ pushedOut \subseteq Shown
    /\ again \subseteq Comments /\ retracted \subseteq Comments

LEMMA TypesInParts ==
    ListTypeOK <=> HubTypes /\ BoundTypes /\ WireTypes /\ PageTypes
BY DEF ListTypeOK, HubTypes, BoundTypes, WireTypes, PageTypes, Msgs, Phases

\* The three sides of a step.
HubInv == HubTypes /\ BoundTypes /\ HubOnce
WireInv == WireTypes /\ ReplyOnce /\ WireOnce /\ WireInOrder
PageInv == PageTypes /\ CardsAccounted /\ ListInOrder /\ PageApart

LEMMA InvInParts == ListInv <=> HubInv /\ WireInv /\ PageInv
BY TypesInParts, Zenon DEF ListInv, HubInv, WireInv, PageInv

LEMMA PartsToInv == HubInv' /\ WireInv' /\ PageInv' => ListInv'
<1>1. HubTypes' /\ BoundTypes' /\ WireTypes' /\ PageTypes' => ListTypeOK'
  BY DEF ListTypeOK, HubTypes, BoundTypes, WireTypes, PageTypes, Msgs, Phases
<1> QED BY <1>1, Zenon DEF ListInv, HubInv, WireInv, PageInv

-----------------------------------------------------------------------------
(* Sequences with something left out.                                        *)

Thinned(t, s) ==
    /\ ToSet(t) \subseteq ToSet(s)
    /\ \A i, j \in DOMAIN t : i < j =>
         \E k, l \in DOMAIN s : k < l /\ t[i] = s[k] /\ t[j] = s[l]

LEMMA ThinnedKeeps ==
    ASSUME NEW s \in Seq(Comments), NEW t \in Seq(Comments), Thinned(t, s)
    PROVE  /\ IsInjective(s) => IsInjective(t)
           /\ Increasing(s) => Increasing(t)
<1>1. DOMAIN s = 1..Len(s) /\ DOMAIN t = 1..Len(t) /\ Len(s) \in Nat /\ Len(t) \in Nat
  OBVIOUS
<1>2. ASSUME IsInjective(s), NEW i \in DOMAIN t, NEW j \in DOMAIN t, i < j
      PROVE  t[i] # t[j]
  <2>1. PICK k, l \in DOMAIN s : k < l /\ t[i] = s[k] /\ t[j] = s[l]
    BY <1>2 DEF Thinned
  <2>2. k # l
    BY <1>1, <2>1, SMT
  <2> QED BY <1>2, <2>1, <2>2 DEF IsInjective
<1>3. ASSUME IsInjective(s) PROVE IsInjective(t)
  <2> SUFFICES ASSUME NEW i \in DOMAIN t, NEW j \in DOMAIN t, i # j PROVE t[i] # t[j]
    BY DEF IsInjective
  <2>1. i < j \/ j < i
    BY <1>1, SMT
  <2> QED BY <1>2, <1>3, <2>1
<1>4. ASSUME Increasing(s) PROVE Increasing(t)
  BY <1>4 DEF Thinned, Increasing
<1> QED BY <1>3, <1>4

(* What is left over keeps its order when the later part only moves down.    *)
LEMMA MovedThins ==
    ASSUME NEW s \in Seq(Comments), NEW t \in Seq(Comments), NEW k \in Nat, NEW n \in Nat,
           \A i \in 1..Len(t) : /\ (IF i < k THEN i ELSE i + n) \in 1..Len(s)
                                /\ t[i] = s[IF i < k THEN i ELSE i + n]
    PROVE  Thinned(t, s)
<1>1. DOMAIN s = 1..Len(s) /\ DOMAIN t = 1..Len(t) /\ Len(s) \in Nat /\ Len(t) \in Nat
  OBVIOUS
<1>2. ToSet(t) \subseteq ToSet(s)
  BY <1>1 DEF ToSet
<1>3. ASSUME NEW i \in DOMAIN t, NEW j \in DOMAIN t, i < j
      PROVE  \E x, y \in DOMAIN s : x < y /\ t[i] = s[x] /\ t[j] = s[y]
  <2>1. PICK x \in 1..Len(s) : x = (IF i < k THEN i ELSE i + n) /\ t[i] = s[x]
    BY <1>1
  <2>2. PICK y \in 1..Len(s) : y = (IF j < k THEN j ELSE j + n) /\ t[j] = s[y]
    BY <1>1
  <2>3. x < y
    BY <1>1, <1>3, <2>1, <2>2, SMT
  <2> QED BY <1>1, <2>1, <2>2, <2>3
<1> QED BY <1>2, <1>3 DEF Thinned

LEMMA TailFacts ==
    ASSUME NEW S, NEW s \in Seq(S), s # <<>>
    PROVE  /\ Head(s) = s[1] /\ Head(s) \in S /\ Tail(s) \in Seq(S)
           /\ Len(s) \in Nat \ {0} /\ Len(Tail(s)) = Len(s) - 1
           /\ \A i \in 1..Len(s) - 1 : Tail(s)[i] = s[i + 1]
BY HeadTailProperties, SMT

LEMMA TailThins ==
    ASSUME NEW s \in Seq(Comments), s # <<>>
    PROVE  /\ Thinned(Tail(s), s)
           /\ IsInjective(s) => Head(s) \notin ToSet(Tail(s))
<1>1. /\ Head(s) = s[1] /\ Tail(s) \in Seq(Comments)
      /\ Len(s) \in Nat \ {0} /\ Len(Tail(s)) = Len(s) - 1
      /\ \A i \in 1..Len(s) - 1 : Tail(s)[i] = s[i + 1]
  BY TailFacts
<1>2. DOMAIN Tail(s) = 1..Len(s) - 1 /\ DOMAIN s = 1..Len(s)
  BY <1>1
<1>3. \A i \in 1..Len(s) - 1 : i + 1 \in 1..Len(s) /\ 1 \in 1..Len(s) /\ i + 1 # 1 /\ ~(i < 0)
  BY <1>1, SMT
<1>4. Thinned(Tail(s), s)
  BY <1>1, <1>3, MovedThins
<1>5. ASSUME IsInjective(s), NEW i \in 1..Len(s) - 1 PROVE Tail(s)[i] # Head(s)
  BY <1>1, <1>2, <1>3, <1>5 DEF IsInjective
<1> QED BY <1>2, <1>4, <1>5 DEF ToSet

(* Removing one element moves the later ones down.                           *)
LEMMA RemoveAtFacts ==
    ASSUME NEW S, NEW s \in Seq(S), NEW k \in 1..Len(s)
    PROVE  /\ RemoveAt(s, k) \in Seq(S) /\ Len(RemoveAt(s, k)) = Len(s) - 1
           /\ \A i \in 1..(Len(s) - 1) : RemoveAt(s, k)[i] = s[IF i < k THEN i ELSE i + 1]
<1> DEFINE a == SubSeq(s, 1, k - 1)
           b == SubSeq(s, k + 1, Len(s))
<1>1. Len(s) \in Nat /\ k \in Nat /\ 1 =< k /\ k =< Len(s)
      /\ \A i \in 1..Len(s) : s[i] \in S
  OBVIOUS
<1>2. /\ a \in Seq(S) /\ Len(a) = k - 1
      /\ \A i \in 1..(k - 1) : a[i] = s[i]
  BY <1>1
<1>3. /\ b \in Seq(S)
      /\ Len(b) = IF k + 1 <= Len(s) THEN Len(s) - (k + 1) + 1 ELSE 0
      /\ \A i \in 1..(Len(s) - (k + 1) + 1) : b[i] = s[(k + 1) + i - 1]
  BY <1>1, SubSeqProperties
<1>4. RemoveAt(s, k) = a \o b
  BY DEF RemoveAt
<1> HIDE DEF a, b
<1>5. Len(b) = Len(s) - k
  BY <1>1, <1>3, SMT
<1>6. /\ a \o b \in Seq(S) /\ Len(a \o b) = Len(a) + Len(b)
      /\ \A i \in 1..(Len(a) + Len(b)) : (a \o b)[i] = IF i <= Len(a) THEN a[i] ELSE b[i - Len(a)]
  <2>1. a \in Seq(S) /\ b \in Seq(S)
    BY <1>2, <1>3
  <2> QED BY <2>1, ConcatProperties
<1>7. Len(a) + Len(b) = Len(s) - 1
  BY <1>1, <1>2, <1>5
<1>8. ASSUME NEW i \in 1..(Len(s) - 1)
      PROVE  (a \o b)[i] = s[IF i < k THEN i ELSE i + 1]
  <2>1. CASE i < k
    BY <1>1, <1>2, <1>6, <1>7, <2>1
  <2>2. CASE ~(i < k)
    <3>1. /\ (a \o b)[i] = b[i - Len(a)]
          /\ i - Len(a) \in 1..(Len(s) - (k + 1) + 1)
          /\ (k + 1) + (i - Len(a)) - 1 = i + 1
      BY <1>1, <1>2, <1>6, <1>7, <2>2
    <3>2. b[i - Len(a)] = s[(k + 1) + (i - Len(a)) - 1]
      BY <1>3, <3>1, Zenon
    <3> QED BY <2>2, <3>1, <3>2
  <2> QED BY <2>1, <2>2
<1> QED BY <1>4, <1>6, <1>7, <1>8

(* A comment taken out of a sequence, and only this one.                     *)
LEMMA WithoutFacts ==
    ASSUME NEW s \in Seq(Comments), IsInjective(s), NEW c
    PROVE  /\ Without(s, c) \in Seq(Comments) /\ Thinned(Without(s, c), s)
           /\ ToSet(Without(s, c)) = ToSet(s) \ {c} /\ Len(Without(s, c)) =< Len(s)
<1>0. DOMAIN s = 1..Len(s) /\ Len(s) \in Nat
  OBVIOUS
<1>1. CASE c \notin ToSet(s)
  <2>1. Without(s, c) = s
    BY <1>1 DEF Without
  <2>2. Thinned(s, s)
    BY DEF Thinned
  <2> QED BY <1>0, <1>1, <2>1, <2>2
<1>2. CASE c \in ToSet(s)
  <2>1. PICK k \in 1..Len(s) : s[k] = c /\ Without(s, c) = RemoveAt(s, k)
    <3>1. \E i \in DOMAIN s : s[i] = c
      BY <1>2 DEF ToSet
    <3>2. (CHOOSE i \in DOMAIN s : s[i] = c) \in DOMAIN s /\ s[CHOOSE i \in DOMAIN s : s[i] = c] = c
      BY <3>1
    <3> QED BY <1>0, <1>2, <3>2 DEF Without
  <2> DEFINE t == RemoveAt(s, k)
  <2>2. /\ t \in Seq(Comments) /\ Len(t) = Len(s) - 1
        /\ \A i \in 1..Len(s) - 1 : t[i] = s[IF i < k THEN i ELSE i + 1]
    BY RemoveAtFacts
  <2> HIDE DEF t
  <2>3. \A i \in 1..Len(s) - 1 : /\ (IF i < k THEN i ELSE i + 1) \in 1..Len(s)
                                 /\ (IF i < k THEN i ELSE i + 1) # k
    BY <1>0, SMT
  <2>4. Thinned(t, s)
    <3>1. 1 \in Nat /\ k \in Nat
      BY <1>0
    <3>2. \A i \in 1..Len(t) : /\ (IF i < k THEN i ELSE i + 1) \in 1..Len(s)
                               /\ t[i] = s[IF i < k THEN i ELSE i + 1]
      BY <2>2, <2>3
    <3> QED BY <2>2, <3>1, <3>2, MovedThins
  <2>5. DOMAIN t = 1..Len(s) - 1
    BY <2>2
  <2>6. ASSUME NEW x \in ToSet(t) PROVE x \in ToSet(s) \ {c}
    <3>1. PICK i \in 1..Len(s) - 1 : x = t[i]
      BY <2>5, <2>6 DEF ToSet
    <3>2. PICK j \in 1..Len(s) : j # k /\ x = s[j]
      BY <2>2, <2>3, <3>1
    <3>3. s[j] # s[k]
      BY <1>0, <3>2 DEF IsInjective
    <3> QED BY <1>0, <2>1, <3>2, <3>3 DEF ToSet
  <2>7. ASSUME NEW x \in ToSet(s) \ {c} PROVE x \in ToSet(t)
    <3>1. PICK j \in 1..Len(s) : x = s[j]
      BY <1>0, <2>7 DEF ToSet
    <3>2. j # k
      BY <2>1, <2>7, <3>1
    <3>3. CASE j < k
      <4>1. j \in 1..Len(s) - 1 /\ t[j] = s[j]
        BY <1>0, <2>2, <3>3
      <4> QED BY <2>5, <3>1, <4>1 DEF ToSet
    <3>4. CASE ~(j < k)
      <4>1. j - 1 \in 1..Len(s) - 1 /\ ~(j - 1 < k) /\ j - 1 + 1 = j
        BY <1>0, <3>2, <3>4, SMT
      <4>2. t[j - 1] = s[j]
        BY <2>2, <4>1
      <4> QED BY <2>5, <3>1, <4>1, <4>2 DEF ToSet
    <3> QED BY <3>3, <3>4
  <2>8. Len(t) =< Len(s)
    BY <1>0, <2>2, SMT
  <2> QED BY <2>1, <2>2, <2>4, <2>6, <2>7, <2>8 DEF t
<1> QED BY <1>1, <1>2

(* The end of a sequence.                                                    *)
LEMMA SuffixFacts ==
    ASSUME NEW s \in Seq(Comments), NEW n \in 0..Len(s), NEW t, t = SubSeq(s, n + 1, Len(s))
    PROVE  /\ t \in Seq(Comments) /\ Len(t) = Len(s) - n /\ Thinned(t, s)
           /\ \A i \in 1..Len(s) - n : t[i] = s[i + n]
<1>1. Len(s) \in Nat /\ n + 1 \in Nat \ {0} /\ \A i \in 1..Len(s) : s[i] \in Comments
  OBVIOUS
<1>2. /\ t \in Seq(Comments)
      /\ Len(t) = IF n + 1 <= Len(s) THEN Len(s) - (n + 1) + 1 ELSE 0
      /\ \A i \in 1..(Len(s) - (n + 1) + 1) : t[i] = s[(n + 1) + i - 1]
  BY <1>1, SubSeqProperties
<1>3. Len(t) = Len(s) - n
  BY <1>1, <1>2, SMT
<1>4. ASSUME NEW i \in 1..Len(s) - n PROVE i + n \in 1..Len(s) /\ t[i] = s[i + n]
  <2>1. i \in 1..(Len(s) - (n + 1) + 1) /\ (n + 1) + i - 1 = i + n /\ i + n \in 1..Len(s)
    BY <1>1, SMT
  <2>2. t[i] = s[(n + 1) + i - 1]
    BY <1>2, <2>1, Zenon
  <2> QED BY <2>1, <2>2
<1>5. Thinned(t, s)
  <2>1. \A i \in 1..Len(t) : (IF i < 0 THEN i ELSE i + n) = i + n
    BY <1>3, SMT
  <2>2. \A i \in 1..Len(t) : /\ (IF i < 0 THEN i ELSE i + n) \in 1..Len(s)
                             /\ t[i] = s[IF i < 0 THEN i ELSE i + n]
    BY <1>3, <1>4, <2>1
  <2>3. 0 \in Nat /\ n \in Nat
    OBVIOUS
  <2> QED BY <1>2, <2>2, <2>3, MovedThins
<1> QED BY <1>2, <1>3, <1>4, <1>5

LEMMA NewestThins ==
    ASSUME NEW s \in Seq(Comments)
    PROVE  Newest(s, MaxComments) \in Seq(Comments) /\ Thinned(Newest(s, MaxComments), s)
<1>1. CASE Len(s) =< MaxComments
  BY <1>1 DEF Newest, Thinned
<1>2. CASE ~(Len(s) =< MaxComments)
  <2>1. /\ Len(s) - MaxComments \in 0..Len(s)
        /\ Newest(s, MaxComments) = SubSeq(s, Len(s) - MaxComments + 1, Len(s))
    BY <1>2, ListAssumption, SMT DEF Newest
  <2> QED BY <2>1, SuffixFacts
<1> QED BY <1>1, <1>2

(* What a message adds to the list.                                          *)
LEMMA InOrderFacts ==
    ASSUME NEW s \in Seq(Comments), NEW S, S \subseteq ToSet(s), NEW t \in InOrderOf(s, S)
    PROVE  t \in Seq(Comments) /\ Thinned(t, s) /\ ToSet(t) = S
<1>1. DOMAIN s = 1..Len(s) /\ Len(s) \in Nat /\ \A i \in DOMAIN s : s[i] \in Comments
  OBVIOUS
<1>2. S \subseteq Comments
  BY <1>1 DEF ToSet
<1>3. PICK n \in 0..Len(s) : t \in [1..n -> S]
  BY DEF InOrderOf, SeqOf
<1>4. t \in Seq(Comments)
  BY <1>2, <1>3
<1> QED BY <1>4 DEF InOrderOf, Thinned

(* One sequence after another that shares nothing with it.                    *)
LEMMA ConcatFacts ==
    ASSUME NEW s \in Seq(Comments), NEW t \in Seq(Comments), ToSet(s) \cap ToSet(t) = {}
    PROVE  /\ s \o t \in Seq(Comments) /\ ToSet(s \o t) = ToSet(s) \cup ToSet(t)
           /\ Len(s \o t) = Len(s) + Len(t)
           /\ IsInjective(s) /\ IsInjective(t) => IsInjective(s \o t)
           /\ Increasing(s) /\ Increasing(t) /\ (\A x \in ToSet(s), y \in ToSet(t) : x < y)
                => Increasing(s \o t)
<1> DEFINE r == s \o t
<1>1. /\ r \in Seq(Comments) /\ Len(r) = Len(s) + Len(t)
      /\ \A i \in 1..Len(s) + Len(t) : r[i] = IF i =< Len(s) THEN s[i] ELSE t[i - Len(s)]
  BY ConcatProperties
<1>2. /\ DOMAIN s = 1..Len(s) /\ DOMAIN t = 1..Len(t) /\ DOMAIN r = 1..Len(s) + Len(t)
      /\ Len(s) \in Nat /\ Len(t) \in Nat
  BY <1>1
<1> HIDE DEF r
<1>3. ASSUME NEW i \in DOMAIN r
      PROVE  \/ i \in DOMAIN s /\ r[i] = s[i]
             \/ i - Len(s) \in DOMAIN t /\ r[i] = t[i - Len(s)] /\ i \notin DOMAIN s
  <2>1. (i =< Len(s) /\ i \in 1..Len(s)) \/ (~(i =< Len(s)) /\ i - Len(s) \in 1..Len(t) /\ i \notin 1..Len(s))
    BY <1>2, SMT
  <2>2. r[i] = IF i =< Len(s) THEN s[i] ELSE t[i - Len(s)]
    BY <1>1, <1>2
  <2> QED BY <1>2, <2>1, <2>2
<1>4. ASSUME NEW i \in DOMAIN s PROVE i \in DOMAIN r /\ r[i] = s[i]
  <2>1. i \in 1..Len(s) + Len(t) /\ i =< Len(s)
    BY <1>2, SMT
  <2> QED BY <1>1, <1>2, <2>1
<1>5. ASSUME NEW i \in DOMAIN t PROVE Len(s) + i \in DOMAIN r /\ r[Len(s) + i] = t[i]
  <2>1. Len(s) + i \in 1..Len(s) + Len(t) /\ ~(Len(s) + i =< Len(s)) /\ Len(s) + i - Len(s) = i
    BY <1>2, SMT
  <2>2. r[Len(s) + i] = t[Len(s) + i - Len(s)]
    BY <1>1, <2>1
  <2> QED BY <1>2, <2>1, <2>2
<1>6. ToSet(r) = ToSet(s) \cup ToSet(t)
  BY <1>3, <1>4, <1>5 DEF ToSet
<1>7. \A i \in DOMAIN r : i \in Int
  BY <1>2
<1>8. \A i \in DOMAIN s, j \in DOMAIN t : s[i] # t[j] /\ s[i] \in ToSet(s) /\ t[j] \in ToSet(t)
  BY DEF ToSet
<1>9. ASSUME IsInjective(s), IsInjective(t) PROVE IsInjective(r)
  <2> SUFFICES ASSUME NEW i \in DOMAIN r, NEW j \in DOMAIN r, r[i] = r[j] PROVE i = j
    BY DEF IsInjective
  <2>1. CASE i \in DOMAIN s /\ r[i] = s[i]
    <3>1. j \in DOMAIN s /\ r[j] = s[j]
      BY <1>3, <1>8, <2>1
    <3> QED BY <1>9, <2>1, <3>1 DEF IsInjective
  <2>2. CASE i - Len(s) \in DOMAIN t /\ r[i] = t[i - Len(s)]
    <3>1. j - Len(s) \in DOMAIN t /\ r[j] = t[j - Len(s)]
      BY <1>3, <1>8, <2>2
    <3>2. i - Len(s) = j - Len(s)
      BY <1>9, <2>2, <3>1 DEF IsInjective
    <3> QED BY <1>2, <1>7, <3>2, SMT
  <2> QED BY <1>3, <2>1, <2>2
<1>10. ASSUME Increasing(s), Increasing(t), \A x \in ToSet(s), y \in ToSet(t) : x < y
       PROVE  Increasing(r)
  <2> SUFFICES ASSUME NEW i \in DOMAIN r, NEW j \in DOMAIN r, i < j PROVE r[i] < r[j]
    BY DEF Increasing
  <2>1. CASE i \in DOMAIN s /\ r[i] = s[i]
    <3>1. CASE j \in DOMAIN s /\ r[j] = s[j]
      BY <1>10, <2>1, <3>1 DEF Increasing
    <3>2. CASE j - Len(s) \in DOMAIN t /\ r[j] = t[j - Len(s)]
      BY <1>8, <1>10, <2>1, <3>2
    <3> QED BY <1>3, <3>1, <3>2
  <2>2. CASE i - Len(s) \in DOMAIN t /\ r[i] = t[i - Len(s)] /\ i \notin DOMAIN s
    <3>1. j \notin DOMAIN s /\ i - Len(s) < j - Len(s)
      BY <1>2, <1>7, <2>2, SMT
    <3>2. j - Len(s) \in DOMAIN t /\ r[j] = t[j - Len(s)]
      BY <1>3, <3>1
    <3> QED BY <1>10, <2>2, <3>1, <3>2 DEF Increasing
  <2> QED BY <1>3, <2>1, <2>2
<1> QED BY <1>1, <1>6, <1>9, <1>10 DEF r

LEMMA OneFacts ==
    ASSUME NEW c \in Comments
    PROVE  /\ <<c>> \in Seq(Comments) /\ ToSet(<<c>>) = {c}
           /\ IsInjective(<<c>>) /\ Increasing(<<c>>)
<1>1. <<c>> \in Seq(Comments) /\ DOMAIN <<c>> = {1} /\ <<c>>[1] = c
  BY SMT
<1>2. \A i, j \in {1} : ~(i < j)
  BY SMT
<1> QED BY <1>1, <1>2 DEF ToSet, IsInjective, Increasing

LEMMA AppendFacts ==
    ASSUME NEW s \in Seq(Comments), NEW c \in Comments, c \notin ToSet(s)
    PROVE  /\ Append(s, c) \in Seq(Comments) /\ ToSet(Append(s, c)) = ToSet(s) \cup {c}
           /\ IsInjective(s) => IsInjective(Append(s, c))
           /\ Increasing(s) /\ (\A x \in ToSet(s) : x < c) => Increasing(Append(s, c))
<1>1. Append(s, c) = s \o <<c>>
  BY SMT
<1>2. /\ <<c>> \in Seq(Comments) /\ ToSet(<<c>>) = {c}
      /\ IsInjective(<<c>>) /\ Increasing(<<c>>)
  BY OneFacts
<1>3. ToSet(s) \cap ToSet(<<c>>) = {}
  BY <1>2
<1> DEFINE t == <<c>>
<1> HIDE DEF t
<1>4. /\ s \o t \in Seq(Comments) /\ ToSet(s \o t) = ToSet(s) \cup ToSet(t)
      /\ IsInjective(s) /\ IsInjective(t) => IsInjective(s \o t)
      /\ Increasing(s) /\ Increasing(t) /\ (\A x \in ToSet(s), y \in ToSet(t) : x < y)
           => Increasing(s \o t)
  BY <1>2, <1>3, ConcatFacts DEF t
<1> QED BY <1>1, <1>2, <1>4 DEF t

-----------------------------------------------------------------------------
(* The event stream.                                                         *)

(* What is on its way stays in order while the stream only grows and the      *)
(* page only loses entries.                                                   *)
LEMMA WireStays ==
    ASSUME WireInv, UNCHANGED wireVars, Shown' \subseteq Shown,
           1..last \subseteq 1..last', forgets' = 0 => forgets = 0
    PROVE  WireInv'
<1>1. conn' = conn /\ reply' = reply /\ inbox' = inbox
  BY DEF wireVars
<1>2. \A i : CommentsAt(i)' <=> CommentsAt(i)
  BY <1>1 DEF CommentsAt
<1>3. WireTypes' /\ ReplyOnce' /\ WireOnce'
  BY <1>1, <1>2, Zenon DEF WireInv, WireTypes, ReplyOnce, WireOnce, Increasing
<1>4. WireInOrder'
  BY <1>1, <1>2, Zenon DEF WireInv, WireInOrder, Increasing
<1> QED BY <1>3, <1>4 DEF WireInv

(* A broadcast: to an open stream one more message, newer than all before.    *)
LEMMA WireSends ==
    ASSUME WireInv, NEW m \in Msgs, Broadcast(m), conn' = conn, reply' = reply,
           Shown' = Shown, Shown \subseteq 1..last,
           last \in Nat, last' \in Nat, last =< last', forgets' = 0 => forgets = 0,
           m.kind = "comments" =>
             /\ IsInjective(m.ids) /\ ToSet(m.ids) \subseteq 1..last'
             /\ forgets' = 0 => Increasing(m.ids) /\ \A c \in ToSet(m.ids) : last < c
    PROVE  WireInv'
<1>0. 1..last \subseteq 1..last'
  BY SMT
<1>1. CASE conn # "open"
  <2>1. UNCHANGED wireVars
    BY <1>1, Zenon DEF Broadcast, wireVars
  <2> QED BY <1>0, <2>1, WireStays
<1>2. CASE conn = "open"
  <2>1. inbox' = Append(inbox, m) /\ inbox \in Seq(Msgs)
    BY <1>2 DEF Broadcast, WireInv, WireTypes
  <2>2. PICK n \in Nat : n = Len(inbox) + 1
    BY <2>1
  <2>3. /\ inbox' \in Seq(Msgs) /\ DOMAIN inbox' = 1..n /\ inbox'[n] = m
        /\ DOMAIN inbox = 1..n - 1 /\ \A i \in 1..n - 1 : inbox'[i] = inbox[i]
    BY <2>1, <2>2, SMT
  <2>4. ASSUME NEW i, CommentsAt(i)'
        PROVE  \/ CommentsAt(i) /\ inbox'[i] = inbox[i] /\ i < n
               \/ i = n /\ inbox'[i] = m /\ m.kind = "comments"
    <3>1. i \in 1..n /\ inbox'[i].kind = "comments"
      BY <2>3, <2>4 DEF CommentsAt
    <3>2. i = n \/ (i \in 1..n - 1 /\ i < n)
      BY <2>2, <3>1, SMT
    <3> QED BY <2>3, <3>1, <3>2 DEF CommentsAt
  <2>5. ASSUME NEW i, CommentsAt(i)
        PROVE  IsInjective(inbox[i].ids) /\ ToSet(inbox[i].ids) \subseteq 1..last
    BY <2>5 DEF WireInv, WireOnce
  <2>6. WireTypes' /\ ReplyOnce'
    BY <1>0, <2>3, Zenon DEF WireInv, WireTypes, ReplyOnce, Increasing
  <2>7. WireOnce'
    <3>1. ASSUME NEW i, CommentsAt(i)'
          PROVE  IsInjective(inbox'[i].ids) /\ ToSet(inbox'[i].ids) \subseteq 1..last'
      BY <1>0, <2>4, <2>5, <3>1, Zenon
    <3> QED BY <1>2, <3>1, Zenon DEF WireOnce
  <2>8. WireInOrder'
    <3> SUFFICES ASSUME forgets' = 0, NEW i, CommentsAt(i)'
        PROVE  /\ Increasing(inbox'[i].ids)
               /\ \A c \in ToSet(inbox'[i].ids), d \in Shown : d < c
               /\ \A j : i < j /\ CommentsAt(j)' =>
                    \A c \in ToSet(inbox'[i].ids), d \in ToSet(inbox'[j].ids) : c < d
      BY Zenon DEF WireInOrder, Increasing
    <3>1. ASSUME NEW x \in 1..last, NEW y \in ToSet(m.ids), m.kind = "comments" PROVE x < y
      <4>1. y \in 1..last' /\ last < y
        BY <3>1
      <4> QED BY <4>1, SMT
    <3>2. CASE i = n /\ m.kind = "comments" /\ inbox'[i] = m
      <4>1. ASSUME NEW j, n < j PROVE ~CommentsAt(j)'
        <5>1. CommentsAt(j)' => j \in 1..n
          BY <2>3 DEF CommentsAt
        <5> QED BY <2>2, <4>1, <5>1, SMT
      <4> QED BY <3>1, <3>2, <4>1
    <3>3. CASE CommentsAt(i) /\ inbox'[i] = inbox[i] /\ i < n
      <4>1. /\ Increasing(inbox[i].ids)
            /\ \A c \in ToSet(inbox[i].ids), d \in Shown : d < c
            /\ \A j : i < j /\ CommentsAt(j) =>
                 \A c \in ToSet(inbox[i].ids), d \in ToSet(inbox[j].ids) : c < d
        BY <3>3, Zenon DEF WireInv, WireInOrder
      <4>2. ASSUME NEW j, i < j, CommentsAt(j)', NEW c \in ToSet(inbox[i].ids),
                   NEW d \in ToSet(inbox'[j].ids)
            PROVE  c < d
        <5>1. CASE CommentsAt(j) /\ inbox'[j] = inbox[j]
          BY <4>1, <4>2, <5>1
        <5>2. CASE inbox'[j] = m /\ m.kind = "comments"
          BY <2>5, <3>1, <3>3, <4>2, <5>2
        <5> QED BY <2>4, <4>2, <5>1, <5>2
      <4> QED BY <3>3, <4>1, <4>2
    <3> QED BY <2>4, <3>2, <3>3
  <2> QED BY <2>6, <2>7, <2>8 DEF WireInv
<1> QED BY <1>1, <1>2

(* A message reaches the page, which then has what was in it.                 *)
LEMMA WireTakes ==
    ASSUME WireInv, inbox # <<>>, inbox' = Tail(inbox), conn' = conn, reply' = reply,
           last' = last, forgets' = forgets,
           Shown' \subseteq Shown \/ (CommentsAt(1) /\ Shown' \subseteq Shown \cup ToSet(inbox[1].ids))
    PROVE  WireInv'
<1>1. inbox \in Seq(Msgs)
  BY DEF WireInv, WireTypes
<1>2. /\ inbox' \in Seq(Msgs) /\ Len(inbox) \in Nat \ {0} /\ Len(inbox') = Len(inbox) - 1
      /\ \A i \in 1..Len(inbox) - 1 : inbox'[i] = inbox[i + 1]
  BY <1>1, TailFacts
<1>3. DOMAIN inbox = 1..Len(inbox) /\ DOMAIN inbox' = 1..Len(inbox) - 1
  BY <1>1, <1>2
<1>4. ASSUME NEW i, CommentsAt(i)'
      PROVE  i \in Nat /\ 1 < i + 1 /\ CommentsAt(i + 1) /\ inbox'[i] = inbox[i + 1]
  <2>1. i \in 1..Len(inbox) - 1 /\ inbox'[i].kind = "comments"
    BY <1>3, <1>4 DEF CommentsAt
  <2>2. i + 1 \in 1..Len(inbox) /\ i \in Nat /\ 1 < i + 1
    BY <1>2, <2>1, SMT
  <2> QED BY <1>2, <1>3, <2>1, <2>2 DEF CommentsAt
<1>5. WireTypes' /\ ReplyOnce'
  BY <1>2, Zenon DEF WireInv, WireTypes, ReplyOnce, Increasing
<1>6. WireOnce'
  <2>1. ASSUME NEW i, CommentsAt(i)'
        PROVE  /\ IsInjective(inbox'[i].ids) /\ ToSet(inbox'[i].ids) \subseteq 1..last
               /\ conn = "open"
    <3>1. CommentsAt(i + 1) /\ inbox'[i] = inbox[i + 1]
      BY <1>4, <2>1
    <3> QED BY <3>1, Zenon DEF WireInv, WireOnce
  <2> QED BY <2>1, Zenon DEF WireOnce
<1>7. WireInOrder'
  <2> SUFFICES ASSUME forgets = 0, NEW i, CommentsAt(i)'
      PROVE  /\ Increasing(inbox'[i].ids)
             /\ \A c \in ToSet(inbox'[i].ids), d \in Shown' : d < c
             /\ \A j : i < j /\ CommentsAt(j)' =>
                  \A c \in ToSet(inbox'[i].ids), d \in ToSet(inbox'[j].ids) : c < d
    BY Zenon DEF WireInOrder, Increasing
  <2>1. CommentsAt(i + 1) /\ inbox'[i] = inbox[i + 1] /\ 1 < i + 1 /\ i \in Nat
    BY <1>4
  <2>2. ASSUME NEW k, CommentsAt(k)
        PROVE  /\ Increasing(inbox[k].ids)
               /\ \A c \in ToSet(inbox[k].ids), d \in Shown : d < c
               /\ \A j : k < j /\ CommentsAt(j) =>
                    \A c \in ToSet(inbox[k].ids), d \in ToSet(inbox[j].ids) : c < d
    BY <2>2, Zenon DEF WireInv, WireInOrder
  <2>3. ASSUME NEW c \in ToSet(inbox'[i].ids), NEW d \in Shown' PROVE d < c
    BY <2>1, <2>2, <2>3
  <2>4. ASSUME NEW j, i < j, CommentsAt(j)', NEW c \in ToSet(inbox'[i].ids),
               NEW d \in ToSet(inbox'[j].ids)
        PROVE  c < d
    <3>1. CommentsAt(j + 1) /\ inbox'[j] = inbox[j + 1] /\ i + 1 < j + 1
      <4>1. j \in Nat /\ CommentsAt(j + 1) /\ inbox'[j] = inbox[j + 1]
        BY <1>4, <2>4
      <4>2. \A x, y \in Nat : x < y => x + 1 < y + 1
        BY SMT
      <4> QED BY <2>1, <2>4, <4>1, <4>2
    <3> QED BY <2>1, <2>2, <2>4, <3>1
  <2> QED BY <2>1, <2>2, <2>3, <2>4
<1> QED BY <1>5, <1>6, <1>7 DEF WireInv

(* No comments are on their way to a page that asks, or asks again.            *)
LEMMA WireBegins ==
    ASSUME conn' \in {"off", "config", "recent", "open"}, reply' \in Seq(Comments),
           inbox' \in Seq(Msgs), ReplyOnce',
           \A i \in DOMAIN inbox' : inbox'[i].kind # "comments"
    PROVE  WireInv'
<1>1. \A i : ~CommentsAt(i)'
  BY DEF CommentsAt
<1> QED BY <1>1, Zenon DEF WireInv, WireTypes, WireOnce, WireInOrder

-----------------------------------------------------------------------------
(* A page that a step leaves alone.                                           *)
LEMMA PageStays ==
    ASSUME PageInv, UNCHANGED <<hidden, cardVars, listHist>>, 1..last \subseteq 1..last',
           forgets' = 0 => forgets = 0, ever' \in BOOLEAN, ever => ever',
           ever' \/ conn' # "open"
    PROVE  PageInv' /\ Shown' = Shown
<1>1. UNCHANGED <<hidden, phase, ordered, dirty, rendering, activation, arming,
                  removing, pushedOut, again, retracted>>
  BY DEF cardVars, listHist
<1>2. Shown' = Shown
  BY <1>1 DEF Shown
<1>3. PageTypes' /\ CardsAccounted'
  BY <1>1, <1>2, Zenon DEF PageInv, PageTypes, CardsAccounted
<1>4. ListInOrder'
  BY <1>1, Zenon DEF PageInv, ListInOrder
<1>5. PageApart'
  BY <1>1, <1>2, Zenon DEF PageInv, PageApart
<1> QED BY <1>2, <1>3, <1>4, <1>5 DEF PageInv

(* A page that starts from nothing, or was cleared.                           *)
LEMMA PageEmpty ==
    ASSUME PageTypes, phase' = [c \in Comments |-> "none"], ordered' = <<>>, dirty' = {},
           arming' = {}, removing' = {}, pushedOut' = {}, again' = {}, retracted' = {},
           ever' \in BOOLEAN, hidden' \in BOOLEAN, rendering' \in BOOLEAN, activation' \in BOOLEAN,
           ever' \/ conn' # "open"
    PROVE  PageInv' /\ Shown' = {}
<1>1. Shown' = {}
  BY DEF Shown
<1>2. /\ ordered' \in Seq(Comments) /\ Len(ordered') = 0 /\ DOMAIN ordered' = {}
      /\ ToSet(ordered') = {} /\ 0 =< MaxComments
  BY ListAssumption, SMT DEF ToSet
<1>3. PageTypes'
  BY <1>1, <1>2 DEF PageTypes, Phases
<1>4. CardsAccounted' /\ PageApart'
  BY <1>1, <1>2 DEF CardsAccounted, PageApart
<1>5. ListInOrder'
  BY <1>2 DEF ListInOrder, IsInjective
<1> QED BY <1>1, <1>3, <1>4, <1>5 DEF PageInv

-----------------------------------------------------------------------------
(* The steps of the hub.                                                     *)

LEMMA HubRange ==
    ASSUME HubInv
    PROVE  last \in Nat /\ last =< MaxSent /\ 1..last \subseteq Comments
BY ListAssumption, SMT DEF HubInv, HubTypes, Comments

\* The side of the page in a step of the hub.
LEMMA HubLeavesPage ==
    ASSUME PageInv, UNCHANGED <<pageVars, listHist, conn>>, last \in Nat, last' \in Nat,
           last =< last', forgets' = 0 => forgets = 0
    PROVE  PageInv' /\ Shown' = Shown
<1>1. 1..last \subseteq 1..last'
  BY SMT
<1>2. ever \/ conn' # "open"
  BY DEF PageInv, PageApart
<1>3. UNCHANGED <<hidden, cardVars, listHist>> /\ ever' = ever
  BY DEF pageVars
<1>4. ever \in BOOLEAN
  BY DEF PageInv, PageTypes
<1> QED BY <1>1, <1>2, <1>3, <1>4, PageStays

LEMMA CommentStep ==
    ASSUME ListInv, Comment
    PROVE  ListInv'
<1>1. HubInv /\ WireInv /\ PageInv
  BY InvInParts
<1> DEFINE c == last + 1
<1>2. /\ last' = c /\ stored' = Append(stored, c) /\ resend = <<>> /\ last < MaxSent
      /\ Broadcast(CommentsMsg(<<c>>)) /\ resend' = resend
      /\ UNCHANGED <<deleted, visible, conn, reply, upsets, forgets>>
      /\ UNCHANGED <<pageVars, listHist, conn>>
  BY DEF Comment, boundVars
<1>3. /\ last \in Nat /\ c \in Comments /\ c \notin 1..last /\ last =< c /\ c \in 0..MaxSent
      /\ 1..c = 1..last \cup {c} /\ \A x \in 1..last : x < c
  BY <1>1, <1>2, HubRange, ListAssumption, SMT DEF Comments
<1> HIDE DEF c
<1>4. c \in Nat /\ last < c
  BY <1>3, SMT DEF c
<1>5. stored \in Seq(Comments) /\ ToSet(stored) \subseteq 1..last
  BY <1>1 DEF HubInv, HubTypes, HubOnce
<1>6. /\ stored' \in Seq(Comments) /\ ToSet(stored') = ToSet(stored) \cup {c}
      /\ IsInjective(stored) => IsInjective(stored')
      /\ Increasing(stored) => Increasing(stored')
  <2>1. c \notin ToSet(stored) /\ \A x \in ToSet(stored) : x < c
    BY <1>3, <1>5
  <2> QED BY <1>2, <1>3, <1>5, <2>1, AppendFacts
<1>7. HubInv'
  <2>1. HubTypes' /\ BoundTypes'
    BY <1>1, <1>2, <1>3, <1>6 DEF HubInv, HubTypes, BoundTypes
  <2>2. ToSet(resend) = {}
    BY <1>2 DEF ToSet
  <2>3. HubOnce'
    BY <1>1, <1>2, <1>3, <1>5, <1>6, <2>2, Zenon DEF HubInv, HubOnce, Increasing
  <2> QED BY <2>1, <2>3 DEF HubInv
<1>8. PageInv' /\ Shown' = Shown
  BY <1>1, <1>2, <1>3, <1>4, HubLeavesPage
<1> DEFINE m == CommentsMsg(<<c>>)
<1>9. m \in Msgs /\ m.ids = <<c>>
  <2>1. <<c>> \in Seq(Comments)
    BY <1>3
  <2> QED BY <2>1 DEF CommentsMsg, Message, Msgs
<1>10. /\ IsInjective(m.ids) /\ ToSet(m.ids) \subseteq 1..last' /\ Increasing(m.ids)
       /\ \A x \in ToSet(m.ids) : last < x
  BY <1>2, <1>3, <1>4, <1>9, OneFacts
<1> HIDE DEF m
<1>11. Shown \subseteq 1..last
  BY <1>1 DEF PageInv, PageApart
<1>12. Broadcast(m)
  BY <1>2 DEF m
<1>13. WireInv'
  <2>1. last \in Nat /\ last' \in Nat /\ last =< last'
    BY <1>2, <1>3, <1>4
  <2>2. conn' = conn /\ reply' = reply /\ (forgets' = 0 => forgets = 0) /\ WireInv
    BY <1>1, <1>2
  <2>3. /\ IsInjective(m.ids) /\ ToSet(m.ids) \subseteq 1..last'
        /\ forgets' = 0 => Increasing(m.ids) /\ \A x \in ToSet(m.ids) : last < x
    BY <1>10
  <2>4. m \in Msgs
    BY <1>9
  <2> QED BY <1>8, <1>11, <1>12, <2>1, <2>2, <2>3, <2>4, WireSends, Zenon
<1> QED BY <1>7, <1>8, <1>13, PartsToInv

(* A message that brings no comments.                                        *)
LEMMA OtherMessage ==
    ASSUME ListInv, NEW m \in Msgs, m.kind # "comments", Broadcast(m),
           UNCHANGED <<conn, reply, last, forgets>>, UNCHANGED <<pageVars, listHist, conn>>
    PROVE  WireInv' /\ PageInv'
<1>1. HubInv /\ WireInv /\ PageInv
  BY InvInParts
<1>2. last \in Nat /\ last =< last
  BY <1>1, HubRange, SMT
<1>3. PageInv' /\ Shown' = Shown
  BY <1>1, <1>2, HubLeavesPage
<1>4. Shown \subseteq 1..last
  BY <1>1 DEF PageInv, PageApart
<1> QED BY <1>1, <1>2, <1>3, <1>4, WireSends

LEMMA DeleteStep ==
    ASSUME ListInv, NEW c \in Comments, Delete(c)
    PROVE  ListInv'
<1>1. HubInv /\ WireInv /\ PageInv
  BY InvInParts
<1>2. /\ deleted' = deleted \cup {c} /\ stored' = Without(stored, c)
      /\ resend' = Without(resend, c) /\ Broadcast(DeletedMsg(c))
      /\ UNCHANGED <<visible, upsets, forgets, last>>
      /\ UNCHANGED <<conn, reply, last, forgets>> /\ UNCHANGED <<pageVars, listHist, conn>>
  BY DEF Delete, boundVars
<1>3. /\ stored \in Seq(Comments) /\ IsInjective(stored)
      /\ resend \in Seq(Comments) /\ IsInjective(resend)
  BY <1>1 DEF HubInv, HubTypes, HubOnce
<1>4. /\ stored' \in Seq(Comments) /\ Thinned(stored', stored)
      /\ ToSet(stored') = ToSet(stored) \ {c}
      /\ resend' \in Seq(Comments) /\ Thinned(resend', resend)
      /\ ToSet(resend') = ToSet(resend) \ {c} /\ Len(resend') =< Len(resend)
  BY <1>2, <1>3, WithoutFacts
<1>5. /\ IsInjective(stored') /\ IsInjective(resend')
      /\ Increasing(stored) => Increasing(stored')
  BY <1>3, <1>4, ThinnedKeeps
<1>6. HubInv'
  <2>1. HubTypes' /\ BoundTypes'
    BY <1>1, <1>2, <1>4 DEF HubInv, HubTypes, BoundTypes
  <2>2. resend = <<>> => resend' = <<>>
    BY <1>3, <1>4, SMT
  <2>3. HubOnce'
    BY <1>1, <1>2, <1>4, <1>5, <2>2 DEF HubInv, HubOnce, Increasing
  <2> QED BY <2>1, <2>3 DEF HubInv
<1>7. DeletedMsg(c) \in Msgs /\ DeletedMsg(c).kind # "comments"
  <2>1. <<c>> \in Seq(Comments)
    OBVIOUS
  <2> QED BY <2>1 DEF DeletedMsg, Message, Msgs
<1> DEFINE m == DeletedMsg(c)
<1> HIDE DEF m
<1>8. m \in Msgs /\ m.kind # "comments" /\ Broadcast(m)
  BY <1>2, <1>7 DEF m
<1>9. WireInv' /\ PageInv'
  BY <1>2, <1>8, OtherMessage
<1> QED BY <1>6, <1>9, PartsToInv

LEMMA ConfigTypes ==
    \A v \in BOOLEAN : ConfigMsg(v) \in Msgs /\ ConfigMsg(v).kind # "comments"
<1>1. <<>> \in Seq(Comments)
  OBVIOUS
<1> QED BY <1>1 DEF ConfigMsg, Message, Msgs

LEMMA ToggleStep ==
    ASSUME ListInv, Toggle
    PROVE  ListInv'
<1>1. HubInv
  BY InvInParts
<1>2. /\ visible' = ~visible /\ Broadcast(ConfigMsg(~visible))
      /\ upsets < MaxUpsets /\ upsets' = upsets + 1
      /\ UNCHANGED <<stored, last, deleted, resend, forgets>>
      /\ UNCHANGED <<conn, reply, last, forgets>> /\ UNCHANGED <<pageVars, listHist, conn>>
  BY DEF Toggle
<1>3. visible' \in BOOLEAN
  BY <1>2
<1>4. BoundTypes'
  BY <1>1, <1>2, ListAssumption, SMT DEF HubInv, BoundTypes
<1>5. HubInv'
  BY <1>1, <1>2, <1>3, <1>4, Zenon DEF HubInv, HubTypes, HubOnce, Increasing
<1>6. ConfigMsg(~visible) \in Msgs /\ ConfigMsg(~visible).kind # "comments"
  BY ConfigTypes, Zenon
<1> DEFINE m == ConfigMsg(~visible)
<1> HIDE DEF m
<1>7. m \in Msgs /\ m.kind # "comments" /\ Broadcast(m)
  BY <1>2, <1>6 DEF m
<1>8. WireInv' /\ PageInv'
  BY <1>2, <1>7, OtherMessage
<1> QED BY <1>5, <1>8, PartsToInv

LEMMA ForgetStep ==
    ASSUME ListInv, Forget
    PROVE  ListInv'
<1>1. HubInv /\ WireInv /\ PageInv
  BY InvInParts
<1>2. /\ stored # <<>> /\ resend = <<>> /\ resend' = stored /\ stored' = <<>>
      /\ upsets < MaxUpsets /\ upsets' = upsets + 1 /\ forgets' = forgets + 1
      /\ UNCHANGED <<last, deleted, visible>> /\ UNCHANGED wireVars
      /\ UNCHANGED <<pageVars, listHist, conn>>
  BY DEF Forget, wireVars
<1>3. BoundTypes' /\ forgets' # 0
  BY <1>1, <1>2, ListAssumption, SMT DEF HubInv, BoundTypes
<1>4. stored' \in Seq(Comments) /\ ToSet(stored') = {} /\ IsInjective(stored')
  <2>1. DOMAIN stored' = {} /\ stored' \in Seq(Comments)
    BY <1>2, SMT
  <2> QED BY <2>1 DEF ToSet, IsInjective
<1>5. HubInv'
  BY <1>1, <1>2, <1>3, <1>4 DEF HubInv, HubTypes, HubOnce
<1>6. last \in Nat /\ last' = last /\ last =< last
  BY <1>1, <1>2, HubRange, SMT
<1>7. PageInv' /\ Shown' = Shown
  BY <1>1, <1>2, <1>3, <1>6, HubLeavesPage
<1>8. WireInv'
  <2>1. WireInv /\ UNCHANGED wireVars /\ Shown' \subseteq Shown
    BY <1>1, <1>2, <1>7
  <2>2. 1..last \subseteq 1..last' /\ (forgets' = 0 => forgets = 0)
    BY <1>3, <1>6
  <2> QED BY <2>1, <2>2, WireStays, Zenon
<1> QED BY <1>5, <1>7, <1>8, PartsToInv

LEMMA ResendStep ==
    ASSUME ListInv, Resend
    PROVE  ListInv'
<1>1. HubInv /\ WireInv /\ PageInv
  BY InvInParts
<1> DEFINE c == Head(resend)
<1>2. /\ resend # <<>> /\ resend' = Tail(resend) /\ stored' = Append(stored, c)
      /\ Broadcast(CommentsMsg(<<c>>))
      /\ UNCHANGED <<last, deleted, visible, upsets, forgets, conn, reply>>
      /\ UNCHANGED <<pageVars, listHist, conn>>
  BY DEF Resend, boundVars
<1>3. /\ resend \in Seq(Comments) /\ stored \in Seq(Comments)
      /\ IsInjective(resend) /\ IsInjective(stored)
      /\ ToSet(stored) \cap ToSet(resend) = {}
      /\ ToSet(stored) \subseteq 1..last /\ ToSet(resend) \subseteq 1..last
      /\ forgets # 0
  BY <1>1, <1>2 DEF HubInv, HubTypes, HubOnce
<1>4. /\ c \in Comments /\ c \in ToSet(resend) /\ resend' \in Seq(Comments)
  <2>1. c = resend[1] /\ c \in Comments /\ resend' \in Seq(Comments) /\ Len(resend) \in Nat \ {0}
    BY <1>2, <1>3, TailFacts
  <2>2. 1 \in DOMAIN resend
    BY <1>3, <2>1, SMT
  <2> QED BY <2>1, <2>2 DEF ToSet
<1>5. Thinned(resend', resend) /\ c \notin ToSet(resend')
  BY <1>2, <1>3, TailThins
<1>6. IsInjective(resend') /\ ToSet(resend') \subseteq ToSet(resend)
  BY <1>3, <1>4, <1>5, ThinnedKeeps DEF Thinned
<1> HIDE DEF c
<1>7. /\ stored' \in Seq(Comments) /\ ToSet(stored') = ToSet(stored) \cup {c}
      /\ IsInjective(stored')
  <2>1. c \notin ToSet(stored)
    BY <1>3, <1>4
  <2> QED BY <1>2, <1>3, <1>4, <2>1, AppendFacts
<1>8. HubInv'
  <2>1. HubTypes' /\ BoundTypes'
    BY <1>1, <1>2, <1>4, <1>7 DEF HubInv, HubTypes, BoundTypes
  <2>2. HubOnce'
    BY <1>2, <1>3, <1>4, <1>5, <1>6, <1>7 DEF HubOnce
  <2> QED BY <2>1, <2>2 DEF HubInv
<1>9. last \in Nat /\ last' = last /\ last =< last
  BY <1>1, <1>2, HubRange, SMT
<1>10. PageInv' /\ Shown' = Shown
  BY <1>1, <1>2, <1>9, HubLeavesPage
<1> DEFINE m == CommentsMsg(<<c>>)
<1>11. m \in Msgs /\ m.ids = <<c>>
  <2>1. <<c>> \in Seq(Comments)
    BY <1>4
  <2> QED BY <2>1 DEF CommentsMsg, Message, Msgs
<1>12. IsInjective(m.ids) /\ ToSet(m.ids) \subseteq 1..last'
  BY <1>3, <1>4, <1>9, <1>11, OneFacts
<1> HIDE DEF m
<1>13. Shown \subseteq 1..last /\ Broadcast(m) /\ forgets' # 0
  BY <1>1, <1>2, <1>3 DEF PageInv, PageApart, m
<1>14. WireInv'
  <2>1. last \in Nat /\ last' \in Nat /\ last =< last'
    BY <1>9
  <2>2. conn' = conn /\ reply' = reply /\ (forgets' = 0 => forgets = 0) /\ WireInv
    BY <1>1, <1>2
  <2>3. /\ IsInjective(m.ids) /\ ToSet(m.ids) \subseteq 1..last'
        /\ forgets' = 0 => Increasing(m.ids) /\ \A x \in ToSet(m.ids) : last < x
    BY <1>12, <1>13
  <2>4. m \in Msgs
    BY <1>11
  <2> QED BY <1>10, <1>13, <2>1, <2>2, <2>3, <2>4, WireSends, Zenon
<1> QED BY <1>8, <1>10, <1>14, PartsToInv

-----------------------------------------------------------------------------
(* The steps of the connection.                                               *)

LEMMA HubStays ==
    ASSUME HubInv, UNCHANGED hubVars, forgets' = forgets, upsets' \in upsets..MaxUpsets
    PROVE  HubInv' /\ 1..last \subseteq 1..last'
<1>1. UNCHANGED <<stored, last, deleted, resend, visible>>
  BY DEF hubVars
<1>2. BoundTypes'
  BY ListAssumption, SMT DEF HubInv, BoundTypes
<1> QED BY <1>1, <1>2, Zenon DEF HubInv, HubTypes, HubOnce, Increasing

LEMMA NoReply == reply' = <<>> => reply' \in Seq(Comments) /\ ReplyOnce'
<1> SUFFICES ASSUME reply' = <<>> PROVE reply' \in Seq(Comments) /\ ReplyOnce'
  OBVIOUS
<1>1. reply' \in Seq(Comments) /\ DOMAIN reply' = {}
  BY SMT
<1> QED BY <1>1 DEF ReplyOnce, ToSet, IsInjective, Increasing

LEMMA RequestStep ==
    ASSUME ListInv, Request
    PROVE  ListInv'
<1>1. HubInv /\ WireInv /\ PageInv
  BY InvInParts
<1>2. /\ conn' = "config" /\ inbox' = <<ConfigMsg(visible)>> /\ reply' = reply /\ ever' = ever
      /\ UNCHANGED hubVars /\ UNCHANGED <<hidden, cardVars, listHist>>
      /\ upsets' = upsets /\ forgets' = forgets /\ last' = last
  BY DEF Request, boundVars, pageVars, hubVars
<1>3. upsets' \in upsets..MaxUpsets
  BY <1>1, <1>2, ListAssumption, SMT DEF HubInv, BoundTypes
<1>4. HubInv' /\ 1..last \subseteq 1..last'
  BY <1>1, <1>2, <1>3, HubStays
<1>5. ever' \in BOOLEAN
  BY <1>1, <1>2 DEF PageInv, PageTypes
<1>6. PageInv'
  BY <1>1, <1>2, <1>4, <1>5, PageStays
<1> DEFINE m == ConfigMsg(visible)
<1>7. m \in Msgs /\ m.kind # "comments"
  <2>1. visible \in BOOLEAN
    BY <1>1 DEF HubInv, HubTypes
  <2> QED BY <2>1, ConfigTypes, Zenon
<1> HIDE DEF m
<1>8. inbox' \in Seq(Msgs) /\ \A i \in DOMAIN inbox' : inbox'[i].kind # "comments"
  <2>1. inbox' = <<m>>
    BY <1>2 DEF m
  <2> QED BY <1>7, <2>1, SMT
<1>9. reply' \in Seq(Comments) /\ ReplyOnce'
  BY <1>1, <1>2, Zenon DEF WireInv, WireTypes, ReplyOnce, Increasing
<1>10. WireInv'
  BY <1>2, <1>8, <1>9, WireBegins
<1> QED BY <1>4, <1>6, <1>10, PartsToInv

LEMMA RecentStep ==
    ASSUME ListInv, Recent
    PROVE  ListInv'
<1>1. HubInv /\ WireInv /\ PageInv
  BY InvInParts
<1>2. /\ conn = "config" /\ conn' = "recent" /\ reply' = Newest(stored, MaxComments)
      /\ inbox' = inbox /\ ever' = ever
      /\ UNCHANGED hubVars /\ UNCHANGED <<hidden, cardVars, listHist>>
      /\ upsets' = upsets /\ forgets' = forgets /\ last' = last
  BY DEF Recent, boundVars, pageVars, hubVars
<1>3. upsets' \in upsets..MaxUpsets
  BY <1>1, <1>2, ListAssumption, SMT DEF HubInv, BoundTypes
<1>4. HubInv' /\ 1..last \subseteq 1..last'
  BY <1>1, <1>2, <1>3, HubStays
<1>5. ever' \in BOOLEAN
  BY <1>1, <1>2 DEF PageInv, PageTypes
<1>6. PageInv'
  BY <1>1, <1>2, <1>4, <1>5, PageStays
<1>7. stored \in Seq(Comments) /\ IsInjective(stored) /\ ToSet(stored) \subseteq 1..last
  BY <1>1 DEF HubInv, HubTypes, HubOnce
<1>8. reply' \in Seq(Comments) /\ Thinned(reply', stored)
  BY <1>2, <1>7, NewestThins
<1>9. /\ IsInjective(reply') /\ ToSet(reply') \subseteq ToSet(stored)
      /\ Increasing(stored) => Increasing(reply')
  BY <1>7, <1>8, ThinnedKeeps DEF Thinned
<1>10. ReplyOnce'
  <2>1. forgets = 0 => Increasing(stored)
    BY <1>1, Zenon DEF HubInv, HubOnce
  <2> QED BY <1>2, <1>7, <1>9, <2>1, Zenon DEF ReplyOnce, Increasing
<1>11. inbox' \in Seq(Msgs) /\ \A i \in DOMAIN inbox' : inbox'[i].kind # "comments"
  BY <1>1, <1>2 DEF WireInv, WireTypes, WireOnce, CommentsAt
<1>12. WireInv'
  BY <1>2, <1>8, <1>10, <1>11, WireBegins
<1> QED BY <1>4, <1>6, <1>12, PartsToInv

(* The first comments a page gets are those of the replay.                    *)
LEMMA SubscribeStep ==
    ASSUME ListInv, Subscribe
    PROVE  ListInv'
<1>1. HubInv /\ WireInv /\ PageInv
  BY InvInParts
<1>2. /\ conn = "recent" /\ ~ever /\ conn' = "open" /\ ever' = TRUE /\ reply' = <<>>
      /\ inbox' = (IF reply = <<>> THEN inbox ELSE Append(inbox, CommentsMsg(reply)))
      /\ UNCHANGED hubVars /\ UNCHANGED <<hidden, cardVars, listHist>>
      /\ upsets' = upsets /\ forgets' = forgets /\ last' = last
  BY DEF Subscribe, boundVars, hubVars
<1>3. upsets' \in upsets..MaxUpsets
  BY <1>1, <1>2, ListAssumption, SMT DEF HubInv, BoundTypes
<1>4. HubInv' /\ 1..last \subseteq 1..last'
  BY <1>1, <1>2, <1>3, HubStays
<1>5. ever' \in BOOLEAN /\ ever' /\ (ever => ever')
  BY <1>2
<1>6. PageInv' /\ Shown' = Shown
  BY <1>1, <1>2, <1>4, <1>5, PageStays
<1>7. Shown = {}
  BY <1>1, <1>2 DEF PageInv, PageApart
<1>8. reply' \in Seq(Comments) /\ ReplyOnce'
  BY <1>2, NoReply
<1>9. /\ inbox \in Seq(Msgs) /\ reply \in Seq(Comments) /\ IsInjective(reply)
      /\ ToSet(reply) \subseteq 1..last
  BY <1>1 DEF WireInv, WireTypes, ReplyOnce
<1>10. forgets = 0 => Increasing(reply)
  BY <1>1, Zenon DEF WireInv, ReplyOnce
<1>11. \A i : ~CommentsAt(i)
  BY <1>1, <1>2 DEF WireInv, WireOnce
<1>12. CASE reply = <<>>
  <2>1. inbox' = inbox
    BY <1>2, <1>12
  <2>2. \A i \in DOMAIN inbox' : inbox'[i].kind # "comments"
    BY <1>11, <2>1 DEF CommentsAt
  <2>3. WireInv'
    BY <1>2, <1>8, <1>9, <2>1, <2>2, WireBegins
  <2> QED BY <1>4, <1>6, <2>3, PartsToInv
<1>13. CASE reply # <<>>
  <2> DEFINE m == CommentsMsg(reply)
  <2>1. m \in Msgs /\ m.ids = reply
    BY <1>9 DEF CommentsMsg, Message, Msgs
  <2>2. inbox' = Append(inbox, m)
    BY <1>2, <1>13
  <2> HIDE DEF m
  <2>3. PICK n \in Nat : n = Len(inbox) + 1
    BY <1>9
  <2>4. /\ inbox' \in Seq(Msgs) /\ DOMAIN inbox' = 1..n /\ inbox'[n] = m
        /\ DOMAIN inbox = 1..n - 1 /\ \A i \in 1..n - 1 : inbox'[i] = inbox[i]
    BY <1>9, <2>1, <2>2, <2>3, SMT
  <2>5. ASSUME NEW i, CommentsAt(i)' PROVE i = n /\ inbox'[i].ids = reply
    <3>1. i \in 1..n /\ inbox'[i].kind = "comments"
      BY <2>4, <2>5 DEF CommentsAt
    <3>2. i = n \/ i \in 1..n - 1
      BY <2>3, <3>1, SMT
    <3>3. i \notin 1..n - 1
      BY <1>11, <2>4, <3>1 DEF CommentsAt
    <3> QED BY <2>1, <2>4, <3>2, <3>3
  <2>6. WireTypes' /\ WireOnce'
    <3>1. WireTypes'
      BY <1>2, <1>8, <2>4 DEF WireTypes
    <3>2. ASSUME NEW i, CommentsAt(i)'
          PROVE  IsInjective(inbox'[i].ids) /\ ToSet(inbox'[i].ids) \subseteq 1..last'
      BY <1>2, <1>9, <2>5, <3>2
    <3> QED BY <1>2, <3>1, <3>2, Zenon DEF WireOnce
  <2>7. WireInOrder'
    <3> SUFFICES ASSUME forgets' = 0, NEW i, CommentsAt(i)'
        PROVE  /\ Increasing(inbox'[i].ids)
               /\ \A c \in ToSet(inbox'[i].ids), d \in Shown' : d < c
               /\ \A j : i < j /\ CommentsAt(j)' =>
                    \A c \in ToSet(inbox'[i].ids), d \in ToSet(inbox'[j].ids) : c < d
      BY Zenon DEF WireInOrder, Increasing
    <3>1. \A j : i < j => ~CommentsAt(j)'
      <4>1. i = n /\ ~(n < n)
        BY <2>3, <2>5, SMT
      <4> QED BY <2>5, <4>1
    <3> QED BY <1>2, <1>6, <1>7, <1>10, <2>5, <3>1
  <2>8. WireInv'
    BY <1>8, <2>6, <2>7 DEF WireInv
  <2> QED BY <1>4, <1>6, <2>8, PartsToInv
<1> QED BY <1>12, <1>13

LEMMA ReloadStep ==
    ASSUME ListInv, Reload, UNCHANGED <<hubVars, boundVars>>
    PROVE  ListInv'
<1>1. HubInv /\ PageInv
  BY InvInParts
<1>2. UNCHANGED hubVars /\ upsets' = upsets /\ forgets' = forgets
  BY DEF boundVars
<1>3. upsets' \in upsets..MaxUpsets
  BY <1>1, <1>2, ListAssumption, SMT DEF HubInv, BoundTypes
<1>4. HubInv'
  BY <1>1, <1>2, <1>3, HubStays
<1>5. PageInv'
  BY <1>1, PageEmpty DEF Reload, PageInv
<1>6. WireInv'
  <2>1. conn' = "off" /\ reply' = <<>> /\ inbox' = <<>>
    BY DEF Reload
  <2>2. inbox' \in Seq(Msgs) /\ DOMAIN inbox' = {}
    BY <2>1, SMT
  <2> QED BY <2>1, <2>2, NoReply, WireBegins
<1> QED BY <1>4, <1>5, <1>6, PartsToInv

LEMMA DropStep ==
    ASSUME ListInv, Drop
    PROVE  ListInv'
<1>1. HubInv /\ PageInv
  BY InvInParts
<1>2. /\ upsets < MaxUpsets /\ upsets' = upsets + 1 /\ forgets' = forgets
      /\ conn' = "off" /\ reply' = <<>> /\ inbox' = <<>> /\ ever' = ever
      /\ UNCHANGED hubVars /\ UNCHANGED <<hidden, cardVars, listHist>>
  BY DEF Drop, pageVars
<1>3. upsets' \in upsets..MaxUpsets
  BY <1>1, <1>2, ListAssumption, SMT DEF HubInv, BoundTypes
<1>4. HubInv' /\ 1..last \subseteq 1..last'
  BY <1>1, <1>2, <1>3, HubStays
<1>5. ever' \in BOOLEAN
  BY <1>1, <1>2 DEF PageInv, PageTypes
<1>6. PageInv'
  BY <1>1, <1>2, <1>4, <1>5, PageStays
<1>7. WireInv'
  <2>1. inbox' \in Seq(Msgs) /\ DOMAIN inbox' = {}
    BY <1>2, SMT
  <2> QED BY <1>2, <2>1, NoReply, WireBegins
<1> QED BY <1>4, <1>6, <1>7, PartsToInv

-----------------------------------------------------------------------------
(* Messages at the page.                                                      *)

(* The sides of the hub and of the stream when a message is taken.             *)
LEMMA MessageTaken ==
    ASSUME ListInv, inbox # <<>>, inbox' = Tail(inbox), UNCHANGED <<conn, reply>>,
           UNCHANGED <<hubVars, boundVars>>,
           Shown' \subseteq Shown \/ (CommentsAt(1) /\ Shown' \subseteq Shown \cup ToSet(inbox[1].ids))
    PROVE  HubInv' /\ WireInv'
<1>1. HubInv /\ WireInv
  BY InvInParts
<1>2. UNCHANGED hubVars /\ upsets' = upsets /\ forgets' = forgets /\ last' = last
  BY DEF boundVars, hubVars
<1>3. upsets' \in upsets..MaxUpsets
  BY <1>1, <1>2, ListAssumption, SMT DEF HubInv, BoundTypes
<1>4. HubInv'
  BY <1>1, <1>2, <1>3, HubStays
<1>5. WireInv'
  BY <1>1, <1>2, WireTakes
<1> QED BY <1>4, <1>5

LEMMA FirstMessage ==
    ASSUME WireInv, inbox # <<>>
    PROVE  /\ Head(inbox) = inbox[1] /\ inbox[1] \in Msgs /\ 1 \in DOMAIN inbox
           /\ Head(inbox).kind = "comments" => CommentsAt(1)
<1>1. inbox \in Seq(Msgs)
  BY DEF WireInv, WireTypes
<1>2. Head(inbox) = inbox[1] /\ Head(inbox) \in Msgs /\ Len(inbox) \in Nat \ {0}
  BY <1>1, TailFacts
<1>3. 1 \in DOMAIN inbox
  BY <1>1, <1>2, SMT
<1> QED BY <1>2, <1>3 DEF CommentsAt

LEMMA UpsertKeeps ==
    ASSUME PageInv, NEW ids \in Seq(Comments), Upsert(ids), IsInjective(ids),
           ToSet(ids) \subseteq 1..last, ever,
           forgets = 0 => Increasing(ids) /\ \A c \in ToSet(ids), d \in Shown : d < c,
           UNCHANGED <<ever, hidden, last, forgets>>
    PROVE  PageInv' /\ Shown' = Shown \cup ToSet(ids)
<1> DEFINE fresh == ToSet(ids) \ Shown
<1>1. PICK t \in InOrderOf(ids, fresh) : ordered' = ordered \o t
  BY DEF Upsert
<1>2. /\ phase' = [c \in Comments |-> IF c \in fresh THEN "entering" ELSE phase[c]]
      /\ dirty' = dirty \cup fresh
      /\ rendering' \in IF fresh = {} THEN {rendering, TRUE} ELSE {TRUE}
      /\ removing' = removing \ ToSet(ids)
      /\ again' = again \cup (ToSet(ids) \cap Shown)
      /\ retracted' = retracted \ fresh
      /\ UNCHANGED <<activation, arming, pushedOut>>
  BY DEF Upsert
<1>3. ToSet(ids) \subseteq Comments
  BY DEF ToSet
<1>4. fresh \subseteq ToSet(ids) /\ fresh \subseteq Comments /\ fresh \cap Shown = {}
  BY <1>3
<1> HIDE DEF fresh
<1>5. t \in Seq(Comments) /\ Thinned(t, ids) /\ ToSet(t) = fresh
  BY <1>1, <1>4, InOrderFacts
<1>6. IsInjective(t) /\ (Increasing(ids) => Increasing(t))
  BY <1>5, ThinnedKeeps
<1>7. /\ ordered \in Seq(Comments) /\ ToSet(ordered) \subseteq Shown /\ IsInjective(ordered)
      /\ ToSet(ordered) \cap pushedOut = {} /\ Shown \subseteq 1..last
      /\ phase \in [Comments -> Phases]
  BY DEF PageInv, PageTypes, ListInOrder, PageApart
<1>8. /\ ordered' \in Seq(Comments) /\ ToSet(ordered') = ToSet(ordered) \cup fresh
      /\ Len(ordered') = Len(ordered) + Len(t) /\ IsInjective(ordered')
      /\ Increasing(ordered) /\ Increasing(t) /\ (\A x \in ToSet(ordered), y \in ToSet(t) : x < y)
           => Increasing(ordered')
  <2>1. ToSet(ordered) \cap ToSet(t) = {}
    BY <1>4, <1>5, <1>7
  <2> QED BY <1>1, <1>5, <1>6, <1>7, <2>1, ConcatFacts
<1>9. Shown' = Shown \cup fresh /\ phase' \in [Comments -> Phases]
  BY <1>2, <1>4, <1>7 DEF Shown, Phases
<1>10. Shown \cup fresh = Shown \cup ToSet(ids)
  BY DEF fresh
<1>11. PageTypes'
  <2>1. /\ dirty \subseteq Shown /\ arming \subseteq Shown /\ removing \subseteq Shown
        /\ pushedOut \subseteq Shown /\ again \subseteq Comments /\ retracted \subseteq Comments
        /\ activation \in BOOLEAN /\ rendering \in BOOLEAN /\ ever \in BOOLEAN /\ hidden \in BOOLEAN
    BY DEF PageInv, PageTypes
  <2>2. rendering' \in BOOLEAN
    BY <1>2, <2>1, Zenon
  <2>3. /\ dirty' \subseteq Shown' /\ arming' \subseteq Shown' /\ removing' \subseteq Shown'
        /\ pushedOut' \subseteq Shown' /\ again' \subseteq Comments /\ retracted' \subseteq Comments
    BY <1>2, <1>3, <1>9, <2>1
  <2>4. activation' \in BOOLEAN /\ ever' \in BOOLEAN /\ hidden' \in BOOLEAN
    BY <1>2, <2>1
  <2> QED BY <1>8, <1>9, <2>2, <2>3, <2>4, Zenon DEF PageTypes
<1>12. CardsAccounted'
  <2> SUFFICES ASSUME NEW c \in Shown', c \notin again' PROVE c \in ToSet(ordered') \cup removing'
    BY DEF CardsAccounted
  <2>1. CASE c \in fresh
    BY <1>8, <2>1
  <2>2. CASE c \notin fresh
    <3>1. c \in Shown /\ c \notin again /\ c \notin ToSet(ids)
      BY <1>2, <1>9, <2>2
    <3>2. c \in ToSet(ordered) \cup removing
      BY <3>1 DEF PageInv, CardsAccounted
    <3> QED BY <1>2, <1>8, <3>1, <3>2
  <2> QED BY <2>1, <2>2
<1>13. ListInOrder'
  <2>1. ~rendering' => Len(ordered') =< MaxComments
    <3> SUFFICES ASSUME ~rendering' PROVE Len(ordered') =< MaxComments
      OBVIOUS
    <3>1. fresh = {} /\ ~rendering
      BY <1>2, Zenon
    <3>2. Len(t) = 0
      <4>1. \A i \in DOMAIN t : t[i] \in ToSet(t)
        BY DEF ToSet
      <4>2. DOMAIN t = {}
        BY <1>5, <3>1, <4>1
      <4> QED BY <1>5, <4>2, SMT
    <3>3. Len(ordered) =< MaxComments
      BY <3>1 DEF PageInv, ListInOrder
    <3>4. Len(ordered') = Len(ordered) + 0 /\ Len(ordered) \in Nat
      BY <1>7, <1>8, <3>2
    <3> QED BY <3>3, <3>4, SMT
  <2>2. forgets' = 0 => Increasing(ordered')
    <3> SUFFICES ASSUME forgets = 0 PROVE Increasing(ordered')
      OBVIOUS
    <3>1. Increasing(ordered)
      BY Zenon DEF PageInv, ListInOrder, Increasing
    <3>2. \A x \in ToSet(ordered), y \in ToSet(t) : x < y
      BY <1>4, <1>5, <1>7
    <3> QED BY <1>6, <1>8, <3>1, <3>2
  <2> QED BY <1>8, <2>1, <2>2, Zenon DEF ListInOrder, Increasing
<1>14. PageApart'
  <2>1. ToSet(ordered') \cap pushedOut' = {}
    <3>1. pushedOut \subseteq Shown /\ pushedOut' = pushedOut
      BY <1>2 DEF PageInv, PageTypes
    <3> QED BY <1>4, <1>7, <1>8, <3>1
  <2>2. ToSet(ordered') \subseteq Shown' /\ Shown' \subseteq 1..last'
    BY <1>4, <1>7, <1>8, <1>9
  <2> QED BY <2>1, <2>2, Zenon DEF PageApart
<1> QED BY <1>9, <1>10, <1>11, <1>12, <1>13, <1>14 DEF PageInv

LEMMA ReceiveCommentsStep ==
    ASSUME ListInv, ReceiveComments
    PROVE  ListInv'
<1>1. HubInv /\ WireInv /\ PageInv
  BY InvInParts
<1> DEFINE ids == inbox[1].ids
<1>2. Head(inbox) = inbox[1] /\ CommentsAt(1) /\ ids \in Seq(Comments)
  <2>1. inbox # <<>> /\ Head(inbox).kind = "comments"
    BY DEF ReceiveComments
  <2> QED BY <1>1, <2>1, FirstMessage DEF Msgs
<1>3. /\ inbox # <<>> /\ inbox' = Tail(inbox) /\ Upsert(ids)
      /\ UNCHANGED <<hubVars, boundVars>> /\ UNCHANGED <<conn, reply>>
      /\ UNCHANGED <<ever, hidden, last, forgets>>
  BY <1>2 DEF ReceiveComments, hubVars, boundVars
<1>4. IsInjective(ids) /\ ToSet(ids) \subseteq 1..last /\ conn = "open"
  BY <1>1, <1>2 DEF WireInv, WireOnce
<1>5. ever
  BY <1>1, <1>4 DEF PageInv, PageApart
<1>6. forgets = 0 => Increasing(ids) /\ \A c \in ToSet(ids), d \in Shown : d < c
  BY <1>1, <1>2, Zenon DEF WireInv, WireInOrder
<1>7. PageInv' /\ Shown' = Shown \cup ToSet(ids)
  BY <1>1, <1>2, <1>3, <1>4, <1>5, <1>6, UpsertKeeps
<1>8. HubInv' /\ WireInv'
  BY <1>2, <1>3, <1>7, MessageTaken
<1> QED BY <1>7, <1>8, PartsToInv

(* A card is set to another phase.                                            *)
LEMMA PhaseSet ==
    ASSUME PageTypes, NEW c \in Shown, NEW x \in Phases \ {"none"},
           phase' = [phase EXCEPT ![c] = x]
    PROVE  phase' \in [Comments -> Phases] /\ Shown' = Shown
<1>1. phase \in [Comments -> Phases] /\ c \in Comments /\ phase[c] # "none"
  BY DEF PageTypes, Shown
<1> QED BY <1>1 DEF Shown

(* A step of the cards that leaves the list and the entries as they are.        *)
LEMMA CardsMove ==
    ASSUME PageInv, phase' \in [Comments -> Phases], Shown' = Shown,
           UNCHANGED <<ever, hidden, ordered, dirty, rendering, again, last, forgets>>,
           UNCHANGED conn,
           activation' \in BOOLEAN, arming' \subseteq Shown,
           removing' \subseteq Shown, removing \subseteq removing',
           pushedOut' \subseteq pushedOut, retracted' \subseteq Comments
    PROVE  PageInv'
<1>1. PageTypes'
  BY Zenon DEF PageInv, PageTypes
<1>2. CardsAccounted'
  BY DEF PageInv, CardsAccounted
<1>3. ListInOrder'
  BY Zenon DEF PageInv, ListInOrder
<1>4. PageApart'
  BY DEF PageInv, PageApart
<1> QED BY <1>1, <1>2, <1>3, <1>4 DEF PageInv

LEMMA ReceiveDeletedStep ==
    ASSUME ListInv, ReceiveDeleted
    PROVE  ListInv'
<1>1. HubInv /\ WireInv /\ PageInv
  BY InvInParts
<1> DEFINE c == Head(inbox).ids[1]
<1>2. /\ inbox # <<>> /\ inbox' = Tail(inbox) /\ RemoveById(c)
      /\ UNCHANGED <<hubVars, boundVars>> /\ UNCHANGED <<conn, reply>>
      /\ UNCHANGED <<ever, hidden, ordered, dirty, rendering, again, last, forgets>>
      /\ UNCHANGED <<activation, pushedOut>>
  BY DEF ReceiveDeleted, hubVars, boundVars
<1> HIDE DEF c
<1>3. /\ phase \in [Comments -> Phases] /\ arming \subseteq Shown /\ removing \subseteq Shown
      /\ retracted \subseteq Comments /\ activation \in BOOLEAN /\ Shown \subseteq Comments
  BY <1>1 DEF PageInv, PageTypes, Shown
<1>4. /\ phase' \in [Comments -> Phases] /\ Shown' = Shown /\ arming' \subseteq Shown
      /\ removing' \subseteq Shown /\ removing \subseteq removing' /\ retracted' \subseteq Comments
  <2>1. CASE c \notin Shown \/ c \in removing
    <3>1. UNCHANGED <<phase, arming, removing, retracted>>
      BY <1>2, <2>1 DEF RemoveById
    <3> QED BY <1>3, <3>1 DEF Shown
  <2>2. CASE ~(c \notin Shown \/ c \in removing)
    <3>1. /\ phase' = [phase EXCEPT ![c] = "leaving"] /\ arming' = arming \ {c}
          /\ removing' = removing \cup {c} /\ retracted' = retracted \cup {c}
      BY <1>2, <2>2 DEF RemoveById
    <3>2. "leaving" \in Phases \ {"none"}
      BY DEF Phases
    <3>3. phase' \in [Comments -> Phases] /\ Shown' = Shown
      BY <1>1, <2>2, <3>1, <3>2, PhaseSet DEF PageInv
    <3> QED BY <1>3, <2>2, <3>1, <3>3
  <2> QED BY <2>1, <2>2
<1>5. PageInv'
  BY <1>1, <1>2, <1>3, <1>4, CardsMove
<1>6. HubInv' /\ WireInv'
  BY <1>2, <1>4, MessageTaken
<1> QED BY <1>5, <1>6, PartsToInv

LEMMA ReceiveConfigStep ==
    ASSUME ListInv, ReceiveConfig
    PROVE  ListInv'
<1>1. HubInv /\ WireInv /\ PageInv
  BY InvInParts
<1>2. /\ inbox # <<>> /\ conn = "open" /\ UNCHANGED <<hubVars, boundVars>>
      /\ last' = last /\ forgets' = forgets
  BY DEF ReceiveConfig, hubVars, boundVars
<1>3. ever
  BY <1>1, <1>2 DEF PageInv, PageApart
<1>4. CASE Clear /\ hidden' = TRUE /\ inbox' = Tail(inbox) /\ UNCHANGED <<conn, reply, ever>>
  <2>1. /\ rendering' \in BOOLEAN /\ activation' \in BOOLEAN /\ ever' \in BOOLEAN
        /\ hidden' \in BOOLEAN /\ ever'
    BY <1>1, <1>3, <1>4 DEF Clear, PageInv, PageTypes
  <2>2. PageInv' /\ Shown' = {}
    BY <1>1, <1>4, <2>1, PageEmpty DEF Clear, PageInv
  <2>3. HubInv' /\ WireInv'
    BY <1>2, <1>4, <2>2, MessageTaken
  <2> QED BY <2>2, <2>3, PartsToInv
<1>5. CASE Reload
  BY <1>2, <1>5, ReloadStep
<1>6. CASE inbox' = Tail(inbox) /\ UNCHANGED <<conn, reply, pageVars, listHist>>
  <2>1. UNCHANGED <<hidden, cardVars, listHist>> /\ ever' = ever
    BY <1>6 DEF pageVars
  <2>2. ever' \in BOOLEAN
    BY <1>1, <2>1 DEF PageInv, PageTypes
  <2>3. PageInv' /\ Shown' = Shown
    BY <1>1, <1>2, <1>3, <2>1, <2>2, PageStays
  <2>4. HubInv' /\ WireInv'
    BY <1>2, <1>6, <2>3, MessageTaken
  <2> QED BY <2>3, <2>4, PartsToInv
<1> QED BY <1>4, <1>5, <1>6 DEF ReceiveConfig

-----------------------------------------------------------------------------
(* Frames and timers.                                                         *)

LEMMA LocalStep ==
    ASSUME ListInv, UNCHANGED <<hubVars, wireVars, ever, hidden, boundVars>>, Shown' \subseteq Shown
    PROVE  /\ HubInv' /\ WireInv'
           /\ UNCHANGED <<ever, hidden, last, forgets>> /\ UNCHANGED conn
<1>1. HubInv /\ WireInv
  BY InvInParts
<1>2. /\ UNCHANGED hubVars /\ upsets' = upsets /\ forgets' = forgets /\ UNCHANGED wireVars
      /\ UNCHANGED <<ever, hidden, last, forgets>> /\ UNCHANGED conn
  BY DEF boundVars, hubVars, wireVars
<1>3. upsets' \in upsets..MaxUpsets
  BY <1>1, <1>2, ListAssumption, SMT DEF HubInv, BoundTypes
<1>4. HubInv' /\ 1..last \subseteq 1..last'
  BY <1>1, <1>2, <1>3, HubStays
<1>5. WireInv'
  BY <1>1, <1>2, <1>4, WireStays
<1> QED BY <1>2, <1>4, <1>5

LEMMA FlushStep ==
    ASSUME ListInv, Flush
    PROVE  ListInv'
<1>1. HubInv /\ WireInv /\ PageInv
  BY InvInParts
<1>2. /\ ordered \in Seq(Comments) /\ Len(ordered) \in Nat /\ DOMAIN ordered = 1..Len(ordered)
      /\ IsInjective(ordered) /\ ToSet(ordered) \subseteq Shown
      /\ ToSet(ordered) \cap pushedOut = {} /\ Shown \subseteq 1..last
      /\ phase \in [Comments -> Phases] /\ arming \subseteq Shown /\ removing \subseteq Shown
      /\ pushedOut \subseteq Shown /\ again \subseteq Comments /\ retracted \subseteq Comments
      /\ ever \in BOOLEAN /\ hidden \in BOOLEAN
  BY <1>1 DEF PageInv, PageTypes, ListInOrder, PageApart
<1> DEFINE n == Overflow
           S == Surplus
           gone == S \cap removing
<1>3. n \in 0..Len(ordered) /\ Len(ordered) - n =< MaxComments
  BY <1>2, ListAssumption, SMT DEF Overflow
<1>4. /\ rendering' = FALSE /\ dirty' = {} /\ activation' = TRUE
      /\ ordered' = SubSeq(ordered, n + 1, Len(ordered))
      /\ phase' = [c \in Comments |-> IF c \in gone THEN "none" ELSE phase[c]]
      /\ arming' = arming \ gone /\ retracted' = retracted \ gone /\ again' = again \ gone
      /\ pushedOut' = pushedOut \cup (S \ removing)
      /\ removing' = (removing \cup S) \ (S \cap removing)
      /\ UNCHANGED <<hubVars, wireVars, ever, hidden, boundVars>>
  BY DEF Flush, PushOut
<1>5. S = {ordered[i] : i \in 1..n}
  BY DEF Surplus
<1> HIDE DEF n, S, gone
<1>6. /\ ordered' \in Seq(Comments) /\ Len(ordered') = Len(ordered) - n
      /\ Thinned(ordered', ordered) /\ \A i \in 1..Len(ordered) - n : ordered'[i] = ordered[i + n]
  BY <1>2, <1>3, <1>4, SuffixFacts
<1>7. ToSet(ordered) = S \cup ToSet(ordered') /\ S \cap ToSet(ordered') = {}
  <2>1. DOMAIN ordered' = 1..Len(ordered) - n
    BY <1>6
  <2>2. ASSUME NEW x \in S PROVE x \in ToSet(ordered) /\ x \notin ToSet(ordered')
    <3>1. PICK i \in 1..n : x = ordered[i]
      BY <1>5
    <3>2. i \in 1..Len(ordered)
      BY <1>2, <1>3, SMT
    <3>3. ASSUME NEW j \in 1..Len(ordered) - n PROVE ordered'[j] # x
      <4>1. j + n \in 1..Len(ordered) /\ j + n # i
        BY <1>2, <1>3, SMT
      <4> QED BY <1>2, <1>6, <3>1, <3>2, <4>1 DEF IsInjective
    <3> QED BY <1>2, <2>1, <3>1, <3>2, <3>3 DEF ToSet
  <2>3. ASSUME NEW x \in ToSet(ordered), x \notin S PROVE x \in ToSet(ordered')
    <3>1. PICK i \in 1..Len(ordered) : x = ordered[i]
      BY <1>2 DEF ToSet
    <3>2. i \notin 1..n
      BY <1>5, <2>3, <3>1
    <3>3. i - n \in 1..Len(ordered) - n /\ i - n + n = i
      BY <1>2, <1>3, <3>2, SMT
    <3>4. ordered'[i - n] = ordered[i]
      BY <1>6, <3>3
    <3> QED BY <2>1, <3>1, <3>3, <3>4 DEF ToSet
  <2>4. ToSet(ordered') \subseteq ToSet(ordered)
    BY <1>6 DEF Thinned
  <2> QED BY <2>2, <2>3, <2>4
<1>8. Shown' = Shown \ gone /\ phase' \in [Comments -> Phases]
  BY <1>2, <1>4 DEF Shown, Phases
<1>9. HubInv' /\ WireInv' /\ UNCHANGED <<ever, hidden, last, forgets>> /\ UNCHANGED conn
  <2>1. Shown' \subseteq Shown
    BY <1>8
  <2> QED BY <1>4, <2>1, LocalStep
<1>10. PageTypes'
  <2>1. /\ arming' \subseteq Shown' /\ removing' \subseteq Shown' /\ pushedOut' \subseteq Shown'
        /\ again' \subseteq Comments /\ retracted' \subseteq Comments /\ dirty' \subseteq Shown'
    BY <1>2, <1>4, <1>7, <1>8 DEF gone
  <2> QED BY <1>2, <1>4, <1>6, <1>8, <1>9, <2>1, Zenon DEF PageTypes
<1>11. CardsAccounted'
  <2> SUFFICES ASSUME NEW c \in Shown', c \notin again' PROVE c \in ToSet(ordered') \cup removing'
    BY DEF CardsAccounted
  <2>1. c \in Shown /\ c \notin gone /\ c \notin again
    BY <1>4, <1>8
  <2>2. c \in ToSet(ordered) \cup removing
    BY <1>1, <2>1 DEF PageInv, CardsAccounted
  <2> QED BY <1>4, <1>7, <2>1, <2>2 DEF gone
<1>12. ListInOrder'
  <2>1. Len(ordered') =< MaxComments
    BY <1>3, <1>6
  <2>2. IsInjective(ordered') /\ (Increasing(ordered) => Increasing(ordered'))
    BY <1>2, <1>6, ThinnedKeeps
  <2>3. forgets = 0 => Increasing(ordered)
    BY <1>1, Zenon DEF PageInv, ListInOrder, Increasing
  <2> QED BY <1>9, <2>1, <2>2, <2>3, Zenon DEF ListInOrder, Increasing
<1>13. PageApart'
  <2>1. ToSet(ordered') \subseteq Shown' /\ ToSet(ordered') \cap pushedOut' = {}
    BY <1>2, <1>4, <1>7, <1>8 DEF gone
  <2>2. Shown' \subseteq 1..last'
    BY <1>2, <1>8, <1>9
  <2>3. ~ever' => conn' # "open" /\ Shown' = {}
    BY <1>1, <1>8, <1>9 DEF PageInv, PageApart
  <2> QED BY <2>1, <2>2, <2>3, Zenon DEF PageApart
<1>14. PageInv'
  BY <1>10, <1>11, <1>12, <1>13 DEF PageInv
<1> QED BY <1>9, <1>14, PartsToInv

LEMMA LeaveFrameStep ==
    ASSUME ListInv, NEW c \in Comments, LeaveFrame(c)
    PROVE  ListInv'
<1>1. PageInv
  BY InvInParts
<1>2. /\ c \in pushedOut /\ pushedOut' = pushedOut \ {c}
      /\ phase' = [phase EXCEPT ![c] = "leaving"] /\ arming' = arming \ {c}
      /\ UNCHANGED <<hubVars, wireVars, ever, hidden, boundVars>>
      /\ UNCHANGED <<ordered, dirty, rendering, activation, removing, again, retracted>>
  BY DEF LeaveFrame, listHist
<1>3. /\ PageTypes /\ c \in Shown /\ arming \subseteq Shown /\ removing \subseteq Shown
      /\ retracted \subseteq Comments /\ activation \in BOOLEAN
  BY <1>1, <1>2 DEF PageInv, PageTypes
<1>4. phase' \in [Comments -> Phases] /\ Shown' = Shown
  <2>1. "leaving" \in Phases \ {"none"}
    BY DEF Phases
  <2> QED BY <1>2, <1>3, <2>1, PhaseSet
<1>5. HubInv' /\ WireInv' /\ UNCHANGED <<ever, hidden, last, forgets>> /\ UNCHANGED conn
  BY <1>2, <1>4, LocalStep
<1>6. PageInv'
  BY <1>1, <1>2, <1>3, <1>4, <1>5, CardsMove
<1> QED BY <1>5, <1>6, PartsToInv

LEMMA ActivationFrameStep ==
    ASSUME ListInv, ActivationFrame
    PROVE  ListInv'
<1>1. PageInv
  BY InvInParts
<1>2. /\ activation' = FALSE
      /\ arming' = arming \cup {c \in ToSet(ordered) \ dirty : phase[c] = "entering"}
      /\ UNCHANGED <<hubVars, wireVars, ever, hidden, boundVars>>
      /\ UNCHANGED <<phase, ordered, dirty, rendering, removing, pushedOut, again, retracted>>
  BY DEF ActivationFrame, listHist
<1>3. /\ phase \in [Comments -> Phases] /\ arming \subseteq Shown /\ removing \subseteq Shown
      /\ retracted \subseteq Comments /\ ToSet(ordered) \subseteq Shown
  BY <1>1 DEF PageInv, PageTypes, PageApart
<1>4. Shown' = Shown /\ activation' \in BOOLEAN /\ arming' \subseteq Shown
  BY <1>2, <1>3 DEF Shown
<1>5. HubInv' /\ WireInv' /\ UNCHANGED <<ever, hidden, last, forgets>> /\ UNCHANGED conn
  BY <1>2, <1>4, LocalStep
<1>6. PageInv'
  BY <1>1, <1>2, <1>3, <1>4, <1>5, CardsMove
<1> QED BY <1>5, <1>6, PartsToInv

LEMMA ActivateTimerStep ==
    ASSUME ListInv, NEW c \in Comments, ActivateTimer(c)
    PROVE  ListInv'
<1>1. PageInv
  BY InvInParts
<1>2. /\ c \in arming /\ arming' = arming \ {c}
      /\ phase' = [phase EXCEPT ![c] = IF @ = "entering" THEN "active" ELSE @]
      /\ UNCHANGED <<hubVars, wireVars, ever, hidden, boundVars>>
      /\ UNCHANGED <<ordered, dirty, rendering, activation, removing, pushedOut, again, retracted>>
  BY DEF ActivateTimer, listHist
<1>3. /\ PageTypes /\ phase \in [Comments -> Phases] /\ c \in Shown /\ phase[c] # "none"
      /\ arming \subseteq Shown /\ removing \subseteq Shown
      /\ retracted \subseteq Comments /\ activation \in BOOLEAN
  BY <1>1, <1>2 DEF PageInv, PageTypes, Shown
<1>4. phase' \in [Comments -> Phases] /\ Shown' = Shown
  <2>1. PICK x \in Phases \ {"none"} : phase' = [phase EXCEPT ![c] = x]
    <3>1. phase' = [phase EXCEPT ![c] = IF phase[c] = "entering" THEN "active" ELSE phase[c]]
      BY <1>2
    <3>2. (IF phase[c] = "entering" THEN "active" ELSE phase[c]) \in Phases \ {"none"}
      BY <1>3 DEF Phases
    <3> QED BY <3>1, <3>2
  <2> QED BY <1>3, <2>1, PhaseSet
<1>5. HubInv' /\ WireInv' /\ UNCHANGED <<ever, hidden, last, forgets>> /\ UNCHANGED conn
  BY <1>2, <1>4, LocalStep
<1>6. PageInv'
  BY <1>1, <1>2, <1>3, <1>4, <1>5, CardsMove
<1> QED BY <1>5, <1>6, PartsToInv

LEMMA RemoveTimerStep ==
    ASSUME ListInv, NEW c \in Comments, RemoveTimer(c)
    PROVE  ListInv'
<1>1. PageInv
  BY InvInParts
<1>2. /\ phase' = [phase EXCEPT ![c] = "none"] /\ ordered' = Without(ordered, c)
      /\ arming' = arming \ {c} /\ removing' = removing \ {c} /\ pushedOut' = pushedOut \ {c}
      /\ dirty' = dirty \ {c} /\ again' = again \ {c} /\ retracted' = retracted \ {c}
      /\ rendering' = rendering /\ activation' = activation
      /\ UNCHANGED <<hubVars, wireVars, ever, hidden, boundVars>>
  BY DEF RemoveTimer
<1>3. /\ ordered \in Seq(Comments) /\ Len(ordered) \in Nat /\ IsInjective(ordered)
      /\ ToSet(ordered) \subseteq Shown /\ ToSet(ordered) \cap pushedOut = {}
      /\ Shown \subseteq 1..last
      /\ phase \in [Comments -> Phases] /\ arming \subseteq Shown /\ removing \subseteq Shown
      /\ pushedOut \subseteq Shown /\ dirty \subseteq Shown
      /\ again \subseteq Comments /\ retracted \subseteq Comments
      /\ ever \in BOOLEAN /\ hidden \in BOOLEAN /\ rendering \in BOOLEAN /\ activation \in BOOLEAN
  BY <1>1 DEF PageInv, PageTypes, ListInOrder, PageApart
<1>4. /\ ordered' \in Seq(Comments) /\ Thinned(ordered', ordered)
      /\ ToSet(ordered') = ToSet(ordered) \ {c} /\ Len(ordered') =< Len(ordered)
  BY <1>2, <1>3, WithoutFacts
<1>5. Shown' = Shown \ {c} /\ phase' \in [Comments -> Phases]
  BY <1>2, <1>3 DEF Shown, Phases
<1>6. HubInv' /\ WireInv' /\ UNCHANGED <<ever, hidden, last, forgets>> /\ UNCHANGED conn
  <2>1. Shown' \subseteq Shown
    BY <1>5
  <2> QED BY <1>2, <2>1, LocalStep
<1>7. PageTypes'
  <2>1. /\ arming' \subseteq Shown' /\ removing' \subseteq Shown' /\ pushedOut' \subseteq Shown'
        /\ again' \subseteq Comments /\ retracted' \subseteq Comments /\ dirty' \subseteq Shown'
    BY <1>2, <1>3, <1>5
  <2> QED BY <1>2, <1>3, <1>4, <1>5, <1>6, <2>1, Zenon DEF PageTypes
<1>8. CardsAccounted'
  <2> SUFFICES ASSUME NEW d \in Shown', d \notin again' PROVE d \in ToSet(ordered') \cup removing'
    BY DEF CardsAccounted
  <2>1. d \in Shown /\ d # c /\ d \notin again
    BY <1>2, <1>5
  <2>2. d \in ToSet(ordered) \cup removing
    BY <1>1, <2>1 DEF PageInv, CardsAccounted
  <2> QED BY <1>2, <1>4, <2>1, <2>2
<1>9. ListInOrder'
  <2>1. IsInjective(ordered') /\ (Increasing(ordered) => Increasing(ordered'))
    BY <1>3, <1>4, ThinnedKeeps
  <2>2. forgets = 0 => Increasing(ordered)
    BY <1>1, Zenon DEF PageInv, ListInOrder, Increasing
  <2>3. ~rendering' => Len(ordered') =< MaxComments
    <3>1. ~rendering => Len(ordered) =< MaxComments
      BY <1>1 DEF PageInv, ListInOrder
    <3>2. \A x, y, z \in Int : x =< y /\ y =< z => x =< z
      BY SMT
    <3>3. Len(ordered') \in Int /\ Len(ordered) \in Int /\ MaxComments \in Int
      BY <1>3, <1>4, ListAssumption
    <3> QED BY <1>2, <1>4, <3>1, <3>2, <3>3
  <2> QED BY <1>6, <2>1, <2>2, <2>3, Zenon DEF ListInOrder, Increasing
<1>10. PageApart'
  <2>1. ToSet(ordered') \subseteq Shown' /\ ToSet(ordered') \cap pushedOut' = {}
    BY <1>2, <1>3, <1>4, <1>5
  <2>2. Shown' \subseteq 1..last'
    BY <1>3, <1>5, <1>6
  <2>3. ~ever' => conn' # "open" /\ Shown' = {}
    BY <1>1, <1>5, <1>6 DEF PageInv, PageApart
  <2> QED BY <2>1, <2>2, <2>3, Zenon DEF PageApart
<1>11. PageInv'
  BY <1>7, <1>8, <1>9, <1>10 DEF PageInv
<1> QED BY <1>6, <1>11, PartsToInv

-----------------------------------------------------------------------------
(* The list starts empty, on a hub that has no comments.                      *)
LEMMA ListStarts == Init => ListInv
<1> SUFFICES ASSUME Init PROVE ListInv
  OBVIOUS
<1>1. /\ <<>> \in Seq(Comments) /\ <<>> \in Seq(Msgs) /\ DOMAIN <<>> = {} /\ Len(<<>>) = 0
      /\ 0 =< MaxComments
  BY ListAssumption, SMT
<1>2. /\ stored = <<>> /\ last = 0 /\ deleted = {} /\ resend = <<>> /\ visible \in BOOLEAN
      /\ conn = "off" /\ reply = <<>> /\ inbox = <<>> /\ ever = FALSE /\ hidden = FALSE
      /\ forgets = 0 /\ upsets = 0 /\ again = {} /\ retracted = {}
      /\ phase = [c \in Comments |-> "none"] /\ ordered = <<>> /\ dirty = {}
      /\ rendering = FALSE /\ activation = FALSE /\ arming = {} /\ removing = {} /\ pushedOut = {}
  BY DEF Init, EmptyPage
<1>3. ToSet(<<>>) = {} /\ IsInjective(<<>>) /\ Increasing(<<>>)
  BY <1>1 DEF ToSet, IsInjective, Increasing
<1>4. Shown = {} /\ \A i : ~CommentsAt(i)
  BY <1>1, <1>2 DEF Shown, CommentsAt
<1>5. HubInv
  <2>1. last \in 0..MaxSent /\ BoundTypes
    BY <1>2, ListAssumption, SMT DEF BoundTypes
  <2> QED BY <1>1, <1>2, <1>3, <2>1 DEF HubInv, HubTypes, HubOnce
<1>6. WireInv
  BY <1>1, <1>2, <1>3, <1>4 DEF WireInv, WireTypes, ReplyOnce, WireOnce, WireInOrder
<1>7. PageInv
  <2>1. PageTypes
    BY <1>1, <1>2, <1>4 DEF PageTypes, Phases
  <2>2. CardsAccounted /\ PageApart
    BY <1>2, <1>3, <1>4 DEF CardsAccounted, PageApart
  <2>3. ListInOrder
    BY <1>1, <1>2, <1>3, Zenon DEF ListInOrder, Increasing
  <2> QED BY <2>1, <2>2, <2>3 DEF PageInv
<1> QED BY <1>5, <1>6, <1>7, InvInParts

LEMMA ListStutters == ListInv /\ UNCHANGED listVars => ListInv'
<1> SUFFICES ASSUME ListInv, UNCHANGED listVars PROVE ListInv'
  OBVIOUS
<1>1. PageInv
  BY InvInParts
<1>2. UNCHANGED <<hubVars, wireVars, ever, hidden, boundVars>> /\ UNCHANGED <<cardVars, listHist>>
  BY DEF listVars, pageVars
<1>3. Shown' = Shown /\ Shown' \subseteq Shown
  BY <1>2 DEF cardVars, Shown
<1>4. HubInv' /\ WireInv' /\ UNCHANGED <<ever, hidden, last, forgets>> /\ UNCHANGED conn
  BY <1>2, <1>3, LocalStep
<1>5. UNCHANGED <<hidden, cardVars, listHist>> /\ 1..last \subseteq 1..last'
  BY <1>2, <1>4
<1>6. ever \in BOOLEAN /\ (~ever => conn # "open")
  BY <1>1 DEF PageInv, PageTypes, PageApart
<1>7. PageInv'
  BY <1>1, <1>4, <1>5, <1>6, PageStays
<1> QED BY <1>4, <1>7, PartsToInv

LEMMA ListContinues == ListInv /\ [Next]_listVars => ListInv'
<1> SUFFICES ASSUME ListInv, [Next]_listVars PROVE ListInv'
  OBVIOUS
<1>1. CASE Hub
  BY <1>1, CommentStep, ForgetStep, ResendStep, ToggleStep, DeleteStep DEF Hub
<1>2. CASE Connecting
  <2>1. CASE Reopen
    BY <2>1, ReloadStep DEF Reopen
  <2> QED BY <1>2, <2>1, RequestStep, RecentStep, SubscribeStep DEF Connecting
<1>3. CASE Drop
  BY <1>3, DropStep
<1>4. CASE Receive
  BY <1>4, ReceiveCommentsStep, ReceiveDeletedStep, ReceiveConfigStep DEF Receive
<1>5. CASE Flush
  BY <1>5, FlushStep
<1>6. CASE ActivationFrame
  BY <1>6, ActivationFrameStep
<1>7. CASE Timers
  BY <1>7, LeaveFrameStep, ActivateTimerStep, RemoveTimerStep DEF Timers
<1>8. CASE UNCHANGED listVars
  BY <1>8, ListStutters
<1> QED BY <1>1, <1>2, <1>3, <1>4, <1>5, <1>6, <1>7, <1>8 DEF Next

\* The inductive invariant of hub, event stream and page.
THEOREM ListInvariant == Spec => []ListInv
BY ListStarts, ListContinues, PTL DEF Spec

\* Type correctness; timers and frames are pending for entries only.
THEOREM ListTypeCorrect == Spec => []ListTypeOK
<1>1. ListInv => ListTypeOK
  BY DEF ListInv
<1> QED BY <1>1, ListInvariant, PTL

\* No card is left over: every entry has its place in the list or a removal
\* that is pending, but for comments delivered again while they had an entry.
THEOREM NoCardLeftOver == Spec => []CardsAccounted
<1>1. ListInv => CardsAccounted
  BY DEF ListInv
<1> QED BY <1>1, ListInvariant, PTL

\* The list keeps to its limit, holds a comment once, and, until the hub has
\* forgotten its comments, keeps the order of the stream across the replay.
THEOREM ListKeepsOrder == Spec => []ListInOrder
<1>1. ListInv => ListInOrder
  BY DEF ListInv
<1> QED BY <1>1, ListInvariant, PTL
===============================================================================
