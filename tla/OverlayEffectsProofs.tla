------------------------- MODULE OverlayEffectsProofs -------------------------
(***************************************************************************)
(* What OverlayEffects guarantees for any kinds, limits and capacities, and   *)
(* any number of effects, pauses, clears and breaks of the event stream.      *)
(***************************************************************************)
EXTENDS OverlayEffects, SequenceTheorems, TLAPS

\* The effects triggered so far, and the messages there can be about them.
Seen == 1..Len(kind)
Msg(n) == {Fire(i) : i \in 1..n} \cup {Pause(TRUE), Pause(FALSE), ClearAll}

\* Whatever waits, shows or travels has been triggered.
EngineTypes ==
    /\ kind \in Seq(Kinds) /\ Len(kind) =< MaxFires
    /\ paused \in BOOLEAN /\ conn \in BOOLEAN
    /\ superchats \in Seq(Seen) /\ manuals \in Seq(Seen) /\ active \in Seq(Seen)
    /\ inbox \in Seq(Msg(Len(kind)))
BoundTypes == pauses \in 0..MaxPauses /\ upsets \in 0..MaxUpsets
PageTypes ==
    /\ overlayPaused \in BOOLEAN /\ live \in Int /\ timers \in Nat
    /\ showing \subseteq Seen /\ queue \in Seq(Seen)
    /\ queueTimer \in BOOLEAN /\ resumeChecks \in Nat
    /\ ticker \in {0} \cup Seen /\ tickerQueue \in Seq(Seen)
    /\ bubbles \subseteq Seen /\ bubbleQueue \in Seq(Seen)
    /\ bubbleTimer \in BOOLEAN /\ spawnLock \in {0} \cup Seen /\ unfit \subseteq Seen
    /\ overlay \in {"none", "shown", "fading", "detached"} /\ fresh \in BOOLEAN /\ checking \in BOOLEAN
HistTypes == held \subseteq Seen /\ wiped \subseteq Seen

EffectsInv ==
    /\ EngineTypes /\ BoundTypes /\ PageTypes /\ HistTypes
    /\ EngineServes /\ ExclusiveAlone /\ QueuesAwake

-----------------------------------------------------------------------------
(* Sequences.                                                                *)

LEMMA SeqGrows ==
    ASSUME NEW S, NEW T, S \subseteq T, NEW s \in Seq(S)
    PROVE  s \in Seq(T)
BY SMT

LEMMA NoneOf == \A S : <<>> \in Seq(S)
BY SMT

(* Parts of a sequence.                                                       *)
LEMMA PartOf ==
    ASSUME NEW S, NEW s \in Seq(S), NEW m \in Nat \ {0}, NEW n \in 0..Len(s)
    PROVE  /\ SubSeq(s, m, n) \in Seq(S)
           /\ Len(SubSeq(s, m, n)) = IF m =< n THEN n - m + 1 ELSE 0
<1>1. \A i \in m..n : s[i] \in S
  OBVIOUS
<1> QED BY <1>1, SubSeqProperties

LEMMA ConcatType ==
    ASSUME NEW S, NEW s \in Seq(S), NEW t \in Seq(S)
    PROVE  s \o t \in Seq(S) /\ Len(s \o t) = Len(s) + Len(t)
BY ConcatProperties

(* What joins a queue joins its elements.                                       *)
LEMMA ElementsAppend ==
    ASSUME NEW S, NEW q \in Seq(S), NEW i \in S
    PROVE  Elements(Append(q, i)) = Elements(q) \cup {i}
<1> DEFINE r == Append(q, i)
<1>1. /\ Len(r) = Len(q) + 1 /\ r[Len(q) + 1] = i /\ r \in Seq(S)
      /\ \A j \in 1..Len(q) : r[j] = q[j]
  BY AppendProperties
<1>2. DOMAIN r = 1..(Len(q) + 1) /\ DOMAIN q = 1..Len(q) /\ Len(q) \in Nat
  BY <1>1
<1> HIDE DEF r
<1>3. ASSUME NEW e \in Elements(r) PROVE e \in Elements(q) \cup {i}
  BY <1>1, <1>2 DEF Elements
<1>4. ASSUME NEW e \in Elements(q) PROVE e \in Elements(r)
  <2>1. PICK j \in 1..Len(q) : e = q[j]
    BY <1>2 DEF Elements
  <2>2. j \in DOMAIN r /\ r[j] = e
    BY <1>1, <1>2, <2>1
  <2> QED BY <2>2 DEF Elements
<1>5. i \in Elements(r)
  <2>1. Len(q) + 1 \in DOMAIN r
    BY <1>2
  <2> QED BY <1>1, <2>1 DEF Elements
<1> QED BY <1>3, <1>4, <1>5 DEF r

(* The limit of a queue drops its oldest entry.                                *)
LEMMA EnqueueType ==
    ASSUME NEW S, NEW q \in Seq(S), NEW i \in S
    PROVE  Enqueue(q, i) \in Seq(S) /\ Enqueue(q, i) # <<>>
<1> USE EffectsAssumption DEF EffectsAssumption
<1>1. CASE Len(q) >= EngineQueue
  <2>1. q # <<>> /\ Tail(q) \in Seq(S)
    BY <1>1
  <2> QED BY <1>1, <2>1, AppendProperties DEF Enqueue
<1>2. CASE ~(Len(q) >= EngineQueue)
  BY <1>2, AppendProperties DEF Enqueue
<1> QED BY <1>1, <1>2

LEMMA UnexpiredType ==
    ASSUME NEW S, active \in Seq(S), NEW act \in Unexpired
    PROVE  act \in Seq(S) /\ Len(act) =< Len(active)
<1>1. PICK n \in 0..Len(active) : act = SubSeq(active, n + 1, Len(active))
  BY DEF Unexpired
<1> QED BY <1>1, PartOf

(* process_queue keeps the limit, and leaves something waiting only behind it.  *)
LEMMA ServedFacts ==
    ASSUME NEW S, NEW sc \in Seq(S), NEW mn \in Seq(S), NEW act \in Seq(S), NEW halted \in BOOLEAN,
           Len(act) =< MaxEffects
    PROVE  LET r == Served(sc, mn, act, halted) IN
           /\ r.fired \in Seq(S) /\ r.active \in Seq(S)
           /\ r.superchats \in Seq(S) /\ r.manuals \in Seq(S)
           /\ Len(r.active) =< MaxEffects
           /\ r.superchats # <<>> \/ r.manuals # <<>> => halted \/ Len(r.active) = MaxEffects
<1> USE EffectsAssumption DEF EffectsAssumption
<1> DEFINE all == sc \o mn
           room == IF MaxEffects > Len(act) /\ ~halted THEN MaxEffects - Len(act) ELSE 0
           n == IF room < Len(all) THEN room ELSE Len(all)
           m == IF n > Len(sc) THEN n - Len(sc) + 1 ELSE 1
           fired == SubSeq(all, 1, n)
           sc2 == SubSeq(sc, n + 1, Len(sc))
           mn2 == SubSeq(mn, m, Len(mn))
<1>1. all \in Seq(S) /\ Len(all) = Len(sc) + Len(mn) /\ Len(sc) \in Nat /\ Len(mn) \in Nat
  BY ConcatType
<1>2. room \in Nat /\ (room = 0 => halted \/ Len(act) = MaxEffects) /\ Len(act) + room =< MaxEffects
  OBVIOUS
<1>3. n \in 0..Len(all) /\ (n < Len(all) => n = room) /\ n =< room
  BY <1>1, <1>2
<1>4. m \in Nat \ {0} /\ (m =< Len(mn) => n < Len(all)) /\ (n + 1 =< Len(sc) => n < Len(all))
  BY <1>1, <1>3
<1>5. Served(sc, mn, act, halted)
        = [fired |-> fired, active |-> act \o fired, superchats |-> sc2, manuals |-> mn2]
  BY DEF Served
<1>6. fired \in Seq(S) /\ Len(fired) = n
  BY <1>1, <1>3, PartOf
<1>7. sc2 \in Seq(S) /\ (sc2 # <<>> => n + 1 =< Len(sc))
  <2>1. sc2 \in Seq(S) /\ Len(sc2) = IF n + 1 =< Len(sc) THEN Len(sc) - (n + 1) + 1 ELSE 0
    <3>1. n + 1 \in Nat \ {0} /\ Len(sc) \in 0..Len(sc)
      BY <1>1, <1>3
    <3> HIDE DEF n
    <3> QED BY <3>1, PartOf
  <2> QED BY <2>1, EmptySeq
<1>8. mn2 \in Seq(S) /\ (mn2 # <<>> => m =< Len(mn))
  <2>1. mn2 \in Seq(S) /\ Len(mn2) = IF m =< Len(mn) THEN Len(mn) - m + 1 ELSE 0
    BY <1>1, <1>4, PartOf
  <2> QED BY <2>1, EmptySeq
<1> HIDE DEF fired, sc2, mn2, all
<1>9. act \o fired \in Seq(S) /\ Len(act \o fired) = Len(act) + n
  BY <1>6, ConcatType
<1>10. sc2 # <<>> \/ mn2 # <<>> => halted \/ Len(act) + n = MaxEffects
  <2>1. sc2 # <<>> \/ mn2 # <<>> => n = room
    BY <1>3, <1>4, <1>7, <1>8
  <2>2. ~halted => Len(act) + room = MaxEffects
    OBVIOUS
  <2> QED BY <2>1, <2>2
<1>11. Len(act \o fired) =< MaxEffects
  BY <1>2, <1>3, <1>9
<1> QED BY <1>5, <1>6, <1>7, <1>8, <1>9, <1>10, <1>11

LEMMA MessagesType ==
    ASSUME NEW n \in Nat, NEW ids \in Seq(1..n)
    PROVE  Messages(ids) \in Seq(Msg(n))
<1>1. ASSUME NEW j \in DOMAIN ids PROVE Fire(ids[j]) \in Msg(n)
  <2>1. ids[j] \in 1..n
    OBVIOUS
  <2> QED BY <2>1 DEF Msg
<1>2. DOMAIN ids = 1..Len(ids) /\ Len(ids) \in Nat
  OBVIOUS
<1>3. Messages(ids) \in [1..Len(ids) -> Msg(n)]
  BY <1>1, <1>2 DEF Messages
<1> QED BY <1>2, <1>3

-----------------------------------------------------------------------------
(* The engine.                                                               *)

(* What was typed for the effects so far is typed for more of them.           *)
LEMMA EngineGrows ==
    ASSUME EngineTypes, HistTypes, NEW n \in Nat, Len(kind) =< n
    PROVE  /\ superchats \in Seq(1..n) /\ manuals \in Seq(1..n) /\ active \in Seq(1..n)
           /\ inbox \in Seq(Msg(n)) /\ held \subseteq 1..n /\ wiped \subseteq 1..n
<1>1. Seen \subseteq 1..n
  BY DEF Seen, EngineTypes
<1>2. Msg(Len(kind)) \subseteq Msg(n)
  BY <1>1 DEF Msg, Seen
<1> QED BY <1>1, <1>2, SeqGrows DEF EngineTypes, HistTypes

(* The page is left alone by a handler of the hub.                             *)
LEMMA PageKept ==
    ASSUME EffectsInv, Len(kind') \in Nat, Len(kind) =< Len(kind'),
           \A i \in Seen : kind'[i] = kind[i],
           UNCHANGED <<overlayPaused, rendererVars, pluginVars>>
    PROVE  PageTypes' /\ ExclusiveAlone' /\ QueuesAwake'
<1> USE DEF EffectsInv, rendererVars, pluginVars, fixedVars, tickerVars, bubbleVars, screenVars
<1>1. Seen \subseteq Seen'
  BY DEF Seen, EngineTypes
<1>2. queue \in Seq(Seen') /\ tickerQueue \in Seq(Seen') /\ bubbleQueue \in Seq(Seen')
  BY <1>1, SeqGrows DEF PageTypes
<1>3. PageTypes'
  BY <1>1, <1>2 DEF PageTypes
<1>4. ExclusiveAlone'
  BY DEF ExclusiveAlone, PageTypes
<1>5. QueuesAwake'
  BY DEF QueuesAwake, BubblesAwake
<1> QED BY <1>3, <1>4, <1>5

LEMMA NewFireFacts ==
    ASSUME EngineTypes, NewFire
    PROVE  /\ kind' \in Seq(Kinds) /\ Len(kind') = Len(kind) + 1 /\ Len(kind') =< MaxFires
           /\ Len(kind') \in Nat /\ Newest \in 1..Len(kind')
           /\ \A i \in Seen : kind'[i] = kind[i]
<1> USE EffectsAssumption DEF EffectsAssumption
<1>1. PICK k \in Kinds : kind' = Append(kind, k)
  BY DEF NewFire
<1>2. kind \in Seq(Kinds) /\ Len(kind) < MaxFires /\ Len(kind) \in Nat
  BY DEF NewFire, EngineTypes
<1> QED BY <1>1, <1>2, AppendProperties DEF Newest, Seen

(* What Emit leaves in the engine and on the way to the page.                   *)
LEMMA EmitFacts ==
    ASSUME NEW n \in Nat, NEW owed \in SUBSET (1..n), NEW atOnce \in Seq(1..n),
           NEW then \in Seq(Msg(n)), NEW sc \in Seq(1..n), NEW mn \in Seq(1..n),
           NEW act \in Seq(1..n), NEW halted \in BOOLEAN,
           Len(act) =< MaxEffects, inbox \in Seq(Msg(n)),
           Emit(owed, atOnce, Served(sc, mn, act, halted), then)
    PROVE  /\ superchats' \in Seq(1..n) /\ manuals' \in Seq(1..n) /\ active' \in Seq(1..n)
           /\ inbox' \in Seq(Msg(n)) /\ held' \subseteq 1..n
           /\ Len(active') =< MaxEffects
           /\ superchats' # <<>> \/ manuals' # <<>> => halted \/ Len(active') = MaxEffects
<1> DEFINE r == Served(sc, mn, act, halted)
<1>1. /\ r.fired \in Seq(1..n) /\ r.active \in Seq(1..n)
      /\ r.superchats \in Seq(1..n) /\ r.manuals \in Seq(1..n)
      /\ Len(r.active) =< MaxEffects
      /\ r.superchats # <<>> \/ r.manuals # <<>> => halted \/ Len(r.active) = MaxEffects
  BY ServedFacts
<1> HIDE DEF r
<1>2. atOnce \o r.fired \in Seq(1..n)
  BY <1>1, ConcatType
<1>3. Messages(atOnce \o r.fired) \in Seq(Msg(n))
  BY <1>2, MessagesType
<1>4. Messages(atOnce \o r.fired) \o then \in Seq(Msg(n))
  BY <1>3, ConcatType
<1>5. inbox \o (Messages(atOnce \o r.fired) \o then) \in Seq(Msg(n))
  BY <1>4, ConcatType
<1>6. /\ superchats' = r.superchats /\ manuals' = r.manuals /\ active' = r.active
      /\ held' \subseteq owed
      /\ inbox' = inbox \/ inbox' = inbox \o (Messages(atOnce \o r.fired) \o then)
  BY DEF Emit, Broadcast, r
<1> QED BY <1>1, <1>5, <1>6

(* The parts of the invariant that the engine can disturb.                       *)
LEMMA EngineInvNext ==
    ASSUME EffectsInv, NEW n \in Nat, n = Len(kind'), Len(kind) =< n, n =< MaxFires,
           kind' \in Seq(Kinds), \A i \in Seen : kind'[i] = kind[i],
           UNCHANGED <<conn, overlayPaused, rendererVars, pluginVars, wiped>>,
           paused' \in BOOLEAN, pauses' \in 0..MaxPauses, upsets' \in 0..MaxUpsets,
           superchats' \in Seq(1..n), manuals' \in Seq(1..n), active' \in Seq(1..n),
           inbox' \in Seq(Msg(n)), held' \subseteq 1..n, EngineServes'
    PROVE  EffectsInv'
<1>1. PageTypes' /\ ExclusiveAlone' /\ QueuesAwake'
  BY PageKept
<1>2. EngineTypes' /\ BoundTypes'
  BY DEF EffectsInv, EngineTypes, BoundTypes, Seen
<1>3. HistTypes'
  BY EngineGrows DEF EffectsInv, HistTypes, Seen
<1> QED BY <1>1, <1>2, <1>3 DEF EffectsInv

(* Queues are served after the oldest effects have run out.                       *)
LEMMA ExpiredFacts ==
    ASSUME EffectsInv, NEW n \in Nat, Len(kind) =< n, NEW act \in Unexpired
    PROVE  act \in Seq(1..n) /\ Len(act) =< MaxEffects
<1>1. active \in Seq(1..n) /\ Len(active) =< MaxEffects /\ Len(active) \in Nat
  BY EngineGrows DEF EffectsInv, EngineServes
<1>2. act \in Seq(1..n) /\ Len(act) =< Len(active) /\ Len(act) \in Nat
  BY <1>1, UnexpiredType
<1> QED BY <1>1, <1>2, EffectsAssumption DEF EffectsAssumption

LEMMA SuperchatStep == ASSUME EffectsInv, Superchat PROVE EffectsInv'
<1> USE DEF EngineStep
<1> DEFINE n == Len(kind')
<1>1. /\ kind' \in Seq(Kinds) /\ n \in Nat /\ Len(kind) =< n /\ n =< MaxFires
      /\ Newest \in 1..n /\ \A i \in Seen : kind'[i] = kind[i]
  BY NewFireFacts DEF EffectsInv, EngineTypes, Superchat
<1>2. /\ superchats \in Seq(1..n) /\ manuals \in Seq(1..n) /\ inbox \in Seq(Msg(n))
      /\ held \subseteq 1..n
  BY <1>1, EngineGrows DEF EffectsInv
<1> HIDE DEF n
<1>3. PICK act \in Unexpired :
        Emit((held \cup (IF paused THEN {Newest} ELSE {}))
               \ (IF Len(superchats) >= EngineQueue THEN {Head(superchats)} ELSE {}),
             <<>>, Served(Enqueue(superchats, Newest), manuals, act, paused), <<>>)
  BY DEF Superchat
<1>4. act \in Seq(1..n) /\ Len(act) =< MaxEffects
  BY <1>1, ExpiredFacts
<1>5. Enqueue(superchats, Newest) \in Seq(1..n)
  BY <1>1, <1>2, EnqueueType
<1>6. (held \cup (IF paused THEN {Newest} ELSE {}))
        \ (IF Len(superchats) >= EngineQueue THEN {Head(superchats)} ELSE {}) \in SUBSET (1..n)
  BY <1>1, <1>2
<1>7. paused \in BOOLEAN /\ <<>> \in Seq(1..n) /\ <<>> \in Seq(Msg(n))
  BY DEF EffectsInv, EngineTypes
<1>8. /\ superchats' \in Seq(1..n) /\ manuals' \in Seq(1..n) /\ active' \in Seq(1..n)
      /\ inbox' \in Seq(Msg(n)) /\ held' \subseteq 1..n
      /\ Len(active') =< MaxEffects
      /\ superchats' # <<>> \/ manuals' # <<>> => paused \/ Len(active') = MaxEffects
  BY <1>1, <1>2, <1>3, <1>4, <1>5, <1>6, <1>7, EmitFacts
<1>9. UNCHANGED <<paused, conn, overlayPaused, rendererVars, pluginVars, pauses, upsets, wiped>>
  BY DEF Superchat
<1>10. EngineServes'
  BY <1>8, <1>9 DEF EngineServes
<1>11. paused' \in BOOLEAN /\ pauses' \in 0..MaxPauses /\ upsets' \in 0..MaxUpsets
  BY <1>7, <1>9 DEF EffectsInv, BoundTypes
<1> QED BY <1>1, <1>8, <1>9, <1>10, <1>11, EngineInvNext DEF n
LEMMA KeywordStep == ASSUME EffectsInv, Keyword PROVE EffectsInv'
<1> USE DEF EngineStep
<1> DEFINE n == Len(kind')
<1>1. /\ kind' \in Seq(Kinds) /\ n \in Nat /\ Len(kind) =< n /\ n =< MaxFires
      /\ Newest \in 1..n /\ \A i \in Seen : kind'[i] = kind[i]
  BY NewFireFacts DEF EffectsInv, EngineTypes, Keyword
<1>2. /\ superchats \in Seq(1..n) /\ manuals \in Seq(1..n) /\ inbox \in Seq(Msg(n))
      /\ held \in SUBSET (1..n)
  BY <1>1, EngineGrows DEF EffectsInv
<1> HIDE DEF n
<1>3. paused \in BOOLEAN /\ <<>> \in Seq(1..n) /\ <<>> \in Seq(Msg(n)) /\ <<Newest>> \in Seq(1..n)
  BY <1>1 DEF EffectsInv, EngineTypes
<1>4. PICK act \in Unexpired :
        \/ /\ ~paused /\ Len(act) < MaxEffects
           /\ Emit(held, <<Newest>>, Served(superchats, manuals, Append(act, Newest), FALSE), <<>>)
        \/ Emit(held, <<>>, Served(superchats, manuals, act, paused), <<>>)
  BY DEF Keyword
<1>5. act \in Seq(1..n) /\ Len(act) =< MaxEffects
  BY <1>1, ExpiredFacts
<1>6. /\ superchats' \in Seq(1..n) /\ manuals' \in Seq(1..n) /\ active' \in Seq(1..n)
      /\ inbox' \in Seq(Msg(n)) /\ held' \subseteq 1..n
      /\ Len(active') =< MaxEffects
      /\ superchats' # <<>> \/ manuals' # <<>> => paused \/ Len(active') = MaxEffects
  <2>1. CASE /\ ~paused /\ Len(act) < MaxEffects
             /\ Emit(held, <<Newest>>, Served(superchats, manuals, Append(act, Newest), FALSE), <<>>)
    <3>1. Append(act, Newest) \in Seq(1..n) /\ Len(Append(act, Newest)) =< MaxEffects
      BY <1>1, <1>5, <2>1, EffectsAssumption, AppendProperties DEF EffectsAssumption
    <3> QED BY <1>1, <1>2, <1>3, <2>1, <3>1, EmitFacts
  <2>2. CASE Emit(held, <<>>, Served(superchats, manuals, act, paused), <<>>)
    BY <1>1, <1>2, <1>3, <1>5, <2>2, EmitFacts
  <2> QED BY <1>4, <2>1, <2>2
<1>7. UNCHANGED <<paused, conn, overlayPaused, rendererVars, pluginVars, pauses, upsets, wiped>>
  BY DEF Keyword
<1>8. EngineServes' /\ paused' \in BOOLEAN /\ pauses' \in 0..MaxPauses /\ upsets' \in 0..MaxUpsets
  BY <1>6, <1>7 DEF EngineServes, EffectsInv, EngineTypes, BoundTypes
<1> QED BY <1>1, <1>6, <1>7, <1>8, EngineInvNext DEF n

LEMMA ManualStep == ASSUME EffectsInv, Manual PROVE EffectsInv'
<1> USE DEF EngineStep
<1> DEFINE n == Len(kind')
<1>1. /\ kind' \in Seq(Kinds) /\ n \in Nat /\ Len(kind) =< n /\ n =< MaxFires
      /\ Newest \in 1..n /\ \A i \in Seen : kind'[i] = kind[i]
  BY NewFireFacts DEF EffectsInv, EngineTypes, Manual
<1>2. /\ superchats \in Seq(1..n) /\ manuals \in Seq(1..n) /\ inbox \in Seq(Msg(n))
      /\ held \in SUBSET (1..n)
  BY <1>1, EngineGrows DEF EffectsInv
<1> HIDE DEF n
<1>3. paused \in BOOLEAN /\ <<>> \in Seq(1..n) /\ <<>> \in Seq(Msg(n))
  BY DEF EffectsInv, EngineTypes
<1>4. PICK act \in Unexpired :
        Emit(held, <<>>, Served(superchats, Enqueue(manuals, Newest), act, paused), <<>>)
  BY DEF Manual
<1>5. act \in Seq(1..n) /\ Len(act) =< MaxEffects /\ Enqueue(manuals, Newest) \in Seq(1..n)
  BY <1>1, <1>2, ExpiredFacts, EnqueueType
<1>6. /\ superchats' \in Seq(1..n) /\ manuals' \in Seq(1..n) /\ active' \in Seq(1..n)
      /\ inbox' \in Seq(Msg(n)) /\ held' \subseteq 1..n
      /\ Len(active') =< MaxEffects
      /\ superchats' # <<>> \/ manuals' # <<>> => paused \/ Len(active') = MaxEffects
  BY <1>1, <1>2, <1>3, <1>4, <1>5, EmitFacts
<1>7. UNCHANGED <<paused, conn, overlayPaused, rendererVars, pluginVars, pauses, upsets, wiped>>
  BY DEF Manual
<1>8. EngineServes' /\ paused' \in BOOLEAN /\ pauses' \in 0..MaxPauses /\ upsets' \in 0..MaxUpsets
  BY <1>6, <1>7 DEF EngineServes, EffectsInv, EngineTypes, BoundTypes
<1> QED BY <1>1, <1>6, <1>7, <1>8, EngineInvNext DEF n

LEMMA PlainCommentStep == ASSUME EffectsInv, PlainComment PROVE EffectsInv'
<1> USE DEF EngineStep
<1> DEFINE n == Len(kind')
<1>1. /\ kind' \in Seq(Kinds) /\ n \in Nat /\ Len(kind) =< n /\ n =< MaxFires
      /\ kind' = kind /\ \A i \in Seen : kind'[i] = kind[i]
  BY DEF EffectsInv, EngineTypes, PlainComment
<1>2. /\ superchats \in Seq(1..n) /\ manuals \in Seq(1..n) /\ active \in Seq(1..n)
      /\ inbox \in Seq(Msg(n)) /\ held \in SUBSET (1..n)
  BY <1>1, EngineGrows DEF EffectsInv
<1> HIDE DEF n
<1>3. paused \in BOOLEAN /\ <<>> \in Seq(1..n) /\ <<>> \in Seq(Msg(n))
  BY DEF EffectsInv, EngineTypes
<1>4. PICK act \in Unexpired :
        Emit(held, <<>>, Served(superchats, manuals, act, paused), <<>>)
  BY DEF PlainComment
<1>5. act \in Seq(1..n) /\ Len(act) =< MaxEffects
  BY <1>1, ExpiredFacts
<1>6. /\ superchats' \in Seq(1..n) /\ manuals' \in Seq(1..n) /\ active' \in Seq(1..n)
      /\ inbox' \in Seq(Msg(n)) /\ held' \subseteq 1..n
      /\ Len(active') =< MaxEffects
      /\ superchats' # <<>> \/ manuals' # <<>> => paused \/ Len(active') = MaxEffects
  BY <1>1, <1>2, <1>3, <1>4, <1>5, EmitFacts
<1>7. UNCHANGED <<paused, conn, overlayPaused, rendererVars, pluginVars, pauses, upsets, wiped>>
  BY DEF PlainComment
<1>8. EngineServes' /\ paused' \in BOOLEAN /\ pauses' \in 0..MaxPauses /\ upsets' \in 0..MaxUpsets
  BY <1>6, <1>7 DEF EngineServes, EffectsInv, EngineTypes, BoundTypes
<1> QED BY <1>1, <1>6, <1>7, <1>8, EngineInvNext DEF n

(* Resuming serves the queues, although the pages are told later.                  *)
LEMMA ResumeEngineStep == ASSUME EffectsInv, ResumeEngine PROVE EffectsInv'
<1> DEFINE n == Len(kind')
<1>1. /\ kind' \in Seq(Kinds) /\ n \in Nat /\ Len(kind) =< n /\ n =< MaxFires
      /\ kind' = kind /\ \A i \in Seen : kind'[i] = kind[i]
  BY DEF EffectsInv, EngineTypes, ResumeEngine
<1>2. /\ superchats \in Seq(1..n) /\ manuals \in Seq(1..n) /\ active \in Seq(1..n)
      /\ inbox \in Seq(Msg(n)) /\ held \in SUBSET (1..n)
  BY <1>1, EngineGrows DEF EffectsInv
<1> HIDE DEF n
<1>3. <<>> \in Seq(1..n) /\ <<Pause(FALSE)>> \in Seq(Msg(n))
  BY DEF Msg
<1>4. PICK act \in Unexpired :
        Emit(held, <<>>, Served(superchats, manuals, act, FALSE), <<Pause(FALSE)>>)
  BY DEF ResumeEngine
<1>5. act \in Seq(1..n) /\ Len(act) =< MaxEffects
  BY <1>1, ExpiredFacts
<1>6. /\ superchats' \in Seq(1..n) /\ manuals' \in Seq(1..n) /\ active' \in Seq(1..n)
      /\ inbox' \in Seq(Msg(n)) /\ held' \subseteq 1..n
      /\ Len(active') =< MaxEffects
      /\ superchats' # <<>> \/ manuals' # <<>> => FALSE \/ Len(active') = MaxEffects
  BY <1>1, <1>2, <1>3, <1>4, <1>5, EmitFacts
<1>7. /\ UNCHANGED <<conn, overlayPaused, rendererVars, pluginVars, upsets, wiped>>
      /\ paused' \in BOOLEAN /\ pauses' \in 0..MaxPauses
  <2>1. UNCHANGED <<conn, overlayPaused, rendererVars, pluginVars, upsets, wiped>> /\ paused' = FALSE
    BY DEF ResumeEngine
  <2>2. pauses < MaxPauses /\ pauses' = pauses + 1
    BY DEF ResumeEngine
  <2>3. pauses' \in 0..MaxPauses
    BY <2>2, EffectsAssumption DEF EffectsInv, BoundTypes, EffectsAssumption
  <2>4. paused' \in BOOLEAN
    BY <2>1
  <2> QED BY <2>1, <2>3, <2>4
<1>8. EngineServes' /\ upsets' \in 0..MaxUpsets
  BY <1>6, <1>7 DEF EngineServes, EffectsInv, BoundTypes
<1> QED BY <1>1, <1>6, <1>7, <1>8, EngineInvNext DEF n

LEMMA PauseEngineStep == ASSUME EffectsInv, PauseEngine PROVE EffectsInv'
<1> DEFINE n == Len(kind')
<1>1. /\ kind' \in Seq(Kinds) /\ n \in Nat /\ Len(kind) =< n /\ n =< MaxFires
      /\ kind' = kind /\ \A i \in Seen : kind'[i] = kind[i]
  BY DEF EffectsInv, EngineTypes, PauseEngine
<1>2. /\ superchats \in Seq(1..n) /\ manuals \in Seq(1..n) /\ active \in Seq(1..n)
      /\ inbox \in Seq(Msg(n)) /\ held \in SUBSET (1..n)
  BY <1>1, EngineGrows DEF EffectsInv
<1> HIDE DEF n
<1>3. inbox' \in Seq(Msg(n))
  <2>1. <<Pause(TRUE)>> \in Seq(Msg(n))
    BY DEF Msg
  <2> QED BY <1>2, <2>1, ConcatType DEF PauseEngine, Broadcast
<1>4. /\ UNCHANGED <<conn, overlayPaused, rendererVars, pluginVars, upsets, wiped, superchats, manuals,
                     active, held>>
      /\ paused' = TRUE /\ pauses' \in 0..MaxPauses
  BY EffectsAssumption DEF PauseEngine, EffectsInv, BoundTypes, EffectsAssumption, effectHist
<1>5. EngineServes' /\ upsets' \in 0..MaxUpsets
  BY <1>4 DEF EngineServes, EffectsInv, BoundTypes
<1> QED BY <1>1, <1>2, <1>3, <1>4, <1>5, EngineInvNext DEF n

LEMMA ClearPerformancesStep == ASSUME EffectsInv, ClearPerformances PROVE EffectsInv'
<1> DEFINE n == Len(kind')
<1>1. /\ kind' \in Seq(Kinds) /\ n \in Nat /\ Len(kind) =< n /\ n =< MaxFires
      /\ kind' = kind /\ \A i \in Seen : kind'[i] = kind[i]
  BY DEF EffectsInv, EngineTypes, ClearPerformances
<1>2. /\ superchats \in Seq(1..n) /\ manuals \in Seq(1..n) /\ active \in Seq(1..n)
      /\ inbox \in Seq(Msg(n)) /\ held \in SUBSET (1..n)
  BY <1>1, EngineGrows DEF EffectsInv
<1> HIDE DEF n
<1>3. inbox' \in Seq(Msg(n))
  <2>1. <<ClearAll>> \in Seq(Msg(n))
    BY DEF Msg
  <2> QED BY <1>2, <2>1, ConcatType DEF ClearPerformances, Broadcast
<1>4. /\ UNCHANGED <<paused, conn, overlayPaused, rendererVars, pluginVars, pauses, wiped>>
      /\ superchats' = <<>> /\ manuals' = <<>> /\ active' = <<>>
      /\ held' \subseteq held /\ upsets' \in 0..MaxUpsets
  BY EffectsAssumption DEF ClearPerformances, EffectsInv, BoundTypes, EffectsAssumption
<1>5. EngineServes'
  <2>1. Len(active') =< MaxEffects
    BY <1>4, EffectsAssumption DEF EffectsAssumption
  <2> QED BY <1>4, <2>1 DEF EngineServes
<1>6. pauses' \in 0..MaxPauses
  BY <1>4 DEF EffectsInv, BoundTypes
<1>7. paused' \in BOOLEAN
  BY <1>4 DEF EffectsInv, EngineTypes
<1>8. held' \subseteq 1..n /\ superchats' \in Seq(1..n) /\ manuals' \in Seq(1..n) /\ active' \in Seq(1..n)
  BY <1>2, <1>4
<1> QED BY <1>1, <1>3, <1>4, <1>5, <1>6, <1>7, <1>8, EngineInvNext DEF n

-----------------------------------------------------------------------------
(* The page, plugin by plugin.                                               *)

FixedInv ==
    /\ showing \subseteq Seen /\ queue \in Seq(Seen) /\ queueTimer \in BOOLEAN /\ resumeChecks \in Nat
    /\ ExclusiveAlone
    /\ ~overlayPaused /\ queue # <<>> => showing # {} \/ resumeChecks > 0
TickerInv ==
    /\ ticker \in {0} \cup Seen /\ tickerQueue \in Seq(Seen)
    /\ ~overlayPaused /\ tickerQueue # <<>> => ticker # 0
BubbleInv ==
    /\ bubbles \subseteq Seen /\ bubbleQueue \in Seq(Seen)
    /\ bubbleTimer \in BOOLEAN /\ spawnLock \in {0} \cup Seen /\ unfit \subseteq Seen
    /\ ~overlayPaused => BubblesAwake \/ Elements(bubbleQueue) \cap unfit # {}
ScreenInv ==
    /\ overlay \in {"none", "shown", "fading", "detached"} /\ fresh \in BOOLEAN /\ checking \in BOOLEAN
    /\ overlay \in {"shown", "detached"} => checking
RendererInv == overlayPaused \in BOOLEAN /\ live \in Int /\ timers \in Nat
HubInv == EngineTypes /\ BoundTypes /\ HistTypes /\ EngineServes

(* The invariant is the hub's part and the parts of the plugins.                *)
LEMMA Parts ==
    /\ EffectsInv => HubInv /\ RendererInv /\ FixedInv /\ TickerInv /\ BubbleInv /\ ScreenInv
    /\ HubInv' /\ RendererInv' /\ FixedInv' /\ TickerInv' /\ BubbleInv' /\ ScreenInv' => EffectsInv'
<1> USE DEF EffectsInv, HubInv, RendererInv, FixedInv, TickerInv, BubbleInv, ScreenInv, PageTypes
<1>1. EffectsInv => HubInv /\ RendererInv /\ FixedInv /\ TickerInv /\ BubbleInv /\ ScreenInv
  BY DEF QueuesAwake, BubblesAwake
<1>2. ASSUME HubInv', RendererInv', FixedInv', TickerInv', BubbleInv', ScreenInv'
      PROVE  EffectsInv'
  <2>1. PageTypes' /\ ExclusiveAlone'
    BY <1>2
  <2>2. QueuesAwake'
    BY <1>2 DEF QueuesAwake, BubblesAwake
  <2> QED BY <1>2, <2>1, <2>2
<1> QED BY <1>1, <1>2

(* A step of the page: the hub does nothing, a message may be taken.             *)
LEMMA HubKept ==
    ASSUME HubInv, PageStep, inbox' = inbox \/ (inbox # <<>> /\ inbox' = Tail(inbox)),
           held' \subseteq Seen, wiped' \subseteq Seen
    PROVE  HubInv'
<1> USE DEF HubInv, PageStep, engineVars, userVars
<1>1. inbox' \in Seq(Msg(Len(kind)))
  <2>1. inbox \in Seq(Msg(Len(kind)))
    BY DEF EngineTypes
  <2>2. inbox # <<>> => Tail(inbox) \in Seq(Msg(Len(kind)))
    BY <2>1, HeadTailProperties
  <2> QED BY <2>1, <2>2
<1>2. EngineTypes'
  BY <1>1 DEF EngineTypes, Seen
<1>3. BoundTypes' /\ EngineServes' /\ HistTypes'
  BY DEF BoundTypes, EngineServes, HistTypes, Seen
<1> QED BY <1>2, <1>3

LEMMA SettleType ==
    ASSUME HubInv, NEW lost, Settle(lost)
    PROVE  held' \subseteq Seen
BY DEF HubInv, HistTypes, Settle

LEMMA FixedKept ==
    ASSUME FixedInv, UNCHANGED <<kind, overlayPaused, fixedVars>> PROVE FixedInv'
<1>1. ExclusiveAlone'
  BY DEF FixedInv, ExclusiveAlone, fixedVars
<1> QED BY <1>1 DEF FixedInv, Seen, fixedVars

LEMMA TickerKept ==
    ASSUME TickerInv, UNCHANGED <<kind, overlayPaused, tickerVars>> PROVE TickerInv'
BY DEF TickerInv, Seen, tickerVars

LEMMA BubbleKept ==
    ASSUME BubbleInv, UNCHANGED <<kind, overlayPaused, bubbleVars>> PROVE BubbleInv'
BY DEF BubbleInv, BubblesAwake, Seen, bubbleVars

LEMMA ScreenKept == ASSUME ScreenInv, UNCHANGED screenVars PROVE ScreenInv'
BY DEF ScreenInv, screenVars

(* Whoever looks at the queue of Fixed leaves it empty, or something on display,   *)
(* and never shows a second display beside one that is on.                          *)
LEMMA FixedNextInv ==
    ASSUME FixedInv, NEW on \in SUBSET showing, NEW tm \in BOOLEAN, UNCHANGED kind,
           FixedNext(on, tm), resumeChecks' \in Nat
    PROVE  FixedInv'
<1>1. CASE queue = <<>> \/ overlayPaused' \/ on # {}
  <2>1. showing' = on /\ queueTimer' = tm /\ queue' = queue
    BY <1>1 DEF FixedNext
  <2>2. ExclusiveAlone'
    BY <2>1 DEF FixedInv, ExclusiveAlone
  <2>3. ~overlayPaused' /\ queue' # <<>> => showing' # {}
    BY <1>1, <2>1
  <2>4. showing' \subseteq Seen' /\ queue' \in Seq(Seen') /\ queueTimer' \in BOOLEAN
    BY <2>1 DEF FixedInv, Seen
  <2> QED BY <2>2, <2>3, <2>4 DEF FixedInv
<1>2. CASE ~(queue = <<>> \/ overlayPaused' \/ on # {})
  <2>1. /\ showing' = {Head(queue)} /\ queue' = Tail(queue)
        /\ queueTimer' = (tm \/ Tail(queue) # <<>>)
    BY <1>2 DEF FixedNext
  <2>2. Head(queue) \in Seen /\ Tail(queue) \in Seq(Seen)
    BY <1>2 DEF FixedInv
  <2>3. ExclusiveAlone'
    BY <2>1 DEF ExclusiveAlone
  <2>4. showing' \subseteq Seen' /\ queue' \in Seq(Seen') /\ showing' # {}
    BY <2>1, <2>2 DEF Seen
  <2>5. queueTimer' \in BOOLEAN
    BY <2>1
  <2> QED BY <2>3, <2>4, <2>5 DEF FixedInv
<1> QED BY <1>1, <1>2

LEMMA TickerNextInv ==
    ASSUME TickerInv, NEW on \in {0} \cup Seen, UNCHANGED kind, TickerNext(on)
    PROVE  TickerInv'
<1>1. CASE tickerQueue = <<>> \/ overlayPaused' \/ on # 0
  BY <1>1 DEF TickerNext, TickerInv, Seen
<1>2. CASE ~(tickerQueue = <<>> \/ overlayPaused' \/ on # 0)
  <2>1. ticker' = Head(tickerQueue) /\ tickerQueue' = Tail(tickerQueue)
    BY <1>2 DEF TickerNext
  <2>2. Head(tickerQueue) \in Seen /\ Tail(tickerQueue) \in Seq(Seen) /\ 0 \notin Seen
    BY <1>2 DEF TickerInv, Seen
  <2> QED BY <2>1, <2>2 DEF TickerInv, Seen
<1> QED BY <1>1, <1>2

(* A bubble without room waits again: beside another on display, or as one that     *)
(* found none on an empty page.                                                     *)
LEMMA PlaceFacts ==
    ASSUME NEW i \in Seen, NEW on \in SUBSET Seen, NEW q \in Seq(Seen), unfit \subseteq Seen,
           Place(i, on, q)
    PROVE  /\ bubbles' \subseteq Seen /\ bubbleQueue' \in Seq(Seen) /\ unfit' \subseteq Seen
           /\ bubbles' # {} \/ Elements(bubbleQueue') \cap unfit' # {}
<1>1. PICK room \in Room :
        /\ IF room THEN bubbles' = on \cup {i} /\ bubbleQueue' = q
           ELSE bubbles' = on /\ bubbleQueue' = Append(q, i)
        /\ unfit' = IF room \/ on # {} THEN unfit \ {i} ELSE unfit \cup {i}
  BY DEF Place
<1>2. unfit' \subseteq Seen
  BY <1>1
<1>3. CASE room
  BY <1>1, <1>2, <1>3
<1>4. CASE ~room
  <2>1. bubbles' = on /\ bubbleQueue' = Append(q, i)
    BY <1>1, <1>4
  <2>2. Append(q, i) \in Seq(Seen) /\ i \in Elements(Append(q, i))
    BY AppendProperties, ElementsAppend
  <2>3. on = {} => i \in unfit'
    BY <1>1, <1>4
  <2> QED BY <1>2, <2>1, <2>2, <2>3
<1> QED BY <1>3, <1>4

LEMMA SpawnFacts ==
    ASSUME BubbleInv, NEW i \in Seen, NEW on \in SUBSET Seen, NEW q \in Seq(Seen), Spawn(i, on, q)
    PROVE  /\ bubbles' \subseteq Seen /\ bubbleQueue' \in Seq(Seen) /\ spawnLock' \in {0} \cup Seen
           /\ unfit' \subseteq Seen
           /\ bubbles' # {} \/ spawnLock' # 0 \/ Elements(bubbleQueue') \cap unfit' # {}
<1>1. CASE /\ spawnLock # 0 /\ UNCHANGED <<spawnLock, unfit>>
           /\ bubbles' = on /\ bubbleQueue' = Append(q, i)
  BY <1>1, AppendProperties DEF BubbleInv
<1>2. CASE /\ spawnLock = 0 /\ spawnLock' = i
           /\ bubbles' = on /\ bubbleQueue' = q /\ unfit' = unfit \ {i}
  BY <1>2 DEF BubbleInv, Seen
<1>3. CASE spawnLock = 0 /\ UNCHANGED spawnLock /\ Place(i, on, q)
  BY <1>3, PlaceFacts DEF BubbleInv
<1> QED BY <1>1, <1>2, <1>3 DEF Spawn

LEMMA BubbleNextInv ==
    ASSUME BubbleInv, NEW on \in SUBSET Seen, NEW tm \in BOOLEAN, UNCHANGED kind,
           BubbleNext(on, tm)
    PROVE  BubbleInv'
<1>1. CASE bubbleQueue = <<>> \/ overlayPaused'
  BY <1>1 DEF BubbleNext, BubbleInv, BubblesAwake, Seen
<1>2. CASE ~(bubbleQueue = <<>> \/ overlayPaused')
  <2>1. /\ Spawn(Head(bubbleQueue), on, Tail(bubbleQueue))
        /\ bubbleTimer' = (tm \/ bubbleQueue' # <<>>)
    BY <1>2 DEF BubbleNext
  <2>2. Head(bubbleQueue) \in Seen /\ Tail(bubbleQueue) \in Seq(Seen)
    BY <1>2 DEF BubbleInv
  <2>3. /\ bubbles' \subseteq Seen' /\ bubbleQueue' \in Seq(Seen') /\ spawnLock' \in {0} \cup Seen'
        /\ unfit' \subseteq Seen'
        /\ bubbles' # {} \/ spawnLock' # 0 \/ Elements(bubbleQueue') \cap unfit' # {}
    BY <2>1, <2>2, SpawnFacts DEF Seen
  <2>4. bubbleTimer' \in BOOLEAN
    BY <2>1
  <2> QED BY <2>3, <2>4 DEF BubbleInv, BubblesAwake
<1> QED BY <1>1, <1>2

-----------------------------------------------------------------------------
(* Messages.                                                                 *)

LEMMA HeadType ==
    ASSUME HubInv, inbox # <<>>
    PROVE  /\ Head(inbox) \in Msg(Len(kind))
           /\ Head(inbox).type = "performance" => Head(inbox).id \in Seen
           /\ Head(inbox).paused \in BOOLEAN
<1>1. inbox \in Seq(Msg(Len(kind)))
  BY DEF HubInv, EngineTypes
<1>2. Head(inbox) \in Msg(Len(kind))
  BY <1>1, HeadTailProperties
<1>3. ASSUME NEW i \in 1..Len(kind), Head(inbox) = Fire(i)
      PROVE  Head(inbox).id \in Seen /\ Head(inbox).paused \in BOOLEAN
  <2>1. Fire(i).id = i /\ Fire(i).paused = FALSE
    BY DEF Fire
  <2>2. Head(inbox).id = i /\ Head(inbox).paused = FALSE
    BY <1>3, <2>1
  <2> QED BY <2>2 DEF Seen
<1>4. ASSUME Head(inbox) \in {Pause(TRUE), Pause(FALSE), ClearAll}
      PROVE  Head(inbox).type # "performance" /\ Head(inbox).paused \in BOOLEAN
  <2>1. /\ Pause(TRUE).type = "pause" /\ Pause(TRUE).paused = TRUE
        /\ Pause(FALSE).type = "pause" /\ Pause(FALSE).paused = FALSE
        /\ ClearAll.type = "performance-clear" /\ ClearAll.paused = FALSE
    BY DEF Pause, ClearAll
  <2> QED BY <1>4, <2>1
<1> QED BY <1>2, <1>3, <1>4 DEF Msg

(* Each plugin takes an effect of its kind.                                    *)
LEMMA ShowInv ==
    ASSUME FixedInv, TickerInv, BubbleInv, ScreenInv, UNCHANGED <<kind, overlayPaused>>,
           NEW i \in Seen, Show(i)
    PROVE  FixedInv' /\ TickerInv' /\ BubbleInv' /\ ScreenInv'
<1>1. CASE kind[i] \in {"fixed", "overlapping"} /\ ShowFixed(i)
  <2>1. TickerInv' /\ BubbleInv' /\ ScreenInv'
    BY <1>1, TickerKept, BubbleKept, ScreenKept DEF ShowFixed
  <2>2. UNCHANGED <<queueTimer, resumeChecks>>
    BY <1>1 DEF ShowFixed
  <2>3. CASE kind[i] = "overlapping" \/ showing = {}
    <3>1. showing' = showing \cup {i} /\ queue' = queue
      BY <1>1, <2>3 DEF ShowFixed
    <3>2. ExclusiveAlone'
      BY <2>3, <3>1 DEF FixedInv, ExclusiveAlone
    <3> QED BY <2>1, <2>2, <3>1, <3>2 DEF FixedInv, Seen
  <2>4. CASE ~(kind[i] = "overlapping" \/ showing = {})
    <3>1. showing' = showing /\ queue' = Append(queue, i)
      BY <1>1, <2>4 DEF ShowFixed
    <3>2. ExclusiveAlone'
      BY <3>1 DEF FixedInv, ExclusiveAlone
    <3>3. queue' \in Seq(Seen')
      BY <3>1, AppendProperties DEF FixedInv, Seen
    <3> QED BY <2>1, <2>2, <2>4, <3>1, <3>2, <3>3 DEF FixedInv, Seen
  <2> QED BY <2>3, <2>4
<1>2. CASE kind[i] = "ticker" /\ ShowTicker(i)
  <2>1. FixedInv' /\ BubbleInv' /\ ScreenInv'
    BY <1>2, FixedKept, BubbleKept, ScreenKept DEF ShowTicker
  <2>2. CASE ticker = 0
    <3>1. ticker' = i /\ tickerQueue' = tickerQueue
      BY <1>2, <2>2 DEF ShowTicker
    <3> QED BY <2>1, <3>1 DEF TickerInv, Seen
  <2>3. CASE ticker # 0
    <3>1. ticker' = ticker /\ tickerQueue' = Append(tickerQueue, i)
      BY <1>2, <2>3 DEF ShowTicker
    <3>2. tickerQueue' \in Seq(Seen')
      BY <3>1, AppendProperties DEF TickerInv, Seen
    <3> QED BY <2>1, <2>3, <3>1, <3>2 DEF TickerInv, Seen
  <2> QED BY <2>2, <2>3
<1>3. CASE kind[i] = "bubble" /\ ShowBubble(i)
  <2>1. FixedInv' /\ TickerInv' /\ ScreenInv'
    BY <1>3, FixedKept, TickerKept, ScreenKept DEF ShowBubble
  <2>2. Spawn(i, bubbles, bubbleQueue) /\ UNCHANGED bubbleTimer
    BY <1>3 DEF ShowBubble
  <2>3. /\ bubbles' \subseteq Seen /\ bubbleQueue' \in Seq(Seen) /\ spawnLock' \in {0} \cup Seen
        /\ unfit' \subseteq Seen
        /\ bubbles' # {} \/ spawnLock' # 0 \/ Elements(bubbleQueue') \cap unfit' # {}
    BY <2>2, SpawnFacts DEF BubbleInv
  <2>4. bubbleTimer' \in BOOLEAN
    BY <2>2 DEF BubbleInv
  <2>5. UNCHANGED kind
    OBVIOUS
  <2> QED BY <2>1, <2>3, <2>4, <2>5 DEF BubbleInv, BubblesAwake, Seen
<1>4. CASE kind[i] = "screen" /\ ShowScreen
  <2>1. FixedInv' /\ TickerInv' /\ BubbleInv'
    BY <1>4, FixedKept, TickerKept, BubbleKept DEF ShowScreen
  <2>2. CASE overlayPaused
    BY <1>4, <2>1, <2>2, ScreenKept DEF ShowScreen
  <2>3. CASE ~overlayPaused
    BY <1>4, <2>1, <2>3 DEF ShowScreen, ScreenInv
  <2> QED BY <2>2, <2>3
<1> QED BY <1>1, <1>2, <1>3, <1>4 DEF Show

LEMMA ExecuteStep == ASSUME EffectsInv, Execute PROVE EffectsInv'
<1> DEFINE i == Head(inbox).id
<1>1. HubInv /\ RendererInv /\ FixedInv /\ TickerInv /\ BubbleInv /\ ScreenInv
  BY Parts
<1>2. inbox # <<>> /\ Head(inbox).type = "performance" /\ inbox' = Tail(inbox)
  BY DEF Execute, Receive
<1>3. i \in Seen
  BY <1>1, <1>2, HeadType
<1>4. PageStep /\ UNCHANGED <<overlayPaused, wiped>>
  BY DEF Execute
<1>5. held' \subseteq Seen
  <2>1. PICK lost : Settle(lost)
    BY DEF Execute
  <2> QED BY <1>1, <2>1, SettleType
<1>6. HubInv'
  <2>1. wiped' \subseteq Seen
    BY <1>1, <1>4 DEF HubInv, HistTypes
  <2> QED BY <1>1, <1>2, <1>4, <1>5, <2>1, HubKept
<1>7. RendererInv'
  BY <1>1, <1>4 DEF Execute, RendererInv, rendererVars
<1>8. FixedInv' /\ TickerInv' /\ BubbleInv' /\ ScreenInv'
  <2>0. UNCHANGED <<kind, overlayPaused>>
    BY <1>4 DEF PageStep, userVars
  <2>1. CASE Show(i)
    BY <1>1, <1>3, <2>0, <2>1, ShowInv
  <2>2. CASE UNCHANGED pluginVars
    BY <1>1, <2>0, <2>2, FixedKept, TickerKept, BubbleKept, ScreenKept DEF pluginVars
  <2> QED BY <2>1, <2>2 DEF Execute
<1> QED BY <1>6, <1>7, <1>8, Parts

LEMMA ClearStep == ASSUME EffectsInv, Clear PROVE EffectsInv'
<1>1. HubInv /\ RendererInv /\ FixedInv /\ TickerInv /\ BubbleInv /\ ScreenInv
  BY Parts
<1>2. inbox # <<>> /\ inbox' = Tail(inbox)
  BY DEF Clear, Receive
<1>3. /\ PageStep /\ wiped' = wiped \cup Waiting
      /\ UNCHANGED <<overlayPaused, timers, fixedVars, tickerVars, bubbleVars, fresh, checking, held>>
  BY DEF Clear
<1>4. HubInv'
  <2>1. Elements(queue) \subseteq Seen /\ Elements(tickerQueue) \subseteq Seen /\ Elements(bubbleQueue) \subseteq Seen
    BY <1>1 DEF Elements, FixedInv, TickerInv, BubbleInv
  <2>2. wiped' \subseteq Seen /\ held' \subseteq Seen
    BY <1>1, <1>3, <2>1 DEF Waiting, HubInv, HistTypes
  <2> QED BY <1>1, <1>2, <1>3, <2>2, HubKept
<1>5. RendererInv'
  BY <1>1, <1>3 DEF Clear, RendererInv
<1>6. FixedInv' /\ TickerInv' /\ BubbleInv'
  BY <1>1, <1>3, FixedKept, TickerKept, BubbleKept DEF PageStep, userVars
<1>7. ScreenInv'
  BY <1>1, <1>3 DEF Clear, ScreenInv
<1> QED BY <1>4, <1>5, <1>6, <1>7, Parts

(* A resume of the page leaves a check behind for Fixed, and serves the queues of    *)
(* Sprout at once.                                                                  *)
LEMMA SetPausedStep == ASSUME EffectsInv, SetPaused PROVE EffectsInv'
<1>1. HubInv /\ RendererInv /\ FixedInv /\ TickerInv /\ BubbleInv /\ ScreenInv
  BY Parts
<1>2. inbox # <<>> /\ inbox' = Tail(inbox) /\ overlayPaused' \in BOOLEAN
  BY <1>1, HeadType DEF SetPaused, Receive
<1>3. PageStep /\ Settle({}) /\ UNCHANGED <<rendererVars, wiped, showing, queue, queueTimer, screenVars>>
  BY DEF SetPaused
<1>4. HubInv'
  <2>1. held' \subseteq Seen /\ wiped' \subseteq Seen
    BY <1>1, <1>3, SettleType DEF HubInv, HistTypes
  <2> QED BY <1>1, <1>2, <1>3, <2>1, HubKept
<1>5. RendererInv' /\ ScreenInv'
  BY <1>1, <1>2, <1>3, ScreenKept DEF RendererInv, rendererVars
<1>6. UNCHANGED kind
  BY <1>3 DEF PageStep, userVars
<1>7. ExclusiveAlone'
  BY <1>1, <1>3, <1>6 DEF FixedInv, ExclusiveAlone
<1>8. CASE overlayPaused'
  <2>1. UNCHANGED <<resumeChecks, tickerVars, bubbleVars>>
    BY <1>8 DEF SetPaused
  <2>2. FixedInv'
    BY <1>1, <1>3, <1>6, <1>7, <1>8, <2>1 DEF FixedInv, Seen
  <2>3. TickerInv' /\ BubbleInv'
    BY <1>1, <1>6, <1>8, <2>1 DEF TickerInv, BubbleInv, BubblesAwake, Seen, tickerVars, bubbleVars
  <2> QED BY <1>4, <1>5, <2>2, <2>3, Parts
<1>9. CASE ~overlayPaused'
  <2>1. resumeChecks' = resumeChecks + 1 /\ TickerNext(ticker) /\ BubbleNext(bubbles, bubbleTimer)
    BY <1>9 DEF SetPaused
  <2>2. FixedInv'
    BY <1>1, <1>3, <1>6, <1>7, <2>1 DEF FixedInv, Seen
  <2>3. TickerInv'
    BY <1>1, <1>6, <2>1, TickerNextInv DEF TickerInv
  <2>4. BubbleInv'
    BY <1>1, <1>6, <2>1, BubbleNextInv DEF BubbleInv
  <2> QED BY <1>4, <1>5, <2>2, <2>3, <2>4, Parts
<1> QED BY <1>8, <1>9

-----------------------------------------------------------------------------
(* Timers and ends of animations.                                            *)

(* A step of the page without a message.                                        *)
LEMMA TickKept ==
    ASSUME EffectsInv, Tick, Settle({})
    PROVE  /\ HubInv' /\ RendererInv' /\ UNCHANGED <<kind, overlayPaused>>
           /\ FixedInv /\ TickerInv /\ BubbleInv /\ ScreenInv
<1>1. HubInv /\ RendererInv /\ FixedInv /\ TickerInv /\ BubbleInv /\ ScreenInv
  BY Parts
<1>2. PageStep /\ UNCHANGED <<inbox, overlayPaused, rendererVars, wiped>>
  BY DEF Tick
<1>3. held' \subseteq Seen /\ wiped' \subseteq Seen
  BY <1>1, <1>2, SettleType DEF HubInv, HistTypes
<1>4. HubInv'
  BY <1>1, <1>2, <1>3, HubKept
<1>5. RendererInv'
  BY <1>1, <1>2 DEF RendererInv, rendererVars
<1>6. UNCHANGED kind
  BY <1>2 DEF PageStep, userVars
<1> QED BY <1>1, <1>2, <1>4, <1>5, <1>6

LEMMA LiveEndsStep == ASSUME EffectsInv, LiveEnds PROVE EffectsInv'
<1>1. HubInv /\ RendererInv /\ FixedInv /\ TickerInv /\ BubbleInv /\ ScreenInv
  BY Parts
<1>2. PageStep /\ UNCHANGED <<inbox, overlayPaused, pluginVars, held, wiped>>
  BY DEF LiveEnds, effectHist
<1>3. held' \subseteq Seen /\ wiped' \subseteq Seen
  BY <1>1, <1>2 DEF HubInv, HistTypes
<1>4. HubInv'
  BY <1>1, <1>2, <1>3, HubKept
<1>5. RendererInv'
  BY <1>1, <1>2 DEF RendererInv, LiveEnds
<1>6. UNCHANGED kind
  BY <1>2 DEF PageStep, userVars
<1>7. FixedInv' /\ TickerInv' /\ BubbleInv' /\ ScreenInv'
  BY <1>1, <1>2, <1>6, FixedKept, TickerKept, BubbleKept, ScreenKept DEF pluginVars
<1> QED BY <1>4, <1>5, <1>7, Parts

LEMMA FixedEndsStep == ASSUME EffectsInv, NEW i \in Fires, FixedEnds(i) PROVE EffectsInv'
<1>1. Tick /\ Settle({}) /\ UNCHANGED <<resumeChecks, tickerVars, bubbleVars, screenVars>>
  BY DEF FixedEnds
<1>2. /\ HubInv' /\ RendererInv' /\ UNCHANGED <<kind, overlayPaused>>
      /\ FixedInv /\ TickerInv /\ BubbleInv /\ ScreenInv
  BY <1>1, TickKept
<1>3. FixedInv'
  <2>1. FixedNext(showing \ {i}, queueTimer) /\ queueTimer \in BOOLEAN /\ resumeChecks' \in Nat
    BY <1>1, <1>2 DEF FixedEnds, FixedInv
  <2> QED BY <1>2, <2>1, FixedNextInv
<1> QED BY <1>1, <1>2, <1>3, TickerKept, BubbleKept, ScreenKept, Parts

LEMMA FixedTimerStep == ASSUME EffectsInv, FixedTimer PROVE EffectsInv'
<1>1. Tick /\ Settle({}) /\ UNCHANGED <<resumeChecks, tickerVars, bubbleVars, screenVars>>
  BY DEF FixedTimer
<1>2. /\ HubInv' /\ RendererInv' /\ UNCHANGED <<kind, overlayPaused>>
      /\ FixedInv /\ TickerInv /\ BubbleInv /\ ScreenInv
  BY <1>1, TickKept
<1>3. FixedInv'
  <2>1. FixedNext(showing, FALSE) /\ resumeChecks' \in Nat
    BY <1>1, <1>2 DEF FixedTimer, FixedInv
  <2> QED BY <1>2, <2>1, FixedNextInv
<1> QED BY <1>1, <1>2, <1>3, TickerKept, BubbleKept, ScreenKept, Parts

LEMMA ResumeCheckStep == ASSUME EffectsInv, ResumeCheck PROVE EffectsInv'
<1>1. Tick /\ Settle({}) /\ UNCHANGED <<tickerVars, bubbleVars, screenVars>>
  BY DEF ResumeCheck
<1>2. /\ HubInv' /\ RendererInv' /\ UNCHANGED <<kind, overlayPaused>>
      /\ FixedInv /\ TickerInv /\ BubbleInv /\ ScreenInv
  BY <1>1, TickKept
<1>3. FixedInv'
  <2>1. FixedNext({}, queueTimer) /\ queueTimer \in BOOLEAN
    BY <1>2 DEF ResumeCheck, FixedInv
  <2>2. resumeChecks' \in Nat
    BY <1>2 DEF ResumeCheck, FixedInv
  <2> QED BY <1>2, <2>1, <2>2, FixedNextInv
<1> QED BY <1>1, <1>2, <1>3, TickerKept, BubbleKept, ScreenKept, Parts

LEMMA TickerEndsStep == ASSUME EffectsInv, TickerEnds PROVE EffectsInv'
<1>1. Tick /\ Settle({}) /\ UNCHANGED <<fixedVars, bubbleVars, screenVars>> /\ TickerNext(0)
  BY DEF TickerEnds
<1>2. /\ HubInv' /\ RendererInv' /\ UNCHANGED <<kind, overlayPaused>>
      /\ FixedInv /\ TickerInv /\ BubbleInv /\ ScreenInv
  BY <1>1, TickKept
<1>3. TickerInv'
  BY <1>1, <1>2, TickerNextInv
<1> QED BY <1>1, <1>2, <1>3, FixedKept, BubbleKept, ScreenKept, Parts

LEMMA BubbleEndsStep == ASSUME EffectsInv, NEW i \in Fires, BubbleEnds(i) PROVE EffectsInv'
<1>1. Tick /\ Settle({}) /\ UNCHANGED <<fixedVars, tickerVars, screenVars>>
  BY DEF BubbleEnds
<1>2. /\ HubInv' /\ RendererInv' /\ UNCHANGED <<kind, overlayPaused>>
      /\ FixedInv /\ TickerInv /\ BubbleInv /\ ScreenInv
  BY <1>1, TickKept
<1>3. BubbleInv'
  <2>1. BubbleNext(bubbles \ {i}, bubbleTimer) /\ bubbleTimer \in BOOLEAN /\ bubbles \ {i} \in SUBSET Seen
    BY <1>2 DEF BubbleEnds, BubbleInv
  <2> QED BY <1>2, <2>1, BubbleNextInv
<1> QED BY <1>1, <1>2, <1>3, FixedKept, TickerKept, ScreenKept, Parts

LEMMA BubbleTimerStep == ASSUME EffectsInv, BubbleTimer PROVE EffectsInv'
<1>1. Tick /\ Settle({}) /\ UNCHANGED <<fixedVars, tickerVars, screenVars>>
  BY DEF BubbleTimer
<1>2. /\ HubInv' /\ RendererInv' /\ UNCHANGED <<kind, overlayPaused>>
      /\ FixedInv /\ TickerInv /\ BubbleInv /\ ScreenInv
  BY <1>1, TickKept
<1>3. BubbleInv'
  <2>1. BubbleNext(bubbles, FALSE) /\ bubbles \in SUBSET Seen
    BY <1>2 DEF BubbleTimer, BubbleInv
  <2> QED BY <1>2, <2>1, BubbleNextInv
<1> QED BY <1>1, <1>2, <1>3, FixedKept, TickerKept, ScreenKept, Parts

(* The end of a fetch serves no queue, but leaves a bubble that will, or one that     *)
(* found no room on an empty page.                                                   *)
LEMMA FetchEndsStep == ASSUME EffectsInv, FetchEnds PROVE EffectsInv'
<1>1. Tick /\ Settle({}) /\ UNCHANGED <<fixedVars, tickerVars, bubbleTimer, screenVars>>
  BY DEF FetchEnds
<1>2. /\ HubInv' /\ RendererInv' /\ UNCHANGED <<kind, overlayPaused>>
      /\ FixedInv /\ TickerInv /\ BubbleInv /\ ScreenInv
  BY <1>1, TickKept
<1>3. BubbleInv'
  <2>1. spawnLock # 0 /\ spawnLock' = 0 /\ Place(spawnLock, bubbles, bubbleQueue)
    BY DEF FetchEnds
  <2>2. /\ bubbles' \subseteq Seen /\ bubbleQueue' \in Seq(Seen) /\ unfit' \subseteq Seen
        /\ bubbles' # {} \/ Elements(bubbleQueue') \cap unfit' # {}
    BY <1>2, <2>1, PlaceFacts DEF BubbleInv
  <2>3. bubbleTimer' \in BOOLEAN
    BY <1>1, <1>2 DEF BubbleInv
  <2> QED BY <1>2, <2>1, <2>2, <2>3 DEF BubbleInv, BubblesAwake, Seen
<1> QED BY <1>1, <1>2, <1>3, FixedKept, TickerKept, ScreenKept, Parts

(* The three steps of the screen overlay.                                         *)
LEMMA ScreenStep ==
    ASSUME EffectsInv, ScreenAges \/ ScreenCheck \/ FadeEnds PROVE EffectsInv'
<1>1. Tick /\ Settle({}) /\ UNCHANGED <<fixedVars, tickerVars, bubbleVars>>
  BY DEF ScreenAges, ScreenCheck, FadeEnds
<1>2. /\ HubInv' /\ RendererInv' /\ UNCHANGED <<kind, overlayPaused>>
      /\ FixedInv /\ TickerInv /\ BubbleInv /\ ScreenInv
  BY <1>1, TickKept
<1>3. CASE ScreenAges
  <2>1. ScreenInv'
    BY <1>2, <1>3 DEF ScreenAges, ScreenInv
  <2> QED BY <1>1, <1>2, <2>1, FixedKept, TickerKept, BubbleKept, Parts
<1>4. CASE ScreenCheck
  <2>1. ScreenInv'
    BY <1>2, <1>4 DEF ScreenCheck, ScreenInv
  <2> QED BY <1>1, <1>2, <2>1, FixedKept, TickerKept, BubbleKept, Parts
<1>5. CASE FadeEnds
  <2>1. ScreenInv'
    BY <1>2, <1>5 DEF FadeEnds, ScreenInv
  <2> QED BY <1>1, <1>2, <2>1, FixedKept, TickerKept, BubbleKept, Parts
<1> QED BY <1>3, <1>4, <1>5

-----------------------------------------------------------------------------
(* The event stream.                                                         *)

LEMMA DropStep == ASSUME EffectsInv, Drop PROVE EffectsInv'
<1> DEFINE n == Len(kind')
<1>1. /\ kind' \in Seq(Kinds) /\ n \in Nat /\ Len(kind) =< n /\ n =< MaxFires
      /\ kind' = kind /\ \A i \in Seen : kind'[i] = kind[i]
  BY DEF EffectsInv, EngineTypes, Drop
<1>2. UNCHANGED <<superchats, manuals, active, paused, overlayPaused, rendererVars, pluginVars, pauses, wiped>>
  BY DEF Drop, engineVars
<1>3. inbox' = <<>> /\ conn' = FALSE /\ held' \subseteq held
  BY DEF Drop
<1>4. PageTypes' /\ ExclusiveAlone' /\ QueuesAwake'
  BY <1>1, <1>2, PageKept
<1>5. EngineServes'
  BY <1>2 DEF EffectsInv, EngineServes
<1>6. EngineTypes'
  <2>1. superchats' \in Seq(Seen') /\ manuals' \in Seq(Seen') /\ active' \in Seq(Seen')
    BY <1>1, <1>2 DEF EffectsInv, EngineTypes, Seen
  <2>2. inbox' \in Seq(Msg(Len(kind'))) /\ conn' \in BOOLEAN
    <3>1. inbox' \in Seq(Msg(Len(kind')))
      BY <1>3, NoneOf
    <3> QED BY <1>3, <3>1
  <2>3. paused' \in BOOLEAN
    BY <1>2 DEF EffectsInv, EngineTypes
  <2> QED BY <1>1, <2>1, <2>2, <2>3 DEF EngineTypes
<1>7. BoundTypes'
  BY <1>2, EffectsAssumption DEF Drop, EffectsInv, BoundTypes, EffectsAssumption
<1>8. HistTypes'
  BY <1>1, <1>2, <1>3 DEF EffectsInv, HistTypes, Seen
<1> QED BY <1>4, <1>5, <1>6, <1>7, <1>8 DEF EffectsInv

LEMMA ReloadStep == ASSUME EffectsInv, Reload PROVE EffectsInv'
<1>1. UNCHANGED <<superchats, manuals, active, paused, kind, pauses, upsets, inbox>>
  BY DEF Reload, engineVars, userVars
<1>2. conn' = TRUE /\ held' \subseteq held /\ wiped' = {}
  BY DEF Reload
<1>3. EngineServes'
  BY <1>1 DEF EffectsInv, EngineServes
<1>4. EngineTypes' /\ BoundTypes' /\ HistTypes'
  BY <1>1, <1>2 DEF EffectsInv, EngineTypes, BoundTypes, HistTypes, Seen
<1>5. PageTypes'
  <2>1. queue' \in Seq(Seen') /\ tickerQueue' \in Seq(Seen') /\ bubbleQueue' \in Seq(Seen')
    BY NoneOf DEF Reload
  <2>2. showing' \subseteq Seen' /\ ticker' \in {0} \cup Seen' /\ bubbles' \subseteq Seen' /\ spawnLock' \in {0} \cup Seen' /\ unfit' \subseteq Seen'
    BY DEF Reload
  <2>3. live' \in Int /\ timers' \in Nat /\ resumeChecks' \in Nat
    BY DEF Reload
  <2>4. /\ overlayPaused' \in BOOLEAN /\ queueTimer' \in BOOLEAN /\ bubbleTimer' \in BOOLEAN
        /\ fresh' \in BOOLEAN /\ checking' \in BOOLEAN
        /\ overlay' \in {"none", "shown", "fading", "detached"}
    BY DEF Reload
  <2> QED BY <2>1, <2>2, <2>3, <2>4 DEF PageTypes
<1>6. ExclusiveAlone'
  BY DEF Reload, ExclusiveAlone
<1>7. QueuesAwake'
  BY DEF Reload, QueuesAwake, BubblesAwake
<1> QED BY <1>3, <1>4, <1>5, <1>6, <1>7 DEF EffectsInv

-----------------------------------------------------------------------------
(* The theorems.                                                             *)

LEMMA EffectsInit == Init => EffectsInv
<1> SUFFICES ASSUME Init PROVE EffectsInv
  OBVIOUS
<1>1. EngineTypes
  <2>1. /\ superchats \in Seq(Seen) /\ manuals \in Seq(Seen) /\ active \in Seq(Seen)
        /\ inbox \in Seq(Msg(Len(kind))) /\ kind \in Seq(Kinds)
    BY NoneOf DEF Init
  <2>2. Len(kind) =< MaxFires
    BY EffectsAssumption DEF EffectsAssumption, Init
  <2>3. paused \in BOOLEAN /\ conn \in BOOLEAN
    BY DEF Init
  <2> QED BY <2>1, <2>2, <2>3 DEF EngineTypes
<1>2. BoundTypes /\ HistTypes
  BY EffectsAssumption DEF Init, BoundTypes, HistTypes, EffectsAssumption
<1>3. PageTypes
  <2>1. queue \in Seq(Seen) /\ tickerQueue \in Seq(Seen) /\ bubbleQueue \in Seq(Seen)
    BY NoneOf DEF Init
  <2>2. showing \subseteq Seen /\ ticker \in {0} \cup Seen /\ bubbles \subseteq Seen /\ spawnLock \in {0} \cup Seen /\ unfit \subseteq Seen
    BY DEF Init
  <2>3. live \in Int /\ timers \in Nat /\ resumeChecks \in Nat
    BY DEF Init
  <2>4. /\ overlayPaused \in BOOLEAN /\ queueTimer \in BOOLEAN /\ bubbleTimer \in BOOLEAN
        /\ fresh \in BOOLEAN /\ checking \in BOOLEAN
        /\ overlay \in {"none", "shown", "fading", "detached"}
    BY DEF Init
  <2> QED BY <2>1, <2>2, <2>3, <2>4 DEF PageTypes
<1>4. ExclusiveAlone
  BY DEF Init, ExclusiveAlone
<1>5. QueuesAwake
  BY DEF Init, QueuesAwake, BubblesAwake
<1>6. EngineServes
  BY EffectsAssumption DEF Init, EngineServes, EffectsAssumption
<1> QED BY <1>1, <1>2, <1>3, <1>4, <1>5, <1>6 DEF EffectsInv

LEMMA EffectsNext == EffectsInv /\ [Next]_effectVars => EffectsInv'
<1> SUFFICES ASSUME EffectsInv, [Next]_effectVars PROVE EffectsInv'
  OBVIOUS
<1>1. CASE Trigger
  BY <1>1, SuperchatStep, KeywordStep, ManualStep, PlainCommentStep DEF Trigger
<1>2. CASE User
  BY <1>2, PauseEngineStep, ResumeEngineStep, ClearPerformancesStep DEF User
<1>3. CASE Deliver
  BY <1>3, ExecuteStep, ClearStep, SetPausedStep DEF Deliver
<1>4. CASE Timers
  BY <1>4, LiveEndsStep, FixedTimerStep, ResumeCheckStep, TickerEndsStep, BubbleTimerStep,
     FetchEndsStep, ScreenStep, FixedEndsStep, BubbleEndsStep DEF Timers
<1>5. CASE Drop \/ Reload
  BY <1>5, DropStep, ReloadStep
<1>6. CASE UNCHANGED effectVars
  <2>1. UNCHANGED <<paused, superchats, manuals, active, conn, inbox, kind, pauses, upsets, held, wiped>>
    BY <1>6 DEF effectVars, engineVars, userVars, effectHist
  <2>2. UNCHANGED <<overlayPaused, rendererVars, pluginVars>>
    BY <1>6 DEF effectVars
  <2>3. Len(kind') \in Nat /\ Len(kind) =< Len(kind')
    BY <2>1 DEF EffectsInv, EngineTypes
  <2>4. PageTypes' /\ ExclusiveAlone' /\ QueuesAwake'
    BY <2>1, <2>2, <2>3, PageKept
  <2>5. EngineTypes' /\ BoundTypes' /\ HistTypes' /\ EngineServes'
    BY <2>1 DEF EffectsInv, EngineTypes, BoundTypes, HistTypes, EngineServes, Seen
  <2> QED BY <2>4, <2>5 DEF EffectsInv
<1> QED BY <1>1, <1>2, <1>3, <1>4, <1>5, <1>6 DEF Next

(* The inductive invariant holds in every state of the engine and the page.        *)
THEOREM EffectsInvariant == Spec => []EffectsInv
<1> QED BY EffectsInit, EffectsNext, PTL DEF Spec

(* Every variable keeps its type.                                                  *)
THEOREM EffectsTypeCorrect == Spec => []EffectsTypeOK
<1>1. EffectsInv => EffectsTypeOK
  <2> SUFFICES ASSUME EffectsInv PROVE EffectsTypeOK
    OBVIOUS
  <2> DEFINE Message == [type : {"performance", "pause", "performance-clear"}, id : 0..MaxFires,
                         paused : BOOLEAN]
  <2>1. Len(kind) \in Nat /\ MaxFires \in Nat /\ Len(kind) =< MaxFires
    BY EffectsAssumption DEF EffectsInv, EngineTypes, EffectsAssumption
  <2>2. Seen \subseteq Fires /\ {0} \cup Seen \subseteq 0..MaxFires
    BY <2>1 DEF Seen, Fires
  <2>3. Msg(Len(kind)) \subseteq Message
    <3>1. \A i \in 1..Len(kind) : Fire(i) \in Message
      BY <2>1 DEF Fire
    <3>2. Pause(TRUE) \in Message /\ Pause(FALSE) \in Message /\ ClearAll \in Message
      BY <2>1 DEF Pause, ClearAll
    <3> HIDE DEF Message
    <3> QED BY <3>1, <3>2 DEF Msg
  <2> HIDE DEF Message
  <2>4. inbox \in Seq(Message)
    BY <2>3, SeqGrows DEF EffectsInv, EngineTypes
  <2>5. superchats \in Seq(Fires) /\ manuals \in Seq(Fires) /\ active \in Seq(Fires)
    BY <2>2, SeqGrows DEF EffectsInv, EngineTypes
  <2>6. queue \in Seq(Fires) /\ tickerQueue \in Seq(Fires) /\ bubbleQueue \in Seq(Fires)
    BY <2>2, SeqGrows DEF EffectsInv, PageTypes
  <2>7. ticker \in 0..MaxFires /\ spawnLock \in 0..MaxFires /\ showing \subseteq Fires /\ bubbles \subseteq Fires
        /\ unfit \subseteq Fires
    BY <2>2 DEF EffectsInv, PageTypes
  <2>8. held \subseteq Fires /\ wiped \subseteq Fires
    BY <2>2 DEF EffectsInv, HistTypes
  <2> QED BY <2>4, <2>5, <2>6, <2>7, <2>8
          DEF EffectsInv, EngineTypes, BoundTypes, PageTypes, EffectsTypeOK, Message
<1> QED BY <1>1, EffectsInvariant, PTL

(* However effects expire, are triggered, paused and cleared, the limit of the       *)
(* engine holds and nothing waits while there is room (EngineServes).                *)
THEOREM EngineAlwaysServes == Spec => []EngineServes
<1>1. EffectsInv => EngineServes
  BY DEF EffectsInv
<1> QED BY <1>1, EffectsInvariant, PTL

(* Whatever comes first of ends, timers and checks, exclusive displays never         *)
(* overlap (ExclusiveAlone).                                                         *)
THEOREM ExclusiveNeverOverlap == Spec => []ExclusiveAlone
<1>1. EffectsInv => ExclusiveAlone
  BY DEF EffectsInv
<1> QED BY <1>1, EffectsInvariant, PTL

(* No wake-up of a plugin's queue is ever lost, but that of bubbles while one of them *)
(* has found no room on an empty page (QueuesAwake; sprout.js sets none for it).      *)
THEOREM NoWakeUpIsLost == Spec => []QueuesAwake
<1>1. EffectsInv => QueuesAwake
  BY DEF EffectsInv
<1> QED BY <1>1, EffectsInvariant, PTL

-----------------------------------------------------------------------------
(* The gifts that came during a pause, followed from the engine's queue over the     *)
(* stream into whatever holds them on the page. What holds what:                     *)

Ids(s) == {s[j].id : j \in DOMAIN s}
OnPage == Waiting \cup {spawnLock}

LEMMA KeptIs == Kept = Elements(superchats) \cup Ids(inbox) \cup OnPage
BY DEF Kept, Ids, OnPage

LEMMA ElementsTail ==
    ASSUME NEW S, NEW q \in Seq(S), q # <<>>
    PROVE  Elements(q) = {Head(q)} \cup Elements(Tail(q))
<1>1. /\ Len(q) \in Nat \ {0} /\ DOMAIN q = 1..Len(q) /\ Head(q) = q[1]
      /\ Tail(q) \in Seq(S) /\ Len(Tail(q)) = Len(q) - 1
      /\ \A j \in 1..(Len(q) - 1) : Tail(q)[j] = q[j + 1]
  OBVIOUS
<1>2. DOMAIN Tail(q) = 1..(Len(q) - 1)
  BY <1>1
<1>3. ASSUME NEW e \in Elements(q) PROVE e = Head(q) \/ e \in Elements(Tail(q))
  <2>1. PICK j \in 1..Len(q) : e = q[j]
    BY <1>1 DEF Elements
  <2>2. CASE j = 1
    BY <1>1, <2>1, <2>2
  <2>3. CASE j # 1
    <3>1. j - 1 \in DOMAIN Tail(q) /\ Tail(q)[j - 1] = e
      BY <1>1, <1>2, <2>1, <2>3
    <3> QED BY <3>1 DEF Elements
  <2> QED BY <2>2, <2>3
<1>4. ASSUME NEW e \in Elements(Tail(q)) PROVE e \in Elements(q)
  <2>1. PICK j \in 1..(Len(q) - 1) : e = Tail(q)[j]
    BY <1>2 DEF Elements
  <2>2. j + 1 \in DOMAIN q /\ q[j + 1] = e
    BY <1>1, <2>1
  <2> QED BY <2>2 DEF Elements
<1>5. Head(q) \in Elements(q)
  BY <1>1 DEF Elements
<1> QED BY <1>3, <1>4, <1>5

(* A message taken leaves the others; messages appended join them.                   *)
LEMMA IdsTail ==
    ASSUME NEW S, NEW q \in Seq(S), q # <<>>
    PROVE  Ids(q) \subseteq {Head(q).id} \cup Ids(Tail(q))
<1>1. ASSUME NEW e \in Ids(q) PROVE e \in {Head(q).id} \cup Ids(Tail(q))
  <2>1. PICK m \in Elements(q) : e = m.id
    BY DEF Elements, Ids
  <2>2. m = Head(q) \/ m \in Elements(Tail(q))
    BY <2>1, ElementsTail
  <2> QED BY <2>1, <2>2 DEF Elements, Ids
<1> QED BY <1>1

LEMMA IdsConcat ==
    ASSUME NEW S, NEW s \in Seq(S), NEW t \in Seq(S)
    PROVE  Ids(s) \cup Ids(t) \subseteq Ids(s \o t)
<1>1. /\ s \o t \in Seq(S) /\ Len(s \o t) = Len(s) + Len(t)
      /\ \A i \in 1..Len(s) : (s \o t)[i] = s[i]
      /\ \A i \in 1..Len(t) : (s \o t)[Len(s) + i] = t[i]
  <2>1. s \o t \in Seq(S) /\ Len(s \o t) = Len(s) + Len(t)
    BY ConcatProperties
  <2>2. \A i \in 1..(Len(s) + Len(t)) : (s \o t)[i] = IF i =< Len(s) THEN s[i] ELSE t[i - Len(s)]
    BY ConcatProperties
  <2>3. Len(s) \in Nat /\ Len(t) \in Nat
    OBVIOUS
  <2> QED BY <2>1, <2>2, <2>3
<1>2. /\ DOMAIN (s \o t) = 1..(Len(s) + Len(t)) /\ DOMAIN s = 1..Len(s) /\ DOMAIN t = 1..Len(t)
      /\ Len(s) \in Nat /\ Len(t) \in Nat
  BY <1>1
<1>3. ASSUME NEW e \in Ids(s) PROVE e \in Ids(s \o t)
  <2>1. PICK i \in 1..Len(s) : e = s[i].id
    BY <1>2 DEF Ids
  <2>2. i \in DOMAIN (s \o t) /\ (s \o t)[i].id = e
    BY <1>1, <1>2, <2>1
  <2> QED BY <2>2 DEF Ids
<1>4. ASSUME NEW e \in Ids(t) PROVE e \in Ids(s \o t)
  <2>1. PICK i \in 1..Len(t) : e = t[i].id
    BY <1>2 DEF Ids
  <2>2. Len(s) + i \in DOMAIN (s \o t) /\ (s \o t)[Len(s) + i].id = e
    BY <1>1, <1>2, <2>1
  <2> QED BY <2>2 DEF Ids
<1> QED BY <1>3, <1>4

-----------------------------------------------------------------------------
(* The gifts at the engine.                                                          *)

(* The messages of what has fired name it.                                           *)
LEMMA MessagesIds == \A ids : Ids(Messages(ids)) = Elements(ids)
<1> SUFFICES ASSUME NEW ids PROVE Ids(Messages(ids)) = Elements(ids)
  OBVIOUS
<1>1. \A j \in DOMAIN ids : Messages(ids)[j].id = ids[j]
  BY DEF Messages, Fire
<1>2. DOMAIN Messages(ids) = DOMAIN ids
  BY DEF Messages
<1> QED BY <1>1, <1>2 DEF Ids, Elements

(* A page that listens hears of everything that is broadcast.                        *)
LEMMA BroadcastIds ==
    ASSUME NEW S, inbox \in Seq(S), NEW msgs \in Seq(S), Broadcast(msgs)
    PROVE  Ids(inbox) \subseteq Ids(inbox') /\ (conn => Ids(msgs) \subseteq Ids(inbox'))
<1>1. CASE conn
  BY <1>1, IdsConcat DEF Broadcast
<1>2. CASE ~conn
  BY <1>2 DEF Broadcast
<1> QED BY <1>1, <1>2

(* What process_queue takes from the queue of gifts it fires.                        *)
LEMMA ServedGifts ==
    ASSUME NEW S, NEW sc \in Seq(S), NEW mn \in Seq(S), NEW act \in Seq(S), NEW halted \in BOOLEAN
    PROVE  LET r == Served(sc, mn, act, halted) IN
           Elements(sc) \subseteq Elements(r.fired) \cup Elements(r.superchats)
<1> USE EffectsAssumption DEF EffectsAssumption
<1> DEFINE all == sc \o mn
           room == IF MaxEffects > Len(act) /\ ~halted THEN MaxEffects - Len(act) ELSE 0
           n == IF room < Len(all) THEN room ELSE Len(all)
           m == IF n > Len(sc) THEN n - Len(sc) + 1 ELSE 1
           fired == SubSeq(all, 1, n)
           sc2 == SubSeq(sc, n + 1, Len(sc))
           mn2 == SubSeq(mn, m, Len(mn))
<1>1. /\ all \in Seq(S) /\ Len(all) = Len(sc) + Len(mn) /\ Len(sc) \in Nat /\ Len(mn) \in Nat
      /\ Len(act) \in Nat /\ DOMAIN sc = 1..Len(sc)
  BY ConcatType
<1>2. \A k \in 1..Len(sc) : k \in 1..Len(all) /\ all[k] = sc[k]
  <2>1. \A k \in 1..(Len(sc) + Len(mn)) : all[k] = IF k =< Len(sc) THEN sc[k] ELSE mn[k - Len(sc)]
    BY ConcatProperties
  <2> HIDE DEF all
  <2> QED BY <1>1, <2>1
<1>3. n \in 0..Len(all)
  <2>1. room \in Nat
    BY <1>1
  <2> HIDE DEF room
  <2> QED BY <1>1, <2>1
<1>4. Served(sc, mn, act, halted)
        = [fired |-> fired, active |-> act \o fired, superchats |-> sc2, manuals |-> mn2]
  BY DEF Served
<1> HIDE DEF n, all
<1>5. /\ Len(fired) = n /\ fired \in Seq(S) /\ \A k \in 1..n : fired[k] = all[k]
  <2>1. n \in Nat /\ \A k \in 1..n : all[k] \in S
    BY <1>1, <1>3
  <2>2. \A k \in 1..n : fired[k] = all[1 + k - 1]
    BY <2>1, SubSeqProperties
  <2>3. fired \in Seq(S) /\ Len(fired) = n
    BY <1>1, <1>3, PartOf
  <2> QED BY <2>1, <2>2, <2>3
<1>6. /\ sc2 \in Seq(S) /\ Len(sc2) = IF n + 1 =< Len(sc) THEN Len(sc) - n ELSE 0
      /\ \A k \in 1..(Len(sc) - n) : sc2[k] = sc[n + k]
  <2>1. n + 1 \in Nat \ {0} /\ Len(sc) \in 0..Len(sc) /\ n \in Nat
    BY <1>1, <1>3
  <2>2. sc2 \in Seq(S) /\ Len(sc2) = IF n + 1 =< Len(sc) THEN Len(sc) - (n + 1) + 1 ELSE 0
    BY <2>1, PartOf
  <2>3. \A k \in (n + 1)..Len(sc) : sc[k] \in S
    BY <1>1, <2>1
  <2>4. \A k \in 1..(Len(sc) - (n + 1) + 1) : sc2[k] = sc[(n + 1) + k - 1]
    BY <1>1, <2>1, <2>3, SubSeqProperties
  <2> QED BY <1>1, <2>1, <2>2, <2>4
<1> HIDE DEF fired, sc2
<1>7. ASSUME NEW e \in Elements(sc) PROVE e \in Elements(fired) \cup Elements(sc2)
  <2>1. PICK k \in 1..Len(sc) : e = sc[k]
    BY <1>1 DEF Elements
  <2>2. CASE k =< n
    <3>1. k \in DOMAIN fired /\ fired[k] = e
      BY <1>1, <1>2, <1>3, <1>5, <2>1, <2>2
    <3> QED BY <3>1 DEF Elements
  <2>3. CASE ~(k =< n)
    <3>1. k - n \in 1..(Len(sc) - n) /\ n + (k - n) = k /\ n + 1 =< Len(sc)
      BY <1>1, <1>3, <2>1, <2>3
    <3>2. k - n \in DOMAIN sc2 /\ sc2[k - n] = e
      BY <1>1, <1>3, <1>6, <2>1, <3>1
    <3> QED BY <3>2 DEF Elements
  <2> QED BY <2>2, <2>3
<1> QED BY <1>4, <1>7

(* Emit keeps what is owed in the queue or sends it, and forgets what it sends to    *)
(* nobody.                                                                           *)
LEMMA EmitGifts ==
    ASSUME NEW n \in Nat, NEW owed, NEW atOnce \in Seq(1..n),
           NEW then \in Seq(Msg(n)), NEW sc \in Seq(1..n), NEW mn \in Seq(1..n),
           NEW act \in Seq(1..n), NEW halted \in BOOLEAN,
           Len(act) =< MaxEffects, inbox \in Seq(Msg(n)), conn \in BOOLEAN,
           Emit(owed, atOnce, Served(sc, mn, act, halted), then)
    PROVE  /\ held' \subseteq owed
           /\ Ids(inbox) \subseteq Ids(inbox')
           /\ held' \cap Elements(sc) \subseteq Elements(superchats') \cup Ids(inbox')
<1> DEFINE r == Served(sc, mn, act, halted)
<1>1. /\ r.fired \in Seq(1..n)
      /\ Elements(sc) \subseteq Elements(r.fired) \cup Elements(r.superchats)
  BY ServedFacts, ServedGifts
<1>2. /\ superchats' = r.superchats
      /\ held' = IF conn THEN owed ELSE owed \ Elements(r.fired)
      /\ Broadcast(Messages(atOnce \o r.fired) \o then)
  BY DEF Emit
<1> HIDE DEF r
<1>3. atOnce \o r.fired \in Seq(1..n)
  BY <1>1, ConcatType
<1>4. Messages(atOnce \o r.fired) \in Seq(Msg(n))
  BY <1>3, MessagesType
<1>5. Messages(atOnce \o r.fired) \o then \in Seq(Msg(n))
  BY <1>4, ConcatType
<1>6. Elements(r.fired) \subseteq Ids(Messages(atOnce \o r.fired) \o then)
  <2>1. Elements(r.fired) \subseteq Elements(atOnce \o r.fired)
    <3>1. /\ Len(atOnce) \in Nat /\ Len(r.fired) \in Nat /\ DOMAIN r.fired = 1..Len(r.fired)
          /\ DOMAIN (atOnce \o r.fired) = 1..(Len(atOnce) + Len(r.fired))
      BY <1>1, <1>3, ConcatType
    <3>2. \A k \in 1..(Len(atOnce) + Len(r.fired)) :
            (atOnce \o r.fired)[k] = IF k =< Len(atOnce) THEN atOnce[k] ELSE r.fired[k - Len(atOnce)]
      BY <1>1, ConcatProperties
    <3>3. ASSUME NEW k \in 1..Len(r.fired)
          PROVE  Len(atOnce) + k \in DOMAIN (atOnce \o r.fired) /\ (atOnce \o r.fired)[Len(atOnce) + k] = r.fired[k]
      <4>1. Len(atOnce) + k \in 1..(Len(atOnce) + Len(r.fired)) /\ ~(Len(atOnce) + k =< Len(atOnce))
            /\ (Len(atOnce) + k) - Len(atOnce) = k
        BY <3>1
      <4> QED BY <3>1, <3>2, <4>1
    <3> QED BY <3>1, <3>3 DEF Elements
  <2>2. Elements(atOnce \o r.fired) = Ids(Messages(atOnce \o r.fired))
    BY MessagesIds
  <2>3. Ids(Messages(atOnce \o r.fired)) \subseteq Ids(Messages(atOnce \o r.fired) \o then)
    BY <1>4, IdsConcat
  <2> QED BY <2>1, <2>2, <2>3
<1>7. /\ Ids(inbox) \subseteq Ids(inbox')
      /\ conn => Ids(Messages(atOnce \o r.fired) \o then) \subseteq Ids(inbox')
  BY <1>2, <1>5, BroadcastIds
<1>8. CASE conn
  BY <1>1, <1>2, <1>6, <1>7, <1>8
<1>9. CASE ~conn
  BY <1>1, <1>2, <1>7, <1>9
<1> QED BY <1>8, <1>9

(* A handler that leaves each gift where it is, or in the queue it serves.           *)
LEMMA EngineGifts ==
    ASSUME EffectsInv, GiftsKept, UNCHANGED pluginVars, \A i \in Seen : kind'[i] = kind[i],
           NEW sc,
           \A i \in held' : i \in Elements(sc) \/ (i \in held /\ i \notin Elements(superchats)),
           Ids(inbox) \subseteq Ids(inbox'),
           held' \cap Elements(sc) \subseteq Elements(superchats') \cup Ids(inbox')
    PROVE  GiftsKept'
<1>1. OnPage' = OnPage
  BY DEF OnPage, Waiting, pluginVars, fixedVars, tickerVars, bubbleVars
<1>2. ASSUME NEW i \in held', kind'[i] # "screen"
      PROVE  i \in Elements(superchats') \cup Ids(inbox') \cup OnPage'
  <2>1. CASE i \in Elements(sc)
    BY <2>1
  <2>2. CASE i \in held /\ i \notin Elements(superchats)
    <3>1. i \in Seen /\ kind[i] # "screen"
      BY <1>2, <2>2 DEF EffectsInv, HistTypes
    <3>2. i \in Ids(inbox) \cup OnPage
      BY <2>2, <3>1, KeptIs DEF GiftsKept
    <3> QED BY <1>1, <3>2
  <2> QED BY <2>1, <2>2
<1>3. Kept' = Elements(superchats') \cup Ids(inbox') \cup OnPage'
  BY DEF Kept, Ids, OnPage
<1> QED BY <1>2, <1>3 DEF GiftsKept

(* enqueue drops the oldest of a full queue only.                                    *)
LEMMA EnqueueKeeps ==
    ASSUME NEW S, NEW q \in Seq(S), NEW i \in S
    PROVE  /\ i \in Elements(Enqueue(q, i))
           /\ Elements(q) \ (IF Len(q) >= EngineQueue THEN {Head(q)} ELSE {}) \subseteq Elements(Enqueue(q, i))
<1> USE EffectsAssumption DEF EffectsAssumption
<1>1. CASE Len(q) >= EngineQueue
  <2>1. q # <<>> /\ Tail(q) \in Seq(S)
    BY <1>1
  <2>2. Elements(q) = {Head(q)} \cup Elements(Tail(q))
    BY <2>1, ElementsTail
  <2>3. Elements(Append(Tail(q), i)) = Elements(Tail(q)) \cup {i}
    BY <2>1, ElementsAppend
  <2> QED BY <1>1, <2>2, <2>3 DEF Enqueue
<1>2. CASE ~(Len(q) >= EngineQueue)
  <2>1. Elements(Append(q, i)) = Elements(q) \cup {i}
    BY ElementsAppend
  <2> QED BY <1>2, <2>1 DEF Enqueue
<1> QED BY <1>1, <1>2

LEMMA SuperchatGifts == ASSUME EffectsInv, GiftsKept, Superchat PROVE GiftsKept'
<1> USE DEF EngineStep
<1> DEFINE n == Len(kind')
           overrun == IF Len(superchats) >= EngineQueue THEN {Head(superchats)} ELSE {}
           owed == (held \cup (IF paused THEN {Newest} ELSE {})) \ overrun
           sc == Enqueue(superchats, Newest)
<1>1. n \in Nat /\ Len(kind) =< n /\ Newest \in 1..n /\ \A i \in Seen : kind'[i] = kind[i]
  BY NewFireFacts DEF EffectsInv, EngineTypes, Superchat
<1>2. superchats \in Seq(1..n) /\ manuals \in Seq(1..n) /\ inbox \in Seq(Msg(n))
  BY <1>1, EngineGrows DEF EffectsInv
<1> HIDE DEF n
<1>3. PICK act \in Unexpired : Emit(owed, <<>>, Served(sc, manuals, act, paused), <<>>)
  BY DEF Superchat
<1>4. act \in Seq(1..n) /\ Len(act) =< MaxEffects
  BY <1>1, ExpiredFacts
<1>5. sc \in Seq(1..n) /\ Newest \in Elements(sc) /\ Elements(superchats) \ overrun \subseteq Elements(sc)
  BY <1>1, <1>2, EnqueueType, EnqueueKeeps
<1>6. paused \in BOOLEAN /\ conn \in BOOLEAN /\ <<>> \in Seq(1..n) /\ <<>> \in Seq(Msg(n))
  BY DEF EffectsInv, EngineTypes
<1> HIDE DEF owed, sc
<1>7. /\ held' \subseteq owed /\ Ids(inbox) \subseteq Ids(inbox')
      /\ held' \cap Elements(sc) \subseteq Elements(superchats') \cup Ids(inbox')
  BY <1>1, <1>2, <1>3, <1>4, <1>5, <1>6, EmitGifts
<1>8. \A i \in held' : i \in Elements(sc) \/ (i \in held /\ i \notin Elements(superchats))
  BY <1>5, <1>7 DEF owed
<1>9. UNCHANGED pluginVars
  BY DEF Superchat
<1> QED BY <1>1, <1>7, <1>8, <1>9, EngineGifts

(* The other handlers serve the queue of gifts as it is.                             *)
LEMMA ServeGifts ==
    ASSUME EffectsInv, GiftsKept, NEW n \in Nat, n = Len(kind'), Len(kind) =< n,
           \A i \in Seen : kind'[i] = kind[i], UNCHANGED pluginVars,
           NEW atOnce \in Seq(1..n), NEW mn \in Seq(1..n), NEW act \in Seq(1..n),
           Len(act) =< MaxEffects, NEW halted \in BOOLEAN, NEW then \in Seq(Msg(n)),
           Emit(held, atOnce, Served(superchats, mn, act, halted), then)
    PROVE  GiftsKept'
<1>1. superchats \in Seq(1..n) /\ inbox \in Seq(Msg(n)) /\ conn \in BOOLEAN
  BY EngineGrows DEF EffectsInv, EngineTypes
<1>2. /\ held' \subseteq held /\ Ids(inbox) \subseteq Ids(inbox')
      /\ held' \cap Elements(superchats) \subseteq Elements(superchats') \cup Ids(inbox')
  BY <1>1, EmitGifts
<1>3. \A i \in held' : i \in Elements(superchats) \/ (i \in held /\ i \notin Elements(superchats))
  BY <1>2
<1> QED BY <1>2, <1>3, EngineGifts

LEMMA KeywordGifts == ASSUME EffectsInv, GiftsKept, Keyword PROVE GiftsKept'
<1> USE DEF EngineStep
<1> DEFINE n == Len(kind')
<1>1. n \in Nat /\ Len(kind) =< n /\ Newest \in 1..n /\ \A i \in Seen : kind'[i] = kind[i]
  BY NewFireFacts DEF EffectsInv, EngineTypes, Keyword
<1>2. manuals \in Seq(1..n) /\ paused \in BOOLEAN /\ UNCHANGED pluginVars
  BY <1>1, EngineGrows DEF EffectsInv, EngineTypes, Keyword
<1> HIDE DEF n
<1>3. <<>> \in Seq(1..n) /\ <<>> \in Seq(Msg(n)) /\ <<Newest>> \in Seq(1..n) /\ FALSE \in BOOLEAN
  BY <1>1
<1>4. PICK act \in Unexpired :
        \/ /\ ~paused /\ Len(act) < MaxEffects
           /\ Emit(held, <<Newest>>, Served(superchats, manuals, Append(act, Newest), FALSE), <<>>)
        \/ Emit(held, <<>>, Served(superchats, manuals, act, paused), <<>>)
  BY DEF Keyword
<1>5. act \in Seq(1..n) /\ Len(act) =< MaxEffects
  BY <1>1, ExpiredFacts
<1>6. CASE /\ ~paused /\ Len(act) < MaxEffects
           /\ Emit(held, <<Newest>>, Served(superchats, manuals, Append(act, Newest), FALSE), <<>>)
  <2>1. Append(act, Newest) \in Seq(1..n) /\ Len(Append(act, Newest)) =< MaxEffects
    BY <1>1, <1>5, <1>6, EffectsAssumption, AppendProperties DEF EffectsAssumption
  <2> QED BY <1>1, <1>2, <1>3, <1>6, <2>1, ServeGifts DEF n
<1>7. CASE Emit(held, <<>>, Served(superchats, manuals, act, paused), <<>>)
  BY <1>1, <1>2, <1>3, <1>5, <1>7, ServeGifts DEF n
<1> QED BY <1>4, <1>6, <1>7

LEMMA ManualGifts == ASSUME EffectsInv, GiftsKept, Manual PROVE GiftsKept'
<1> USE DEF EngineStep
<1> DEFINE n == Len(kind')
<1>1. n \in Nat /\ Len(kind) =< n /\ Newest \in 1..n /\ \A i \in Seen : kind'[i] = kind[i]
  BY NewFireFacts DEF EffectsInv, EngineTypes, Manual
<1>2. manuals \in Seq(1..n) /\ paused \in BOOLEAN /\ UNCHANGED pluginVars
  BY <1>1, EngineGrows DEF EffectsInv, EngineTypes, Manual
<1> HIDE DEF n
<1>3. <<>> \in Seq(1..n) /\ <<>> \in Seq(Msg(n))
  OBVIOUS
<1>4. PICK act \in Unexpired :
        Emit(held, <<>>, Served(superchats, Enqueue(manuals, Newest), act, paused), <<>>)
  BY DEF Manual
<1>5. act \in Seq(1..n) /\ Len(act) =< MaxEffects /\ Enqueue(manuals, Newest) \in Seq(1..n)
  BY <1>1, <1>2, ExpiredFacts, EnqueueType
<1> QED BY <1>1, <1>2, <1>3, <1>4, <1>5, ServeGifts DEF n

LEMMA PlainCommentGifts == ASSUME EffectsInv, GiftsKept, PlainComment PROVE GiftsKept'
<1> USE DEF EngineStep
<1> DEFINE n == Len(kind')
<1>1. n \in Nat /\ Len(kind) =< n /\ \A i \in Seen : kind'[i] = kind[i]
  BY DEF EffectsInv, EngineTypes, PlainComment
<1>2. manuals \in Seq(1..n) /\ paused \in BOOLEAN /\ UNCHANGED pluginVars
  BY <1>1, EngineGrows DEF EffectsInv, EngineTypes, PlainComment
<1> HIDE DEF n
<1>3. <<>> \in Seq(1..n) /\ <<>> \in Seq(Msg(n))
  OBVIOUS
<1>4. PICK act \in Unexpired : Emit(held, <<>>, Served(superchats, manuals, act, paused), <<>>)
  BY DEF PlainComment
<1>5. act \in Seq(1..n) /\ Len(act) =< MaxEffects
  BY <1>1, ExpiredFacts
<1> QED BY <1>1, <1>2, <1>3, <1>4, <1>5, ServeGifts DEF n

(* On a resume the gifts leave the queue before the page hears that it may show them. *)
LEMMA ResumeEngineGifts == ASSUME EffectsInv, GiftsKept, ResumeEngine PROVE GiftsKept'
<1> DEFINE n == Len(kind')
<1>1. n \in Nat /\ Len(kind) =< n /\ \A i \in Seen : kind'[i] = kind[i]
  BY DEF EffectsInv, EngineTypes, ResumeEngine
<1>2. manuals \in Seq(1..n) /\ UNCHANGED pluginVars
  BY <1>1, EngineGrows DEF EffectsInv, EngineTypes, ResumeEngine
<1> HIDE DEF n
<1>3. <<>> \in Seq(1..n) /\ <<Pause(FALSE)>> \in Seq(Msg(n)) /\ FALSE \in BOOLEAN
  BY DEF Msg
<1>4. PICK act \in Unexpired :
        Emit(held, <<>>, Served(superchats, manuals, act, FALSE), <<Pause(FALSE)>>)
  BY DEF ResumeEngine
<1>5. act \in Seq(1..n) /\ Len(act) =< MaxEffects
  BY <1>1, ExpiredFacts
<1> QED BY <1>1, <1>2, <1>3, <1>4, <1>5, ServeGifts DEF n

LEMMA PauseEngineGifts == ASSUME EffectsInv, GiftsKept, PauseEngine PROVE GiftsKept'
<1>1. UNCHANGED <<superchats, kind, held, pluginVars>> /\ Broadcast(<<Pause(TRUE)>>)
  BY DEF PauseEngine, effectHist
<1>2. inbox \in Seq(Msg(Len(kind))) /\ <<Pause(TRUE)>> \in Seq(Msg(Len(kind)))
  BY DEF EffectsInv, EngineTypes, Msg
<1>3. Ids(inbox) \subseteq Ids(inbox')
  BY <1>1, <1>2, BroadcastIds
<1>4. held' \cap Elements(superchats) \subseteq Elements(superchats') \cup Ids(inbox')
  BY <1>1
<1> QED BY <1>1, <1>3, <1>4, EngineGifts

LEMMA ClearPerformancesGifts == ASSUME EffectsInv, GiftsKept, ClearPerformances PROVE GiftsKept'
<1>1. /\ UNCHANGED <<kind, pluginVars>> /\ Broadcast(<<ClearAll>>)
      /\ held' = held \ (Elements(superchats) \cup Elements(manuals))
  BY DEF ClearPerformances
<1>2. inbox \in Seq(Msg(Len(kind))) /\ <<ClearAll>> \in Seq(Msg(Len(kind)))
  BY DEF EffectsInv, EngineTypes, Msg
<1>3. Ids(inbox) \subseteq Ids(inbox')
  BY <1>1, <1>2, BroadcastIds
<1>4. held' \cap Elements(superchats) \subseteq Elements(superchats') \cup Ids(inbox')
  BY <1>1
<1> QED BY <1>1, <1>3, <1>4, EngineGifts

-----------------------------------------------------------------------------
(* The gifts on the page: what leaves a queue is shown, fetched or waits again.       *)

Shows == showing' \cup bubbles' \cup {ticker'}

(* A step of the page that loses no effect but those it settles.                     *)
LEMMA PageGifts ==
    ASSUME EffectsInv, GiftsKept, UNCHANGED <<superchats, kind>>, NEW lost, Settle(lost),
           \A i \in OnPage \cup Ids(inbox) :
             \/ i \in OnPage' \cup Ids(inbox') \cup lost \cup Shows
             \/ i = 0 \/ kind[i] = "screen"
    PROVE  GiftsKept'
<1>1. held' = held \ (lost \cup Shows)
  BY DEF Settle, Shows
<1>2. ASSUME NEW i \in held', kind[i] # "screen"
      PROVE  i \in Elements(superchats') \cup Ids(inbox') \cup OnPage'
  <2>1. i \in held /\ i # 0
    BY <1>1, <1>2 DEF EffectsInv, HistTypes, Seen
  <2>2. i \in Elements(superchats) \cup Ids(inbox) \cup OnPage
    BY <1>2, <2>1, KeptIs DEF GiftsKept
  <2> QED BY <1>1, <1>2, <2>1, <2>2
<1>3. Kept' = Elements(superchats') \cup Ids(inbox') \cup OnPage'
  BY DEF Kept, Ids, OnPage
<1> QED BY <1>2, <1>3 DEF GiftsKept

LEMMA FixedNextKeeps ==
    ASSUME FixedInv, NEW on, NEW tm, FixedNext(on, tm)
    PROVE  Elements(queue) \subseteq Elements(queue') \cup showing'
<1>1. CASE queue = <<>> \/ overlayPaused' \/ on # {}
  BY <1>1 DEF FixedNext
<1>2. CASE ~(queue = <<>> \/ overlayPaused' \/ on # {})
  <2>1. showing' = {Head(queue)} /\ queue' = Tail(queue)
    BY <1>2 DEF FixedNext
  <2>2. Elements(queue) = {Head(queue)} \cup Elements(Tail(queue))
    BY <1>2, ElementsTail DEF FixedInv
  <2> QED BY <2>1, <2>2
<1> QED BY <1>1, <1>2

LEMMA TickerNextKeeps ==
    ASSUME TickerInv, NEW on, TickerNext(on)
    PROVE  Elements(tickerQueue) \subseteq Elements(tickerQueue') \cup {ticker'}
<1>1. CASE tickerQueue = <<>> \/ overlayPaused' \/ on # 0
  BY <1>1 DEF TickerNext
<1>2. CASE ~(tickerQueue = <<>> \/ overlayPaused' \/ on # 0)
  <2>1. ticker' = Head(tickerQueue) /\ tickerQueue' = Tail(tickerQueue)
    BY <1>2 DEF TickerNext
  <2>2. Elements(tickerQueue) = {Head(tickerQueue)} \cup Elements(Tail(tickerQueue))
    BY <1>2, ElementsTail DEF TickerInv
  <2> QED BY <2>1, <2>2
<1> QED BY <1>1, <1>2

LEMMA PlaceKeeps ==
    ASSUME NEW i \in Seen, NEW on, NEW q \in Seq(Seen), Place(i, on, q)
    PROVE  {i} \cup Elements(q) \subseteq Elements(bubbleQueue') \cup bubbles'
<1>1. \/ bubbles' = on \cup {i} /\ bubbleQueue' = q
      \/ bubbles' = on /\ bubbleQueue' = Append(q, i)
  BY DEF Place, Room
<1>2. Elements(Append(q, i)) = Elements(q) \cup {i}
  BY ElementsAppend
<1> QED BY <1>1, <1>2

LEMMA SpawnKeeps ==
    ASSUME NEW i \in Seen, NEW on, NEW q \in Seq(Seen), Spawn(i, on, q)
    PROVE  {i, spawnLock} \cup Elements(q)
             \subseteq Elements(bubbleQueue') \cup bubbles' \cup {spawnLock', 0}
<1>1. CASE spawnLock # 0 /\ UNCHANGED <<spawnLock, unfit>> /\ bubbles' = on /\ bubbleQueue' = Append(q, i)
  <2>1. Elements(Append(q, i)) = Elements(q) \cup {i}
    BY ElementsAppend
  <2> QED BY <1>1, <2>1
<1>2. CASE spawnLock = 0 /\ spawnLock' = i /\ bubbles' = on /\ bubbleQueue' = q /\ unfit' = unfit \ {i}
  BY <1>2
<1>3. CASE spawnLock = 0 /\ UNCHANGED spawnLock /\ Place(i, on, q)
  BY <1>3, PlaceKeeps
<1> QED BY <1>1, <1>2, <1>3 DEF Spawn

LEMMA BubbleNextKeeps ==
    ASSUME BubbleInv, NEW on, NEW tm, BubbleNext(on, tm)
    PROVE  {spawnLock} \cup Elements(bubbleQueue)
             \subseteq Elements(bubbleQueue') \cup bubbles' \cup {spawnLock', 0}
<1>1. CASE bubbleQueue = <<>> \/ overlayPaused'
  BY <1>1 DEF BubbleNext
<1>2. CASE ~(bubbleQueue = <<>> \/ overlayPaused')
  <2>1. Spawn(Head(bubbleQueue), on, Tail(bubbleQueue))
    BY <1>2 DEF BubbleNext
  <2>2. Head(bubbleQueue) \in Seen /\ Tail(bubbleQueue) \in Seq(Seen)
    BY <1>2 DEF BubbleInv
  <2>3. Elements(bubbleQueue) = {Head(bubbleQueue)} \cup Elements(Tail(bubbleQueue))
    BY <1>2, ElementsTail DEF BubbleInv
  <2> QED BY <2>1, <2>2, <2>3, SpawnKeeps
<1> QED BY <1>1, <1>2

(* What a plugin is asked to show is on display, waits or is fetched; only the       *)
(* screen overlay may ignore it.                                                     *)
LEMMA ShowKeeps ==
    ASSUME FixedInv, TickerInv, BubbleInv, NEW i \in Seen, Show(i)
    PROVE  \A e \in OnPage \cup {i} : e \in OnPage' \cup Shows \/ e = 0 \/ kind[e] = "screen"
<1> USE DEF OnPage, Waiting, Shows
<1>1. CASE ShowFixed(i)
  <2>1. UNCHANGED <<ticker, tickerQueue, bubbles, bubbleQueue, spawnLock>>
    BY <1>1 DEF ShowFixed, tickerVars, bubbleVars
  <2>2. \/ showing' = showing \cup {i} /\ queue' = queue
        \/ queue' = Append(queue, i)
    BY <1>1 DEF ShowFixed
  <2>3. Elements(Append(queue, i)) = Elements(queue) \cup {i}
    BY ElementsAppend DEF FixedInv
  <2> QED BY <2>1, <2>2, <2>3
<1>2. CASE ShowTicker(i)
  <2>1. UNCHANGED <<queue, bubbles, bubbleQueue, spawnLock>>
    BY <1>2 DEF ShowTicker, fixedVars, bubbleVars
  <2>2. \/ ticker' = i /\ tickerQueue' = tickerQueue
        \/ tickerQueue' = Append(tickerQueue, i)
    BY <1>2 DEF ShowTicker
  <2>3. Elements(Append(tickerQueue, i)) = Elements(tickerQueue) \cup {i}
    BY ElementsAppend DEF TickerInv
  <2> QED BY <2>1, <2>2, <2>3
<1>3. CASE ShowBubble(i)
  <2>1. UNCHANGED <<queue, tickerQueue>> /\ Spawn(i, bubbles, bubbleQueue)
    BY <1>3 DEF ShowBubble, fixedVars, tickerVars
  <2>2. {i, spawnLock} \cup Elements(bubbleQueue)
          \subseteq Elements(bubbleQueue') \cup bubbles' \cup {spawnLock', 0}
    BY <2>1, SpawnKeeps DEF BubbleInv
  <2> QED BY <2>1, <2>2
<1>4. CASE kind[i] = "screen" /\ ShowScreen
  <2>1. UNCHANGED <<queue, tickerQueue, bubbleQueue, spawnLock>>
    BY <1>4 DEF ShowScreen, fixedVars, tickerVars, bubbleVars
  <2> QED BY <1>4, <2>1
<1> QED BY <1>1, <1>2, <1>3, <1>4 DEF Show

(* A message taken is the effect shown, or names none.                               *)
LEMMA MessageTaken ==
    ASSUME HubInv, inbox # <<>>, inbox' = Tail(inbox)
    PROVE  /\ Ids(inbox) \subseteq {Head(inbox).id} \cup Ids(inbox')
           /\ Head(inbox).type # "performance" => Head(inbox).id = 0
<1>1. inbox \in Seq(Msg(Len(kind))) /\ Head(inbox) \in Msg(Len(kind))
  BY HeadType DEF HubInv, EngineTypes
<1>2. Ids(inbox) \subseteq {Head(inbox).id} \cup Ids(Tail(inbox))
  BY <1>1, IdsTail
<1>3. ASSUME NEW i \in 1..Len(kind), Head(inbox) = Fire(i) PROVE Head(inbox).type = "performance"
  BY <1>3 DEF Fire
<1>4. Pause(TRUE).id = 0 /\ Pause(FALSE).id = 0 /\ ClearAll.id = 0
  BY DEF Pause, ClearAll
<1> QED BY <1>1, <1>2, <1>3, <1>4 DEF Msg

LEMMA ExecuteGifts == ASSUME EffectsInv, GiftsKept, Execute PROVE GiftsKept'
<1> DEFINE i == Head(inbox).id
           watched == kind[i] = "screen" /\ overlay' = "shown" /\ ~overlayPaused
           lost == IF Refused(i) \/ watched THEN {i} ELSE {}
<1>1. HubInv /\ FixedInv /\ TickerInv /\ BubbleInv
  BY Parts
<1>2. inbox # <<>> /\ Head(inbox).type = "performance" /\ inbox' = Tail(inbox)
  BY DEF Execute, Receive
<1>3. i \in Seen /\ Ids(inbox) \subseteq {i} \cup Ids(inbox')
  BY <1>1, <1>2, HeadType, MessageTaken
<1>4. UNCHANGED <<superchats, kind>> /\ Settle(lost)
  BY DEF Execute, PageStep, engineVars, userVars
<1>5. CASE Refused(i)
  <2>1. OnPage' = OnPage
    BY <1>5 DEF Execute, OnPage, Waiting, pluginVars, fixedVars, tickerVars, bubbleVars
  <2>2. lost = {i}
    BY <1>5
  <2> HIDE DEF lost, i
  <2> QED BY <1>3, <1>4, <2>1, <2>2, PageGifts
<1>6. CASE ~Refused(i)
  <2>1. Show(i)
    BY <1>6 DEF Execute
  <2> HIDE DEF lost, i
  <2>2. \A e \in OnPage \cup {i} : e \in OnPage' \cup Shows \/ e = 0 \/ kind[e] = "screen"
    BY <1>1, <1>3, <2>1, ShowKeeps
  <2> QED BY <1>3, <1>4, <2>2, PageGifts
<1> QED BY <1>5, <1>6

(* Renderer.clear does not reach what the plugins keep.                              *)
LEMMA ClearGifts == ASSUME EffectsInv, GiftsKept, Clear PROVE GiftsKept'
<1>1. HubInv
  BY Parts
<1>2. inbox # <<>> /\ Head(inbox).type = "performance-clear" /\ inbox' = Tail(inbox)
  BY DEF Clear, Receive
<1>3. Ids(inbox) \subseteq {0} \cup Ids(inbox')
  BY <1>1, <1>2, MessageTaken
<1>4. UNCHANGED <<superchats, kind, held, queue, tickerQueue, bubbleQueue, spawnLock>>
  BY DEF Clear, PageStep, engineVars, userVars, fixedVars, tickerVars, bubbleVars
<1>5. OnPage' = OnPage
  BY <1>4 DEF OnPage, Waiting
<1>6. Kept' = Elements(superchats') \cup Ids(inbox') \cup OnPage'
  BY DEF Kept, Ids, OnPage
<1>7. \A i \in held : i # 0
  BY DEF EffectsInv, HistTypes, Seen
<1> QED BY <1>3, <1>4, <1>5, <1>6, <1>7, KeptIs DEF GiftsKept

(* A resume serves the queues of Sprout; a pause changes none.                       *)
LEMMA SetPausedGifts == ASSUME EffectsInv, GiftsKept, SetPaused PROVE GiftsKept'
<1>1. HubInv /\ TickerInv /\ BubbleInv
  BY Parts
<1>2. inbox # <<>> /\ Head(inbox).type = "pause" /\ inbox' = Tail(inbox)
  BY DEF SetPaused, Receive
<1>3. Ids(inbox) \subseteq {0} \cup Ids(inbox')
  BY <1>1, <1>2, MessageTaken
<1>4. UNCHANGED <<superchats, kind, queue>> /\ Settle({})
  BY DEF SetPaused, PageStep, engineVars, userVars
<1>5. \/ UNCHANGED <<tickerQueue, bubbleQueue, spawnLock>>
      \/ TickerNext(ticker) /\ BubbleNext(bubbles, bubbleTimer)
  BY DEF SetPaused, tickerVars, bubbleVars
<1>6. \A e \in OnPage : e \in OnPage' \cup Shows \/ e = 0
  BY <1>1, <1>4, <1>5, TickerNextKeeps, BubbleNextKeeps DEF OnPage, Waiting, Shows
<1> QED BY <1>3, <1>4, <1>6, PageGifts

(* Timers and ends, plugin by plugin.                                                *)
LEMMA FixedGifts ==
    ASSUME EffectsInv, GiftsKept, Tick, Settle({}), UNCHANGED <<tickerVars, bubbleVars>>,
           NEW on, NEW tm, FixedNext(on, tm)
    PROVE  GiftsKept'
<1>1. UNCHANGED <<superchats, kind, inbox, tickerQueue, bubbleQueue, spawnLock>> /\ FixedInv
  BY Parts DEF Tick, PageStep, engineVars, userVars, tickerVars, bubbleVars
<1>2. \A e \in OnPage : e \in OnPage' \cup Shows
  BY <1>1, FixedNextKeeps DEF OnPage, Waiting, Shows
<1> QED BY <1>1, <1>2, PageGifts

LEMMA TickerGifts ==
    ASSUME EffectsInv, GiftsKept, Tick, Settle({}), UNCHANGED <<fixedVars, bubbleVars>>,
           NEW on, TickerNext(on)
    PROVE  GiftsKept'
<1>1. UNCHANGED <<superchats, kind, inbox, queue, bubbleQueue, spawnLock>> /\ TickerInv
  BY Parts DEF Tick, PageStep, engineVars, userVars, fixedVars, bubbleVars
<1>2. \A e \in OnPage : e \in OnPage' \cup Shows
  BY <1>1, TickerNextKeeps DEF OnPage, Waiting, Shows
<1> QED BY <1>1, <1>2, PageGifts

LEMMA BubbleGifts ==
    ASSUME EffectsInv, GiftsKept, Tick, Settle({}), UNCHANGED <<fixedVars, tickerVars>>,
           {spawnLock} \cup Elements(bubbleQueue)
             \subseteq Elements(bubbleQueue') \cup bubbles' \cup {spawnLock', 0}
    PROVE  GiftsKept'
<1>1. UNCHANGED <<superchats, kind, inbox, queue, tickerQueue>>
  BY DEF Tick, PageStep, engineVars, userVars, fixedVars, tickerVars
<1>2. \A e \in OnPage : e \in OnPage' \cup Shows \/ e = 0
  BY <1>1 DEF OnPage, Waiting, Shows
<1> QED BY <1>1, <1>2, PageGifts

LEMMA TimersGifts == ASSUME EffectsInv, GiftsKept, Timers PROVE GiftsKept'
<1>1. BubbleInv
  BY Parts
<1>2. CASE LiveEnds
  <2>1. UNCHANGED <<superchats, kind, inbox, pluginVars, held>>
    BY <1>2 DEF LiveEnds, PageStep, engineVars, userVars, effectHist
  <2> QED BY <2>1 DEF GiftsKept, Kept, Waiting, pluginVars, fixedVars, tickerVars, bubbleVars
<1>3. CASE FixedTimer
  BY <1>3, FixedGifts DEF FixedTimer
<1>4. CASE ResumeCheck
  BY <1>4, FixedGifts DEF ResumeCheck
<1>5. CASE TickerEnds
  BY <1>5, TickerGifts DEF TickerEnds
<1>6. CASE BubbleTimer
  BY <1>1, <1>6, BubbleGifts, BubbleNextKeeps DEF BubbleTimer
<1>7. CASE FetchEnds
  <2>1. /\ Tick /\ Settle({}) /\ UNCHANGED <<fixedVars, tickerVars>>
        /\ spawnLock # 0 /\ Place(spawnLock, bubbles, bubbleQueue)
    BY <1>7 DEF FetchEnds
  <2>2. {spawnLock} \cup Elements(bubbleQueue) \subseteq Elements(bubbleQueue') \cup bubbles'
    BY <1>1, <2>1, PlaceKeeps DEF BubbleInv
  <2> QED BY <2>1, <2>2, BubbleGifts
<1>8. CASE ScreenAges \/ ScreenCheck \/ FadeEnds
  <2>1. Tick /\ Settle({}) /\ UNCHANGED <<fixedVars, tickerVars, bubbleVars>>
    BY <1>8 DEF ScreenAges, ScreenCheck, FadeEnds
  <2> QED BY <2>1, BubbleGifts DEF bubbleVars
<1>9. ASSUME NEW i \in Fires, FixedEnds(i) PROVE GiftsKept'
  BY <1>9, FixedGifts DEF FixedEnds
<1>10. ASSUME NEW i \in Fires, BubbleEnds(i) PROVE GiftsKept'
  BY <1>1, <1>10, BubbleGifts, BubbleNextKeeps DEF BubbleEnds
<1> QED BY <1>2, <1>3, <1>4, <1>5, <1>6, <1>7, <1>8, <1>9, <1>10 DEF Timers

(* A break of the stream takes what was on its way, the new page what waited.        *)
LEMMA StreamGifts == ASSUME EffectsInv, GiftsKept, Drop \/ Reload PROVE GiftsKept'
<1>1. Kept' = Elements(superchats') \cup Ids(inbox') \cup OnPage'
  BY DEF Kept, Ids, OnPage
<1>2. CASE Drop
  <2>1. UNCHANGED <<superchats, kind, pluginVars>> /\ held' = held \ Ids(inbox)
    BY <1>2 DEF Drop, engineVars, Ids
  <2>2. OnPage' = OnPage
    BY <2>1 DEF OnPage, Waiting, pluginVars, fixedVars, tickerVars, bubbleVars
  <2> QED BY <1>1, <2>1, <2>2, KeptIs DEF GiftsKept
<1>3. CASE Reload
  <2>1. UNCHANGED <<superchats, kind, inbox>> /\ held' = held \ OnPage
    BY <1>3 DEF Reload, engineVars, userVars, OnPage
  <2> QED BY <1>1, <2>1, KeptIs DEF GiftsKept
<1> QED BY <1>2, <1>3

(* A gift that came during a pause is kept until it is shown: whatever the user and   *)
(* the browser do, it is in the engine's queue, on its way, waiting in a plugin or    *)
(* being fetched, unless a limit, a clear or a break of the stream took it            *)
(* (GiftsKept; the screen overlay is the exception ResumedGiftShows is about).        *)
THEOREM GiftsAreKept == Spec => []GiftsKept
<1>1. Init => GiftsKept
  BY DEF Init, GiftsKept
<1>2. EffectsInv /\ GiftsKept /\ [Next]_effectVars => GiftsKept'
  <2> SUFFICES ASSUME EffectsInv, GiftsKept, [Next]_effectVars PROVE GiftsKept'
    OBVIOUS
  <2>1. CASE Trigger
    BY <2>1, SuperchatGifts, KeywordGifts, ManualGifts, PlainCommentGifts DEF Trigger
  <2>2. CASE User
    BY <2>2, PauseEngineGifts, ResumeEngineGifts, ClearPerformancesGifts DEF User
  <2>3. CASE Deliver
    BY <2>3, ExecuteGifts, ClearGifts, SetPausedGifts DEF Deliver
  <2>4. CASE Timers
    BY <2>4, TimersGifts
  <2>5. CASE Drop \/ Reload
    BY <2>5, StreamGifts
  <2>6. CASE UNCHANGED effectVars
    <3>1. UNCHANGED <<superchats, inbox, kind, held, queue, tickerQueue, bubbleQueue, spawnLock>>
      BY <2>6 DEF effectVars, engineVars, userVars, effectHist, pluginVars, fixedVars, tickerVars, bubbleVars
    <3> QED BY <3>1 DEF GiftsKept, Kept, Waiting
  <2> QED BY <2>1, <2>2, <2>3, <2>4, <2>5, <2>6 DEF Next
<1> QED BY <1>1, <1>2, EffectsInvariant, PTL DEF Spec
=============================================================================
