------------------------- MODULE ResetMigrationProofs -------------------------
(***************************************************************************)
(* What ResetMigration guarantees about the user's files, for any number of   *)
(* scenes, resets, ends of the process, and files that are locked or cannot be *)
(* written.                                                                   *)
(***************************************************************************)
EXTENDS ResetMigration, FiniteSetTheorems, TLAPS

\* An area is gone, or a lock has kept it.
Gone(a) == ~area[a] \/ a \in stuck

\* The user has asked for the loss of the areas of S, and was told of copies.
Covered(S) == S \subseteq asked /\ S \subseteq copied \cup warned

\* What the next start makes of the marker.
MarkerKind == IF marker = "torn" THEN "all" ELSE marker

ResetPcs == {"clear", "remove"}

\* While a reset is performed its marker is there, and says what is performed.
ResetFollowsMarker ==
    pc \in ResetPcs =>
        /\ marker # "none" /\ kind = MarkerKind
        /\ todo \subseteq Targets(kind)
        /\ pc = "clear" => kind # "data" /\ todo = Targets(kind)

\* The rest of a life runs without a marker, until it writes one.
NoMarkerLater == pc \notin ResetPcs \cup {"off", "leaving"} => marker = "none"

\* What a marker, or a marker about to be written, will take is covered.
MarkerIsCovered ==
    /\ marker = "torn" => torn
    /\ marker \in Kinds => Covered(Targets(marker))
    /\ pc = "mark" => Targets(kind) \subseteq copied \cup warned

\* What a reset has begun to remove is gone, or still ahead of it, or of the next
\* start.
BegunIsAhead ==
    /\ marker # "none" => \A a \in begun : Gone(a) \/ a \in Targets(MarkerKind)
    /\ pc \in ResetPcs => \A a \in (begun \cup Targets(kind)) \ todo : Gone(a)

\* Settings are in memory only within migrateRustOwnedLegacySettings, which holds
\* the whole file, and the preset is deleted after it was written.
KeysInHand ==
    /\ pc # "take" => mem = {}
    /\ pc = "take" => cfg \subseteq mem
    /\ pc = "preset" => legacy \cap {"preset"} \subseteq cfg

\* A migration runs only below the current version.
MigratesUpwards ==
    pc \in {"scenes", "copy", "preset", "take", "bans", "triggers", "record"} => version < Current

ResetInv ==
    /\ ResetTypeOK /\ MigratesUpwards /\ ResetFollowsMarker /\ NoMarkerLater /\ MarkerIsCovered
    /\ BegunIsAhead /\ KeysInHand
    /\ OnlyAskedIsLost /\ BegunResetIsFinished /\ SettingsKept

-----------------------------------------------------------------------------
USE DEF resetVars, diskVars, faultVars, copyHist, lossHist, resetHist, workVars, Goto, Current

(* A reset of any kind stays within the areas; one that clears the store also    *)
(* takes app-config.json.                                                       *)
LEMMA TargetFacts ==
    ASSUME NEW k \in Kinds
    PROVE  /\ Targets(k) \subseteq Areas
           /\ k # "data" => {"store", "appConfig"} \subseteq Targets(k)
           /\ k = "all" => Targets(k) = Areas
           /\ k = "data" => Targets(k) = {"data"}
           /\ k = "settings" => Targets(k) = {"store", "appConfig", "scenes"}
BY DEF Kinds, Targets, Areas

LEMMA AreasFinite ==
    ASSUME NEW S \in SUBSET Areas
    PROVE  Cardinality(S) \in Nat
<1>1. IsFiniteSet({}) /\ IsFiniteSet({"store"})
  BY FS_EmptySet, FS_Singleton
<1>2. IsFiniteSet({"store"} \cup {"appConfig"})
  BY <1>1, FS_AddElement
<1>3. IsFiniteSet(({"store"} \cup {"appConfig"}) \cup {"scenes"})
  BY <1>2, FS_AddElement
<1>4. IsFiniteSet((({"store"} \cup {"appConfig"}) \cup {"scenes"}) \cup {"data"})
  BY <1>3, FS_AddElement
<1>5. IsFiniteSet(((({"store"} \cup {"appConfig"}) \cup {"scenes"}) \cup {"data"}) \cup {"login"})
  BY <1>4, FS_AddElement
<1>6. Areas = ((({"store"} \cup {"appConfig"}) \cup {"scenes"}) \cup {"data"}) \cup {"login"}
  BY DEF Areas
<1>7. IsFiniteSet(Areas)
  BY <1>5, <1>6
<1> QED BY <1>7, FS_Subset, FS_CardinalityType

(* A write that is cut leaves the file as it was, or empty. *)
LEMMA LeftFacts == \A kept \in Left : kept = cfg \/ kept = {}
BY DEF Left

LEMMA ResetInit == Init => ResetInv
<1> SUFFICES ASSUME Init PROVE ResetInv
  OBVIOUS
<1> USE ResetAssumption DEF ResetAssumption
<1>1. ResetTypeOK
  <2>1. /\ area \in [Areas -> BOOLEAN] /\ mascot \in [Scenes -> {"none", "config", "done"}]
        /\ scene \in Scenes \cup {NoScene}
    BY DEF Init
  <2>2. resets \in 0..MaxResets /\ crashes \in 0..MaxCrashes /\ locked \in 0..MaxLocked
    BY DEF Init
  <2>3. version \in 0..Current /\ legacy \subseteq Keys /\ cfg \subseteq Keys
    BY DEF Init, Keys
  <2>4. mem \subseteq Keys /\ cut \subseteq Keys /\ unwritten \subseteq Keys /\ kind \in Kinds /\ torn \in BOOLEAN
    BY DEF Init, Keys, Kinds
  <2> QED BY <2>1, <2>2, <2>3, <2>4 DEF Init, ResetTypeOK
<1>2. MigratesUpwards /\ ResetFollowsMarker /\ NoMarkerLater /\ MarkerIsCovered
  BY DEF Init, MigratesUpwards, ResetFollowsMarker, NoMarkerLater, MarkerIsCovered, ResetPcs, Kinds
<1>3. BegunIsAhead /\ KeysInHand
  BY DEF Init, BegunIsAhead, KeysInHand, ResetPcs
<1>4. OnlyAskedIsLost /\ BegunResetIsFinished /\ SettingsKept
  BY DEF Init, OnlyAskedIsLost, BegunResetIsFinished, SettingsKept, Keys
<1> QED BY <1>1, <1>2, <1>3, <1>4 DEF ResetInv

(* Types, and the versions the migrations run from. *)
LEMMA ResetTypeStep ==
    ASSUME ResetTypeOK, MigratesUpwards, Next
    PROVE  (ResetTypeOK /\ MigratesUpwards)'
<1> USE ResetAssumption DEF ResetAssumption, ResetTypeOK, MigratesUpwards, Kinds, Keys
<1>1. CASE Start
  BY <1>1, TargetFacts DEF Start
<1>2. CASE ClearStore
  <2>1. area' \in [Areas -> BOOLEAN]
    BY <1>2 DEF ClearStore
  <2>2. version' \in 0..Current /\ legacy' \subseteq Keys /\ begun' \subseteq Areas
    BY <1>2 DEF ClearStore
  <2> QED BY <1>2, <2>1, <2>2 DEF ClearStore
<1>3. CASE \E a \in Areas : RemoveTarget(a)
  <2> SUFFICES ASSUME NEW a \in Areas, RemoveTarget(a) PROVE (ResetTypeOK /\ MigratesUpwards)'
    BY <1>3
  <2>1. area' \in [Areas -> BOOLEAN] /\ mascot' \in [Scenes -> {"none", "config", "done"}]
    BY DEF RemoveTarget
  <2>2. locked' \in 0..MaxLocked
    BY DEF RemoveTarget
  <2>3. cfg' \subseteq Keys /\ todo' \subseteq Areas /\ stuck' \subseteq Areas /\ begun' \subseteq Areas
    BY TargetFacts DEF RemoveTarget
  <2> QED BY <2>1, <2>2, <2>3 DEF RemoveTarget
<1>4. CASE DropMarker
  BY <1>4 DEF DropMarker
<1>5. CASE NextMigration
  <2>1. pc' \in {"scenes", "bans", "triggers", "run"} /\ (pc' # "run" => version < Current)
    BY <1>5 DEF NextMigration
  <2>2. rest' \subseteq Scenes
    BY <1>5 DEF NextMigration, SceneDirs
  <2> QED BY <1>5, <2>1, <2>2 DEF NextMigration
<1>6. CASE Record
  BY <1>6 DEF Record
<1>7. CASE \E s \in Scenes : SkipMascot(s)
  BY <1>7 DEF SkipMascot
<1>8. CASE \E s \in Scenes : WriteMascotConfig(s)
  BY <1>8 DEF WriteMascotConfig
<1>9. CASE CopyMascot
  <2>1. mascot' \in [Scenes -> {"none", "config", "done"}] /\ scene' \in Scenes \cup {NoScene}
    BY <1>9 DEF CopyMascot
  <2>2. pc' = "scenes" /\ version < Current
    BY <1>9 DEF CopyMascot
  <2> QED BY <1>9, <2>1, <2>2 DEF CopyMascot
<1>10. CASE WritePreset
  BY <1>10 DEF WritePreset
<1>11. CASE DeletePreset
  BY <1>11 DEF DeletePreset
<1>12. CASE \E k \in Keys : TakeKey(k)
  BY <1>12 DEF TakeKey
<1>13. CASE WriteTaken
  BY <1>13 DEF WriteTaken
<1>14. CASE DropBans
  BY <1>14 DEF DropBans
<1>15. CASE FixTriggers
  BY <1>15 DEF FixTriggers
<1>16. CASE \E k \in Kinds : AskReset(k)
  <2>1. resets' \in 0..MaxResets
    BY <1>16 DEF AskReset
  <2> QED BY <1>16, <2>1 DEF AskReset
<1>17. CASE Snapshot
  BY <1>17, TargetFacts, AreasFinite DEF Snapshot
<1>18. CASE WriteMarker
  <2>1. asked' \subseteq Areas
    BY <1>18, TargetFacts DEF WriteMarker
  <2> QED BY <1>18, <2>1 DEF WriteMarker
<1>19. CASE Leave
  BY <1>19 DEF Leave
<1>20. CASE Crash
  <2>1. crashes' \in 0..MaxCrashes
    BY <1>20 DEF Crash
  <2>2. marker' \in {"none", "torn"} \cup Kinds /\ torn' \in BOOLEAN
    BY <1>20 DEF Crash
  <2>3. asked' \subseteq Areas
    BY <1>20, TargetFacts DEF Crash
  <2>4. cfg' \subseteq Keys /\ cut' \subseteq Keys
    BY <1>20, LeftFacts DEF Crash, LostBut
  <2> QED BY <1>20, <2>1, <2>2, <2>3, <2>4 DEF Crash
<1>21. CASE MigrationFails
  <2>1. locked' \in 0..MaxLocked
    BY <1>21 DEF MigrationFails
  <2>2. cfg' \subseteq Keys /\ unwritten' \subseteq Keys
    BY <1>21, LeftFacts DEF MigrationFails, LostBut
  <2>3. pc' = "run" /\ scene' = NoScene /\ rest' = {} /\ mem' = {}
    BY <1>21 DEF MigrationFails
  <2> QED BY <1>21, <2>1, <2>2, <2>3 DEF MigrationFails
<1> QED BY <1>1, <1>2, <1>3, <1>4, <1>5, <1>6, <1>7, <1>8, <1>9, <1>10, <1>11, <1>12, <1>13, <1>14, <1>15, <1>16, <1>17, <1>18, <1>19, <1>20, <1>21 DEF Next, Resetting, Migrating, Asking

(* The marker: what it says is performed, and what it takes is covered. *)
LEMMA MarkerStep ==
    ASSUME ResetTypeOK, ResetFollowsMarker, NoMarkerLater, MarkerIsCovered, Next
    PROVE  (ResetFollowsMarker /\ NoMarkerLater /\ MarkerIsCovered)'
<1> USE DEF ResetTypeOK, ResetFollowsMarker, NoMarkerLater, MarkerIsCovered, Covered, MarkerKind, ResetPcs, Kinds
<1>1. CASE Start
  BY <1>1, TargetFacts DEF Start
<1>2. CASE ClearStore
  BY <1>2 DEF ClearStore
<1>3. CASE \E a \in Areas : RemoveTarget(a)
  BY <1>3 DEF RemoveTarget
<1>4. CASE DropMarker
  BY <1>4 DEF DropMarker
<1>5. CASE NextMigration
  BY <1>5 DEF NextMigration
<1>6. CASE Record
  BY <1>6 DEF Record
<1>7. CASE \E s \in Scenes : SkipMascot(s)
  BY <1>7 DEF SkipMascot
<1>8. CASE \E s \in Scenes : WriteMascotConfig(s)
  BY <1>8 DEF WriteMascotConfig
<1>9. CASE CopyMascot
  BY <1>9 DEF CopyMascot
<1>10. CASE WritePreset
  BY <1>10 DEF WritePreset
<1>11. CASE DeletePreset
  BY <1>11 DEF DeletePreset
<1>12. CASE \E k \in Keys : TakeKey(k)
  BY <1>12 DEF TakeKey
<1>13. CASE WriteTaken
  BY <1>13 DEF WriteTaken
<1>14. CASE DropBans
  BY <1>14 DEF DropBans
<1>15. CASE FixTriggers
  BY <1>15 DEF FixTriggers
<1>16. CASE \E k \in Kinds : AskReset(k)
  BY <1>16 DEF AskReset
<1>17. CASE Snapshot
  BY <1>17 DEF Snapshot
<1>18. CASE WriteMarker
  BY <1>18 DEF WriteMarker
<1>19. CASE Leave
  BY <1>19 DEF Leave
<1>20. CASE Crash
  BY <1>20, TargetFacts DEF Crash
<1>21. CASE MigrationFails
  BY <1>21 DEF MigrationFails
<1> QED BY <1>1, <1>2, <1>3, <1>4, <1>5, <1>6, <1>7, <1>8, <1>9, <1>10, <1>11, <1>12, <1>13, <1>14, <1>15, <1>16, <1>17, <1>18, <1>19, <1>20, <1>21 DEF Next, Resetting, Migrating, Asking

(* What is removed belongs to a marker, and so was asked for. *)
LEMMA LossStep ==
    ASSUME ResetTypeOK, ResetFollowsMarker, MarkerIsCovered, OnlyAskedIsLost, Next
    PROVE  (OnlyAskedIsLost)'
<1> USE DEF ResetTypeOK, ResetFollowsMarker, MarkerIsCovered, OnlyAskedIsLost, Covered, MarkerKind, ResetPcs, Kinds
<1>1. CASE Start
  BY <1>1 DEF Start
<1>2. CASE ClearStore
  BY <1>2, TargetFacts DEF ClearStore
<1>3. CASE \E a \in Areas : RemoveTarget(a)
  BY <1>3, TargetFacts DEF RemoveTarget
<1>4. CASE DropMarker
  BY <1>4 DEF DropMarker
<1>5. CASE NextMigration
  BY <1>5 DEF NextMigration
<1>6. CASE Record
  BY <1>6 DEF Record
<1>7. CASE \E s \in Scenes : SkipMascot(s)
  BY <1>7 DEF SkipMascot
<1>8. CASE \E s \in Scenes : WriteMascotConfig(s)
  BY <1>8 DEF WriteMascotConfig
<1>9. CASE CopyMascot
  BY <1>9 DEF CopyMascot
<1>10. CASE WritePreset
  BY <1>10 DEF WritePreset
<1>11. CASE DeletePreset
  BY <1>11 DEF DeletePreset
<1>12. CASE \E k \in Keys : TakeKey(k)
  BY <1>12 DEF TakeKey
<1>13. CASE WriteTaken
  BY <1>13 DEF WriteTaken
<1>14. CASE DropBans
  BY <1>14 DEF DropBans
<1>15. CASE FixTriggers
  BY <1>15 DEF FixTriggers
<1>16. CASE \E k \in Kinds : AskReset(k)
  BY <1>16 DEF AskReset
<1>17. CASE Snapshot
  BY <1>17 DEF Snapshot
<1>18. CASE WriteMarker
  BY <1>18 DEF WriteMarker
<1>19. CASE Leave
  BY <1>19 DEF Leave
<1>20. CASE Crash
  BY <1>20 DEF Crash
<1>21. CASE MigrationFails
  BY <1>21 DEF MigrationFails
<1> QED BY <1>1, <1>2, <1>3, <1>4, <1>5, <1>6, <1>7, <1>8, <1>9, <1>10, <1>11, <1>12, <1>13, <1>14, <1>15, <1>16, <1>17, <1>18, <1>19, <1>20, <1>21 DEF Next, Resetting, Migrating, Asking

(* What a reset has begun is finished, or ahead of it or of the next start. *)
LEMMA BegunStep ==
    ASSUME ResetTypeOK, ResetFollowsMarker, NoMarkerLater, BegunIsAhead, BegunResetIsFinished, Next
    PROVE  (BegunIsAhead /\ BegunResetIsFinished)'
<1> USE DEF ResetTypeOK, ResetFollowsMarker, NoMarkerLater, BegunIsAhead, BegunResetIsFinished, Gone, MarkerKind, ResetPcs, Kinds
<1>1. CASE Start
  BY <1>1, TargetFacts DEF Start
<1>2. CASE ClearStore
  BY <1>2, TargetFacts DEF ClearStore
<1>3. CASE \E a \in Areas : RemoveTarget(a)
  BY <1>3, TargetFacts DEF RemoveTarget
<1>4. CASE DropMarker
  BY <1>4 DEF DropMarker
<1>5. CASE NextMigration
  BY <1>5 DEF NextMigration
<1>6. CASE Record
  BY <1>6 DEF Record
<1>7. CASE \E s \in Scenes : SkipMascot(s)
  BY <1>7 DEF SkipMascot
<1>8. CASE \E s \in Scenes : WriteMascotConfig(s)
  BY <1>8 DEF WriteMascotConfig
<1>9. CASE CopyMascot
  BY <1>9 DEF CopyMascot
<1>10. CASE WritePreset
  BY <1>10 DEF WritePreset
<1>11. CASE DeletePreset
  BY <1>11 DEF DeletePreset
<1>12. CASE \E k \in Keys : TakeKey(k)
  BY <1>12 DEF TakeKey
<1>13. CASE WriteTaken
  BY <1>13 DEF WriteTaken
<1>14. CASE DropBans
  BY <1>14 DEF DropBans
<1>15. CASE FixTriggers
  BY <1>15 DEF FixTriggers
<1>16. CASE \E k \in Kinds : AskReset(k)
  BY <1>16 DEF AskReset
<1>17. CASE Snapshot
  BY <1>17 DEF Snapshot
<1>18. CASE WriteMarker
  BY <1>18, TargetFacts DEF WriteMarker
<1>19. CASE Leave
  BY <1>19 DEF Leave
<1>20. CASE Crash
  BY <1>20, TargetFacts DEF Crash
<1>21. CASE MigrationFails
  BY <1>21 DEF MigrationFails
<1> QED BY <1>1, <1>2, <1>3, <1>4, <1>5, <1>6, <1>7, <1>8, <1>9, <1>10, <1>11, <1>12, <1>13, <1>14, <1>15, <1>16, <1>17, <1>18, <1>19, <1>20, <1>21 DEF Next, Resetting, Migrating, Asking

(* Each key is in one of the files, or in the hands of the migration. *)
LEMMA KeysStep ==
    ASSUME ResetTypeOK, ResetFollowsMarker, MarkerIsCovered, KeysInHand, SettingsKept, Next
    PROVE  (KeysInHand /\ SettingsKept)'
<1> USE DEF ResetTypeOK, ResetFollowsMarker, MarkerIsCovered, KeysInHand, SettingsKept, Covered, MarkerKind, ResetPcs, Kinds
<1>1. CASE Start
  BY <1>1 DEF Start
<1>2. CASE ClearStore
  BY <1>2, TargetFacts DEF ClearStore
<1>3. CASE \E a \in Areas : RemoveTarget(a)
  BY <1>3, TargetFacts DEF RemoveTarget
<1>4. CASE DropMarker
  BY <1>4 DEF DropMarker
<1>5. CASE NextMigration
  BY <1>5 DEF NextMigration
<1>6. CASE Record
  BY <1>6 DEF Record
<1>7. CASE \E s \in Scenes : SkipMascot(s)
  BY <1>7 DEF SkipMascot
<1>8. CASE \E s \in Scenes : WriteMascotConfig(s)
  BY <1>8 DEF WriteMascotConfig
<1>9. CASE CopyMascot
  BY <1>9 DEF CopyMascot
<1>10. CASE WritePreset
  BY <1>10 DEF WritePreset
<1>11. CASE DeletePreset
  BY <1>11 DEF DeletePreset
<1>12. CASE \E k \in Keys : TakeKey(k)
  BY <1>12 DEF TakeKey
<1>13. CASE WriteTaken
  BY <1>13 DEF WriteTaken
<1>14. CASE DropBans
  BY <1>14 DEF DropBans
<1>15. CASE FixTriggers
  BY <1>15 DEF FixTriggers
<1>16. CASE \E k \in Kinds : AskReset(k)
  BY <1>16 DEF AskReset
<1>17. CASE Snapshot
  BY <1>17 DEF Snapshot
<1>18. CASE WriteMarker
  BY <1>18 DEF WriteMarker
<1>19. CASE Leave
  BY <1>19 DEF Leave
<1>20. CASE Crash
  BY <1>20, LeftFacts DEF Crash, LostBut
<1>21. CASE MigrationFails
  BY <1>21, LeftFacts DEF MigrationFails, LostBut
<1> QED BY <1>1, <1>2, <1>3, <1>4, <1>5, <1>6, <1>7, <1>8, <1>9, <1>10, <1>11, <1>12, <1>13, <1>14, <1>15, <1>16, <1>17, <1>18, <1>19, <1>20, <1>21 DEF Next, Resetting, Migrating, Asking

(* Every step keeps the invariant.                                           *)
LEMMA ResetStep == ResetInv /\ [Next]_resetVars => ResetInv'
<1>1. CASE Next
  BY <1>1, ResetTypeStep, MarkerStep, LossStep, BegunStep, KeysStep DEF ResetInv
<1>2. CASE UNCHANGED resetVars
  BY <1>2 DEF ResetInv, ResetTypeOK, MigratesUpwards, ResetFollowsMarker, NoMarkerLater, MarkerIsCovered,
       BegunIsAhead, KeysInHand, OnlyAskedIsLost, BegunResetIsFinished, SettingsKept, Gone, Covered,
       MarkerKind, ResetPcs
<1> QED BY <1>1, <1>2

(* The inductive invariant holds in every reachable state.                    *)
THEOREM ResetInvariant == Spec => []ResetInv
BY ResetInit, ResetStep, PTL DEF Spec

(* Every variable keeps its type (main.js, migration.js).                      *)
THEOREM ResetTypeCorrect == Spec => []ResetTypeOK
<1>1. ResetInv => ResetTypeOK
  BY DEF ResetInv
<1> QED BY <1>1, ResetInvariant, PTL

(* performPendingResetIfNeeded removes only what resetAndRelaunch was asked for,  *)
(* and only what a snapshot holds or a warning told of.                          *)
THEOREM NothingElseIsLost == Spec => []OnlyAskedIsLost
<1>1. ResetInv => OnlyAskedIsLost
  BY DEF ResetInv
<1> QED BY <1>1, ResetInvariant, PTL

(* A reset that was interrupted while it removed files has removed them all once  *)
(* its marker is gone.                                                           *)
THEOREM ResetIsCarriedThrough == Spec => []BegunResetIsFinished
<1>1. ResetInv => BegunResetIsFinished
  BY DEF ResetInv
<1> QED BY <1>1, ResetInvariant, PTL

(* migrateRustOwnedLegacySettings and its neighbours lose no legacy setting       *)
(* between the store and app-config.json, but to an end of the process within a    *)
(* step, or to a step that throws (run), and then only what neither file holds.    *)
THEOREM NoSettingIsLost == Spec => []SettingsKept
<1>1. ResetInv => SettingsKept
  BY DEF ResetInv
<1> QED BY <1>1, ResetInvariant, PTL
=============================================================================
