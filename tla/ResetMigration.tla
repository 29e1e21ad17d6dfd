---------------------------- MODULE ResetMigration ----------------------------
(***************************************************************************)
(* What the start of the application does to the user's files before the core *)
(* runs: a reset the user asked for in the previous life, which left a marker *)
(* file, and then the data migrations the stored version lacks. The process   *)
(* may end at any step, a file that is locked cannot be copied or removed, and   *)
(* a step of a migration may throw.                                           *)
(***************************************************************************)
EXTENDS Naturals, FiniteSets

CONSTANTS
    Scenes,      \* directories of scenes/
    NoScene,     \* none of them
    MaxResets,   \* bound: resets the user asks for
    MaxCrashes,  \* bound: ends of the process in the middle of a step
    MaxLocked    \* bound: files that cannot be copied, removed or written

ASSUME ResetAssumption ==
    /\ IsFiniteSet(Scenes) /\ NoScene \notin Scenes
    /\ MaxResets \in Nat /\ MaxCrashes \in Nat /\ MaxLocked \in Nat

Areas == {"store", "appConfig", "scenes", "data", "login"}
Kinds == {"settings", "data", "all"}
Keys == {"preset", "banned", "cooldown"}  \* settings that moved from the store to app-config.json
Current == 3                             \* versions: 1 = 0.3.0, 2 = 0.3.1, 3 = 0.5.1

VARIABLES
    marker,   \* the pending-reset file: absent, unreadable, or its kind
    area,     \* whether the user's content of an area is still there
    version,  \* lastVersion in the store
    legacy,   \* keys still in the store
    cfg,      \* keys in app-config.json
    mascot,   \* mascot directory of each scene: absent, its config.json only, complete
    pc,       \* where the process is
    kind,     \* the reset being asked for or performed
    todo,     \* areas still to remove
    rest,     \* scenes still to migrate
    scene,    \* the scene whose files are being copied
    mem,      \* app-config.json as migrateRustOwnedLegacySettings holds it
    resets, crashes, locked,
    asked,    \* history: areas the user asked to reset
    torn,     \* history: a crash left the marker unreadable
    begun,    \* history: areas of the resets that have started to remove
    stuck,    \* history: areas a lock kept from being removed
    copied,   \* history: areas a snapshot holds
    warned,   \* history: areas a lock kept from being copied
    cut,      \* history: settings in flight when a process ended, or dropped by a migration
    unwritten \* history: settings in flight when a migration threw

diskVars == <<marker, area, version, legacy, cfg, mascot>>
faultVars == <<resets, crashes, locked>>
copyHist == <<copied, warned>>
lossHist == <<cut, unwritten>>
resetHist == <<asked, torn, begun, stuck, lossHist, copyHist>>
workVars == <<todo, rest, scene>>
resetVars == <<diskVars, pc, kind, workVars, mem, faultVars, resetHist>>

\* resetTargetPaths
Targets(k) ==
    CASE k = "settings" -> {"store", "appConfig", "scenes"}
      [] k = "data"     -> {"data"}
      [] k = "all"      -> Areas

Init ==
    /\ marker = "none" /\ area = [a \in Areas |-> TRUE]
    /\ version \in 0..Current
    /\ legacy = (IF version = 0 THEN Keys ELSE {})
    /\ cfg = (IF version = 0 THEN {} ELSE IF version = 1 THEN Keys ELSE Keys \ {"banned"})
    /\ mascot = [s \in Scenes |-> IF version = 0 THEN "none" ELSE "done"]
    /\ pc = "off" /\ kind = "all" /\ todo = {} /\ rest = {} /\ scene = NoScene /\ mem = {}
    /\ resets = 0 /\ crashes = 0 /\ locked = 0
    /\ asked = {} /\ torn = FALSE /\ begun = {} /\ stuck = {} /\ copied = {} /\ warned = {}
    /\ cut = (IF version >= 2 THEN {"banned"} ELSE {}) /\ unwritten = {}

Goto(from, to) == pc = from /\ pc' = to

-----------------------------------------------------------------------------
(* performPendingResetIfNeeded                                               *)

\* Mutant: whatever its kind, the marker resets everything.
StartAll ==
    /\ pc = "off"
    /\ IF marker = "none"
       THEN pc' = "migrate" /\ UNCHANGED <<kind, todo>>
       ELSE kind' = "all" /\ todo' = Areas /\ pc' = "clear"
    /\ UNCHANGED <<diskVars, rest, scene, mem, faultVars, resetHist>>

\* A marker that cannot be parsed is a reset of everything.
Start ==
    /\ pc = "off"
    /\ IF marker = "none"
       THEN pc' = "migrate" /\ UNCHANGED <<kind, todo>>
       ELSE LET k == IF marker = "torn" THEN "all" ELSE marker IN
            /\ kind' = k /\ todo' = Targets(k)
            /\ pc' = IF k = "data" THEN "remove" ELSE "clear"
    /\ UNCHANGED <<diskVars, rest, scene, mem, faultVars, resetHist>>

\* store.clear()
ClearStore ==
    /\ Goto("clear", "remove")
    /\ version' = 0 /\ legacy' = {}
    /\ area' = [area EXCEPT !["store"] = FALSE]
    /\ begun' = begun \cup todo
    /\ UNCHANGED <<marker, cfg, mascot, kind, workVars, mem, faultVars, asked, torn, stuck, lossHist, copyHist>>

\* removeResetTargetsSync: a target that is locked is left, and the loop goes on.
RemoveTarget(a) ==
    /\ pc = "remove" /\ a \in todo
    /\ todo' = todo \ {a}
    /\ begun' = begun \cup Targets(kind)
    /\ \/ /\ area' = [area EXCEPT ![a] = FALSE]
          /\ cfg' = IF a = "appConfig" THEN {} ELSE cfg
          /\ mascot' = IF a = "scenes" THEN [s \in Scenes |-> "none"] ELSE mascot
          /\ UNCHANGED <<locked, stuck>>
       \/ /\ locked < MaxLocked /\ locked' = locked + 1
          /\ stuck' = stuck \cup {a}
          /\ UNCHANGED <<area, cfg, mascot>>
    /\ UNCHANGED <<marker, version, legacy, pc, kind, rest, scene, mem, resets, crashes, asked, torn, lossHist, copyHist>>

\* Mutant: the marker is removed before the targets.
DropMarkerEarly ==
    /\ pc = "remove" /\ marker # "none" /\ marker' = "none"
    /\ pc' = (IF todo = {} THEN "migrate" ELSE pc)
    /\ UNCHANGED <<area, version, legacy, cfg, mascot, kind, workVars, mem, faultVars, resetHist>>

\* The marker is removed, whether or not every target was.
DropMarker ==
    /\ todo = {} /\ Goto("remove", "migrate")
    /\ marker' = "none"
    /\ UNCHANGED <<area, version, legacy, cfg, mascot, kind, workVars, mem, faultVars, resetHist>>

-----------------------------------------------------------------------------
(* migration.run: the migrations above the stored version, in order.           *)

SceneDirs == IF area["scenes"] THEN Scenes ELSE {}

\* Mutant: the newest version is not compared.
NextMigrationShort ==
    /\ pc = "migrate"
    /\ pc' = CASE version = 0 -> "scenes"
                [] version = 1 -> "bans"
                [] OTHER -> "run"
    /\ rest' = IF version = 0 THEN SceneDirs ELSE {}
    /\ UNCHANGED <<diskVars, kind, todo, scene, mem, faultVars, resetHist>>

\* Mutant: the newest version counts as not yet applied.
NextMigrationAgain ==
    /\ pc = "migrate"
    /\ pc' = CASE version = 0 -> "scenes"
                [] version = 1 -> "bans"
                [] OTHER -> "triggers"
    /\ rest' = IF version = 0 THEN SceneDirs ELSE {}
    /\ UNCHANGED <<diskVars, kind, todo, scene, mem, faultVars, resetHist>>

NextMigration ==
    /\ pc = "migrate"
    /\ pc' = CASE version = 0 -> "scenes"
                [] version = 1 -> "bans"
                [] version = 2 -> "triggers"
                [] OTHER -> "run"
    /\ rest' = IF version = 0 THEN SceneDirs ELSE {}
    /\ UNCHANGED <<diskVars, kind, todo, scene, mem, faultVars, resetHist>>

\* store.set('lastVersion'), after the migration has returned.
Record ==
    /\ Goto("record", "migrate") /\ version' = version + 1
    /\ UNCHANGED <<marker, area, legacy, cfg, mascot, kind, workVars, mem, faultVars, resetHist>>

\* 0.3.0, a scene whose mascot/config.json exists is skipped ...
SkipMascot(s) ==
    /\ pc = "scenes" /\ s \in rest /\ mascot[s] # "none"
    /\ rest' = rest \ {s}
    /\ UNCHANGED <<diskVars, pc, kind, todo, scene, mem, faultVars, resetHist>>

\* ... for the others config.json is written ...
WriteMascotConfig(s) ==
    /\ pc = "scenes" /\ s \in rest /\ mascot[s] = "none"
    /\ mascot' = [mascot EXCEPT ![s] = "config"]
    /\ pc' = "copy" /\ scene' = s /\ rest' = rest \ {s}
    /\ UNCHANGED <<marker, area, version, legacy, cfg, kind, todo, mem, faultVars, resetHist>>

\* ... and then the icon, the frames and the particles are copied.
CopyMascot ==
    /\ Goto("copy", "scenes") /\ scene' = NoScene
    /\ mascot' = [mascot EXCEPT ![scene] = "done"]
    /\ UNCHANGED <<marker, area, version, legacy, cfg, kind, todo, rest, mem, faultVars, resetHist>>

\* currentPreset is written to app-config.json, then deleted from the store.
WritePreset ==
    /\ rest = {} /\ Goto("scenes", "preset")
    /\ cfg' = cfg \cup (legacy \cap {"preset"})
    /\ UNCHANGED <<marker, area, version, legacy, mascot, kind, workVars, mem, faultVars, resetHist>>

\* migrateRustOwnedLegacySettings reads app-config.json, deletes each key from
\* the store as it takes it, and writes the file at its end. The keys are in
\* memory only in between.
DeletePreset ==
    /\ Goto("preset", "take")
    /\ legacy' = legacy \ {"preset"} /\ mem' = cfg
    /\ UNCHANGED <<marker, area, version, cfg, mascot, kind, workVars, faultVars, resetHist>>

\* Mutant: the key is deleted and not taken.
TakeKeyLoses(k) ==
    /\ pc = "take" /\ k \in legacy
    /\ legacy' = legacy \ {k}
    /\ UNCHANGED <<marker, area, version, cfg, mascot, pc, kind, workVars, mem, faultVars, resetHist>>

TakeKey(k) ==
    /\ pc = "take" /\ k \in legacy
    /\ legacy' = legacy \ {k} /\ mem' = mem \cup {k}
    /\ UNCHANGED <<marker, area, version, cfg, mascot, pc, kind, workVars, faultVars, resetHist>>

WriteTaken ==
    /\ legacy = {} /\ Goto("take", "record")
    /\ cfg' = mem /\ mem' = {}
    /\ UNCHANGED <<marker, area, version, legacy, mascot, kind, workVars, faultVars, resetHist>>

\* 0.3.1: the old bans are dropped on purpose.
DropBans ==
    /\ Goto("bans", "record")
    /\ cfg' = cfg \ {"banned"} /\ cut' = cut \cup {"banned"}
    /\ UNCHANGED <<marker, area, version, legacy, mascot, kind, workVars, mem, faultVars, asked, torn, begun, stuck, unwritten, copyHist>>

\* 0.5.1: the trigger of one performance is corrected in each scene.
FixTriggers ==
    /\ Goto("triggers", "record")
    /\ UNCHANGED <<diskVars, kind, workVars, mem, faultVars, resetHist>>

\* writeAppConfig is under way: what is not written to its end is unreadable, and
\* reads as empty.
WritesConfig ==
    \/ pc = "scenes" /\ rest = {} /\ "preset" \in legacy \ cfg
    \/ pc = "take" /\ legacy = {} /\ mem # cfg
    \/ pc = "bans"
Left == IF WritesConfig THEN {cfg, {}} ELSE {cfg}

\* What is lost with the memory when that much of app-config.json is kept.
LostBut(kept) == (cfg \cup mem) \ (kept \cup legacy)

\* A step of a migration throws: a file or the store cannot be read, copied or
\* written. The migrations stop here, and the application runs; the next start
\* tries that version again.
MigrationFails ==
    /\ pc \in {"scenes", "copy", "preset", "take", "bans", "triggers", "record"}
    /\ locked < MaxLocked /\ locked' = locked + 1
    /\ pc' = "run"
    /\ cfg' \in Left /\ unwritten' = unwritten \cup LostBut(cfg')
    /\ mem' = {} /\ scene' = NoScene /\ rest' = {}
    /\ UNCHANGED <<marker, area, version, legacy, mascot, kind, todo, resets, crashes,
                   asked, torn, begun, stuck, cut, copyHist>>

-----------------------------------------------------------------------------
(* resetAndRelaunch                                                          *)

AskReset(k) ==
    /\ resets < MaxResets /\ resets' = resets + 1
    /\ Goto("run", "snapshot") /\ kind' = k
    /\ UNCHANGED <<diskVars, workVars, mem, crashes, locked, resetHist>>

\* Mutant: the marker is written first.
SnapshotLater ==
    /\ Goto("snapshot", "mark")
    /\ UNCHANGED <<diskVars, kind, workVars, mem, faultVars, resetHist>>

\* snapshotResetTargets; what cannot be copied is a warning, and the reset goes on.
Snapshot ==
    /\ Goto("snapshot", "mark")
    /\ \E failed \in SUBSET Targets(kind) :
         /\ locked + Cardinality(failed) =< MaxLocked
         /\ locked' = locked + Cardinality(failed)
         /\ warned' = warned \cup failed
         /\ copied' = copied \cup (Targets(kind) \ failed)
    /\ UNCHANGED <<diskVars, kind, workVars, mem, resets, crashes, asked, torn, begun, stuck, lossHist>>

\* writePendingResetMarker
WriteMarker ==
    /\ Goto("mark", "leaving")
    /\ marker' = kind /\ asked' = asked \cup Targets(kind)
    /\ UNCHANGED <<area, version, legacy, cfg, mascot, kind, workVars, mem, faultVars, torn, begun, stuck, lossHist, copyHist>>

\* relaunchSoon, or the user leaves.
Leave ==
    /\ pc \in {"run", "leaving"} /\ pc' = "off"
    /\ UNCHANGED <<diskVars, kind, workVars, mem, faultVars, resetHist>>

\* The process ends in the middle of a step. What it was writing is unreadable:
\* the marker, or app-config.json.
Crash ==
    /\ pc # "off" /\ crashes < MaxCrashes /\ crashes' = crashes + 1
    /\ pc' = "off"
    /\ IF pc = "mark"
       THEN /\ marker' \in {"none", "torn"} /\ torn' = (torn \/ marker' = "torn")
            /\ asked' = asked \cup Targets(kind)
       ELSE UNCHANGED <<marker, torn, asked>>
    /\ cfg' \in Left /\ cut' = cut \cup LostBut(cfg')
    /\ mem' = {} /\ scene' = NoScene /\ rest' = {} /\ todo' = {}
    /\ UNCHANGED <<area, version, legacy, mascot, kind, resets, locked, begun, stuck, unwritten, copyHist>>

-----------------------------------------------------------------------------
Resetting == ClearStore \/ DropMarker \/ \E a \in Areas : RemoveTarget(a)
Migrating ==
    \/ NextMigration \/ CopyMascot \/ WritePreset \/ DeletePreset \/ WriteTaken
    \/ DropBans \/ FixTriggers \/ Record
    \/ \E s \in Scenes : SkipMascot(s) \/ WriteMascotConfig(s)
    \/ \E k \in Keys : TakeKey(k)
Asking == Snapshot \/ WriteMarker \/ \E k \in Kinds : AskReset(k)

Next == Start \/ Resetting \/ Migrating \/ MigrationFails \/ Asking \/ Leave \/ Crash
Spec == Init /\ [][Next]_resetVars

\* The user starts the application again and again, and each life goes on to its end.
FairSpec == Spec /\ WF_resetVars(Start \/ Resetting \/ Migrating \/ Snapshot \/ WriteMarker \/ Leave)

-----------------------------------------------------------------------------
(* Every variable holds a value of its type. *)
ResetTypeOK ==
    /\ marker \in {"none", "torn"} \cup Kinds
    /\ area \in [Areas -> BOOLEAN] /\ version \in 0..Current
    /\ legacy \subseteq Keys /\ cfg \subseteq Keys /\ mem \subseteq Keys
    /\ mascot \in [Scenes -> {"none", "config", "done"}]
    /\ pc \in {"off", "clear", "remove", "migrate", "scenes", "copy", "preset", "take", "bans",
               "triggers", "record", "run", "snapshot", "mark", "leaving"}
    /\ kind \in Kinds /\ todo \subseteq Areas /\ rest \subseteq Scenes /\ scene \in Scenes \cup {NoScene}
    /\ resets \in 0..MaxResets /\ crashes \in 0..MaxCrashes /\ locked \in 0..MaxLocked
    /\ asked \subseteq Areas /\ begun \subseteq Areas /\ stuck \subseteq Areas
    /\ copied \subseteq Areas /\ warned \subseteq Areas
    /\ cut \subseteq Keys /\ unwritten \subseteq Keys /\ torn \in BOOLEAN

(* A reset loses what the user asked to reset and nothing else, and nothing     *)
(* that neither a snapshot holds nor a warning told of, through any number of    *)
(* interrupted starts, unless the very write of its marker was cut.             *)
OnlyAskedIsLost ==
    \A a \in Areas : area[a] \/ (a \in asked /\ a \in copied \cup warned) \/ torn

(* A reset that has begun to remove files is carried through: once its marker  *)
(* is gone, every area it was to remove is gone, but for locked files. A start *)
(* that is interrupted halfway starts over.                                   *)
BegunResetIsFinished ==
    marker = "none" => \A a \in begun : ~area[a] \/ a \in stuck

(* No legacy setting gets lost on its way from the store to app-config.json:   *)
(* it is in one of them, or in the hands of a running migration, unless the    *)
(* process ended within the write that moves it, or a migration threw after it *)
(* had deleted it from the store or halfway through a write of app-config.json. *)
SettingsKept ==
    \A k \in Keys : k \in legacy \cup cfg \cup mem \cup cut \cup unwritten \/ "appConfig" \in asked \/ torn

(* Migrations that throw or are interrupted are tried again: in the end every   *)
(* version has been applied.                                                  *)
MigrationsFinish == []<>(version = Current)

(* A scene that has a mascot/config.json has been migrated, frames included.   *)
MascotMigrated ==
    pc \in {"off", "run"} => \A s \in Scenes : mascot[s] # "config"

(* As SettingsKept, also where a migration throws: what it has not recorded as    *)
(* done is still there for the next start to try again.                       *)
FailureLosesNothing ==
    \A k \in Keys : k \in legacy \cup cfg \cup mem \cup cut \/ "appConfig" \in asked \/ torn

(* A reset keeps what its kind is documented to keep.                          *)
ResetKeepsTheRest == \A a \in Areas : area[a] \/ a \in asked
=============================================================================
