---------------------------- MODULE UpdaterProofs ----------------------------
(***************************************************************************)
(* Wherever the updater fails or dies, the install can be had back; what   *)
(* the player is told of an update is so, and a mixture of two versions is *)
(* told: for every set of files, packages and number of updates.           *)
(***************************************************************************)
EXTENDS Updater, TLAPS

-----------------------------------------------------------------------------
(* The inductive invariant *)

DiskType ==
  [ install : Contents, staging : [version : Versions, files : SUBSET Files],
    backup : TreeType, backupNew : TreeType, pending : BOOLEAN,
    result : {"none", "ok", "failed", "rolledback"} ]

UpdType ==
  [ pc : {"none", "wait", "clear", "backup", "copy", "promote", "undo",
          "discard", "restore", "report", "finish"},
    mode : {"none", "--apply", "--rollback"}, version : Versions,
    todo : SUBSET Files, list : SUBSET Files, existed : SUBSET Files,
    touched : SUBSET Files, ok : BOOLEAN ]

HistoryType ==
  [ whole : SUBSET Contents, before : Contents,
    lost : BOOLEAN, reported : BOOLEAN, fromBackup : BOOLEAN ]

WholeIn(install, whole) == \E w \in whole : SameVersion(install, w)

\* Every file is the one of the package or, beyond it, the one that was there.
Replaced(d, u, h) ==
  /\ d.install = Update(h.before, u.version)
  /\ ~h.lost => WholeIn(d.install, h.whole)

\* Those of some files that were there are copied to update/backup.new.
BackedUp(d, u, h, files) ==
  /\ u.existed = {f \in files : h.before[f] # Absent}
  /\ \A f \in u.existed : d.backupNew.files[f] = h.before[f]

\* A rollback from update/backup.new brings back what was there before.
Saved(d, u, h) ==
  /\ BackedUp(d, u, h, u.list)
  /\ d.backupNew.manifest =
       [f \in Files |-> IF f \notin u.list THEN "none"
                        ELSE IF f \in u.existed THEN "file" ELSE "added"]

\* UpdaterCore_Apply: only the files touched may differ from what was there,
\* and nothing is touched before backup.new is complete.
Applying(d, u, h) ==
  /\ u.pc \in {"clear", "backup", "copy", "promote", "undo", "discard", "report", "finish"}
  /\ u.version \in 1 .. MaxHandOffs /\ u.list = Package[u.version]
  /\ d.staging.version = u.version
  /\ \A f \in Files \ u.touched : d.install[f] = h.before[f]
  /\ ~h.lost => WholeIn(h.before, h.whole)
  /\ u.pc \in {"clear", "backup"} => u.touched = {} /\ u.ok
  /\ u.pc = "clear" => u.existed = {} /\ u.todo = u.list
  /\ u.pc = "backup" => BackedUp(d, u, h, u.list \ u.todo)
  /\ u.pc = "copy" => /\ Saved(d, u, h) /\ u.ok /\ u.touched = u.list \ u.todo
                      /\ \A f \in u.touched : d.install[f] = u.version
  /\ u.pc = "promote" => u.ok
  /\ u.pc = "undo" => ~u.ok /\ u.todo \subseteq u.touched
  /\ u.pc = "discard" => ~u.ok /\ u.touched = {}
  /\ u.pc \in {"promote", "report", "finish"} /\ u.ok => Replaced(d, u, h)
  /\ u.pc \in {"undo", "report", "finish"} /\ ~u.ok => u.touched = {} \/ Saved(d, u, h)

\* UpdaterCore_Rollback: what the rollback will make of the install stays the
\* same until it is made.
RollingBack(d, u, h) ==
  /\ u.pc \in {"restore", "discard", "report", "finish"}
  /\ u.pc = "restore" =>
       /\ ~h.lost => WholeIn(RolledBack(d), h.whole)
       /\ ~h.fromBackup => HasManifest(d.backupNew)
       /\ u.ok => \A f \in Files \ u.todo : d.install[f] = RolledBack(d)[f]
  /\ u.pc = "discard" => u.ok
  /\ u.pc # "restore" /\ u.ok /\ ~h.lost => WholeIn(d.install, h.whole)

\* An updater that runs, or waits for the game to end.
UpdInv(d, u, h) ==
  /\ u.touched \subseteq u.list /\ u.existed \subseteq u.list /\ u.todo \subseteq u.list
  /\ u.pc # "none" => d.pending /\ u.mode # "none"
  /\ u.pc = "wait" /\ u.mode = "--apply" =>
       /\ u.version \in 1 .. MaxHandOffs
       /\ d.staging = [version |-> u.version, files |-> Package[u.version]]
  /\ u.pc = "wait" => u.todo = {} /\ u.existed = {} /\ u.touched = {} /\ u.ok
  /\ u.pc = "finish" /\ ~u.ok => d.result = "failed" \/ h.reported
  /\ u.pc \notin {"none", "wait"} /\ u.mode = "--apply" => Applying(d, u, h)
  /\ u.pc \notin {"none", "wait"} /\ u.mode = "--rollback" => RollingBack(d, u, h)

\* The install is complete, or a rollback makes it so.
Recovers(d, h) ==
  ~h.lost => WholeIn(d.install, h.whole) \/ WholeIn(RolledBack(d), h.whole)

\* A mixture of two versions has left a backup.new and something to tell.
Noticed(d, h) ==
  ~h.lost /\ ~h.fromBackup /\ ~WholeIn(d.install, h.whole) =>
    HasManifest(d.backupNew) /\ (d.pending \/ h.reported \/ d.result = "failed")

IInv ==
  /\ disk \in DiskType /\ upd \in UpdType /\ history \in HistoryType
  /\ game \in {"off", "on", "quitting"} /\ handOffs \in Versions
  /\ UpdInv(disk, upd, history)
  /\ Recovers(disk, history)
  /\ Noticed(disk, history)

-----------------------------------------------------------------------------
(* Installs and trees *)

LEMMA WholeSame ==
  ASSUME NEW i, NEW j, NEW whole, WholeIn(i, whole), SameVersion(j, i)
  PROVE  WholeIn(j, whole)
BY DEF WholeIn, SameVersion

LEMMA RolledBackType ==
  ASSUME NEW d \in DiskType
  PROVE  RolledBack(d) \in Contents
<1>1. d.install \in Contents /\ d.backup \in TreeType /\ d.backupNew \in TreeType
  BY DEF DiskType
<1>2. BackupDirFor(d) \in TreeType
  BY <1>1 DEF BackupDirFor
<1> DEFINE t == BackupDirFor(d)
<1>3. t.files \in Contents
  BY <1>2 DEF TreeType
<1> HIDE DEF t
<1>4. \A f \in Files : Restored(t, f, d.install[f]) \in Versions \cup {Absent}
  BY <1>1, <1>3 DEF Restored, Contents
<1> QED BY <1>4 DEF RolledBack, Contents, t

\* A rollback depends on the install and the two backups only.
LEMMA RolledBackFrame ==
  ASSUME NEW d, NEW e, e.install = d.install, e.backup = d.backup, e.backupNew = d.backupNew
  PROVE  RolledBack(e) = RolledBack(d)
BY DEF RolledBack, BackupDirFor

\* To restore one file changes nothing about what the rollback will make of it.
LEMMA RolledBackRestored ==
  ASSUME NEW d \in DiskType, NEW e \in DiskType, NEW f \in Files,
         e.backup = d.backup, e.backupNew = d.backupNew,
         e.install = [d.install EXCEPT ![f] = Restored(BackupDirFor(d), f, d.install[f])]
  PROVE  RolledBack(e) = RolledBack(d) /\ e.install[f] = RolledBack(d)[f]
<1> DEFINE t == BackupDirFor(d)
<1>1. BackupDirFor(e) = t
  BY DEF BackupDirFor
<1>2. d.install \in [Files -> Versions \cup {Absent}]
  BY DEF DiskType, Contents
<1> HIDE DEF t
<1>3. \A x : Restored(t, f, Restored(t, f, x)) = Restored(t, f, x)
  BY DEF Restored
<1>4. \A g \in Files : e.install[g] = IF g = f THEN Restored(t, f, d.install[f]) ELSE d.install[g]
  BY <1>2 DEF t
<1>5. \A g \in Files : Restored(t, g, e.install[g]) = Restored(t, g, d.install[g])
  BY <1>3, <1>4
<1>6. RolledBack(e) = [g \in Files |-> Restored(t, g, e.install[g])]
  BY <1>1 DEF RolledBack
<1>7. RolledBack(d) = [g \in Files |-> Restored(t, g, d.install[g])]
  BY DEF RolledBack, t
<1> QED BY <1>4, <1>5, <1>6, <1>7

\* Once backup.new is complete a rollback makes the install what it was.
LEMMA SavedRollsBack ==
  ASSUME NEW d \in DiskType, NEW u \in UpdType, NEW h \in HistoryType,
         Saved(d, u, h), Self \in u.list,
         \A f \in Files \ u.list : d.install[f] = h.before[f]
  PROVE  /\ HasManifest(d.backupNew)
         /\ SameVersion(RolledBack(d), h.before)
<1> DEFINE t == d.backupNew
<1>1. \A f \in Files : t.manifest[f] = IF f \notin u.list THEN "none"
                        ELSE IF f \in u.existed THEN "file" ELSE "added"
  BY DEF Saved
<1>2. Self \in Files
  BY UpdaterAssumption
<1>3. HasManifest(t)
  BY <1>1, <1>2 DEF HasManifest, NoManifest
<1>4. BackupDirFor(d) = t
  BY <1>3 DEF BackupDirFor
<1>5. \A f \in Files : RolledBack(d)[f] = Restored(t, f, d.install[f])
  BY <1>4 DEF RolledBack
<1> HIDE DEF t
<1>6. /\ u.existed = {f \in u.list : h.before[f] # Absent}
      /\ \A f \in u.existed : t.files[f] = h.before[f]
  BY DEF Saved, BackedUp, t
<1>7. ASSUME NEW f \in Files \ {Self}
      PROVE  Restored(t, f, d.install[f]) = h.before[f]
  <2>1. CASE f \notin u.list
    BY <1>1, <2>1 DEF Restored
  <2>2. CASE f \in u.existed
    BY <1>1, <1>6, <2>2 DEF Restored
  <2>3. CASE f \in u.list /\ f \notin u.existed
    BY <1>1, <1>6, <2>3 DEF Restored
  <2> QED BY <2>1, <2>2, <2>3
<1> QED BY <1>3, <1>5, <1>7 DEF SameVersion, t

LEMMA NotRunningInv ==
  ASSUME NEW d, NEW h
  PROVE  NotRunning \in UpdType /\ UpdInv(d, NotRunning, h)
BY UpdaterAssumption DEF NotRunning, UpdType, UpdInv, Versions

\* What the game does while an updater runs does not matter to it.
LEMMA UpdInvFrame ==
  ASSUME NEW d, NEW e, NEW u, NEW h, NEW g, UpdInv(d, u, h),
         e.install = d.install, e.backup = d.backup, e.backupNew = d.backupNew,
         e.staging.version = d.staging.version,
         u.pc # "none" => e.pending = d.pending,
         u.pc = "wait" => e.staging = d.staging,
         u.pc = "finish" /\ ~u.ok => e.result = "failed" \/ g.reported,
         g.before = h.before, g.whole = h.whole, g.lost = h.lost, g.fromBackup = h.fromBackup
  PROVE  UpdInv(e, u, g)
<1>1. RolledBack(e) = RolledBack(d)
  BY RolledBackFrame
<1>2. Saved(d, u, h) => Saved(e, u, g)
  BY DEF Saved, BackedUp
<1>3. \A files : BackedUp(d, u, h, files) => BackedUp(e, u, g, files)
  BY DEF BackedUp
<1>4. Replaced(d, u, h) => Replaced(e, u, g)
  BY DEF Replaced
<1>5. Applying(d, u, h) => Applying(e, u, g)
  BY <1>2, <1>3, <1>4 DEF Applying
<1>6. RollingBack(d, u, h) => RollingBack(e, u, g)
  BY <1>1 DEF RollingBack
<1> QED BY <1>5, <1>6 DEF UpdInv

LEMMA RecoversFrame ==
  ASSUME NEW d, NEW e, NEW h, NEW g, Recovers(d, h),
         e.install = d.install, e.backup = d.backup, e.backupNew = d.backupNew,
         g.whole = h.whole, g.lost = h.lost
  PROVE  Recovers(e, g)
BY RolledBackFrame DEF Recovers

-----------------------------------------------------------------------------
(* The game *)

LEMMA InitInv == Init => IInv
<1> SUFFICES ASSUME Init PROVE IInv
  OBVIOUS
<1> DEFINE first == [f \in Files |-> IF f \in Installed THEN 0 ELSE Absent]
<1>1. 0 \in Versions
  BY UpdaterAssumption DEF Versions
<1>2. first \in Contents /\ EmptyTree \in TreeType
  BY <1>1 DEF Contents, EmptyTree, TreeType, Nothing, NoManifest
<1>3. /\ disk = [ install |-> first, staging |-> [version |-> 0, files |-> {}],
                  backup |-> EmptyTree, backupNew |-> EmptyTree,
                  pending |-> FALSE, result |-> "none" ]
      /\ history = [ whole |-> {first}, before |-> first, lost |-> FALSE,
                     reported |-> FALSE, fromBackup |-> FALSE ]
  BY DEF Init
<1>4. upd = NotRunning /\ game = "on" /\ handOffs = 0
  BY DEF Init
<1> HIDE DEF first
<1>5. disk \in DiskType /\ history \in HistoryType
  BY <1>1, <1>2, <1>3 DEF DiskType, HistoryType
<1>6. WholeIn(disk.install, history.whole)
  BY <1>3 DEF WholeIn, SameVersion
<1> QED BY <1>1, <1>4, <1>5, <1>6, NotRunningInv DEF IInv, Recovers, Noticed

\* LaunchUpdater, after the pending file was written.
LEMMA LaunchUpdaterStep ==
  ASSUME IInv, NEW mode \in {"--apply", "--rollback"}, NEW version \in Versions,
         LaunchUpdater(mode, version), ~Running, handOffs' \in Versions,
         disk' \in DiskType, disk'.pending,
         disk'.install = disk.install, disk'.backup = disk.backup,
         disk'.backupNew = disk.backupNew,
         mode = "--apply" =>
           /\ version \in 1 .. MaxHandOffs
           /\ disk'.staging = [version |-> version, files |-> Package[version]]
  PROVE  IInv'
<1>1. /\ upd'.pc = "wait" /\ upd'.mode = mode /\ upd'.version = version
      /\ upd'.todo = {} /\ upd'.list = {} /\ upd'.existed = {} /\ upd'.touched = {} /\ upd'.ok
      /\ upd' \in UpdType /\ game' = "quitting"
  BY DEF LaunchUpdater, NotRunning, UpdType
<1>2. history \in HistoryType
  BY DEF IInv
<1>3. /\ history' \in HistoryType /\ history'.whole = history.whole
      /\ history'.before = history.before /\ history'.lost = history.lost
      /\ history'.fromBackup <=> (history.fromBackup /\ ~WholeIn(disk.install, history.whole))
  BY <1>2 DEF LaunchUpdater, HistoryType, Whole, WholeIn
<1>4. UpdInv(disk', upd', history')
  BY <1>1 DEF UpdInv
<1>5. Recovers(disk', history')
  BY <1>3, RecoversFrame DEF IInv
<1>6. Noticed(disk', history')
  BY <1>3 DEF IInv, Noticed
<1> QED BY <1>1, <1>3, <1>4, <1>5, <1>6 DEF IInv

LEMMA CL_Update_ConfirmStep ==
  ASSUME IInv, CL_Update_Confirm
  PROVE  IInv'
<1>1. disk \in DiskType /\ handOffs \in Versions /\ handOffs' = handOffs + 1
      /\ handOffs < MaxHandOffs
  BY DEF IInv, CL_Update_Confirm
<1>2. handOffs' \in 1 .. MaxHandOffs /\ handOffs' \in Versions
  BY <1>1, UpdaterAssumption DEF Versions
<1>3. CASE Running /\ upd.mode = "--apply"
  <2>1. PICK kept \in SUBSET disk.staging.files :
          /\ disk' = [disk EXCEPT !.staging.files = kept]
          /\ UNCHANGED <<upd, game, history>>
    BY <1>3 DEF CL_Update_Confirm
  <2>2. disk.staging \in [version : Versions, files : SUBSET Files]
    BY <1>1 DEF DiskType
  <2> DEFINE staging == [disk.staging EXCEPT !.files = kept]
  <2>3. staging \in [version : Versions, files : SUBSET Files]
        /\ staging.version = disk.staging.version
    BY <2>2
  <2>4. disk' = [disk EXCEPT !.staging = staging]
    BY <1>1, <2>1 DEF DiskType
  <2> HIDE DEF staging
  <2>5. /\ disk' \in DiskType /\ disk'.install = disk.install /\ disk'.staging = staging
        /\ disk'.backup = disk.backup /\ disk'.backupNew = disk.backupNew
        /\ disk'.pending = disk.pending /\ disk'.result = disk.result
    BY <1>1, <2>3, <2>4 DEF DiskType
  <2>6. upd.pc # "wait" /\ UpdInv(disk, upd, history)
    BY DEF IInv, CL_Update_Confirm
  <2>7. upd.pc = "finish" /\ ~upd.ok => disk'.result = "failed" \/ history.reported
    BY <2>5, <2>6 DEF UpdInv
  <2>8. UpdInv(disk', upd, history)
    BY <2>3, <2>5, <2>6, <2>7, UpdInvFrame
  <2>9. Recovers(disk', history) /\ Noticed(disk', history)
    BY <2>5, RecoversFrame DEF IInv, Noticed
  <2> QED BY <1>2, <2>1, <2>5, <2>8, <2>9 DEF IInv
<1>4. CASE ~(Running /\ upd.mode = "--apply")
  <2> DEFINE staging == [version |-> handOffs', files |-> Package[handOffs']]
  <2>1. /\ ~Running /\ LaunchUpdater("--apply", handOffs')
        /\ disk' = [disk EXCEPT !.pending = TRUE, !.staging = staging]
    BY <1>4 DEF CL_Update_Confirm
  <2>2. staging \in [version : Versions, files : SUBSET Files]
    BY <1>2, UpdaterAssumption
  <2> HIDE DEF staging
  <2>3. /\ disk' \in DiskType /\ disk'.install = disk.install /\ disk'.staging = staging
        /\ disk'.backup = disk.backup /\ disk'.backupNew = disk.backupNew /\ disk'.pending
    BY <1>1, <2>1, <2>2 DEF DiskType
  <2> QED BY <1>2, <2>1, <2>3, LaunchUpdaterStep DEF staging
<1> QED BY <1>3, <1>4

LEMMA CL_Update_RollbackStep ==
  ASSUME IInv, CL_Update_Rollback
  PROVE  IInv'
<1>1. /\ disk \in DiskType /\ ~Running /\ LaunchUpdater("--rollback", 0)
      /\ disk' = [disk EXCEPT !.pending = TRUE]
  BY DEF IInv, CL_Update_Rollback
<1>2. handOffs' \in Versions /\ 0 \in Versions
  BY UpdaterAssumption DEF IInv, CL_Update_Rollback, Versions
<1>3. /\ disk' \in DiskType /\ disk'.install = disk.install
      /\ disk'.backup = disk.backup /\ disk'.backupNew = disk.backupNew /\ disk'.pending
  BY <1>1 DEF DiskType
<1> QED BY <1>1, <1>2, <1>3, LaunchUpdaterStep

\* What a start of the game makes of the files, and what it tells: the pending
\* file stays when it must or when it resists, and only a start that found the
\* updater interrupted deletes it.
StartIs(pending, pidRunning, d, told) ==
  /\ d = Left(disk, pending)
  /\ pending \in BOOLEAN /\ (pending => disk.pending)
  /\ pidRunning \/ Running => pending = disk.pending
  /\ told <=> \/ disk.result = "failed"
              \/ disk.pending /\ ~pidRunning /\ ~Running /\ HasManifest(disk.backupNew)

LEMMA StartMakes ==
  ASSUME disk \in DiskType, GameStarts
  PROVE  \E pending, pidRunning \in BOOLEAN, told \in BOOLEAN :
           /\ StartIs(pending, pidRunning, disk', told)
           /\ history' = [history EXCEPT !.reported = history.reported \/ told]
<1>1. PICK pidRunning \in BOOLEAN : \E started \in CL_Update_Init(disk, pidRunning) :
        /\ disk' = started.disk
        /\ history' = [history EXCEPT !.reported = @ \/ started.told]
  BY DEF GameStarts
<1>2. PICK started \in CL_Update_Init(disk, pidRunning) :
        /\ disk' = started.disk
        /\ history' = [history EXCEPT !.reported = @ \/ started.told]
  BY <1>1
<1> DEFINE interrupted == disk.pending /\ ~pidRunning /\ ~Running
           told == disk.result = "failed" \/ (interrupted /\ HasManifest(disk.backupNew))
<1>3. PICK pending \in IF interrupted THEN BOOLEAN ELSE {disk.pending} :
        started = [disk |-> Left(disk, pending), told |-> told]
  BY <1>2 DEF CL_Update_Init
<1>4. disk.pending \in BOOLEAN
  BY DEF DiskType
<1>5. pending \in BOOLEAN /\ (~interrupted => pending = disk.pending)
  <2>1. CASE interrupted
    BY <2>1
  <2>2. CASE ~interrupted
    BY <1>4, <2>2
  <2> QED BY <2>1, <2>2
<1>6. /\ pending => disk.pending
      /\ pidRunning \/ Running => pending = disk.pending
  BY <1>4, <1>5
<1>7. disk' = Left(disk, pending)
      /\ history' = [history EXCEPT !.reported = history.reported \/ told]
  BY <1>2, <1>3
<1>8. told \in BOOLEAN
  OBVIOUS
<1>9. StartIs(pending, pidRunning, disk', told)
  BY <1>5, <1>6, <1>7 DEF StartIs
<1> HIDE DEF told, interrupted
<1> QED BY <1>5, <1>7, <1>8, <1>9

\* The game notices what an updater left that failed or died, unless it takes
\* another process for the game that launched it; then the next start may.
LEMMA GameStartsStep ==
  ASSUME IInv, GameStarts
  PROVE  IInv'
<1>1. disk \in DiskType /\ history \in HistoryType
  BY DEF IInv
<1>2. disk.staging \in [version : Versions, files : SUBSET Files]
  BY <1>1 DEF DiskType
<1>a. PICK pending, pidRunning \in BOOLEAN, told \in BOOLEAN :
        /\ StartIs(pending, pidRunning, disk', told)
        /\ history' = [history EXCEPT !.reported = history.reported \/ told]
  BY <1>1, StartMakes
<1> DEFINE files == IF pending THEN disk.staging.files ELSE {}
           staging == [disk.staging EXCEPT !.files = files]
<1>3. /\ staging \in [version : Versions, files : SUBSET Files]
      /\ staging.version = disk.staging.version
      /\ pending => staging = disk.staging
  BY <1>2
<1>4. /\ disk' = [disk EXCEPT !.result = "none", !.pending = pending, !.staging = staging]
      /\ UNCHANGED <<upd, handOffs>> /\ game' = "on"
  BY <1>1, <1>a DEF GameStarts, StartIs, Left, DiskType
<1>5. pending \in BOOLEAN /\ (history.reported \/ told) \in BOOLEAN
  BY <1>a DEF StartIs
<1>6. /\ pending => disk.pending
      /\ pidRunning \/ Running => pending = disk.pending
      /\ told <=> \/ disk.result = "failed"
                  \/ disk.pending /\ ~pidRunning /\ ~Running /\ HasManifest(disk.backupNew)
  BY <1>a DEF StartIs
<1> HIDE DEF staging
<1>7. /\ disk' \in DiskType /\ disk'.install = disk.install /\ disk'.staging = staging
      /\ disk'.backup = disk.backup /\ disk'.backupNew = disk.backupNew
      /\ disk'.pending = pending
  BY <1>1, <1>3, <1>4, <1>5 DEF DiskType
<1>8. /\ history' \in HistoryType /\ history'.whole = history.whole
      /\ history'.before = history.before /\ history'.lost = history.lost
      /\ history'.fromBackup = history.fromBackup
      /\ history'.reported <=> (history.reported \/ told)
  BY <1>1, <1>a, <1>5 DEF HistoryType
<1>9. UpdInv(disk, upd, history) /\ (Running <=> upd.pc # "none")
      /\ (upd.pc # "none" => disk.pending /\ disk.pending = TRUE)
  BY <1>1 DEF IInv, Running, UpdInv, DiskType
<1>10. /\ upd.pc # "none" => pending = disk.pending /\ staging = disk.staging
       /\ upd.pc = "finish" /\ ~upd.ok => history'.reported
  <2>1. upd.pc # "none" => pending = TRUE
    BY <1>5, <1>6, <1>9
  <2>2. upd.pc = "finish" /\ ~upd.ok => disk.result = "failed" \/ history.reported
    BY <1>9 DEF UpdInv
  <2> QED BY <1>3, <1>6, <1>8, <1>9, <2>1, <2>2
<1>11. UpdInv(disk', upd, history')
  BY <1>3, <1>7, <1>8, <1>9, <1>10, UpdInvFrame
<1>12. Recovers(disk', history')
  BY <1>7, <1>8, RecoversFrame DEF IInv
<1>13. Noticed(disk', history')
  <2>1. Noticed(disk, history)
    BY DEF IInv
  <2>2. /\ disk'.pending <=> pending
        /\ disk.pending /\ (pidRunning \/ Running) => pending
    BY <1>6, <1>7
  <2>3. \/ disk.pending => pending
        \/ HasManifest(disk.backupNew) /\ disk.pending => told
    BY <1>6, <2>2
  <2> QED BY <1>6, <1>7, <1>8, <2>1, <2>2, <2>3 DEF Noticed
<1> QED BY <1>4, <1>7, <1>8, <1>11, <1>12, <1>13 DEF IInv

LEMMA GameExitsStep ==
  ASSUME IInv, GameExits
  PROVE  IInv'
BY DEF IInv, GameExits

LEMMA CrashStep ==
  ASSUME IInv, Crash
  PROVE  IInv'
BY NotRunningInv DEF IInv, Crash

-----------------------------------------------------------------------------
(* The updater installs an update *)

\* Where the updater is tells what it does.
LEMMA ModeOf ==
  ASSUME IInv
  PROVE  /\ upd.pc \in {"clear", "backup", "copy", "promote", "undo"} =>
              upd.mode = "--apply" /\ Applying(disk, upd, history)
         /\ upd.pc = "restore" => upd.mode = "--rollback" /\ RollingBack(disk, upd, history)
         /\ upd.pc \in {"discard", "report", "finish"} =>
              \/ upd.mode = "--apply" /\ Applying(disk, upd, history)
              \/ upd.mode = "--rollback" /\ RollingBack(disk, upd, history)
         /\ upd.pc # "none" => disk.pending
         /\ upd.touched \subseteq upd.list /\ upd.existed \subseteq upd.list
         /\ upd.todo \subseteq upd.list
BY DEF IInv, UpdInv, UpdType, Applying, RollingBack

\* An install that is complete, or was not touched.
LEMMA WholeIsSafe ==
  ASSUME NEW d, NEW h, ~h.lost => WholeIn(d.install, h.whole)
  PROVE  Recovers(d, h) /\ Noticed(d, h)
BY DEF Recovers, Noticed

LEMMA UntouchedIsWhole ==
  ASSUME NEW d, NEW u, NEW h, Applying(d, u, h), u.touched = {}
  PROVE  ~h.lost => WholeIn(d.install, h.whole)
BY WholeSame DEF Applying, SameVersion

LEMMA SavedIsSafe ==
  ASSUME NEW d \in DiskType, NEW u \in UpdType, NEW h \in HistoryType,
         Applying(d, u, h), Saved(d, u, h), u.touched \subseteq u.list, d.pending
  PROVE  Recovers(d, h) /\ Noticed(d, h)
<1>1. Self \in u.list /\ \A f \in Files \ u.list : d.install[f] = h.before[f]
  BY UpdaterAssumption DEF Applying
<1>2. HasManifest(d.backupNew) /\ SameVersion(RolledBack(d), h.before)
  BY <1>1, SavedRollsBack
<1>3. ~h.lost => WholeIn(RolledBack(d), h.whole)
  BY <1>2, WholeSame DEF Applying
<1> QED BY <1>2, <1>3 DEF Recovers, Noticed

\* At every point of UpdaterCore_Apply a crash can be recovered from.
LEMMA ApplyingIsSafe ==
  ASSUME NEW d \in DiskType, NEW u \in UpdType, NEW h \in HistoryType,
         Applying(d, u, h), u.touched \subseteq u.list, d.pending
  PROVE  Recovers(d, h) /\ Noticed(d, h)
<1>1. CASE u.touched = {}
  BY <1>1, UntouchedIsWhole, WholeIsSafe
<1>2. CASE Saved(d, u, h)
  BY <1>2, SavedIsSafe
<1>3. CASE Replaced(d, u, h)
  BY <1>3, WholeIsSafe DEF Replaced
<1> QED BY <1>1, <1>2, <1>3 DEF Applying

\* A step of UpdaterCore_Apply.
LEMMA ApplyStep ==
  ASSUME IInv, disk' \in DiskType, upd' \in UpdType, history' \in HistoryType,
         UNCHANGED <<game, handOffs>>, disk'.pending,
         upd'.mode = "--apply", upd'.pc \notin {"none", "wait"},
         upd'.touched \subseteq upd'.list, upd'.existed \subseteq upd'.list,
         upd'.todo \subseteq upd'.list,
         upd'.pc = "finish" /\ ~upd'.ok => disk'.result = "failed" \/ history'.reported,
         Applying(disk', upd', history')
  PROVE  IInv'
<1>1. UpdInv(disk', upd', history')
  BY DEF UpdInv
<1>2. Recovers(disk', history') /\ Noticed(disk', history')
  BY ApplyingIsSafe
<1> QED BY <1>1, <1>2 DEF IInv

LEMMA WaitForGameTimesOutStep ==
  ASSUME IInv, WaitForGameTimesOut
  PROVE  IInv'
<1>1. /\ disk' \in DiskType /\ disk'.install = disk.install /\ disk'.result = "failed"
      /\ disk'.backup = disk.backup /\ disk'.backupNew = disk.backupNew
      /\ upd' = NotRunning /\ UNCHANGED <<game, handOffs, history>>
  BY DEF IInv, WaitForGameTimesOut, DiskType
<1>2. Recovers(disk', history')
  BY <1>1, RecoversFrame DEF IInv
<1> QED BY <1>1, <1>2, NotRunningInv DEF IInv, Noticed

LEMMA ListStagingStep ==
  ASSUME IInv, ListStaging
  PROVE  IInv'
<1> DEFINE v == upd.version
           list == disk.staging.files
           lost == history.lost \/ ~Whole(disk.install)
<1>1. /\ disk \in DiskType /\ upd \in UpdType /\ history \in HistoryType
      /\ UpdInv(disk, upd, history) /\ upd.pc = "wait" /\ upd.mode = "--apply"
  BY DEF IInv, ListStaging
<1>2. /\ v \in 1 .. MaxHandOffs /\ disk.staging = [version |-> v, files |-> Package[v]]
      /\ upd.existed = {} /\ upd.touched = {} /\ disk.pending
  BY <1>1 DEF UpdInv
<1>3. list = Package[v] /\ disk.staging.version = v /\ list # {} /\ list \in SUBSET Files
  BY <1>2, UpdaterAssumption
<1> HIDE DEF list, lost
<1>4. /\ upd' = [upd EXCEPT !.pc = "clear", !.list = list, !.todo = list, !.ok = TRUE]
      /\ history' = [history EXCEPT !.before = disk.install, !.lost = lost]
      /\ UNCHANGED <<disk, game, handOffs>>
  <2>1. (list # {}) = TRUE
    BY <1>3
  <2>2. upd' = [upd EXCEPT !.pc = IF list = {} THEN "undo" ELSE "clear",
                           !.list = list, !.todo = list, !.ok = list # {}]
    BY DEF ListStaging, list
  <2> QED BY <1>1, <1>3, <2>1, <2>2 DEF ListStaging, lost, HistoryType, UpdType
<1>5. /\ upd' \in UpdType /\ upd'.pc = "clear" /\ upd'.mode = "--apply" /\ upd'.version = v
      /\ upd'.list = list /\ upd'.todo = list /\ upd'.existed = {} /\ upd'.touched = {} /\ upd'.ok
  BY <1>1, <1>2, <1>3, <1>4 DEF UpdType
<1>6. lost \in BOOLEAN /\ (lost <=> (history.lost \/ ~WholeIn(disk.install, history.whole)))
  BY DEF lost, Whole, WholeIn
<1>7. disk.install \in Contents
  BY <1>1 DEF DiskType
<1>8. /\ history' \in HistoryType /\ history'.before = disk.install
      /\ history'.whole = history.whole
      /\ history'.lost <=> (history.lost \/ ~WholeIn(disk.install, history.whole))
  BY <1>1, <1>4, <1>6, <1>7 DEF HistoryType
<1>9. Applying(disk', upd', history')
  BY <1>2, <1>3, <1>4, <1>5, <1>8 DEF Applying
<1> QED BY <1>1, <1>2, <1>4, <1>5, <1>8, <1>9, ApplyStep

\* The trees that DeleteTreeW leaves.
LEMMA OneLessType ==
  ASSUME NEW t \in TreeType, NEW s \in OneLess(t)
  PROVE  s \in TreeType
<1>1. t.files \in Contents /\ NoManifest \in [Files -> {"none", "file", "added"}]
  BY DEF TreeType, NoManifest
<1>2. CASE s = [t EXCEPT !.manifest = NoManifest]
  BY <1>1, <1>2 DEF TreeType
<1>3. CASE \E f \in Files : s = [t EXCEPT !.files[f] = Absent]
  <2>1. PICK f \in Files : s = [t EXCEPT !.files[f] = Absent]
    BY <1>3
  <2>2. [t.files EXCEPT ![f] = Absent] \in Contents
    BY <1>1 DEF Contents
  <2>3. s = [t EXCEPT !.files = [t.files EXCEPT ![f] = Absent]]
    BY <2>1 DEF TreeType
  <2> QED BY <2>2, <2>3 DEF TreeType
<1> QED BY <1>2, <1>3 DEF OneLess

\* While backup.new is deleted nothing depends on it.
LEMMA DeleteBackupNewStep ==
  ASSUME IInv, DeleteBackupNew
  PROVE  IInv'
<1>1. /\ disk \in DiskType /\ upd \in UpdType /\ history \in HistoryType
      /\ upd.pc \in {"clear", "discard"} /\ UNCHANGED <<game, handOffs, history>>
  BY DEF IInv, DeleteBackupNew
<1>2. disk.backupNew \in TreeType
  BY <1>1 DEF DiskType
<1>3. ~history.lost => WholeIn(disk.install, history.whole)
  <2>1. CASE upd.mode = "--apply" /\ Applying(disk, upd, history)
    <3>1. upd.touched = {}
      BY <1>1, <2>1 DEF Applying
    <3> QED BY <2>1, <3>1, UntouchedIsWhole
  <2>2. CASE upd.mode = "--rollback" /\ RollingBack(disk, upd, history)
    BY <1>1, <2>2 DEF RollingBack
  <2> QED BY <1>1, <2>1, <2>2, ModeOf
<1>4. CASE UNCHANGED upd /\ \E t \in OneLess(disk.backupNew) : disk' = [disk EXCEPT !.backupNew = t]
  <2>1. PICK t \in OneLess(disk.backupNew) : disk' = [disk EXCEPT !.backupNew = t]
    BY <1>4
  <2>2. t \in TreeType
    BY <1>2, OneLessType
  <2>3. /\ disk' \in DiskType /\ disk'.install = disk.install /\ disk'.staging = disk.staging
        /\ disk'.backup = disk.backup /\ disk'.pending = disk.pending
    BY <1>1, <2>1, <2>2 DEF DiskType
  <2>4. Recovers(disk', history') /\ Noticed(disk', history')
    BY <1>1, <1>3, <2>3, WholeIsSafe
  <2>5. Applying(disk, upd, history) => Applying(disk', upd', history')
    BY <1>1, <1>4, <2>3 DEF Applying
  <2>6. RollingBack(disk, upd, history) => RollingBack(disk', upd', history')
    BY <1>1, <1>4, <2>3 DEF RollingBack
  <2>7. UpdInv(disk', upd', history')
    BY <1>1, <1>4, <2>3, <2>5, <2>6 DEF IInv, UpdInv
  <2> QED BY <1>1, <1>4, <2>3, <2>4, <2>7 DEF IInv
<1>5. CASE UNCHANGED disk /\ upd' = [upd EXCEPT !.pc = IF @ = "clear" THEN "backup" ELSE "report"]
  <2>1. /\ upd' \in UpdType
        /\ upd'.pc = IF upd.pc = "clear" THEN "backup" ELSE "report"
        /\ upd'.mode = upd.mode /\ upd'.version = upd.version /\ upd'.todo = upd.todo
        /\ upd'.list = upd.list /\ upd'.existed = upd.existed /\ upd'.touched = upd.touched
        /\ upd'.ok = upd.ok
    BY <1>1, <1>5 DEF UpdType
  <2>2. CASE upd.mode = "--apply" /\ Applying(disk, upd, history)
    <3>1. upd.pc = "clear" => BackedUp(disk, upd', history, upd'.list \ upd'.todo)
      BY <2>1, <2>2 DEF Applying, BackedUp
    <3>2. Applying(disk', upd', history')
      BY <1>1, <1>5, <2>1, <2>2, <3>1 DEF Applying
    <3> QED BY <1>1, <1>5, <2>1, <2>2, <3>2, ModeOf, ApplyStep
  <2>3. CASE upd.mode = "--rollback" /\ RollingBack(disk, upd, history)
    <3>1. upd'.pc = "report" /\ upd'.ok
      BY <1>1, <2>1, <2>3 DEF RollingBack
    <3>2. RollingBack(disk', upd', history')
      BY <1>1, <1>3, <1>5, <3>1 DEF RollingBack
    <3>3. UpdInv(disk', upd', history')
      BY <1>1, <1>5, <2>1, <2>3, <3>1, <3>2, ModeOf DEF UpdInv
    <3> QED BY <1>1, <1>5, <2>1, <3>3 DEF IInv
  <2> QED BY <1>1, <2>2, <2>3, ModeOf
<1> QED BY <1>4, <1>5 DEF DeleteBackupNew

LEMMA BackUpStep ==
  ASSUME IInv, NEW f \in Files, BackUp(f)
  PROVE  IInv'
<1>1. /\ disk \in DiskType /\ upd \in UpdType /\ history \in HistoryType
      /\ upd.pc = "backup" /\ f \in upd.todo /\ UNCHANGED <<game, handOffs, history>>
  BY DEF IInv, BackUp
<1>2. /\ upd.mode = "--apply" /\ Applying(disk, upd, history) /\ disk.pending
      /\ upd.todo \subseteq upd.list /\ upd.existed \subseteq upd.list
  BY <1>1, ModeOf
<1>3. /\ upd.touched = {} /\ upd.ok /\ upd.list \in SUBSET Files
      /\ disk.install[f] = history.before[f]
      /\ BackedUp(disk, upd, history, upd.list \ upd.todo)
  BY <1>1, <1>2 DEF Applying, UpdType
<1> DEFINE more == upd.existed \cup {f}
           left == upd.todo \ {f}
<1>4. left \in SUBSET Files /\ left \subseteq upd.list /\ more \in SUBSET Files /\ more \subseteq upd.list
  BY <1>1, <1>2 DEF UpdType
<1>5. upd.list \ left = (upd.list \ upd.todo) \cup {f}
  BY <1>1, <1>2
<1>6. CASE /\ disk.install[f] # Absent
           /\ disk' = [disk EXCEPT !.backupNew.files[f] = disk.install[f]]
           /\ upd' = [upd EXCEPT !.todo = left, !.existed = more]
  <2> DEFINE files == [disk.backupNew.files EXCEPT ![f] = disk.install[f]]
             tree == [disk.backupNew EXCEPT !.files = files]
  <2>1. disk.backupNew \in TreeType /\ disk.backupNew.files \in Contents /\ disk.install \in Contents
    BY <1>1 DEF DiskType, TreeType
  <2>2. files \in Contents /\ \A g \in Files : files[g] = IF g = f THEN history.before[f]
                                                          ELSE disk.backupNew.files[g]
    BY <1>3, <2>1 DEF Contents
  <2>3. disk' = [disk EXCEPT !.backupNew = [disk.backupNew EXCEPT !.files = files]]
    BY <1>1, <1>6, <2>1 DEF DiskType, TreeType
  <2> HIDE DEF files
  <2>4. tree \in TreeType /\ tree.files = files
    BY <2>1, <2>2 DEF TreeType
  <2> HIDE DEF tree
  <2>5. /\ disk' \in DiskType /\ disk'.install = disk.install /\ disk'.staging = disk.staging
        /\ disk'.backupNew = tree /\ disk'.pending = disk.pending
    BY <1>1, <2>3, <2>4 DEF DiskType, tree
  <2> HIDE DEF left, more
  <2>6. /\ upd' \in UpdType /\ upd'.pc = "backup" /\ upd'.mode = "--apply"
        /\ upd'.version = upd.version /\ upd'.todo = left /\ upd'.list = upd.list
        /\ upd'.existed = more /\ upd'.touched = upd.touched /\ upd'.ok = upd.ok
    BY <1>1, <1>2, <1>4, <1>6 DEF UpdType
  <2>7. BackedUp(disk', upd', history', upd'.list \ upd'.todo)
    <3>1. upd.existed = {g \in upd.list \ upd.todo : history.before[g] # Absent}
          /\ \A g \in upd.existed : disk.backupNew.files[g] = history.before[g]
      BY <1>3 DEF BackedUp
    <3>2. more = {g \in upd.list \ left : history.before[g] # Absent}
      BY <1>3, <1>5, <1>6, <3>1 DEF more
    <3>3. \A g \in more : tree.files[g] = history.before[g]
      BY <1>4, <2>2, <2>4, <3>1 DEF more
    <3> QED BY <1>1, <2>5, <2>6, <3>2, <3>3 DEF BackedUp
  <2>8. Applying(disk', upd', history')
    BY <1>1, <1>2, <1>3, <2>5, <2>6, <2>7 DEF Applying
  <2> QED BY <1>1, <1>2, <1>3, <1>4, <2>5, <2>6, <2>8, ApplyStep
<1>7. CASE disk.install[f] = Absent /\ upd' = [upd EXCEPT !.todo = left] /\ UNCHANGED disk
  <2> HIDE DEF left
  <2>1. /\ upd' \in UpdType /\ upd'.pc = "backup" /\ upd'.mode = "--apply"
        /\ upd'.version = upd.version /\ upd'.todo = left /\ upd'.list = upd.list
        /\ upd'.existed = upd.existed /\ upd'.touched = upd.touched /\ upd'.ok = upd.ok
    BY <1>1, <1>2, <1>4, <1>7 DEF UpdType
  <2>2. BackedUp(disk', upd', history', upd'.list \ upd'.todo)
    <3>1. upd.existed = {g \in upd.list \ left : history.before[g] # Absent}
      BY <1>3, <1>5, <1>7 DEF BackedUp
    <3> QED BY <1>1, <1>3, <1>7, <2>1, <3>1 DEF BackedUp
  <2>3. Applying(disk', upd', history')
    BY <1>1, <1>2, <1>3, <1>7, <2>1, <2>2 DEF Applying
  <2> QED BY <1>1, <1>2, <1>3, <1>4, <1>7, <2>1, <2>3, ApplyStep
<1>8. CASE upd' = [upd EXCEPT !.pc = "undo", !.ok = FALSE, !.todo = {}] /\ UNCHANGED disk
  <2>1. /\ upd' \in UpdType /\ upd'.pc = "undo" /\ upd'.mode = "--apply"
        /\ upd'.version = upd.version /\ upd'.todo = {} /\ upd'.list = upd.list
        /\ upd'.existed = upd.existed /\ upd'.touched = upd.touched /\ ~upd'.ok
    BY <1>1, <1>2, <1>8 DEF UpdType
  <2>2. Applying(disk', upd', history')
    BY <1>1, <1>2, <1>3, <1>8, <2>1 DEF Applying
  <2> QED BY <1>1, <1>2, <1>3, <1>8, <2>1, <2>2, ApplyStep
<1> QED BY <1>6, <1>7, <1>8 DEF BackUp

LEMMA WriteManifestStep ==
  ASSUME IInv, WriteManifest
  PROVE  IInv'
<1>1. /\ disk \in DiskType /\ upd \in UpdType /\ history \in HistoryType
      /\ upd.pc = "backup" /\ upd.todo = {} /\ UNCHANGED <<game, handOffs, history>>
  BY DEF IInv, WriteManifest
<1>2. /\ upd.mode = "--apply" /\ Applying(disk, upd, history) /\ disk.pending
      /\ upd.existed \subseteq upd.list
  BY <1>1, ModeOf
<1>3. /\ upd.touched = {} /\ upd.ok /\ BackedUp(disk, upd, history, upd.list)
  <2>1. upd.list \ upd.todo = upd.list
    BY <1>1
  <2> QED BY <1>1, <1>2, <2>1 DEF Applying
<1> DEFINE manifest == [f \in Files |-> IF f \notin upd.list THEN "none"
                                        ELSE IF f \in upd.existed THEN "file" ELSE "added"]
<1>4. CASE /\ disk' = [disk EXCEPT !.backupNew.manifest = manifest]
           /\ upd' = [upd EXCEPT !.pc = "copy", !.todo = upd.list]
  <2> DEFINE tree == [disk.backupNew EXCEPT !.manifest = manifest]
  <2>1. disk.backupNew \in TreeType /\ manifest \in [Files -> {"none", "file", "added"}]
    BY <1>1 DEF DiskType
  <2> HIDE DEF manifest
  <2>2. tree \in TreeType /\ tree.files = disk.backupNew.files /\ tree.manifest = manifest
    BY <2>1 DEF TreeType
  <2>3. disk' = [disk EXCEPT !.backupNew = tree]
    BY <1>1, <1>4, <2>1 DEF DiskType, TreeType
  <2> HIDE DEF tree
  <2>4. /\ disk' \in DiskType /\ disk'.install = disk.install /\ disk'.staging = disk.staging
        /\ disk'.backupNew = tree /\ disk'.pending = disk.pending
    BY <1>1, <2>2, <2>3 DEF DiskType
  <2>5. /\ upd' \in UpdType /\ upd'.pc = "copy" /\ upd'.mode = "--apply"
        /\ upd'.version = upd.version /\ upd'.todo = upd.list /\ upd'.list = upd.list
        /\ upd'.existed = upd.existed /\ upd'.touched = upd.touched /\ upd'.ok = upd.ok
    BY <1>1, <1>2, <1>4 DEF UpdType
  <2>6. Saved(disk', upd', history')
    BY <1>1, <1>3, <2>2, <2>4, <2>5 DEF Saved, BackedUp, manifest
  <2>7. Applying(disk', upd', history')
    BY <1>1, <1>2, <1>3, <2>4, <2>5, <2>6 DEF Applying
  <2> QED BY <1>1, <1>2, <1>3, <2>4, <2>5, <2>7, ApplyStep
<1>5. CASE upd' = [upd EXCEPT !.pc = "undo", !.ok = FALSE] /\ UNCHANGED disk
  <2>1. /\ upd' \in UpdType /\ upd'.pc = "undo" /\ upd'.mode = "--apply"
        /\ upd'.version = upd.version /\ upd'.todo = {} /\ upd'.list = upd.list
        /\ upd'.existed = upd.existed /\ upd'.touched = upd.touched /\ ~upd'.ok
    BY <1>1, <1>2, <1>5 DEF UpdType
  <2>2. Applying(disk', upd', history')
    BY <1>1, <1>2, <1>3, <1>5, <2>1 DEF Applying
  <2> QED BY <1>1, <1>2, <1>3, <1>5, <2>1, <2>2, ApplyStep
<1> QED BY <1>4, <1>5 DEF WriteManifest

\* The copies of what was there stay as they are while files are replaced and
\* put back.
LEMMA SavedFrame ==
  ASSUME NEW d, NEW u, NEW h, NEW e, NEW v, Saved(d, u, h), e.backupNew = d.backupNew,
         v.list = u.list, v.existed = u.existed
  PROVE  Saved(e, v, h)
BY DEF Saved, BackedUp

LEMMA ReplaceStep ==
  ASSUME IInv, NEW f \in Files, Replace(f)
  PROVE  IInv'
<1>1. /\ disk \in DiskType /\ upd \in UpdType /\ history \in HistoryType
      /\ upd.pc = "copy" /\ f \in upd.todo /\ UNCHANGED <<game, handOffs, history>>
  BY DEF IInv, Replace
<1>2. /\ upd.mode = "--apply" /\ Applying(disk, upd, history) /\ disk.pending
      /\ upd.todo \subseteq upd.list /\ upd.existed \subseteq upd.list
  BY <1>1, ModeOf
<1>3. /\ upd.ok /\ Saved(disk, upd, history) /\ upd.touched = upd.list \ upd.todo
      /\ \A g \in upd.touched : disk.install[g] = upd.version
      /\ disk.staging.version = upd.version
  BY <1>1, <1>2 DEF Applying
<1> DEFINE left == upd.todo \ {f}
           touched == upd.touched \cup {f}
<1>4. /\ left \in SUBSET Files /\ left \subseteq upd.list
      /\ touched \in SUBSET Files /\ touched \subseteq upd.list
      /\ touched = upd.list \ left
  BY <1>1, <1>2, <1>3 DEF UpdType
<1>5. CASE /\ disk' = [disk EXCEPT !.install[f] = disk.staging.version]
           /\ upd' = [upd EXCEPT !.todo = left, !.touched = touched]
  <2> DEFINE install == [disk.install EXCEPT ![f] = upd.version]
  <2>1. disk.install \in Contents /\ upd.version \in Versions
    BY <1>1 DEF DiskType, UpdType
  <2>2. install \in Contents /\ \A g \in Files : install[g] = IF g = f THEN upd.version ELSE disk.install[g]
    BY <2>1 DEF Contents
  <2>3. disk' = [disk EXCEPT !.install = install]
    BY <1>1, <1>3, <1>5 DEF DiskType
  <2> HIDE DEF install, left, touched
  <2>4. /\ disk' \in DiskType /\ disk'.install = install /\ disk'.staging = disk.staging
        /\ disk'.backupNew = disk.backupNew /\ disk'.pending = disk.pending
    BY <1>1, <2>2, <2>3 DEF DiskType
  <2>5. /\ upd' \in UpdType /\ upd'.pc = "copy" /\ upd'.mode = "--apply"
        /\ upd'.version = upd.version /\ upd'.todo = left /\ upd'.list = upd.list
        /\ upd'.existed = upd.existed /\ upd'.touched = touched /\ upd'.ok = upd.ok
    BY <1>1, <1>2, <1>4, <1>5 DEF UpdType
  <2>6. Saved(disk', upd', history')
    BY <1>1, <1>3, <2>4, <2>5, SavedFrame
  <2>7. \A g \in touched : install[g] = upd.version
    BY <1>3, <1>4, <2>2 DEF touched
  <2>8. \A g \in Files \ touched : install[g] = history.before[g]
    BY <1>2, <2>2 DEF Applying, touched
  <2>9. Applying(disk', upd', history')
    BY <1>1, <1>2, <1>3, <1>4, <2>4, <2>5, <2>6, <2>7, <2>8 DEF Applying
  <2> QED BY <1>1, <1>2, <1>3, <1>4, <2>4, <2>5, <2>9, ApplyStep
<1>6. CASE upd' = [upd EXCEPT !.pc = "undo", !.ok = FALSE, !.todo = upd.touched] /\ UNCHANGED disk
  <2>1. /\ upd' \in UpdType /\ upd'.pc = "undo" /\ upd'.mode = "--apply"
        /\ upd'.version = upd.version /\ upd'.todo = upd.touched /\ upd'.list = upd.list
        /\ upd'.existed = upd.existed /\ upd'.touched = upd.touched /\ ~upd'.ok
    BY <1>1, <1>2, <1>6 DEF UpdType
  <2>2. Saved(disk', upd', history')
    BY <1>1, <1>3, <1>6, <2>1, SavedFrame
  <2>3. Applying(disk', upd', history')
    BY <1>1, <1>2, <1>6, <2>1, <2>2 DEF Applying
  <2> QED BY <1>1, <1>2, <1>3, <1>6, <2>1, <2>3, ApplyStep
<1> QED BY <1>5, <1>6 DEF Replace

LEMMA SucceedStep ==
  ASSUME IInv, Succeed
  PROVE  IInv'
<1> DEFINE updates == {Update(w, upd.version) : w \in
                         {x \in history.whole : SameVersion(x, history.before)}}
           whole == history.whole \cup updates
<1>1. /\ disk \in DiskType /\ upd \in UpdType /\ history \in HistoryType
      /\ upd.pc = "copy" /\ upd.todo = {} /\ UNCHANGED <<disk, game, handOffs>>
      /\ upd' = [upd EXCEPT !.pc = "promote"] /\ history' = [history EXCEPT !.whole = whole]
  BY DEF IInv, Succeed
<1>2. /\ upd.mode = "--apply" /\ Applying(disk, upd, history) /\ disk.pending
      /\ upd.existed \subseteq upd.list /\ upd.touched \subseteq upd.list
  BY <1>1, ModeOf
<1>3. /\ upd.ok /\ upd.touched = upd.list /\ upd.list = Package[upd.version]
      /\ \A g \in upd.touched : disk.install[g] = upd.version
      /\ \A g \in Files \ upd.touched : disk.install[g] = history.before[g]
  <2>1. upd.list \ upd.todo = upd.list
    BY <1>1
  <2> QED BY <1>1, <1>2, <2>1 DEF Applying
<1>4. history.whole \in SUBSET Contents /\ upd.version \in Versions /\ disk.install \in Contents
  BY <1>1 DEF HistoryType, UpdType, DiskType
<1>5. whole \in SUBSET Contents /\ history.whole \subseteq whole
  BY <1>4 DEF Update, Contents
<1>6. disk.install = Update(history.before, upd.version)
  BY <1>3, <1>4 DEF Update, Contents
<1>7. ~history.lost => WholeIn(history.before, whole) /\ WholeIn(disk.install, whole)
  <2>1. SUFFICES ASSUME ~history.lost
                 PROVE  WholeIn(history.before, whole) /\ WholeIn(disk.install, whole)
    OBVIOUS
  <2>2. PICK w \in history.whole : SameVersion(history.before, w)
    BY <1>2, <2>1 DEF Applying, WholeIn
  <2>3. SameVersion(w, history.before)
    BY <2>2 DEF SameVersion
  <2>4. Update(w, upd.version) \in whole
    BY <2>3
  <2>5. SameVersion(disk.install, Update(w, upd.version))
    BY <1>6, <2>2 DEF SameVersion, Update
  <2> HIDE DEF whole
  <2> QED BY <1>5, <2>2, <2>4, <2>5 DEF WholeIn
<1> HIDE DEF whole
<1>8. /\ history' \in HistoryType /\ history'.before = history.before
      /\ history'.lost = history.lost /\ history'.whole = whole
  BY <1>1, <1>5 DEF HistoryType
<1>9. /\ upd' \in UpdType /\ upd'.pc = "promote" /\ upd'.mode = "--apply"
      /\ upd'.version = upd.version /\ upd'.todo = upd.todo /\ upd'.list = upd.list
      /\ upd'.existed = upd.existed /\ upd'.touched = upd.touched /\ upd'.ok = upd.ok
  BY <1>1, <1>2 DEF UpdType
<1>10. Replaced(disk', upd', history')
  BY <1>1, <1>6, <1>7, <1>8, <1>9 DEF Replaced
<1>11. Applying(disk', upd', history')
  BY <1>1, <1>2, <1>3, <1>7, <1>8, <1>9, <1>10 DEF Applying
<1> QED BY <1>1, <1>2, <1>8, <1>9, <1>11, ApplyStep

LEMMA PromoteBackupStep ==
  ASSUME IInv, PromoteBackup
  PROVE  IInv'
<1>1. /\ disk \in DiskType /\ upd \in UpdType /\ history \in HistoryType
      /\ upd.pc = "promote" /\ UNCHANGED <<game, handOffs, history>>
  BY DEF IInv, PromoteBackup
<1>2. /\ upd.mode = "--apply" /\ Applying(disk, upd, history) /\ disk.pending
      /\ upd.todo \subseteq upd.list /\ upd.existed \subseteq upd.list
      /\ upd.touched \subseteq upd.list
  BY <1>1, ModeOf
<1>3. upd.ok /\ Replaced(disk, upd, history)
  BY <1>1, <1>2 DEF Applying
<1>4. disk.backup \in TreeType /\ disk.backupNew \in TreeType /\ EmptyTree \in TreeType
  BY <1>1 DEF DiskType, EmptyTree, TreeType, Nothing, NoManifest, Contents
\* Nothing depends on the backups any more.
<1>5. ASSUME disk' \in DiskType, disk'.install = disk.install, disk'.staging = disk.staging,
             disk'.pending = disk.pending,
             upd' \in UpdType, upd'.pc \in {"promote", "report"}, upd'.mode = upd.mode,
             upd'.version = upd.version, upd'.todo = upd.todo, upd'.list = upd.list,
             upd'.existed = upd.existed, upd'.touched = upd.touched, upd'.ok = upd.ok
      PROVE  IInv'
  <2>1. Replaced(disk', upd', history')
    BY <1>1, <1>3, <1>5 DEF Replaced
  <2>2. Applying(disk', upd', history')
    BY <1>1, <1>2, <1>3, <1>5, <2>1 DEF Applying
  <2> QED BY <1>1, <1>2, <1>3, <1>5, <2>2, ApplyStep
<1>6. CASE UNCHANGED upd /\ \E t \in OneLess(disk.backup) : disk' = [disk EXCEPT !.backup = t]
  <2>1. PICK t \in OneLess(disk.backup) : disk' = [disk EXCEPT !.backup = t]
    BY <1>6
  <2>2. t \in TreeType
    BY <1>4, OneLessType
  <2>3. /\ disk' \in DiskType /\ disk'.install = disk.install /\ disk'.staging = disk.staging
        /\ disk'.pending = disk.pending
    BY <1>1, <2>1, <2>2 DEF DiskType
  <2> QED BY <1>1, <1>5, <1>6, <2>3
<1>7. CASE /\ upd' = [upd EXCEPT !.pc = "report"]
           /\ \/ disk' = [disk EXCEPT !.backup = disk.backupNew, !.backupNew = EmptyTree]
              \/ UNCHANGED disk
  <2>1. /\ disk' \in DiskType /\ disk'.install = disk.install /\ disk'.staging = disk.staging
        /\ disk'.pending = disk.pending
    BY <1>1, <1>4, <1>7 DEF DiskType
  <2>2. /\ upd' \in UpdType /\ upd'.pc = "report" /\ upd'.mode = upd.mode
        /\ upd'.version = upd.version /\ upd'.todo = upd.todo /\ upd'.list = upd.list
        /\ upd'.existed = upd.existed /\ upd'.touched = upd.touched /\ upd'.ok = upd.ok
    BY <1>1, <1>7 DEF UpdType
  <2> QED BY <1>5, <2>1, <2>2
<1> QED BY <1>6, <1>7 DEF PromoteBackup

\* What is put back is what was there: a copy of it, or nothing.
LEMMA UndoStep ==
  ASSUME IInv, NEW f \in Files, Undo(f)
  PROVE  IInv'
<1>1. /\ disk \in DiskType /\ upd \in UpdType /\ history \in HistoryType
      /\ upd.pc = "undo" /\ f \in upd.todo /\ UNCHANGED <<game, handOffs, history>>
  BY DEF IInv, Undo
<1>2. /\ upd.mode = "--apply" /\ Applying(disk, upd, history) /\ disk.pending
      /\ upd.todo \subseteq upd.list /\ upd.existed \subseteq upd.list
      /\ upd.touched \subseteq upd.list
  BY <1>1, ModeOf
<1>3. ~upd.ok /\ upd.todo \subseteq upd.touched /\ Saved(disk, upd, history)
  BY <1>1, <1>2 DEF Applying
<1> DEFINE left == upd.todo \ {f}
           touched == upd.touched \ {f}
<1>4. /\ left \in SUBSET Files /\ left \subseteq upd.list
      /\ touched \in SUBSET Files /\ touched \subseteq upd.list /\ left \subseteq touched
  BY <1>1, <1>2, <1>3 DEF UpdType
<1>5. CASE /\ disk' = [disk EXCEPT !.install[f] =
                IF f \in upd.existed THEN disk.backupNew.files[f] ELSE Absent]
           /\ upd' = [upd EXCEPT !.todo = left, !.touched = touched]
  <2> DEFINE old == IF f \in upd.existed THEN disk.backupNew.files[f] ELSE Absent
             install == [disk.install EXCEPT ![f] = old]
  <2>1. disk.install \in Contents /\ disk.backupNew.files \in Contents
    BY <1>1 DEF DiskType, TreeType
  <2>2. install \in Contents /\ \A g \in Files : install[g] = IF g = f THEN old ELSE disk.install[g]
    BY <2>1 DEF Contents
  <2>3. old = history.before[f]
    BY <1>1, <1>2, <1>3 DEF Saved, BackedUp
  <2>4. disk' = [disk EXCEPT !.install = install]
    BY <1>1, <1>5 DEF DiskType
  <2> HIDE DEF install, old, left, touched
  <2>5. /\ disk' \in DiskType /\ disk'.install = install /\ disk'.staging = disk.staging
        /\ disk'.backupNew = disk.backupNew /\ disk'.pending = disk.pending
    BY <1>1, <2>2, <2>4 DEF DiskType
  <2>6. /\ upd' \in UpdType /\ upd'.pc = "undo" /\ upd'.mode = "--apply"
        /\ upd'.version = upd.version /\ upd'.todo = left /\ upd'.list = upd.list
        /\ upd'.existed = upd.existed /\ upd'.touched = touched /\ upd'.ok = upd.ok
    BY <1>1, <1>2, <1>4, <1>5 DEF UpdType
  <2>7. Saved(disk', upd', history')
    BY <1>1, <1>3, <2>5, <2>6, SavedFrame
  <2>8. \A g \in Files \ touched : install[g] = history.before[g]
    BY <1>2, <2>2, <2>3 DEF Applying, touched
  <2>9. Applying(disk', upd', history')
    BY <1>1, <1>2, <1>3, <1>4, <2>5, <2>6, <2>7, <2>8 DEF Applying
  <2> QED BY <1>1, <1>2, <1>3, <1>4, <2>5, <2>6, <2>9, ApplyStep
<1>6. CASE upd' = [upd EXCEPT !.todo = left] /\ UNCHANGED disk
  <2>1. left \subseteq upd.touched
    BY <1>3
  <2> HIDE DEF left
  <2>2. /\ upd' \in UpdType /\ upd'.pc = "undo" /\ upd'.mode = "--apply"
        /\ upd'.version = upd.version /\ upd'.todo = left /\ upd'.list = upd.list
        /\ upd'.existed = upd.existed /\ upd'.touched = upd.touched /\ ~upd'.ok
    BY <1>1, <1>2, <1>3, <1>4, <1>6 DEF UpdType
  <2>3. Saved(disk', upd', history')
    BY <1>1, <1>3, <1>6, <2>2, SavedFrame
  <2>4. Applying(disk', upd', history')
    BY <1>1, <1>2, <1>6, <2>1, <2>2, <2>3 DEF Applying
  <2> QED BY <1>1, <1>2, <1>4, <1>6, <2>2, <2>4, ApplyStep
<1> QED BY <1>5, <1>6 DEF Undo

LEMMA UndoneStep ==
  ASSUME IInv, Undone
  PROVE  IInv'
<1> DEFINE next == IF upd.touched = {} THEN "discard" ELSE "report"
<1>1. /\ disk \in DiskType /\ upd \in UpdType /\ history \in HistoryType
      /\ upd.pc = "undo" /\ upd' = [upd EXCEPT !.pc = next]
      /\ UNCHANGED <<disk, game, handOffs, history>>
  BY DEF IInv, Undone
<1>2. /\ upd.mode = "--apply" /\ Applying(disk, upd, history) /\ disk.pending
      /\ upd.todo \subseteq upd.list /\ upd.existed \subseteq upd.list
      /\ upd.touched \subseteq upd.list
  BY <1>1, ModeOf
<1>3. ~upd.ok /\ (upd.touched = {} \/ Saved(disk, upd, history))
  BY <1>1, <1>2 DEF Applying
<1>4. next \in {"discard", "report"} /\ (next = "discard" => upd.touched = {})
  OBVIOUS
<1> HIDE DEF next
<1>5. /\ upd' \in UpdType /\ upd'.pc = next /\ upd'.mode = "--apply"
      /\ upd'.version = upd.version /\ upd'.todo = upd.todo /\ upd'.list = upd.list
      /\ upd'.existed = upd.existed /\ upd'.touched = upd.touched /\ ~upd'.ok
  BY <1>1, <1>2, <1>3, <1>4 DEF UpdType
<1>6. upd'.touched = {} \/ Saved(disk', upd', history')
  BY <1>1, <1>3, <1>5, SavedFrame
<1>7. Applying(disk', upd', history')
  BY <1>1, <1>2, <1>4, <1>5, <1>6 DEF Applying
<1> QED BY <1>1, <1>2, <1>4, <1>5, <1>7, ApplyStep

-----------------------------------------------------------------------------
(* The updater rolls back, and ends *)

\* A step of UpdaterCore_Rollback.
LEMMA RollBackStep ==
  ASSUME IInv, disk' \in DiskType, upd' \in UpdType, history' \in HistoryType,
         UNCHANGED <<game, handOffs>>, disk'.pending,
         upd'.mode = "--rollback", upd'.pc \notin {"none", "wait"},
         upd'.touched \subseteq upd'.list, upd'.existed \subseteq upd'.list,
         upd'.todo \subseteq upd'.list,
         upd'.pc = "finish" /\ ~upd'.ok => disk'.result = "failed" \/ history'.reported,
         RollingBack(disk', upd', history'),
         Recovers(disk', history'), Noticed(disk', history')
  PROVE  IInv'
BY DEF IInv, UpdInv

LEMMA ReadManifestStep ==
  ASSUME IInv, ReadManifest
  PROVE  IInv'
<1> DEFINE list == {f \in Files : BackupDirFor(disk).manifest[f] # "none"}
           lost == history.lost \/ ~Whole(RolledBack(disk))
           fromBackup == history.fromBackup \/ ~HasManifest(disk.backupNew)
<1>1. /\ disk \in DiskType /\ upd \in UpdType /\ history \in HistoryType
      /\ UpdInv(disk, upd, history) /\ upd.pc = "wait" /\ upd.mode = "--rollback"
      /\ UNCHANGED <<disk, game, handOffs>>
      /\ upd' = [upd EXCEPT !.pc = "restore", !.list = list, !.todo = list]
      /\ history' = [history EXCEPT !.before = disk.install, !.lost = lost,
                                    !.fromBackup = fromBackup]
  BY DEF IInv, ReadManifest, HistoryType
<1>2. disk.pending /\ upd.existed = {} /\ upd.touched = {}
  BY <1>1 DEF UpdInv
<1>3. /\ list \in SUBSET Files
      /\ \A f \in Files \ list : BackupDirFor(disk).manifest[f] = "none"
  OBVIOUS
<1>4. /\ lost \in BOOLEAN /\ fromBackup \in BOOLEAN
      /\ lost <=> (history.lost \/ ~WholeIn(RolledBack(disk), history.whole))
      /\ fromBackup <=> (history.fromBackup \/ ~HasManifest(disk.backupNew))
  BY DEF Whole, WholeIn
<1> HIDE DEF list, lost, fromBackup
<1>5. /\ upd' \in UpdType /\ upd'.pc = "restore" /\ upd'.mode = "--rollback"
      /\ upd'.todo = list /\ upd'.list = list /\ upd'.existed = {} /\ upd'.touched = {}
  BY <1>1, <1>2, <1>3 DEF UpdType
<1>6. disk.install \in Contents
  BY <1>1 DEF DiskType
<1>7. /\ history' \in HistoryType /\ history'.whole = history.whole
      /\ history'.lost <=> (history.lost \/ ~WholeIn(RolledBack(disk), history.whole))
      /\ history'.fromBackup <=> (history.fromBackup \/ ~HasManifest(disk.backupNew))
      /\ history'.reported = history.reported
  BY <1>1, <1>4, <1>6 DEF HistoryType
<1>8. \A f \in Files \ list : disk.install[f] = RolledBack(disk)[f]
  BY <1>3 DEF RolledBack, Restored
<1>9. RollingBack(disk', upd', history')
  BY <1>1, <1>5, <1>7, <1>8 DEF RollingBack
<1>10. Recovers(disk', history') /\ Noticed(disk', history')
  BY <1>1, <1>2, <1>7 DEF Recovers, Noticed
<1> QED BY <1>1, <1>2, <1>5, <1>7, <1>9, <1>10, RollBackStep

\* Whatever of the rollback is done, the rest of it leads to the same install.
LEMMA RestoreOneStep ==
  ASSUME IInv, NEW f \in Files, RestoreOne(f)
  PROVE  IInv'
<1> DEFINE t == BackupDirFor(disk)
           left == upd.todo \ {f}
           install == [disk.install EXCEPT ![f] = Restored(t, f, disk.install[f])]
<1>1. /\ disk \in DiskType /\ upd \in UpdType /\ history \in HistoryType
      /\ upd.pc = "restore" /\ f \in upd.todo /\ UNCHANGED <<game, handOffs, history>>
  BY DEF IInv, RestoreOne
<1>2. /\ upd.mode = "--rollback" /\ RollingBack(disk, upd, history) /\ disk.pending
      /\ upd.todo \subseteq upd.list /\ upd.existed \subseteq upd.list
      /\ upd.touched \subseteq upd.list
  BY <1>1, ModeOf
<1>3. /\ ~history.lost => WholeIn(RolledBack(disk), history.whole)
      /\ ~history.fromBackup => HasManifest(disk.backupNew)
      /\ upd.ok => \A g \in Files \ upd.todo : disk.install[g] = RolledBack(disk)[g]
  BY <1>1, <1>2 DEF RollingBack
<1>4. left \in SUBSET Files /\ left \subseteq upd.list
  BY <1>1, <1>2 DEF UpdType
<1>5. CASE disk' = [disk EXCEPT !.install = install] /\ upd' = [upd EXCEPT !.todo = left]
  <2>1. disk.install \in Contents /\ RolledBack(disk) \in Contents
    BY <1>1, RolledBackType DEF DiskType
  <2>2. Restored(t, f, disk.install[f]) \in Versions \cup {Absent}
    BY <2>1 DEF RolledBack, Contents
  <2>3. install \in Contents /\ \A g \in Files \ {f} : install[g] = disk.install[g]
    BY <2>1, <2>2 DEF Contents
  <2>4. install = [disk.install EXCEPT ![f] = Restored(BackupDirFor(disk), f, disk.install[f])]
    OBVIOUS
  <2> HIDE DEF install, left
  <2>5. /\ disk' \in DiskType /\ disk'.install = install
        /\ disk'.backup = disk.backup /\ disk'.backupNew = disk.backupNew
        /\ disk'.pending = disk.pending
    BY <1>1, <1>5, <2>3 DEF DiskType
  <2>6. RolledBack(disk') = RolledBack(disk) /\ install[f] = RolledBack(disk)[f]
    <3>1. disk'.install = [disk.install EXCEPT ![f] = Restored(BackupDirFor(disk), f, disk.install[f])]
      BY <2>4, <2>5
    <3>2. RolledBack(disk') = RolledBack(disk) /\ disk'.install[f] = RolledBack(disk)[f]
      BY <1>1, <2>5, <3>1, RolledBackRestored
    <3> QED BY <2>5, <3>2
  <2>7. /\ upd' \in UpdType /\ upd'.pc = "restore" /\ upd'.mode = "--rollback"
        /\ upd'.todo = left /\ upd'.list = upd.list
        /\ upd'.existed = upd.existed /\ upd'.touched = upd.touched /\ upd'.ok = upd.ok
    BY <1>1, <1>2, <1>4, <1>5 DEF UpdType
  <2>8. upd.ok => \A g \in Files \ left : install[g] = RolledBack(disk)[g]
    BY <1>3, <2>3, <2>6 DEF left
  <2>9. RollingBack(disk', upd', history')
    BY <1>1, <1>3, <2>5, <2>6, <2>7, <2>8 DEF RollingBack
  <2>10. Recovers(disk', history') /\ Noticed(disk', history')
    BY <1>1, <1>2, <1>3, <2>5, <2>6 DEF Recovers, Noticed
  <2> QED BY <1>1, <1>2, <1>4, <2>5, <2>7, <2>9, <2>10, RollBackStep
<1>6. CASE upd' = [upd EXCEPT !.todo = left, !.ok = FALSE] /\ UNCHANGED disk
  <2> HIDE DEF left
  <2>1. /\ upd' \in UpdType /\ upd'.pc = "restore" /\ upd'.mode = "--rollback"
        /\ upd'.todo = left /\ upd'.list = upd.list
        /\ upd'.existed = upd.existed /\ upd'.touched = upd.touched /\ ~upd'.ok
    BY <1>1, <1>2, <1>4, <1>6 DEF UpdType
  <2>2. RollingBack(disk', upd', history')
    BY <1>1, <1>3, <1>6, <2>1 DEF RollingBack
  <2>3. Recovers(disk', history') /\ Noticed(disk', history')
    BY <1>1, <1>6 DEF IInv
  <2> QED BY <1>1, <1>2, <1>4, <1>6, <2>1, <2>2, <2>3, RollBackStep
<1>7. [disk EXCEPT !.install[f] = Restored(t, f, @)] = [disk EXCEPT !.install = install]
  BY <1>1 DEF DiskType
<1> QED BY <1>5, <1>6, <1>7 DEF RestoreOne

LEMMA RestoredAllStep ==
  ASSUME IInv, RestoredAll
  PROVE  IInv'
<1> DEFINE next == IF upd.ok /\ HasManifest(disk.backupNew) THEN "discard" ELSE "report"
<1>1. /\ disk \in DiskType /\ upd \in UpdType /\ history \in HistoryType
      /\ upd.pc = "restore" /\ upd.todo = {} /\ upd' = [upd EXCEPT !.pc = next]
      /\ UNCHANGED <<disk, game, handOffs, history>>
  BY DEF IInv, RestoredAll
<1>2. /\ upd.mode = "--rollback" /\ RollingBack(disk, upd, history) /\ disk.pending
      /\ upd.existed \subseteq upd.list /\ upd.touched \subseteq upd.list
  BY <1>1, ModeOf
<1>3. upd.ok /\ ~history.lost => WholeIn(disk.install, history.whole)
  <2>1. upd.ok => \A g \in Files : disk.install[g] = RolledBack(disk)[g]
    BY <1>1, <1>2 DEF RollingBack
  <2>2. ~history.lost => WholeIn(RolledBack(disk), history.whole)
    BY <1>1, <1>2 DEF RollingBack
  <2>3. upd.ok => SameVersion(disk.install, RolledBack(disk))
    BY <2>1 DEF SameVersion
  <2> QED BY <2>2, <2>3, WholeSame
<1>4. next \in {"discard", "report"} /\ (next = "discard" => upd.ok)
  OBVIOUS
<1> HIDE DEF next
<1>5. /\ upd' \in UpdType /\ upd'.pc = next /\ upd'.mode = "--rollback"
      /\ upd'.todo = upd.todo /\ upd'.list = upd.list
      /\ upd'.existed = upd.existed /\ upd'.touched = upd.touched /\ upd'.ok = upd.ok
  BY <1>1, <1>2, <1>4 DEF UpdType
<1>6. RollingBack(disk', upd', history')
  BY <1>1, <1>3, <1>4, <1>5 DEF RollingBack
<1>7. Recovers(disk', history') /\ Noticed(disk', history')
  BY <1>1 DEF IInv
<1> QED BY <1>1, <1>2, <1>4, <1>5, <1>6, <1>7, RollBackStep

LEMMA WriteResultStep ==
  ASSUME IInv, WriteResult
  PROVE  IInv'
<1>1. /\ disk \in DiskType /\ upd \in UpdType /\ history \in HistoryType
      /\ upd.pc = "report" /\ upd' = [upd EXCEPT !.pc = "finish"]
      /\ disk' = [disk EXCEPT !.result = Status]
      /\ UNCHANGED <<game, handOffs, history>>
  BY DEF IInv, WriteResult
<1>2. Status \in {"ok", "failed", "rolledback"} /\ (~upd.ok => Status = "failed")
  BY DEF Status
<1>3. /\ disk' \in DiskType /\ disk'.install = disk.install /\ disk'.staging = disk.staging
      /\ disk'.backup = disk.backup /\ disk'.backupNew = disk.backupNew
      /\ disk'.pending = disk.pending /\ (~upd.ok => disk'.result = "failed")
  BY <1>1, <1>2 DEF DiskType
<1>4. /\ upd' \in UpdType /\ upd'.pc = "finish" /\ upd'.mode = upd.mode
      /\ upd'.version = upd.version /\ upd'.todo = upd.todo /\ upd'.list = upd.list
      /\ upd'.existed = upd.existed /\ upd'.touched = upd.touched /\ upd'.ok = upd.ok
  BY <1>1 DEF UpdType
<1>5. CASE upd.mode = "--apply" /\ Applying(disk, upd, history)
  <2>1. Saved(disk, upd, history) => Saved(disk', upd', history')
    BY <1>1, <1>3, <1>4, SavedFrame
  <2>2. Replaced(disk, upd, history) => Replaced(disk', upd', history')
    BY <1>1, <1>3, <1>4 DEF Replaced
  <2>3. Applying(disk', upd', history')
    BY <1>1, <1>3, <1>4, <1>5, <2>1, <2>2 DEF Applying
  <2> QED BY <1>1, <1>3, <1>4, <1>5, <2>3, ModeOf, ApplyStep
<1>6. CASE upd.mode = "--rollback" /\ RollingBack(disk, upd, history)
  <2>1. RollingBack(disk', upd', history')
    BY <1>1, <1>3, <1>4, <1>6 DEF RollingBack
  <2>2. Recovers(disk', history')
    BY <1>1, <1>3, RecoversFrame DEF IInv
  <2>3. Noticed(disk', history')
    BY <1>1, <1>3, <1>6, ModeOf DEF IInv, Noticed
  <2> QED BY <1>1, <1>3, <1>4, <1>6, <2>1, <2>2, <2>3, ModeOf, RollBackStep
<1> QED BY <1>1, <1>5, <1>6, ModeOf

\* The pending file goes last: by then the install is complete, or the result
\* says that it is not.
LEMMA FinishStep ==
  ASSUME IInv, Finish
  PROVE  IInv'
<1>1. /\ disk \in DiskType /\ upd \in UpdType /\ history \in HistoryType
      /\ upd.pc = "finish" /\ upd' = NotRunning /\ disk' = [disk EXCEPT !.pending = FALSE]
      /\ UNCHANGED <<game, handOffs, history>>
  BY DEF IInv, Finish
<1>2. /\ disk' \in DiskType /\ disk'.install = disk.install
      /\ disk'.backup = disk.backup /\ disk'.backupNew = disk.backupNew
      /\ disk'.result = disk.result
  BY <1>1 DEF DiskType
<1>3. Recovers(disk', history')
  BY <1>1, <1>2, RecoversFrame DEF IInv
<1>4. ~upd.ok => disk.result = "failed" \/ history.reported
  BY <1>1 DEF IInv, UpdInv
<1>5. upd.ok => (~history.lost => WholeIn(disk.install, history.whole))
  BY <1>1, ModeOf DEF Applying, Replaced, RollingBack
<1>6. Noticed(disk', history')
  BY <1>1, <1>2, <1>4, <1>5 DEF IInv, Noticed
<1> QED BY <1>1, <1>2, <1>3, <1>6, NotRunningInv DEF IInv

LEMMA NextStep ==
  ASSUME IInv, [Next]_vars
  PROVE  IInv'
<1>1. CASE UNCHANGED vars
  BY <1>1 DEF vars, IInv
<1>2. CASE UpdaterStep
  BY <1>2, WaitForGameTimesOutStep, ListStagingStep, DeleteBackupNewStep, BackUpStep,
     ReplaceStep, UndoStep, RestoreOneStep, WriteManifestStep, SucceedStep,
     PromoteBackupStep, UndoneStep, ReadManifestStep, RestoredAllStep, WriteResultStep,
     FinishStep DEF UpdaterStep
<1> QED BY <1>1, <1>2, CL_Update_ConfirmStep, CL_Update_RollbackStep, GameExitsStep,
           GameStartsStep, CrashStep DEF Next

-----------------------------------------------------------------------------
(* Theorems *)

\* What is true of the disk, the updater and the game in every state, also when
\* the updater has died: the reason why the theorems below hold.
THEOREM UpdaterInvariant == Spec => []IInv
<1>1. IInv /\ [Next]_vars => IInv'
  BY NextStep
<1> QED BY <1>1, InitInv, PTL DEF Spec

\* Wherever the updater fails or dies, the install is complete or the rollback
\* the game offers makes it so (UpdaterCore_Apply, UpdaterCore_Rollback).
THEOREM InstallRecoverable == Spec => []DiskInv
<1>1. IInv => TypeOK
  <2>1. IInv => disk \in DiskType /\ upd \in UpdType /\ history \in HistoryType
    BY DEF IInv
  <2> QED BY <2>1 DEF IInv, UpdInv, TypeOK, DiskType, UpdType, HistoryType
<1>2. IInv => Recoverable
  BY DEF IInv, Recovers, Recoverable, Whole, WholeIn
<1> QED BY <1>1, <1>2, UpdaterInvariant, PTL DEF DiskInv

\* What result.txt says is so.
THEOREM ResultSaysWhatHappened == Spec => ResultIsTrue
<1> DEFINE True ==
      WriteResult =>
        /\ disk'.result = "ok" => disk.install = Update(history.before, upd.version)
        /\ disk'.result = "failed" /\ upd.mode = "--apply"
             /\ ~HasManifest(disk.backupNew) => disk.install = history.before
        /\ disk'.result = "rolledback" /\ ~history.lost => Whole(disk.install)
<1>1. ASSUME IInv, WriteResult
      PROVE  True
  <2>1. /\ disk \in DiskType /\ upd \in UpdType /\ history \in HistoryType
        /\ upd.pc = "report" /\ disk'.result = Status
    BY <1>1 DEF IInv, WriteResult, DiskType
  <2>2. CASE upd.mode = "--apply" /\ Applying(disk, upd, history)
    <3>1. CASE upd.ok
      BY <2>1, <2>2, <3>1 DEF Applying, Replaced, Status
    <3>2. CASE ~upd.ok /\ upd.touched = {}
      <4>1. disk.install \in Contents /\ history.before \in Contents
            /\ \A f \in Files : disk.install[f] = history.before[f]
        BY <2>1, <2>2, <3>2 DEF DiskType, HistoryType, Applying
      <4>2. disk.install = history.before
        BY <4>1 DEF Contents
      <4> QED BY <2>1, <3>2, <4>2 DEF Status
    <3>3. CASE ~upd.ok /\ Saved(disk, upd, history)
      <4>1. Self \in upd.list /\ \A f \in Files \ upd.list : disk.install[f] = history.before[f]
        BY <2>1, <2>2, ModeOf, <1>1, UpdaterAssumption DEF Applying
      <4>2. HasManifest(disk.backupNew)
        BY <2>1, <3>3, <4>1, SavedRollsBack
      <4> QED BY <2>1, <3>3, <4>2 DEF Status
    <3> QED BY <2>1, <2>2, <3>1, <3>2, <3>3 DEF Applying
  <2>3. CASE upd.mode = "--rollback" /\ RollingBack(disk, upd, history)
    BY <2>1, <2>3 DEF RollingBack, Status, Whole, WholeIn
  <2> QED BY <1>1, <2>1, <2>2, <2>3, ModeOf
<1>2. IInv /\ [Next]_vars => [True]_vars
  BY <1>1
<1> QED BY <1>2, UpdaterInvariant, PTL DEF Spec, ResultIsTrue

\* A game that starts on a mixture of two versions tells so, has told so, or
\* keeps the pending file and the backup.new by which a later start tells
\* (CL_Update_Init), but after a rollback from update/backup.
THEOREM MixtureReported == Spec => MixtureIsReported
<1> DEFINE Tells ==
      GameStarts /\ ~Running /\ ~history.lost /\ ~history.fromBackup
        /\ ~Whole(disk.install)
        => history'.reported \/ (disk'.pending /\ HasManifest(disk'.backupNew))
<1>1. ASSUME IInv, GameStarts, ~Running, ~history.lost, ~history.fromBackup,
             ~Whole(disk.install)
      PROVE  history'.reported \/ (disk'.pending /\ HasManifest(disk'.backupNew))
  <2>1. IInv'
    BY <1>1, GameStartsStep
  <2>2. /\ disk'.install = disk.install /\ disk'.result = "none"
        /\ history'.whole = history.whole /\ history'.lost = history.lost
        /\ history'.fromBackup = history.fromBackup
    BY <1>1, StartMakes DEF IInv, StartIs, Left, DiskType, HistoryType
  <2>3. ~WholeIn(disk'.install, history'.whole)
    BY <1>1, <2>2 DEF Whole, WholeIn
  <2> QED BY <1>1, <2>1, <2>2, <2>3 DEF IInv, Noticed
<1>2. IInv /\ [Next]_vars => [Tells]_vars
  BY <1>1
<1> QED BY <1>2, UpdaterInvariant, PTL DEF Spec, MixtureIsReported
=============================================================================
