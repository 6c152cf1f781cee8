------------------------------- MODULE Updater -------------------------------
(***************************************************************************)
(* Installing and rolling back a client update: the updater process        *)
(* (updater/updater_main.c, updater/updater_core.c), the files it works    *)
(* on, and what the game does with them when it starts and when it hands   *)
(* over (client/cl_update.c).                                              *)
(*                                                                         *)
(* The content of a file is the version it came with.  Every operation on  *)
(* a file is a step, may fail where the code looks at its result, and the  *)
(* updater may die between any two of them.  One game and one updater run  *)
(* at a time; they may run side by side.  That result.txt cannot be        *)
(* written or deleted, and that the updater cannot be launched, is left    *)
(* out.                                                                    *)
(***************************************************************************)
EXTENDS Integers

CONSTANTS
  Files,        \* the files of the install directory
  Self,         \* wolfpro_updater.exe
  Installed,    \* the files of the first version
  Package,      \* Package[v]: the files of version v, v > 0
  Absent,
  MaxHandOffs   \* bound: updates and rollbacks the player asks for

ASSUME UpdaterAssumption ==
  /\ Self \in Installed /\ Installed \subseteq Files
  /\ MaxHandOffs \in Nat
  /\ \A v \in 1 .. MaxHandOffs : Self \in Package[v] /\ Package[v] \subseteq Files

VARIABLES
  disk,     \* what survives every process
  upd,      \* the updater process
  game,     \* the game: "off", "on" or "quitting"
  handOffs, \* how often the player asked for an update or a rollback
  history

vars == <<disk, upd, game, handOffs, history>>

Versions == 0 .. MaxHandOffs
Nothing == [f \in Files |-> Absent]

\* The directories update/backup and update/backup.new: copies of files, and
\* what the manifest says of each.
NoManifest == [f \in Files |-> "none"]
EmptyTree == [files |-> Nothing, manifest |-> NoManifest]
HasManifest(t) == t.manifest # NoManifest

\* What is left of a tree after one more of its files was deleted.
OneLess(t) ==
  ({[t EXCEPT !.files[f] = Absent] : f \in Files} \cup {[t EXCEPT !.manifest = NoManifest]}) \ {t}

Update(install, v) == [f \in Files |-> IF f \in Package[v] THEN v ELSE install[f]]

\* The updater cannot replace itself in a rollback: it does not count.
SameVersion(i, j) == \A f \in Files \ {Self} : i[f] = j[f]
Whole(install) == \E w \in history.whole : SameVersion(install, w)

NotRunning == [pc |-> "none", mode |-> "none", version |-> 0, todo |-> {},
               list |-> {}, existed |-> {}, touched |-> {}, ok |-> TRUE]
Running == upd.pc # "none"

Init ==
  LET first == [f \in Files |-> IF f \in Installed THEN 0 ELSE Absent]
  IN  /\ disk = [ install   |-> first,
                  staging   |-> [version |-> 0, files |-> {}],
                  backup    |-> EmptyTree,
                  backupNew |-> EmptyTree,
                  pending   |-> FALSE,
                  result    |-> "none" ]
      /\ upd = NotRunning
      /\ game = "on"
      /\ handOffs = 0
      /\ history = [ whole      |-> {first},  \* installs that were complete
                     before     |-> first,    \* the install as the updater found it
                     lost       |-> FALSE,    \* see Recoverable
                     reported   |-> FALSE,    \* the player was told of a failure
                     fromBackup |-> FALSE ]   \* a rollback from update/backup
                                              \* was cut short

-----------------------------------------------------------------------------
(* The game *)

\* CL_Update_LaunchUpdater: the pending file, the updater, then quit.
LaunchUpdater(mode, version) ==
  /\ upd' = [NotRunning EXCEPT !.pc = "wait", !.mode = mode, !.version = version]
  /\ game' = "quitting"
  /\ history' = [history EXCEPT !.reported = FALSE,
                                !.fromBackup = @ /\ ~Whole(disk.install)]

\* CL_Update_Confirm, the download and CL_Update_HandOff.  The directory of an
\* updater that runs from it cannot be deleted, only some of its files.  The
\* updater has listed them long before a game started meanwhile gets here.
CL_Update_Confirm ==
  /\ game = "on" /\ upd.pc # "wait" /\ handOffs < MaxHandOffs
  /\ handOffs' = handOffs + 1
  /\ IF Running /\ upd.mode = "--apply"
     THEN \E kept \in SUBSET disk.staging.files :
            /\ disk' = [disk EXCEPT !.staging.files = kept]
            /\ UNCHANGED <<upd, game, history>>
     ELSE /\ ~Running
          /\ disk' = [disk EXCEPT !.pending = TRUE,
               !.staging = [version |-> handOffs', files |-> Package[handOffs']]]
          /\ LaunchUpdater("--apply", handOffs')

CL_Update_Rollback ==
  /\ game = "on" /\ ~Running /\ handOffs < MaxHandOffs
  /\ HasManifest(disk.backup) \/ HasManifest(disk.backupNew)
  /\ handOffs' = handOffs + 1
  /\ disk' = [disk EXCEPT !.pending = TRUE]
  /\ LaunchUpdater("--rollback", 0)

GameExits ==
  /\ game \in {"on", "quitting"}
  /\ game' = "off"
  /\ UNCHANGED <<disk, upd, handOffs, history>>

\* What CL_Update_Init leaves on disk when the pending file is there or not.
Left(d, pending) ==
  [d EXCEPT !.result = "none", !.pending = pending,
            !.staging.files = IF pending THEN @ ELSE {}]

\* Mutant: the pending file of an interruption stays.
CL_Update_InitKeepsPending(d, pidRunning) ==
  {[ disk |-> Left(d, d.pending),
     told |-> d.result = "failed"
                \/ (d.pending /\ ~pidRunning /\ ~Running /\ HasManifest(d.backupNew)) ]}

\* Mutant: an interruption is looked for in the backup only.
CL_Update_InitBackupOnly(d, pidRunning) ==
  LET interrupted == d.pending /\ ~pidRunning /\ ~Running
  IN  {[ disk |-> Left(d, pending),
         told |-> d.result = "failed" \/ (interrupted /\ HasManifest(d.backup)) ] :
         pending \in IF interrupted THEN BOOLEAN ELSE {d.pending}}

\* CL_Update_Init: ConsumeResult, CheckInterrupted, CleanLeftovers.  An updater
\* that died is not looked for as long as some process has the pid of the game
\* that launched it, whatever process it is; the pending file may resist.
CL_Update_Init(d, pidRunning) ==
  LET interrupted == d.pending /\ ~pidRunning /\ ~Running
  IN  {[ disk |-> Left(d, pending),
         told |-> d.result = "failed" \/ (interrupted /\ HasManifest(d.backupNew)) ] :
         pending \in IF interrupted THEN BOOLEAN ELSE {d.pending}}

\* The game that wrote the pending file is gone; its pid may be another's by now.
GameStarts ==
  /\ game = "off"
  /\ game' = "on"
  /\ \E pidRunning \in BOOLEAN : \E started \in CL_Update_Init(disk, pidRunning) :
       /\ disk' = started.disk
       /\ history' = [history EXCEPT !.reported = @ \/ started.told]
  /\ UNCHANGED <<upd, handOffs>>

-----------------------------------------------------------------------------
(* The updater *)

\* WaitForGame gives up after a minute; the pending file stays.
WaitForGameTimesOut ==
  /\ upd.pc = "wait" /\ game = "quitting"
  /\ disk' = [disk EXCEPT !.result = "failed"]
  /\ upd' = NotRunning
  /\ UNCHANGED <<game, handOffs, history>>

\* The game is gone, another may be there.  UpdaterCore_Apply lists what is
\* staged.
ListStaging ==
  /\ upd.pc = "wait" /\ upd.mode = "--apply" /\ game # "quitting"
  /\ LET list == disk.staging.files
     IN  upd' = [upd EXCEPT !.pc = IF list = {} THEN "undo" ELSE "clear",
                            !.list = list, !.todo = list, !.ok = list # {}]
  /\ history' = [history EXCEPT !.before = disk.install,
                                !.lost = @ \/ ~Whole(disk.install)]
  /\ UNCHANGED <<disk, game, handOffs>>

\* DeleteTreeW of backup.new, before the copies are made and after everything
\* was undone.  It goes on when a file cannot be deleted, so it may end with
\* anything left.
DeleteBackupNew ==
  /\ upd.pc \in {"clear", "discard"}
  /\ \/ \E t \in OneLess(disk.backupNew) : disk' = [disk EXCEPT !.backupNew = t]
        /\ UNCHANGED upd
     \/ /\ upd' = [upd EXCEPT !.pc = IF @ = "clear" THEN "backup" ELSE "report"]
        /\ UNCHANGED disk
  /\ UNCHANGED <<game, handOffs, history>>

\* The next file of the list is copied to backup.new, or cannot be.
BackUp(f) ==
  /\ upd.pc = "backup" /\ f \in upd.todo
  /\ \/ /\ disk.install[f] # Absent
        /\ disk' = [disk EXCEPT !.backupNew.files[f] = disk.install[f]]
        /\ upd' = [upd EXCEPT !.todo = @ \ {f}, !.existed = @ \cup {f}]
     \/ /\ disk.install[f] = Absent
        /\ upd' = [upd EXCEPT !.todo = @ \ {f}]
        /\ UNCHANGED disk
     \/ /\ disk.install[f] # Absent
        /\ upd' = [upd EXCEPT !.pc = "undo", !.ok = FALSE, !.todo = {}]
        /\ UNCHANGED disk
  /\ UNCHANGED <<game, handOffs, history>>

WriteManifest ==
  /\ upd.pc = "backup" /\ upd.todo = {}
  /\ \/ /\ disk' = [disk EXCEPT !.backupNew.manifest =
                      [f \in Files |-> IF f \notin upd.list THEN "none"
                                       ELSE IF f \in upd.existed THEN "file" ELSE "added"]]
        /\ upd' = [upd EXCEPT !.pc = "copy", !.todo = upd.list]
     \/ /\ upd' = [upd EXCEPT !.pc = "undo", !.ok = FALSE]
        /\ UNCHANGED disk
  /\ UNCHANGED <<game, handOffs, history>>

\* CopyReplaceW renames a whole copy over the file: it is the new one or,
\* when that fails, still the old one.
Replace(f) ==
  /\ upd.pc = "copy" /\ f \in upd.todo
  /\ \/ /\ f \in disk.staging.files
        /\ disk' = [disk EXCEPT !.install[f] = disk.staging.version]
        /\ upd' = [upd EXCEPT !.todo = @ \ {f}, !.touched = @ \cup {f}]
     \/ /\ upd' = [upd EXCEPT !.pc = "undo", !.ok = FALSE, !.todo = upd.touched]
        /\ UNCHANGED disk
  /\ UNCHANGED <<game, handOffs, history>>

\* Every file is replaced.
Succeed ==
  LET whole == history.whole \cup {Update(w, upd.version) : w \in
                 {x \in history.whole : SameVersion(x, history.before)}}
  IN  /\ upd.pc = "copy" /\ upd.todo = {}
      /\ upd' = [upd EXCEPT !.pc = "promote"]
      /\ history' = [history EXCEPT !.whole = whole]
      /\ UNCHANGED <<disk, game, handOffs>>

\* PromoteBackup: the old backup is deleted, backup.new takes its name, unless
\* some of the old one is left or the rename fails.
PromoteBackup ==
  /\ upd.pc = "promote"
  /\ \/ \E t \in OneLess(disk.backup) : disk' = [disk EXCEPT !.backup = t]
        /\ UNCHANGED upd
     \/ /\ disk.backup = EmptyTree
        /\ disk' = [disk EXCEPT !.backup = disk.backupNew, !.backupNew = EmptyTree]
        /\ upd' = [upd EXCEPT !.pc = "report"]
     \/ /\ upd' = [upd EXCEPT !.pc = "report"]
        /\ UNCHANGED disk
  /\ UNCHANGED <<game, handOffs, history>>

\* What was touched is restored from backup.new, or deleted if it was added.
Undo(f) ==
  /\ upd.pc = "undo" /\ f \in upd.todo
  /\ \/ /\ disk' = [disk EXCEPT !.install[f] =
                      IF f \in upd.existed THEN disk.backupNew.files[f] ELSE Absent]
        /\ upd' = [upd EXCEPT !.todo = @ \ {f}, !.touched = @ \ {f}]
     \/ /\ upd' = [upd EXCEPT !.todo = @ \ {f}]
        /\ UNCHANGED disk
  /\ UNCHANGED <<game, handOffs, history>>

\* backup.new is deleted only if everything could be undone.
Undone ==
  /\ upd.pc = "undo" /\ upd.todo = {}
  /\ upd' = [upd EXCEPT !.pc = IF upd.touched = {} THEN "discard" ELSE "report"]
  /\ UNCHANGED <<disk, game, handOffs, history>>

\* Mutant: what an interrupted install left is not preferred.
BackupDirForOld(d) == IF HasManifest(d.backup) THEN d.backup ELSE d.backupNew

BackupDirFor(d) == IF HasManifest(d.backupNew) THEN d.backupNew ELSE d.backup

\* What one entry of the manifest makes of its file; the copy may be missing.
Restored(t, f, now) ==
  IF f = Self \/ t.manifest[f] = "none" THEN now
  ELSE IF t.manifest[f] = "added" THEN Absent
  ELSE IF t.files[f] # Absent THEN t.files[f]
  ELSE now

\* The install after a rollback in which nothing fails.
RolledBack(d) ==
  [f \in Files |-> Restored(BackupDirFor(d), f, d.install[f])]

\* UpdaterCore_Rollback reads the manifest.
ReadManifest ==
  LET t == BackupDirFor(disk)
  IN  /\ upd.pc = "wait" /\ upd.mode = "--rollback" /\ game # "quitting"
      /\ upd' = [upd EXCEPT !.pc = "restore",
                   !.list = {f \in Files : t.manifest[f] # "none"},
                   !.todo = {f \in Files : t.manifest[f] # "none"}]
      /\ history' = [history EXCEPT
           !.before = disk.install,
           !.lost = @ \/ ~Whole(RolledBack(disk)),
           !.fromBackup = @ \/ ~HasManifest(disk.backupNew)]
      /\ UNCHANGED <<disk, game, handOffs>>

\* Each entry in turn; what cannot be restored or deleted is passed over.
RestoreOne(f) ==
  LET t == BackupDirFor(disk)
  IN  /\ upd.pc = "restore" /\ f \in upd.todo
      /\ \/ /\ f = Self \/ t.manifest[f] = "added" \/ t.files[f] # Absent
            /\ disk' = [disk EXCEPT !.install[f] = Restored(t, f, @)]
            /\ upd' = [upd EXCEPT !.todo = @ \ {f}]
         \/ /\ f # Self
            /\ upd' = [upd EXCEPT !.todo = @ \ {f}, !.ok = FALSE]
            /\ UNCHANGED disk
      /\ UNCHANGED <<game, handOffs, history>>

RestoredAll ==
  /\ upd.pc = "restore" /\ upd.todo = {}
  /\ upd' = [upd EXCEPT !.pc = IF upd.ok /\ HasManifest(disk.backupNew)
                               THEN "discard" ELSE "report"]
  /\ UNCHANGED <<disk, game, handOffs, history>>

\* Mutant: a rollback is reported done in any case.
StatusOfRollback == IF upd.mode = "--rollback" THEN "rolledback"
                    ELSE IF upd.ok THEN "ok" ELSE "failed"

Status == IF ~upd.ok THEN "failed"
          ELSE IF upd.mode = "--apply" THEN "ok" ELSE "rolledback"

WriteResult ==
  /\ upd.pc = "report"
  /\ disk' = [disk EXCEPT !.result = Status]
  /\ upd' = [upd EXCEPT !.pc = "finish"]
  /\ UNCHANGED <<game, handOffs, history>>

\* The pending file is deleted; then the game is started.
Finish ==
  /\ upd.pc = "finish"
  /\ disk' = [disk EXCEPT !.pending = FALSE]
  /\ upd' = NotRunning
  /\ UNCHANGED <<game, handOffs, history>>

\* The updater dies, the machine with it or not.
Crash ==
  /\ Running
  /\ upd' = NotRunning
  /\ game' \in {game, "off"}
  /\ UNCHANGED <<disk, handOffs, history>>

UpdaterStep ==
  \/ WaitForGameTimesOut \/ ListStaging \/ DeleteBackupNew
  \/ \E f \in Files : BackUp(f) \/ Replace(f) \/ Undo(f) \/ RestoreOne(f)
  \/ WriteManifest \/ Succeed \/ PromoteBackup \/ Undone
  \/ ReadManifest \/ RestoredAll \/ WriteResult \/ Finish

Next ==
  \/ CL_Update_Confirm \/ CL_Update_Rollback \/ GameExits \/ GameStarts
  \/ UpdaterStep
  \/ Crash

Spec == Init /\ [][Next]_vars

\* The start that finds no process with the pid and can delete the pending file.
StartClears == GameStarts /\ ~disk'.pending

\* The updater runs until it ends or dies; the player quits the game some day
\* and starts it again.  No process has the pid of the game that handed over at
\* every start, and nothing holds the pending file for ever.
FairSpec ==
  /\ Spec
  /\ WF_vars(UpdaterStep) /\ WF_vars(GameExits) /\ WF_vars(GameStarts)
  /\ SF_vars(StartClears)

-----------------------------------------------------------------------------
Contents == [Files -> Versions \cup {Absent}]
TreeType == [files : Contents, manifest : [Files -> {"none", "file", "added"}]]

\* The values the state takes.
TypeOK ==
  /\ disk \in [ install : Contents,
                staging : [version : Versions, files : SUBSET Files],
                backup : TreeType, backupNew : TreeType, pending : BOOLEAN,
                result : {"none", "ok", "failed", "rolledback"} ]
  /\ upd.pc \in {"none", "wait", "clear", "backup", "copy", "promote", "undo",
                 "discard", "restore", "report", "finish"}
  /\ upd.touched \subseteq upd.list /\ upd.existed \subseteq upd.list
  /\ upd.todo \subseteq upd.list
  /\ game \in {"off", "on", "quitting"}
  /\ history.whole \subseteq Contents

\* updater_core.c: a backup.new with a manifest is the one to roll back from.
\* Wherever the updater fails or dies, the install is one that was complete
\* before, or the rollback the game then offers makes it one.  Two things lose
\* this, see the README: an update on top of an install that is not complete,
\* and a rollback from a directory whose deletion was cut short.
Recoverable ==
  ~history.lost => Whole(disk.install) \/ Whole(RolledBack(disk))

\* Types, and what is left on disk after any step of updater_core.c.
DiskInv == TypeOK /\ Recoverable

\* What the game tells the player of the last update is so: "ok", the files of
\* the package are in place; "failed" without a backup.new to roll back from,
\* nothing changed; "rolledback", the install is one that was complete.
ResultIsTrue ==
  [][WriteResult =>
       /\ disk'.result = "ok" =>
            disk.install = Update(history.before, upd.version)
       /\ disk'.result = "failed" /\ upd.mode = "--apply"
            /\ ~HasManifest(disk.backupNew) => disk.install = history.before
       /\ disk'.result = "rolledback" /\ ~history.lost => Whole(disk.install)]_vars

\* An interrupted install is not forgotten.  A player who starts the game on a
\* mixture of two versions is told, or has been, or a later start can still tell
\* him: CL_Update_CheckInterrupted has left both the pending file and the
\* backup.new it needs.  But for a rollback from update/backup (see
\* RollbackIsReported).
MixtureIsReported ==
  [][GameStarts /\ ~Running /\ ~history.lost /\ ~history.fromBackup
       /\ ~Whole(disk.install)
       => history'.reported \/ (disk'.pending /\ HasManifest(disk'.backupNew))]_vars

\* cl_update.c: "only a leftover backup.new means files changed": there is then
\* no mixture that is not told, or still can be.
RollbackIsReported ==
  [][GameStarts /\ ~Running /\ ~history.lost
       /\ ~Whole(disk.install) => history'.reported \/ disk'.pending]_vars

\* No hand-over is left standing: the updater finishes it, or the game, started
\* again, finds that it will not and clears what was staged.
PendingEnds == disk.pending ~> ~disk.pending
=============================================================================
