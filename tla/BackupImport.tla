---------------------------- MODULE BackupImport ----------------------------
(***************************************************************************)
(* Importing a backup (commands/backup.rs): the archive on disk is replaced *)
(* by the one of the backup, and put back when the import fails.            *)
(*                                                                         *)
(* The archive is four paths, the database, its two side files and the      *)
(* audio vault. An import prepares the new archive in a staging directory,  *)
(* moves every old path into a rollback directory, moves every staged path  *)
(* in, and saves the settings of the backup. A failure on the way removes   *)
(* what is in the data directory and moves the rollback directory back.     *)
(* Each rename is a step that can fail, and the process can die between any *)
(* two. Every command on the archive opens the database by its path in WAL  *)
(* mode and closes it again, whatever an import is doing; a transcription   *)
(* saves that way too, and an import looks for one only once, at its start. *)
(***************************************************************************)
EXTENDS Naturals, Sequences

CONSTANTS
  Leftovers,  \* which side files a database at rest can have beside it
  MaxLooks    \* bound of the exploration: other commands on the archive

VARIABLES
  data,        \* the paths of the data directory: which archive each is of
  staged,      \* the staging directory
  kept,        \* the rollback directory
  applied,     \* the settings in use
  step,        \* where import_app_backup is
  at,          \* the next path of the loop it is in
  cause,       \* what made it put the old archive back
  answer,      \* what the import answered
  transcript,  \* a transcription with an artifact to save
  registered,  \* the transcription is in the registry
  open,        \* the connections that are open now
  home,        \* the archive each was opened on last
  looks,       \* bound: commands on the archive so far
  before,      \* observed: the data directory when the swap began
  moved,       \* observed: paths that were moved out
  stuck,       \* observed: paths that could not be removed
  earlier,     \* observed: the transcript was saved before the import began
  disturbed,   \* observed: a connection changed the directory during the renames
  used         \* observed: one changed it since the swap began

diskVars == <<data, staged, kept>>
commandVars == <<step, at, cause, answer>>
storeVars == <<transcript, registered, open, home, looks>>
swapVars == <<before, moved, stuck, earlier>>
touchVars == <<disturbed, used>>
backupVars == <<diskVars, applied, commandVars, storeVars, swapVars, touchVars>>

SideFiles == {"wal", "shm"}
ArchivePaths == {"db", "vault"} \cup SideFiles

\* The order of every loop: sqlite_related_paths, then the vault.
Order == <<"db", "wal", "shm", "vault">>

PathStates == {"absent", "old", "new", "blank"}
Empty == [path \in ArchivePaths |-> "absent"]

Archives(version) ==
  {a \in [ArchivePaths -> {"absent", version}] :
     a["db"] = version /\ {side \in SideFiles : a[side] # "absent"} \in Leftovers}

\* The connection of the save, and that of any other command on the archive.
Connections == {"save", "look"}

Renaming == step \in {"moving out", "moving in", "removing", "moving back"}
Swapping == step \notin {"idle", "preparing"}

\* init_schema creates the vault with the database; a crash may have left side files.
BackupInit ==
  /\ data \in {a \in Archives("old") : a["vault"] = "old"}
  /\ staged = Empty /\ kept = Empty
  /\ applied = "old"
  /\ step = "idle" /\ at = 1 /\ cause = "none" /\ answer = "none"
  /\ transcript = "none" /\ registered = FALSE
  /\ open = {} /\ home = [c \in Connections |-> "absent"] /\ looks = 0
  /\ before = data /\ moved = {} /\ stuck = {} /\ earlier = FALSE
  /\ disturbed = FALSE /\ used = FALSE

-----------------------------------------------------------------------------
(***************************************************************************)
(* A transcription with an artifact to archive, and other commands.        *)
(***************************************************************************)
BeginTranscript ==
  /\ transcript = "none"
  /\ transcript' = "working" /\ registered' = TRUE
  /\ UNCHANGED <<diskVars, applied, commandVars, open, home, looks, swapVars, touchVars>>

\* Cancelling takes the job out of the registry, not its save.
CancelTranscript ==
  /\ registered
  /\ registered' = FALSE
  /\ UNCHANGED <<diskVars, applied, commandVars, transcript, open, home, looks, swapVars, touchVars>>

\* What SQLite makes of the data directory when the database is opened in WAL
\* mode: a missing one is created, and the side files found beside a database that
\* was just created are made anew; beside another one they are taken as they are,
\* and the missing ones created.
Opened(files) ==
  [files EXCEPT
     !["db"] = IF @ = "absent" THEN "blank" ELSE @,
     !["wal"] = IF files["db"] = "absent" THEN "blank" ELSE IF @ = "absent" THEN files["db"] ELSE @,
     !["shm"] = IF files["db"] = "absent" THEN "blank" ELSE IF @ = "absent" THEN files["db"] ELSE @]

\* The last connection to a database that is still at its path takes its side
\* files away; one whose database was moved leaves the directory alone.
Closed(files, c) ==
  IF files["db"] = home[c] /\ \A other \in open \ {c} : home[other] # home[c]
  THEN [files EXCEPT !["wal"] = "absent", !["shm"] = "absent"] ELSE files

Touch ==
  /\ disturbed' = (disturbed \/ (Renaming /\ data' # data))
  /\ used' = (used \/ (Swapping /\ data' # data))
  /\ UNCHANGED <<staged, kept, applied, commandVars, swapVars>>

\* The save also copies the audio into the vault, which it creates if need be.
OpenStore(c) ==
  /\ c \notin open
  /\ IF c = "save" THEN transcript = "working" /\ UNCHANGED looks
     ELSE looks < MaxLooks /\ looks' = looks + 1
  /\ transcript' = IF c = "save" THEN "saving" ELSE transcript
  /\ LET files == Opened(data) IN
     /\ data' = IF c = "save" /\ data["vault"] = "absent"
                THEN [files EXCEPT !["vault"] = "blank"] ELSE files
     /\ home' = [home EXCEPT ![c] = files["db"]]
  /\ open' = open \cup {c}
  /\ Touch /\ UNCHANGED registered

\* The commit goes to the database that was opened, wherever it is now.
CommitSave ==
  /\ transcript = "saving"
  /\ transcript' = IF home["save"] = "blank" THEN "failed" ELSE "saved"
  /\ registered' = FALSE
  /\ UNCHANGED <<diskVars, applied, commandVars, open, home, looks, swapVars, touchVars>>

CloseStore(c) ==
  /\ c \in open
  /\ c = "save" => transcript # "saving"
  /\ data' = Closed(data, c)
  /\ open' = open \ {c}
  /\ Touch /\ UNCHANGED <<transcript, registered, home, looks>>

-----------------------------------------------------------------------------
(***************************************************************************)
(* The import, up to the staged archive.                                   *)
(***************************************************************************)
ProceedTo(next) == step' = next /\ at' = 1

Reply(what) == ProceedTo("returned") /\ answer' = what

\* ensure_backup_idle: the registry, and the recorder, which is one more
\* transcription here.
Import ==
  /\ step = "idle"
  /\ \/ registered /\ Reply("refused")
     \/ ~registered /\ ProceedTo("preparing") /\ UNCHANGED answer
  /\ earlier' = (transcript = "saved")
  /\ UNCHANGED <<diskVars, applied, cause, storeVars, before, moved, stuck, touchVars>>

Prepare ==
  /\ step = "preparing"
  /\ \/ /\ staged' \in Archives("new")
        /\ ProceedTo("moving out") /\ UNCHANGED answer
     \/ Reply("failed") /\ UNCHANGED staged
  /\ before' = data
  /\ UNCHANGED <<data, kept, applied, cause, storeVars, moved, stuck, earlier, touchVars>>

-----------------------------------------------------------------------------
(***************************************************************************)
(* swap_storage_with_rollback.                                             *)
(***************************************************************************)
Path == Order[at]

\* The loop goes on to the next path, or to what follows it.
Continue(next) ==
  IF at < Len(Order) THEN at' = at + 1 /\ UNCHANGED step ELSE ProceedTo(next)

PutBack(why) == ProceedTo("removing") /\ cause' = why

\* Mutant: the side files of the database are left where they are.
HasOldMain == data[Path] # "absent" /\ Path \notin SideFiles

HasOld == data[Path] # "absent"

\* Mutant: the old archive is removed instead of moved.
MoveOutByDeleting ==
  /\ step = "moving out"
  /\ data' = [data EXCEPT ![Path] = "absent"]
  /\ moved' = moved \cup {Path}
  /\ Continue("moving in")
  /\ UNCHANGED <<kept, cause, staged, applied, answer, storeVars, before, stuck, earlier, touchVars>>

MoveOut ==
  /\ step = "moving out"
  /\ \/ /\ ~HasOld
        /\ Continue("moving in") /\ UNCHANGED <<data, kept, moved, cause>>
     \/ /\ HasOld
        /\ kept' = [kept EXCEPT ![Path] = data[Path]]
        /\ data' = [data EXCEPT ![Path] = "absent"]
        /\ moved' = moved \cup {Path}
        /\ Continue("moving in") /\ UNCHANGED cause
     \/ /\ HasOld
        /\ PutBack("swap") /\ UNCHANGED <<data, kept, moved>>
  /\ UNCHANGED <<staged, applied, answer, storeVars, before, stuck, earlier, touchVars>>

\* A file replaces what is there; a directory does not replace another. A
\* backup without audio gets an empty vault.
MoveIn ==
  /\ step = "moving in"
  /\ \/ /\ staged[Path] = "absent" /\ Path # "vault"
        /\ Continue("settings") /\ UNCHANGED <<data, staged, cause>>
     \/ /\ staged[Path] = "absent" /\ Path = "vault"
        /\ data' = [data EXCEPT !["vault"] = IF @ = "absent" THEN "new" ELSE @]
        /\ Continue("settings") /\ UNCHANGED <<staged, cause>>
     \/ /\ staged[Path] # "absent"
        /\ Path = "vault" => data["vault"] = "absent"
        /\ data' = [data EXCEPT ![Path] = "new"]
        /\ staged' = [staged EXCEPT ![Path] = "absent"]
        /\ Continue("settings") /\ UNCHANGED cause
     \/ /\ staged[Path] # "absent" \/ Path = "vault"
        /\ PutBack("swap") /\ UNCHANGED <<data, staged>>
  /\ UNCHANGED <<kept, applied, answer, storeVars, swapVars, touchVars>>

-----------------------------------------------------------------------------
\* SettingsService::update may fail before or after the file was written.
SaveSettings ==
  /\ step = "settings"
  /\ \/ /\ applied' = "new"
        /\ ProceedTo("cleaning") /\ UNCHANGED cause
     \/ /\ applied' \in {"old", "new"}
        /\ PutBack("settings")
  /\ UNCHANGED <<diskVars, answer, storeVars, swapVars, touchVars>>

(***************************************************************************)
(* restore_storage_from_rollback: every path of the data directory is       *)
(* removed, also one that was never moved out; errors of that are ignored,  *)
(* and an error of a rename ends it there.                                  *)
(***************************************************************************)
RemovePath ==
  /\ step = "removing"
  /\ \/ /\ data' = [data EXCEPT ![Path] = "absent"]
        /\ UNCHANGED stuck
     \/ /\ data[Path] # "absent"
        /\ stuck' = stuck \cup {Path}
        /\ UNCHANGED data
  /\ Continue("moving back")
  /\ UNCHANGED <<staged, kept, applied, cause, answer, storeVars, before, moved, earlier, touchVars>>

\* After a failed swap the result of the restore is ignored; after failed
\* settings it is part of the answer.
RestoreFails ==
  Reply(IF cause = "swap" THEN "failed" ELSE "failed without rollback")

HasKept == kept[Path] # "absent"

MoveBack ==
  /\ step = "moving back"
  /\ \/ /\ ~HasKept
        /\ Continue(IF cause = "swap" THEN "failing" ELSE "settings back")
        /\ UNCHANGED <<data, kept, answer>>
     \/ /\ HasKept
        /\ Path = "vault" => data["vault"] = "absent"
        /\ data' = [data EXCEPT ![Path] = kept[Path]]
        /\ kept' = [kept EXCEPT ![Path] = "absent"]
        /\ Continue(IF cause = "swap" THEN "failing" ELSE "settings back")
        /\ UNCHANGED answer
     \/ /\ HasKept
        /\ RestoreFails /\ UNCHANGED <<data, kept>>
  /\ UNCHANGED <<staged, applied, cause, storeVars, swapVars, touchVars>>

\* The error of the swap is returned; both directories stay.
FailSwap ==
  /\ step = "failing"
  /\ Reply("failed")
  /\ UNCHANGED <<diskVars, applied, cause, storeVars, swapVars, touchVars>>

\* The previous settings are saved again; a failure of that is ignored.
SettingsBack ==
  /\ step = "settings back"
  /\ applied' \in {"old", applied}
  /\ ProceedTo("cleaning")
  /\ UNCHANGED <<diskVars, cause, answer, storeVars, swapVars, touchVars>>

CleanUp ==
  /\ step = "cleaning"
  /\ staged' = Empty /\ kept' = Empty
  /\ Reply(IF cause = "none" THEN "imported" ELSE "failed")
  /\ UNCHANGED <<data, applied, cause, storeVars, swapVars, touchVars>>

\* The application dies, and its connections and registry with it. Nothing at the
\* next start looks for a rollback directory.
BackupCrash ==
  /\ step \notin {"idle", "returned", "crashed"}
  /\ ProceedTo("crashed")
  /\ open' = {} /\ home' = [c \in Connections |-> "absent"] /\ registered' = FALSE
  /\ UNCHANGED <<diskVars, applied, cause, answer, transcript, looks, swapVars, touchVars>>

StoreStep ==
  /\ step # "crashed"
  /\ \/ BeginTranscript \/ CancelTranscript \/ CommitSave
     \/ \E c \in Connections : OpenStore(c) \/ CloseStore(c)

ImportStep ==
  \/ Import \/ Prepare \/ MoveOut \/ MoveIn \/ SaveSettings
  \/ RemovePath \/ MoveBack \/ FailSwap \/ SettingsBack \/ CleanUp
  \/ BackupCrash

BackupNext == StoreStep \/ ImportStep

BackupSpec == BackupInit /\ [][BackupNext]_backupVars

-----------------------------------------------------------------------------
(***************************************************************************)
(* Properties. A command that opens or closes the database between two      *)
(* renames creates side files beside another database, or takes some away;  *)
(* what is said of the side files holds where none did (`disturbed`,        *)
(* `used`). What is said of the database and the vault always holds.        *)
(***************************************************************************)
\* A successful import leaves the archive and the settings of the backup
\* alone: no side file and no recording of the old archive stays behind,
\* which SQLite would replay into the new database (swap 664-676).
ImportIsWhole ==
  answer = "imported" =>
    /\ applied = "new"
    /\ data["db"] = "new" /\ data["vault"] # "old"
    /\ \A side \in SideFiles : data[side] # "old"

\* A path of the old archive that was moved out is in one of the two directories.
\* (A side file may be in its database instead, once that is back in its place.)
Somewhere(path) ==
  \/ "old" \in {data[path], kept[path]}
  \/ path \in SideFiles /\ (disturbed \/ data["db"] = "old")

\* Until an import has succeeded, whatever fails on the way, when the old archive
\* is put back and when that fails too, or the program ends: every path that was
\* moved out is in the data directory or in the rollback directory, and while
\* nothing is being put back after a failed swap so is every other (swap 660-723,
\* restore 728-770). Restoring removes what a failed swap had not moved.
OldArchiveSurvives ==
  Swapping /\ answer # "imported" =>
    \A path \in ArchivePaths :
      before[path] = "old" /\ (path \in moved \/ cause # "swap") => Somewhere(path)

\* An import whose settings could not be saved, and whose rollback reported
\* no error, leaves the old archive as it was, but for what could not be
\* removed (import_app_backup 349-372).
FailedSettingsRestore ==
  answer = "failed" /\ cause = "settings" =>
    /\ \A path \in {"db", "vault"} \ stuck : data[path] = before[path]
    /\ ~used => \A path \in SideFiles \ stuck : data[path] = before[path]

\* No database is ever in the data directory with the side file of another:
\* not between two renames, not after a crash.
SideFilesMatch ==
  stuck = {} /\ ~disturbed =>
    \A side \in SideFiles :
      data["db"] \in {"old", "new"} => data[side] \in {"absent", data["db"]}

\* An import leaves one archive, whole, with its own side files and settings
\* that belong to it: the backup's, or after a failure the previous one's. No
\* side file is of another database, unless some command opened or closed the
\* database between two of the renames.
ImportIsOneArchive == ImportIsWhole /\ SideFilesMatch /\ FailedSettingsRestore

\* "finish or cancel active transcriptions before exporting or importing a
\* backup" (backup.rs:381): an import never takes away a transcript whose
\* save was reported. It looks for transcriptions only when it begins.
SavedTranscriptIsKept ==
  answer = "imported" /\ transcript = "saved" /\ ~earlier => home["save"] = data["db"]

\* "rollback restore should succeed", "old vault should be restored" (the test at
\* backup.rs:1066 and :1073): a swap that fails, with no command on the archive
\* beside it, leaves every path of the old archive in the data directory or in
\* the rollback directory.
FailedSwapRestores ==
  answer = "failed" /\ cause = "swap" /\ ~used =>
    \A path \in ArchivePaths : before[path] = "old" => "old" \in {data[path], kept[path]}

=============================================================================
