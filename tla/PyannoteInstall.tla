-------------------------- MODULE PyannoteInstall ---------------------------
(***************************************************************************)
(* The managed diarization runtime: a directory that is replaced as a      *)
(* whole.  An installation fills a staging directory beside it, moves the  *)
(* directory there is to a backup, publishes the stage with a mark that it *)
(* awaits validation, runs a deep probe, and writes a receipt and the      *)
(* status "ok".  Every load of the settings looks for an installation that *)
(* did not end, and removes what no running installation owns.             *)
(***************************************************************************)
EXTENDS Naturals, Sequences, SequencesExt, ProvisioningSlot

CONSTANTS
    Trees,        \* what may be installed at the start
    MaxBackups    \* bound: backup directories at a time

VARIABLES
    tree,         \* the runtime directory, or None
    backups,      \* .pyannote-backup-*, the oldest first
    stage,        \* .pyannote-stage-*, or None
    job,          \* the installation
    load,         \* the recovery in a load of the settings
    loaded,       \* whether the settings have been loaded since the program began
    everReady,    \* history: a directory was ready
    crossed,      \* history: a load came across the swap of an installation
    bared         \* history: a load took the mark of a runtime whose backup is kept

history == <<everReady, crossed, bared>>
pyannote == <<tree, backups, stage, job, load, loaded, history>>

(***************************************************************************)
(* A directory: python and model are both there (whole), what status.json  *)
(* says, whether the receipt is valid for the assets of the manifest, and  *)
(* the two marks.                                                          *)
(***************************************************************************)
TreeRecord ==
    [whole : BOOLEAN, status : {"none", "ok", "bad", "failed probe"}, receipt : BOOLEAN,
     pending : BOOLEAN, owned : BOOLEAN]
Bare == [whole |-> FALSE, status |-> "none", receipt |-> FALSE, pending |-> FALSE,
         owned |-> FALSE]
Unmarked(t) == [t EXCEPT !.owned = FALSE, !.pending = FALSE]
Directory(t) == IF t = None THEN Bare ELSE t     \* create_dir_all
Whole(t) == t # None /\ t.whole

\* No installation is running when the program is first started.
ASSUME PyannoteAssumption ==
    /\ MaxBackups \in Nat
    /\ None \notin TreeRecord
    /\ Trees \subseteq {None} \cup {t \in TreeRecord : ~t.owned}

\* pyannote_health
Ready(t) == Whole(t) /\ t.receipt /\ t.status \in {"ok", "none"}

Foreign == {i \in DOMAIN backups : ~backups[i].owned}
NewestForeign == CHOOSE i \in Foreign : \A j \in Foreign : j <= i

NoJob == [pc |-> "idle", kind |-> "download", had |-> FALSE, backup |-> FALSE,
          told |-> "none"]
NoLoad == [pc |-> "off", from |-> "none", which |-> 0, marked |-> FALSE]

PyannoteInit ==
    /\ tree \in Trees
    /\ backups = <<>> /\ stage = None
    /\ job = NoJob /\ load = NoLoad
    /\ loaded = FALSE
    /\ everReady = Ready(tree) /\ crossed = FALSE /\ bared = FALSE

\* A runtime counts as ready when an installation has ended with it, or a load.
Note == /\ UNCHANGED <<crossed, bared>>
        /\ everReady' = (everReady \/ (job.pc \in {"idle", "end"} /\ Ready(tree)))
Goto(at) == job' = [job EXCEPT !.pc = at]
Tells(what) == job' = [job EXCEPT !.pc = "end", !.told = what]
Fails == Goto(IF job.backup THEN "rollback" ELSE "persist")

(***************************************************************************)
(* The request: the health it decides on is taken before the slot.         *)
(***************************************************************************)
Ask ==
    /\ job.pc = "idle" /\ loaded
    /\ \E force \in BOOLEAN, kind \in {"download", "bundled", "verify"} :
        /\ Ready(tree) => force
        /\ kind = "verify" => /\ ~force /\ Whole(tree)
                              /\ tree.status \in {"ok", "none", "failed probe"}
        /\ job' = [NoJob EXCEPT !.pc = "asked", !.kind = kind, !.had = Whole(tree)]
    /\ crossed' = (crossed \/ load.pc \in {"evict", "adopt"}) /\ UNCHANGED bared
    /\ UNCHANGED <<tree, backups, stage, load, loaded, everReady, slot>>

StartJob ==
    /\ job.pc = "asked"
    /\ Acquire("pyannote")
    /\ Goto("begin")
    /\ UNCHANGED <<tree, backups, stage, load, loaded, history>>

Busy ==
    /\ job.pc = "asked" /\ slot \in Workers
    /\ job' = NoJob
    /\ UNCHANGED <<tree, backups, stage, load, loaded, history, slot>>

EndJob ==
    /\ job.pc = "end"
    /\ Release("pyannote")
    /\ job' = NoJob /\ loaded' = FALSE
    /\ Note
    /\ UNCHANGED <<tree, backups, stage, load>>

(***************************************************************************)
(* A download fills the stage, and drops it when anything fails.           *)
(***************************************************************************)
PrepareStage ==
    /\ job.pc = "begin" /\ job.kind = "download"
    /\ stage' = [Bare EXCEPT !.owned = TRUE, !.pending = TRUE]
    /\ Goto("fetch")
    /\ UNCHANGED <<tree, backups, load, loaded, history, slot>>

\* The stage may have been removed below the download, which recreates nothing.
FillStage ==
    /\ job.pc = "fetch"
    /\ stage # None
    /\ stage' = [stage EXCEPT !.whole = TRUE]
    /\ Goto("swap")
    /\ UNCHANGED <<tree, backups, load, loaded, history, slot>>

\* Selection, disk space, download, checksum, extraction or manifest; or the
\* token, between two downloads.
StageFails ==
    /\ job.pc = "fetch"
    /\ stage' = None
    /\ Goto("persist")
    /\ UNCHANGED <<tree, backups, load, loaded, history, slot>>

\* The token, during a download: the runtime directory is not cleaned up.
StageCancelled ==
    /\ job.pc = "fetch"
    /\ stage' = None
    /\ tree' = IF job.had THEN tree ELSE [Directory(tree) EXCEPT !.status = "bad"]
    /\ Tells("cancelled")
    /\ UNCHANGED <<backups, load, loaded, history, slot>>

(***************************************************************************)
(* A bundled installation is copied into the directory itself, after what  *)
(* was there was backed up, if that was an installation.                   *)
(***************************************************************************)
BeginBundled ==
    /\ job.pc = "begin" /\ job.kind = "bundled"
    /\ \/ Goto("persist")                                  \* the token is set
       \/ Goto(IF job.had /\ tree # None THEN "swap" ELSE "reset")
    /\ UNCHANGED <<tree, backups, stage, load, loaded, history, slot>>

Reset ==
    /\ job.pc = "reset"
    /\ tree' = [Bare EXCEPT !.pending = TRUE]
    /\ Goto("copy")
    /\ UNCHANGED <<backups, stage, load, loaded, history, slot>>

Copy ==
    /\ job.pc = "copy"
    /\ tree' = [Directory(tree) EXCEPT !.whole = TRUE, !.status = "ok"]
    /\ Goto("validate")
    /\ UNCHANGED <<backups, stage, load, loaded, history, slot>>

CopyFails ==
    /\ job.pc \in {"reset", "copy"}
    /\ Fails
    /\ UNCHANGED <<tree, backups, stage, load, loaded, history, slot>>

(***************************************************************************)
(* The swap: backup, its mark, the stage's mark, publication.              *)
(***************************************************************************)
MoveToBackup ==
    /\ job.pc = "swap"
    /\ IF tree = None
       THEN Goto("unmark") /\ UNCHANGED <<tree, backups>>
       ELSE /\ Len(backups) < MaxBackups
            /\ backups' = Append(backups, tree)
            /\ tree' = None
            /\ Goto("mark")
    /\ crossed' = (crossed \/ (tree # None /\ load.pc # "off"))
    /\ bared' = (bared /\ tree = None)
    /\ UNCHANGED <<stage, load, loaded, everReady, slot>>

\* The mark goes into the backup, if it is still there.
MarkBackup ==
    /\ job.pc = "mark"
    /\ Foreign # {}
    /\ backups' = [backups EXCEPT ![NewestForeign].owned = TRUE]
    /\ job' = [job EXCEPT !.pc = IF job.kind = "bundled" THEN "reset" ELSE "unmark",
                          !.backup = TRUE]
    /\ UNCHANGED <<tree, stage, load, loaded, history, slot>>

\* It cannot be written: the rename is undone, as far as that goes.
MarkFails ==
    /\ job.pc = "mark"
    /\ \/ /\ Foreign # {} /\ tree = None
          /\ tree' = backups[NewestForeign]
          /\ backups' = RemoveAt(backups, NewestForeign)
       \/ UNCHANGED <<tree, backups>>
    /\ stage' = None
    /\ Goto("persist")
    /\ UNCHANGED <<load, loaded, history, slot>>

\* What is in the way is removed, and the stage loses the mark that protects it.
UnmarkStage ==
    /\ job.pc = "unmark"
    /\ tree' = None
    /\ stage' = IF stage = None THEN None ELSE [stage EXCEPT !.owned = FALSE]
    /\ Goto("publish")
    /\ UNCHANGED <<backups, load, loaded, history, slot>>

PublishTree ==
    /\ job.pc = "publish"
    /\ stage # None /\ tree = None
    /\ tree' = stage /\ stage' = None
    /\ Goto("validate")
    /\ UNCHANGED <<backups, load, loaded, history, slot>>

\* The previous directory is restored, and only then the stage dropped.
PublishTreeFails ==
    /\ job.pc = "publish"
    /\ stage' = None
    /\ Fails
    /\ UNCHANGED <<tree, backups, load, loaded, history, slot>>

(***************************************************************************)
(* Validation: layout, deep probe, receipt, status, and the end of the     *)
(* transaction.                                                            *)
(***************************************************************************)
Validate ==
    /\ job.pc = (IF job.kind = "verify" THEN "begin" ELSE "validate")
    /\ Whole(tree)
    /\ Goto("probe")
    /\ UNCHANGED <<tree, backups, stage, load, loaded, history, slot>>

ProbeTree ==
    /\ job.pc = "probe"
    /\ Goto("receipt")
    /\ UNCHANGED <<tree, backups, stage, load, loaded, history, slot>>

\* The layout or the probe fails, or the token is set.
NotValid ==
    /\ job.kind # "verify"
    /\ job.pc \in {"validate", "probe"}
    /\ Fails
    /\ UNCHANGED <<tree, backups, stage, load, loaded, history, slot>>

NotVerified ==
    /\ job.kind = "verify"
    /\ \/ /\ job.pc \in {"begin", "probe"}
          /\ tree' = [Directory(tree) EXCEPT !.status = IF job.pc = "begin" THEN "bad"
                                                       ELSE "failed probe"]
          /\ Tells("error")
       \/ /\ job.pc \in {"begin", "probe"}
          /\ Tells("cancelled") /\ UNCHANGED tree
    /\ UNCHANGED <<backups, stage, load, loaded, history, slot>>

WriteReceipt ==
    /\ job.pc = "receipt"
    /\ tree' = [Directory(tree) EXCEPT !.receipt = TRUE]
    /\ Goto("status")
    /\ UNCHANGED <<backups, stage, load, loaded, history, slot>>

WriteStatus ==
    /\ job.pc = "status"
    /\ tree' = [Directory(tree) EXCEPT !.status = "ok"]
    /\ IF job.kind = "verify" THEN Tells("completed") ELSE Goto("finalize")
    /\ UNCHANGED <<backups, stage, load, loaded, history, slot>>

NotWritten ==
    /\ job.pc \in {"receipt", "status"}
    /\ IF job.kind # "verify" THEN Fails /\ UNCHANGED tree
       ELSE /\ Tells("error")
            /\ tree' = IF job.pc = "receipt"
                       THEN [Directory(tree) EXCEPT !.status = "bad"] ELSE tree
    /\ UNCHANGED <<backups, stage, load, loaded, history, slot>>

Finalize ==
    /\ job.pc = "finalize"
    /\ tree' = IF tree = None THEN None ELSE [tree EXCEPT !.pending = FALSE]
    /\ Goto("drop")
    /\ UNCHANGED <<backups, stage, load, loaded, history, slot>>

\* The installation's own backup: the newest that is marked.
Mine == {i \in DOMAIN backups : backups[i].owned}
NewestMine == CHOOSE i \in Mine : \A j \in Mine : j <= i

DropBackup ==
    /\ job.pc = "drop"
    /\ backups' = IF job.backup /\ Mine # {} THEN RemoveAt(backups, NewestMine) ELSE backups
    /\ Tells("completed")
    /\ UNCHANGED <<tree, stage, load, loaded, history, slot>>

NotFinalized ==
    /\ job.pc \in {"finalize", "drop"}
    /\ Tells("completed")
    /\ UNCHANGED <<tree, backups, stage, load, loaded, history, slot>>

(***************************************************************************)
(* Failure: the swap is undone; then a diagnosis is written beside a       *)
(* runtime that was installed before, and anything else is removed.        *)
(***************************************************************************)
Rollback ==
    /\ job.pc = "rollback"
    /\ tree' = None
    /\ Goto("restore")
    /\ UNCHANGED <<backups, stage, load, loaded, history, slot>>

RestoreBackup ==
    /\ job.pc = "restore"
    /\ Mine # {} /\ tree = None
    /\ tree' = Unmarked(backups[NewestMine])
    /\ backups' = RemoveAt(backups, NewestMine)
    /\ Goto("persist")
    /\ UNCHANGED <<stage, load, loaded, history, slot>>

NotRestored ==
    /\ job.pc \in {"rollback", "restore"}
    /\ Goto("persist")
    /\ UNCHANGED <<tree, backups, stage, load, loaded, history, slot>>

\* What a running installation owns, in its order.
OwnBackups ==
    [k \in 1 .. Cardinality(Mine) |->
       backups[CHOOSE i \in Mine : Cardinality({j \in Mine : j <= i}) = k]]

\* Mutant: a failed installation always removes what it finds.
PersistFailureWipes ==
    /\ job.pc = "persist"
    /\ tree' = [Bare EXCEPT !.status = "bad"]
    /\ backups' = <<>> /\ stage' = None
    /\ Tells("error")
    /\ UNCHANGED <<load, loaded, history, slot>>

PersistFailure ==
    /\ job.pc = "persist"
    /\ IF job.had
       THEN tree' = Directory(tree) /\ UNCHANGED <<backups, stage>>
       ELSE /\ tree' = [Bare EXCEPT !.status = "bad"]
            /\ backups' = <<>> /\ stage' = None
    /\ Tells("error")
    /\ UNCHANGED <<load, loaded, history, slot>>

(***************************************************************************)
(* recover_interrupted_pyannote_swap_if_needed, in every load.             *)
(***************************************************************************)
BeginLoad ==
    /\ load.pc = "off"
    /\ load' = [NoLoad EXCEPT !.pc = "pending"]
    /\ crossed' = (crossed \/ job.pc = "mark") /\ UNCHANGED bared
    /\ UNCHANGED <<tree, backups, stage, job, loaded, everReady, slot>>

\* What the swap is to be undone with. Beside an installation, it is not an
\* interrupted one.
Restores(from, which, marked) ==
    /\ load' = [pc |-> "evict", from |-> from, which |-> which, marked |-> marked]
    /\ crossed' = (crossed \/ job.pc \notin {"idle", "persist", "end"})

LookForPending ==
    /\ load.pc = "pending"
    /\ LET committed == tree.status = "ok" /\ tree.receipt
           clears == committed \/ Foreign = {} \/ ~backups[NewestForeign].whole
       IN  IF tree = None \/ ~Directory(tree).pending
           THEN load' = [load EXCEPT !.pc = "usable"] /\ UNCHANGED <<tree, crossed, bared>>
           ELSE IF clears
           THEN /\ tree' = [tree EXCEPT !.pending = FALSE]
                /\ load' = [load EXCEPT !.pc = "usable"]
                /\ bared' = (bared \/ (~committed /\ Mine # {}))
                /\ UNCHANGED crossed
           ELSE /\ Restores("backup", NewestForeign, TRUE)
                /\ UNCHANGED <<tree, bared>>
    /\ UNCHANGED <<backups, stage, job, loaded, everReady, slot>>

LookForUsable ==
    /\ load.pc = "usable"
    /\ IF Whole(tree) THEN load' = [load EXCEPT !.pc = "clean"] /\ UNCHANGED crossed
       ELSE IF Foreign # {} /\ backups[NewestForeign].whole THEN Restores("backup", NewestForeign, FALSE)
       ELSE IF Whole(stage) /\ ~stage.owned THEN Restores("stage", 0, FALSE)
       ELSE load' = [load EXCEPT !.pc = "clean"] /\ UNCHANGED crossed
    /\ UNCHANGED <<tree, backups, stage, job, loaded, everReady, bared, slot>>

Evict ==
    /\ load.pc = "evict"
    /\ tree' = None
    /\ load' = [load EXCEPT !.pc = "adopt"]
    /\ UNCHANGED <<backups, stage, job, loaded, history, slot>>

\* The directory it found is renamed, whether or not an installation has marked it since.
Adoptable ==
    /\ tree = None
    /\ IF load.from = "backup" THEN load.which \in DOMAIN backups ELSE stage # None

Adopt ==
    /\ load.pc = "adopt" /\ Adoptable
    /\ IF load.from = "backup"
       THEN /\ tree' = [backups[load.which] EXCEPT !.owned = FALSE, !.pending = @ /\ ~load.marked]
            /\ backups' = RemoveAt(backups, load.which)
            /\ UNCHANGED stage
       ELSE /\ tree' = [stage EXCEPT !.owned = FALSE]
            /\ stage' = None
            /\ UNCHANGED backups
    /\ load' = [load EXCEPT !.pc = IF load.marked THEN "usable" ELSE "clean"]
    /\ UNCHANGED <<job, loaded, history, slot>>

LoadEnds == load' = NoLoad /\ loaded' = TRUE /\ Note

CleanOrphans ==
    /\ load.pc = "clean"
    /\ backups' = OwnBackups
    /\ stage' = IF stage # None /\ stage.owned THEN stage ELSE None
    /\ LoadEnds
    /\ UNCHANGED <<tree, job, slot>>

\* A step that fails ends the recovery, not the load.
NotRecovered ==
    /\ load.pc \in {"pending", "evict", "adopt", "clean"}
    /\ LoadEnds
    /\ UNCHANGED <<tree, backups, stage, job, slot>>

(***************************************************************************)
(* The program ends: the marks name a process that is gone.                *)
(***************************************************************************)
PyannoteCrash ==
    /\ backups' = [i \in DOMAIN backups |-> [backups[i] EXCEPT !.owned = FALSE]]
    /\ stage' = IF stage = None THEN None ELSE [stage EXCEPT !.owned = FALSE]
    /\ job' = NoJob /\ load' = NoLoad /\ loaded' = FALSE
    /\ crossed' = (crossed \/ (bared /\ Mine # {})) /\ bared' = FALSE
    /\ UNCHANGED <<tree, everReady>>

\* A load may have taken away what the next step of the installation needs, or the
\* installation what the load was about to put back.
JobOutrun ==
    \/ job.pc = "mark" /\ Foreign = {} /\ MarkFails
    \/ job.pc = "publish" /\ (stage = None \/ tree # None) /\ PublishTreeFails
    \/ job.pc = "restore" /\ (Mine = {} \/ tree # None) /\ NotRestored

LoadOutrun == load.pc = "adopt" /\ ~Adoptable /\ NotRecovered

Loading == LookForPending \/ LookForUsable \/ Evict \/ Adopt \/ CleanOrphans \/ LoadOutrun

\* What an installation does when nothing fails.
JobStep ==
    \/ StartJob \/ EndJob \/ PrepareStage \/ FillStage \/ BeginBundled \/ Reset \/ Copy
    \/ MoveToBackup \/ MarkBackup \/ UnmarkStage \/ PublishTree \/ Validate \/ ProbeTree
    \/ WriteReceipt \/ WriteStatus \/ Finalize \/ DropBackup \/ Rollback \/ RestoreBackup
    \/ PersistFailure

\* Outcomes of a download, of a probe, of the token, or of a load beside it; the
\* disk obeys.
JobFails == Busy \/ StageFails \/ StageCancelled \/ NotValid \/ NotVerified \/ JobOutrun

DiskFails ==
    \/ CopyFails \/ MarkFails \/ PublishTreeFails \/ NotWritten \/ NotFinalized \/ NotRestored
    \/ NotRecovered
=============================================================================
