---------------------------- MODULE Provisioning ----------------------------
(***************************************************************************)
(* The three workers of the provisioning commands around their one slot,   *)
(* the commands that recover what an interrupted one left, and the end of  *)
(* the program at any point.                                               *)
(***************************************************************************)
EXTENDS RuntimeInstall, PyannoteInstall, ModelDownloads

VARIABLES
    who,          \* what takes part in this behaviour (a bound of the instance)
    asked         \* installations of the diarization runtime asked for in this run

provisioning == <<runtime, pyannote, downloads, who, asked>>

\* What takes part.  "crash" lets the program end at every step, "faults" lets every
\* file operation fail, then with one installation of the diarization runtime ("once").
\* Nothing keeps a load of the settings away from it: the two take their steps in any
\* order.
Takes(part) == part \in who

ProvisioningInit ==
    /\ RuntimeInit /\ PyannoteInit /\ ModelsInit
    /\ asked = 0
    /\ ~Takes("runtime") => live = Nothing
    /\ ~Takes("pyannote") => tree = None
    /\ ~Takes("models") => have = [i \in Items |-> "whole"]

RuntimePart ==
    /\ Takes("runtime")
    /\ \/ BeginInstall \/ ReaderRecovers \/ Recovering \/ Installing
       \/ Takes("faults") /\ InstallFails
       \/ NotFetched \/ NotExtracted
    /\ UNCHANGED <<tree, backups, stage, job, load, loaded, history, downloads, asked>>

RuntimeRest == <<disk, journals, installLock, pc, swap, rec, txn, version, report, good>>

PyannotePart ==
    /\ Takes("pyannote")
    /\ \/ /\ Ask
          /\ Takes("once") => asked = 0
          /\ asked' = 1
       \/ /\ \/ JobStep \/ JobFails
             \/ BeginLoad \/ Loading
             \/ Takes("faults") /\ DiskFails
          /\ UNCHANGED asked
    /\ UNCHANGED <<RuntimeRest, downloads>>

ModelsPart ==
    /\ Takes("models")
    /\ AskModels \/ BatchStep \/ BatchFails \/ (Takes("faults") /\ NotCleaned)
    /\ UNCHANGED <<RuntimeRest, tree, backups, stage, job, load, loaded, history, asked>>

ProgramEnds ==
    /\ Takes("crash")
    /\ RuntimeCrash /\ PyannoteCrash /\ ModelsCrash
    /\ UNCHANGED asked

ProvisioningNext ==
    (RuntimePart \/ PyannotePart \/ ModelsPart \/ ProgramEnds) /\ UNCHANGED who

ProvisioningSpec == ProvisioningInit /\ [][ProvisioningNext]_provisioning

RuntimeGoesOn == RuntimePart /\ (Recovering \/ Installing) /\ UNCHANGED who
JobGoesOn ==
    PyannotePart /\ job.pc \notin {"idle", "asked"} /\ (JobStep \/ JobFails) /\ UNCHANGED who
LoadGoesOn == PyannotePart /\ load.pc # "off" /\ Loading /\ UNCHANGED who
BatchGoesOn == ModelsPart /\ batch.pc \notin {"idle", "asked"} /\ BatchStep /\ UNCHANGED who

\* Workers and recoveries that have begun go on, on threads of their own; nothing
\* makes a command be called.
ProvisioningFairness ==
    /\ WF_provisioning(RuntimeGoesOn) /\ WF_provisioning(JobGoesOn)
    /\ WF_provisioning(LoadGoesOn) /\ WF_provisioning(BatchGoesOn)

(***************************************************************************)
(* Properties                                                              *)
(***************************************************************************)

ProvisioningTypeOK ==
    /\ RuntimeTypeOK
    /\ Len(backups) <= MaxBackups
    /\ job.had \in BOOLEAN /\ job.backup \in BOOLEAN
    /\ archive \subseteq Encoders
    /\ batch.tries \in 0 .. MaxAttempts
    /\ \A i \in Items : have[i] \in {"absent", "broken", "whole"}
    /\ lucky \in BOOLEAN

Settled == job.pc = "idle" /\ load.pc = "off" /\ loaded

\* A diarization runtime that was ready stays ready, or a ready one takes its
\* place: whatever a repair or a forced installation comes to, and wherever the
\* program ends, once the settings have been loaded again (the comment of
\* persist_pyannote_install_failure).  Where the disk fails as well, it is still
\* there as a backup.  Excepted are the runs in which a load came across the swap:
\* it found a backup before its mark or a stage without it, or took the mark of a
\* runtime that was being validated and the program ended.
ReadyRuntimeSurvives ==
    Settled /\ everReady /\ ~crossed =>
        Ready(tree) \/ (Takes("faults") /\ \E i \in DOMAIN backups : Ready(backups[i]))

\* An installation says "completed" only of a runtime that health will call
\* ready, though settings are loaded between its steps, with the same exception.
CompletedIsReady == ~crossed /\ job.pc = "end" /\ job.told = "completed" => Ready(tree)

\* Neither failures nor the end of the program leave a stage or a backup behind
\* (each is about a gigabyte) once the settings have been loaded again.
NothingLeftBehind ==
    Settled /\ ~Takes("faults") => stage = None /\ backups = <<>>

\* A repair of the diarization runtime keeps one that works, says "completed"
\* only of one that is ready, and leaves nothing of itself behind.
RepairKeepsRuntime == ProvisioningTypeOK /\ ReadyRuntimeSurvives /\ CompletedIsReady /\ NothingLeftBehind

\* The slot is given back however a worker ends.
SlotIsFreed == []<>(slot = None)

\* A batch that no server, token or disk refuses anything installs everything,
\* whatever earlier ones came to: what they leave is never in the way of a retry,
\* but for the archive of an encoder that could not be removed, or that lay there
\* when the program ended.
RetryInstalls ==
    batch.pc = "end" /\ lucky =>
        batch.told = "completed" \/ (batch.todo # <<>> /\ Ahead \in stranded)
=============================================================================
