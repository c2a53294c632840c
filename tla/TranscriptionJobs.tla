-------------------------- MODULE TranscriptionJobs --------------------------
(***************************************************************************)
(* The transcription jobs of the desktop                                    *)
(* (apps/desktop/src-tauri/src/commands/transcription.rs): start spawns one *)
(* task per job and then registers its cancellation token; the task waits  *)
(* for the heavy-work gate, runs the pipeline of FileTranscription, tells   *)
(* the window how it ended and removes itself from the registry. Cancel     *)
(* takes the token out of the registry and cancels it.                      *)
(*                                                                         *)
(* The window learns of a job from two kinds of messages: the progress      *)
(* events, whose last stage is run[j].stage, and the events                 *)
(* transcription://completed and transcription://failed in `announced`.     *)
(***************************************************************************)
EXTENDS FileTranscription, Gate

CONSTANT
  Companion   \* the companion server's jobs, which share the gate

ASSUME ClientsAssumption == Companion # Free /\ {Companion, Free} \cap Jobs = {}

VARIABLES
  command,    \* start_transcription of each job
  task,       \* the spawned task of each job
  registry,   \* AppState.transcription_tasks
  announced,  \* completed and failed events sent to the window
  imports     \* what the automatic import recorded for each job

jobVars == <<command, task, registry, announced, imports>>
vars == <<pipelineVars, gateVars, jobVars>>

-----------------------------------------------------------------------------
Init ==
  /\ PipelineInit
  /\ GateInit
  /\ command = [j \in Jobs |-> "none"]
  /\ task = [j \in Jobs |-> "none"]
  /\ registry = {}
  /\ announced = [j \in Jobs |-> {}]
  /\ imports = [j \in Jobs |-> "none"]

\* spawn_transcription_job: the task is spawned before its token is stored.
StartCommand(j) ==
  /\ command[j] = "none"
  /\ command' = [command EXCEPT ![j] = "inserting"]
  /\ task' = [task EXCEPT ![j] = "spawned"]
  /\ UNCHANGED <<pipelineVars, gateVars, registry, announced, imports>>

Insert(j) ==
  /\ command[j] = "inserting"
  /\ command' = [command EXCEPT ![j] = "returned"]
  /\ registry' = registry \cup {j}
  /\ UNCHANGED <<pipelineVars, gateVars, task, announced, imports>>

\* cancel_transcription of a job the window knows; without a token in the
\* registry it does nothing.
Cancel(j) ==
  /\ command[j] = "returned"
  /\ j \in registry
  /\ registry' = registry \ {j}
  /\ RequestCancel(j)
  /\ UNCHANGED <<gateVars, command, task, announced, imports>>

-----------------------------------------------------------------------------
\* The permit at once, or a Queued event and a place in the queue.
TaskBegins(j) ==
  /\ task[j] = "spawned"
  /\ \/ /\ TryAcquire(j)
        /\ task' = [task EXCEPT ![j] = "holding"]
        /\ UNCHANGED run
     \/ /\ Wait(j)
        /\ task' = [task EXCEPT ![j] = "waiting"]
        /\ run' = [run EXCEPT ![j].stage = "queued"]
  /\ UNCHANGED <<cancelled, readers, saving, archive, command, registry, announced, imports>>

\* The select is biased: a cancelled token wins over a permit just given.
QueuedCancelled(j) ==
  /\ task[j] = "waiting"
  /\ j \in cancelled
  /\ Abandon(j)
  /\ task' = [task EXCEPT ![j] = "done"]
  /\ registry' = registry \ {j}
  /\ UNCHANGED <<pipelineVars, command, announced, imports>>

PermitArrives(j) ==
  /\ task[j] = "waiting"
  /\ j \notin cancelled
  /\ Granted(j)
  /\ task' = [task EXCEPT ![j] = "holding"]
  /\ UNCHANGED <<pipelineVars, gateVars, command, registry, announced, imports>>

\* Mutant: the early return forgets the permit.
CancelledAtGateKeepsPermit(j) ==
  /\ task[j] = "holding"
  /\ j \in cancelled
  /\ task' = [task EXCEPT ![j] = "done"]
  /\ registry' = registry \ {j}
  /\ UNCHANGED <<pipelineVars, gateVars, command, announced, imports>>

\* Cancelled before the work began.
CancelledAtGate(j) ==
  /\ task[j] = "holding"
  /\ j \in cancelled
  /\ Release(j)
  /\ task' = [task EXCEPT ![j] = "done"]
  /\ registry' = registry \ {j}
  /\ UNCHANGED <<pipelineVars, command, announced, imports>>

NotCancelled(j) ==
  /\ task[j] = "holding"
  /\ j \notin cancelled
  /\ task' = [task EXCEPT ![j] = "building"]
  /\ UNCHANGED <<pipelineVars, gateVars, command, registry, announced, imports>>

\* build_service fails, and that is announced.
BuildFails(j) ==
  /\ task[j] = "building"
  /\ announced' = [announced EXCEPT ![j] = @ \cup {"failed"}]
  /\ task' = [task EXCEPT ![j] = "leaving"]
  /\ UNCHANGED <<pipelineVars, gateVars, command, registry, imports>>

\* The token may have been cancelled since it was checked: the pipeline
\* checks it again.
CallPipeline(j) ==
  /\ task[j] = "building"
  /\ \/ \E request \in Requests : Call(j, request)
     \/ \E result \in {"cancelled", "failed"} : CallRefused(j, result)
  /\ task' = [task EXCEPT ![j] = "running"]
  /\ UNCHANGED <<gateVars, command, registry, announced, imports>>

\* Mutant: every error is announced, a cancellation too.
ReportEveryError(j) ==
  /\ task[j] = "running"
  /\ run[j].result # "none"
  /\ task' = [task EXCEPT ![j] = "leaving"]
  /\ imports' = [imports EXCEPT ![j] = IF run[j].result = "ok" THEN "success" ELSE "failure"]
  /\ announced' = [announced EXCEPT ![j] =
                     @ \cup {IF run[j].result = "ok" THEN "completed" ELSE "failed"}]
  /\ UNCHANGED <<pipelineVars, gateVars, command, registry>>

\* The outcome of the run: recorded for the automatic import, then announced.
Report(j) ==
  /\ task[j] = "running"
  /\ run[j].result # "none"
  /\ task' = [task EXCEPT ![j] = "leaving"]
  /\ imports' = [imports EXCEPT ![j] = CASE run[j].result = "ok" -> "success"
                                         [] run[j].result = "failed" -> "failure"
                                         [] OTHER -> @]
  /\ announced' = [announced EXCEPT ![j] = CASE run[j].result = "ok" -> @ \cup {"completed"}
                                             [] run[j].result = "failed" -> @ \cup {"failed"}
                                             [] OTHER -> @]
  /\ UNCHANGED <<pipelineVars, gateVars, command, registry>>

\* The token leaves the registry and the permit is dropped.
Leave(j) ==
  /\ task[j] = "leaving"
  /\ registry' = registry \ {j}
  /\ task' = [task EXCEPT ![j] = "done"]
  /\ Release(j)
  /\ UNCHANGED <<pipelineVars, command, announced, imports>>

\* The companion server's jobs come and go at the gate.
CompanionWants ==
  /\ ~Granted(Companion)
  /\ Companion \notin ToSet(waiters)
  /\ Acquire(Companion)
  /\ UNCHANGED <<pipelineVars, jobVars>>

CompanionLeaves == Release(Companion) /\ UNCHANGED <<pipelineVars, jobVars>>

RunStep(j) == PipelineStep(j) /\ UNCHANGED <<gateVars, jobVars>>

TaskStep(j) ==
  \/ TaskBegins(j)
  \/ QueuedCancelled(j)
  \/ PermitArrives(j)
  \/ CancelledAtGate(j)
  \/ NotCancelled(j)
  \/ BuildFails(j)
  \/ CallPipeline(j)
  \/ Report(j)
  \/ Leave(j)

Next ==
  \/ \E j \in Jobs : StartCommand(j) \/ Insert(j) \/ Cancel(j) \/ TaskStep(j) \/ RunStep(j)
  \/ CompanionWants
  \/ CompanionLeaves

Spec == Init /\ [][Next]_vars

\* The runtime polls every task, each external program is bounded by a
\* timeout or an idle timeout, and so is the companion's work.
Fairness ==
  /\ \A j \in Jobs : /\ WF_vars(Insert(j))
                     /\ WF_vars(TaskStep(j))
                     /\ WF_vars(Waits(j) /\ UNCHANGED <<gateVars, jobVars>>)
  /\ WF_vars(CompanionLeaves)

FairSpec == Spec /\ Fairness

-----------------------------------------------------------------------------
Working == {"prepare", "engine", "diarize", "ai", "persist", "save"}

\* Heavy work is serialised: whoever is in the pipeline holds the permit, so
\* two desktop jobs, or a desktop job and the companion, never load models
\* at the same time (comment "Serialize heavy work" of the spawned task).
HeavyWorkHoldsGate ==
  \A j \in Jobs : run[j].at \in Working => holder = j

\* From the moment the window is given its id until its task ends, a job
\* that was not cancelled has its token in the registry: it can be cancelled,
\* and a backup knows of it.
UnderWayIsRegistered ==
  \A j \in Jobs :
    command[j] = "returned" /\ task[j] # "done" => j \in registry \cup cancelled

\* No early return of the task forgets the permit, and a permit that arrives
\* together with a cancellation is passed on: its owner is always a task that
\* is still going.
PermitIsNotLost ==
  \A j \in Jobs :
    holder = j => task[j] \in {"waiting", "holding", "building", "running", "leaving"}

\* The gate, the registry and the pipeline agree on what is under way: one
\* heavy job, which owns the permit until its task leaves and can be cancelled
\* as long as it is going.
GateAndRegistryAgree == HeavyWorkHoldsGate /\ UnderWayIsRegistered /\ PermitIsNotLost

\* The window is told what the archive says: completed only with the
\* artifact there and the import recorded as a success, failed only with
\* none, never both, and nothing of a run that was cancelled.
AnnouncedIsTrue ==
  \A j \in Jobs :
    /\ "completed" \in announced[j] => archive[j] # NoArtifact /\ imports[j] = "success"
    /\ "failed" \in announced[j] => archive[j] = NoArtifact /\ imports[j] # "success"
    /\ run[j].result = "cancelled" => announced[j] = {}

\* Every started job ends, and so do those behind it in the queue.
StartedJobEnds ==
  \A j \in Jobs : task[j] # "none" ~> task[j] = "done"

=============================================================================
