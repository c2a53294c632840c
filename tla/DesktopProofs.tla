---------------------------- MODULE DesktopProofs ----------------------------
(***************************************************************************)
(* What holds of the desktop's transcription jobs, for every set of jobs   *)
(* and requests, every duration and every number of enhancers; and of its  *)
(* settings, for every set of callers and services.                        *)
(***************************************************************************)
EXTENDS TranscriptionJobs, FileTranscriptionProofs, Settings

(***************************************************************************)
(* The jobs. The invariant has four parts: the pipeline's own              *)
(* (FileTranscriptionProofs), the types, what the place of a task says of  *)
(* its run, its token and the messages it sent (TaskAgrees), and what the  *)
(* gate's queue says of the tasks (QueueAgrees), without which nothing     *)
(* tells that a permit passed on has an owner who still wants it.          *)
(***************************************************************************)

TaskStates == {"none", "spawned", "waiting", "holding", "building", "running", "leaving", "done"}
Holding == {"holding", "building", "running", "leaving"}
Clients == Jobs \cup {Companion}

JobTypeOK ==
  /\ command \in [Jobs -> {"none", "inserting", "returned"}]
  /\ task \in [Jobs -> TaskStates]
  /\ registry \subseteq Jobs
  /\ announced \in [Jobs -> SUBSET {"completed", "failed"}]
  /\ imports \in [Jobs -> {"none", "success", "failure"}]
  /\ holder \in Clients \cup {Free}
  /\ waiters \in Seq(Clients)

\* A task, its run and what it told.
TaskAgrees(j) ==
  /\ task[j] \in Holding => holder = j
  /\ holder = j => task[j] \in Holding \cup {"waiting"}
  /\ run[j].at \in Working => task[j] = "running"
  /\ task[j] \notin {"running", "leaving", "done"} => run[j].at = "idle"
  /\ task[j] \notin {"leaving", "done"} => announced[j] = {} /\ imports[j] = "none"
  /\ "completed" \in announced[j] => run[j].result = "ok" /\ imports[j] = "success"
  /\ "failed" \in announced[j] =>
       run[j].at \in {"idle", "done"} /\ run[j].result \in {"none", "failed"}
       /\ imports[j] # "success"
  /\ command[j] = "none" => task[j] = "none"
  /\ command[j] = "returned" /\ task[j] # "done" => j \in registry \cup cancelled

\* Nobody is in the queue twice, nor while holding the permit, and every job
\* in it is one whose task waits.
QueueAgrees ==
  /\ \A i, k \in 1..Len(waiters) : waiters[i] = waiters[k] => i = k
  /\ \A i \in 1..Len(waiters) : waiters[i] # holder
  /\ \A i \in 1..Len(waiters) : waiters[i] \in Jobs => task[waiters[i]] = "waiting"

JobsInv ==
  /\ PipelineInv
  /\ JobTypeOK
  /\ \A j \in Jobs : TaskAgrees(j)
  /\ QueueAgrees

LEMMA FreeIsNoClient == Free \notin Clients
BY ClientsAssumption DEF Clients

-----------------------------------------------------------------------------
LEMMA JobsInitInv == Init => JobsInv
<1> SUFFICES ASSUME Init PROVE JobsInv
  OBVIOUS
<1>1. PipelineInv
  BY PipelineInitInv DEF Init
<1>2. JobTypeOK
  BY EmptySeq DEF Init, GateInit, JobTypeOK, TaskStates, Clients
<1>3. \A j \in Jobs : TaskAgrees(j)
  <2> SUFFICES ASSUME NEW j \in Jobs PROVE TaskAgrees(j)
    OBVIOUS
  <2>1. holder # j
    BY ClientsAssumption DEF Init, GateInit
  <2> QED BY <2>1 DEF Init, PipelineInit, NotStarted, TaskAgrees, Holding, Working
<1>4. QueueAgrees
  BY DEF Init, GateInit, QueueAgrees
<1> QED BY <1>1, <1>2, <1>3, <1>4 DEF JobsInv

LEMMA InvIsOrderly == JobsInv => Orderly(Clients, waiters, holder)
BY DEF JobsInv, JobTypeOK, QueueAgrees, Orderly

\* The steps of the command and of the task that leave the gate alone and do
\* not call the pipeline.
LEMMA LocalStepKeepsInv ==
  ASSUME JobsInv, NEW j \in Jobs,
         StartCommand(j) \/ Insert(j) \/ NotCancelled(j) \/ BuildFails(j) \/ Report(j)
           \/ PermitArrives(j)
  PROVE  JobsInv'
<1>1. UNCHANGED <<pipelineVars, gateVars>>
  BY DEF StartCommand, Insert, NotCancelled, BuildFails, Report, PermitArrives
<1>2. PipelineInv'
  BY <1>1 DEF JobsInv, PipelineInv, PipelineTypeOK, Agrees, pipelineVars
<1>3. JobTypeOK'
  BY DEF StartCommand, Insert, NotCancelled, BuildFails, Report, PermitArrives, gateVars,
         JobsInv, JobTypeOK, TaskStates
<1>4. ASSUME NEW i \in Jobs, i # j
      PROVE  TaskAgrees(i)'
  <2>1. /\ task'[i] = task[i] /\ command'[i] = command[i] /\ announced'[i] = announced[i]
        /\ imports'[i] = imports[i] /\ registry \subseteq registry'
    BY <1>4 DEF StartCommand, Insert, NotCancelled, BuildFails, Report, PermitArrives,
                JobsInv, JobTypeOK
  <2>2. TaskAgrees(i)
    BY DEF JobsInv
  <2> QED BY <1>1, <2>1, <2>2 DEF TaskAgrees, pipelineVars, gateVars
<1>5. TaskAgrees(j)'
  <2>1. TaskAgrees(j) /\ JobTypeOK /\ Agrees(run[j], saving[j], archive[j])
    BY DEF JobsInv, PipelineInv
  <2>2. CASE StartCommand(j)
    BY <1>1, <2>1, <2>2 DEF StartCommand, TaskAgrees, pipelineVars, gateVars, JobTypeOK, Holding
  <2>3. CASE Insert(j)
    BY <1>1, <2>1, <2>3 DEF Insert, TaskAgrees, pipelineVars, gateVars, JobTypeOK, Holding
  <2>4. CASE NotCancelled(j)
    BY <1>1, <2>1, <2>4 DEF NotCancelled, TaskAgrees, pipelineVars, gateVars, JobTypeOK, Holding
  <2>5. CASE BuildFails(j)
    BY <1>1, <2>1, <2>5 DEF BuildFails, TaskAgrees, pipelineVars, gateVars, JobTypeOK, Holding, Agrees
  <2>6. CASE Report(j)
    <3>1. /\ task[j] = "running" /\ task'[j] = "leaving" /\ announced[j] = {} /\ imports[j] = "none"
          /\ run[j].at = "done" /\ command' = command /\ registry' = registry
      BY <2>1, <2>6 DEF Report, TaskAgrees, JobTypeOK, Agrees
    <3>2. \/ /\ run[j].result = "ok" /\ imports'[j] = "success"
             /\ announced'[j] = {"completed"}
          \/ /\ run[j].result = "failed" /\ imports'[j] = "failure"
             /\ announced'[j] = {"failed"}
          \/ announced'[j] = {} /\ imports'[j] = "none"
      <4>1. CASE run[j].result = "ok"
        BY <2>1, <2>6, <3>1, <4>1 DEF Report, JobTypeOK
      <4>2. CASE run[j].result = "failed"
        BY <2>1, <2>6, <3>1, <4>2 DEF Report, JobTypeOK
      <4>3. CASE run[j].result \notin {"ok", "failed"}
        BY <2>1, <2>6, <3>1, <4>3 DEF Report, JobTypeOK
      <4> QED BY <4>1, <4>2, <4>3
    <3>3. run' = run /\ holder' = holder /\ cancelled' = cancelled
      BY <1>1 DEF pipelineVars, gateVars
    <3> QED BY <2>1, <3>1, <3>2, <3>3 DEF TaskAgrees, Holding, Working
  <2>7. CASE PermitArrives(j)
    BY <1>1, <2>1, <2>7 DEF PermitArrives, Granted, TaskAgrees, pipelineVars, gateVars, JobTypeOK,
                            Holding
  <2> QED BY <2>2, <2>3, <2>4, <2>5, <2>6, <2>7
<1>6. QueueAgrees'
  <2>1. ASSUME NEW i \in 1..Len(waiters), waiters[i] \in Jobs
        PROVE  task'[waiters[i]] = "waiting"
    <3>1. task[waiters[i]] = "waiting" /\ waiters[i] # holder
      BY <2>1 DEF JobsInv, QueueAgrees
    <3>2. CASE Insert(j)
      BY <3>1, <3>2 DEF Insert
    <3>3. CASE waiters[i] # j
      BY <2>1, <3>1, <3>3 DEF StartCommand, Insert, NotCancelled, BuildFails, Report,
                              PermitArrives, JobsInv, JobTypeOK
    <3>4. waiters[i] = j => Insert(j)
      BY <3>1 DEF StartCommand, NotCancelled, BuildFails, Report, PermitArrives, Granted,
                  JobsInv, JobTypeOK, TaskAgrees
    <3> QED BY <3>2, <3>3, <3>4
  <2> QED BY <1>1, <2>1 DEF JobsInv, QueueAgrees, gateVars
<1> QED BY <1>2, <1>3, <1>4, <1>5, <1>6 DEF JobsInv

LEMMA CancelKeepsInv ==
  ASSUME JobsInv, NEW j \in Jobs, Cancel(j)
  PROVE  JobsInv'
<1>1. PipelineInv'
  BY CallerKeepsInv DEF Cancel, JobsInv, GoodStep
<1>2. JobTypeOK'
  BY DEF Cancel, JobsInv, JobTypeOK, gateVars
<1>3. ASSUME NEW i \in Jobs
      PROVE  TaskAgrees(i)'
  <2>1. registry \cup cancelled \subseteq registry' \cup cancelled'
    BY DEF Cancel, RequestCancel
  <2>2. TaskAgrees(i)
    BY DEF JobsInv
  <2> QED BY <2>1, <2>2 DEF Cancel, RequestCancel, TaskAgrees, gateVars
<1>4. QueueAgrees'
  BY DEF Cancel, JobsInv, QueueAgrees, gateVars
<1> QED BY <1>1, <1>2, <1>3, <1>4 DEF JobsInv

\* The task calls the pipeline.
LEMMA CallKeepsInv ==
  ASSUME JobsInv, NEW j \in Jobs, CallPipeline(j)
  PROVE  JobsInv'
<1>1. PipelineInv /\ run \in [Jobs -> Run] /\ task \in [Jobs -> TaskStates]
  BY DEF JobsInv, PipelineInv, PipelineTypeOK, JobTypeOK
<1>2. PipelineInv'
  BY <1>1, CallerKeepsInv DEF CallPipeline, GoodStep
<1>3. JobTypeOK'
  BY DEF CallPipeline, JobsInv, JobTypeOK, TaskStates, gateVars
<1>4. \A i \in Jobs : i # j => run'[i] = run[i] /\ task'[i] = task[i]
  BY <1>1 DEF CallPipeline, Call, CallRefused
<1>5. /\ task[j] = "building" /\ task'[j] = "running" /\ cancelled' = cancelled
      /\ UNCHANGED <<gateVars, command, registry, announced, imports>>
  BY <1>1 DEF CallPipeline, Call, CallRefused
<1>6. ASSUME NEW i \in Jobs
      PROVE  TaskAgrees(i)'
  <2>1. TaskAgrees(i)
    BY DEF JobsInv
  <2>2. CASE i = j
    BY <1>5, <2>1, <2>2 DEF TaskAgrees, Holding, gateVars
  <2>3. CASE i # j
    BY <1>4, <1>5, <2>1, <2>3 DEF TaskAgrees, gateVars
  <2> QED BY <2>2, <2>3
<1>7. QueueAgrees'
  <2>1. ASSUME NEW i \in 1..Len(waiters), waiters[i] \in Jobs
        PROVE  task'[waiters[i]] = "waiting"
    BY <1>4, <1>5, <2>1 DEF JobsInv, QueueAgrees
  <2> QED BY <1>5, <2>1 DEF JobsInv, QueueAgrees, gateVars
<1> QED BY <1>2, <1>3, <1>6, <1>7 DEF JobsInv

\* A step of the pipeline of a job.
LEMMA RunStepKeepsInv ==
  ASSUME JobsInv, NEW j \in Jobs, RunStep(j)
  PROVE  JobsInv'
<1>1. PipelineInv /\ PipelineStep(j) /\ UNCHANGED <<gateVars, jobVars>>
  BY DEF JobsInv, RunStep
<1>2. PipelineInv'
  BY <1>1, PipelineStepKeepsInv DEF GoodStep
<1>3. cancelled' = cancelled
  BY <1>1 DEF PipelineStep, Stopped, Callback, Waits, TranscodeReturns, EngineReturns, EngineFails,
     DiarizerReturns, EnhancerReturns, EnhancerIsUnavailable, SaveBegins, Commit, SaveReturns,
     ReadersEnd
<1>4. ASSUME NEW i \in Jobs
      PROVE  TaskAgrees(i)'
  <2>1. TaskAgrees(i)
    BY DEF JobsInv
  <2>2. run[i].at \in {"idle", "done"} => run'[i].at = run[i].at /\ run'[i].result = run[i].result
    BY <1>1, IdleAndDoneStay
  <2>3. run[i] \in Run /\ Agrees(run[i], saving[i], archive[i])
    BY <1>1 DEF PipelineInv, PipelineTypeOK
  <2>4. run[i].at \notin {"idle", "done"} => run[i].at \in Working /\ run[i].result = "none"
    BY <2>3 DEF Run, Points, Working, Agrees
  <2>5. run'[i].at \in Working => run[i].at \in Working
    BY <2>2, <2>4 DEF Working
  <2> QED BY <1>1, <1>3, <2>1, <2>2, <2>4, <2>5 DEF TaskAgrees, gateVars, jobVars
<1>5. JobTypeOK' /\ QueueAgrees'
  BY <1>1 DEF JobsInv, JobTypeOK, QueueAgrees, gateVars, jobVars
<1> QED BY <1>2, <1>4, <1>5 DEF JobsInv

\* The task asks for the permit: it has it, or it is queued and says so.
LEMMA BeginsKeepsInv ==
  ASSUME JobsInv, NEW j \in Jobs, TaskBegins(j)
  PROVE  JobsInv'
<1>1. /\ PipelineInv /\ run \in [Jobs -> Run] /\ task \in [Jobs -> TaskStates]
      /\ task[j] = "spawned" /\ TaskAgrees(j)
  BY DEF TaskBegins, JobsInv, PipelineInv, PipelineTypeOK, JobTypeOK
<1>2. holder # j /\ \A i \in 1..Len(waiters) : waiters[i] # j
  BY <1>1 DEF TaskAgrees, JobsInv, QueueAgrees, Holding
<1>3. UNCHANGED <<cancelled, readers, saving, archive, command, registry, announced, imports>>
  BY DEF TaskBegins
<1>4. CASE TryAcquire(j) /\ task' = [task EXCEPT ![j] = "holding"] /\ UNCHANGED run
  <2>1. PipelineInv'
    BY <1>1, <1>3, <1>4 DEF PipelineInv, PipelineTypeOK, Agrees
  <2>2. JobTypeOK'
    BY <1>3, <1>4 DEF TryAcquire, JobsInv, JobTypeOK, TaskStates, Clients
  <2>3. ASSUME NEW i \in Jobs
        PROVE  TaskAgrees(i)'
    <3>1. TaskAgrees(i) /\ holder = Free /\ holder' = j /\ i # Free
      BY <1>4, ClientsAssumption DEF JobsInv, TryAcquire
    <3>2. task'[i] = IF i = j THEN "holding" ELSE task[i]
      BY <1>1, <1>4
    <3> QED BY <1>1, <1>3, <1>4, <3>1, <3>2 DEF TaskAgrees, Holding
  <2>4. QueueAgrees'
    <3>1. waiters' = waiters /\ holder' = j
      BY <1>4 DEF TryAcquire
    <3>2. \A i \in 1..Len(waiters) : waiters[i] \in Jobs => task'[waiters[i]] = "waiting"
      BY <1>1, <1>2, <1>4 DEF JobsInv, QueueAgrees
    <3> QED BY <1>2, <3>1, <3>2 DEF JobsInv, QueueAgrees
  <2> QED BY <2>1, <2>2, <2>3, <2>4 DEF JobsInv
<1>5. CASE Wait(j) /\ task' = [task EXCEPT ![j] = "waiting"] /\ run' = [run EXCEPT ![j].stage = "queued"]
  <2>1. ASSUME NEW i \in Jobs
        PROVE  /\ run'[i] \in Run /\ run'[i].at = run[i].at /\ run'[i].result = run[i].result
               /\ run'[i].overall = run[i].overall /\ run'[i].speakers = run[i].speakers
               /\ run'[i].optimized = run[i].optimized
    <3>1. run[i] \in Run /\ (run'[i] = run[i] \/ run'[i] = [run[i] EXCEPT !.stage = "queued"])
      BY <1>1, <1>5
    <3> QED BY <3>1 DEF Run, Stages
  <2>2. PipelineInv'
    <3>1. run' \in [Jobs -> Run]
      BY <1>1, <1>5, <2>1
    <3>2. PipelineTypeOK'
      BY <1>1, <1>3, <3>1 DEF PipelineInv, PipelineTypeOK
    <3> QED BY <1>1, <1>3, <2>1, <3>2 DEF PipelineInv, Agrees
  <2>3. Orderly(Clients, waiters, holder) /\ j \in Clients
    BY InvIsOrderly DEF Clients
  <2>4. /\ Orderly(Clients, waiters', holder') /\ holder' = holder
        /\ \A i \in 1..Len(waiters') :
             waiters'[i] = j \/ \E k \in 1..Len(waiters) : waiters'[i] = waiters[k]
    BY <1>2, <1>5, <2>3, FreeIsNoClient, WaitFacts
  <2>5. JobTypeOK'
    BY <1>3, <1>5, <2>4 DEF JobsInv, JobTypeOK, TaskStates, Orderly
  <2>6. ASSUME NEW i \in Jobs
        PROVE  TaskAgrees(i)'
    <3>1. TaskAgrees(i)
      BY DEF JobsInv
    <3>2. task'[i] = IF i = j THEN "waiting" ELSE task[i]
      BY <1>1, <1>5
    <3> QED BY <1>1, <1>2, <1>3, <2>1, <2>4, <3>1, <3>2 DEF TaskAgrees, Holding
  <2>7. \A i \in 1..Len(waiters') : waiters'[i] \in Jobs => task'[waiters'[i]] = "waiting"
    BY <1>1, <1>5, <2>4 DEF JobsInv, QueueAgrees
  <2> QED BY <2>2, <2>4, <2>5, <2>6, <2>7 DEF JobsInv, QueueAgrees, Orderly
<1> QED BY <1>4, <1>5 DEF TaskBegins

\* The steps that end a task.
LEMMA EndKeepsInv ==
  ASSUME JobsInv, NEW j \in Jobs, QueuedCancelled(j) \/ CancelledAtGate(j) \/ Leave(j)
  PROVE  JobsInv'
<1>1. /\ task' = [task EXCEPT ![j] = "done"] /\ registry' = registry \ {j}
      /\ UNCHANGED <<pipelineVars, command, announced>>
      /\ imports' = imports
  BY DEF QueuedCancelled, CancelledAtGate, Leave
<1>2. task \in [Jobs -> TaskStates] /\ j \in Clients /\ holder \in Clients \cup {Free}
  BY DEF JobsInv, JobTypeOK, Clients
<1>3. GateMoves(Clients, j)
  <2>1. CASE QueuedCancelled(j)
    BY <1>2, <2>1, InvIsOrderly, FreeIsNoClient, AbandonMovesGate DEF QueuedCancelled
  <2>2. CASE CancelledAtGate(j) \/ Leave(j)
    BY <1>2, <2>2, InvIsOrderly, FreeIsNoClient, ReleaseMovesGate DEF CancelledAtGate, Leave
  <2> QED BY <2>1, <2>2
<1>4. PipelineInv'
  BY <1>1 DEF JobsInv, PipelineInv, PipelineTypeOK, Agrees, pipelineVars
<1>5. JobTypeOK'
  BY <1>1, <1>2, <1>3 DEF JobsInv, JobTypeOK, TaskStates, GateMoves, Orderly
<1>6. task[j] \in Holding \cup {"waiting"} /\ task[j] # "running"
  BY DEF QueuedCancelled, CancelledAtGate, Leave, Holding
<1>7. TaskAgrees(j)'
  <2>1. TaskAgrees(j) /\ task'[j] = "done" /\ holder' # j
    BY <1>1, <1>2, <1>3 DEF JobsInv, GateMoves
  <2>2. run[j].at \notin Working
    BY <1>6, <2>1 DEF TaskAgrees
  <2>3. task[j] # "leaving" => announced[j] = {} /\ imports[j] = "none"
    BY <1>6, <2>1 DEF TaskAgrees, Holding
  <2>4. command[j] # "none"
    BY <1>6, <2>1 DEF TaskAgrees, Holding
  <2> QED BY <1>1, <2>1, <2>2, <2>3, <2>4 DEF TaskAgrees, Holding, pipelineVars
<1>8. ASSUME NEW i \in Jobs, i # j
      PROVE  TaskAgrees(i)'
  <2>1. TaskAgrees(i) /\ task'[i] = task[i]
    BY <1>1, <1>2, <1>8 DEF JobsInv
  <2>2. task[i] \in Holding => holder' = i
    BY <1>3, <1>8, <2>1 DEF TaskAgrees, GateMoves
  <2>3. holder' = i => task[i] \in Holding \cup {"waiting"}
    <3>1. CASE holder' = holder
      BY <2>1, <3>1 DEF TaskAgrees
    <3>2. CASE holder' # holder /\ holder' = i
      <4>1. i # Free
        BY ClientsAssumption
      <4>2. \E k \in 1..Len(waiters) : i = waiters[k]
        BY <1>3, <3>2, <4>1 DEF GateMoves
      <4> QED BY <4>2 DEF JobsInv, QueueAgrees
    <3> QED BY <3>1, <3>2
  <2>4. i \in registry' <=> i \in registry
    BY <1>1, <1>8
  <2> QED BY <1>1, <2>1, <2>2, <2>3, <2>4 DEF TaskAgrees, pipelineVars
<1>9. QueueAgrees'
  <2>1. ASSUME NEW i \in 1..Len(waiters'), waiters'[i] \in Jobs
        PROVE  task'[waiters'[i]] = "waiting"
    <3>1. PICK k \in 1..Len(waiters) : waiters'[i] = waiters[k]
      BY <1>3 DEF GateMoves, FromQueue
    <3>2. waiters'[i] # j
      BY <1>3 DEF GateMoves
    <3>3. task[waiters'[i]] = "waiting"
      BY <2>1, <3>1 DEF JobsInv, QueueAgrees
    <3> QED BY <1>1, <1>2, <2>1, <3>2, <3>3
  <2> QED BY <1>3, <2>1 DEF GateMoves, Orderly, QueueAgrees
<1> QED BY <1>4, <1>5, <1>7, <1>8, <1>9 DEF JobsInv

\* The companion server's jobs come to the gate and leave it.
LEMMA CompanionKeepsInv ==
  ASSUME JobsInv, CompanionWants \/ CompanionLeaves
  PROVE  JobsInv'
<1>1. UNCHANGED <<pipelineVars, jobVars>>
  BY DEF CompanionWants, CompanionLeaves
<1>2. Companion \in Clients /\ Companion \notin Jobs /\ holder \in Clients \cup {Free}
  BY ClientsAssumption DEF Clients, JobsInv, JobTypeOK
<1>3. /\ Orderly(Clients, waiters', holder') /\ holder' \in Clients \cup {Free}
      /\ \A i \in 1..Len(waiters') :
           waiters'[i] = Companion \/ \E k \in 1..Len(waiters) : waiters'[i] = waiters[k]
      /\ holder' # holder =>
           /\ holder \notin Jobs
           /\ holder' \in Jobs => \E k \in 1..Len(waiters) : holder' = waiters[k]
  <2>1. CASE CompanionLeaves
    <3>1. GateMoves(Clients, Companion)
      BY <1>2, <2>1, InvIsOrderly, FreeIsNoClient, ReleaseMovesGate DEF CompanionLeaves
    <3> QED BY <1>2, <3>1, ClientsAssumption DEF GateMoves, FromQueue
  <2>2. CASE CompanionWants
    <3>1. waiters \in Seq(Clients) /\ Orderly(Clients, waiters, holder)
      BY InvIsOrderly DEF JobsInv, JobTypeOK
    <3>2. holder # Companion /\ \A i \in 1..Len(waiters) : waiters[i] # Companion
      <4>1. DOMAIN waiters = 1..Len(waiters)
        BY <3>1, LenProperties
      <4> QED BY <2>2, <4>1 DEF CompanionWants, Granted, ToSet
    <3>3. CASE TryAcquire(Companion)
      BY <1>2, <3>1, <3>2, <3>3, ClientsAssumption DEF TryAcquire, Orderly
    <3>4. CASE Wait(Companion)
      BY <1>2, <3>1, <3>2, <3>4, FreeIsNoClient, WaitFacts
    <3> QED BY <2>2, <3>3, <3>4 DEF CompanionWants, Acquire
  <2> QED BY <2>1, <2>2
<1>4. PipelineInv'
  BY <1>1 DEF JobsInv, PipelineInv, PipelineTypeOK, Agrees, pipelineVars
<1>5. JobTypeOK'
  BY <1>1, <1>3 DEF JobsInv, JobTypeOK, jobVars, Orderly
<1>6. ASSUME NEW i \in Jobs
      PROVE  TaskAgrees(i)'
  <2>1. TaskAgrees(i)
    BY DEF JobsInv
  <2>2. task[i] \in Holding => holder' = i
    BY <1>3, <2>1 DEF TaskAgrees
  <2>3. holder' = i => task[i] \in Holding \cup {"waiting"}
    <3>1. CASE holder' = holder
      BY <2>1, <3>1 DEF TaskAgrees
    <3>2. CASE holder' # holder
      BY <1>3, <3>2 DEF JobsInv, QueueAgrees
    <3> QED BY <3>1, <3>2
  <2> QED BY <1>1, <2>1, <2>2, <2>3 DEF TaskAgrees, jobVars, pipelineVars
<1>7. \A i \in 1..Len(waiters') : waiters'[i] \in Jobs => task'[waiters'[i]] = "waiting"
  BY <1>1, <1>2, <1>3 DEF JobsInv, QueueAgrees, jobVars
<1> QED BY <1>3, <1>4, <1>5, <1>6, <1>7 DEF JobsInv, QueueAgrees, Orderly

-----------------------------------------------------------------------------
\* The invariant holds of every behaviour of the desktop's jobs.
THEOREM JobsInvariant == Spec => []JobsInv
<1>1. Init => JobsInv
  BY JobsInitInv
<1>2. JobsInv /\ [Next]_vars => JobsInv'
  <2>1. ASSUME JobsInv, Next
        PROVE  JobsInv'
    <3>1. ASSUME NEW j \in Jobs, StartCommand(j) \/ Insert(j) \/ Cancel(j) \/ RunStep(j)
          PROVE  JobsInv'
      BY <2>1, <3>1, LocalStepKeepsInv, CancelKeepsInv, RunStepKeepsInv
    <3>2. ASSUME NEW j \in Jobs, TaskStep(j)
          PROVE  JobsInv'
      BY <2>1, <3>2, BeginsKeepsInv, EndKeepsInv, LocalStepKeepsInv, CallKeepsInv DEF TaskStep
    <3> QED BY <2>1, <3>1, <3>2, CompanionKeepsInv DEF Next
  <2>2. ASSUME JobsInv, UNCHANGED vars
        PROVE  JobsInv'
    <3>1. PipelineInv'
      BY <2>2 DEF JobsInv, PipelineInv, PipelineTypeOK, Agrees, vars, pipelineVars
    <3>2. JobTypeOK' /\ QueueAgrees' /\ \A j \in Jobs : TaskAgrees(j)'
      BY <2>2 DEF JobsInv, JobTypeOK, QueueAgrees, TaskAgrees, vars, pipelineVars, gateVars, jobVars
    <3> QED BY <3>1, <3>2 DEF JobsInv
  <2> QED BY <2>1, <2>2
<1> QED BY <1>1, <1>2, PTL DEF Spec

\* Whoever is in the pipeline holds the one permit ("Serialize heavy work" in
\* the spawned task): two jobs are never in it at once.
THEOREM HeavyWorkIsSerial == Spec => []HeavyWorkHoldsGate
<1>1. JobsInv => HeavyWorkHoldsGate
  BY DEF JobsInv, TaskAgrees, HeavyWorkHoldsGate, Holding
<1> QED BY <1>1, JobsInvariant, PTL

\* The permit never belongs to a task that is over: no early return of the
\* task and no cancellation in the queue loses it.
THEOREM PermitHasOwner == Spec => []PermitIsNotLost
<1>1. JobsInv => PermitIsNotLost
  BY DEF JobsInv, TaskAgrees, PermitIsNotLost, Holding
<1> QED BY <1>1, JobsInvariant, PTL

\* A job under way that was not cancelled can be: its token is registered.
THEOREM JobsAreRegistered == Spec => []UnderWayIsRegistered
<1>1. JobsInv => UnderWayIsRegistered
  BY DEF JobsInv, TaskAgrees, UnderWayIsRegistered
<1> QED BY <1>1, JobsInvariant, PTL

\* The three together, as the run checks them: gate, registry and pipeline
\* agree on what is under way.
THEOREM GateAgreesWithRegistry == Spec => []GateAndRegistryAgree
BY HeavyWorkIsSerial, PermitHasOwner, JobsAreRegistered, PTL DEF GateAndRegistryAgree

\* What the window is told (completed, failed, or nothing after a
\* cancellation) is what the archive and the import's record say.
THEOREM WindowIsToldTheTruth == Spec => []AnnouncedIsTrue
<1>1. JobsInv => AnnouncedIsTrue
  <2> SUFFICES ASSUME JobsInv, NEW j \in Jobs
               PROVE  /\ "completed" \in announced[j] => archive[j] # NoArtifact /\ imports[j] = "success"
                      /\ "failed" \in announced[j] => archive[j] = NoArtifact /\ imports[j] # "success"
                      /\ run[j].result = "cancelled" => announced[j] = {}
    BY DEF AnnouncedIsTrue
  <2>1. /\ TaskAgrees(j) /\ announced[j] \in SUBSET {"completed", "failed"}
        /\ run[j] \in Run /\ Agrees(run[j], saving[j], archive[j])
    BY DEF JobsInv, JobTypeOK, PipelineInv, PipelineTypeOK
  <2>2. run[j].result = "ok" => archive[j] # NoArtifact
    <3>1. [speakers |-> run[j].speakers, optimized |-> run[j].optimized].speakers # NoArtifact.speakers
      BY <2>1 DEF Run, NoArtifact
    <3> QED BY <2>1, <3>1 DEF Agrees
  <2>3. run[j].at \in {"idle", "done"} /\ run[j].result \in {"none", "failed"} => archive[j] = NoArtifact
    BY <2>1 DEF Agrees
  <2> QED BY <2>1, <2>2, <2>3 DEF TaskAgrees
<1> QED BY <1>1, JobsInvariant, PTL

(***************************************************************************)
(* The settings. First what the functions on the record do with the keys:  *)
(* each keeps the key of every account it is not meant to change           *)
(* (Carries), and what it makes of the record is one again.                *)
(***************************************************************************)
\* A list of services is a function on some of them.
LEMMA ServiceListFits ==
  ASSUME NEW f \in ServiceLists
  PROVE  /\ DOMAIN f \subseteq Services
         /\ f = [i \in DOMAIN f |-> f[i]]
         /\ \A i \in DOMAIN f : f[i] \in Entries
BY DEF ServiceLists

\* The parts of a settings record are of their types.
LEMMA SettingsParts ==
  ASSUME NEW s \in SettingsRecord
  PROVE  /\ s.flat \in FlatRecord /\ s.ai \in AiRecord
         /\ s.flat.key \in Texts \cup {Absent} /\ s.flat.present \in BOOLEAN
         /\ s.flat.transcription \in Texts /\ s.transcription \in Texts
         /\ s.ai.gem \in Entries /\ s.ai.services \in ServiceLists
         /\ s.ai.provider \in Texts /\ s.ai.active \in Services \cup {Absent}
         /\ s.prompts.custom \in BOOLEAN /\ s.prompts.bound \in Texts
         /\ s.sections \in BOOLEAN
BY DEF SettingsRecord, FlatRecord, AiRecord

\* Refreshing an entry notes that it has a key, and changes no key.
LEMMA EntryRefreshed ==
  ASSUME NEW e \in Entries
  PROVE  /\ Refreshed(e) \in Entries /\ Refreshed(e).key = e.key
         /\ (Refreshed(e).has <=> e.has \/ e.key # Absent)
BY DEF Entries, Refreshed

\* refresh_secret_presence_flags, part by part.
LEMMA RefreshFacts ==
  ASSUME NEW s \in SettingsRecord
  PROVE  /\ Refresh(s) \in SettingsRecord
         /\ Refresh(s).ai.gem = Refreshed(s.ai.gem)
         /\ Refresh(s).flat.key = s.flat.key
         /\ Refresh(s).flat.present <=> s.flat.present \/ Refreshed(s.ai.gem).has
         /\ DOMAIN Refresh(s).ai.services = DOMAIN s.ai.services
         /\ \A i \in DOMAIN s.ai.services : Refresh(s).ai.services[i] = Refreshed(s.ai.services[i])
<1>. DEFINE gem == Refreshed(s.ai.gem)
            sv == [i \in DOMAIN s.ai.services |-> Refreshed(s.ai.services[i])]
<1>1. gem \in Entries /\ sv \in ServiceLists
  <2>1. s.ai.gem \in Entries /\ s.ai.services \in ServiceLists
    BY SettingsParts
  <2>2. gem \in Entries
    BY <2>1, EntryRefreshed
  <2>3. \A i \in DOMAIN s.ai.services : Refreshed(s.ai.services[i]) \in Entries
    BY <2>1, ServiceListFits, EntryRefreshed
  <2>4. DOMAIN s.ai.services \in SUBSET Services
    BY <2>1, ServiceListFits
  <2>5. sv \in ServiceLists
    BY <2>3, <2>4 DEF ServiceLists
  <2>. QED
    BY <2>2, <2>5
<1>2. Refresh(s) = [s EXCEPT !.ai.gem = gem, !.flat.present = s.flat.present \/ gem.has, !.ai.services = sv]
  BY DEF Refresh
<1>. HIDE DEF gem, sv
<1>3. gem.has \in BOOLEAN
  BY <1>1 DEF Entries
<1>7. s.ai \in AiRecord /\ s.flat \in FlatRecord
  BY DEF SettingsRecord
<1>8. Refresh(s).ai = [s.ai EXCEPT !.gem = gem, !.services = sv]
  BY <1>2 DEF SettingsRecord
<1>9. Refresh(s).flat = [s.flat EXCEPT !.present = s.flat.present \/ gem.has]
  BY <1>2 DEF SettingsRecord
<1>5. Refresh(s).ai \in AiRecord /\ Refresh(s).ai.gem = gem /\ Refresh(s).ai.services = sv
  BY <1>7, <1>8, <1>1 DEF AiRecord
<1>6. Refresh(s).flat \in FlatRecord /\ Refresh(s).flat.key = s.flat.key
  BY <1>9, <1>7, <1>3 DEF FlatRecord
<1>11. Refresh(s).flat.present <=> s.flat.present \/ gem.has
  BY <1>9, <1>7 DEF FlatRecord
<1>12. Refresh(s) = [s EXCEPT !.ai = Refresh(s).ai, !.flat = Refresh(s).flat]
  BY <1>2 DEF SettingsRecord
<1>4. Refresh(s) \in SettingsRecord
  BY <1>12, <1>5, <1>6 DEF SettingsRecord
<1>. QED
  BY <1>4, <1>5, <1>6, <1>11 DEF gem, sv

\* An entry that is of a key r, or of its redaction.
Of(key, has, r) == (has <=> r # Absent) /\ key \in {Absent, r}

Carries(s, a, r) ==
  IF a = "gemini"
  THEN Of(s.ai.gem.key, s.ai.gem.has, r) /\ Of(s.flat.key, s.flat.present, r)
  ELSE a \in DOMAIN s.ai.services => Of(s.ai.services[a].key, s.ai.services[a].has, r)

\* The same settings as far as keys go.
SameServices(s, t) == DOMAIN s.ai.services = DOMAIN t.ai.services
KeepsKeys(s, t) ==
  /\ SameServices(s, t)
  /\ \A a \in Accounts, r \in Texts \cup {Absent} : Carries(s, a, r) => Carries(t, a, r)

\* An entry of key r stays one when it is refreshed or redacted.
LEMMA EntryKeeps ==
  ASSUME NEW e \in Entries, NEW r, Of(e.key, e.has, r)
  PROVE  /\ Of(Refreshed(e).key, Refreshed(e).has, r)
         /\ [e EXCEPT !.key = Absent] \in Entries
         /\ [e EXCEPT !.key = Absent].key = Absent
         /\ Of(Absent, [e EXCEPT !.key = Absent].has, r)
BY EntryRefreshed DEF Of, Entries

\* Refreshing keeps every key.
LEMMA RefreshKeeps ==
  ASSUME NEW s \in SettingsRecord
  PROVE  Refresh(s) \in SettingsRecord /\ KeepsKeys(s, Refresh(s))
<1>. DEFINE t == Refresh(s)
<1>1. s.ai.gem \in Entries /\ s.ai.services \in ServiceLists
  BY SettingsParts
<1>2. \A i \in DOMAIN s.ai.services : s.ai.services[i] \in Entries
  BY <1>1, ServiceListFits
<1>. SUFFICES ASSUME NEW a \in Accounts, NEW r \in Texts \cup {Absent}, Carries(s, a, r)
             PROVE  Carries(t, a, r)
  BY RefreshFacts DEF KeepsKeys, SameServices
<1>. HIDE DEF t
<1>3. CASE a = "gemini"
  <2>1. Of(s.ai.gem.key, s.ai.gem.has, r) /\ Of(s.flat.key, s.flat.present, r)
    BY <1>3 DEF Carries
  <2>2. Of(t.ai.gem.key, t.ai.gem.has, r)
    BY <1>1, <2>1, RefreshFacts, EntryKeeps DEF t
  <2>3. t.flat.key = s.flat.key /\ (t.flat.present <=> s.flat.present \/ Refreshed(s.ai.gem).has)
    BY RefreshFacts DEF t
  <2>4. Refreshed(s.ai.gem).has <=> r # Absent
    BY <1>1, <2>1, EntryKeeps DEF Of
  <2>5. Of(t.flat.key, t.flat.present, r)
    BY <2>1, <2>3, <2>4 DEF Of
  <2>. QED
    BY <1>3, <2>2, <2>5 DEF Carries
<1>4. CASE a # "gemini"
  <2>1. DOMAIN t.ai.services = DOMAIN s.ai.services
    BY RefreshFacts DEF t
  <2>2. ASSUME a \in DOMAIN s.ai.services PROVE Of(t.ai.services[a].key, t.ai.services[a].has, r)
    <3>1. t.ai.services[a] = Refreshed(s.ai.services[a])
      BY <2>2, RefreshFacts DEF t
    <3>2. Of(s.ai.services[a].key, s.ai.services[a].has, r)
      BY <1>4, <2>2 DEF Carries
    <3>. QED
      BY <1>2, <2>2, <3>1, <3>2, EntryKeeps
  <2>. QED
    BY <1>4, <2>1, <2>2 DEF Carries
<1>. QED
  BY <1>3, <1>4 DEF t

\* redacted_clone, part by part.
LEMMA RedactedFacts ==
  ASSUME NEW s \in SettingsRecord
  PROVE  LET t == Redacted(s)  u == Refresh(s) IN
         /\ t \in SettingsRecord
         /\ t.ai.gem = [u.ai.gem EXCEPT !.key = Absent]
         /\ t.flat.key = Absent /\ t.flat.present = u.flat.present
         /\ DOMAIN t.ai.services = DOMAIN u.ai.services
         /\ \A i \in DOMAIN u.ai.services :
              t.ai.services[i] = [u.ai.services[i] EXCEPT !.key = Absent]
         /\ t.sections = s.sections
<1>. DEFINE u == Refresh(s)
            t == Redacted(s)
            sv == [i \in DOMAIN u.ai.services |-> [u.ai.services[i] EXCEPT !.key = Absent]]
<1>1. u \in SettingsRecord
  BY RefreshKeeps
<1>2. t = [u EXCEPT !.flat.key = Absent, !.ai.gem.key = Absent, !.ai.services = sv]
  BY DEF Redacted
<1>20. u.sections = s.sections
  BY DEF Refresh, SettingsRecord
<1>. HIDE DEF u, t
<1>3. u.ai \in AiRecord /\ u.flat \in FlatRecord
  BY <1>1, SettingsParts
<1>4. sv \in ServiceLists
  <2>1. u.ai.services \in ServiceLists
    BY <1>1, SettingsParts
  <2>2. DOMAIN u.ai.services \in SUBSET Services /\ \A i \in DOMAIN u.ai.services : u.ai.services[i] \in Entries
    BY <2>1, ServiceListFits
  <2>3. \A i \in DOMAIN u.ai.services : [u.ai.services[i] EXCEPT !.key = Absent] \in Entries
    BY <2>2 DEF Entries
  <2>. QED
    BY <2>2, <2>3 DEF ServiceLists
<1>. DEFINE gem == [u.ai.gem EXCEPT !.key = Absent]
<1>5. gem \in Entries
  BY <1>3 DEF AiRecord, Entries
<1>. HIDE DEF sv
<1>6. t.ai = [u.ai EXCEPT !.gem = gem, !.services = sv]
  BY <1>1, <1>2, <1>3 DEF SettingsRecord, AiRecord
<1>7. t.flat = [u.flat EXCEPT !.key = Absent]
  BY <1>1, <1>2 DEF SettingsRecord
<1>. HIDE DEF gem
<1>8. t.ai \in AiRecord /\ t.ai.gem = gem /\ t.ai.services = sv
  BY <1>3, <1>4, <1>5, <1>6 DEF AiRecord
<1>9. t.flat \in FlatRecord /\ t.flat.key = Absent /\ t.flat.present = u.flat.present
  BY <1>3, <1>7 DEF FlatRecord
<1>10. t = [u EXCEPT !.ai = t.ai, !.flat = t.flat]
  BY <1>1, <1>2 DEF SettingsRecord
<1>11. t \in SettingsRecord /\ t.sections = u.sections
  BY <1>1, <1>8, <1>9, <1>10 DEF SettingsRecord
<1>. QED
  BY <1>8, <1>9, <1>11, <1>20 DEF sv, gem, u, t

\* A redacted copy still tells which keys there are, and has none of them.
LEMMA RedactedKeeps ==
  ASSUME NEW s \in SettingsRecord
  PROVE  /\ Redacted(s) \in SettingsRecord /\ KeepsKeys(s, Redacted(s))
         /\ \A a \in Accounts : Plaintext(Redacted(s), a) = Absent
<1>. DEFINE u == Refresh(s)
            t == Redacted(s)
<1>1. u \in SettingsRecord /\ KeepsKeys(s, u)
  BY RefreshKeeps
<1>2. u.ai.gem \in Entries /\ u.ai.services \in ServiceLists
  BY <1>1, SettingsParts
<1>3. /\ t \in SettingsRecord
      /\ t.ai.gem = [u.ai.gem EXCEPT !.key = Absent]
      /\ t.flat.key = Absent /\ t.flat.present = u.flat.present
      /\ DOMAIN t.ai.services = DOMAIN u.ai.services
      /\ \A i \in DOMAIN u.ai.services :
           t.ai.services[i] = [u.ai.services[i] EXCEPT !.key = Absent]
  BY RedactedFacts
<1>. HIDE DEF u, t
<1>4. t.ai.gem.key = Absent
  BY <1>2, <1>3 DEF Entries
<1>5. \A i \in DOMAIN u.ai.services : u.ai.services[i] \in Entries
  BY <1>2, ServiceListFits
<1>6. \A i \in DOMAIN t.ai.services : t.ai.services[i].key = Absent
  <2>. SUFFICES ASSUME NEW i \in DOMAIN u.ai.services PROVE t.ai.services[i].key = Absent
    BY <1>3
  <2>1. u.ai.services[i] \in Entries /\ t.ai.services[i] = [u.ai.services[i] EXCEPT !.key = Absent]
    BY <1>3, <1>5
  <2>. QED
    BY <2>1 DEF Entries
<1>7. \A a \in Accounts : Plaintext(t, a) = Absent
  BY <1>3, <1>4, <1>6 DEF Plaintext, Accounts
<1>8. ASSUME NEW a \in Accounts, NEW r \in Texts \cup {Absent}, Carries(u, a, r)
      PROVE  Carries(t, a, r)
  <2>1. CASE a = "gemini"
    <3>1. Of(u.ai.gem.key, u.ai.gem.has, r) /\ Of(u.flat.key, u.flat.present, r)
      BY <2>1, <1>8 DEF Carries
    <3>2. Of(t.ai.gem.key, t.ai.gem.has, r)
      BY <3>1, <1>2, <1>3, <1>4, EntryKeeps
    <3>3. Of(t.flat.key, t.flat.present, r)
      BY <3>1, <1>3 DEF Of
    <3>. QED
      BY <2>1, <3>2, <3>3 DEF Carries
  <2>2. CASE a # "gemini"
    <3>1. ASSUME a \in DOMAIN t.ai.services
          PROVE  Of(t.ai.services[a].key, t.ai.services[a].has, r)
      <4>1. Of(u.ai.services[a].key, u.ai.services[a].has, r)
        BY <2>2, <3>1, <1>3, <1>8 DEF Carries
      <4>. QED
        BY <3>1, <4>1, <1>3, <1>5, <1>6, EntryKeeps
    <3>. QED
      BY <2>2, <3>1 DEF Carries
  <2>. QED
    BY <2>1, <2>2
<1>9. KeepsKeys(s, t)
  BY <1>1, <1>3, <1>8 DEF KeepsKeys, SameServices
<1>. QED
  BY <1>3, <1>7, <1>9 DEF t

\* The active service is one that is there.
LEMMA ActiveIsThere ==
  ASSUME NEW ai \in AiRecord
  PROVE  ActiveOf(ai) \in Services \cup {Absent}
<1>1. ai.services \in ServiceLists
  BY DEF AiRecord
<1>2. DOMAIN ai.services \subseteq Services
  BY <1>1, ServiceListFits
<1>. QED
  BY <1>2 DEF ActiveOf

\* Putting the built-in templates back gives prompts again.
LEMMA PromptsAreIntact ==
  ASSUME NEW p \in [custom : BOOLEAN, bound : Texts]
  PROVE  PromptsIntact(p) \in [custom : BOOLEAN, bound : Texts]
<1>1. (IF p.custom THEN p.bound ELSE "builtin") \in Texts
  BY TextsAssumption
<1>. QED
  BY <1>1 DEF PromptsIntact

\* sync_legacy_from_sections: the key of Gemini comes from its section.
LEMMA SyncLegacyKeeps ==
  ASSUME NEW s \in SettingsRecord
  PROVE  LET t == SyncLegacyFromSections(s) IN
         /\ t \in SettingsRecord
         /\ SameServices(s, t) 
         /\ t.sections = s.sections
         /\ \A a \in Accounts, r \in Texts \cup {Absent} :
              (IF a = "gemini" THEN Of(s.ai.gem.key, s.ai.gem.has, r) ELSE Carries(s, a, r))
                => Carries(t, a, r)
         /\ \A a \in Accounts : a # "gemini" => Plaintext(t, a) = Plaintext(s, a)
         /\ Plaintext(t, "gemini") = s.ai.gem.key
<1>. DEFINE flat == [transcription |-> s.transcription, key |-> s.ai.gem.key,
                     present |-> s.ai.gem.has \/ s.ai.gem.key # Absent]
            ai == [s.ai EXCEPT !.active = ActiveOf(s.ai)]
            pr == PromptsIntact(s.prompts)
            m == [s EXCEPT !.flat = flat, !.ai = ai, !.prompts = pr]
            t == SyncLegacyFromSections(s)
<1>1. t = Refresh(m)
  BY DEF SyncLegacyFromSections
<1>2. s.ai \in AiRecord /\ s.ai.gem \in Entries /\ s.transcription \in Texts
      /\ s.prompts \in [custom : BOOLEAN, bound : Texts]
  BY SettingsParts DEF SettingsRecord
<1>3. flat \in FlatRecord
  BY <1>2 DEF FlatRecord, Entries
<1>4. ai \in AiRecord /\ ai.gem = s.ai.gem /\ ai.services = s.ai.services
  BY <1>2, ActiveIsThere DEF AiRecord
<1>5. pr \in [custom : BOOLEAN, bound : Texts]
  BY <1>2, PromptsAreIntact
<1>6. flat.key = s.ai.gem.key /\ (flat.present <=> s.ai.gem.has \/ s.ai.gem.key # Absent)
  OBVIOUS
<1>. HIDE DEF flat, ai, pr
<1>7. m \in SettingsRecord /\ m.flat = flat /\ m.ai = ai /\ m.sections = s.sections
  BY <1>3, <1>4, <1>5 DEF SettingsRecord
<1>. HIDE DEF m, t
<1>8. t \in SettingsRecord /\ KeepsKeys(m, t)
  BY <1>1, <1>7, RefreshKeeps
<1>9. SameServices(s, t)
  BY <1>4, <1>7, <1>8 DEF KeepsKeys, SameServices
<1>10. t.sections = s.sections
  BY <1>1, <1>7 DEF Refresh, SettingsRecord
<1>11. ASSUME NEW a \in Accounts, NEW r \in Texts \cup {Absent},
              IF a = "gemini" THEN Of(s.ai.gem.key, s.ai.gem.has, r) ELSE Carries(s, a, r)
       PROVE  Carries(m, a, r)
  <2>1. CASE a = "gemini"
    <3>1. Of(flat.key, flat.present, r)
      BY <2>1, <1>6, <1>11 DEF Of
    <3>. QED
      BY <2>1, <3>1, <1>4, <1>7, <1>11 DEF Carries
  <2>2. CASE a # "gemini"
    BY <2>2, <1>4, <1>7, <1>11 DEF Carries
  <2>. QED
    BY <2>1, <2>2
<1>12. ASSUME NEW a \in Accounts PROVE Plaintext(t, a) = Plaintext(m, a)
  <2>1. t.ai.gem.key = m.ai.gem.key /\ t.flat.key = m.flat.key
    BY <1>1, <1>7, RefreshFacts, EntryRefreshed, SettingsParts
  <2>2. DOMAIN t.ai.services = DOMAIN m.ai.services
    BY <1>1, <1>7, RefreshFacts
  <2>3. \A i \in DOMAIN m.ai.services : t.ai.services[i].key = m.ai.services[i].key
    BY <1>1, <1>7, RefreshFacts, EntryRefreshed, SettingsParts, ServiceListFits
  <2>. QED
    BY <2>1, <2>2, <2>3 DEF Plaintext
<1>13. \A a \in Accounts : a # "gemini" => Plaintext(m, a) = Plaintext(s, a)
  BY <1>4, <1>7 DEF Plaintext
<1>14. Plaintext(m, "gemini") = s.ai.gem.key
  BY <1>4, <1>6, <1>7 DEF Plaintext
<1>15. "gemini" \in Accounts
  BY DEF Accounts
<1>. QED
  BY <1>8, <1>9, <1>10, <1>11, <1>12, <1>13, <1>14, <1>15 DEF KeepsKeys, t

\* sync_sections_from_legacy: the key of Gemini comes from the flat field.
LEMMA SyncSectionsKeeps ==
  ASSUME NEW s \in SettingsRecord
  PROVE  LET t == SyncSectionsFromLegacy(s) IN
         /\ t \in SettingsRecord
         /\ SameServices(s, t)
         /\ \A a \in Accounts, r \in Texts \cup {Absent} :
              (IF a = "gemini" THEN Of(s.flat.key, s.flat.present, r) ELSE Carries(s, a, r))
                => Carries(t, a, r)
         /\ \A a \in Accounts : a # "gemini" => Plaintext(t, a) = Plaintext(s, a)
         /\ Plaintext(t, "gemini") = s.flat.key
<1>. DEFINE provider == IF s.ai.provider = "none" /\ s.flat.key # Absent
                        THEN "gemini" ELSE s.ai.provider
            gem == [key |-> s.flat.key, has |-> s.flat.present \/ s.flat.key # Absent]
            ai0 == [s.ai EXCEPT !.gem = gem, !.provider = provider]
            ai == [ai0 EXCEPT !.active = ActiveOf(ai0)]
            pr == PromptsIntact(s.prompts)
            m == [s EXCEPT !.transcription = s.flat.transcription, !.ai = ai, !.prompts = pr]
            t == SyncSectionsFromLegacy(s)
<1>1. t = Refresh(m)
  BY DEF SyncSectionsFromLegacy
<1>2. s.ai \in AiRecord /\ s.flat \in FlatRecord /\ s.flat.transcription \in Texts
      /\ s.prompts \in [custom : BOOLEAN, bound : Texts]
  BY SettingsParts DEF SettingsRecord
<1>3. gem \in Entries /\ gem.key = s.flat.key
      /\ (gem.has <=> s.flat.present \/ s.flat.key # Absent)
  BY <1>2 DEF FlatRecord, Entries
<1>4. provider \in Texts
  BY <1>2, TextsAssumption DEF AiRecord
<1>. HIDE DEF gem, provider
<1>5. ai0 \in AiRecord /\ ai0.gem = gem /\ ai0.services = s.ai.services
  BY <1>2, <1>3, <1>4 DEF AiRecord
<1>. HIDE DEF ai0
<1>6. ai \in AiRecord /\ ai.gem = gem /\ ai.services = s.ai.services
  BY <1>5, ActiveIsThere DEF AiRecord
<1>7. pr \in [custom : BOOLEAN, bound : Texts]
  BY <1>2, PromptsAreIntact
<1>. HIDE DEF ai, pr
<1>8. m \in SettingsRecord /\ m.flat = s.flat /\ m.ai = ai
  BY <1>2, <1>6, <1>7 DEF SettingsRecord
<1>. HIDE DEF m, t
<1>9. t \in SettingsRecord /\ KeepsKeys(m, t)
  BY <1>1, <1>8, RefreshKeeps
<1>10. SameServices(s, t)
  BY <1>6, <1>8, <1>9 DEF KeepsKeys, SameServices
<1>11. ASSUME NEW a \in Accounts, NEW r \in Texts \cup {Absent},
              IF a = "gemini" THEN Of(s.flat.key, s.flat.present, r) ELSE Carries(s, a, r)
       PROVE  Carries(m, a, r)
  <2>1. CASE a = "gemini"
    <3>1. Of(gem.key, gem.has, r)
      BY <2>1, <1>3, <1>11 DEF Of
    <3>. QED
      BY <2>1, <3>1, <1>6, <1>8, <1>11 DEF Carries
  <2>2. CASE a # "gemini"
    BY <2>2, <1>6, <1>8, <1>11 DEF Carries
  <2>. QED
    BY <2>1, <2>2
<1>12. ASSUME NEW a \in Accounts PROVE Plaintext(t, a) = Plaintext(m, a)
  <2>1. t.ai.gem.key = m.ai.gem.key /\ t.flat.key = m.flat.key
    BY <1>1, <1>8, RefreshFacts, EntryRefreshed, SettingsParts
  <2>2. DOMAIN t.ai.services = DOMAIN m.ai.services
    BY <1>1, <1>8, RefreshFacts
  <2>3. \A i \in DOMAIN m.ai.services : t.ai.services[i].key = m.ai.services[i].key
    BY <1>1, <1>8, RefreshFacts, EntryRefreshed, SettingsParts, ServiceListFits
  <2>. QED
    BY <2>1, <2>2, <2>3 DEF Plaintext
<1>13. \A a \in Accounts : a # "gemini" => Plaintext(m, a) = Plaintext(s, a)
  BY <1>6, <1>8 DEF Plaintext
<1>14. Plaintext(m, "gemini") = s.flat.key
  BY <1>3, <1>6, <1>8 DEF Plaintext
<1>15. "gemini" \in Accounts
  BY DEF Accounts
<1>. QED
  BY <1>9, <1>10, <1>11, <1>12, <1>13, <1>14, <1>15 DEF KeepsKeys, t

\* The flat key and the key in the section of f are not two different keys.
FlatFits(f) ==
  IF f.sections THEN f.flat.key \in {Absent, f.ai.gem.key}
  ELSE f.ai.gem.key \in {Absent, f.flat.key}

\* What a load makes of a file has the keys the file has.
LEMMA ParsedFits ==
  ASSUME NEW f \in SettingsRecord, FlatFits(f)
  PROVE  LET s == [Parsed(f) EXCEPT !.model = "v3"] IN
         /\ s \in SettingsRecord /\ SameServices(f, s)
         /\ AccountsOf(Parsed(f)) = AccountsOf(s)
         /\ \A a \in Accounts : Plaintext(s, a) = Plaintext(f, a)
<1>. DEFINE p == Parsed(f)
            s == [p EXCEPT !.model = "v3"]
<1>1. /\ p \in SettingsRecord /\ SameServices(f, p)
      /\ \A a \in Accounts : Plaintext(p, a) = Plaintext(f, a)
  <2>1. CASE f.sections
    <3>1. p = SyncLegacyFromSections(f)
      BY <2>1 DEF Parsed
    <3>2. f.ai.gem.key = Plaintext(f, "gemini")
      BY <2>1 DEF FlatFits, Plaintext
    <3>. QED
      BY <3>1, <3>2, SyncLegacyKeeps
  <2>2. CASE ~f.sections
    <3>. DEFINE u == SyncSectionsFromLegacy(f)
    <3>1. p = [u EXCEPT !.sections = TRUE]
      BY <2>2 DEF Parsed
    <3>2. f.flat.key = Plaintext(f, "gemini")
      BY <2>2 DEF FlatFits, Plaintext
    <3>3. /\ u \in SettingsRecord /\ SameServices(f, u)
          /\ \A a \in Accounts : Plaintext(u, a) = Plaintext(f, a)
      BY <3>2, SyncSectionsKeeps
    <3>. HIDE DEF u
    <3>4. p \in SettingsRecord /\ p.ai = u.ai /\ p.flat = u.flat
      BY <3>1, <3>3 DEF SettingsRecord
    <3>. QED
      BY <3>3, <3>4 DEF Plaintext, SameServices
  <2>. QED
    BY <2>1, <2>2
<1>. HIDE DEF p
<1>2. s \in SettingsRecord /\ s.ai = p.ai /\ s.flat = p.flat
  BY <1>1, TextsAssumption DEF SettingsRecord
<1>. QED
  BY <1>1, <1>2 DEF Plaintext, SameServices, AccountsOf, p

\* Setting the key of one account changes that of no other.
LEMMA SetKeyFits ==
  ASSUME NEW s \in SettingsRecord, NEW a \in AccountsOf(s), NEW k \in Texts \cup {Absent}
  PROVE  LET t == SetKey(s, a, k) IN
         /\ t \in SettingsRecord /\ SameServices(s, t) /\ Carries(t, a, k)
         /\ \A b \in Accounts : b # a =>
              /\ Plaintext(t, b) = Plaintext(s, b)
              /\ \A r \in Texts \cup {Absent} : Carries(s, b, r) => Carries(t, b, r)
<1>. DEFINE e == [key |-> k, has |-> k # Absent]
            t == SetKey(s, a, k)
<1>1. e \in Entries /\ e.key = k /\ (e.has <=> k # Absent)
  BY DEF Entries
<1>2. s.ai \in AiRecord /\ s.flat \in FlatRecord
  BY SettingsParts
<1>3. CASE a = "gemini"
  <2>. DEFINE ai == [s.ai EXCEPT !.gem = e]
              flat == [s.flat EXCEPT !.key = k, !.present = k # Absent]
  <2>. HIDE DEF e
  <2>1. t = [s EXCEPT !.ai = ai, !.flat = flat]
    BY <1>3 DEF SetKey, SettingsRecord, e
  <2>2. ai \in AiRecord /\ ai.gem = e /\ ai.services = s.ai.services
    BY <1>1, <1>2 DEF AiRecord
  <2>3. flat \in FlatRecord /\ flat.key = k /\ (flat.present <=> k # Absent)
    BY <1>2 DEF FlatRecord
  <2>. HIDE DEF ai, flat, t
  <2>4. t \in SettingsRecord /\ t.ai = ai /\ t.flat = flat
    BY <2>1, <2>2, <2>3 DEF SettingsRecord
  <2>5. SameServices(s, t)
    BY <2>2, <2>4 DEF SameServices
  <2>6. Carries(t, a, k)
    BY <1>1, <1>3, <2>2, <2>3, <2>4 DEF Carries, Of
  <2>7. \A b \in Accounts : b # a => Plaintext(t, b) = Plaintext(s, b)
    BY <1>3, <2>2, <2>4 DEF Plaintext
  <2>8. \A b \in Accounts, r \in Texts \cup {Absent} : b # a /\ Carries(s, b, r) => Carries(t, b, r)
    BY <1>3, <2>2, <2>4 DEF Carries
  <2>. QED
    BY <2>4, <2>5, <2>6, <2>7, <2>8 DEF t
<1>4. CASE a # "gemini"
  <2>. DEFINE sv == [s.ai.services EXCEPT ![a] = e]
              ai == [s.ai EXCEPT !.services = sv]
  <2>1. s.ai.services \in ServiceLists /\ a \in DOMAIN s.ai.services
    BY <1>2, <1>4 DEF AiRecord, AccountsOf
  <2>. HIDE DEF e
  <2>2. t = [s EXCEPT !.ai = ai]
    BY <1>4 DEF SetKey, SettingsRecord, e
  <2>3. DOMAIN sv = DOMAIN s.ai.services /\ sv[a] = e
        /\ \A b \in DOMAIN s.ai.services : b # a => sv[b] = s.ai.services[b]
    BY <2>1
  <2>4. sv \in ServiceLists
    BY <1>1, <2>1 DEF ServiceLists
  <2>. HIDE DEF sv
  <2>5. ai \in AiRecord /\ ai.gem = s.ai.gem /\ ai.services = sv
    BY <1>2, <2>4 DEF AiRecord
  <2>. HIDE DEF ai, t
  <2>6. t \in SettingsRecord /\ t.ai = ai /\ t.flat = s.flat
    BY <2>2, <2>5 DEF SettingsRecord
  <2>7. SameServices(s, t)
    BY <2>3, <2>5, <2>6 DEF SameServices
  <2>8. Carries(t, a, k)
    BY <1>1, <1>4, <2>3, <2>5, <2>6 DEF Carries, Of
  <2>9. \A b \in Accounts : b # a => Plaintext(t, b) = Plaintext(s, b)
    BY <2>3, <2>5, <2>6 DEF Plaintext
  <2>10. \A b \in Accounts, r \in Texts \cup {Absent} : b # a /\ Carries(s, b, r) => Carries(t, b, r)
    BY <2>3, <2>5, <2>6 DEF Carries
  <2>. QED
    BY <2>6, <2>7, <2>8, <2>9, <2>10 DEF t
<1>. QED
  BY <1>3, <1>4

KeysOK == keys \in [Accounts -> Texts \cup {Absent}]

\* A redacted entry takes back the very key it is the redaction of.
LEMMA MergedKeeps ==
  ASSUME KeysOK, NEW s \in SettingsRecord
  PROVE  /\ Merged(s) \in SettingsRecord /\ SameServices(s, Merged(s))
         /\ \A a \in Accounts : Carries(s, a, keys[a]) => Carries(Merged(s), a, keys[a])
<1>. DEFINE Back(e, a) == IF e.key = Absent /\ e.has THEN [e EXCEPT !.key = keys[a]] ELSE e
            gem == Back(s.ai.gem, "gemini")
            key == IF s.flat.key = Absent /\ s.flat.present
                   THEN IF gem.key # Absent THEN gem.key ELSE keys["gemini"]
                   ELSE s.flat.key
            sv == [i \in DOMAIN s.ai.services |-> Back(s.ai.services[i], i)]
            ai == [s.ai EXCEPT !.gem = gem, !.services = sv]
            flat == [s.flat EXCEPT !.key = key]
            t == Merged(s)
<1>1. s.ai \in AiRecord /\ s.flat \in FlatRecord /\ s.ai.gem \in Entries /\ s.ai.services \in ServiceLists
  BY SettingsParts
<1>2. DOMAIN s.ai.services \subseteq Services /\ \A i \in DOMAIN s.ai.services : s.ai.services[i] \in Entries
  BY <1>1, ServiceListFits
<1>3. ASSUME NEW e \in Entries, NEW a \in Accounts
      PROVE  Back(e, a) \in Entries /\ (Of(e.key, e.has, keys[a]) => Of(Back(e, a).key, Back(e, a).has, keys[a]))
  BY <1>3 DEF Entries, Of, KeysOK
<1>4. "gemini" \in Accounts /\ Services \subseteq Accounts
  BY DEF Accounts
<1>5. gem \in Entries /\ (Of(s.ai.gem.key, s.ai.gem.has, keys["gemini"]) => Of(gem.key, gem.has, keys["gemini"]))
  BY <1>1, <1>3, <1>4
<1>6. \A i \in DOMAIN s.ai.services : Back(s.ai.services[i], i) \in Entries
  BY <1>2, <1>3, <1>4
<1>7. sv \in ServiceLists
  BY <1>2, <1>6 DEF ServiceLists
<1>8. DOMAIN sv = DOMAIN s.ai.services
      /\ \A i \in DOMAIN sv : Of(s.ai.services[i].key, s.ai.services[i].has, keys[i])
                                => Of(sv[i].key, sv[i].has, keys[i])
  BY <1>2, <1>3, <1>4
<1>9. t = [s EXCEPT !.ai.gem = gem, !.flat.key = key, !.ai.services = sv]
  BY DEF Merged
<1>10. key \in Texts \cup {Absent}
  BY <1>1, <1>4, <1>5 DEF FlatRecord, Entries, KeysOK
<1>11. Of(s.ai.gem.key, s.ai.gem.has, keys["gemini"]) /\ Of(s.flat.key, s.flat.present, keys["gemini"])
        => Of(key, s.flat.present, keys["gemini"])
  BY <1>5 DEF Of
<1>. HIDE DEF Back, gem, key, sv
<1>12. t.ai = ai
  BY <1>1, <1>9 DEF SettingsRecord, AiRecord
<1>13. t.flat = flat
  BY <1>1, <1>9 DEF SettingsRecord
<1>14. t = [s EXCEPT !.ai = t.ai, !.flat = t.flat]
  BY <1>9 DEF SettingsRecord
<1>15. ai \in AiRecord /\ ai.gem = gem /\ ai.services = sv
  BY <1>1, <1>5, <1>7 DEF AiRecord
<1>16. flat \in FlatRecord /\ flat.key = key /\ flat.present = s.flat.present
  BY <1>1, <1>10 DEF FlatRecord
<1>. HIDE DEF ai, flat, t
<1>17. t \in SettingsRecord
  BY <1>12, <1>13, <1>14, <1>15, <1>16 DEF SettingsRecord
<1>18. SameServices(s, t)
  BY <1>8, <1>12, <1>15 DEF SameServices
<1>19. ASSUME NEW a \in Accounts, Carries(s, a, keys[a]) PROVE Carries(t, a, keys[a])
  <2>1. CASE a = "gemini"
    BY <1>5, <1>11, <1>12, <1>13, <1>15, <1>16, <1>19, <2>1 DEF Carries
  <2>2. CASE a # "gemini"
    BY <1>8, <1>12, <1>15, <1>19, <2>2 DEF Carries
  <2>. QED
    BY <2>1, <2>2
<1>. QED
  BY <1>17, <1>18, <1>19 DEF t

\* So do the settings on their way to be saved.
LEMMA NormalizedKeeps ==
  ASSUME KeysOK, NEW s \in SettingsRecord
  PROVE  /\ Normalized(s) \in SettingsRecord /\ SameServices(s, Normalized(s))
         /\ \A a \in Accounts : Carries(s, a, keys[a]) => Carries(Normalized(s), a, keys[a])
<1>. DEFINE u == [s EXCEPT !.model = "v3"]
            m == Merged(u)
            l == IF LegacyIsSource(m) THEN SyncSectionsFromLegacy(m) ELSE m
            t == SyncLegacyFromSections(l)
<1>1. u \in SettingsRecord /\ u.ai = s.ai /\ u.flat = s.flat
  BY TextsAssumption DEF SettingsRecord
<1>. HIDE DEF u
<1>2. SameServices(s, u) /\ \A a \in Accounts : Carries(s, a, keys[a]) => Carries(u, a, keys[a])
  BY <1>1 DEF SameServices, Carries
<1>3. /\ m \in SettingsRecord /\ SameServices(u, m)
      /\ \A a \in Accounts : Carries(u, a, keys[a]) => Carries(m, a, keys[a])
  BY <1>1, MergedKeeps
<1>. HIDE DEF m
<1>4. \A a \in Accounts : keys[a] \in Texts \cup {Absent}
  BY DEF KeysOK
<1>5. /\ l \in SettingsRecord /\ SameServices(m, l)
      /\ \A a \in Accounts : Carries(m, a, keys[a]) => Carries(l, a, keys[a])
  <2>1. CASE LegacyIsSource(m)
    BY <1>3, <1>4, <2>1, SyncSectionsKeeps DEF Carries
  <2>2. CASE ~LegacyIsSource(m)
    BY <1>3, <2>2 DEF SameServices
  <2>. QED
    BY <2>1, <2>2
<1>. HIDE DEF l
<1>6. /\ t \in SettingsRecord /\ SameServices(l, t)
      /\ \A a \in Accounts : Carries(l, a, keys[a]) => Carries(t, a, keys[a])
  BY <1>4, <1>5, SyncLegacyKeeps DEF Carries
<1>7. Normalized(s) = Refresh(t)
  BY DEF Normalized, t, l, m, u
<1>. HIDE DEF t
<1>8. /\ Refresh(t) \in SettingsRecord /\ SameServices(t, Refresh(t))
      /\ \A a \in Accounts : Carries(t, a, keys[a]) => Carries(Refresh(t), a, keys[a])
  BY <1>4, <1>6, RefreshKeeps DEF KeepsKeys
<1>. QED
  BY <1>2, <1>3, <1>5, <1>6, <1>7, <1>8 DEF SameServices

\* What an AI command makes of the window's copy.
LEMMA AiChangesKeep ==
  ASSUME NEW ai \in AiRecord, NEW m \in AiChanges(ai)
  PROVE  /\ m.ai \in AiRecord
         /\ \A i \in Services : i \notin DOMAIN m.meant =>
              /\ i \in DOMAIN m.ai.services <=> i \in DOMAIN ai.services
              /\ i \in DOMAIN ai.services => m.ai.services[i] = ai.services[i]
         /\ "gemini" \notin DOMAIN m.meant => m.ai.gem = ai.gem
<1>1. ai.services \in ServiceLists /\ ai.gem \in Entries
  BY DEF AiRecord
<1>2. DOMAIN ai.services \subseteq Services /\ \A i \in DOMAIN ai.services : ai.services[i] \in Entries
  BY <1>1, ServiceListFits
<1>3. NoKey \in Entries /\ [key |-> "new", has |-> TRUE] \in Entries
  BY TextsAssumption DEF NoKey, Entries
<1>4. CASE m = [ai |-> [ai EXCEPT !.gem = NoKey, !.provider = "none"], meant |-> [gemini |-> Absent]]
  <2>. DEFINE changed == [ai EXCEPT !.gem = NoKey, !.provider = "none"]
  <2>1. changed \in AiRecord /\ changed.services = ai.services
    BY <1>3, TextsAssumption DEF AiRecord
  <2>2. m.ai = changed /\ "gemini" \in DOMAIN m.meant
    BY <1>4
  <2>. QED
    BY <2>1, <2>2
<1>5. ASSUME NEW i \in DOMAIN ai.services,
             m = [ai |-> [ai EXCEPT !.services = [@ EXCEPT ![i] = NoKey]], meant |-> Only(i, Absent)]
      PROVE  /\ m.ai \in AiRecord /\ m.ai.gem = ai.gem
             /\ \A j \in Services : j \notin DOMAIN m.meant =>
                  /\ j \in DOMAIN m.ai.services <=> j \in DOMAIN ai.services
                  /\ j \in DOMAIN ai.services => m.ai.services[j] = ai.services[j]
  <2>. DEFINE sv == [ai.services EXCEPT ![i] = NoKey]
              changed == [ai EXCEPT !.services = sv]
  <2>1. sv \in ServiceLists
    BY <1>1, <1>3 DEF ServiceLists
  <2>2. DOMAIN sv = DOMAIN ai.services /\ \A j \in DOMAIN ai.services : j # i => sv[j] = ai.services[j]
    OBVIOUS
  <2>. HIDE DEF sv
  <2>3. changed \in AiRecord /\ changed.services = sv /\ changed.gem = ai.gem
    BY <2>1 DEF AiRecord
  <2>. HIDE DEF changed
  <2>4. m.ai = changed
    BY <1>5 DEF changed, sv
  <2>5. DOMAIN m.meant = {i}
    BY <1>5 DEF Only
  <2>. QED
    BY <2>2, <2>3, <2>4, <2>5
<1>6. ASSUME NEW i \in DOMAIN ai.services,
             m = [ai |-> [ai EXCEPT !.services = [j \in DOMAIN @ \ {i} |-> @[j]],
                                    !.active = IF @ = i THEN Absent ELSE @],
                  meant |-> Only(i, Absent)]
      PROVE  /\ m.ai \in AiRecord /\ m.ai.gem = ai.gem
             /\ \A j \in Services : j \notin DOMAIN m.meant =>
                  /\ j \in DOMAIN m.ai.services <=> j \in DOMAIN ai.services
                  /\ j \in DOMAIN ai.services => m.ai.services[j] = ai.services[j]
  <2>. DEFINE sv == [j \in DOMAIN ai.services \ {i} |-> ai.services[j]]
              active == IF ai.active = i THEN Absent ELSE ai.active
              changed == [ai EXCEPT !.services = sv, !.active = active]
  <2>1. sv \in ServiceLists
    <3>1. DOMAIN ai.services \ {i} \in SUBSET Services
      BY <1>2
    <3>2. \A j \in DOMAIN ai.services \ {i} : ai.services[j] \in Entries
      BY <1>2
    <3>3. sv \in [DOMAIN ai.services \ {i} -> Entries]
      BY <3>2
    <3>. QED
      BY <3>1, <3>3 DEF ServiceLists
  <2>2. DOMAIN sv = DOMAIN ai.services \ {i} /\ \A j \in DOMAIN ai.services \ {i} : sv[j] = ai.services[j]
    OBVIOUS
  <2>3. active \in Services \cup {Absent}
    BY DEF AiRecord
  <2>. HIDE DEF sv, active
  <2>4. changed \in AiRecord /\ changed.services = sv /\ changed.gem = ai.gem
    BY <2>1, <2>3 DEF AiRecord
  <2>5. m.ai = changed
    <3>1. m.ai = [[ai EXCEPT !.services = sv] EXCEPT
                    !.active = IF [ai EXCEPT !.services = sv].active = i THEN Absent
                               ELSE [ai EXCEPT !.services = sv].active]
      BY <1>6 DEF sv
    <3>2. [ai EXCEPT !.services = sv].active = ai.active
      BY DEF AiRecord
    <3>. QED
      BY <3>1, <3>2 DEF active
  <2>. HIDE DEF changed
  <2>6. DOMAIN m.meant = {i}
    BY <1>6 DEF Only
  <2>. QED
    BY <2>2, <2>4, <2>5, <2>6
<1>7. ASSUME NEW i \in Services,
             m = [ai |-> [ai EXCEPT !.services = Joined(Only(i, [key |-> "new", has |-> TRUE]), @)],
                  meant |-> Only(i, "new")]
      PROVE  /\ m.ai \in AiRecord /\ m.ai.gem = ai.gem
             /\ \A j \in Services : j \notin DOMAIN m.meant =>
                  /\ j \in DOMAIN m.ai.services <=> j \in DOMAIN ai.services
                  /\ j \in DOMAIN ai.services => m.ai.services[j] = ai.services[j]
  <2>. DEFINE e == [key |-> "new", has |-> TRUE]
              sv == Joined(Only(i, e), ai.services)
              changed == [ai EXCEPT !.services = sv]
  <2>. HIDE DEF e
  <2>1. /\ DOMAIN sv = {i} \cup DOMAIN ai.services
        /\ sv = [j \in {i} \cup DOMAIN ai.services |-> IF j = i THEN e ELSE ai.services[j]]
    BY DEF Only, Joined
  <2>. HIDE DEF sv
  <2>2. sv \in ServiceLists
    <3>1. e \in Entries
      BY <1>3 DEF e
    <3>2. \A j \in {i} \cup DOMAIN ai.services : (IF j = i THEN e ELSE ai.services[j]) \in Entries
      BY <1>2, <3>1
    <3>3. {i} \cup DOMAIN ai.services \in SUBSET Services
      BY <1>2
    <3>. QED
      BY <2>1, <3>2, <3>3 DEF ServiceLists
  <2>3. changed \in AiRecord /\ changed.services = sv /\ changed.gem = ai.gem
    BY <2>2 DEF AiRecord
  <2>. HIDE DEF changed
  <2>4. m.ai = changed
    BY <1>7 DEF changed, sv, e
  <2>5. DOMAIN m.meant = {i}
    BY <1>7 DEF Only
  <2>. QED
    BY <2>1, <2>3, <2>4, <2>5
<1>8. \/ m = [ai |-> [ai EXCEPT !.gem = NoKey, !.provider = "none"], meant |-> [gemini |-> Absent]]
      \/ \E i \in DOMAIN ai.services :
           m = [ai |-> [ai EXCEPT !.services = [@ EXCEPT ![i] = NoKey]], meant |-> Only(i, Absent)]
      \/ \E i \in DOMAIN ai.services :
           m = [ai |-> [ai EXCEPT !.services = [j \in DOMAIN @ \ {i} |-> @[j]],
                                  !.active = IF @ = i THEN Absent ELSE @],
                meant |-> Only(i, Absent)]
      \/ \E i \in Services :
           m = [ai |-> [ai EXCEPT !.services = Joined(Only(i, [key |-> "new", has |-> TRUE]), @)],
                meant |-> Only(i, "new")]
  BY DEF AiChanges
<1>. QED
  BY <1>4, <1>5, <1>6, <1>7, <1>8

\* Whose services a command saves.
Base(c, s, copy) == IF c \in Windows THEN copy ELSE s

\* What a command hands to the save has the keys it does not mean to change.
LEMMA ChangesKeep ==
  ASSUME NEW c \in Callers, c # "snapshot", NEW s \in SettingsRecord, NEW copy \in SettingsRecord,
         NEW m \in Changes(c, s, copy), c = "whole" => s = copy
  PROVE  /\ m.s \in SettingsRecord
         /\ \A a \in Accounts \ DOMAIN m.meant :
              /\ a \in Services =>
                   (a \in DOMAIN m.s.ai.services <=> a \in DOMAIN Base(c, s, copy).ai.services)
              /\ \A r \in Texts \cup {Absent} :
                   Carries(s, a, r) /\ (c \in Windows => Carries(copy, a, r)) => Carries(m.s, a, r)
<1>1. /\ s.flat \in FlatRecord /\ s.ai \in AiRecord /\ copy.ai \in AiRecord /\ copy.flat \in FlatRecord
      /\ s.prompts \in [custom : BOOLEAN, bound : Texts]
      /\ copy.prompts \in [custom : BOOLEAN, bound : Texts]
      /\ Services \cap {"gemini"} = {} /\ Accounts = {"gemini"} \cup Services
  BY SettingsParts, KindsOfServices DEF SettingsRecord, Accounts
<1>2. ASSUME m.s \in SettingsRecord, m.s.ai = s.ai,
             m.s.flat.key = s.flat.key, m.s.flat.present = s.flat.present, c \notin Windows \/ s = copy
      PROVE  /\ m.s \in SettingsRecord
             /\ \A a \in Accounts \ DOMAIN m.meant :
                  /\ a \in Services =>
                       (a \in DOMAIN m.s.ai.services <=> a \in DOMAIN Base(c, s, copy).ai.services)
                  /\ \A r \in Texts \cup {Absent} :
                       Carries(s, a, r) /\ (c \in Windows => Carries(copy, a, r)) => Carries(m.s, a, r)
  BY <1>2 DEF Base, Carries
<1>3. CASE c = "transcription"
  <2>1. m.s = [s EXCEPT !.transcription = "new"]
    BY <1>3 DEF Changes, Change
  <2>2. m.s \in SettingsRecord /\ m.s.ai = s.ai /\ m.s.flat = s.flat
    BY <2>1, TextsAssumption DEF SettingsRecord
  <2>. QED
    BY <1>2, <1>3, <2>2 DEF Windows
<1>4. CASE c = "automation"
  <2>1. m.s = [s EXCEPT !.automation = "new"]
    BY <1>4 DEF Changes, Change
  <2>2. m.s \in SettingsRecord /\ m.s.ai = s.ai /\ m.s.flat = s.flat
    BY <2>1, TextsAssumption DEF SettingsRecord
  <2>. QED
    BY <1>2, <1>4, <2>2 DEF Windows
<1>5. CASE c = "prompts"
  <2>1. \/ m.s = [s EXCEPT !.prompts = [custom |-> TRUE, bound |-> "custom"]]
        \/ m.s = [s EXCEPT !.prompts = Defaults.prompts]
        \/ m.s = [s EXCEPT !.prompts.custom = FALSE]
    <3>1. m \in {Change([s EXCEPT !.prompts = [custom |-> TRUE, bound |-> "custom"]],
                         [bound |-> "custom"]),
                  Change([s EXCEPT !.prompts = Defaults.prompts], [bound |-> "builtin"])}
                 \cup IF s.prompts.custom
                      THEN {Change([s EXCEPT !.prompts.custom = FALSE], [bound |-> "builtin"])}
                      ELSE {}
      BY <1>5 DEF Changes
    <3>2. \A t, meant : Change(t, meant).s = t
      BY DEF Change
    <3>. QED
      BY <3>1, <3>2
  <2>2. /\ [custom |-> TRUE, bound |-> "custom"] \in [custom : BOOLEAN, bound : Texts]
        /\ Defaults.prompts \in [custom : BOOLEAN, bound : Texts]
        /\ [s.prompts EXCEPT !.custom = FALSE] \in [custom : BOOLEAN, bound : Texts]
    <3>1. Defaults.prompts = [custom |-> FALSE, bound |-> "builtin"]
      BY DEF Defaults
    <3>2. {"builtin", "custom"} \subseteq Texts
      BY TextsAssumption
    <3>3. [s.prompts EXCEPT !.custom = FALSE] \in [custom : BOOLEAN, bound : Texts]
      BY <1>1
    <3>4. [custom |-> TRUE, bound |-> "custom"] \in [custom : BOOLEAN, bound : Texts]
      BY <3>2
    <3>5. Defaults.prompts \in [custom : BOOLEAN, bound : Texts]
      BY <3>1, <3>2
    <3>. QED
      BY <3>3, <3>4, <3>5
  <2>3. PICK p \in [custom : BOOLEAN, bound : Texts] : m.s = [s EXCEPT !.prompts = p]
    BY <2>1, <2>2
  <2>4. m.s \in SettingsRecord /\ m.s.ai = s.ai /\ m.s.flat = s.flat
    BY <2>3 DEF SettingsRecord
  <2>. QED
    BY <1>2, <1>5, <2>4 DEF Windows
<1>6. CASE c = "provider"
  <2>1. \/ m.s = [s EXCEPT !.ai.gem.key = "new"] /\ m.meant = [gemini |-> "new"]
        \/ m.s = [s EXCEPT !.ai.provider = "gemini"] /\ m.meant = <<>>
    BY <1>6 DEF Changes, Change
  <2>2. CASE m.s = [s EXCEPT !.ai.gem.key = "new"] /\ m.meant = [gemini |-> "new"]
    <3>. DEFINE gem == [s.ai.gem EXCEPT !.key = "new"]
                ai == [s.ai EXCEPT !.gem = gem]
    <3>1. gem \in Entries
      BY <1>1, TextsAssumption DEF AiRecord, Entries
    <3>2. m.s = [s EXCEPT !.ai = ai]
      BY <2>2
    <3>. HIDE DEF gem
    <3>3. ai \in AiRecord /\ ai.services = s.ai.services
      BY <1>1, <3>1 DEF AiRecord
    <3>. HIDE DEF ai
    <3>4. m.s \in SettingsRecord /\ m.s.ai = ai /\ m.s.flat = s.flat
      BY <3>2, <3>3 DEF SettingsRecord
    <3>5. "gemini" \in DOMAIN m.meant
      BY <2>2
    <3>6. \A a \in Accounts \ DOMAIN m.meant : a \in Services
      BY <1>1, <3>5
    <3>. QED
      BY <1>1, <1>6, <3>3, <3>4, <3>6 DEF Carries, Base, Windows
  <2>3. CASE m.s = [s EXCEPT !.ai.provider = "gemini"] /\ m.meant = <<>>
    <3>. DEFINE ai == [s.ai EXCEPT !.provider = "gemini"]
    <3>1. m.s = [s EXCEPT !.ai = ai]
      BY <2>3
    <3>2. ai \in AiRecord /\ ai.services = s.ai.services /\ ai.gem = s.ai.gem
      BY <1>1, TextsAssumption DEF AiRecord
    <3>. HIDE DEF ai
    <3>3. m.s \in SettingsRecord /\ m.s.ai = ai /\ m.s.flat = s.flat
      BY <3>1, <3>2 DEF SettingsRecord
    <3>. QED
      BY <1>6, <3>2, <3>3 DEF Carries, Base, Windows
  <2>. QED
    BY <2>1, <2>2, <2>3
<1>7. CASE c = "ai"
  <2>1. PICK n \in AiChanges(copy.ai) : m.s = [s EXCEPT !.ai = n.ai] /\ m.meant = n.meant
    BY <1>7 DEF Changes, Change
  <2>2. n.ai \in AiRecord
    BY <1>1, AiChangesKeep
  <2>3. \A i \in Services : i \notin DOMAIN n.meant =>
              /\ i \in DOMAIN n.ai.services <=> i \in DOMAIN copy.ai.services
              /\ i \in DOMAIN copy.ai.services => n.ai.services[i] = copy.ai.services[i]
    BY <1>1, AiChangesKeep
  <2>4. "gemini" \notin DOMAIN n.meant => n.ai.gem = copy.ai.gem
    BY <1>1, AiChangesKeep
  <2>5. m.s \in SettingsRecord /\ m.s.ai = n.ai /\ m.s.flat = s.flat
    BY <2>1, <2>2 DEF SettingsRecord
  <2>6. c \in Windows
    BY <1>7 DEF Windows
  <2>7. ASSUME NEW a \in Accounts \ DOMAIN m.meant
        PROVE  /\ a \in Services =>
                   (a \in DOMAIN m.s.ai.services <=> a \in DOMAIN Base(c, s, copy).ai.services)
               /\ \A r \in Texts \cup {Absent} :
                   Carries(s, a, r) /\ (c \in Windows => Carries(copy, a, r)) => Carries(m.s, a, r)
    <3>1. CASE a = "gemini"
      BY <1>1, <2>1, <2>4, <2>5, <2>6, <3>1 DEF Carries
    <3>2. CASE a # "gemini"
      <4>1. a \in Services
        BY <1>1, <3>2
      <4>. QED
        BY <1>1, <2>1, <2>3, <2>5, <2>6, <3>2, <4>1 DEF Carries, Base
    <3>. QED
      BY <3>1, <3>2
  <2>. QED
    BY <2>5, <2>7
<1>8. CASE c = "whole"
  <2>. DEFINE flat == [copy.flat EXCEPT !.transcription = "whole"]
  <2>1. m.s = [copy EXCEPT !.transcription = "whole", !.flat.transcription = "whole"]
    BY <1>8 DEF Changes, Change
  <2>2. flat \in FlatRecord /\ flat.key = copy.flat.key /\ flat.present = copy.flat.present
    BY <1>1, TextsAssumption DEF FlatRecord
  <2>3. m.s = [copy EXCEPT !.transcription = "whole", !.flat = flat]
    BY <2>1 DEF SettingsRecord
  <2>. HIDE DEF flat
  <2>4. m.s \in SettingsRecord /\ m.s.ai = copy.ai /\ m.s.flat = flat
    BY <2>2, <2>3, TextsAssumption DEF SettingsRecord
  <2>. QED
    BY <1>2, <1>8, <2>2, <2>4
<1>9. CASE c = "factory"
  <2>. DEFINE flat == [s.flat EXCEPT !.transcription = "fixed"]
  <2>1. m.s = [s EXCEPT !.transcription = "fixed", !.flat.transcription = "fixed"]
    BY <1>9 DEF Changes, Change
  <2>2. flat \in FlatRecord /\ flat.key = s.flat.key /\ flat.present = s.flat.present
    BY <1>1, TextsAssumption DEF FlatRecord
  <2>3. m.s = [s EXCEPT !.transcription = "fixed", !.flat = flat]
    BY <2>1 DEF SettingsRecord
  <2>. HIDE DEF flat
  <2>4. m.s \in SettingsRecord /\ m.s.ai = s.ai /\ m.s.flat = flat
    BY <2>2, <2>3, TextsAssumption DEF SettingsRecord
  <2>. QED
    BY <1>2, <1>9, <2>2, <2>4 DEF Windows
<1>. QED
  BY <1>3, <1>4, <1>5, <1>6, <1>7, <1>8, <1>9, KnownCallers

\* Neither of the two ways to sync loses a key.
LEMMA SyncedKeeps ==
  ASSUME NEW c, NEW s \in SettingsRecord
  PROVE  Synced(c, s) \in SettingsRecord /\ KeepsKeys(s, Synced(c, s))
<1>1. CASE c \in {"whole", "factory"}
  <2>. DEFINE u == SyncSectionsFromLegacy(s)
  <2>1. u \in SettingsRecord /\ KeepsKeys(s, u)
    BY SyncSectionsKeeps DEF KeepsKeys, Carries
  <2>. HIDE DEF u
  <2>2. SyncLegacyFromSections(u) \in SettingsRecord /\ KeepsKeys(u, SyncLegacyFromSections(u))
    BY <2>1, SyncLegacyKeeps DEF KeepsKeys, Carries
  <2>3. Synced(c, s) = SyncLegacyFromSections(u)
    BY <1>1 DEF Synced, u
  <2>. QED
    BY <2>1, <2>2, <2>3 DEF KeepsKeys, SameServices
<1>2. CASE c \notin {"whole", "factory"}
  <2>. DEFINE u == SyncLegacyFromSections(s)
  <2>1. u \in SettingsRecord /\ KeepsKeys(s, u)
    BY SyncLegacyKeeps DEF KeepsKeys, Carries
  <2>. HIDE DEF u
  <2>2. SyncSectionsFromLegacy(u) \in SettingsRecord /\ KeepsKeys(u, SyncSectionsFromLegacy(u))
    BY <2>1, SyncSectionsKeeps DEF KeepsKeys, Carries
  <2>3. Synced(c, s) = SyncSectionsFromLegacy(u)
    BY <1>2 DEF Synced, u
  <2>. QED
    BY <2>1, <2>2, <2>3 DEF KeepsKeys, SameServices
<1>. QED
  BY <1>1, <1>2

\* The defaults are settings without a key.
LEMMA DefaultsFit ==
  /\ Defaults \in SettingsRecord /\ DOMAIN Defaults.ai.services = {}
  /\ \A a \in Accounts : Carries(Defaults, a, Absent)
<1>1. <<>> \in ServiceLists
  <2>1. <<>> \in [{} -> Entries]
    OBVIOUS
  <2>2. {} \in SUBSET Services
    OBVIOUS
  <2>. QED
    BY <2>1, <2>2 DEF ServiceLists
<1>2. NoKey \in Entries /\ NoKey.key = Absent /\ ~NoKey.has
  BY DEF NoKey, Entries
<1>. HIDE DEF NoKey
<1>3. {"default", "v3", "apple", "builtin"} \subseteq Texts
  BY TextsAssumption
<1>. DEFINE ai == [gem |-> NoKey, services |-> <<>>, provider |-> "apple", active |-> Absent]
            flat == [transcription |-> "default", key |-> Absent, present |-> FALSE]
            pr == [custom |-> FALSE, bound |-> "builtin"]
<1>4. ai \in AiRecord /\ ai.gem = NoKey /\ ai.services = <<>>
  BY <1>1, <1>2, <1>3 DEF AiRecord
<1>5. flat \in FlatRecord /\ flat.key = Absent /\ ~flat.present
  BY <1>3 DEF FlatRecord
<1>6. pr \in [custom : BOOLEAN, bound : Texts]
  BY <1>3
<1>7. Defaults = [flat |-> flat, transcription |-> "default", automation |-> "default", model |-> "v3",
                  ai |-> ai, prompts |-> pr, sections |-> TRUE]
  BY DEF Defaults
<1>. HIDE DEF ai, flat, pr
<1>8. Defaults \in SettingsRecord /\ Defaults.ai = ai /\ Defaults.flat = flat
  BY <1>3, <1>4, <1>5, <1>6, <1>7 DEF SettingsRecord
<1>9. DOMAIN Defaults.ai.services = {}
  BY <1>4, <1>8
<1>10. \A a \in Accounts : Carries(Defaults, a, Absent)
  BY <1>2, <1>4, <1>5, <1>8, <1>9 DEF Carries, Of
<1>. QED
  BY <1>8, <1>9, <1>10

(***************************************************************************)
(* The inductive invariant of the keys. A key nobody has meant to change   *)
(* is at any time in the storage or, before the first load has been past   *)
(* it, in the file; and what every caller has in hand, the copies the      *)
(* windows keep too, says of it what the storage says (KeptFor), so that   *)
(* no save, made from settings however old, can take it away. That a save  *)
(* removes no service of others is why the invariant also follows the      *)
(* services (Present).                                                     *)
(***************************************************************************)
SavingAt == {"ids", "secrets", "removed", "write"}
CallFields == {"pc", "use", "todo", "s", "copy", "ids", "plain", "meant"}

\* What a caller has in hand is of the types of its place.
CallOK(c) ==
  LET v == call[c] IN
  /\ DOMAIN v = CallFields
  /\ v.pc \in {"idle", "waiting", "read", "keys", "done", "failed", "lost"} \cup SavingAt
  /\ v.use \in {"copy", "base", "result"}
  /\ v.todo \subseteq Accounts /\ v.ids \subseteq Services
  /\ v.plain \in BOOLEAN
  /\ v.s \in SettingsRecord /\ v.copy \in SettingsRecord
  /\ v.pc \in {"keys", "secrets"} => v.todo \subseteq AccountsOf(v.s)
  /\ v.use = "copy" => c \in Windows
  /\ v.use = "base" => c \notin {"snapshot", "whole"}
  /\ v.pc = "waiting" => c \notin Unlocked

FileOK == file # Absent => file \in SettingsRecord /\ FlatFits(file)

SettingsOK ==
  /\ KeysOK /\ FileOK
  /\ origin \in [Accounts -> Texts \cup {Absent}]
  /\ DOMAIN call = Callers
  /\ \A c \in Callers : CallOK(c)

\* The services of a settings record are known to this program.
LEMMA AccountsFit ==
  ASSUME NEW s \in SettingsRecord
  PROVE  AccountsOf(s) \subseteq Accounts /\ DOMAIN s.ai.services \subseteq Services
BY SettingsParts, ServiceListFits DEF AccountsOf, Accounts

\* What is written to the file may be in the file.
LEMMA RedactedFits ==
  ASSUME NEW s \in SettingsRecord
  PROVE  Redacted(s) \in SettingsRecord /\ Redacted(s) # Absent /\ FlatFits(Redacted(s))
         /\ ServicesIn(Redacted(s)) = DOMAIN s.ai.services
<1>1. Redacted(s) \in SettingsRecord /\ KeepsKeys(s, Redacted(s))
      /\ \A a \in Accounts : Plaintext(Redacted(s), a) = Absent
  BY RedactedKeeps
<1>2. Redacted(s) # Absent
  BY <1>1, StoredAssumption
<1>3. Plaintext(Redacted(s), "gemini") = Absent
  BY <1>1 DEF Accounts
<1>4. Redacted(s).ai.gem.key = Absent /\ Redacted(s).flat.key = Absent
  BY <1>3 DEF Plaintext
<1>. QED
  BY <1>1, <1>2, <1>4 DEF FlatFits, ServicesIn, KeepsKeys, SameServices

\* c is a window that will send its copy back.
UsesCopy(c) ==
  c \in Windows /\ (call[c].pc = "waiting" \/ (call[c].pc \in {"read", "keys"} /\ call[c].use = "base"))

\* A service nobody has touched is in what c has in hand as it is in the file.
Present(c) ==
  LET v == call[c] IN
  \A a \in Services \ touched :
    /\ v.pc \in {"keys"} \cup SavingAt => (a \in DOMAIN v.s.ai.services <=> a \in ServicesIn(file))
    /\ UsesCopy(c) => (a \in DOMAIN v.copy.ai.services <=> a \in ServicesIn(file))
    /\ v.pc \in {"secrets", "removed"} /\ a \in v.ids => a \in DOMAIN v.s.ai.services

\* What c has in hand of an account nobody has touched is of the key at the start,
\* which is in the storage as soon as c has been past it.
KeptFor(c) ==
  LET v == call[c] IN
  \A a \in Accounts \ touched :
    /\ v.pc = "keys" =>
         IF a \in v.todo THEN keys[a] = Absent => Plaintext(v.s, a) = origin[a]
         ELSE keys[a] = origin[a] /\ Carries(v.s, a, origin[a])
    /\ v.pc \in SavingAt => keys[a] = origin[a] /\ Carries(v.s, a, origin[a])
    /\ UsesCopy(c) => keys[a] = origin[a] /\ Carries(v.copy, a, origin[a])

FileIsRedacted == file # Absent /\ \A a \in Accounts : Plaintext(file, a) = Absent

\* Whoever has settings has seen to it that no key is in the file; one that
\* reads a key in the file knows it, or has it before it.
ReadTruly(c) ==
  LET v == call[c] IN
  /\ v.pc = "done" => FileIsRedacted
  /\ v.pc = "keys" => file # Absent
  /\ v.pc = "keys" /\ ~v.plain =>
       \A a \in Accounts : Plaintext(file, a) # Absent => a \in v.todo /\ Plaintext(v.s, a) # Absent

\* The key an account had at the start can still be loaded.
Origins ==
  \A a \in Accounts \ touched :
    /\ Recoverable(a) = origin[a]
    /\ file = Absent => origin[a] = Absent

KeyInv == Origins /\ \A c \in Callers : Present(c) /\ KeptFor(c) /\ ReadTruly(c)

SecretInv == SettingsOK /\ KeyInv

\* What a step of c must leave to the other callers.
Leaves(c) ==
  /\ DOMAIN call' = Callers
  /\ \A d \in Callers \ {c} : call'[d] = call[d]
  /\ touched \subseteq touched' /\ origin' = origin
  /\ \A a \in Accounts \ touched :
       /\ keys[a] = origin[a] => keys'[a] = origin[a]
       /\ keys'[a] = Absent => keys[a] = Absent
  /\ \A a \in Services \ touched : a \in ServicesIn(file') <=> a \in ServicesIn(file)
  /\ file' = file \/ FileIsRedacted'

\* Then the others have what they had.
LEMMA OtherCallersKeep ==
  ASSUME KeyInv, NEW c \in Callers, Leaves(c), NEW d \in Callers, d # c
  PROVE  Present(d)' /\ KeptFor(d)' /\ ReadTruly(d)'
<1>1. Present(d) /\ KeptFor(d) /\ ReadTruly(d) /\ call'[d] = call[d]
  BY DEF KeyInv, Leaves
<1>2. UsesCopy(d)' <=> UsesCopy(d)
  BY <1>1 DEF UsesCopy
<1>3. Accounts \ touched' \subseteq Accounts \ touched /\ Services \ touched' \subseteq Services \ touched
  BY DEF Leaves
<1>4. Present(d)'
  BY <1>1, <1>2, <1>3 DEF Present, Leaves
<1>5. KeptFor(d)'
  <2>. SUFFICES ASSUME NEW a \in Accounts \ touched'
       PROVE  LET v == call[d] IN
              /\ v.pc = "keys" =>
                   IF a \in v.todo THEN keys'[a] = Absent => Plaintext(v.s, a) = origin[a]
                   ELSE keys'[a] = origin[a] /\ Carries(v.s, a, origin[a])
              /\ v.pc \in SavingAt => keys'[a] = origin[a] /\ Carries(v.s, a, origin[a])
              /\ UsesCopy(d) => keys'[a] = origin[a] /\ Carries(v.copy, a, origin[a])
    BY <1>1, <1>2 DEF KeptFor, Leaves, Carries
  <2>. QED
    BY <1>1, <1>3 DEF KeptFor, Leaves
<1>6. ReadTruly(d)'
  <2>1. CASE file' = file
    BY <1>1, <2>1 DEF ReadTruly, FileIsRedacted, Plaintext
  <2>2. CASE FileIsRedacted'
    BY <1>1, <2>2 DEF ReadTruly, FileIsRedacted
  <2>. QED
    BY <2>1, <2>2 DEF Leaves
<1>. QED
  BY <1>4, <1>5, <1>6

(***************************************************************************)
(* The steps, one lemma each.                                              *)
(***************************************************************************)
\* A step of c keeps the invariant when it keeps what is said of c.
LEMMA StepKeeps ==
  ASSUME SecretInv, NEW c \in Callers, Leaves(c), KeysOK', FileOK', CallOK(c)',
         Origins', Present(c)', KeptFor(c)', ReadTruly(c)'
  PROVE  SecretInv'
<1>1. \A d \in Callers : CallOK(d)'
  BY DEF SecretInv, SettingsOK, CallOK, Leaves
<1>2. SettingsOK'
  BY <1>1 DEF SecretInv, SettingsOK, Leaves
<1>3. \A d \in Callers : Present(d)' /\ KeptFor(d)' /\ ReadTruly(d)'
  BY OtherCallersKeep DEF SecretInv
<1>. QED
  BY <1>2, <1>3 DEF SecretInv, KeyInv

\* A step that changes only what c has in hand.
LEMMA QuietStep ==
  ASSUME SecretInv, NEW c \in Callers, NEW w, call' = [call EXCEPT ![c] = w],
         UNCHANGED <<file, keys, touched, origin>>
  PROVE  Leaves(c) /\ KeysOK' /\ FileOK' /\ Origins' /\ call'[c] = w
<1>1. DOMAIN call = Callers
  BY DEF SecretInv, SettingsOK
<1>2. Leaves(c) /\ call'[c] = w
  BY <1>1 DEF Leaves
<1>3. KeysOK' /\ FileOK'
  BY DEF SecretInv, SettingsOK, KeysOK, FileOK, FlatFits
<1>4. Origins'
  BY DEF SecretInv, KeyInv, Origins, Recoverable, Plaintext
<1>. QED
  BY <1>2, <1>3, <1>4

\* The invariant, as it speaks of one caller.
LEMMA CallerFacts ==
  ASSUME SecretInv, NEW c \in Callers
  PROVE  CallOK(c) /\ Present(c) /\ KeptFor(c) /\ ReadTruly(c) /\ KeysOK /\ FileOK /\ Origins
         /\ DOMAIN call = Callers /\ origin \in [Accounts -> Texts \cup {Absent}]
BY DEF SecretInv, SettingsOK, KeyInv

LEMMA BeginKeeps == ASSUME SecretInv, NEW c \in Callers, Begin(c) PROVE SecretInv'
<1>. DEFINE v == call[c]
            p == IF c \in Windows \cup Unlocked THEN "read" ELSE "waiting"
            u == CASE c \in Windows -> "copy" [] c = "factory" -> "base" [] OTHER -> "result"
            w == [v EXCEPT !.pc = p, !.use = u]
<1>1. CallOK(c) /\ DOMAIN call = Callers
  BY CallerFacts
<1>2. call' = [call EXCEPT ![c] = w] /\ UNCHANGED <<file, keys, touched, origin>>
  BY <1>1 DEF Begin, Unaccepted, CallOK, CallFields
<1>3. /\ p \in {"read", "waiting"} /\ (p = "waiting" => c \notin Windows \cup Unlocked)
      /\ u \in {"copy", "base", "result"} /\ (u = "copy" => c \in Windows)
      /\ u = "base" => c \notin {"snapshot", "whole"} \cup Windows
  BY DEF Windows, Unlocked
<1>. HIDE DEF p, u
<1>4. /\ DOMAIN w = CallFields /\ w.pc = p /\ w.use = u
      /\ w.todo = v.todo /\ w.s = v.s /\ w.copy = v.copy /\ w.ids = v.ids /\ w.plain = v.plain
  BY <1>1 DEF CallOK, CallFields
<1>. HIDE DEF w
<1>5. Leaves(c) /\ KeysOK' /\ FileOK' /\ Origins' /\ call'[c] = w
  BY <1>2, QuietStep
<1>6. CallOK(c)'
  BY <1>1, <1>3, <1>4, <1>5 DEF CallOK, SavingAt
<1>7. ~UsesCopy(c)'
  BY <1>3, <1>4, <1>5 DEF UsesCopy
<1>8. Present(c)' /\ KeptFor(c)' /\ ReadTruly(c)'
  BY <1>3, <1>4, <1>5, <1>7 DEF Present, KeptFor, ReadTruly, SavingAt
<1>. QED
  BY <1>5, <1>6, <1>8, StepKeeps

LEMMA FailKeeps == ASSUME SecretInv, NEW c \in Callers, CallFails(c) PROVE SecretInv'
<1>. DEFINE v == call[c]
            w == [v EXCEPT !.pc = "failed"]
<1>1. CallOK(c) /\ DOMAIN call = Callers
  BY CallerFacts
<1>2. call' = [call EXCEPT ![c] = w] /\ UNCHANGED <<file, keys, touched, origin>>
  BY <1>1 DEF CallFails
<1>4. /\ DOMAIN w = CallFields /\ w.pc = "failed" /\ w.use = v.use
      /\ w.todo = v.todo /\ w.s = v.s /\ w.copy = v.copy /\ w.ids = v.ids /\ w.plain = v.plain
  BY <1>1 DEF CallOK, CallFields
<1>. HIDE DEF w
<1>5. Leaves(c) /\ KeysOK' /\ FileOK' /\ Origins' /\ call'[c] = w
  BY <1>2, QuietStep
<1>6. CallOK(c)'
  BY <1>1, <1>4, <1>5 DEF CallOK, SavingAt
<1>8. Present(c)' /\ KeptFor(c)' /\ ReadTruly(c)'
  BY <1>4, <1>5 DEF Present, KeptFor, ReadTruly, SavingAt, UsesCopy
<1>. QED
  BY <1>5, <1>6, <1>8, StepKeeps

LEMMA EndKeepsKeys == ASSUME SecretInv, SettingsCrash PROVE SecretInv'
<1>1. /\ DOMAIN call' = Callers
      /\ \A c \in Callers : call'[c] = call[c] \/ call'[c] = [IdleCall EXCEPT !.pc = "lost"]
      /\ UNCHANGED <<file, keys, touched, origin>>
  BY DEF SettingsCrash
<1>. DEFINE w == [IdleCall EXCEPT !.pc = "lost"]
<1>2. /\ DOMAIN w = CallFields /\ w.pc = "lost" /\ w.use = "result" /\ w.todo = {}
      /\ w.s = Defaults /\ w.copy = Defaults /\ w.ids = {} /\ w.plain = FALSE
  BY DEF IdleCall, CallFields
<1>. HIDE DEF w
<1>3. KeysOK' /\ FileOK' /\ Origins'
  BY <1>1 DEF SecretInv, SettingsOK, KeyInv, KeysOK, FileOK, FlatFits, Origins, Recoverable, Plaintext
<1>4. ASSUME NEW c \in Callers
      PROVE  CallOK(c)' /\ Present(c)' /\ KeptFor(c)' /\ ReadTruly(c)'
  <2>1. CASE call'[c] = call[c]
    <3>1. CallOK(c) /\ Present(c) /\ KeptFor(c) /\ ReadTruly(c)
      BY CallerFacts
    <3>2. UsesCopy(c)' <=> UsesCopy(c)
      BY <2>1 DEF UsesCopy
    <3>3. CallOK(c)'
      BY <2>1, <3>1 DEF CallOK
    <3>4. Present(c)' /\ KeptFor(c)'
      BY <1>1, <2>1, <3>1, <3>2 DEF Present, KeptFor, Plaintext, Carries
    <3>5. ReadTruly(c)'
      BY <1>1, <2>1, <3>1 DEF ReadTruly, FileIsRedacted, Plaintext
    <3>. QED
      BY <3>3, <3>4, <3>5
  <2>2. CASE call'[c] = w
    <3>1. CallOK(c)'
      BY <1>2, <2>2, DefaultsFit DEF CallOK, SavingAt
    <3>2. Present(c)' /\ KeptFor(c)' /\ ReadTruly(c)'
      BY <1>2, <2>2 DEF Present, KeptFor, ReadTruly, SavingAt, UsesCopy
    <3>. QED
      BY <3>1, <3>2
  <2>. QED
    BY <1>1, <2>1, <2>2 DEF w
<1>5. SettingsOK'
  BY <1>1, <1>3, <1>4 DEF SecretInv, SettingsOK
<1>. QED
  BY <1>3, <1>4, <1>5 DEF SecretInv, KeyInv

\* The settings s, with the file as the step leaves it, are those of the keys.
HoldsKeys(s) ==
  /\ s \in SettingsRecord
  /\ \A a \in Accounts \ touched : keys[a] = origin[a] /\ Carries(s, a, origin[a])
\* The settings s have the services of the file f that nobody has touched.
PresentIn(s, f) ==
  \A a \in Services \ touched : a \in DOMAIN s.ai.services <=> a \in ServicesIn(f)

\* A command that holds every key hands them all to the save.
LEMMA SaveKeeps ==
  ASSUME SecretInv, NEW c \in Callers, c # "snapshot", NEW s, NEW copy,
         HoldsKeys(s), copy = call[c].copy, c = "whole" => s = copy,
         c \in Windows => HoldsKeys(copy),
         PresentIn(Base(c, s, copy), file'),
         keys' = keys, origin' = origin, Save(c, s, copy)
  PROVE  /\ CallOK(c)' /\ Present(c)' /\ KeptFor(c)' /\ ReadTruly(c)'
         /\ DOMAIN call' = Callers /\ touched \subseteq touched'
         /\ \A d \in Callers \ {c} : call'[d] = call[d]
<1>1. CallOK(c) /\ DOMAIN call = Callers /\ origin \in [Accounts -> Texts \cup {Absent}]
  BY CallerFacts
<1>2. PICK m \in Changes(c, s, copy) :
        /\ call' = [call EXCEPT ![c] = [call[c] EXCEPT !.pc = "ids", !.s = Synced(c, m.s), !.meant = m.meant]]
        /\ touched' = touched \cup DOMAIN m.meant
  BY DEF Save
<1>. DEFINE v == call[c]
            w == [v EXCEPT !.pc = "ids", !.s = Synced(c, m.s), !.meant = m.meant]
<1>3. call' = [call EXCEPT ![c] = w]
  BY <1>1, <1>2
<1>4. copy \in SettingsRecord /\ s \in SettingsRecord
  BY <1>1 DEF CallOK, HoldsKeys
<1>5. /\ m.s \in SettingsRecord
      /\ \A a \in Accounts \ DOMAIN m.meant :
           /\ a \in Services =>
                (a \in DOMAIN m.s.ai.services <=> a \in DOMAIN Base(c, s, copy).ai.services)
           /\ \A r \in Texts \cup {Absent} :
                Carries(s, a, r) /\ (c \in Windows => Carries(copy, a, r)) => Carries(m.s, a, r)
  BY <1>4, ChangesKeep
<1>6. Synced(c, m.s) \in SettingsRecord /\ KeepsKeys(m.s, Synced(c, m.s))
  BY <1>5, SyncedKeeps
<1>7. /\ DOMAIN w = CallFields /\ w.pc = "ids" /\ w.use = v.use
      /\ w.todo = v.todo /\ w.s = Synced(c, m.s) /\ w.copy = v.copy /\ w.ids = v.ids
      /\ w.plain = v.plain
  BY <1>1 DEF CallOK, CallFields
<1>. HIDE DEF w
<1>8. call'[c] = w /\ DOMAIN call' = Callers /\ \A d \in Callers \ {c} : call'[d] = call[d]
  BY <1>1, <1>3
<1>9. CallOK(c)'
  BY <1>1, <1>6, <1>7, <1>8 DEF CallOK, SavingAt
<1>10. ~UsesCopy(c)'
  BY <1>7, <1>8 DEF UsesCopy
<1>11. Present(c)'
  <2>. SUFFICES ASSUME NEW a \in Services \ touched'
       PROVE  a \in DOMAIN Synced(c, m.s).ai.services <=> a \in ServicesIn(file')
    BY <1>7, <1>8, <1>10 DEF Present
  <2>1. a \in Services \ touched /\ a \in Accounts \ DOMAIN m.meant
    BY <1>2 DEF Accounts
  <2>2. a \in DOMAIN m.s.ai.services <=> a \in ServicesIn(file')
    BY <1>5, <2>1 DEF PresentIn
  <2>. QED
    BY <1>6, <2>2 DEF KeepsKeys, SameServices
<1>12. KeptFor(c)'
  <2>. SUFFICES ASSUME NEW a \in Accounts \ touched'
       PROVE  keys[a] = origin[a] /\ Carries(Synced(c, m.s), a, origin[a])
    BY <1>7, <1>8, <1>10 DEF KeptFor, Carries
  <2>1. a \in Accounts \ touched /\ a \in Accounts \ DOMAIN m.meant
    BY <1>2
  <2>2. origin[a] \in Texts \cup {Absent}
    BY <1>1
  <2>3. keys[a] = origin[a] /\ Carries(s, a, origin[a]) /\ (c \in Windows => Carries(copy, a, origin[a]))
    BY <2>1 DEF HoldsKeys
  <2>4. Carries(m.s, a, origin[a])
    BY <1>5, <2>1, <2>2, <2>3
  <2>. QED
    BY <1>6, <2>2, <2>3, <2>4 DEF KeepsKeys
<1>13. ReadTruly(c)'
  BY <1>7, <1>8 DEF ReadTruly
<1>. QED
  BY <1>2, <1>8, <1>9, <1>11, <1>12, <1>13

LEMMA TakeLockKeeps == ASSUME SecretInv, NEW c \in Callers, TakeLock(c) PROVE SecretInv'
<1>. DEFINE v == call[c]
<1>1. CallOK(c) /\ Present(c) /\ KeptFor(c) /\ KeysOK /\ FileOK /\ Origins /\ DOMAIN call = Callers
  BY CallerFacts
<1>2. v.pc = "waiting" /\ c \notin Unlocked /\ UNCHANGED <<file, keys, origin>>
  BY <1>1 DEF TakeLock, CallOK
<1>3. c \in Windows => UsesCopy(c)
  BY <1>2 DEF UsesCopy
<1>4. c \in Windows => HoldsKeys(v.copy) /\ PresentIn(v.copy, file)
  BY <1>1, <1>3 DEF HoldsKeys, PresentIn, Present, KeptFor, CallOK
<1>5. CASE c = "whole"
  <2>1. Save(c, v.copy, v.copy)
    BY <1>5 DEF TakeLock
  <2>2. Base(c, v.copy, v.copy) = v.copy /\ c # "snapshot" /\ c \in Windows
    BY <1>5 DEF Base, Windows
  <2>3. HoldsKeys(v.copy) /\ PresentIn(v.copy, file')
    BY <1>2, <1>4, <2>2
  <2>4. /\ CallOK(c)' /\ Present(c)' /\ KeptFor(c)' /\ ReadTruly(c)'
        /\ DOMAIN call' = Callers /\ touched \subseteq touched'
        /\ \A d \in Callers \ {c} : call'[d] = call[d]
    BY <1>2, <2>1, <2>2, <2>3, SaveKeeps
  <2>5. Leaves(c)
    BY <1>2, <2>4 DEF Leaves
  <2>6. KeysOK' /\ FileOK'
    BY <1>1, <1>2 DEF KeysOK, FileOK, FlatFits
  <2>7. Origins'
    BY <1>1, <1>2, <2>4 DEF Origins, Recoverable, Plaintext
  <2>. QED
    BY <2>4, <2>5, <2>6, <2>7, StepKeeps
<1>6. CASE c # "whole"
  <2>. DEFINE w == [v EXCEPT !.pc = "read", !.use = "base"]
  <2>1. call' = [call EXCEPT ![c] = w] /\ UNCHANGED <<file, keys, touched, origin>>
    BY <1>1, <1>6 DEF TakeLock
  <2>2. /\ DOMAIN w = CallFields /\ w.pc = "read" /\ w.use = "base"
        /\ w.todo = v.todo /\ w.s = v.s /\ w.copy = v.copy /\ w.ids = v.ids /\ w.plain = v.plain
    BY <1>1 DEF CallOK, CallFields
  <2>. HIDE DEF w
  <2>3. Leaves(c) /\ KeysOK' /\ FileOK' /\ Origins' /\ call'[c] = w
    BY <2>1, QuietStep
  <2>4. CallOK(c)'
    BY <1>1, <1>2, <1>6, <2>2, <2>3 DEF CallOK, SavingAt, Unlocked
  <2>5. UsesCopy(c)' => UsesCopy(c)
    BY <1>3 DEF UsesCopy
  <2>6. Present(c)' /\ KeptFor(c)' /\ ReadTruly(c)'
    BY <1>1, <2>1, <2>2, <2>3, <2>5 DEF Present, KeptFor, ReadTruly, SavingAt, Carries
  <2>. QED
    BY <2>3, <2>4, <2>6, StepKeeps
<1>. QED
  BY <1>5, <1>6

LEMMA ReadFileKeeps == ASSUME SecretInv, NEW c \in Callers, ReadFile(c) PROVE SecretInv'
<1>. DEFINE v == call[c]
            s == [Parsed(file) EXCEPT !.model = "v3"]
            w == [v EXCEPT !.pc = "keys", !.s = s, !.plain = file.model # "v3",
                           !.todo = AccountsOf(Parsed(file))]
<1>1. CallOK(c) /\ Present(c) /\ KeptFor(c) /\ FileOK /\ Origins /\ DOMAIN call = Callers
  BY CallerFacts
<1>2. v.pc = "read" /\ file # Absent /\ file \in SettingsRecord /\ FlatFits(file)
  BY <1>1 DEF ReadFile, FileOK
<1>3. call' = [call EXCEPT ![c] = w] /\ UNCHANGED <<file, keys, touched, origin>>
  BY <1>1 DEF ReadFile, Unaccepted
<1>4. /\ s \in SettingsRecord /\ SameServices(file, s)
      /\ AccountsOf(Parsed(file)) = AccountsOf(s)
      /\ \A a \in Accounts : Plaintext(s, a) = Plaintext(file, a)
  BY <1>2, ParsedFits
<1>. HIDE DEF s
<1>5. /\ DOMAIN w = CallFields /\ w.pc = "keys" /\ w.use = v.use /\ w.plain \in BOOLEAN
      /\ w.todo = AccountsOf(s) /\ w.s = s /\ w.copy = v.copy /\ w.ids = v.ids
  BY <1>1, <1>4 DEF CallOK, CallFields
<1>. HIDE DEF w
<1>6. Leaves(c) /\ KeysOK' /\ FileOK' /\ Origins' /\ call'[c] = w
  BY <1>3, QuietStep
<1>7. AccountsOf(s) \subseteq Accounts
  BY <1>4, AccountsFit
<1>8. CallOK(c)'
  BY <1>1, <1>4, <1>5, <1>6, <1>7 DEF CallOK, SavingAt
<1>9. UsesCopy(c)' => UsesCopy(c)
  BY <1>2, <1>5, <1>6 DEF UsesCopy
<1>10. \A a \in Services : a \in DOMAIN s.ai.services <=> a \in ServicesIn(file)
  BY <1>2, <1>4 DEF SameServices, ServicesIn
<1>11. Present(c)'
  BY <1>1, <1>3, <1>5, <1>6, <1>9, <1>10 DEF Present, SavingAt
<1>12. KeptFor(c)'
  <2>1. \A a \in Accounts \ touched : keys[a] = Absent => Plaintext(s, a) = origin[a]
    BY <1>1, <1>2, <1>4 DEF Origins, Recoverable
  <2>2. ASSUME NEW a \in Accounts \ touched, a \notin AccountsOf(s)
        PROVE  keys[a] = origin[a] /\ Carries(s, a, origin[a])
    <3>1. a # "gemini" /\ a \notin DOMAIN s.ai.services
      BY <2>2 DEF AccountsOf
    <3>2. Plaintext(s, a) = Absent /\ Carries(s, a, origin[a])
      BY <3>1 DEF Plaintext, Carries
    <3>. QED
      BY <1>1, <1>2, <1>4, <3>2 DEF Origins, Recoverable
  <2>3. UsesCopy(c)' => \A a \in Accounts \ touched : keys[a] = origin[a] /\ Carries(v.copy, a, origin[a])
    BY <1>1, <1>9 DEF KeptFor
  <2>. QED
    BY <1>3, <1>5, <1>6, <2>1, <2>2, <2>3 DEF KeptFor, SavingAt, Carries
<1>13. ReadTruly(c)'
  <2>1. \A a \in Accounts : Plaintext(file, a) # Absent => a \in AccountsOf(s)
    BY <1>4 DEF Plaintext, AccountsOf, Accounts
  <2>. QED
    BY <1>2, <1>3, <1>4, <1>5, <1>6, <2>1 DEF ReadTruly, Plaintext
<1>. QED
  BY <1>6, <1>8, <1>11, <1>12, <1>13, StepKeeps

LEMMA ReadIdsKeeps == ASSUME SecretInv, NEW c \in Callers, ReadIds(c) PROVE SecretInv'
<1>. DEFINE v == call[c]
            s == Normalized(v.s)
            w == [v EXCEPT !.pc = "secrets", !.s = s, !.todo = AccountsOf(s), !.ids = ServicesIn(file)]
<1>1. /\ CallOK(c) /\ Present(c) /\ KeptFor(c) /\ FileOK /\ KeysOK /\ DOMAIN call = Callers
      /\ origin \in [Accounts -> Texts \cup {Absent}]
  BY CallerFacts
<1>2. v.pc = "ids" /\ v.s \in SettingsRecord
  BY <1>1 DEF ReadIds, CallOK
<1>3. call' = [call EXCEPT ![c] = w] /\ UNCHANGED <<file, keys, touched, origin>>
  BY <1>1 DEF ReadIds, Unaccepted
<1>4. /\ s \in SettingsRecord /\ SameServices(v.s, s)
      /\ \A a \in Accounts : Carries(v.s, a, keys[a]) => Carries(s, a, keys[a])
  BY <1>1, <1>2, NormalizedKeeps
<1>. HIDE DEF s
<1>5. /\ DOMAIN w = CallFields /\ w.pc = "secrets" /\ w.use = v.use /\ w.plain = v.plain
      /\ w.todo = AccountsOf(s) /\ w.s = s /\ w.copy = v.copy /\ w.ids = ServicesIn(file)
  BY <1>1 DEF CallOK, CallFields
<1>. HIDE DEF w
<1>6. Leaves(c) /\ KeysOK' /\ FileOK' /\ Origins' /\ call'[c] = w
  BY <1>3, QuietStep
<1>7. AccountsOf(s) \subseteq Accounts
  BY <1>4, AccountsFit
<1>8. ServicesIn(file) \subseteq Services
  BY <1>1, AccountsFit DEF FileOK, ServicesIn
<1>9. CallOK(c)'
  BY <1>1, <1>4, <1>5, <1>6, <1>7, <1>8 DEF CallOK, SavingAt
<1>10. ~UsesCopy(c)'
  BY <1>5, <1>6 DEF UsesCopy
<1>11. \A a \in Services \ touched : a \in DOMAIN s.ai.services <=> a \in ServicesIn(file)
  BY <1>1, <1>2, <1>4 DEF SameServices, Present, SavingAt
<1>12. Present(c)'
  BY <1>3, <1>5, <1>6, <1>10, <1>11 DEF Present
<1>13. \A a \in Accounts \ touched : keys[a] = origin[a] /\ Carries(s, a, origin[a])
  BY <1>1, <1>2, <1>4 DEF KeptFor, SavingAt
<1>14. KeptFor(c)'
  BY <1>3, <1>5, <1>6, <1>10, <1>13 DEF KeptFor, SavingAt, Carries
<1>15. ReadTruly(c)'
  BY <1>5, <1>6 DEF ReadTruly
<1>. QED
  BY <1>6, <1>9, <1>12, <1>14, <1>15, StepKeeps

\* A key in plain text is a text.
LEMMA PlaintextFits ==
  ASSUME NEW s \in SettingsRecord, NEW a \in Accounts
  PROVE  Plaintext(s, a) \in Texts \cup {Absent}
<1>1. /\ s.flat.key \in Texts \cup {Absent} /\ s.ai.gem \in Entries /\ s.ai.services \in ServiceLists
  BY SettingsParts
<1>2. \A i \in DOMAIN s.ai.services : s.ai.services[i] \in Entries
  BY <1>1, ServiceListFits
<1>. QED
  BY <1>1, <1>2 DEF Plaintext, Entries

\* The entry of an account of s is of the key that s is said to carry.
LEMMA EntryFits ==
  ASSUME NEW s \in SettingsRecord, NEW a \in AccountsOf(s)
  PROVE  /\ Entry(s, a) \in Entries
         /\ \A r \in Texts \cup {Absent} : Carries(s, a, r) => Of(Entry(s, a).key, Entry(s, a).has, r)
<1>1. /\ s.ai.gem \in Entries /\ s.ai.services \in ServiceLists
  BY SettingsParts
<1>2. \A i \in DOMAIN s.ai.services : s.ai.services[i] \in Entries
  BY <1>1, ServiceListFits
<1>. QED
  BY <1>1, <1>2 DEF Entry, AccountsOf, Carries

LEMMA LoadKeyKeeps == ASSUME SecretInv, NEW c \in Callers, LoadKey(c) PROVE SecretInv'
<1>. DEFINE v == call[c]
<1>1. /\ CallOK(c) /\ Present(c) /\ KeptFor(c) /\ ReadTruly(c) /\ FileOK /\ KeysOK /\ Origins
      /\ DOMAIN call = Callers /\ origin \in [Accounts -> Texts \cup {Absent}]
  BY CallerFacts
<1>2. /\ v.pc = "keys" /\ UNCHANGED <<file, touched, origin>>
      /\ v.s \in SettingsRecord /\ v.todo \subseteq AccountsOf(v.s) /\ v.todo \subseteq Accounts
  BY <1>1 DEF LoadKey, Unaccepted, CallOK
<1>3. PICK a \in v.todo :
        LET legacy == Plaintext(v.s, a)
            key == IF keys[a] # Absent THEN keys[a] ELSE legacy
        IN  /\ keys' = [keys EXCEPT ![a] = key]
            /\ call' = [call EXCEPT ![c] = [call[c] EXCEPT !.s = SetKey(@, a, key),
                                                     !.plain = @ \/ legacy # Absent,
                                                     !.todo = @ \ {a}]]
  BY DEF LoadKey
<1>. DEFINE legacy == Plaintext(v.s, a)
            key == IF keys[a] # Absent THEN keys[a] ELSE legacy
            s == SetKey(v.s, a, key)
            w == [v EXCEPT !.s = s, !.plain = v.plain \/ legacy # Absent, !.todo = v.todo \ {a}]
<1>4. /\ keys' = [keys EXCEPT ![a] = key] /\ call' = [call EXCEPT ![c] = w]
  <2>1. keys' = [keys EXCEPT ![a] = key]
    BY <1>3
  <2>2. call' = [call EXCEPT ![c] = w]
    BY <1>3, Zenon
  <2>. QED
    BY <2>1, <2>2
<1>5. a \in Accounts /\ a \in AccountsOf(v.s)
  BY <1>2
<1>6. legacy \in Texts \cup {Absent} /\ key \in Texts \cup {Absent}
  BY <1>1, <1>2, <1>5, PlaintextFits DEF KeysOK
<1>7. /\ s \in SettingsRecord /\ SameServices(v.s, s) /\ Carries(s, a, key)
      /\ \A b \in Accounts : b # a =>
           /\ Plaintext(s, b) = Plaintext(v.s, b)
           /\ \A r \in Texts \cup {Absent} : Carries(v.s, b, r) => Carries(s, b, r)
  BY <1>2, <1>5, <1>6, SetKeyFits
<1>8. /\ keys' \in [Accounts -> Texts \cup {Absent}] /\ keys'[a] = key
      /\ \A b \in Accounts \ {a} : keys'[b] = keys[b]
  BY <1>1, <1>4, <1>5, <1>6 DEF KeysOK
<1>9. a \notin touched => key = origin[a]
  <2>. SUFFICES ASSUME a \notin touched PROVE key = origin[a]
    OBVIOUS
  <2>1. CASE keys[a] # Absent
    BY <1>1, <1>5, <2>1 DEF Origins, Recoverable
  <2>2. CASE keys[a] = Absent
    BY <1>1, <1>2, <1>5, <2>2 DEF KeptFor
  <2>. QED
    BY <2>1, <2>2
<1>10. key = Absent => keys[a] = Absent /\ legacy = Absent
  OBVIOUS
<1>11. AccountsOf(s) = AccountsOf(v.s)
  BY <1>7 DEF SameServices, AccountsOf
<1>. HIDE DEF s
<1>12. /\ DOMAIN w = CallFields /\ w.pc = "keys" /\ w.use = v.use /\ w.todo = v.todo \ {a}
       /\ w.s = s /\ w.copy = v.copy /\ w.ids = v.ids /\ w.plain \in BOOLEAN
       /\ ~w.plain => ~v.plain /\ legacy = Absent
  BY <1>1, <1>2 DEF CallOK, CallFields
<1>. HIDE DEF w, key, legacy
<1>13. call'[c] = w /\ DOMAIN call' = Callers /\ \A d \in Callers \ {c} : call'[d] = call[d]
  BY <1>1, <1>4
<1>14. CallOK(c)'
  BY <1>1, <1>2, <1>7, <1>11, <1>12, <1>13 DEF CallOK, SavingAt
<1>15. KeysOK' /\ FileOK'
  BY <1>1, <1>2, <1>8 DEF KeysOK, FileOK, FlatFits
<1>16. Leaves(c)
  BY <1>2, <1>8, <1>9, <1>10, <1>13 DEF Leaves
<1>17. Origins'
  <2>. SUFFICES ASSUME NEW b \in Accounts \ touched PROVE Recoverable(b)' = origin[b] /\ (file = Absent => origin[b] = Absent)
    BY <1>2 DEF Origins
  <2>1. Recoverable(b) = origin[b] /\ (file = Absent => origin[b] = Absent)
    BY <1>1 DEF Origins
  <2>2. CASE b # a
    BY <1>2, <1>8, <2>1, <2>2 DEF Recoverable, Plaintext
  <2>3. CASE b = a /\ key # Absent
    BY <1>8, <1>9, <2>1, <2>3 DEF Recoverable
  <2>4. CASE b = a /\ key = Absent
    BY <1>2, <1>8, <1>10, <2>1, <2>4 DEF Recoverable, Plaintext
  <2>. QED
    BY <2>2, <2>3, <2>4
<1>18. UsesCopy(c)' <=> UsesCopy(c)
  BY <1>2, <1>12, <1>13 DEF UsesCopy
<1>19. Present(c)'
  BY <1>1, <1>2, <1>7, <1>12, <1>13, <1>18 DEF Present, SameServices
<1>20. KeptFor(c)'
  <2>. SUFFICES ASSUME NEW b \in Accounts \ touched
       PROVE  /\ IF b \in v.todo \ {a} THEN keys'[b] = Absent => Plaintext(s, b) = origin[b]
                 ELSE keys'[b] = origin[b] /\ Carries(s, b, origin[b])
              /\ UsesCopy(c) => keys'[b] = origin[b] /\ Carries(v.copy, b, origin[b])
    BY <1>2, <1>12, <1>13, <1>18 DEF KeptFor, SavingAt, Carries
  <2>1. origin[b] \in Texts \cup {Absent}
    BY <1>1
  <2>2. CASE b = a
    BY <1>1, <1>7, <1>8, <1>9, <2>2 DEF KeptFor
  <2>3. CASE b # a
    BY <1>1, <1>2, <1>7, <1>8, <2>1, <2>3 DEF KeptFor
  <2>. QED
    BY <2>2, <2>3
<1>21. ReadTruly(c)'
  <2>. SUFFICES ASSUME ~w.plain, NEW b \in Accounts, Plaintext(file, b) # Absent
       PROVE  b \in v.todo \ {a} /\ Plaintext(s, b) # Absent
    BY <1>1, <1>2, <1>12, <1>13 DEF ReadTruly, Plaintext
  <2>1. b \in v.todo /\ Plaintext(v.s, b) # Absent
    BY <1>1, <1>2, <1>12 DEF ReadTruly
  <2>2. b # a
    BY <1>12, <2>1 DEF legacy
  <2>. QED
    BY <1>7, <2>1, <2>2
<1>. QED
  BY <1>14, <1>15, <1>16, <1>17, <1>19, <1>20, <1>21, StepKeeps

\* A step that changes no key nobody has touched.
LEMMA KeysStep ==
  ASSUME SecretInv, NEW c \in Callers, NEW w, call' = [call EXCEPT ![c] = w],
         UNCHANGED <<file, touched, origin>>, KeysOK',
         \A a \in Accounts \ touched : keys'[a] = keys[a]
  PROVE  Leaves(c) /\ FileOK' /\ Origins' /\ call'[c] = w
<1>1. DOMAIN call = Callers
  BY DEF SecretInv, SettingsOK
<1>2. Leaves(c) /\ call'[c] = w
  BY <1>1 DEF Leaves
<1>3. FileOK'
  BY DEF SecretInv, SettingsOK, FileOK, FlatFits
<1>4. Origins'
  BY DEF SecretInv, KeyInv, Origins, Recoverable, Plaintext
<1>. QED
  BY <1>2, <1>3, <1>4

LEMMA PutKeyKeeps == ASSUME SecretInv, NEW c \in Callers, PutKey(c) PROVE SecretInv'
<1>. DEFINE v == call[c]
<1>1. /\ CallOK(c) /\ Present(c) /\ KeptFor(c) /\ KeysOK /\ DOMAIN call = Callers
      /\ origin \in [Accounts -> Texts \cup {Absent}]
  BY CallerFacts
<1>2. /\ v.pc = "secrets" /\ UNCHANGED <<file, touched, origin>>
      /\ v.s \in SettingsRecord /\ v.todo \subseteq AccountsOf(v.s) /\ v.todo \subseteq Accounts
  BY <1>1 DEF PutKey, Unaccepted, CallOK
<1>3. PICK a \in v.todo :
        LET e == Entry(v.s, a)
        IN  /\ keys' = [keys EXCEPT ![a] = IF e.key # Absent THEN e.key
                                           ELSE IF ~e.has THEN Absent ELSE @]
            /\ call' = [call EXCEPT ![c] =
                          [call[c] EXCEPT !.todo = @ \ {a},
                                    !.pc = IF call[c].todo = {a} THEN "removed" ELSE @]]
  BY DEF PutKey
<1>. DEFINE e == Entry(v.s, a)
            key == IF e.key # Absent THEN e.key ELSE IF ~e.has THEN Absent ELSE keys[a]
            p == IF v.todo = {a} THEN "removed" ELSE v.pc
            w == [v EXCEPT !.todo = v.todo \ {a}, !.pc = p]
<1>4. a \in Accounts /\ a \in AccountsOf(v.s)
  BY <1>2
<1>5. keys' = [keys EXCEPT ![a] = key] /\ call' = [call EXCEPT ![c] = w]
  <2>1. keys' = [keys EXCEPT ![a] = key]
    BY <1>3, Zenon
  <2>2. call' = [call EXCEPT ![c] = w]
    BY <1>3, Zenon
  <2>. QED
    BY <2>1, <2>2
<1>6. /\ e \in Entries
      /\ \A r \in Texts \cup {Absent} : Carries(v.s, a, r) => Of(e.key, e.has, r)
  BY <1>2, <1>4, EntryFits
<1>. HIDE DEF e
<1>7. key \in Texts \cup {Absent}
  BY <1>1, <1>4, <1>6 DEF Entries, KeysOK
<1>8. a \notin touched => key = keys[a]
  <2>1. a \notin touched => keys[a] = origin[a] /\ Of(e.key, e.has, origin[a])
    BY <1>1, <1>2, <1>4, <1>6 DEF KeptFor, SavingAt
  <2>. QED
    BY <2>1 DEF Of
<1>. HIDE DEF key
<1>9. KeysOK' /\ \A b \in Accounts \ touched : keys'[b] = keys[b]
  BY <1>1, <1>4, <1>5, <1>7, <1>8 DEF KeysOK
<1>10. p \in {"secrets", "removed"}
  BY <1>2
<1>. HIDE DEF p
<1>11. /\ DOMAIN w = CallFields /\ w.pc = p /\ w.use = v.use /\ w.todo = v.todo \ {a}
       /\ w.s = v.s /\ w.copy = v.copy /\ w.ids = v.ids /\ w.plain = v.plain
  BY <1>1 DEF CallOK, CallFields
<1>. HIDE DEF w
<1>12. Leaves(c) /\ FileOK' /\ Origins' /\ call'[c] = w
  BY <1>2, <1>5, <1>9, KeysStep
<1>13. CallOK(c)'
  BY <1>1, <1>2, <1>10, <1>11, <1>12 DEF CallOK, SavingAt
<1>14. ~UsesCopy(c)'
  BY <1>10, <1>11, <1>12 DEF UsesCopy
<1>15. Present(c)'
  BY <1>1, <1>2, <1>10, <1>11, <1>12, <1>14 DEF Present, SavingAt
<1>16. KeptFor(c)'
  BY <1>1, <1>2, <1>9, <1>10, <1>11, <1>12, <1>14 DEF KeptFor, SavingAt, Carries
<1>17. ReadTruly(c)'
  BY <1>10, <1>11, <1>12 DEF ReadTruly
<1>. QED
  BY <1>9, <1>12, <1>13, <1>15, <1>16, <1>17, StepKeeps

LEMMA DropRemovedKeeps == ASSUME SecretInv, NEW c \in Callers, DropRemoved(c) PROVE SecretInv'
<1>. DEFINE v == call[c]
            gone == v.ids \ DOMAIN v.s.ai.services
            w == [v EXCEPT !.pc = "write"]
<1>1. /\ CallOK(c) /\ Present(c) /\ KeptFor(c) /\ KeysOK /\ DOMAIN call = Callers
  BY CallerFacts
<1>2. /\ v.pc = "removed" /\ UNCHANGED <<file, touched, origin>> /\ call' = [call EXCEPT ![c] = w]
      /\ keys' = [a \in Accounts |-> IF a \in gone THEN Absent ELSE keys[a]]
      /\ v.ids \subseteq Services
  BY <1>1 DEF DropRemoved, Unaccepted, CallOK
<1>3. \A a \in Accounts \ touched : a \notin gone
  BY <1>1, <1>2 DEF Present
<1>4. KeysOK' /\ \A b \in Accounts \ touched : keys'[b] = keys[b]
  BY <1>1, <1>2, <1>3 DEF KeysOK
<1>5. /\ DOMAIN w = CallFields /\ w.pc = "write" /\ w.use = v.use /\ w.todo = v.todo
      /\ w.s = v.s /\ w.copy = v.copy /\ w.ids = v.ids /\ w.plain = v.plain
  BY <1>1 DEF CallOK, CallFields
<1>. HIDE DEF w
<1>6. Leaves(c) /\ FileOK' /\ Origins' /\ call'[c] = w
  BY <1>2, <1>4, KeysStep
<1>7. CallOK(c)'
  BY <1>1, <1>5, <1>6 DEF CallOK, SavingAt
<1>8. ~UsesCopy(c)'
  BY <1>5, <1>6 DEF UsesCopy
<1>9. Present(c)'
  BY <1>1, <1>2, <1>5, <1>6, <1>8 DEF Present, SavingAt
<1>10. KeptFor(c)'
  BY <1>1, <1>2, <1>4, <1>5, <1>6, <1>8 DEF KeptFor, SavingAt, Carries
<1>11. ReadTruly(c)'
  BY <1>5, <1>6 DEF ReadTruly
<1>. QED
  BY <1>4, <1>6, <1>7, <1>9, <1>10, <1>11, StepKeeps

\* The file after a write of settings s, or as it was found without keys.
LEMMA OriginsAfterWrite ==
  ASSUME SecretInv, FileIsRedacted', keys' = keys, origin' = origin, touched \subseteq touched',
         \A a \in Accounts \ touched : keys[a] = origin[a]
  PROVE  Origins'
<1>. SUFFICES ASSUME NEW a \in Accounts \ touched'
     PROVE  Recoverable(a)' = origin[a] /\ (file' = Absent => origin[a] = Absent)
  BY DEF Origins
<1>1. keys'[a] = origin[a] /\ file' # Absent /\ Plaintext(file, a)' = Absent
  BY DEF FileIsRedacted
<1>. QED
  BY <1>1 DEF Recoverable

\* A load that has seen to the file keeps the invariant, whatever it was for.
LEMMA LoadedKeeps ==
  ASSUME SecretInv, NEW c \in Callers, NEW s, call[c].pc \in {"read", "keys"},
         HoldsKeys(s), PresentIn(s, file), PresentIn(s, file'), Loaded(c, s),
         FileOK', FileIsRedacted', keys' = keys, origin' = origin
  PROVE  SecretInv'
<1>. DEFINE v == call[c]
<1>1. /\ CallOK(c) /\ Present(c) /\ KeptFor(c) /\ KeysOK /\ Origins
      /\ DOMAIN call = Callers /\ origin \in [Accounts -> Texts \cup {Absent}]
  BY CallerFacts
<1>2. KeysOK' /\ s \in SettingsRecord /\ v.use \in {"copy", "base", "result"}
  BY <1>1 DEF KeysOK, HoldsKeys, CallOK
<1>3. touched \subseteq touched' => Origins'
  BY OriginsAfterWrite DEF HoldsKeys
<1>4. \A a \in Services \ touched : a \in ServicesIn(file') <=> a \in ServicesIn(file)
  BY DEF PresentIn
<1>5. ASSUME NEW w, call' = [call EXCEPT ![c] = w], touched' = touched
      PROVE  Leaves(c) /\ call'[c] = w /\ Origins'
  <2>1. call'[c] = w /\ DOMAIN call' = Callers /\ \A d \in Callers \ {c} : call'[d] = call[d]
    BY <1>1, <1>5
  <2>. QED
    BY <1>3, <1>4, <1>5, <2>1 DEF Leaves
<1>6. CASE v.use = "copy"
  <2>. DEFINE r == Redacted(s)
              w == [v EXCEPT !.pc = "waiting", !.copy = r]
  <2>1. call' = [call EXCEPT ![c] = w] /\ touched' = touched
    BY <1>1, <1>6 DEF Loaded
  <2>2. r \in SettingsRecord /\ KeepsKeys(s, r)
    BY <1>2, RedactedKeeps
  <2>. HIDE DEF r
  <2>3. /\ DOMAIN w = CallFields /\ w.pc = "waiting" /\ w.use = "copy" /\ w.todo = v.todo
        /\ w.s = v.s /\ w.copy = r /\ w.ids = v.ids /\ w.plain = v.plain
    BY <1>1, <1>6 DEF CallOK, CallFields
  <2>. HIDE DEF w
  <2>4. Leaves(c) /\ call'[c] = w /\ Origins'
    BY <1>5, <2>1
  <2>5. CallOK(c)'
    BY <1>1, <1>6, <2>2, <2>3, <2>4 DEF CallOK, SavingAt, Windows, Unlocked
  <2>6. Present(c)'
    BY <2>1, <2>2, <2>3, <2>4 DEF Present, SavingAt, KeepsKeys, SameServices, PresentIn
  <2>7. \A a \in Accounts \ touched : keys[a] = origin[a] /\ Carries(r, a, origin[a])
    BY <1>1, <2>2 DEF HoldsKeys, KeepsKeys
  <2>8. KeptFor(c)'
    BY <2>1, <2>3, <2>4, <2>7 DEF KeptFor, SavingAt, Carries
  <2>9. ReadTruly(c)'
    BY <2>3, <2>4 DEF ReadTruly
  <2>. QED
    BY <1>2, <2>4, <2>5, <2>6, <2>8, <2>9, StepKeeps
<1>7. ASSUME call' = [call EXCEPT ![c].pc = "done"], touched' = touched
      PROVE  SecretInv'
  <2>. DEFINE w == [v EXCEPT !.pc = "done"]
  <2>1. call' = [call EXCEPT ![c] = w]
    BY <1>1, <1>7
  <2>2. /\ DOMAIN w = CallFields /\ w.pc = "done" /\ w.use = v.use /\ w.todo = v.todo
        /\ w.s = v.s /\ w.copy = v.copy /\ w.ids = v.ids /\ w.plain = v.plain
    BY <1>1 DEF CallOK, CallFields
  <2>. HIDE DEF w
  <2>3. Leaves(c) /\ call'[c] = w /\ Origins'
    BY <1>5, <1>7, <2>1
  <2>4. CallOK(c)'
    BY <1>1, <2>2, <2>3 DEF CallOK, SavingAt
  <2>5. Present(c)' /\ KeptFor(c)' /\ ReadTruly(c)'
    BY <2>2, <2>3 DEF Present, KeptFor, ReadTruly, SavingAt, UsesCopy
  <2>. QED
    BY <1>2, <2>3, <2>4, <2>5, StepKeeps
<1>8. CASE v.use = "result"
  BY <1>7, <1>8 DEF Loaded
<1>9. CASE v.use = "base" /\ (c # "factory" \/ s.transcription = "outdated")
  <2>1. Save(c, s, v.copy)
    BY <1>9 DEF Loaded
  <2>2. c \notin {"snapshot", "whole"}
    BY <1>1, <1>9 DEF CallOK
  <2>3. c \in Windows => UsesCopy(c)
    BY <1>9 DEF UsesCopy
  <2>4. c \in Windows => HoldsKeys(v.copy) /\ PresentIn(v.copy, file')
    BY <1>1, <1>4, <2>3 DEF HoldsKeys, PresentIn, Present, KeptFor, CallOK
  <2>5. PresentIn(Base(c, s, v.copy), file')
    BY <2>4 DEF Base
  <2>6. /\ CallOK(c)' /\ Present(c)' /\ KeptFor(c)' /\ ReadTruly(c)'
        /\ DOMAIN call' = Callers /\ touched \subseteq touched'
        /\ \A d \in Callers \ {c} : call'[d] = call[d]
    BY <2>1, <2>2, <2>4, <2>5, SaveKeeps
  <2>7. Leaves(c)
    BY <1>4, <2>6 DEF Leaves
  <2>. QED
    BY <1>2, <1>3, <2>6, <2>7, StepKeeps
<1>10. CASE v.use = "base" /\ ~(c # "factory" \/ s.transcription = "outdated")
  <2>1. call' = [call EXCEPT ![c].pc = "done"] /\ touched' = touched
    BY <1>10 DEF Loaded
  <2>. QED
    BY <1>7, <2>1
<1>. QED
  BY <1>2, <1>6, <1>8, <1>9, <1>10

\* A redacted file is one, with the services of the settings.
LEMMA WrittenIsRedacted ==
  ASSUME NEW s \in SettingsRecord, file' = Redacted(s)
  PROVE  FileIsRedacted' /\ FileOK' /\ ServicesIn(file') = DOMAIN s.ai.services
<1>1. Redacted(s) # Absent /\ Redacted(s) \in SettingsRecord /\ FlatFits(Redacted(s))
      /\ ServicesIn(Redacted(s)) = DOMAIN s.ai.services
  BY RedactedFits
<1>2. \A a \in Accounts : Plaintext(Redacted(s), a) = Absent
  BY RedactedKeeps
<1>3. FileIsRedacted'
  BY <1>1, <1>2 DEF FileIsRedacted, Plaintext
<1>4. FileOK'
  BY <1>1 DEF FileOK, FlatFits
<1>. QED
  BY <1>1, <1>3, <1>4

LEMMA DefaultsKeep == ASSUME SecretInv, NEW c \in Callers, LoadWritesDefaults(c) PROVE SecretInv'
<1>1. /\ call[c].pc = "read" /\ file = Absent /\ file' = Redacted(Defaults)
      /\ Loaded(c, Defaults) /\ keys' = keys /\ origin' = origin
  BY DEF LoadWritesDefaults
<1>2. Defaults \in SettingsRecord /\ DOMAIN Defaults.ai.services = {}
      /\ \A a \in Accounts : Carries(Defaults, a, Absent)
  BY DefaultsFit
<1>3. FileIsRedacted' /\ FileOK' /\ ServicesIn(file') = {}
  BY <1>1, <1>2, WrittenIsRedacted
<1>4. \A a \in Accounts \ touched : origin[a] = Absent /\ keys[a] = Absent
  BY <1>1, CallerFacts DEF Origins, Recoverable
<1>5. HoldsKeys(Defaults)
  BY <1>2, <1>4 DEF HoldsKeys
<1>6. PresentIn(Defaults, file) /\ PresentIn(Defaults, file')
  BY <1>1, <1>2, <1>3 DEF PresentIn, ServicesIn
<1>. QED
  BY <1>1, <1>3, <1>5, <1>6, LoadedKeeps

LEMMA EndLoadKeeps == ASSUME SecretInv, NEW c \in Callers, EndLoad(c) PROVE SecretInv'
<1>. DEFINE v == call[c]
<1>1. /\ CallOK(c) /\ Present(c) /\ KeptFor(c) /\ ReadTruly(c) /\ FileOK
  BY CallerFacts
<1>2. /\ v.pc = "keys" /\ v.todo = {} /\ Loaded(c, v.s) /\ keys' = keys /\ origin' = origin
      /\ file' = IF v.plain THEN Redacted(v.s) ELSE file
      /\ v.s \in SettingsRecord
  BY <1>1 DEF EndLoad, CallOK
<1>3. HoldsKeys(v.s)
  BY <1>1, <1>2 DEF HoldsKeys, KeptFor
<1>4. PresentIn(v.s, file)
  BY <1>1, <1>2 DEF PresentIn, Present
<1>5. CASE v.plain
  <2>1. FileIsRedacted' /\ FileOK' /\ ServicesIn(file') = DOMAIN v.s.ai.services
    BY <1>2, <1>5, WrittenIsRedacted
  <2>2. PresentIn(v.s, file')
    BY <2>1 DEF PresentIn
  <2>. QED
    BY <1>2, <1>3, <1>4, <2>1, <2>2, LoadedKeeps
<1>6. CASE ~v.plain
  <2>1. file' = file
    BY <1>2, <1>6
  <2>2. FileIsRedacted'
    BY <1>1, <1>2, <1>6, <2>1 DEF ReadTruly, FileIsRedacted, Plaintext
  <2>3. FileOK'
    BY <1>1, <2>1 DEF FileOK, FlatFits
  <2>. QED
    BY <1>2, <1>3, <1>4, <2>1, <2>2, <2>3, LoadedKeeps
<1>. QED
  BY <1>5, <1>6

LEMMA WriteFileKeeps == ASSUME SecretInv, NEW c \in Callers, WriteFile(c) PROVE SecretInv'
<1>. DEFINE v == call[c]
            p == IF c = "factory" THEN "done" ELSE "read"
            w == [v EXCEPT !.pc = p, !.use = "result"]
<1>1. /\ CallOK(c) /\ Present(c) /\ KeptFor(c) /\ KeysOK /\ DOMAIN call = Callers
  BY CallerFacts
<1>2. /\ v.pc = "write" /\ file' = Redacted(v.s) /\ UNCHANGED <<keys, touched, origin>>
      /\ call' = [call EXCEPT ![c] = w] /\ v.s \in SettingsRecord
  BY <1>1 DEF WriteFile, CallOK
<1>3. FileIsRedacted' /\ FileOK' /\ ServicesIn(file') = DOMAIN v.s.ai.services
  BY <1>2, WrittenIsRedacted
<1>4. \A a \in Services \ touched : a \in ServicesIn(file') <=> a \in ServicesIn(file)
  BY <1>1, <1>2, <1>3 DEF Present, SavingAt
<1>5. \A a \in Accounts \ touched : keys[a] = origin[a]
  BY <1>1, <1>2 DEF KeptFor, SavingAt
<1>6. KeysOK' /\ Origins'
  BY <1>1, <1>2, <1>3, <1>5, OriginsAfterWrite DEF KeysOK
<1>7. p \in {"done", "read"}
  OBVIOUS
<1>. HIDE DEF p
<1>8. /\ DOMAIN w = CallFields /\ w.pc = p /\ w.use = "result" /\ w.todo = v.todo
      /\ w.s = v.s /\ w.copy = v.copy /\ w.ids = v.ids /\ w.plain = v.plain
  BY <1>1 DEF CallOK, CallFields
<1>. HIDE DEF w
<1>9. call'[c] = w /\ DOMAIN call' = Callers /\ \A d \in Callers \ {c} : call'[d] = call[d]
  BY <1>1, <1>2
<1>10. Leaves(c)
  BY <1>2, <1>3, <1>4, <1>9 DEF Leaves
<1>11. CallOK(c)'
  BY <1>1, <1>7, <1>8, <1>9 DEF CallOK, SavingAt
<1>12. Present(c)' /\ KeptFor(c)' /\ ReadTruly(c)'
  BY <1>3, <1>7, <1>8, <1>9 DEF Present, KeptFor, ReadTruly, SavingAt, UsesCopy
<1>. QED
  BY <1>3, <1>6, <1>10, <1>11, <1>12, StepKeeps

\* The files and keys this program starts with satisfy the invariant.
LEMMA StartIsKept ==
  ASSUME NEW start \in DOMAIN Stored, SettingsInit(start)
  PROVE  SecretInv
<1>. DEFINE f == Stored[start].file
            k == Stored[start].keys
<1>1. /\ file = f /\ keys = k /\ call = [c \in Callers |-> IdleCall]
      /\ origin = [a \in Accounts |-> Recoverable(a)]
  BY DEF SettingsInit
<1>2. /\ k \in [Accounts -> Texts \cup {Absent}]
      /\ f = Absent => \A a \in Accounts : k[a] = Absent
      /\ f # Absent => f \in SettingsRecord /\ FlatFits(f)
  BY StoredAssumption DEF FlatFits
<1>. HIDE DEF f, k
<1>3. KeysOK /\ FileOK
  BY <1>1, <1>2 DEF KeysOK, FileOK
<1>4. \A a \in Accounts : Recoverable(a) \in Texts \cup {Absent}
  BY <1>1, <1>2, PlaintextFits DEF Recoverable
<1>5. origin \in [Accounts -> Texts \cup {Absent}] /\ \A a \in Accounts : origin[a] = Recoverable(a)
  BY <1>1, <1>4
<1>6. Origins
  BY <1>1, <1>2, <1>5 DEF Origins, Recoverable
<1>7. /\ DOMAIN IdleCall = CallFields /\ IdleCall.pc = "idle" /\ IdleCall.use = "result"
      /\ IdleCall.todo = {} /\ IdleCall.s = Defaults /\ IdleCall.copy = Defaults
      /\ IdleCall.ids = {} /\ IdleCall.plain = FALSE
  BY DEF IdleCall, CallFields
<1>8. DOMAIN call = Callers /\ \A c \in Callers : call[c] = IdleCall
  BY <1>1
<1>9. ASSUME NEW c \in Callers PROVE CallOK(c) /\ Present(c) /\ KeptFor(c) /\ ReadTruly(c)
  <2>1. CallOK(c)
    BY <1>7, <1>8, DefaultsFit DEF CallOK, SavingAt
  <2>2. Present(c) /\ KeptFor(c) /\ ReadTruly(c)
    BY <1>7, <1>8 DEF Present, KeptFor, ReadTruly, UsesCopy, SavingAt
  <2>. QED
    BY <2>1, <2>2
<1>. QED
  BY <1>3, <1>5, <1>6, <1>8, <1>9 DEF SecretInv, SettingsOK, KeyInv

\* Nothing else changes it.
LEMMA StutterKeeps == ASSUME SecretInv, UNCHANGED settings PROVE SecretInv'
<1>1. UNCHANGED <<file, keys, call, touched, origin>>
  BY DEF settings
<1>2. KeysOK' /\ FileOK' /\ Origins'
  BY <1>1 DEF SecretInv, SettingsOK, KeyInv, KeysOK, FileOK, FlatFits, Origins, Recoverable, Plaintext
<1>3. ASSUME NEW c \in Callers
      PROVE  CallOK(c)' /\ Present(c)' /\ KeptFor(c)' /\ ReadTruly(c)'
  <2>1. CallOK(c) /\ Present(c) /\ KeptFor(c) /\ ReadTruly(c)
    BY CallerFacts
  <2>2. CallOK(c)' /\ (UsesCopy(c)' <=> UsesCopy(c))
    BY <1>1, <2>1 DEF CallOK, UsesCopy
  <2>3. Present(c)' /\ KeptFor(c)'
    BY <1>1, <2>1, <2>2 DEF Present, KeptFor, Plaintext, Carries
  <2>4. ReadTruly(c)'
    BY <1>1, <2>1 DEF ReadTruly, FileIsRedacted, Plaintext
  <2>. QED
    BY <2>2, <2>3, <2>4
<1>. QED
  BY <1>1, <1>2, <1>3 DEF SecretInv, SettingsOK, KeyInv

\* Every step of every caller keeps the invariant.
LEMMA SecretStep == ASSUME SecretInv, [SettingsNext]_settings PROVE SecretInv'
<1>1. ASSUME NEW c \in Callers, CallStep(c) \/ CallFails(c) PROVE SecretInv'
  BY <1>1, BeginKeeps, TakeLockKeeps, DefaultsKeep, ReadFileKeeps, LoadKeyKeeps, EndLoadKeeps,
     ReadIdsKeeps, PutKeyKeeps, DropRemovedKeeps, WriteFileKeeps, FailKeeps DEF CallStep
<1>. QED
  BY <1>1, EndKeepsKeys, StutterKeeps DEF SettingsNext

\* A key that nobody means to change can be loaded at every moment, and once a
\* caller has settings no key is in the file: for any callers and services, from
\* every file and storage the program may find, through every failure of a step and
\* the end of the program.
THEOREM KeysSurvive == SettingsSpec => [](UntouchedKeySurvives /\ ReturnedIsRedacted)
<1>1. (\E start \in DOMAIN Stored : SettingsInit(start)) => SecretInv
  BY StartIsKept
<1>2. SecretInv /\ [SettingsNext]_settings => SecretInv'
  BY SecretStep
<1>3. SecretInv => UntouchedKeySurvives /\ ReturnedIsRedacted
  BY DEF SecretInv, KeyInv, Origins, ReadTruly, FileIsRedacted, UntouchedKeySurvives, ReturnedIsRedacted
<1>. QED
  BY <1>1, <1>2, <1>3, PTL DEF SettingsSpec

(***************************************************************************)
(* Removed services. A key can come back for a service that was removed    *)
(* only through a caller that writes the file without the lock, the        *)
(* factory or a reader that found keys in it, because only such a caller   *)
(* can have read the file before the removal and store a key after it. The *)
(* invariant says so of every moment; it says nothing once a step has      *)
(* failed, the program has ended in the middle, a stale copy was saved or  *)
(* the file was written without the lock beside or after a change (slips). *)
(* Before any change, the services are those of the file (Begun).          *)
(***************************************************************************)
\* What is accepted was touched first, and while nothing was, no service has gone.
Begun ==
  /\ DOMAIN accepted \subseteq touched
  /\ \A c \in Callers : call[c].pc \in SavingAt => DOMAIN call[c].meant \subseteq touched
  /\ touched = {} => known = ServicesIn(file)

\* A step of c keeps this when it keeps what is said of c.
LEMMA BegunKeeps ==
  ASSUME Begun, NEW c \in Callers, \A d \in Callers \ {c} : call'[d] = call[d],
         touched \subseteq touched', DOMAIN accepted' \subseteq touched',
         call'[c].pc \in SavingAt => DOMAIN call'[c].meant \subseteq touched',
         touched = {} => known' = ServicesIn(file')
  PROVE  Begun'
<1>1. ASSUME NEW d \in Callers, call'[d].pc \in SavingAt
      PROVE  DOMAIN call'[d].meant \subseteq touched'
  <2>1. CASE d = c BY <1>1, <2>1
  <2>2. CASE d # c BY <1>1, <2>2 DEF Begun
  <2>. QED
    BY <2>1, <2>2
<1>2. touched' = {} => touched = {}
  OBVIOUS
<1>. QED
  BY <1>1, <1>2 DEF Begun

\* A command begins to save what it means to change.
LEMMA SavingBegins ==
  ASSUME SecretInv, Begun, NEW c \in Callers, NEW s, NEW copy, Save(c, s, copy),
         accepted' = accepted, touched = {} => known' = ServicesIn(file')
  PROVE  Begun'
<1>1. CallOK(c) /\ DOMAIN call = Callers
  BY CallerFacts
<1>2. PICK m \in Changes(c, s, copy) :
        /\ call' = [call EXCEPT ![c] = [call[c] EXCEPT !.pc = "ids", !.s = Synced(c, m.s), !.meant = m.meant]]
        /\ touched' = touched \cup DOMAIN m.meant
  BY DEF Save
<1>. DEFINE w == [call[c] EXCEPT !.pc = "ids", !.s = Synced(c, m.s), !.meant = m.meant]
<1>3. w.meant = m.meant
  BY <1>1 DEF CallOK, CallFields
<1>4. call' = [call EXCEPT ![c] = w]
  BY <1>2
<1>. HIDE DEF w
<1>5. call'[c] = w /\ \A d \in Callers \ {c} : call'[d] = call[d]
  BY <1>1, <1>4
<1>. QED
  BY <1>2, <1>3, <1>5, BegunKeeps DEF Begun

\* A load ends; nothing is touched but by a command that begins to save.
LEMMA LoadBegins ==
  ASSUME SecretInv, Begun, NEW c \in Callers, NEW s, Loaded(c, s),
         call[c].pc \in {"read", "keys"},
         accepted' = accepted, touched = {} => known' = ServicesIn(file')
  PROVE  Begun'
<1>. DEFINE v == call[c]
<1>1. CallOK(c) /\ DOMAIN call = Callers
  BY CallerFacts
<1>2. ASSUME NEW w, call' = [call EXCEPT ![c] = w], w.pc \in {"waiting", "done"}, touched' = touched
      PROVE  Begun'
  <2>1. call'[c] = w /\ \A d \in Callers \ {c} : call'[d] = call[d]
    BY <1>1, <1>2
  <2>. QED
    BY <1>2, <2>1, BegunKeeps DEF Begun, SavingAt
<1>3. CASE v.use = "copy"
  <2>. DEFINE w == [v EXCEPT !.pc = "waiting", !.copy = Redacted(s)]
  <2>1. call' = [call EXCEPT ![c] = w] /\ touched' = touched
    BY <1>3 DEF Loaded
  <2>2. w.pc = "waiting"
    BY <1>1 DEF CallOK, CallFields
  <2>. HIDE DEF w
  <2>. QED
    BY <1>2, <2>1, <2>2
<1>4. ASSUME call' = [call EXCEPT ![c].pc = "done"], touched' = touched PROVE Begun'
  <2>. DEFINE w == [v EXCEPT !.pc = "done"]
  <2>1. call' = [call EXCEPT ![c] = w]
    BY <1>1, <1>4
  <2>2. w.pc = "done"
    BY <1>1 DEF CallOK, CallFields
  <2>. HIDE DEF w
  <2>. QED
    BY <1>2, <1>4, <2>1, <2>2
<1>5. CASE v.use = "result"
  BY <1>4, <1>5 DEF Loaded
<1>6. CASE v.use = "base" /\ (c # "factory" \/ s.transcription = "outdated")
  <2>1. Save(c, s, v.copy)
    BY <1>6 DEF Loaded
  <2>. QED
    BY <2>1, SavingBegins
<1>7. CASE v.use = "base" /\ ~(c # "factory" \/ s.transcription = "outdated")
  BY <1>4, <1>7 DEF Loaded
<1>. QED
  BY <1>1, <1>3, <1>5, <1>6, <1>7 DEF CallOK

\* What c has in hand has the services of the file while nothing was touched.
LEMMA UntouchedServices ==
  ASSUME SecretInv, Begun, NEW c \in Callers, call[c].pc \in {"keys"} \cup SavingAt, touched = {}
  PROVE  DOMAIN call[c].s.ai.services = ServicesIn(file) /\ known = ServicesIn(file)
         /\ ServicesIn(file) \subseteq Services
<1>1. CallOK(c) /\ Present(c) /\ FileOK
  BY CallerFacts
<1>2. DOMAIN call[c].s.ai.services \subseteq Services
  BY <1>1, AccountsFit DEF CallOK
<1>3. ServicesIn(file) \subseteq Services
  BY <1>1, AccountsFit DEF FileOK, ServicesIn
<1>. QED
  BY <1>1, <1>2, <1>3 DEF Present, Begun

LEMMA BegunStep == ASSUME SecretInv, Begun, [SettingsNext]_settings PROVE Begun'
<1>1. ASSUME NEW c \in Callers, NEW w, call' = [call EXCEPT ![c] = w],
             w.pc \in SavingAt => call[c].pc \in SavingAt /\ w.meant = call[c].meant,
             UNCHANGED <<file, accepted, touched, known>>
      PROVE  Begun'
  <2>1. DOMAIN call = Callers
    BY CallerFacts
  <2>2. call'[c] = w /\ \A d \in Callers \ {c} : call'[d] = call[d]
    BY <1>1, <2>1
  <2>3. ServicesIn(file') = ServicesIn(file)
    BY <1>1 DEF ServicesIn
  <2>. QED
    BY <1>1, <2>2, <2>3, BegunKeeps DEF Begun
<1>2. ASSUME NEW c \in Callers, CallStep(c) PROVE Begun'
  <2>. DEFINE v == call[c]
  <2>1. CallOK(c) /\ DOMAIN call = Callers /\ FileOK
    BY CallerFacts
  <2>2. CASE Begin(c)
    <3>. DEFINE p == IF c \in Windows \cup Unlocked THEN "read" ELSE "waiting"
                u == CASE c \in Windows -> "copy" [] c = "factory" -> "base" [] OTHER -> "result"
                w == [v EXCEPT !.pc = p, !.use = u]
    <3>1. call' = [call EXCEPT ![c] = w] /\ UNCHANGED <<file, accepted, touched, known>>
      BY <2>1, <2>2 DEF Begin, Unaccepted
    <3>2. p \notin SavingAt
      BY DEF SavingAt
    <3>. HIDE DEF p, u
    <3>3. w.pc = p
      BY <2>1 DEF CallOK, CallFields
    <3>. HIDE DEF w
    <3>. QED
      BY <1>1, <3>1, <3>2, <3>3
  <2>3. CASE TakeLock(c)
    <3>1. UNCHANGED <<file, accepted, known>>
      BY <2>3 DEF TakeLock
    <3>2. ServicesIn(file') = ServicesIn(file)
      BY <3>1 DEF ServicesIn
    <3>3. CASE c = "whole"
      <4>1. Save(c, v.copy, v.copy)
        BY <2>3, <3>3 DEF TakeLock
      <4>. QED
        BY <3>1, <3>2, <4>1, SavingBegins DEF Begun
    <3>4. CASE c # "whole"
      <4>. DEFINE w == [v EXCEPT !.pc = "read", !.use = "base"]
      <4>1. call' = [call EXCEPT ![c] = w] /\ touched' = touched
        BY <2>3, <3>4 DEF TakeLock
      <4>2. w.pc = "read"
        BY <2>1 DEF CallOK, CallFields
      <4>. HIDE DEF w
      <4>. QED
        BY <1>1, <3>1, <4>1, <4>2 DEF SavingAt
    <3>. QED
      BY <3>3, <3>4
  <2>4. CASE LoadWritesDefaults(c)
    <3>1. /\ v.pc = "read" /\ file = Absent /\ file' = Redacted(Defaults)
          /\ Loaded(c, Defaults) /\ accepted' = accepted /\ known' = known
      BY <2>4 DEF LoadWritesDefaults
    <3>2. ServicesIn(file') = {} /\ ServicesIn(file) = {}
      BY <3>1, DefaultsFit, WrittenIsRedacted DEF ServicesIn
    <3>. QED
      BY <3>1, <3>2, LoadBegins DEF Begun
  <2>5. CASE ReadFile(c)
    <3>. DEFINE s == [Parsed(file) EXCEPT !.model = "v3"]
                w == [v EXCEPT !.pc = "keys", !.s = s, !.plain = file.model # "v3",
                               !.todo = AccountsOf(Parsed(file))]
    <3>1. call' = [call EXCEPT ![c] = w] /\ UNCHANGED <<file, accepted, touched, known>>
      BY <2>1, <2>5 DEF ReadFile, Unaccepted
    <3>. HIDE DEF s
    <3>2. w.pc = "keys"
      BY <2>1 DEF CallOK, CallFields
    <3>. HIDE DEF w
    <3>. QED
      BY <1>1, <3>1, <3>2 DEF SavingAt
  <2>6. CASE LoadKey(c)
    <3>1. /\ v.pc = "keys" /\ UNCHANGED <<file, accepted, touched, known>>
          /\ \A d \in Callers \ {c} : call'[d] = call[d]
          /\ call'[c].pc = "keys"
      <4>1. PICK a \in v.todo : \E t, p :
              call' = [call EXCEPT ![c] = [v EXCEPT !.s = t, !.plain = p, !.todo = @ \ {a}]]
        BY <2>6 DEF LoadKey
      <4>2. PICK t, p :
              call' = [call EXCEPT ![c] = [v EXCEPT !.s = t, !.plain = p, !.todo = @ \ {a}]]
        BY <4>1
      <4>3. v.pc = "keys" /\ UNCHANGED <<file, accepted, touched, known>>
        BY <2>6 DEF LoadKey, Unaccepted
      <4>4. [v EXCEPT !.s = t, !.plain = p, !.todo = @ \ {a}].pc = v.pc
        BY <2>1 DEF CallOK, CallFields
      <4>. QED
        BY <2>1, <4>2, <4>3, <4>4
    <3>2. ServicesIn(file') = ServicesIn(file)
      BY <3>1 DEF ServicesIn
    <3>. QED
      BY <3>1, <3>2, BegunKeeps DEF Begun, SavingAt
  <2>7. CASE EndLoad(c)
    <3>1. /\ v.pc = "keys" /\ Loaded(c, v.s) /\ accepted' = accepted
          /\ file' = IF v.plain THEN Redacted(v.s) ELSE file
          /\ known' = known \cup ServicesIn(file') /\ v.s \in SettingsRecord
      BY <2>1, <2>7 DEF EndLoad, CallOK
    <3>2. ASSUME touched = {} PROVE known' = ServicesIn(file')
      <4>1. DOMAIN v.s.ai.services = ServicesIn(file) /\ known = ServicesIn(file)
        BY <3>1, <3>2, UntouchedServices
      <4>2. ServicesIn(file') = ServicesIn(file)
        BY <3>1, <4>1, WrittenIsRedacted DEF ServicesIn
      <4>. QED
        BY <3>1, <4>1, <4>2
    <3>. QED
      BY <3>1, <3>2, LoadBegins
  <2>8. CASE ReadIds(c)
    <3>. DEFINE s == Normalized(v.s)
                w == [v EXCEPT !.pc = "secrets", !.s = s, !.todo = AccountsOf(s), !.ids = ServicesIn(file)]
    <3>1. v.pc = "ids" /\ call' = [call EXCEPT ![c] = w] /\ UNCHANGED <<file, accepted, touched, known>>
      BY <2>1, <2>8 DEF ReadIds
    <3>2. w.meant = v.meant
      BY <2>1 DEF CallOK, CallFields
    <3>. HIDE DEF w, s
    <3>. QED
      BY <1>1, <3>1, <3>2 DEF SavingAt
  <2>9. CASE PutKey(c)
    <3>1. PICK a \in v.todo :
            call' = [call EXCEPT ![c] = [v EXCEPT !.todo = @ \ {a},
                                                  !.pc = IF v.todo = {a} THEN "removed" ELSE @]]
      BY <2>9 DEF PutKey
    <3>. DEFINE w == [v EXCEPT !.todo = @ \ {a}, !.pc = IF v.todo = {a} THEN "removed" ELSE @]
    <3>2. v.pc = "secrets" /\ UNCHANGED <<file, accepted, touched, known>>
      BY <2>9 DEF PutKey, Unaccepted
    <3>3. w.meant = v.meant
      BY <2>1 DEF CallOK, CallFields
    <3>4. call' = [call EXCEPT ![c] = w]
      BY <3>1
    <3>. HIDE DEF w
    <3>. QED
      BY <1>1, <3>2, <3>3, <3>4 DEF SavingAt
  <2>10. CASE DropRemoved(c)
    <3>. DEFINE w == [v EXCEPT !.pc = "write"]
    <3>1. /\ v.pc = "removed" /\ call' = [call EXCEPT ![c] = w]
          /\ UNCHANGED <<file, accepted, touched, known>>
      BY <2>1, <2>10 DEF DropRemoved, Unaccepted
    <3>2. w.meant = v.meant
      BY <2>1 DEF CallOK, CallFields
    <3>. HIDE DEF w
    <3>. QED
      BY <1>1, <3>1, <3>2 DEF SavingAt
  <2>11. CASE WriteFile(c)
    <3>. DEFINE p == IF c = "factory" THEN "done" ELSE "read"
                w == [v EXCEPT !.pc = p, !.use = "result"]
    <3>1. /\ v.pc = "write" /\ file' = Redacted(v.s) /\ touched' = touched
          /\ known' = known \cup ServicesIn(file') /\ accepted' = Joined(v.meant, accepted)
          /\ call' = [call EXCEPT ![c] = w] /\ v.s \in SettingsRecord
      BY <2>1, <2>11 DEF WriteFile, CallOK
    <3>2. DOMAIN accepted' \subseteq touched'
      BY <3>1 DEF Joined, Begun, SavingAt
    <3>3. p \notin SavingAt
      BY DEF SavingAt
    <3>. HIDE DEF p
    <3>4. w.pc = p
      BY <2>1 DEF CallOK, CallFields
    <3>. HIDE DEF w
    <3>5. call'[c] = w /\ \A d \in Callers \ {c} : call'[d] = call[d]
      BY <2>1, <3>1
    <3>6. ASSUME touched = {} PROVE known' = ServicesIn(file')
      <4>1. DOMAIN v.s.ai.services = ServicesIn(file) /\ known = ServicesIn(file)
        BY <3>1, <3>6, UntouchedServices DEF SavingAt
      <4>2. ServicesIn(file') = DOMAIN v.s.ai.services
        BY <3>1, WrittenIsRedacted
      <4>. QED
        BY <3>1, <4>1, <4>2
    <3>. QED
      BY <3>1, <3>2, <3>3, <3>4, <3>5, <3>6, BegunKeeps
  <2>. QED
    BY <1>2, <2>2, <2>3, <2>4, <2>5, <2>6, <2>7, <2>8, <2>9, <2>10, <2>11 DEF CallStep
<1>3. ASSUME NEW c \in Callers, CallFails(c) PROVE Begun'
  <2>. DEFINE w == [call[c] EXCEPT !.pc = "failed"]
  <2>1. CallOK(c) /\ DOMAIN call = Callers
    BY CallerFacts
  <2>2. call' = [call EXCEPT ![c] = w] /\ UNCHANGED <<file, accepted, touched, known>>
    BY <1>3, <2>1 DEF CallFails
  <2>3. w.pc = "failed"
    BY <2>1 DEF CallOK, CallFields
  <2>. HIDE DEF w
  <2>. QED
    BY <1>1, <2>2, <2>3 DEF SavingAt
<1>4. CASE SettingsCrash
  <2>. DEFINE w == [IdleCall EXCEPT !.pc = "lost"]
  <2>1. /\ \A c \in Callers : call'[c] = call[c] \/ call'[c] = w
        /\ UNCHANGED <<file, accepted, touched, known>>
    BY <1>4 DEF SettingsCrash
  <2>2. w.pc = "lost"
    BY DEF IdleCall
  <2>. HIDE DEF w
  <2>. QED
    BY <2>1, <2>2 DEF Begun, SavingAt, ServicesIn
<1>5. CASE UNCHANGED settings
  BY <1>5 DEF settings, Begun, ServicesIn
<1>. QED
  BY <1>2, <1>3, <1>4, <1>5 DEF SettingsNext

LEMMA StartBegins == ASSUME NEW start \in DOMAIN Stored, SettingsInit(start) PROVE Begun
BY DEF SettingsInit, Begun, IdleCall, SavingAt

\* c goes on to write the file without the lock.
WillSlip(c) == lock # c /\ (call[c].pc \in SavingAt \/ (call[c].pc = "keys" /\ call[c].plain))
Stray == \E c \in Callers : WillSlip(c)
\* The holder of the lock is about to put service i in the file.
Puts(c, i) ==
  lock = c /\ call[c].pc \in {"secrets", "removed", "write"} /\ i \in DOMAIN call[c].s.ai.services

\* Who saves has the lock, but for the factory, and with the lock what was read
\* of the file is still so; what it dropped stays away, but for an unlocked writer.
LockHolder(c) ==
  LET v == call[c] IN
  /\ v.pc \in SavingAt \/ (v.pc \in {"read", "keys"} /\ v.use = "base") => lock = c \/ c = "factory"
  /\ lock = c /\ v.pc = "keys" => DOMAIN v.s.ai.services = ServicesIn(file)
  /\ lock = c /\ v.pc \in {"secrets", "removed", "write"} => v.ids = ServicesIn(file)
  /\ lock = c /\ v.pc = "write" =>
       \A i \in v.ids \ DOMAIN v.s.ai.services : keys[i] = Absent \/ Stray

\* A service that is not in the file has no key, but for a write that is under way.
Removals ==
  /\ file = Absent => known = {}
  /\ ServicesIn(file) \subseteq known
  /\ \A c \in Callers : LockHolder(c)
  /\ \A i \in known \ ServicesIn(file) :
       keys[i] = Absent \/ Stray \/ \E c \in Callers : Puts(c, i)

RemovalInv ==
  /\ slips \subseteq {"failed", "crashed", "unlocked", "stale"}
  /\ known \subseteq Services
  /\ slips = {} => Removals

\* What a step of c must leave to the other callers.
LeavesLock(c) ==
  /\ \A d \in Callers \ {c} : call'[d] = call[d] /\ (lock' = d <=> lock = d)
  /\ WillSlip(c) => WillSlip(c)'
  /\ lock # c => ServicesIn(file') = ServicesIn(file)
  /\ \A i \in Services : keys[i] = Absent /\ keys'[i] # Absent =>
       WillSlip(c)' \/ (lock = c /\ (i \in ServicesIn(file) \/ Puts(c, i)'))

\* Another caller that will write without the lock still will.
LEMMA StrayStays ==
  ASSUME NEW c \in Callers, LeavesLock(c)
  PROVE  /\ Stray => Stray'
         /\ \A d \in Callers \ {c} : WillSlip(d)' <=> WillSlip(d)
<1>1. \A d \in Callers \ {c} : WillSlip(d)' <=> WillSlip(d)
  BY DEF LeavesLock, WillSlip
<1>. QED
  BY <1>1 DEF Stray, LeavesLock

\* A step of c leaves to the others what is said of the lock.
LEMMA OthersLock ==
  ASSUME Removals, NEW c \in Callers, LeavesLock(c), NEW d \in Callers, d # c, CallOK(d)
  PROVE  LockHolder(d)'
<1>. DEFINE v == call[d]
<1>1. call'[d] = v /\ (lock' = d <=> lock = d) /\ LockHolder(d)
  BY DEF LeavesLock, Removals
<1>2. ASSUME lock = d
      PROVE  /\ ServicesIn(file') = ServicesIn(file)
             /\ \A i \in Services : keys[i] = Absent /\ keys'[i] # Absent => Stray'
  <2>1. lock # c
    BY <1>2
  <2>. QED
    BY <2>1 DEF LeavesLock, Stray
<1>3. v.ids \subseteq Services
  BY DEF CallOK
<1>4. Stray => Stray'
  BY StrayStays
<1>5. ASSUME lock = d, v.pc = "write", NEW i \in v.ids \ DOMAIN v.s.ai.services
      PROVE  keys'[i] = Absent \/ Stray'
  <2>1. keys[i] = Absent \/ Stray
    BY <1>1, <1>5 DEF LockHolder
  <2>. QED
    BY <1>2, <1>3, <1>4, <1>5, <2>1
<1>. QED
  BY <1>1, <1>2, <1>5 DEF LockHolder

\* A step that leaves the services of the file as they are.
LEMMA SameServicesKeep ==
  ASSUME SettingsOK, RemovalInv, NEW c \in Callers, slips \subseteq slips',
         slips' \subseteq {"failed", "crashed", "unlocked", "stale"},
         known' = known \cup ServicesIn(file') \/ known' = known, known' \subseteq Services,
         slips' = {} =>
           /\ LeavesLock(c) /\ LockHolder(c)'
           /\ ServicesIn(file') = ServicesIn(file)
           /\ file' = Absent => file = Absent
           /\ \A i \in Services : Puts(c, i) => Puts(c, i)'
  PROVE  RemovalInv'
<1>. SUFFICES ASSUME slips' = {} PROVE Removals'
  BY DEF RemovalInv
<1>1. /\ slips = {} /\ Removals /\ LeavesLock(c) /\ LockHolder(c)' /\ known \subseteq Services
      /\ ServicesIn(file') = ServicesIn(file) /\ (file' = Absent => file = Absent)
      /\ \A i \in Services : Puts(c, i) => Puts(c, i)'
  BY DEF RemovalInv
<1>2. known' = known
  BY <1>1 DEF Removals
<1>3. \A d \in Callers : LockHolder(d)'
  BY <1>1, OthersLock DEF SettingsOK
<1>4. (file' = Absent => known' = {}) /\ ServicesIn(file') \subseteq known'
  BY <1>1, <1>2 DEF Removals
<1>5. ASSUME NEW i \in known \ ServicesIn(file)
      PROVE  keys'[i] = Absent \/ Stray' \/ \E d \in Callers : Puts(d, i)'
  <2>1. i \in Services
    BY <1>1
  <2>2. CASE keys[i] = Absent
    BY <1>1, <2>1, <2>2 DEF LeavesLock, Stray
  <2>3. CASE Stray
    BY <1>1, <2>3, StrayStays
  <2>4. ASSUME NEW d \in Callers, Puts(d, i) PROVE Puts(d, i)'
    <3>1. CASE d = c
      BY <1>1, <2>1, <2>4, <3>1
    <3>2. CASE d # c
      BY <1>1, <2>4, <3>2 DEF LeavesLock, Puts
    <3>. QED
      BY <3>1, <3>2
  <2>. QED
    BY <1>1, <2>2, <2>3, <2>4 DEF Removals
<1>. QED
  BY <1>1, <1>2, <1>3, <1>4, <1>5 DEF Removals

\* The invariant, as it speaks of one caller.
LEMMA CallerLock ==
  ASSUME SettingsOK, RemovalInv, NEW c \in Callers
  PROVE  /\ CallOK(c) /\ KeysOK /\ FileOK /\ DOMAIN call = Callers
         /\ ServicesIn(file) \subseteq Services
         /\ slips = {} => Removals /\ LockHolder(c)
<1>1. CallOK(c) /\ KeysOK /\ FileOK /\ DOMAIN call = Callers
  BY DEF SettingsOK
<1>2. ServicesIn(file) \subseteq Services
  BY <1>1, AccountsFit DEF FileOK, ServicesIn
<1>. QED
  BY <1>1, <1>2 DEF RemovalInv, Removals

\* A step that changes neither file, keys nor lock.
LEMMA QuietLock ==
  ASSUME SettingsOK, RemovalInv, NEW c \in Callers, NEW w, call' = [call EXCEPT ![c] = w],
         UNCHANGED <<file, keys, lock, known>>,
         slips' = slips \/ slips' = slips \cup {"stale"},
         WillSlip(c) => WillSlip(c)', Removals => LockHolder(c)',
         \A i \in Services : Puts(c, i) => Puts(c, i)'
  PROVE  RemovalInv'
<1>1. DOMAIN call = Callers
  BY CallerLock
<1>2. LeavesLock(c)
  BY <1>1 DEF LeavesLock
<1>3. slips' = {} => LockHolder(c)'
  BY CallerLock
<1>4. slips' \subseteq {"failed", "crashed", "unlocked", "stale"} /\ known' \subseteq Services
  BY DEF RemovalInv
<1>. QED
  BY <1>2, <1>3, <1>4, SameServicesKeep

LEMMA BeginLock == ASSUME SettingsOK, RemovalInv, NEW c \in Callers, Begin(c) PROVE RemovalInv'
<1>. DEFINE v == call[c]
            p == IF c \in Windows \cup Unlocked THEN "read" ELSE "waiting"
            u == CASE c \in Windows -> "copy" [] c = "factory" -> "base" [] OTHER -> "result"
            w == [v EXCEPT !.pc = p, !.use = u]
<1>1. CallOK(c) /\ DOMAIN call = Callers
  BY CallerLock
<1>2. /\ call' = [call EXCEPT ![c] = w] /\ UNCHANGED <<file, keys, lock, known, slips>>
      /\ v.pc = "idle"
  BY <1>1 DEF Begin, Unaccepted
<1>3. p \in {"read", "waiting"} /\ (u = "base" => c = "factory")
  BY DEF Windows, Unlocked
<1>. HIDE DEF p, u
<1>4. w.pc = p /\ w.use = u
  BY <1>1 DEF CallOK, CallFields
<1>. HIDE DEF w
<1>5. call'[c] = w
  BY <1>1, <1>2
<1>6. ~WillSlip(c) /\ \A i \in Services : ~Puts(c, i)
  BY <1>2 DEF WillSlip, Puts, SavingAt
<1>7. LockHolder(c)'
  BY <1>3, <1>4, <1>5 DEF LockHolder, SavingAt
<1>. QED
  BY <1>2, <1>6, <1>7, QuietLock

LEMMA ReadFileLock == ASSUME SettingsOK, RemovalInv, NEW c \in Callers, ReadFile(c) PROVE RemovalInv'
<1>. DEFINE v == call[c]
            s == [Parsed(file) EXCEPT !.model = "v3"]
            w == [v EXCEPT !.pc = "keys", !.s = s, !.plain = file.model # "v3",
                           !.todo = AccountsOf(Parsed(file))]
<1>1. CallOK(c) /\ DOMAIN call = Callers /\ FileOK /\ (slips = {} => LockHolder(c))
  BY CallerLock
<1>2. /\ call' = [call EXCEPT ![c] = w] /\ UNCHANGED <<file, keys, lock, known, slips>>
      /\ v.pc = "read" /\ file # Absent
  BY <1>1 DEF ReadFile, Unaccepted
<1>3. SameServices(file, s)
  BY <1>1, <1>2, ParsedFits DEF FileOK
<1>. HIDE DEF s
<1>4. w.pc = "keys" /\ w.use = v.use /\ w.s = s
  BY <1>1 DEF CallOK, CallFields
<1>. HIDE DEF w
<1>5. call'[c] = w
  BY <1>1, <1>2
<1>6. ~WillSlip(c) /\ \A i \in Services : ~Puts(c, i)
  BY <1>2 DEF WillSlip, Puts, SavingAt
<1>7. ASSUME Removals PROVE LockHolder(c)'
  <2>1. LockHolder(c)
    BY <1>7 DEF Removals
  <2>. QED
    BY <1>2, <1>3, <1>4, <1>5, <2>1 DEF LockHolder, SavingAt, SameServices, ServicesIn
<1>. QED
  BY <1>2, <1>6, <1>7, QuietLock

LEMMA ReadIdsLock == ASSUME SettingsOK, RemovalInv, NEW c \in Callers, ReadIds(c) PROVE RemovalInv'
<1>. DEFINE v == call[c]
            s == Normalized(v.s)
            w == [v EXCEPT !.pc = "secrets", !.s = s, !.todo = AccountsOf(s), !.ids = ServicesIn(file)]
<1>1. CallOK(c) /\ DOMAIN call = Callers
  BY CallerLock
<1>2. /\ call' = [call EXCEPT ![c] = w] /\ UNCHANGED <<file, keys, lock, known>>
      /\ v.pc = "ids" /\ (slips' = slips \/ slips' = slips \cup {"stale"})
  BY <1>1 DEF ReadIds
<1>4. w.pc = "secrets" /\ w.use = v.use /\ w.s = s /\ w.ids = ServicesIn(file)
  BY <1>1 DEF CallOK, CallFields
<1>. HIDE DEF w, s
<1>5. call'[c] = w
  BY <1>1, <1>2
<1>6. (WillSlip(c) => WillSlip(c)') /\ \A i \in Services : ~Puts(c, i)
  BY <1>2, <1>4, <1>5 DEF WillSlip, Puts, SavingAt
<1>7. ASSUME Removals PROVE LockHolder(c)'
  <2>1. LockHolder(c)
    BY <1>7 DEF Removals
  <2>. QED
    BY <1>2, <1>4, <1>5, <2>1 DEF LockHolder, SavingAt
<1>. QED
  BY <1>2, <1>6, <1>7, QuietLock

LEMMA TakeLockLock == ASSUME SettingsOK, RemovalInv, NEW c \in Callers, TakeLock(c) PROVE RemovalInv'
<1>. DEFINE v == call[c]
<1>1. CallOK(c) /\ DOMAIN call = Callers /\ (slips = {} => Removals)
  BY CallerLock
<1>2. UNCHANGED <<file, keys, known, slips>> /\ v.pc = "waiting" /\ lock = Absent /\ lock' = c
  BY DEF TakeLock
<1>3. /\ \A d \in Callers \ {c} : call'[d] = call[d]
      /\ call'[c].pc \in {"ids", "read"}
  <2>1. CASE c = "whole"
    <3>1. PICK m \in Changes(c, v.copy, v.copy) :
            call' = [call EXCEPT ![c] = [call[c] EXCEPT !.pc = "ids", !.s = Synced(c, m.s),
                                                        !.meant = m.meant]]
      BY <2>1 DEF TakeLock, Save
    <3>2. "pc" \in DOMAIN v
      BY <1>1 DEF CallOK, CallFields
    <3>3. [v EXCEPT !.pc = "ids", !.s = Synced(c, m.s), !.meant = m.meant].pc = "ids"
      BY <3>2
    <3>. QED
      BY <1>1, <3>1, <3>3
  <2>2. CASE c # "whole"
    <3>1. call' = [call EXCEPT ![c] = [call[c] EXCEPT !.pc = "read", !.use = "base"]]
      BY <2>2 DEF TakeLock
    <3>2. [v EXCEPT !.pc = "read", !.use = "base"].pc = "read"
      BY <1>1 DEF CallOK, CallFields
    <3>. QED
      BY <1>1, <3>1, <3>2
  <2>. QED
    BY <2>1, <2>2
<1>4. \A d \in Callers \ {c} : lock' = d <=> lock = d
  BY <1>2, KnownCallers
<1>5. LeavesLock(c)
  BY <1>2, <1>3, <1>4 DEF LeavesLock, WillSlip, SavingAt
<1>6. LockHolder(c)' /\ \A i \in Services : ~Puts(c, i)
  BY <1>2, <1>3 DEF LockHolder, Puts
<1>7. slips' \subseteq {"failed", "crashed", "unlocked", "stale"} /\ known' \subseteq Services
  BY <1>2 DEF RemovalInv
<1>. QED
  BY <1>2, <1>5, <1>6, <1>7, SameServicesKeep

LEMMA LoadKeyLock == ASSUME SettingsOK, RemovalInv, NEW c \in Callers, LoadKey(c) PROVE RemovalInv'
<1>. DEFINE v == call[c]
<1>1. /\ CallOK(c) /\ DOMAIN call = Callers /\ KeysOK /\ (slips = {} => Removals /\ LockHolder(c))
  BY CallerLock
<1>2. /\ v.pc = "keys" /\ UNCHANGED <<file, lock, known, slips>>
      /\ v.s \in SettingsRecord /\ v.todo \subseteq AccountsOf(v.s) /\ v.todo \subseteq Accounts
  BY <1>1 DEF LoadKey, Unaccepted, CallOK
<1>3. PICK a \in v.todo :
        LET legacy == Plaintext(v.s, a)
            key == IF keys[a] # Absent THEN keys[a] ELSE legacy
        IN  /\ keys' = [keys EXCEPT ![a] = key]
            /\ call' = [call EXCEPT ![c] = [call[c] EXCEPT !.s = SetKey(@, a, key),
                                                           !.plain = @ \/ legacy # Absent,
                                                           !.todo = @ \ {a}]]
  BY DEF LoadKey
<1>. DEFINE legacy == Plaintext(v.s, a)
            key == IF keys[a] # Absent THEN keys[a] ELSE legacy
            s == SetKey(v.s, a, key)
            w == [v EXCEPT !.s = s, !.plain = v.plain \/ legacy # Absent, !.todo = v.todo \ {a}]
<1>4. /\ keys' = [keys EXCEPT ![a] = key] /\ call' = [call EXCEPT ![c] = w]
  BY <1>3, Zenon
<1>5. a \in Accounts /\ a \in AccountsOf(v.s)
  BY <1>2
<1>6. key \in Texts \cup {Absent}
  BY <1>1, <1>2, <1>5, PlaintextFits DEF KeysOK
<1>7. SameServices(v.s, s)
  BY <1>2, <1>5, <1>6, SetKeyFits
<1>8. \A b \in Accounts : keys[b] = Absent /\ keys'[b] # Absent => b = a /\ legacy # Absent
  BY <1>1, <1>4, <1>5 DEF KeysOK
<1>. HIDE DEF s, key, legacy
<1>9. /\ w.pc = "keys" /\ w.use = v.use /\ w.s = s
      /\ (w.plain <=> v.plain \/ legacy # Absent)
  BY <1>1, <1>2 DEF CallOK, CallFields
<1>. HIDE DEF w
<1>10. call'[c] = w /\ \A d \in Callers \ {c} : call'[d] = call[d]
  BY <1>1, <1>4
<1>11. ASSUME slips' = {} PROVE LeavesLock(c) /\ LockHolder(c)'
  <2>1. LockHolder(c)
    BY <1>1, <1>2, <1>11
  <2>2. WillSlip(c) => WillSlip(c)'
    BY <1>2, <1>9, <1>10 DEF WillSlip, SavingAt
  <2>3. ASSUME NEW i \in Services, keys[i] = Absent, keys'[i] # Absent
        PROVE  WillSlip(c)' \/ (lock = c /\ i \in ServicesIn(file))
    <3>1. i = a /\ legacy # Absent /\ i # "gemini"
      BY <1>8, <2>3, KindsOfServices DEF Accounts
    <3>2. i \in DOMAIN v.s.ai.services
      BY <1>5, <3>1 DEF AccountsOf
    <3>3. CASE lock = c
      BY <1>2, <2>1, <3>2, <3>3 DEF LockHolder
    <3>4. CASE lock # c
      BY <1>2, <1>9, <1>10, <3>1, <3>4 DEF WillSlip
    <3>. QED
      BY <3>3, <3>4
  <2>4. LeavesLock(c)
    BY <1>2, <1>10, <2>2, <2>3 DEF LeavesLock
  <2>5. LockHolder(c)'
    BY <1>2, <1>7, <1>9, <1>10, <2>1 DEF LockHolder, SavingAt, SameServices
  <2>. QED
    BY <2>4, <2>5
<1>12. \A i \in Services : ~Puts(c, i)
  BY <1>2 DEF Puts
<1>13. slips' \subseteq {"failed", "crashed", "unlocked", "stale"} /\ known' \subseteq Services
  BY <1>2 DEF RemovalInv
<1>. QED
  BY <1>2, <1>11, <1>12, <1>13, SameServicesKeep

LEMMA PutKeyLock == ASSUME SettingsOK, RemovalInv, NEW c \in Callers, PutKey(c) PROVE RemovalInv'
<1>. DEFINE v == call[c]
<1>1. /\ CallOK(c) /\ DOMAIN call = Callers /\ KeysOK /\ (slips = {} => Removals /\ LockHolder(c))
  BY CallerLock
<1>2. /\ v.pc = "secrets" /\ UNCHANGED <<file, lock, known, slips>>
      /\ v.todo \subseteq AccountsOf(v.s) /\ v.todo \subseteq Accounts
  BY <1>1 DEF PutKey, Unaccepted, CallOK
<1>3. PICK a \in v.todo :
        LET e == Entry(v.s, a)
        IN  /\ keys' = [keys EXCEPT ![a] = IF e.key # Absent THEN e.key
                                           ELSE IF ~e.has THEN Absent ELSE @]
            /\ call' = [call EXCEPT ![c] =
                          [call[c] EXCEPT !.todo = @ \ {a},
                                          !.pc = IF call[c].todo = {a} THEN "removed" ELSE @]]
  BY DEF PutKey
<1>. DEFINE p == IF v.todo = {a} THEN "removed" ELSE v.pc
            w == [v EXCEPT !.todo = v.todo \ {a}, !.pc = p]
<1>4. call' = [call EXCEPT ![c] = w]
  BY <1>3, Zenon
<1>5. \A b \in Accounts : b # a => keys'[b] = keys[b]
  BY <1>1, <1>3 DEF KeysOK
<1>6. p \in {"secrets", "removed"}
  BY <1>2
<1>. HIDE DEF p
<1>7. w.pc = p /\ w.use = v.use /\ w.s = v.s /\ w.ids = v.ids
  BY <1>1 DEF CallOK, CallFields
<1>. HIDE DEF w
<1>8. call'[c] = w /\ \A d \in Callers \ {c} : call'[d] = call[d]
  BY <1>1, <1>4
<1>9. ASSUME slips' = {} PROVE LeavesLock(c) /\ LockHolder(c)'
  <2>1. LockHolder(c)
    BY <1>1, <1>2, <1>9
  <2>2. WillSlip(c) => WillSlip(c)'
    BY <1>2, <1>6, <1>7, <1>8 DEF WillSlip, SavingAt
  <2>3. ASSUME NEW i \in Services, keys[i] = Absent, keys'[i] # Absent
        PROVE  WillSlip(c)' \/ (lock = c /\ Puts(c, i)')
    <3>1. i = a /\ i # "gemini"
      BY <1>5, <2>3, KindsOfServices DEF Accounts
    <3>2. i \in DOMAIN v.s.ai.services
      BY <1>2, <3>1 DEF AccountsOf
    <3>3. CASE lock = c
      BY <1>2, <1>6, <1>7, <1>8, <3>2, <3>3 DEF Puts
    <3>4. CASE lock # c
      BY <1>2, <1>6, <1>7, <1>8, <3>4 DEF WillSlip, SavingAt
    <3>. QED
      BY <3>3, <3>4
  <2>4. LeavesLock(c)
    BY <1>2, <1>8, <2>2, <2>3 DEF LeavesLock
  <2>5. LockHolder(c)'
    BY <1>2, <1>6, <1>7, <1>8, <2>1 DEF LockHolder, SavingAt
  <2>. QED
    BY <2>4, <2>5
<1>10. \A i \in Services : Puts(c, i) => Puts(c, i)'
  BY <1>2, <1>6, <1>7, <1>8 DEF Puts
<1>11. slips' \subseteq {"failed", "crashed", "unlocked", "stale"} /\ known' \subseteq Services
  BY <1>2 DEF RemovalInv
<1>. QED
  BY <1>2, <1>9, <1>10, <1>11, SameServicesKeep

LEMMA DropRemovedLock ==
  ASSUME SettingsOK, RemovalInv, NEW c \in Callers, DropRemoved(c) PROVE RemovalInv'
<1>. DEFINE v == call[c]
            gone == v.ids \ DOMAIN v.s.ai.services
            w == [v EXCEPT !.pc = "write"]
<1>1. /\ CallOK(c) /\ DOMAIN call = Callers /\ (slips = {} => Removals /\ LockHolder(c))
  BY CallerLock
<1>2. /\ v.pc = "removed" /\ UNCHANGED <<file, lock, known, slips>> /\ call' = [call EXCEPT ![c] = w]
      /\ keys' = [a \in Accounts |-> IF a \in gone THEN Absent ELSE keys[a]]
      /\ v.ids \subseteq Services
  BY <1>1 DEF DropRemoved, Unaccepted, CallOK
<1>3. w.pc = "write" /\ w.use = v.use /\ w.s = v.s /\ w.ids = v.ids
  BY <1>1 DEF CallOK, CallFields
<1>. HIDE DEF w
<1>4. call'[c] = w /\ \A d \in Callers \ {c} : call'[d] = call[d]
  BY <1>1, <1>2
<1>5. /\ \A i \in Services : keys[i] = Absent => keys'[i] = Absent
      /\ \A i \in gone : keys'[i] = Absent
  BY <1>2 DEF Accounts
<1>6. ASSUME slips' = {} PROVE LeavesLock(c) /\ LockHolder(c)'
  <2>1. LockHolder(c)
    BY <1>1, <1>2, <1>6
  <2>2. LeavesLock(c)
    BY <1>2, <1>3, <1>4, <1>5 DEF LeavesLock, WillSlip, SavingAt
  <2>3. LockHolder(c)'
    BY <1>2, <1>3, <1>4, <1>5, <2>1 DEF LockHolder, SavingAt
  <2>. QED
    BY <2>2, <2>3
<1>7. \A i \in Services : Puts(c, i) => Puts(c, i)'
  BY <1>2, <1>3, <1>4 DEF Puts
<1>8. slips' \subseteq {"failed", "crashed", "unlocked", "stale"} /\ known' \subseteq Services
  BY <1>2 DEF RemovalInv
<1>. QED
  BY <1>2, <1>6, <1>7, <1>8, SameServicesKeep

\* What the end of a load makes of the callers and the lock.
LEMMA LoadedCalls ==
  ASSUME SettingsOK, RemovalInv, NEW c \in Callers, NEW s, Loaded(c, s)
  PROVE  /\ \A d \in Callers \ {c} : call'[d] = call[d] /\ (lock' = d <=> lock = d)
         /\ \/ call'[c].pc \in {"waiting", "done"}
            \/ call[c].use = "base" /\ call'[c].pc = "ids" /\ lock' = lock
         /\ lock' = lock \/ lock' = LockAfter(c)
<1>. DEFINE v == call[c]
<1>1. /\ CallOK(c) /\ DOMAIN call = Callers /\ (slips = {} => Removals /\ LockHolder(c))
  BY CallerLock
<1>2. /\ "pc" \in DOMAIN v /\ v.use \in {"copy", "base", "result"}
  BY <1>1 DEF CallOK, CallFields
<1>3. \A d \in Callers \ {c} : LockAfter(c) = d <=> lock = d
  BY KnownCallers DEF LockAfter
<1>4. /\ \A d \in Callers \ {c} : call'[d] = call[d] /\ (lock' = d <=> lock = d)
      /\ \/ call'[c].pc \in {"waiting", "done"}
         \/ v.use = "base" /\ call'[c].pc = "ids" /\ lock' = lock
      /\ lock' = lock \/ lock' = LockAfter(c)
  <2>1. CASE v.use = "copy"
    <3>1. call' = [call EXCEPT ![c] = [call[c] EXCEPT !.pc = "waiting", !.copy = Redacted(s)]]
          /\ lock' = lock
      BY <2>1 DEF Loaded
    <3>2. [v EXCEPT !.pc = "waiting", !.copy = Redacted(s)].pc = "waiting"
      BY <1>2
    <3>. QED
      BY <1>1, <3>1, <3>2
  <2>2. CASE v.use = "result"
    <3>1. call' = [call EXCEPT ![c].pc = "done"] /\ lock' = LockAfter(c)
      BY <2>2 DEF Loaded
    <3>2. call'[c].pc = "done"
      BY <1>1, <1>2, <3>1
    <3>. QED
      BY <1>1, <1>3, <3>1, <3>2
  <2>3. CASE v.use = "base" /\ (c # "factory" \/ s.transcription = "outdated")
    <3>1. Save(c, s, v.copy) /\ lock' = lock
      BY <2>3 DEF Loaded
    <3>2. PICK m \in Changes(c, s, v.copy) :
            call' = [call EXCEPT ![c] = [call[c] EXCEPT !.pc = "ids", !.s = Synced(c, m.s),
                                                        !.meant = m.meant]]
      BY <3>1 DEF Save
    <3>3. [v EXCEPT !.pc = "ids", !.s = Synced(c, m.s), !.meant = m.meant].pc = "ids"
      BY <1>2
    <3>. QED
      BY <1>1, <2>3, <3>1, <3>2, <3>3
  <2>4. CASE v.use = "base" /\ ~(c # "factory" \/ s.transcription = "outdated")
    <3>1. call' = [call EXCEPT ![c].pc = "done"] /\ lock' = lock
      BY <2>4 DEF Loaded
    <3>2. call'[c].pc = "done"
      BY <1>1, <1>2, <3>1
    <3>. QED
      BY <1>1, <3>1, <3>2
  <2>. QED
    BY <1>2, <2>1, <2>2, <2>3, <2>4
<1>. QED
  BY <1>4

\* A load that leaves the services of the file alone keeps the invariant.
LEMMA LoadedLock ==
  ASSUME SettingsOK, RemovalInv, NEW c \in Callers, NEW s, call[c].pc \in {"read", "keys"},
         Loaded(c, s), keys' = keys, slips \subseteq slips',
         slips' \subseteq {"failed", "crashed", "unlocked", "stale"},
         known' = known \cup ServicesIn(file') \/ known' = known, known' \subseteq Services,
         slips' = {} =>
           /\ ~WillSlip(c) /\ ServicesIn(file') = ServicesIn(file)
           /\ file' = Absent => file = Absent
  PROVE  RemovalInv'
<1>. DEFINE v == call[c]
<1>1. /\ CallOK(c) /\ DOMAIN call = Callers /\ (slips = {} => Removals /\ LockHolder(c))
  BY CallerLock
<1>4. /\ \A d \in Callers \ {c} : call'[d] = call[d] /\ (lock' = d <=> lock = d)
      /\ \/ call'[c].pc \in {"waiting", "done"}
         \/ v.use = "base" /\ call'[c].pc = "ids" /\ lock' = lock
  BY LoadedCalls
<1>5. ASSUME slips' = {} PROVE LeavesLock(c) /\ LockHolder(c)'
  <2>1. LockHolder(c)
    BY <1>1, <1>5
  <2>2. LockHolder(c)'
    BY <1>4, <2>1 DEF LockHolder, SavingAt
  <2>. QED
    BY <1>4, <1>5, <2>2 DEF LeavesLock
<1>6. \A i \in Services : ~Puts(c, i)
  BY DEF Puts
<1>. QED
  BY <1>5, <1>6, SameServicesKeep

\* A load that writes the file before any change leaves in it every service known.
LEMMA EarlyLoadLock ==
  ASSUME SettingsOK, RemovalInv, NEW c \in Callers, NEW s, call[c].pc \in {"read", "keys"},
         Loaded(c, s), slips \subseteq slips',
         slips' \subseteq {"failed", "crashed", "unlocked", "stale"}, lock = Absent,
         known' = ServicesIn(file'), known' \subseteq Services, file' # Absent
  PROVE  RemovalInv'
<1>1. slips = {} => Removals
  BY CallerLock
<1>2. /\ \A d \in Callers \ {c} : call'[d] = call[d]
      /\ \/ call'[c].pc \in {"waiting", "done"}
         \/ call[c].use = "base" /\ call'[c].pc = "ids"
      /\ lock' = Absent
  BY LoadedCalls DEF LockAfter
<1>3. ASSUME slips' = {}, NEW d \in Callers PROVE LockHolder(d)'
  <2>1. LockHolder(d) /\ LockHolder(c) /\ Absent \notin Callers
    BY <1>1, <1>3, KnownCallers DEF Removals
  <2>2. CASE d = c
    BY <1>2, <2>1, <2>2 DEF LockHolder, SavingAt
  <2>3. CASE d # c
    BY <1>2, <2>1, <2>3 DEF LockHolder
  <2>. QED
    BY <2>2, <2>3
<1>. QED
  BY <1>3 DEF RemovalInv, Removals

LEMMA DefaultsLock ==
  ASSUME SettingsOK, RemovalInv, NEW c \in Callers, LoadWritesDefaults(c) PROVE RemovalInv'
<1>1. /\ call[c].pc = "read" /\ file = Absent /\ file' = Redacted(Defaults) /\ Loaded(c, Defaults)
      /\ keys' = keys /\ known' = known /\ LoadSlips(c)
  BY DEF LoadWritesDefaults
<1>2. FileIsRedacted' /\ ServicesIn(file') = {}
  BY <1>1, DefaultsFit, WrittenIsRedacted
<1>3. ~WillSlip(c) /\ ServicesIn(file) = {}
  BY <1>1 DEF WillSlip, SavingAt, ServicesIn
<1>4. slips \subseteq slips' /\ slips' \subseteq {"failed", "crashed", "unlocked", "stale"} /\ known' \subseteq Services
  BY <1>1 DEF RemovalInv, LoadSlips, Slips
<1>. QED
  BY <1>1, <1>2, <1>3, <1>4, LoadedLock

LEMMA EndLoadLock ==
  ASSUME SecretInv, RemovalInv, Begun, NEW c \in Callers, EndLoad(c) PROVE RemovalInv'
<1>. DEFINE v == call[c]
<1>7. SettingsOK
  BY DEF SecretInv
<1>1. /\ CallOK(c) /\ FileOK /\ ServicesIn(file) \subseteq Services /\ known \subseteq Services
      /\ slips = {} => Removals /\ LockHolder(c)
  BY <1>7, CallerLock DEF RemovalInv
<1>2. /\ v.pc = "keys" /\ Loaded(c, v.s) /\ keys' = keys /\ known' = known \cup ServicesIn(file')
      /\ file' = IF v.plain THEN Redacted(v.s) ELSE file
      /\ IF v.plain THEN LoadSlips(c) ELSE slips' = slips
      /\ v.s \in SettingsRecord
  BY <1>1 DEF EndLoad, CallOK
<1>3. slips \subseteq slips' /\ slips' \subseteq {"failed", "crashed", "unlocked", "stale"}
  BY <1>2 DEF RemovalInv, LoadSlips, Slips
<1>4. CASE v.plain
  <2>1. FileIsRedacted' /\ ServicesIn(file') = DOMAIN v.s.ai.services
    BY <1>2, <1>4, WrittenIsRedacted
  <2>2. known' \subseteq Services
    BY <1>1, <1>2, <2>1, AccountsFit
  <2>3. file' # Absent
    BY <2>1 DEF FileIsRedacted
  <2>4. CASE lock = Absent /\ touched = {}
    <3>1. known' = ServicesIn(file')
      BY <1>2, <2>1, <2>4, UntouchedServices
    <3>. QED
      BY <1>2, <1>3, <1>7, <2>2, <2>3, <2>4, <3>1, EarlyLoadLock
  <2>5. CASE ~(lock = Absent /\ touched = {})
    <3>1. ASSUME slips' = {} PROVE ~WillSlip(c) /\ ServicesIn(file') = ServicesIn(file)
      <4>1. lock = c /\ slips = {}
        BY <1>2, <1>4, <2>5, <3>1 DEF LoadSlips, Slips
      <4>. QED
        BY <1>1, <1>2, <2>1, <4>1 DEF WillSlip, LockHolder
    <3>. QED
      BY <1>2, <1>3, <1>7, <2>2, <2>3, <3>1, LoadedLock
  <2>. QED
    BY <2>4, <2>5
<1>5. CASE ~v.plain
  <2>1. file' = file /\ ~WillSlip(c)
    BY <1>2, <1>5 DEF WillSlip, SavingAt
  <2>2. known' \subseteq Services
    BY <1>1, <1>2, <2>1
  <2>. QED
    BY <1>2, <1>3, <1>5, <1>7, <2>1, <2>2, LoadedLock
<1>. QED
  BY <1>4, <1>5

LEMMA WriteFileLock ==
  ASSUME SettingsOK, RemovalInv, NEW c \in Callers, WriteFile(c) PROVE RemovalInv'
<1>. DEFINE v == call[c]
            p == IF c = "factory" THEN "done" ELSE "read"
            w == [v EXCEPT !.pc = p, !.use = "result"]
<1>1. /\ CallOK(c) /\ DOMAIN call = Callers /\ known \subseteq Services
      /\ slips = {} => Removals /\ LockHolder(c)
  BY CallerLock DEF RemovalInv
<1>2. /\ v.pc = "write" /\ file' = Redacted(v.s) /\ UNCHANGED <<keys, lock>>
      /\ known' = known \cup ServicesIn(file') /\ Slips(c)
      /\ call' = [call EXCEPT ![c] = w] /\ v.s \in SettingsRecord
  BY <1>1 DEF WriteFile, CallOK
<1>3. FileIsRedacted' /\ ServicesIn(file') = DOMAIN v.s.ai.services
  BY <1>2, WrittenIsRedacted
<1>4. DOMAIN v.s.ai.services \subseteq Services /\ file' # Absent
  BY <1>2, <1>3, AccountsFit DEF FileIsRedacted
<1>5. slips' \subseteq {"failed", "crashed", "unlocked", "stale"} /\ known' \subseteq Services
  BY <1>1, <1>2, <1>3, <1>4 DEF RemovalInv, Slips
<1>6. p \in {"done", "read"}
  OBVIOUS
<1>. HIDE DEF p
<1>7. w.pc = p /\ w.use = "result"
  BY <1>1 DEF CallOK, CallFields
<1>. HIDE DEF w
<1>8. call'[c] = w /\ \A d \in Callers \ {c} : call'[d] = call[d]
  BY <1>1, <1>2
<1>9. ASSUME slips' = {} PROVE Removals'
  <2>1. slips = {} /\ lock = c /\ lock' = c
    BY <1>2, <1>9 DEF Slips
  <2>2. Removals /\ LockHolder(c)
    BY <1>1, <2>1
  <2>3. Stray => Stray'
    <3>. SUFFICES ASSUME NEW d \in Callers, WillSlip(d) PROVE WillSlip(d)'
      BY DEF Stray
    <3>1. d # c
      BY <2>1 DEF WillSlip
    <3>. QED
      BY <1>2, <1>8, <3>1 DEF WillSlip
  <2>4. ASSUME NEW d \in Callers PROVE LockHolder(d)'
    <3>1. CASE d = c
      BY <1>6, <1>7, <1>8, <3>1 DEF LockHolder, SavingAt
    <3>2. CASE d # c
      BY <1>2, <1>8, <2>1, <2>2, <3>2 DEF LockHolder, Removals
    <3>. QED
      BY <3>1, <3>2
  <2>5. ASSUME NEW i \in known' \ ServicesIn(file') PROVE keys'[i] = Absent \/ Stray'
    <3>1. i \in known /\ i \notin DOMAIN v.s.ai.services
      BY <1>2, <1>3, <2>5
    <3>2. CASE i \in ServicesIn(file)
      BY <1>2, <2>1, <2>2, <2>3, <3>1, <3>2 DEF LockHolder
    <3>3. CASE i \notin ServicesIn(file)
      <4>1. \A d \in Callers : ~Puts(d, i)
        BY <2>1, <3>1 DEF Puts
      <4>2. keys[i] = Absent \/ Stray
        BY <2>2, <3>1, <3>3, <4>1 DEF Removals
      <4>. QED
        BY <1>2, <2>3, <4>2
    <3>. QED
      BY <3>2, <3>3
  <2>. QED
    BY <1>2, <1>4, <2>4, <2>5 DEF Removals
<1>. QED
  BY <1>5, <1>9 DEF RemovalInv

\* Failures and the end of the program leave only what holds then.
LEMMA SlipLock ==
  ASSUME RemovalInv, SettingsCrash \/ \E c \in Callers : CallFails(c)
  PROVE  RemovalInv'
BY DEF RemovalInv, SettingsCrash, CallFails

\* At the start every service known is in the file.
LEMMA StartLock ==
  ASSUME NEW start \in DOMAIN Stored, SettingsInit(start)
  PROVE  RemovalInv
<1>1. SettingsOK
  BY StartIsKept DEF SecretInv
<1>2. ServicesIn(file) \subseteq Services
  BY <1>1, AccountsFit DEF SettingsOK, FileOK, ServicesIn
<1>3. known = ServicesIn(file) /\ slips = {} /\ \A c \in Callers : call[c].pc = "idle"
  BY DEF SettingsInit, IdleCall
<1>4. \A c \in Callers : LockHolder(c)
  BY <1>3 DEF LockHolder, SavingAt
<1>. QED
  BY <1>2, <1>3, <1>4 DEF RemovalInv, Removals, ServicesIn

\* Nothing else changes it.
LEMMA StutterLock == ASSUME RemovalInv, UNCHANGED settings PROVE RemovalInv'
<1>1. UNCHANGED <<file, keys, call, lock, known, slips>>
  BY DEF settings
<1>2. Stray' <=> Stray
  BY <1>1 DEF Stray, WillSlip
<1>3. \A c \in Callers : LockHolder(c) => LockHolder(c)'
  BY <1>1, <1>2 DEF LockHolder
<1>4. \A c \in Callers, i \in Services : Puts(c, i)' <=> Puts(c, i)
  BY <1>1 DEF Puts
<1>5. ServicesIn(file') = ServicesIn(file)
  BY <1>1 DEF ServicesIn
<1>. QED
  BY <1>1, <1>2, <1>3, <1>4, <1>5 DEF RemovalInv, Removals

\* Every step of every caller keeps the invariant.
LEMMA RemovalStep == ASSUME SecretInv, RemovalInv, Begun, [SettingsNext]_settings PROVE RemovalInv'
<1>2. SettingsOK
  BY DEF SecretInv
<1>1. ASSUME NEW c \in Callers, CallStep(c) PROVE RemovalInv'
  BY <1>1, <1>2, BeginLock, TakeLockLock, DefaultsLock, ReadFileLock, LoadKeyLock, EndLoadLock,
     ReadIdsLock, PutKeyLock, DropRemovedLock, WriteFileLock DEF CallStep
<1>. QED
  BY <1>1, SlipLock, StutterLock DEF SettingsNext

\* For any callers and services: a key nobody touched can be loaded, through failures
\* and crashes too; the file has no readable key once a caller was answered; and once
\* all commands are over a service that was removed has no key in the storage, unless
\* a step failed, the program ended in the middle, a stale AI section was saved, or
\* the file was written without the lock beside or after a change.
THEOREM SecretsKept == SettingsSpec => []SecretsAreKept
<1>1. (\E start \in DOMAIN Stored : SettingsInit(start)) => SecretInv /\ RemovalInv /\ Begun
  BY StartIsKept, StartLock, StartBegins
<1>2. SecretInv /\ RemovalInv /\ Begun /\ [SettingsNext]_settings
        => SecretInv' /\ RemovalInv' /\ Begun'
  BY SecretStep, RemovalStep, BegunStep
<1>3. SecretInv /\ RemovalInv => SecretsAreKept
  <2>. SUFFICES ASSUME SecretInv, RemovalInv PROVE SecretsAreKept
    OBVIOUS
  <2>1. UntouchedKeySurvives /\ ReturnedIsRedacted
    BY DEF SecretInv, KeyInv, Origins, ReadTruly, FileIsRedacted, UntouchedKeySurvives, ReturnedIsRedacted
  <2>2. ASSUME Calm, slips = {}, NEW i \in known \ ServicesIn(file)
        PROVE  keys[i] = Absent
    <3>1. Removals
      BY <2>2 DEF RemovalInv
    <3>2. \A c \in Callers : call[c].pc \in {"idle", "done", "failed", "lost"}
      BY <2>2 DEF Calm, Running
    <3>3. ~Stray /\ \A c \in Callers : ~Puts(c, i)
      BY <3>2 DEF Stray, WillSlip, Puts, SavingAt
    <3>. QED
      BY <2>2, <3>1, <3>3 DEF Removals
  <2>. QED
    BY <2>1, <2>2 DEF SecretsAreKept, RemovedLeavesNoSecret
<1>. QED
  BY <1>1, <1>2, <1>3, PTL DEF SettingsSpec

------------------------------------------------------------------------------
(***************************************************************************)
(* Accepted settings. What was accepted stays, because a copy that is read *)
(* under the lock agrees with it until it is saved. The invariants first.  *)
(***************************************************************************)
\* The parts of the settings that are no keys, by the names the model gives them.
Parts == {"transcription", "automation", "bound"}
\* The callers that change keys, or which services there are.
KeyWriters == {"ai", "provider", "whole"}

\* Settings in the form of today, whose tasks are bound to templates they have.
Settled(s) == s.sections /\ (s.prompts.custom \/ s.prompts.bound = "builtin")

\* The parts of s that were accepted, but for those to be changed, are as accepted.
AsAccepted(s, changed) ==
  \A p \in (Parts \cap DOMAIN accepted) \ changed : Part(s, p) = accepted[p]

\* What any caller has in hand, with the lock or without.
CallerIsSettled(c) ==
  LET v == call[c] IN
  /\ Settled(v.copy)
  /\ v.pc \in {"keys"} \cup SavingAt => Settled(v.s)
  /\ v.pc = "ids" => v.s.flat.transcription = v.s.transcription
  /\ v.pc \in SavingAt =>
       /\ DOMAIN v.meant \subseteq IF c \in KeyWriters THEN Parts \cup Accounts ELSE Parts
       /\ \A p \in Parts \cap DOMAIN v.meant : Part(v.s, p) = v.meant[p]
  /\ lock = c =>
       /\ c \notin Unlocked /\ v.pc \in {"read", "keys"} \cup SavingAt
       /\ v.pc \in {"read", "keys"} => v.use # "copy"

\* What the holder of the lock has in hand.
HolderAgrees(c) ==
  LET v == call[c] IN
  /\ lock = c /\ v.pc = "keys" => AsAccepted(v.s, {})
  /\ lock = c /\ v.pc \in SavingAt => AsAccepted(v.s, DOMAIN v.meant)

\* What was accepted is in a file of today's form.
FileIsSettled ==
  /\ file # Absent => (file.prompts.bound = "custom" => file.prompts.custom)
  /\ DOMAIN accepted # {} => FileIsRedacted /\ Settled(file)
  /\ DOMAIN accepted \subseteq Parts \cup Accounts

\* Without a write that went past the lock, the file and the holder of the lock agree
\* with what was accepted.
PartsInv ==
  /\ lock \in Callers \cup {Absent}
  /\ FileIsSettled
  /\ \A c \in Callers : CallerIsSettled(c)
  /\ "unlocked" \notin slips => AsAccepted(file, {}) /\ \A c \in Callers : HolderAgrees(c)

(***************************************************************************)
(* Accepted changes. What each function on the record makes of the parts   *)
(* that are not keys.                                                      *)
(***************************************************************************)
LEMMA RefreshParts ==
  ASSUME NEW s \in SettingsRecord
  PROVE  LET t == Refresh(s) IN
         /\ t.transcription = s.transcription /\ t.automation = s.automation
         /\ t.prompts = s.prompts /\ t.sections = s.sections
         /\ t.flat.transcription = s.flat.transcription
BY DEF Refresh, SettingsRecord, FlatRecord

LEMMA IntactParts ==
  ASSUME NEW p \in [custom : BOOLEAN, bound : Texts]
  PROVE  /\ PromptsIntact(p).custom = p.custom
         /\ PromptsIntact(p).bound = IF p.custom THEN p.bound ELSE "builtin"
BY DEF PromptsIntact

\* Either way to sync takes one of the two transcriptions for both.
LEMMA SyncLegacyParts ==
  ASSUME NEW s \in SettingsRecord
  PROVE  LET t == SyncLegacyFromSections(s) IN
         /\ t.transcription = s.transcription /\ t.flat.transcription = s.transcription
         /\ t.automation = s.automation /\ t.sections = s.sections
         /\ t.prompts = PromptsIntact(s.prompts)
<1>. DEFINE flat == [transcription |-> s.transcription, key |-> s.ai.gem.key,
                     present |-> s.ai.gem.has \/ s.ai.gem.key # Absent]
            m == [s EXCEPT !.flat = flat, !.ai.active = ActiveOf(s.ai),
                           !.prompts = PromptsIntact(s.prompts)]
<1>1. /\ m.transcription = s.transcription /\ m.flat = flat /\ m.automation = s.automation
      /\ m.sections = s.sections /\ m.prompts = PromptsIntact(s.prompts)
      /\ DOMAIN m = DOMAIN s
  BY DEF SettingsRecord
<1>2. SyncLegacyFromSections(s) = Refresh(m)
  BY DEF SyncLegacyFromSections
<1>. QED
  BY <1>1, <1>2 DEF Refresh, SettingsRecord

LEMMA SyncSectionsParts ==
  ASSUME NEW s \in SettingsRecord
  PROVE  LET t == SyncSectionsFromLegacy(s) IN
         /\ t.transcription = s.flat.transcription
         /\ t.flat.transcription = s.flat.transcription
         /\ t.automation = s.automation /\ t.sections = s.sections
         /\ t.prompts = PromptsIntact(s.prompts)
<1>. DEFINE provider == IF s.ai.provider = "none" /\ s.flat.key # Absent
                        THEN "gemini" ELSE s.ai.provider
            gem == [key |-> s.flat.key, has |-> s.flat.present \/ s.flat.key # Absent]
            ai0 == [s.ai EXCEPT !.gem = gem, !.provider = provider]
            ai == [ai0 EXCEPT !.active = ActiveOf(ai0)]
            m == [s EXCEPT !.transcription = s.flat.transcription, !.ai = ai,
                           !.prompts = PromptsIntact(s.prompts)]
<1>1. SyncSectionsFromLegacy(s) = Refresh(m)
  BY DEF SyncSectionsFromLegacy
<1>. HIDE DEF ai
<1>2. /\ m.transcription = s.flat.transcription /\ m.flat = s.flat /\ m.automation = s.automation
      /\ m.sections = s.sections /\ m.prompts = PromptsIntact(s.prompts)
      /\ DOMAIN m = DOMAIN s
  BY DEF SettingsRecord
<1>. HIDE DEF m
<1>3. s.flat \in FlatRecord
  BY SettingsParts
<1>. QED
  BY <1>1, <1>2, <1>3 DEF Refresh, SettingsRecord, FlatRecord

LEMMA RedactedParts ==
  ASSUME NEW s \in SettingsRecord
  PROVE  /\ Settled(s) => Settled(Redacted(s))
         /\ \A p \in Parts : Part(Redacted(s), p) = Part(s, p)
<1>. DEFINE u == Refresh(s)
            sv == [i \in DOMAIN u.ai.services |-> [u.ai.services[i] EXCEPT !.key = Absent]]
            t == Redacted(s)
<1>1. u \in SettingsRecord
  BY RefreshKeeps
<1>2. /\ u.transcription = s.transcription /\ u.automation = s.automation
      /\ u.prompts = s.prompts /\ u.sections = s.sections
  BY RefreshParts
<1>3. t = [u EXCEPT !.flat.key = Absent, !.ai.gem.key = Absent, !.ai.services = sv]
  BY DEF Redacted
<1>. HIDE DEF u, sv, t
<1>4. /\ t.transcription = u.transcription /\ t.automation = u.automation
      /\ t.prompts = u.prompts /\ t.sections = u.sections
  BY <1>1, <1>3 DEF SettingsRecord
<1>. QED
  BY <1>2, <1>4 DEF Settled, Part, Parts, t

LEMMA SetKeyParts ==
  ASSUME NEW s \in SettingsRecord, NEW a, NEW k
  PROVE  /\ Settled(s) => Settled(SetKey(s, a, k))
         /\ \A p \in Parts : Part(SetKey(s, a, k), p) = Part(s, p)
<1>. DEFINE t == SetKey(s, a, k)
<1>1. /\ t.transcription = s.transcription /\ t.automation = s.automation
      /\ t.prompts = s.prompts /\ t.sections = s.sections
  BY DEF SetKey, SettingsRecord
<1>. QED
  BY <1>1 DEF Settled, Part, Parts

\* What a load makes of a file of today's form has the parts of the file.
LEMMA ParsedParts ==
  ASSUME NEW f \in SettingsRecord
  PROVE  LET s == [Parsed(f) EXCEPT !.model = "v3"] IN
         /\ Settled(s)
         /\ Settled(f) => \A p \in Parts : Part(s, p) = Part(f, p)
<1>. DEFINE q == Parsed(f)
            s == [q EXCEPT !.model = "v3"]
<1>1. q \in SettingsRecord
  BY SyncLegacyKeeps, SyncSectionsKeeps, TextsAssumption DEF Parsed, SettingsRecord
<1>2. f.prompts \in [custom : BOOLEAN, bound : Texts] /\ f.sections \in BOOLEAN
  BY SettingsParts DEF SettingsRecord
<1>3. Settled(q) /\ (f.sections => q.transcription = f.transcription)
      /\ q.automation = f.automation /\ q.prompts = PromptsIntact(f.prompts)
  <2>1. CASE f.sections
    BY <1>2, <2>1, SyncLegacyParts, IntactParts DEF Parsed, Settled
  <2>2. CASE ~f.sections
    <3>. DEFINE u == SyncSectionsFromLegacy(f)
    <3>1. u \in SettingsRecord /\ u.automation = f.automation /\ u.prompts = PromptsIntact(f.prompts)
      BY SyncSectionsKeeps, SyncSectionsParts
    <3>2. q = [u EXCEPT !.sections = TRUE]
      BY <2>2 DEF Parsed
    <3>. HIDE DEF u, q
    <3>3. q.sections /\ q.automation = f.automation /\ q.prompts = PromptsIntact(f.prompts)
      BY <3>1, <3>2 DEF SettingsRecord
    <3>. QED
      BY <1>2, <2>2, <3>3, IntactParts DEF Settled
  <2>. QED
    BY <1>2, <2>1, <2>2
<1>. HIDE DEF q
<1>4. /\ s.transcription = q.transcription /\ s.automation = q.automation
      /\ s.prompts = q.prompts /\ s.sections = q.sections
  BY <1>1 DEF SettingsRecord
<1>5. Settled(f) => PromptsIntact(f.prompts).bound = f.prompts.bound
  BY <1>2, IntactParts DEF Settled
<1>. QED
  BY <1>3, <1>4, <1>5 DEF Settled, Part, Parts, q

\* What an AI command means to set is in the entry it makes, or the service is gone.
LEMMA AiChangesMean ==
  ASSUME NEW ai \in AiRecord, NEW m \in AiChanges(ai)
  PROVE  \E a \in Accounts :
           /\ DOMAIN m.meant = {a} /\ m.meant[a] \in Texts \cup {Absent}
           /\ a = "gemini" => m.ai.gem = NoKey /\ m.meant[a] = Absent
           /\ a # "gemini" /\ a \notin DOMAIN m.ai.services => m.meant[a] = Absent
           /\ a # "gemini" /\ a \in DOMAIN m.ai.services =>
                m.ai.services[a].key = m.meant[a] /\ (m.ai.services[a].has <=> m.meant[a] # Absent)
<1>. DEFINE Means(a) ==
              /\ DOMAIN m.meant = {a} /\ m.meant[a] \in Texts \cup {Absent}
              /\ a = "gemini" => m.ai.gem = NoKey /\ m.meant[a] = Absent
              /\ a # "gemini" /\ a \notin DOMAIN m.ai.services => m.meant[a] = Absent
              /\ a # "gemini" /\ a \in DOMAIN m.ai.services =>
                   m.ai.services[a].key = m.meant[a] /\ (m.ai.services[a].has <=> m.meant[a] # Absent)
<1>. SUFFICES \E a \in Accounts : Means(a)
  OBVIOUS
<1>1. ai.services \in ServiceLists
  BY DEF AiRecord
<1>2. DOMAIN ai.services \subseteq Services /\ "services" \in DOMAIN ai /\ "gem" \in DOMAIN ai
  BY <1>1, ServiceListFits DEF AiRecord
<1>3. "gemini" \in Accounts /\ Services \subseteq Accounts /\ "gemini" \notin Services
      /\ "new" \in Texts /\ "new" # Absent
  BY KindsOfServices, TextsAssumption DEF Accounts
<1>4. NoKey.key = Absent /\ ~NoKey.has
  BY DEF NoKey
<1>. HIDE DEF NoKey
<1>5. CASE m = [ai |-> [ai EXCEPT !.gem = NoKey, !.provider = "none"], meant |-> [gemini |-> Absent]]
  <2>1. m.ai.gem = NoKey /\ DOMAIN m.meant = {"gemini"} /\ m.meant["gemini"] = Absent
    BY <1>2, <1>5
  <2>2. "gemini" \in Accounts /\ Means("gemini")
    BY <1>3, <2>1
  <2>. HIDE DEF Means
  <2>. QED
    BY <2>2
<1>6. ASSUME NEW i \in DOMAIN ai.services,
             m = [ai |-> [ai EXCEPT !.services = [@ EXCEPT ![i] = NoKey]], meant |-> Only(i, Absent)]
      PROVE  /\ DOMAIN m.meant = {i} /\ m.meant[i] = Absent
             /\ m.ai.services[i].key = Absent /\ ~m.ai.services[i].has
  <2>1. m.ai.services = [ai.services EXCEPT ![i] = NoKey]
    BY <1>2, <1>6
  <2>2. m.ai.services[i] = NoKey
    BY <2>1
  <2>. QED
    BY <1>4, <1>6, <2>2 DEF Only
<1>7. ASSUME NEW i \in DOMAIN ai.services,
             m = [ai |-> [ai EXCEPT !.services = [j \in DOMAIN @ \ {i} |-> @[j]],
                                    !.active = IF @ = i THEN Absent ELSE @],
                  meant |-> Only(i, Absent)]
      PROVE  DOMAIN m.meant = {i} /\ m.meant[i] = Absent /\ i \notin DOMAIN m.ai.services
  <2>1. DOMAIN m.meant = {i} /\ m.meant[i] = Absent
    BY <1>7 DEF Only
  <2>2. m.ai.services = [j \in DOMAIN ai.services \ {i} |-> ai.services[j]]
    BY <1>2, <1>7
  <2>. QED
    BY <2>1, <2>2
<1>8. ASSUME NEW i \in Services,
             m = [ai |-> [ai EXCEPT !.services = Joined(Only(i, [key |-> "new", has |-> TRUE]), @)],
                  meant |-> Only(i, "new")]
      PROVE  /\ DOMAIN m.meant = {i} /\ m.meant[i] = "new"
             /\ m.ai.services[i].key = "new" /\ m.ai.services[i].has
             /\ i \in DOMAIN m.ai.services
  <2>1. DOMAIN m.meant = {i} /\ m.meant[i] = "new"
    BY <1>8 DEF Only
  <2>2. m.ai.services = Joined(Only(i, [key |-> "new", has |-> TRUE]), ai.services)
    BY <1>2, <1>8
  <2>3. i \in DOMAIN m.ai.services /\ m.ai.services[i] = [key |-> "new", has |-> TRUE]
    BY <2>2 DEF Joined, Only
  <2>. QED
    BY <2>1, <2>3
<1>9. \/ m = [ai |-> [ai EXCEPT !.gem = NoKey, !.provider = "none"], meant |-> [gemini |-> Absent]]
      \/ \E i \in DOMAIN ai.services :
           m = [ai |-> [ai EXCEPT !.services = [@ EXCEPT ![i] = NoKey]], meant |-> Only(i, Absent)]
      \/ \E i \in DOMAIN ai.services :
           m = [ai |-> [ai EXCEPT !.services = [j \in DOMAIN @ \ {i} |-> @[j]],
                                  !.active = IF @ = i THEN Absent ELSE @],
                meant |-> Only(i, Absent)]
      \/ \E i \in Services :
           m = [ai |-> [ai EXCEPT !.services = Joined(Only(i, [key |-> "new", has |-> TRUE]), @)],
                meant |-> Only(i, "new")]
  BY DEF AiChanges
<1>10. CASE \E i \in DOMAIN ai.services :
           m = [ai |-> [ai EXCEPT !.services = [@ EXCEPT ![i] = NoKey]], meant |-> Only(i, Absent)]
  <2>1. PICK i \in DOMAIN ai.services :
           m = [ai |-> [ai EXCEPT !.services = [@ EXCEPT ![i] = NoKey]], meant |-> Only(i, Absent)]
    BY <1>10
  <2>2. /\ DOMAIN m.meant = {i} /\ m.meant[i] = Absent
        /\ m.ai.services[i].key = Absent /\ ~m.ai.services[i].has
    BY <1>6, <2>1
  <2>3. i \in Accounts /\ Means(i)
    BY <1>2, <1>3, <2>2
  <2>. HIDE DEF Means
  <2>. QED
    BY <2>3
<1>11. CASE \E i \in DOMAIN ai.services :
           m = [ai |-> [ai EXCEPT !.services = [j \in DOMAIN @ \ {i} |-> @[j]],
                                  !.active = IF @ = i THEN Absent ELSE @],
                meant |-> Only(i, Absent)]
  <2>1. PICK i \in DOMAIN ai.services :
           DOMAIN m.meant = {i} /\ m.meant[i] = Absent /\ i \notin DOMAIN m.ai.services
    BY <1>7, <1>11
  <2>2. i \in Accounts /\ Means(i)
    BY <1>2, <1>3, <2>1
  <2>. HIDE DEF Means
  <2>. QED
    BY <2>2
<1>12. CASE \E i \in Services :
           m = [ai |-> [ai EXCEPT !.services = Joined(Only(i, [key |-> "new", has |-> TRUE]), @)],
                meant |-> Only(i, "new")]
  <2>1. PICK i \in Services :
             /\ DOMAIN m.meant = {i} /\ m.meant[i] = "new"
             /\ m.ai.services[i].key = "new" /\ m.ai.services[i].has
             /\ i \in DOMAIN m.ai.services
    BY <1>8, <1>12
  <2>3. i \in Accounts /\ i # "gemini" /\ m.meant[i] \in Texts \cup {Absent} /\ m.meant[i] # Absent
        /\ DOMAIN m.meant = {i}
    BY <1>3, <2>1
  <2>4. m.ai.services[i].key = m.meant[i]
    BY <2>1
  <2>5. m.ai.services[i].has <=> m.meant[i] # Absent
    BY <2>1, <2>3
  <2>6. DOMAIN m.meant = {i} /\ m.meant[i] \in Texts \cup {Absent}
    BY <2>3
  <2>7. i = "gemini" => m.ai.gem = NoKey /\ m.meant[i] = Absent
    BY <2>3
  <2>8. i # "gemini" /\ i \notin DOMAIN m.ai.services => m.meant[i] = Absent
    BY <2>1
  <2>10. i # "gemini" /\ i \in DOMAIN m.ai.services =>
                   m.ai.services[i].key = m.meant[i] /\ (m.ai.services[i].has <=> m.meant[i] # Absent)
    BY <2>4, <2>5
  <2>2. Means(i)
    BY <2>6, <2>7, <2>8, <2>10
  <2>. HIDE DEF Means
  <2>. QED
    BY <2>2, <2>3
<1>. HIDE DEF Means
<1>. QED
  BY <1>5, <1>9, <1>10, <1>11, <1>12

LEMMA DefaultsParts == Settled(Defaults)
BY DEF Defaults, Settled

LEMMA MergedParts ==
  ASSUME NEW s \in SettingsRecord
  PROVE  LET t == Merged(s) IN
         /\ t.transcription = s.transcription /\ t.automation = s.automation
         /\ t.prompts = s.prompts /\ t.sections = s.sections
         /\ t.flat.transcription = s.flat.transcription
BY DEF Merged, SettingsRecord, FlatRecord

\* What is saved has the parts of what was handed to the save.
LEMMA NormalizedParts ==
  ASSUME KeysOK, NEW s \in SettingsRecord, Settled(s), s.flat.transcription = s.transcription
  PROVE  /\ Settled(Normalized(s))
         /\ \A p \in Parts : Part(Normalized(s), p) = Part(s, p)
<1>. DEFINE u == [s EXCEPT !.model = "v3"]
            m == Merged(u)
            l == IF LegacyIsSource(m) THEN SyncSectionsFromLegacy(m) ELSE m
            t == SyncLegacyFromSections(l)
            AsIn(x) == /\ x \in SettingsRecord
                       /\ x.transcription = s.transcription /\ x.flat.transcription = s.transcription
                       /\ x.automation = s.automation /\ x.prompts = s.prompts
                       /\ x.sections = s.sections
<1>1. s.prompts \in [custom : BOOLEAN, bound : Texts]
  BY DEF SettingsRecord
<1>2. PromptsIntact(s.prompts) = s.prompts
  <2>1. (IF s.prompts.custom THEN s.prompts.bound ELSE "builtin") = s.prompts.bound
    BY <1>1 DEF Settled
  <2>2. PromptsIntact(s.prompts) = [s.prompts EXCEPT !.bound = s.prompts.bound]
    BY <2>1 DEF PromptsIntact
  <2>. QED
    BY <1>1, <2>2
<1>3. AsIn(u)
  BY TextsAssumption DEF SettingsRecord
<1>. HIDE DEF u
<1>4. AsIn(m)
  BY <1>3, MergedKeeps, MergedParts
<1>. HIDE DEF m
<1>5. AsIn(l)
  BY <1>2, <1>4, SyncSectionsKeeps, SyncSectionsParts
<1>. HIDE DEF l
<1>6. AsIn(t)
  BY <1>2, <1>5, SyncLegacyKeeps, SyncLegacyParts
<1>7. Normalized(s) = Refresh(t)
  BY DEF Normalized, t, l, m, u
<1>. HIDE DEF t
<1>8. AsIn(Refresh(t))
  BY <1>6, RefreshKeeps, RefreshParts
<1>. QED
  BY <1>7, <1>8 DEF Settled, Part, Parts

\* update takes the flat transcription, every other command that of the section.
LEMMA SyncedParts ==
  ASSUME NEW c, NEW s \in SettingsRecord
  PROVE  LET t == Synced(c, s)
             said == IF c \in {"whole", "factory"} THEN s.flat.transcription ELSE s.transcription
         IN
         /\ t.transcription = said /\ t.flat.transcription = said
         /\ t.automation = s.automation
         /\ t.prompts.bound = (IF s.prompts.custom THEN s.prompts.bound ELSE "builtin")
         /\ s.sections => Settled(t)
<1>. DEFINE first == IF c \in {"whole", "factory"} THEN SyncSectionsFromLegacy(s)
                     ELSE SyncLegacyFromSections(s)
            said == IF c \in {"whole", "factory"} THEN s.flat.transcription ELSE s.transcription
            t == Synced(c, s)
<1>1. s.prompts \in [custom : BOOLEAN, bound : Texts]
  BY DEF SettingsRecord
<1>2. /\ first \in SettingsRecord
      /\ first.transcription = said /\ first.flat.transcription = said
      /\ first.automation = s.automation /\ first.sections = s.sections
      /\ first.prompts = PromptsIntact(s.prompts)
  BY SyncLegacyKeeps, SyncSectionsKeeps, SyncLegacyParts, SyncSectionsParts
<1>3. t = IF c \in {"whole", "factory"} THEN SyncLegacyFromSections(first)
          ELSE SyncSectionsFromLegacy(first)
  BY DEF Synced
<1>. HIDE DEF first, said
<1>4. /\ t.transcription = said /\ t.flat.transcription = said
      /\ t.automation = s.automation /\ t.sections = s.sections
      /\ t.prompts = PromptsIntact(first.prompts)
  BY <1>2, <1>3, SyncLegacyParts, SyncSectionsParts
<1>5. first.prompts \in [custom : BOOLEAN, bound : Texts]
  BY <1>2 DEF SettingsRecord
<1>6. /\ t.prompts.custom = s.prompts.custom
      /\ t.prompts.bound = (IF s.prompts.custom THEN s.prompts.bound ELSE "builtin")
  BY <1>1, <1>2, <1>4, <1>5, IntactParts
<1>. HIDE DEF t
<1>. QED
  BY <1>1, <1>4, <1>6 DEF Settled, t, said

\* A command sets the parts it means to set, and no others.
LEMMA ChangesParts ==
  ASSUME NEW c \in Callers, c # "snapshot", NEW s \in SettingsRecord, NEW copy \in SettingsRecord,
         NEW m \in Changes(c, s, copy), c = "whole" => s = copy, Settled(s)
  PROVE  LET t == Synced(c, m.s) IN
         /\ DOMAIN m.meant \subseteq IF c \in KeyWriters THEN Parts \cup Accounts ELSE Parts
         /\ Settled(t) /\ t.flat.transcription = t.transcription
         /\ \A p \in Parts :
              Part(t, p) = IF p \in DOMAIN m.meant THEN m.meant[p] ELSE Part(s, p)
<1>. DEFINE t == Synced(c, m.s)
<1>1. m.s \in SettingsRecord
  BY ChangesKeep
<1>2. s.prompts \in [custom : BOOLEAN, bound : Texts] /\ s.sections
      /\ (s.prompts.custom \/ s.prompts.bound = "builtin")
  BY DEF SettingsRecord, Settled
<1>. DEFINE said == IF c \in {"whole", "factory"} THEN m.s.flat.transcription ELSE m.s.transcription
            bound == IF m.s.prompts.custom THEN m.s.prompts.bound ELSE "builtin"
<1>3. /\ t.transcription = said /\ t.flat.transcription = said
      /\ t.automation = m.s.automation
      /\ t.prompts.bound = bound
      /\ m.s.sections => Settled(t)
  BY <1>1, SyncedParts
<1>. HIDE DEF t
<1>4. ASSUME DOMAIN m.meant \subseteq IF c \in KeyWriters THEN Parts \cup Accounts ELSE Parts,
             m.s.sections,
             said = IF "transcription" \in DOMAIN m.meant THEN m.meant["transcription"]
                    ELSE s.transcription,
             m.s.automation = IF "automation" \in DOMAIN m.meant THEN m.meant["automation"]
                              ELSE s.automation,
             bound = IF "bound" \in DOMAIN m.meant THEN m.meant["bound"] ELSE s.prompts.bound
      PROVE  /\ DOMAIN m.meant \subseteq IF c \in KeyWriters THEN Parts \cup Accounts ELSE Parts
             /\ Settled(t) /\ t.flat.transcription = t.transcription
             /\ \A p \in Parts :
                  Part(t, p) = IF p \in DOMAIN m.meant THEN m.meant[p] ELSE Part(s, p)
  BY <1>3, <1>4 DEF Part, Parts
<1>5. CASE c = "transcription"
  <2>1. m.s = [s EXCEPT !.transcription = "new"] /\ m.meant = [transcription |-> "new"]
    BY <1>5 DEF Changes, Change
  <2>2. m.s.transcription = "new" /\ m.s.automation = s.automation /\ m.s.prompts = s.prompts
        /\ m.s.sections = s.sections
    BY <2>1 DEF SettingsRecord
  <2>. QED
    BY <1>2, <1>4, <1>5, <2>1, <2>2 DEF Parts, t
<1>6. CASE c = "automation"
  <2>1. m.s = [s EXCEPT !.automation = "new"] /\ m.meant = [automation |-> "new"]
    BY <1>6 DEF Changes, Change
  <2>2. m.s.transcription = s.transcription /\ m.s.automation = "new" /\ m.s.prompts = s.prompts
        /\ m.s.sections = s.sections
    BY <2>1 DEF SettingsRecord
  <2>. QED
    BY <1>2, <1>4, <1>6, <2>1, <2>2 DEF Parts, t
<1>7. CASE c = "prompts"
  <2>1. \/ /\ m.s = [s EXCEPT !.prompts = [custom |-> TRUE, bound |-> "custom"]]
           /\ m.meant = [bound |-> "custom"]
        \/ m.s = [s EXCEPT !.prompts = Defaults.prompts] /\ m.meant = [bound |-> "builtin"]
        \/ m.s = [s EXCEPT !.prompts.custom = FALSE] /\ m.meant = [bound |-> "builtin"]
    <3>1. m \in {Change([s EXCEPT !.prompts = [custom |-> TRUE, bound |-> "custom"]],
                         [bound |-> "custom"]),
                  Change([s EXCEPT !.prompts = Defaults.prompts], [bound |-> "builtin"])}
                 \cup IF s.prompts.custom
                      THEN {Change([s EXCEPT !.prompts.custom = FALSE], [bound |-> "builtin"])}
                      ELSE {}
      BY <1>7 DEF Changes
    <3>2. \A x, meant : Change(x, meant).s = x /\ Change(x, meant).meant = meant
      BY DEF Change
    <3>. QED
      BY <3>1, <3>2
  <2>2. /\ m.s.transcription = s.transcription /\ m.s.automation = s.automation
        /\ m.s.sections = s.sections
    BY <2>1 DEF SettingsRecord
  <2>3. DOMAIN m.meant = {"bound"} /\ bound = m.meant["bound"]
    BY <1>2, <2>1 DEF SettingsRecord, Defaults
  <2>. QED
    BY <1>2, <1>4, <1>7, <2>2, <2>3 DEF Parts, t
<1>8. CASE c = "provider"
  <2>1. \/ m.s = [s EXCEPT !.ai.gem.key = "new"] /\ m.meant = [gemini |-> "new"]
        \/ m.s = [s EXCEPT !.ai.provider = "gemini"] /\ m.meant = <<>>
    BY <1>8 DEF Changes, Change
  <2>2. m.s.transcription = s.transcription /\ m.s.automation = s.automation
        /\ m.s.prompts = s.prompts /\ m.s.sections = s.sections
    BY <2>1 DEF SettingsRecord
  <2>3. DOMAIN m.meant \subseteq {"gemini"}
    BY <2>1
  <2>. QED
    BY <1>2, <1>4, <1>8, <2>2, <2>3 DEF Parts, KeyWriters, Accounts, t
<1>9. CASE c = "ai"
  <2>1. PICK n \in AiChanges(copy.ai) : m.s = [s EXCEPT !.ai = n.ai] /\ m.meant = n.meant
    BY <1>9 DEF Changes, Change
  <2>2. m.s.transcription = s.transcription /\ m.s.automation = s.automation
        /\ m.s.prompts = s.prompts /\ m.s.sections = s.sections
    BY <2>1 DEF SettingsRecord
  <2>3. copy.ai \in AiRecord
    BY SettingsParts
  <2>4. DOMAIN n.meant \subseteq {"gemini"} \cup Services
    BY <2>3, AiChangesMean DEF Accounts
  <2>5. Parts \cap ({"gemini"} \cup Services) = {}
    BY KindsOfServices DEF Parts
  <2>. QED
    BY <1>2, <1>4, <1>9, <2>1, <2>2, <2>4, <2>5 DEF Parts, KeyWriters, Accounts, t
<1>10. CASE c = "whole"
  <2>. DEFINE gone == [i \in Services \ DOMAIN copy.ai.services |-> Absent]
              said0 == [transcription |-> "whole", automation |-> copy.automation,
                        bound |-> copy.prompts.bound]
  <2>1. /\ m.s = [copy EXCEPT !.transcription = "whole", !.flat.transcription = "whole"]
        /\ m.meant = Joined(said0, gone)
    BY <1>10 DEF Changes, Change
  <2>2. m.s.flat.transcription = "whole" /\ m.s.automation = copy.automation
        /\ m.s.prompts = copy.prompts /\ m.s.sections = copy.sections
    BY <2>1 DEF SettingsRecord, FlatRecord
  <2>3. /\ DOMAIN m.meant = Parts \cup DOMAIN gone
        /\ m.meant["transcription"] = "whole" /\ m.meant["automation"] = copy.automation
        /\ m.meant["bound"] = copy.prompts.bound
    BY <2>1 DEF Joined, Parts
  <2>. QED
    BY <1>2, <1>4, <1>10, <2>2, <2>3 DEF Parts, KeyWriters, Accounts, t
<1>11. CASE c = "factory"
  <2>1. /\ m.s = [s EXCEPT !.transcription = "fixed", !.flat.transcription = "fixed"]
        /\ m.meant = [transcription |-> "fixed"]
    BY <1>11 DEF Changes, Change
  <2>2. m.s.flat.transcription = "fixed" /\ m.s.automation = s.automation /\ m.s.prompts = s.prompts
        /\ m.s.sections = s.sections
    BY <2>1 DEF SettingsRecord, FlatRecord
  <2>. QED
    BY <1>2, <1>4, <1>11, <2>1, <2>2 DEF Parts, t
<1>. QED
  BY <1>5, <1>6, <1>7, <1>8, <1>9, <1>10, <1>11, KnownCallers

\* What a step of c must leave to the other callers: what they have in hand, the lock,
\* and, unless it takes that from the others, what was accepted.
LeavesParts(c) ==
  /\ lock' \in Callers \cup {Absent}
  /\ \A d \in Callers \ {c} : call'[d] = call[d] /\ (lock' = d <=> lock = d)
  /\ "unlocked" \notin slips' => "unlocked" \notin slips /\ (accepted' = accepted \/ lock = c)

\* A step of c keeps the invariant when it keeps what is said of c and of the file.
LEMMA PartsStep ==
  ASSUME PartsInv, NEW c \in Callers, LeavesParts(c), FileIsSettled', CallerIsSettled(c)',
         "unlocked" \notin slips' => AsAccepted(file, {})' /\ HolderAgrees(c)'
  PROVE  PartsInv'
<1>1. ASSUME NEW d \in Callers, d # c
      PROVE  CallerIsSettled(d)' /\ ("unlocked" \notin slips' => HolderAgrees(d)')
  <2>1. CallerIsSettled(d) /\ call'[d] = call[d] /\ (lock' = d <=> lock = d)
    BY <1>1 DEF PartsInv, LeavesParts
  <2>2. CallerIsSettled(d)'
    BY <2>1 DEF CallerIsSettled
  <2>3. ASSUME "unlocked" \notin slips' PROVE HolderAgrees(d)'
    <3>1. HolderAgrees(d) /\ (accepted' = accepted \/ lock = c)
      BY <2>3 DEF PartsInv, LeavesParts
    <3>2. CASE lock = d
      <4>1. accepted' = accepted
        BY <1>1, <3>1, <3>2
      <4>. QED
        BY <2>1, <3>1, <4>1 DEF HolderAgrees, AsAccepted
    <3>3. CASE lock # d
      BY <2>1, <3>3 DEF HolderAgrees
    <3>. QED
      BY <3>2, <3>3
  <2>. QED
    BY <2>2, <2>3
<1>2. lock' \in Callers \cup {Absent}
  BY DEF LeavesParts
<1>3. \A d \in Callers : CallerIsSettled(d)'
  BY <1>1
<1>4. "unlocked" \notin slips' => AsAccepted(file, {})' /\ \A d \in Callers : HolderAgrees(d)'
  BY <1>1
<1>. QED
  BY <1>2, <1>3, <1>4 DEF PartsInv

\* The invariant, as it speaks of one caller.
LEMMA CallerParts ==
  ASSUME SettingsOK, PartsInv, NEW c \in Callers
  PROVE  /\ CallOK(c) /\ CallerIsSettled(c) /\ KeysOK /\ FileOK /\ DOMAIN call = Callers
         /\ FileIsSettled /\ lock \in Callers \cup {Absent}
         /\ "unlocked" \notin slips => AsAccepted(file, {}) /\ HolderAgrees(c)
<1>1. CallOK(c) /\ KeysOK /\ FileOK /\ DOMAIN call = Callers
  BY DEF SettingsOK
<1>. QED
  BY <1>1 DEF PartsInv

\* A step that changes only what c has in hand, and whether it has the lock.
LEMMA QuietParts ==
  ASSUME SettingsOK, PartsInv, NEW c \in Callers, NEW w, call' = [call EXCEPT ![c] = w],
         UNCHANGED <<file, accepted>>, slips \subseteq slips',
         lock' = lock \/ (lock' = Absent /\ lock = c) \/ (lock' = c /\ lock = Absent),
         CallerIsSettled(c)', "unlocked" \notin slips => HolderAgrees(c)'
  PROVE  PartsInv'
<1>1. DOMAIN call = Callers /\ lock \in Callers \cup {Absent} /\ FileIsSettled
      /\ ("unlocked" \notin slips => AsAccepted(file, {}))
  BY CallerParts
<1>2. LeavesParts(c)
  BY <1>1, KnownCallers DEF LeavesParts
<1>3. FileIsSettled'
  BY <1>1 DEF FileIsSettled, FileIsRedacted, Plaintext, Settled
<1>4. "unlocked" \notin slips' => AsAccepted(file, {})'
  BY <1>1 DEF AsAccepted
<1>. QED
  BY <1>2, <1>3, <1>4, PartsStep

LEMMA BeginParts == ASSUME SettingsOK, PartsInv, NEW c \in Callers, Begin(c) PROVE PartsInv'
<1>. DEFINE v == call[c]
            p == IF c \in Windows \cup Unlocked THEN "read" ELSE "waiting"
            u == CASE c \in Windows -> "copy" [] c = "factory" -> "base" [] OTHER -> "result"
            w == [v EXCEPT !.pc = p, !.use = u]
<1>1. CallOK(c) /\ CallerIsSettled(c) /\ DOMAIN call = Callers
  BY CallerParts
<1>2. /\ call' = [call EXCEPT ![c] = w] /\ UNCHANGED <<file, accepted, lock, slips>>
      /\ v.pc = "idle"
  BY <1>1 DEF Begin, Unaccepted
<1>3. p \in {"read", "waiting"}
  OBVIOUS
<1>. HIDE DEF p, u
<1>4. w.pc = p /\ w.copy = v.copy
  BY <1>1 DEF CallOK, CallFields
<1>. HIDE DEF w
<1>5. call'[c] = w
  BY <1>1, <1>2
<1>6. lock # c
  BY <1>1, <1>2 DEF CallerIsSettled, SavingAt
<1>7. CallerIsSettled(c)' /\ HolderAgrees(c)'
  BY <1>1, <1>2, <1>3, <1>4, <1>5, <1>6 DEF CallerIsSettled, HolderAgrees, SavingAt, Settled
<1>. QED
  BY <1>2, <1>7, QuietParts

LEMMA FailParts == ASSUME SettingsOK, PartsInv, NEW c \in Callers, CallFails(c) PROVE PartsInv'
<1>. DEFINE v == call[c]
            w == [v EXCEPT !.pc = "failed"]
<1>1. CallOK(c) /\ CallerIsSettled(c) /\ DOMAIN call = Callers
  BY CallerParts
<1>2. /\ call' = [call EXCEPT ![c] = w] /\ UNCHANGED <<file, accepted>>
      /\ lock' = LockAfter(c) /\ slips \subseteq slips'
  BY <1>1 DEF CallFails
<1>4. w.pc = "failed" /\ w.copy = v.copy
  BY <1>1 DEF CallOK, CallFields
<1>. HIDE DEF w
<1>5. call'[c] = w
  BY <1>1, <1>2
<1>6. lock' # c /\ (lock' = lock \/ (lock' = Absent /\ lock = c))
  BY <1>2, KnownCallers DEF LockAfter
<1>7. CallerIsSettled(c)' /\ HolderAgrees(c)'
  BY <1>1, <1>4, <1>5, <1>6 DEF CallerIsSettled, HolderAgrees, SavingAt, Settled
<1>. QED
  BY <1>2, <1>6, <1>7, QuietParts

\* A command that hands settings of today's form to the save, the accepted ones when it
\* holds the lock, has what it means to set and otherwise what was accepted.
LEMMA SaveParts ==
  ASSUME SettingsOK, PartsInv, NEW c \in Callers, c # "snapshot", NEW s \in SettingsRecord,
         c = "whole" => s = call[c].copy, Settled(s), Save(c, s, call[c].copy),
         lock' = c => c \notin Unlocked, accepted' = accepted
  PROVE  /\ CallerIsSettled(c)' /\ (c = "whole" \/ AsAccepted(s, {}) => HolderAgrees(c)')
         /\ DOMAIN call' = Callers /\ \A d \in Callers \ {c} : call'[d] = call[d]
<1>. DEFINE v == call[c]
<1>1. CallOK(c) /\ CallerIsSettled(c) /\ DOMAIN call = Callers /\ v.copy \in SettingsRecord
  BY CallerParts DEF CallOK
<1>2. PICK m \in Changes(c, s, v.copy) :
        call' = [call EXCEPT ![c] = [call[c] EXCEPT !.pc = "ids", !.s = Synced(c, m.s), !.meant = m.meant]]
  BY DEF Save
<1>. DEFINE t == Synced(c, m.s)
            w == [v EXCEPT !.pc = "ids", !.s = t, !.meant = m.meant]
<1>3. call' = [call EXCEPT ![c] = w]
  BY <1>1, <1>2
<1>4. /\ DOMAIN m.meant \subseteq IF c \in KeyWriters THEN Parts \cup Accounts ELSE Parts
      /\ Settled(t) /\ t.flat.transcription = t.transcription
      /\ \A p \in Parts :
           Part(t, p) = IF p \in DOMAIN m.meant THEN m.meant[p] ELSE Part(s, p)
  BY <1>1, ChangesParts
<1>. HIDE DEF t
<1>5. w.pc = "ids" /\ w.s = t /\ w.meant = m.meant /\ w.copy = v.copy
  BY <1>1 DEF CallOK, CallFields
<1>. HIDE DEF w
<1>6. call'[c] = w /\ DOMAIN call' = Callers /\ \A d \in Callers \ {c} : call'[d] = call[d]
  BY <1>1, <1>3
<1>7. CallerIsSettled(c)'
  BY <1>1, <1>4, <1>5, <1>6 DEF CallerIsSettled, SavingAt, Settled
<1>8. ASSUME c = "whole" \/ AsAccepted(s, {}) PROVE HolderAgrees(c)'
  <2>1. c = "whole" => Parts \subseteq DOMAIN m.meant
    BY <1>2 DEF Changes, Change, Joined, Parts
  <2>2. AsAccepted(t, DOMAIN m.meant)
    BY <1>4, <1>8, <2>1 DEF AsAccepted
  <2>. QED
    BY <1>5, <1>6, <2>2 DEF HolderAgrees, AsAccepted
<1>. QED
  BY <1>6, <1>7, <1>8

LEMMA TakeLockParts == ASSUME SettingsOK, PartsInv, NEW c \in Callers, TakeLock(c) PROVE PartsInv'
<1>. DEFINE v == call[c]
<1>1. /\ CallOK(c) /\ CallerIsSettled(c) /\ DOMAIN call = Callers
      /\ "unlocked" \notin slips => AsAccepted(file, {}) /\ HolderAgrees(c)
  BY CallerParts
<1>2. /\ v.pc = "waiting" /\ c \notin Unlocked /\ UNCHANGED <<file, accepted, slips>>
      /\ lock = Absent /\ lock' = c
  BY <1>1 DEF TakeLock, CallOK
<1>3. CASE c = "whole"
  <2>1. Save(c, v.copy, v.copy) /\ c # "snapshot"
    BY <1>3 DEF TakeLock
  <2>2. v.copy \in SettingsRecord /\ Settled(v.copy)
    BY <1>1 DEF CallOK, CallerIsSettled
  <2>3. /\ CallerIsSettled(c)' /\ HolderAgrees(c)' /\ DOMAIN call' = Callers
        /\ \A d \in Callers \ {c} : call'[d] = call[d]
    BY <1>2, <1>3, <2>1, <2>2, SaveParts
  <2>4. LeavesParts(c)
    BY <1>2, <2>3, KnownCallers DEF LeavesParts
  <2>5. FileIsSettled' /\ ("unlocked" \notin slips => AsAccepted(file, {})')
    BY <1>1, <1>2, CallerParts DEF FileIsSettled, FileIsRedacted, Plaintext, Settled, AsAccepted
  <2>. QED
    BY <1>2, <2>3, <2>4, <2>5, PartsStep
<1>4. CASE c # "whole"
  <2>. DEFINE w == [v EXCEPT !.pc = "read", !.use = "base"]
  <2>1. call' = [call EXCEPT ![c] = w]
    BY <1>1, <1>4 DEF TakeLock
  <2>2. w.pc = "read" /\ w.use = "base" /\ w.copy = v.copy
    BY <1>1 DEF CallOK, CallFields
  <2>. HIDE DEF w
  <2>3. call'[c] = w
    BY <1>1, <2>1
  <2>4. CallerIsSettled(c)' /\ HolderAgrees(c)'
    BY <1>1, <1>2, <2>2, <2>3 DEF CallerIsSettled, HolderAgrees, SavingAt, Settled
  <2>. QED
    BY <1>2, <2>1, <2>4, QuietParts
<1>. QED
  BY <1>3, <1>4

LEMMA ReadFileParts == ASSUME SettingsOK, PartsInv, NEW c \in Callers, ReadFile(c) PROVE PartsInv'
<1>. DEFINE v == call[c]
            s == [Parsed(file) EXCEPT !.model = "v3"]
            w == [v EXCEPT !.pc = "keys", !.s = s, !.plain = file.model # "v3",
                           !.todo = AccountsOf(Parsed(file))]
<1>1. /\ CallOK(c) /\ CallerIsSettled(c) /\ DOMAIN call = Callers /\ FileOK /\ FileIsSettled
      /\ "unlocked" \notin slips => AsAccepted(file, {}) /\ HolderAgrees(c)
  BY CallerParts
<1>2. /\ call' = [call EXCEPT ![c] = w] /\ UNCHANGED <<file, accepted, lock, slips>>
      /\ v.pc = "read" /\ file \in SettingsRecord
  BY <1>1 DEF ReadFile, Unaccepted, FileOK
<1>3. Settled(s) /\ (Settled(file) => \A p \in Parts : Part(s, p) = Part(file, p))
  BY <1>2, ParsedParts
<1>. HIDE DEF s
<1>4. w.pc = "keys" /\ w.s = s /\ w.copy = v.copy /\ w.use = v.use
  BY <1>1 DEF CallOK, CallFields
<1>. HIDE DEF w
<1>5. call'[c] = w
  BY <1>1, <1>2
<1>6. CallerIsSettled(c)'
  BY <1>1, <1>2, <1>3, <1>4, <1>5 DEF CallerIsSettled, SavingAt, Settled
<1>7. ASSUME "unlocked" \notin slips PROVE HolderAgrees(c)'
  <2>1. AsAccepted(s, {})
    BY <1>1, <1>3, <1>7 DEF AsAccepted, FileIsSettled
  <2>. QED
    BY <1>2, <1>4, <1>5, <2>1 DEF HolderAgrees, AsAccepted, SavingAt
<1>. QED
  BY <1>2, <1>6, <1>7, QuietParts

LEMMA LoadKeyParts == ASSUME SettingsOK, PartsInv, NEW c \in Callers, LoadKey(c) PROVE PartsInv'
<1>. DEFINE v == call[c]
<1>1. /\ CallOK(c) /\ CallerIsSettled(c) /\ DOMAIN call = Callers
      /\ "unlocked" \notin slips => AsAccepted(file, {}) /\ HolderAgrees(c)
  BY CallerParts
<1>2. PICK a \in v.todo :
        LET legacy == Plaintext(v.s, a)
            key == IF keys[a] # Absent THEN keys[a] ELSE legacy
        IN  call' = [call EXCEPT ![c] = [call[c] EXCEPT !.s = SetKey(@, a, key),
                                                        !.plain = @ \/ legacy # Absent,
                                                        !.todo = @ \ {a}]]
  BY DEF LoadKey
<1>. DEFINE key == IF keys[a] # Absent THEN keys[a] ELSE Plaintext(v.s, a)
            s == SetKey(v.s, a, key)
            w == [v EXCEPT !.s = s, !.plain = @ \/ Plaintext(v.s, a) # Absent, !.todo = @ \ {a}]
<1>3. /\ UNCHANGED <<file, accepted, lock, slips>> /\ v.pc = "keys" /\ v.s \in SettingsRecord
      /\ call' = [call EXCEPT ![c] = w]
  BY <1>1, <1>2 DEF LoadKey, Unaccepted, CallOK
<1>4. Settled(s) /\ \A p \in Parts : Part(s, p) = Part(v.s, p)
  BY <1>1, <1>3, SetKeyParts DEF CallerIsSettled
<1>. HIDE DEF s
<1>5. w.pc = "keys" /\ w.s = s /\ w.copy = v.copy /\ w.use = v.use
  BY <1>1, <1>3 DEF CallOK, CallFields
<1>. HIDE DEF w
<1>6. call'[c] = w
  BY <1>1, <1>3
<1>7. CallerIsSettled(c)'
  BY <1>1, <1>3, <1>4, <1>5, <1>6 DEF CallerIsSettled, SavingAt, Settled
<1>8. "unlocked" \notin slips => HolderAgrees(c)'
  BY <1>1, <1>3, <1>4, <1>5, <1>6 DEF HolderAgrees, AsAccepted, SavingAt
<1>. QED
  BY <1>3, <1>7, <1>8, QuietParts

LEMMA ReadIdsParts == ASSUME SettingsOK, PartsInv, NEW c \in Callers, ReadIds(c) PROVE PartsInv'
<1>. DEFINE v == call[c]
            s == Normalized(v.s)
            w == [v EXCEPT !.pc = "secrets", !.s = s, !.todo = AccountsOf(s), !.ids = ServicesIn(file)]
<1>1. /\ CallOK(c) /\ CallerIsSettled(c) /\ DOMAIN call = Callers /\ KeysOK
      /\ "unlocked" \notin slips => AsAccepted(file, {}) /\ HolderAgrees(c)
  BY CallerParts
<1>2. /\ call' = [call EXCEPT ![c] = w] /\ UNCHANGED <<file, accepted, lock>>
      /\ v.pc = "ids" /\ v.s \in SettingsRecord /\ slips \subseteq slips'
  BY <1>1 DEF ReadIds, CallOK
<1>3. Settled(s) /\ \A p \in Parts : Part(s, p) = Part(v.s, p)
  BY <1>1, <1>2, NormalizedParts DEF CallerIsSettled, SavingAt
<1>. HIDE DEF s
<1>4. w.pc = "secrets" /\ w.s = s /\ w.copy = v.copy /\ w.use = v.use /\ w.meant = v.meant
  BY <1>1 DEF CallOK, CallFields
<1>. HIDE DEF w
<1>5. call'[c] = w
  BY <1>1, <1>2
<1>6. CallerIsSettled(c)'
  BY <1>1, <1>2, <1>3, <1>4, <1>5 DEF CallerIsSettled, SavingAt, Settled
<1>7. "unlocked" \notin slips => HolderAgrees(c)'
  BY <1>1, <1>2, <1>3, <1>4, <1>5 DEF HolderAgrees, AsAccepted, SavingAt
<1>. QED
  BY <1>2, <1>6, <1>7, QuietParts

\* The steps of a save that store keys.
LEMMA PutParts ==
  ASSUME SettingsOK, PartsInv, NEW c \in Callers, PutKey(c) \/ DropRemoved(c) PROVE PartsInv'
<1>. DEFINE v == call[c]
<1>1. /\ CallOK(c) /\ CallerIsSettled(c) /\ DOMAIN call = Callers
      /\ "unlocked" \notin slips => AsAccepted(file, {}) /\ HolderAgrees(c)
  BY CallerParts
<1>. DEFINE Saves(w) == /\ w.pc \in {"secrets", "removed", "write"} /\ w.s = v.s /\ w.copy = v.copy
                         /\ w.use = v.use /\ w.meant = v.meant
<1>2. /\ UNCHANGED <<file, accepted, lock, slips>> /\ v.pc \in {"secrets", "removed"}
      /\ \E w : call' = [call EXCEPT ![c] = w] /\ Saves(w)
  <2>1. CASE PutKey(c)
    <3>1. PICK a \in v.todo :
            call' = [call EXCEPT ![c] = [v EXCEPT !.todo = @ \ {a},
                                                  !.pc = IF v.todo = {a} THEN "removed" ELSE @]]
      BY <1>1, <2>1 DEF PutKey
    <3>. DEFINE w == [v EXCEPT !.todo = @ \ {a}, !.pc = IF v.todo = {a} THEN "removed" ELSE @]
    <3>2. v.pc = "secrets" /\ UNCHANGED <<file, accepted, lock, slips>>
      BY <2>1 DEF PutKey, Unaccepted
    <3>3. Saves(w)
      BY <1>1, <3>2 DEF CallOK, CallFields
    <3>4. call' = [call EXCEPT ![c] = w]
      BY <3>1
    <3>. HIDE DEF w, Saves
    <3>. QED
      BY <3>2, <3>3, <3>4
  <2>2. CASE DropRemoved(c)
    <3>. DEFINE w == [v EXCEPT !.pc = "write"]
    <3>1. call' = [call EXCEPT ![c] = w] /\ v.pc = "removed"
          /\ UNCHANGED <<file, accepted, lock, slips>>
      BY <1>1, <2>2 DEF DropRemoved, Unaccepted
    <3>2. Saves(w)
      BY <1>1 DEF CallOK, CallFields
    <3>. HIDE DEF w, Saves
    <3>. QED
      BY <3>1, <3>2
  <2>. QED
    BY <2>1, <2>2
<1>5. PICK w : call' = [call EXCEPT ![c] = w] /\ Saves(w)
  BY <1>2
<1>6. call'[c] = w
  BY <1>1, <1>5
<1>7. CallerIsSettled(c)'
  BY <1>1, <1>2, <1>5, <1>6 DEF CallerIsSettled, SavingAt, Settled
<1>8. "unlocked" \notin slips => HolderAgrees(c)'
  BY <1>1, <1>2, <1>5, <1>6 DEF HolderAgrees, AsAccepted, SavingAt
<1>. QED
  BY <1>2, <1>5, <1>7, <1>8, QuietParts

\* A load that ends with settings of today's form, the accepted ones where it matters.
LEMMA LoadedParts ==
  ASSUME SettingsOK, PartsInv, NEW c \in Callers, NEW s \in SettingsRecord,
         call[c].pc \in {"read", "keys"}, Settled(s), Loaded(c, s), FileIsSettled',
         accepted' = accepted, slips \subseteq slips',
         "unlocked" \notin slips' => AsAccepted(file, {})' /\ (lock = c => AsAccepted(s, {}))
  PROVE  PartsInv'
<1>. DEFINE v == call[c]
<1>1. /\ CallOK(c) /\ CallerIsSettled(c) /\ DOMAIN call = Callers /\ lock \in Callers \cup {Absent}
      /\ "unlocked" \notin slips => HolderAgrees(c)
  BY CallerParts
<1>2. ASSUME NEW w, call' = [call EXCEPT ![c] = w]
      PROVE  call'[c] = w /\ DOMAIN call' = Callers /\ \A d \in Callers \ {c} : call'[d] = call[d]
  BY <1>1, <1>2
<1>3. ASSUME \A d \in Callers \ {c} : call'[d] = call[d],
             lock' = lock \/ lock' = LockAfter(c), CallerIsSettled(c)',
             "unlocked" \notin slips' => HolderAgrees(c)'
      PROVE  PartsInv'
  <2>1. LeavesParts(c)
    BY <1>1, <1>3, KnownCallers DEF LeavesParts, LockAfter
  <2>. QED
    BY <1>3, <2>1, PartsStep
<1>4. CASE v.use = "copy"
  <2>. DEFINE r == Redacted(s)
              w == [v EXCEPT !.pc = "waiting", !.copy = r]
  <2>1. call' = [call EXCEPT ![c] = w] /\ lock' = lock
    BY <1>1, <1>4 DEF Loaded
  <2>2. Settled(r)
    BY RedactedParts
  <2>. HIDE DEF r
  <2>3. w.pc = "waiting" /\ w.copy = r
    BY <1>1 DEF CallOK, CallFields
  <2>. HIDE DEF w
  <2>4. lock # c
    BY <1>1, <1>4 DEF CallerIsSettled
  <2>5. CallerIsSettled(c)' /\ HolderAgrees(c)'
    BY <1>2, <2>1, <2>2, <2>3, <2>4 DEF CallerIsSettled, HolderAgrees, SavingAt, Settled
  <2>. QED
    BY <1>2, <1>3, <2>1, <2>5
<1>5. ASSUME call' = [call EXCEPT ![c].pc = "done"], lock' = LockAfter(c) PROVE PartsInv'
  <2>. DEFINE w == [v EXCEPT !.pc = "done"]
  <2>1. call' = [call EXCEPT ![c] = w]
    BY <1>1, <1>5
  <2>2. w.pc = "done" /\ w.copy = v.copy
    BY <1>1 DEF CallOK, CallFields
  <2>. HIDE DEF w
  <2>3. lock' # c
    BY <1>5, KnownCallers DEF LockAfter
  <2>4. CallerIsSettled(c)' /\ HolderAgrees(c)'
    BY <1>1, <1>2, <2>1, <2>2, <2>3 DEF CallerIsSettled, HolderAgrees, SavingAt, Settled
  <2>. QED
    BY <1>2, <1>3, <1>5, <2>1, <2>4
<1>6. CASE v.use = "base" /\ (c # "factory" \/ s.transcription = "outdated")
  <2>1. Save(c, s, v.copy) /\ lock' = lock /\ c # "snapshot" /\ c # "whole"
    BY <1>1, <1>6 DEF Loaded, CallOK
  <2>2. lock = c => c \notin Unlocked
    BY <1>1 DEF CallerIsSettled
  <2>3. /\ CallerIsSettled(c)' /\ (AsAccepted(s, {}) => HolderAgrees(c)')
        /\ \A d \in Callers \ {c} : call'[d] = call[d]
    BY <2>1, <2>2, SaveParts
  <2>4. "unlocked" \notin slips' => HolderAgrees(c)'
    BY <2>1, <2>3 DEF HolderAgrees
  <2>. QED
    BY <1>3, <2>1, <2>3, <2>4
<1>7. CASE v.use = "base" /\ ~(c # "factory" \/ s.transcription = "outdated")
  <2>1. call' = [call EXCEPT ![c].pc = "done"] /\ lock' = lock
    BY <1>7 DEF Loaded
  <2>2. lock # c
    BY <1>1, <1>7 DEF CallerIsSettled, Unlocked
  <2>. QED
    BY <1>5, <2>1, <2>2 DEF LockAfter
<1>8. CASE v.use = "result"
  BY <1>5, <1>8 DEF Loaded
<1>. QED
  BY <1>1, <1>4, <1>6, <1>7, <1>8 DEF CallOK

\* What is written to the file is of today's form, with no key in it.
LEMMA WrittenIsSettled ==
  ASSUME NEW s \in SettingsRecord, Settled(s), file' = Redacted(s), PartsInv,
         DOMAIN accepted' \subseteq Parts \cup Accounts
  PROVE  FileIsSettled' /\ \A p \in Parts : Part(file', p) = Part(s, p)
<1>. DEFINE f == Redacted(s)
<1>1. Settled(f) /\ \A p \in Parts : Part(f, p) = Part(s, p)
  BY RedactedParts
<1>2. FileIsRedacted' /\ f # Absent
  BY WrittenIsRedacted, RedactedFits
<1>3. f.prompts.bound = "custom" => f.prompts.custom
  BY <1>1 DEF Settled
<1>. HIDE DEF f
<1>4. file' = f
  BY DEF f
<1>. QED
  BY <1>1, <1>2, <1>3, <1>4 DEF FileIsSettled, Settled, Part

\* Nothing was accepted before there was a file.
LEMMA DefaultsAreKept ==
  ASSUME SettingsOK, PartsInv, NEW c \in Callers, LoadWritesDefaults(c) PROVE PartsInv'
<1>1. /\ call[c].pc = "read" /\ file = Absent /\ file' = Redacted(Defaults)
      /\ Loaded(c, Defaults) /\ accepted' = accepted /\ LoadSlips(c)
  BY DEF LoadWritesDefaults
<1>2. Defaults \in SettingsRecord /\ Settled(Defaults)
  BY DefaultsFit, DefaultsParts
<1>3. DOMAIN accepted = {}
  BY <1>1, CallerParts DEF FileIsSettled, FileIsRedacted
<1>4. FileIsSettled'
  BY <1>1, <1>2, <1>3, WrittenIsSettled
<1>5. AsAccepted(file, {})' /\ AsAccepted(Defaults, {})
  BY <1>1, <1>3 DEF AsAccepted
<1>6. slips \subseteq slips'
  BY <1>1 DEF LoadSlips, Slips
<1>. QED
  BY <1>1, <1>2, <1>4, <1>5, <1>6, LoadedParts

LEMMA EndLoadParts ==
  ASSUME SettingsOK, PartsInv, Begun, NEW c \in Callers, EndLoad(c) PROVE PartsInv'
<1>. DEFINE v == call[c]
<1>1. /\ CallOK(c) /\ CallerIsSettled(c) /\ FileIsSettled
      /\ "unlocked" \notin slips => AsAccepted(file, {}) /\ HolderAgrees(c)
  BY CallerParts
<1>2. /\ v.pc = "keys" /\ Loaded(c, v.s) /\ accepted' = accepted
      /\ file' = IF v.plain THEN Redacted(v.s) ELSE file
      /\ IF v.plain THEN LoadSlips(c) ELSE slips' = slips
      /\ v.s \in SettingsRecord /\ Settled(v.s)
  BY <1>1 DEF EndLoad, CallOK, CallerIsSettled
<1>3. slips \subseteq slips'
  BY <1>2 DEF LoadSlips, Slips
<1>4. "unlocked" \notin slips' => (lock = c => AsAccepted(v.s, {}))
  BY <1>1, <1>2, <1>3 DEF HolderAgrees
<1>5. CASE v.plain
  <2>1. FileIsSettled' /\ \A p \in Parts : Part(file', p) = Part(v.s, p)
    BY <1>1, <1>2, <1>5, WrittenIsSettled DEF FileIsSettled
  <2>2. "unlocked" \notin slips' => lock = c \/ DOMAIN accepted = {}
    BY <1>2, <1>5 DEF LoadSlips, Slips, Begun
  <2>3. "unlocked" \notin slips' => AsAccepted(file, {})'
    BY <1>2, <1>4, <2>1, <2>2 DEF AsAccepted
  <2>. QED
    BY <1>2, <1>3, <1>4, <2>1, <2>3, LoadedParts
<1>6. CASE ~v.plain
  <2>1. file' = file
    BY <1>2, <1>6
  <2>2. FileIsSettled' /\ ("unlocked" \notin slips' => AsAccepted(file, {})')
    BY <1>1, <1>2, <1>6, <2>1 DEF FileIsSettled, FileIsRedacted, Plaintext, Settled, AsAccepted
  <2>. QED
    BY <1>2, <1>3, <1>4, <2>2, LoadedParts
<1>. QED
  BY <1>5, <1>6

LEMMA WriteFileParts == ASSUME SettingsOK, PartsInv, NEW c \in Callers, WriteFile(c) PROVE PartsInv'
<1>. DEFINE v == call[c]
            p == IF c = "factory" THEN "done" ELSE "read"
            w == [v EXCEPT !.pc = p, !.use = "result"]
<1>1. /\ CallOK(c) /\ CallerIsSettled(c) /\ DOMAIN call = Callers /\ FileIsSettled
      /\ lock \in Callers \cup {Absent}
      /\ "unlocked" \notin slips => AsAccepted(file, {}) /\ HolderAgrees(c)
  BY CallerParts
<1>2. /\ v.pc = "write" /\ file' = Redacted(v.s) /\ lock' = lock /\ Slips(c)
      /\ accepted' = Joined(v.meant, accepted)
      /\ call' = [call EXCEPT ![c] = w] /\ v.s \in SettingsRecord
  BY <1>1 DEF WriteFile, CallOK
<1>3. Settled(v.s) /\ DOMAIN v.meant \subseteq Parts \cup Accounts
      /\ \A x \in Parts \cap DOMAIN v.meant : Part(v.s, x) = v.meant[x]
  BY <1>1, <1>2 DEF CallerIsSettled, SavingAt
<1>4. /\ DOMAIN accepted' = DOMAIN v.meant \cup DOMAIN accepted
      /\ \A x \in DOMAIN accepted' :
           accepted'[x] = IF x \in DOMAIN v.meant THEN v.meant[x] ELSE accepted[x]
  BY <1>2 DEF Joined
<1>5. FileIsSettled' /\ \A x \in Parts : Part(file', x) = Part(v.s, x)
  BY <1>1, <1>2, <1>3, <1>4, WrittenIsSettled DEF FileIsSettled
<1>6. p \in {"done", "read"} /\ (p = "done" => c = "factory")
  OBVIOUS
<1>. HIDE DEF p
<1>7. w.pc = p /\ w.use = "result" /\ w.copy = v.copy
  BY <1>1 DEF CallOK, CallFields
<1>. HIDE DEF w
<1>8. call'[c] = w /\ \A d \in Callers \ {c} : call'[d] = call[d]
  BY <1>1, <1>2
<1>9. LeavesParts(c)
  BY <1>1, <1>2, <1>8 DEF LeavesParts, Slips
<1>10. CallerIsSettled(c)' /\ HolderAgrees(c)'
  BY <1>1, <1>2, <1>6, <1>7, <1>8 DEF CallerIsSettled, HolderAgrees, SavingAt, Settled, Unlocked
<1>11. ASSUME "unlocked" \notin slips' PROVE AsAccepted(file, {})'
  <2>1. lock = c /\ "unlocked" \notin slips
    BY <1>2, <1>11 DEF Slips
  <2>2. AsAccepted(v.s, DOMAIN v.meant)
    BY <1>1, <1>2, <2>1 DEF HolderAgrees, SavingAt
  <2>. QED
    BY <1>3, <1>4, <1>5, <2>2 DEF AsAccepted
<1>. QED
  BY <1>5, <1>9, <1>10, <1>11, PartsStep

LEMMA EndKeepsParts == ASSUME SettingsOK, PartsInv, SettingsCrash PROVE PartsInv'
<1>. DEFINE w == [IdleCall EXCEPT !.pc = "lost"]
<1>1. /\ \A c \in Callers : call'[c] = call[c] \/ call'[c] = w
      /\ UNCHANGED <<file, accepted>> /\ lock' = Absent /\ slips \subseteq slips'
  BY DEF SettingsCrash
<1>2. w.pc = "lost" /\ w.copy = Defaults
  BY DEF IdleCall
<1>. HIDE DEF w
<1>3. ASSUME NEW c \in Callers PROVE CallerIsSettled(c)' /\ HolderAgrees(c)'
  <2>1. CallerIsSettled(c) /\ lock' # c
    BY <1>1, KnownCallers DEF PartsInv
  <2>2. CASE call'[c] = call[c]
    BY <2>1, <2>2 DEF CallerIsSettled, HolderAgrees, Settled
  <2>3. CASE call'[c] = w
    BY <1>2, <2>1, <2>3, DefaultsParts DEF CallerIsSettled, HolderAgrees, SavingAt, Settled
  <2>. QED
    BY <1>1, <2>2, <2>3
<1>4. FileIsSettled' /\ ("unlocked" \notin slips' => AsAccepted(file, {})')
  BY <1>1 DEF PartsInv, FileIsSettled, FileIsRedacted, Plaintext, Settled, AsAccepted
<1>. QED
  BY <1>1, <1>3, <1>4 DEF PartsInv

LEMMA StutterParts == ASSUME PartsInv, UNCHANGED settings PROVE PartsInv'
<1>1. UNCHANGED <<file, lock, call, accepted, slips>>
  BY DEF settings
<1>2. ASSUME NEW c \in Callers
      PROVE  CallerIsSettled(c)' /\ ("unlocked" \notin slips => HolderAgrees(c)')
  BY <1>1 DEF PartsInv, CallerIsSettled, HolderAgrees, AsAccepted, Settled
<1>3. FileIsSettled' /\ ("unlocked" \notin slips' => AsAccepted(file, {})')
  BY <1>1 DEF PartsInv, FileIsSettled, FileIsRedacted, Plaintext, Settled, AsAccepted
<1>. QED
  BY <1>1, <1>2, <1>3 DEF PartsInv

LEMMA StartIsSettled == ASSUME NEW start \in DOMAIN Stored, SettingsInit(start) PROVE PartsInv
<1>1. /\ file = Stored[start].file /\ lock = Absent /\ DOMAIN accepted = {}
      /\ \A c \in Callers : call[c] = IdleCall
  BY DEF SettingsInit
<1>2. file # Absent => (file.prompts.bound = "custom" => file.prompts.custom)
  BY <1>1, StoredAssumption
<1>3. IdleCall.pc = "idle" /\ IdleCall.copy = Defaults
  BY DEF IdleCall
<1>4. \A c \in Callers : CallerIsSettled(c) /\ HolderAgrees(c)
  BY <1>1, <1>3, DefaultsParts, KnownCallers DEF CallerIsSettled, HolderAgrees, SavingAt
<1>. QED
  BY <1>1, <1>2, <1>4 DEF PartsInv, FileIsSettled, AsAccepted

LEMMA SettledStep ==
  ASSUME SettingsOK, PartsInv, Begun, [SettingsNext]_settings PROVE PartsInv'
<1>1. ASSUME NEW c \in Callers, CallStep(c) \/ CallFails(c) PROVE PartsInv'
  BY <1>1, BeginParts, TakeLockParts, DefaultsAreKept, ReadFileParts, LoadKeyParts, EndLoadParts,
     ReadIdsParts, PutParts, WriteFileParts, FailParts DEF CallStep
<1>. QED
  BY <1>1, EndKeepsParts, StutterParts DEF SettingsNext

\* The invariants imply what is said of the parts.
LEMMA PartsFollow ==
  ASSUME SecretInv, RemovalInv, PartsInv
  PROVE  SettingsTypeOK /\ AcceptedPartsStay /\ BindingsResolve
<1>1. SettingsTypeOK
  <2>1. DOMAIN keys = Accounts /\ lock \in Callers \cup {Absent} /\ known \subseteq Services
        /\ slips \subseteq {"failed", "crashed", "unlocked", "stale"}
    BY DEF SecretInv, SettingsOK, KeysOK, RemovalInv, PartsInv
  <2>2. ASSUME NEW c \in Callers
        PROVE  /\ call[c].pc \in {"idle", "waiting", "read", "keys", "ids", "secrets",
                                  "removed", "write", "done", "failed", "lost"}
               /\ call[c].use \in {"copy", "base", "result"} /\ call[c].todo \subseteq Accounts
               /\ lock = c => call[c].pc \notin {"idle", "waiting", "done", "failed", "lost"}
    BY CallerParts DEF SecretInv, CallOK, CallerIsSettled, SavingAt
  <2>. QED
    BY <2>1, <2>2 DEF SettingsTypeOK
<1>2. AcceptedPartsStay
  BY DEF PartsInv, FileIsSettled, AsAccepted, AcceptedPartsStay
<1>3. BindingsResolve
  BY DEF PartsInv, FileIsSettled, BindingsResolve
<1>. QED
  BY <1>1, <1>2, <1>3

\* What the last accepted command set of a part of the settings that is no key stays in
\* the file, whichever commands take part and whatever they read before, as long as the
\* file is written under the lock; and no task is ever bound to a template that is gone.
THEOREM PartsStay == SettingsSpec => [](SettingsTypeOK /\ AcceptedPartsStay /\ BindingsResolve)
<1>1. (\E start \in DOMAIN Stored : SettingsInit(start)) => SecretInv /\ RemovalInv /\ Begun /\ PartsInv
  BY StartIsKept, StartLock, StartBegins, StartIsSettled
<1>2. SecretInv /\ RemovalInv /\ Begun /\ PartsInv /\ [SettingsNext]_settings
        => (SecretInv /\ RemovalInv /\ Begun /\ PartsInv)'
  BY SecretStep, RemovalStep, BegunStep, SettledStep DEF SecretInv
<1>. QED
  BY <1>1, <1>2, PartsFollow, PTL DEF SettingsSpec


\* The accounts whose key, or whose removal, was accepted.
AcceptedKeys == Accounts \cap DOMAIN accepted

\* c, which holds the lock, is about to set the key of a, or to remove it.
Owes(c, a) == lock = c /\ call[c].pc \in SavingAt /\ a \in DOMAIN call[c].meant

\* The entry of account a in s is of key k, and says it; the flat field too.
Exact(s, a, k) ==
  IF a = "gemini"
  THEN /\ s.ai.gem.key = k /\ (s.ai.gem.has <=> k # Absent)
       /\ s.flat.key = k /\ (s.flat.present <=> k # Absent)
  ELSE a \in DOMAIN s.ai.services =>
         s.ai.services[a].key = k /\ (s.ai.services[a].has <=> k # Absent)

\* Storing the entry of account a in s leaves its key, k, in the storage.
Spares(s, a, k) ==
  IF a = "gemini" THEN s.ai.gem.key \in {Absent, k} /\ (k # Absent => s.ai.gem.has)
  ELSE a \in DOMAIN s.ai.services =>
         s.ai.services[a].key \in {Absent, k} /\ (k # Absent => s.ai.services[a].has)

\* What the holder of the lock has in hand of the accepted keys, and of the ones it
\* is about to change.
HolderHasKeys(c) ==
  LET v == call[c] IN
  lock = c =>
    /\ v.pc = "keys" =>
         \A a \in AcceptedKeys :
           IF a \in v.todo THEN Plaintext(v.s, a) = Absent ELSE Carries(v.s, a, keys[a])
    /\ v.pc \in SavingAt =>
         \A a \in Accounts \cap DOMAIN v.meant :
           IF a \notin AccountsOf(v.s) THEN v.meant[a] = Absent
           ELSE IF v.pc = "ids" \/ (v.pc = "secrets" /\ a \in v.todo)
           THEN Exact(v.s, a, v.meant[a])
           ELSE keys[a] = v.meant[a]
    /\ v.pc = "ids" /\ c \notin Windows =>
         /\ \A a \in AcceptedKeys \ DOMAIN v.meant : Carries(v.s, a, keys[a])
         /\ DOMAIN v.s.ai.services = ServicesIn(file)
    /\ v.pc \in {"secrets", "removed", "write"} =>
         \A a \in AcceptedKeys \ DOMAIN v.meant :
           /\ Spares(v.s, a, keys[a])
           /\ a \in v.ids => a \in AccountsOf(v.s) \/ keys[a] = Absent

\* What was accepted of the keys is in the storage, but for what the holder of the
\* lock is about to change, as long as nothing slipped.
KeysInv ==
  slips = {} /\ ~Stray =>
    /\ \A a \in AcceptedKeys \cap ({"gemini"} \cup known) :
         keys[a] = accepted[a] \/ \E c \in Callers : Owes(c, a)
    /\ \A c \in Callers : HolderHasKeys(c)

(***************************************************************************)
(* Accepted keys. What each function on the record makes of an entry that  *)
(* says just what a key is (Exact).                                        *)
(***************************************************************************)
\* A refreshed entry that says of a key what it is, or has one that it does not say.
LEMMA RefreshedExact ==
  ASSUME NEW e \in Entries, NEW k, e.key = k, k = Absent => ~e.has
  PROVE  Refreshed(e).key = k /\ (Refreshed(e).has <=> k # Absent)
BY EntryRefreshed

LEMMA SyncLegacySays ==
  ASSUME NEW s \in SettingsRecord
  PROVE  LET t == SyncLegacyFromSections(s) IN
         /\ t.ai.gem = Refreshed(s.ai.gem) /\ t.flat.key = s.ai.gem.key
         /\ t.flat.present <=> s.ai.gem.has \/ s.ai.gem.key # Absent
         /\ DOMAIN t.ai.services = DOMAIN s.ai.services
         /\ \A i \in DOMAIN s.ai.services : t.ai.services[i] = Refreshed(s.ai.services[i])
<1>. DEFINE flat == [transcription |-> s.transcription, key |-> s.ai.gem.key,
                     present |-> s.ai.gem.has \/ s.ai.gem.key # Absent]
            ai == [s.ai EXCEPT !.active = ActiveOf(s.ai)]
            pr == PromptsIntact(s.prompts)
            m == [s EXCEPT !.flat = flat, !.ai = ai, !.prompts = pr]
<1>1. SyncLegacyFromSections(s) = Refresh(m)
  BY DEF SyncLegacyFromSections
<1>2. s.ai \in AiRecord /\ s.ai.gem \in Entries /\ s.transcription \in Texts
      /\ s.prompts \in [custom : BOOLEAN, bound : Texts]
  BY SettingsParts DEF SettingsRecord
<1>3. /\ flat \in FlatRecord /\ flat.key = s.ai.gem.key
      /\ (flat.present <=> s.ai.gem.has \/ s.ai.gem.key # Absent)
  BY <1>2 DEF FlatRecord, Entries
<1>4. ai \in AiRecord /\ ai.gem = s.ai.gem /\ ai.services = s.ai.services
  BY <1>2, ActiveIsThere DEF AiRecord
<1>5. pr \in [custom : BOOLEAN, bound : Texts]
  BY <1>2, PromptsAreIntact
<1>. HIDE DEF flat, ai, pr
<1>6. m \in SettingsRecord /\ m.flat = flat /\ m.ai = ai
  BY <1>3, <1>4, <1>5 DEF SettingsRecord
<1>. HIDE DEF m
<1>7. Refreshed(s.ai.gem).has <=> s.ai.gem.has \/ s.ai.gem.key # Absent
  BY <1>2, EntryRefreshed
<1>. QED
  BY <1>1, <1>3, <1>4, <1>6, <1>7, RefreshFacts

LEMMA SyncSectionsSay ==
  ASSUME NEW s \in SettingsRecord
  PROVE  LET t == SyncSectionsFromLegacy(s) IN
         /\ t.ai.gem.key = s.flat.key
         /\ t.ai.gem.has <=> s.flat.present \/ s.flat.key # Absent
         /\ t.flat.key = s.flat.key
         /\ t.flat.present <=> s.flat.present \/ s.flat.key # Absent
         /\ DOMAIN t.ai.services = DOMAIN s.ai.services
         /\ \A i \in DOMAIN s.ai.services : t.ai.services[i] = Refreshed(s.ai.services[i])
<1>. DEFINE provider == IF s.ai.provider = "none" /\ s.flat.key # Absent
                        THEN "gemini" ELSE s.ai.provider
            gem == [key |-> s.flat.key, has |-> s.flat.present \/ s.flat.key # Absent]
            ai0 == [s.ai EXCEPT !.gem = gem, !.provider = provider]
            ai == [ai0 EXCEPT !.active = ActiveOf(ai0)]
            pr == PromptsIntact(s.prompts)
            m == [s EXCEPT !.transcription = s.flat.transcription, !.ai = ai, !.prompts = pr]
<1>1. SyncSectionsFromLegacy(s) = Refresh(m)
  BY DEF SyncSectionsFromLegacy
<1>2. s.ai \in AiRecord /\ s.flat \in FlatRecord /\ s.flat.transcription \in Texts
      /\ s.prompts \in [custom : BOOLEAN, bound : Texts]
  BY SettingsParts DEF SettingsRecord
<1>3. gem \in Entries /\ gem.key = s.flat.key
      /\ (gem.has <=> s.flat.present \/ s.flat.key # Absent)
  BY <1>2 DEF FlatRecord, Entries
<1>4. provider \in Texts
  BY <1>2, TextsAssumption DEF AiRecord
<1>. HIDE DEF gem, provider
<1>5. ai0 \in AiRecord /\ ai0.gem = gem /\ ai0.services = s.ai.services
  BY <1>2, <1>3, <1>4 DEF AiRecord
<1>. HIDE DEF ai0
<1>6. ai \in AiRecord /\ ai.gem = gem /\ ai.services = s.ai.services
  BY <1>5, ActiveIsThere DEF AiRecord
<1>7. pr \in [custom : BOOLEAN, bound : Texts]
  BY <1>2, PromptsAreIntact
<1>. HIDE DEF ai, pr
<1>8. m \in SettingsRecord /\ m.flat = s.flat /\ m.ai = ai
  BY <1>2, <1>6, <1>7 DEF SettingsRecord
<1>. HIDE DEF m
<1>9. Refreshed(gem).key = gem.key /\ (Refreshed(gem).has <=> gem.has \/ gem.key # Absent)
  BY <1>3, EntryRefreshed
<1>. QED
  BY <1>1, <1>3, <1>6, <1>8, <1>9, RefreshFacts

\* Syncing either way, and refreshing, keep what is exact; syncing from the sections
\* makes it so of a Gemini key that was only just put in.
LEMMA SyncingExact ==
  ASSUME NEW s \in SettingsRecord, NEW a \in Accounts, NEW k
  PROVE  /\ Exact(s, a, k) => /\ Exact(SyncLegacyFromSections(s), a, k)
                              /\ Exact(SyncSectionsFromLegacy(s), a, k)
                              /\ Exact(Refresh(s), a, k)
         /\ a = "gemini" /\ s.ai.gem.key = k /\ (k = Absent => ~s.ai.gem.has) =>
              Exact(SyncLegacyFromSections(s), a, k)
<1>. DEFINE t == SyncLegacyFromSections(s)
            u == SyncSectionsFromLegacy(s)
            r == Refresh(s)
<1>1. /\ t.ai.gem = Refreshed(s.ai.gem) /\ t.flat.key = s.ai.gem.key
      /\ t.flat.present <=> s.ai.gem.has \/ s.ai.gem.key # Absent
      /\ DOMAIN t.ai.services = DOMAIN s.ai.services
      /\ \A i \in DOMAIN s.ai.services : t.ai.services[i] = Refreshed(s.ai.services[i])
  BY SyncLegacySays
<1>2. /\ u.ai.gem.key = s.flat.key /\ (u.ai.gem.has <=> s.flat.present \/ s.flat.key # Absent)
      /\ u.flat.key = s.flat.key /\ (u.flat.present <=> s.flat.present \/ s.flat.key # Absent)
      /\ DOMAIN u.ai.services = DOMAIN s.ai.services
      /\ \A i \in DOMAIN s.ai.services : u.ai.services[i] = Refreshed(s.ai.services[i])
  BY SyncSectionsSay
<1>3. /\ r.ai.gem = Refreshed(s.ai.gem) /\ r.flat.key = s.flat.key
      /\ r.flat.present <=> s.flat.present \/ Refreshed(s.ai.gem).has
      /\ DOMAIN r.ai.services = DOMAIN s.ai.services
      /\ \A i \in DOMAIN s.ai.services : r.ai.services[i] = Refreshed(s.ai.services[i])
  BY RefreshFacts
<1>4. s.ai.gem \in Entries /\ \A i \in DOMAIN s.ai.services : s.ai.services[i] \in Entries
  BY SettingsParts, ServiceListFits
<1>. HIDE DEF t, u, r
<1>5. ASSUME a = "gemini", s.ai.gem.key = k, k = Absent => ~s.ai.gem.has
      PROVE  Exact(t, a, k)
  <2>1. Refreshed(s.ai.gem).key = k /\ (Refreshed(s.ai.gem).has <=> k # Absent)
    BY <1>4, <1>5, RefreshedExact
  <2>. QED
    BY <1>1, <1>5, <2>1 DEF Exact
<1>6. ASSUME Exact(s, a, k) PROVE Exact(t, a, k) /\ Exact(u, a, k) /\ Exact(r, a, k)
  <2>1. CASE a = "gemini"
    <3>1. /\ s.ai.gem.key = k /\ (s.ai.gem.has <=> k # Absent)
          /\ s.flat.key = k /\ (s.flat.present <=> k # Absent)
      BY <1>6, <2>1 DEF Exact
    <3>2. Refreshed(s.ai.gem).key = k /\ (Refreshed(s.ai.gem).has <=> k # Absent)
      BY <1>4, <3>1, RefreshedExact
    <3>. QED
      BY <1>1, <1>2, <1>3, <2>1, <3>1, <3>2 DEF Exact
  <2>2. CASE a # "gemini"
    <3>1. a \in DOMAIN s.ai.services =>
            Refreshed(s.ai.services[a]).key = k /\ (Refreshed(s.ai.services[a]).has <=> k # Absent)
      BY <1>4, <1>6, <2>2, RefreshedExact DEF Exact
    <3>. QED
      BY <1>1, <1>2, <1>3, <2>2, <3>1 DEF Exact
  <2>. QED
    BY <2>1, <2>2
<1>. QED
  BY <1>5, <1>6 DEF t, u, r

\* An exact entry takes no key from the storage.
LEMMA MergedExact ==
  ASSUME KeysOK, NEW s \in SettingsRecord, NEW a \in Accounts, NEW k, Exact(s, a, k)
  PROVE  Exact(Merged(s), a, k)
<1>. DEFINE Back(e, b) == IF e.key = Absent /\ e.has THEN [e EXCEPT !.key = keys[b]] ELSE e
            gem == Back(s.ai.gem, "gemini")
            key == IF s.flat.key = Absent /\ s.flat.present
                   THEN IF gem.key # Absent THEN gem.key ELSE keys["gemini"]
                   ELSE s.flat.key
            sv == [i \in DOMAIN s.ai.services |-> Back(s.ai.services[i], i)]
            t == Merged(s)
<1>1. s.ai \in AiRecord /\ s.flat \in FlatRecord
  BY SettingsParts
<1>2. t = [s EXCEPT !.ai.gem = gem, !.flat.key = key, !.ai.services = sv]
  BY DEF Merged
<1>3. a = "gemini" => gem = s.ai.gem /\ key = k
  BY DEF Exact
<1>4. a # "gemini" /\ a \in DOMAIN s.ai.services => sv[a] = s.ai.services[a]
  BY DEF Exact
<1>5. DOMAIN sv = DOMAIN s.ai.services
  OBVIOUS
<1>. HIDE DEF gem, key, sv, t
<1>6. t.ai.gem = gem /\ t.flat.key = key /\ t.flat.present = s.flat.present /\ t.ai.services = sv
  BY <1>1, <1>2 DEF SettingsRecord, AiRecord, FlatRecord
<1>. QED
  BY <1>3, <1>4, <1>5, <1>6 DEF Exact, t

\* So what is exact when it is handed to the save is so when it is saved.
LEMMA NormalizedExact ==
  ASSUME KeysOK, NEW s \in SettingsRecord, NEW a \in Accounts, NEW k, Exact(s, a, k)
  PROVE  Exact(Normalized(s), a, k)
<1>. DEFINE u == [s EXCEPT !.model = "v3"]
            m == Merged(u)
            l == IF LegacyIsSource(m) THEN SyncSectionsFromLegacy(m) ELSE m
            t == SyncLegacyFromSections(l)
<1>1. u \in SettingsRecord /\ u.ai = s.ai /\ u.flat = s.flat
  BY TextsAssumption DEF SettingsRecord
<1>2. Exact(u, a, k)
  BY <1>1 DEF Exact
<1>. HIDE DEF u
<1>3. m \in SettingsRecord /\ Exact(m, a, k)
  BY <1>1, <1>2, MergedExact, MergedKeeps
<1>. HIDE DEF m
<1>4. l \in SettingsRecord /\ Exact(l, a, k)
  BY <1>3, SyncingExact, SyncSectionsKeeps
<1>. HIDE DEF l
<1>5. t \in SettingsRecord /\ Exact(t, a, k)
  BY <1>4, SyncingExact, SyncLegacyKeeps
<1>6. Normalized(s) = Refresh(t)
  BY DEF Normalized, t, l, m, u
<1>. HIDE DEF t
<1>. QED
  BY <1>5, <1>6, SyncingExact

\* What a command means to set of the keys is just what it hands to the save, or the
\* service is gone.
LEMMA ChangesExact ==
  ASSUME NEW c \in KeyWriters, NEW s \in SettingsRecord, NEW copy \in SettingsRecord,
         NEW m \in Changes(c, s, copy), c = "whole" => s = copy, m.s \in SettingsRecord
  PROVE  \A a \in Accounts \cap DOMAIN m.meant :
           /\ m.meant[a] \in Texts \cup {Absent}
           /\ IF a \notin AccountsOf(Synced(c, m.s)) THEN m.meant[a] = Absent
              ELSE Exact(Synced(c, m.s), a, m.meant[a])
<1>. DEFINE x == m.s
            t == Synced(c, x)
<1>1. DOMAIN t.ai.services = DOMAIN x.ai.services
  BY SyncedKeeps DEF KeepsKeys, SameServices
<1>2. "gemini" \notin Services /\ Accounts = {"gemini"} \cup Services /\ Absent \notin Texts
      /\ "new" \in Texts
  BY KindsOfServices, TextsAssumption DEF Accounts
<1>3. ASSUME c # "whole", NEW a \in Accounts, NEW k,
             \/ Exact(x, a, k)
             \/ a = "gemini" /\ x.ai.gem.key = k /\ (k = Absent => ~x.ai.gem.has)
      PROVE  Exact(t, a, k)
  <2>1. SyncLegacyFromSections(x) \in SettingsRecord /\ Exact(SyncLegacyFromSections(x), a, k)
    BY <1>3, SyncingExact, SyncLegacyKeeps
  <2>2. t = SyncSectionsFromLegacy(SyncLegacyFromSections(x))
    BY <1>3 DEF Synced, KeyWriters
  <2>. HIDE DEF t, x
  <2>. QED
    BY <2>1, <2>2, SyncingExact
<1>. HIDE DEF t
<1>4. CASE c = "provider"
  <2>1. \/ x = [s EXCEPT !.ai.gem.key = "new"] /\ m.meant = [gemini |-> "new"]
        \/ m.meant = <<>>
    BY <1>4 DEF Changes, Change
  <2>2. CASE x = [s EXCEPT !.ai.gem.key = "new"] /\ m.meant = [gemini |-> "new"]
    <3>1. x.ai.gem.key = "new"
      BY <2>2, SettingsParts DEF SettingsRecord, AiRecord, Entries
    <3>2. Exact(t, "gemini", "new")
      BY <1>2, <1>3, <1>4, <3>1
    <3>3. \A a \in Accounts \cap DOMAIN m.meant : a = "gemini" /\ m.meant[a] = "new"
      BY <2>2
    <3>. QED
      BY <1>2, <3>2, <3>3 DEF AccountsOf, t
  <2>3. CASE m.meant = <<>>
    BY <2>3
  <2>. QED
    BY <2>1, <2>2, <2>3
<1>5. CASE c = "ai"
  <2>1. PICK n \in AiChanges(copy.ai) : x = [s EXCEPT !.ai = n.ai] /\ m.meant = n.meant
    BY <1>5 DEF Changes, Change
  <2>2. copy.ai \in AiRecord /\ x.ai = n.ai
    BY <2>1, SettingsParts DEF SettingsRecord
  <2>3. PICK a \in Accounts :
          /\ DOMAIN n.meant = {a} /\ n.meant[a] \in Texts \cup {Absent}
          /\ a = "gemini" => n.ai.gem = NoKey /\ n.meant[a] = Absent
          /\ a # "gemini" /\ a \notin DOMAIN n.ai.services => n.meant[a] = Absent
          /\ a # "gemini" /\ a \in DOMAIN n.ai.services =>
               n.ai.services[a].key = n.meant[a] /\ (n.ai.services[a].has <=> n.meant[a] # Absent)
    BY <2>2, AiChangesMean
  <2>4. CASE a = "gemini"
    <3>1. x.ai.gem.key = Absent /\ ~x.ai.gem.has
      BY <2>2, <2>3, <2>4 DEF NoKey
    <3>2. Exact(t, "gemini", Absent)
      BY <1>2, <1>3, <1>5, <3>1
    <3>. QED
      BY <2>1, <2>3, <2>4, <3>2 DEF AccountsOf, t
  <2>5. CASE a # "gemini"
    <3>1. Exact(x, a, n.meant[a])
      BY <2>2, <2>3, <2>5 DEF Exact
    <3>2. Exact(t, a, n.meant[a])
      BY <1>3, <1>5, <3>1
    <3>3. a \notin AccountsOf(t) => a \notin DOMAIN n.ai.services
      BY <1>1, <2>2 DEF AccountsOf
    <3>. QED
      BY <2>1, <2>3, <2>5, <3>2, <3>3 DEF t
  <2>. QED
    BY <2>4, <2>5
<1>6. CASE c = "whole"
  <2>. DEFINE gone == [i \in Services \ DOMAIN copy.ai.services |-> Absent]
              said0 == [transcription |-> "whole", automation |-> copy.automation,
                        bound |-> copy.prompts.bound]
  <2>1. /\ x = [copy EXCEPT !.transcription = "whole", !.flat.transcription = "whole"]
        /\ m.meant = Joined(said0, gone)
    BY <1>6 DEF Changes, Change
  <2>2. x.ai = copy.ai
    BY <2>1 DEF SettingsRecord
  <2>3. DOMAIN said0 = Parts /\ Accounts \cap Parts = {}
    BY <1>2, KindsOfServices DEF Parts
  <2>4. \A a \in Accounts \cap DOMAIN m.meant : a \in DOMAIN gone /\ m.meant[a] = Absent
    BY <2>1, <2>3 DEF Joined
  <2>5. \A a \in DOMAIN gone : a \notin AccountsOf(t)
    BY <1>1, <1>2, <2>2 DEF AccountsOf
  <2>. QED
    BY <2>4, <2>5 DEF t
<1>. QED
  BY <1>4, <1>5, <1>6 DEF KeyWriters

(***************************************************************************)
(* Copies of windows. A window's copy holds no key, and every service that *)
(* is read, copied or saved has been in the file or is meant.              *)
(***************************************************************************)
\* A record without the key of a stays so when it is refreshed or synced either way.
LEMMA SyncingEmpty ==
  ASSUME NEW s \in SettingsRecord, NEW a \in Accounts, Plaintext(s, a) = Absent
  PROVE  /\ Plaintext(SyncLegacyFromSections(s), a) = Absent
         /\ Plaintext(SyncSectionsFromLegacy(s), a) = Absent
         /\ Plaintext(Refresh(s), a) = Absent
<1>1. s.ai.gem \in Entries /\ \A i \in DOMAIN s.ai.services : s.ai.services[i] \in Entries
  BY SettingsParts, ServiceListFits
<1>2. Refreshed(s.ai.gem).key = s.ai.gem.key
      /\ \A i \in DOMAIN s.ai.services : Refreshed(s.ai.services[i]).key = s.ai.services[i].key
  BY <1>1, EntryRefreshed
<1>3. CASE a = "gemini"
  <2>1. s.ai.gem.key = Absent /\ s.flat.key = Absent
    BY <1>3 DEF Plaintext
  <2>. QED
    BY <1>2, <1>3, <2>1, SyncLegacySays, SyncSectionsSay, RefreshFacts DEF Plaintext
<1>4. CASE a # "gemini"
  <2>1. a \in DOMAIN s.ai.services => s.ai.services[a].key = Absent
    BY <1>4 DEF Plaintext
  <2>. QED
    BY <1>2, <1>4, <2>1, SyncLegacySays, SyncSectionsSay, RefreshFacts DEF Plaintext
<1>. QED
  BY <1>3, <1>4

\* Nothing comes from the storage for an account without a key.
LEMMA MergedEmpty ==
  ASSUME KeysOK, NEW s \in SettingsRecord, NEW a \in Accounts, Plaintext(s, a) = Absent, keys[a] = Absent
  PROVE  Plaintext(Merged(s), a) = Absent
<1>. DEFINE Back(e, b) == IF e.key = Absent /\ e.has THEN [e EXCEPT !.key = keys[b]] ELSE e
            gem == Back(s.ai.gem, "gemini")
            key == IF s.flat.key = Absent /\ s.flat.present
                   THEN IF gem.key # Absent THEN gem.key ELSE keys["gemini"]
                   ELSE s.flat.key
            sv == [i \in DOMAIN s.ai.services |-> Back(s.ai.services[i], i)]
            t == Merged(s)
<1>1. /\ s.ai \in AiRecord /\ s.flat \in FlatRecord /\ s.ai.gem \in Entries
      /\ \A i \in DOMAIN s.ai.services : s.ai.services[i] \in Entries
  BY SettingsParts, ServiceListFits
<1>2. t = [s EXCEPT !.ai.gem = gem, !.flat.key = key, !.ai.services = sv]
  BY DEF Merged
<1>3. ASSUME NEW e \in Entries, NEW b, e.key = Absent, keys[b] = Absent PROVE Back(e, b).key = Absent
  BY <1>3 DEF Entries
<1>4. a = "gemini" => gem.key = Absent /\ key = Absent
  <2>. SUFFICES ASSUME a = "gemini" PROVE gem.key = Absent /\ key = Absent
    OBVIOUS
  <2>1. s.ai.gem.key = Absent /\ s.flat.key = Absent
    BY DEF Plaintext
  <2>2. gem.key = Absent
    BY <1>1, <1>3, <2>1
  <2>. HIDE DEF gem
  <2>. QED
    BY <2>1, <2>2
<1>5. a # "gemini" /\ a \in DOMAIN s.ai.services => sv[a].key = Absent
  <2>. SUFFICES ASSUME a # "gemini", a \in DOMAIN s.ai.services PROVE sv[a].key = Absent
    OBVIOUS
  <2>1. s.ai.services[a].key = Absent /\ s.ai.services[a] \in Entries
    BY <1>1 DEF Plaintext
  <2>2. Back(s.ai.services[a], a).key = Absent
    BY <1>3, <2>1
  <2>3. sv[a] = Back(s.ai.services[a], a)
    OBVIOUS
  <2>. HIDE DEF sv, Back
  <2>. QED
    BY <2>2, <2>3
<1>6. DOMAIN sv = DOMAIN s.ai.services
  OBVIOUS
<1>. HIDE DEF gem, key, sv, t
<1>7. t.ai.gem = gem /\ t.flat.key = key /\ t.ai.services = sv
  BY <1>1, <1>2 DEF SettingsRecord, AiRecord, FlatRecord
<1>. QED
  BY <1>4, <1>5, <1>6, <1>7 DEF Plaintext, t

LEMMA NormalizedEmpty ==
  ASSUME KeysOK, NEW s \in SettingsRecord, NEW a \in Accounts, Plaintext(s, a) = Absent, keys[a] = Absent
  PROVE  Plaintext(Normalized(s), a) = Absent
<1>. DEFINE u == [s EXCEPT !.model = "v3"]
            m == Merged(u)
            l == IF LegacyIsSource(m) THEN SyncSectionsFromLegacy(m) ELSE m
            t == SyncLegacyFromSections(l)
<1>1. u \in SettingsRecord /\ u.ai = s.ai /\ u.flat = s.flat
  BY TextsAssumption DEF SettingsRecord
<1>2. Plaintext(u, a) = Absent
  BY <1>1 DEF Plaintext
<1>. HIDE DEF u
<1>3. m \in SettingsRecord /\ Plaintext(m, a) = Absent
  BY <1>1, <1>2, MergedEmpty, MergedKeeps
<1>. HIDE DEF m
<1>4. l \in SettingsRecord /\ Plaintext(l, a) = Absent
  BY <1>3, SyncingEmpty, SyncSectionsKeeps
<1>. HIDE DEF l
<1>5. t \in SettingsRecord /\ Plaintext(t, a) = Absent
  BY <1>4, SyncingEmpty, SyncLegacyKeeps
<1>6. Normalized(s) = Refresh(t)
  BY DEF Normalized, t, l, m, u
<1>. HIDE DEF t
<1>. QED
  BY <1>5, <1>6, SyncingEmpty

\* What a window sends back has no key but the one it sets, and the flat field says of
\* Gemini's what the section says.
LEMMA WindowChanges ==
  ASSUME NEW c \in Windows, NEW s \in SettingsRecord, NEW copy \in SettingsRecord,
         \A a \in Accounts : Plaintext(copy, a) = Absent,
         NEW m \in Changes(c, s, copy), m.s \in SettingsRecord
  PROVE  LET t == Synced(c, m.s) IN
         /\ t.flat.present <=> t.ai.gem.has
         /\ \A a \in Accounts \ DOMAIN m.meant : Plaintext(t, a) = Absent
<1>. DEFINE x == m.s
            t == Synced(c, x)
            l == SyncLegacyFromSections(x)
            u == SyncSectionsFromLegacy(x)
<1>1. l \in SettingsRecord /\ u \in SettingsRecord
  BY SyncLegacyKeeps, SyncSectionsKeeps
<1>2. "gemini" \in Accounts /\ copy.ai.gem.key = Absent /\ copy.flat.key = Absent
      /\ copy.ai \in AiRecord /\ Accounts = {"gemini"} \cup Services
  BY SettingsParts DEF Accounts, Plaintext
<1>3. \A i \in Services \cap DOMAIN copy.ai.services : copy.ai.services[i].key = Absent
  BY KindsOfServices DEF Accounts, Plaintext
<1>. HIDE DEF x, l, u, t
<1>4. CASE c = "ai"
  <2>1. t = SyncSectionsFromLegacy(l)
    BY <1>4 DEF t, l, Synced
  <2>2. PICK n \in AiChanges(copy.ai) : x = [s EXCEPT !.ai = n.ai] /\ m.meant = n.meant
    BY <1>4 DEF Changes, Change, x
  <2>3. x.ai = n.ai
    BY <2>2 DEF SettingsRecord
  <2>4. t.flat.present <=> t.ai.gem.has
    BY <1>1, <2>1, SyncSectionsSay
  <2>5. ASSUME NEW a \in Accounts \ DOMAIN m.meant PROVE Plaintext(t, a) = Absent
    <3>1. CASE a = "gemini"
      <4>1. x.ai.gem.key = Absent
        BY <1>2, <2>2, <2>3, <2>5, <3>1, AiChangesKeep
      <4>2. l.flat.key = Absent
        BY <4>1, SyncLegacySays DEF l, x
      <4>3. t.ai.gem.key = Absent /\ t.flat.key = Absent
        BY <1>1, <2>1, <4>2, SyncSectionsSay
      <4>. QED
        BY <3>1, <4>3 DEF Plaintext
    <3>2. CASE a # "gemini"
      <4>1. a \in Services /\ a \notin DOMAIN n.meant
        BY <1>2, <2>2, <2>5, <3>2
      <4>2. a \in DOMAIN x.ai.services => x.ai.services[a].key = Absent
        BY <1>2, <1>3, <2>3, <4>1, AiChangesKeep
      <4>3. Plaintext(x, a) = Absent
        BY <3>2, <4>2 DEF Plaintext
      <4>4. Plaintext(l, a) = Absent
        BY <2>5, <4>3, SyncingEmpty DEF l, x
      <4>. QED
        BY <1>1, <2>1, <2>5, <4>4, SyncingEmpty
    <3>. QED
      BY <3>1, <3>2
  <2>. QED
    BY <2>4, <2>5 DEF t, x
<1>5. CASE c = "whole"
  <2>1. t = SyncLegacyFromSections(u)
    BY <1>5 DEF t, u, Synced
  <2>2. x = [copy EXCEPT !.transcription = "whole", !.flat.transcription = "whole"]
    BY <1>5 DEF Changes, Change, x
  <2>3. x.ai = copy.ai /\ x.flat.key = copy.flat.key
    BY <2>2, SettingsParts DEF SettingsRecord, FlatRecord
  <2>4. u.ai.gem \in Entries
    BY <1>1, SettingsParts
  <2>5. t.flat.present <=> t.ai.gem.has
    BY <1>1, <2>1, <2>4, EntryRefreshed, SyncLegacySays
  <2>6. \A a \in Accounts : Plaintext(x, a) = Absent
    BY <2>3 DEF Plaintext
  <2>7. \A a \in Accounts : Plaintext(u, a) = Absent
    BY <2>6, SyncingEmpty DEF u, x
  <2>8. \A a \in Accounts : Plaintext(t, a) = Absent
    BY <1>1, <2>1, <2>7, SyncingEmpty
  <2>. QED
    BY <2>5, <2>8 DEF t, x
<1>. QED
  BY <1>4, <1>5 DEF Windows

LEMMA DefaultsEmpty == \A a \in Accounts : Plaintext(Defaults, a) = Absent
<1>. SUFFICES ASSUME NEW a \in Accounts PROVE Plaintext(Defaults, a) = Absent
  OBVIOUS
<1>1. Carries(Defaults, a, Absent)
  BY DefaultsFit
<1>. QED
  BY <1>1 DEF Carries, Of, Plaintext

\* What caller c has in hand, v, when the services in k have been in the file.
FromFile(c, v, k) ==
  /\ \A a \in Accounts : Plaintext(v.copy, a) = Absent
  /\ DOMAIN v.copy.ai.services \subseteq k
  /\ v.pc = "keys" => DOMAIN v.s.ai.services \subseteq k
  /\ v.pc \in SavingAt => DOMAIN v.s.ai.services \subseteq k \cup DOMAIN v.meant
  /\ v.pc = "ids" /\ c \in Windows =>
       /\ v.s.flat.present <=> v.s.ai.gem.has
       /\ \A a \in Accounts \ DOMAIN v.meant : Plaintext(v.s, a) = Absent

CopiesInv ==
  /\ ServicesIn(file) \subseteq known
  /\ \A c \in Callers : FromFile(c, call[c], known)

\* A step of c keeps this when it keeps what is said of c and of the file.
LEMMA CopiesKeep ==
  ASSUME SecretInv, CopiesInv, NEW c \in Callers, NEW w, call' = [call EXCEPT ![c] = w],
         known \subseteq known', ServicesIn(file') \subseteq known', FromFile(c, w, known')
  PROVE  CopiesInv'
<1>1. DOMAIN call = Callers
  BY CallerFacts
<1>2. call'[c] = w /\ \A d \in Callers \ {c} : call'[d] = call[d]
  BY <1>1
<1>3. ASSUME NEW d \in Callers \ {c} PROVE FromFile(d, call'[d], known')
  <2>1. FromFile(d, call[d], known) /\ call'[d] = call[d]
    BY <1>2, <1>3 DEF CopiesInv
  <2>. QED
    BY <2>1 DEF FromFile
<1>. QED
  BY <1>2, <1>3 DEF CopiesInv

\* A command saves services it has from the file or means to add.
LEMMA SavedCopies ==
  ASSUME SecretInv, CopiesInv, NEW c \in Callers, c # "snapshot", NEW s \in SettingsRecord,
         c = "whole" => s = call[c].copy, Save(c, s, call[c].copy), DOMAIN s.ai.services \subseteq known',
         known \subseteq known', ServicesIn(file') \subseteq known'
  PROVE  CopiesInv'
<1>. DEFINE v == call[c]
<1>1. CallOK(c) /\ DOMAIN call = Callers /\ v.copy \in SettingsRecord
  BY CallerFacts DEF CallOK
<1>2. /\ \A a \in Accounts : Plaintext(v.copy, a) = Absent
      /\ DOMAIN v.copy.ai.services \subseteq known
  BY DEF CopiesInv, FromFile
<1>3. PICK m \in Changes(c, s, v.copy) :
        call' = [call EXCEPT ![c] = [call[c] EXCEPT !.pc = "ids", !.s = Synced(c, m.s), !.meant = m.meant]]
  BY DEF Save
<1>. DEFINE t == Synced(c, m.s)
            w == [v EXCEPT !.pc = "ids", !.s = t, !.meant = m.meant]
<1>4. call' = [call EXCEPT ![c] = w]
  BY <1>3
<1>5. /\ m.s \in SettingsRecord
      /\ \A a \in Services \ DOMAIN m.meant :
           a \in DOMAIN m.s.ai.services => a \in DOMAIN Base(c, s, v.copy).ai.services
  BY <1>1, ChangesKeep DEF Accounts
<1>6. t \in SettingsRecord /\ DOMAIN t.ai.services = DOMAIN m.s.ai.services
      /\ DOMAIN m.s.ai.services \subseteq Services
  BY <1>5, SyncedKeeps, AccountsFit DEF KeepsKeys, SameServices
<1>7. DOMAIN Base(c, s, v.copy).ai.services \subseteq known'
  BY <1>2 DEF Base
<1>8. c \in Windows =>
        /\ t.flat.present <=> t.ai.gem.has
        /\ \A a \in Accounts \ DOMAIN m.meant : Plaintext(t, a) = Absent
  BY <1>1, <1>2, <1>5, WindowChanges
<1>. HIDE DEF t
<1>9. w.pc = "ids" /\ w.s = t /\ w.meant = m.meant /\ w.copy = v.copy
  BY <1>1 DEF CallOK, CallFields
<1>. HIDE DEF w
<1>10. FromFile(c, w, known')
  BY <1>2, <1>5, <1>6, <1>7, <1>8, <1>9 DEF FromFile
<1>. QED
  BY <1>4, <1>10, CopiesKeep

\* A load ends with settings of services that have been in the file.
LEMMA LoadedCopies ==
  ASSUME SecretInv, CopiesInv, NEW c \in Callers, NEW s \in SettingsRecord, Loaded(c, s),
         call[c].pc \in {"read", "keys"}, DOMAIN s.ai.services \subseteq known',
         known \subseteq known', ServicesIn(file') \subseteq known'
  PROVE  CopiesInv'
<1>. DEFINE v == call[c]
<1>1. CallOK(c) /\ DOMAIN call = Callers
  BY CallerFacts
<1>2. /\ \A a \in Accounts : Plaintext(v.copy, a) = Absent
      /\ DOMAIN v.copy.ai.services \subseteq known
  BY DEF CopiesInv, FromFile
<1>3. CASE v.use = "copy"
  <2>. DEFINE w == [v EXCEPT !.pc = "waiting", !.copy = Redacted(s)]
  <2>1. call' = [call EXCEPT ![c] = w]
    BY <1>3 DEF Loaded
  <2>2. w.pc = "waiting" /\ w.copy = Redacted(s)
    BY <1>1 DEF CallOK, CallFields
  <2>3. /\ \A a \in Accounts : Plaintext(Redacted(s), a) = Absent
        /\ DOMAIN Redacted(s).ai.services = DOMAIN s.ai.services
    BY RedactedKeeps DEF KeepsKeys, SameServices
  <2>. HIDE DEF w
  <2>4. FromFile(c, w, known')
    BY <2>2, <2>3 DEF FromFile, SavingAt
  <2>. QED
    BY <2>1, <2>4, CopiesKeep
<1>4. ASSUME call' = [call EXCEPT ![c].pc = "done"] PROVE CopiesInv'
  <2>. DEFINE w == [v EXCEPT !.pc = "done"]
  <2>1. call' = [call EXCEPT ![c] = w]
    BY <1>1, <1>4
  <2>2. w.pc = "done" /\ w.copy = v.copy
    BY <1>1 DEF CallOK, CallFields
  <2>. HIDE DEF w
  <2>3. FromFile(c, w, known')
    BY <1>2, <2>2 DEF FromFile, SavingAt
  <2>. QED
    BY <2>1, <2>3, CopiesKeep
<1>5. CASE v.use = "result"
  BY <1>4, <1>5 DEF Loaded
<1>6. CASE v.use = "base" /\ (c # "factory" \/ s.transcription = "outdated")
  <2>1. Save(c, s, v.copy) /\ c # "snapshot" /\ c # "whole"
    BY <1>1, <1>6 DEF Loaded, CallOK
  <2>. QED
    BY <2>1, SavedCopies
<1>7. CASE v.use = "base" /\ ~(c # "factory" \/ s.transcription = "outdated")
  BY <1>4, <1>7 DEF Loaded
<1>. QED
  BY <1>1, <1>3, <1>5, <1>6, <1>7 DEF CallOK

LEMMA CopiesStep == ASSUME SecretInv, CopiesInv, [SettingsNext]_settings PROVE CopiesInv'
<1>1. ASSUME NEW c \in Callers, CallStep(c) PROVE CopiesInv'
  <2>. DEFINE v == call[c]
  <2>1. CallOK(c) /\ DOMAIN call = Callers /\ FileOK /\ KeysOK /\ ReadTruly(c)
    BY CallerFacts
  <2>2. ServicesIn(file) \subseteq known /\ FromFile(c, v, known)
    BY DEF CopiesInv
  <2>3. CASE Begin(c)
    <3>. DEFINE p == IF c \in Windows \cup Unlocked THEN "read" ELSE "waiting"
                u == CASE c \in Windows -> "copy" [] c = "factory" -> "base" [] OTHER -> "result"
                w == [v EXCEPT !.pc = p, !.use = u]
    <3>1. call' = [call EXCEPT ![c] = w] /\ UNCHANGED <<file, known>>
      BY <2>1, <2>3 DEF Begin, Unaccepted
    <3>2. p \notin SavingAt /\ p # "keys"
      BY DEF SavingAt
    <3>. HIDE DEF p, u
    <3>3. w.pc = p /\ w.copy = v.copy
      BY <2>1 DEF CallOK, CallFields
    <3>. HIDE DEF w
    <3>4. FromFile(c, w, known') /\ ServicesIn(file') \subseteq known' /\ known' = known
      BY <2>2, <3>1, <3>2, <3>3 DEF FromFile, SavingAt, ServicesIn
    <3>. QED
      BY <3>1, <3>4, CopiesKeep
  <2>4. CASE TakeLock(c)
    <3>1. UNCHANGED <<file, known>> /\ known' = known
      BY <2>4 DEF TakeLock
    <3>2. ServicesIn(file') = ServicesIn(file)
      BY <3>1
    <3>3. CASE c = "whole"
      <4>1. Save(c, v.copy, v.copy) /\ c # "snapshot" /\ v.copy \in SettingsRecord
            /\ DOMAIN v.copy.ai.services \subseteq known
        BY <2>1, <2>2, <2>4, <3>3 DEF TakeLock, FromFile, CallOK
      <4>. QED
        BY <2>2, <3>1, <3>2, <4>1, SavedCopies
    <3>4. CASE c # "whole"
      <4>. DEFINE w == [v EXCEPT !.pc = "read", !.use = "base"]
      <4>1. call' = [call EXCEPT ![c] = w]
        BY <2>4, <3>4 DEF TakeLock
      <4>2. w.pc = "read" /\ w.copy = v.copy
        BY <2>1 DEF CallOK, CallFields
      <4>. HIDE DEF w
      <4>3. FromFile(c, w, known')
        BY <2>2, <3>1, <4>2 DEF FromFile, SavingAt
      <4>. QED
        BY <2>2, <3>1, <3>2, <4>1, <4>3, CopiesKeep
    <3>. QED
      BY <3>3, <3>4
  <2>5. CASE LoadWritesDefaults(c)
    <3>1. v.pc = "read" /\ file' = Redacted(Defaults) /\ Loaded(c, Defaults) /\ known' = known
      BY <2>5 DEF LoadWritesDefaults
    <3>2. ServicesIn(file') = {}
      BY <3>1, DefaultsFit, WrittenIsRedacted
    <3>. QED
      BY <3>1, <3>2, DefaultsFit, LoadedCopies
  <2>6. CASE ReadFile(c)
    <3>. DEFINE s == [Parsed(file) EXCEPT !.model = "v3"]
                w == [v EXCEPT !.pc = "keys", !.s = s, !.plain = file.model # "v3",
                               !.todo = AccountsOf(Parsed(file))]
    <3>1. call' = [call EXCEPT ![c] = w] /\ UNCHANGED <<file, known>> /\ file # Absent
      BY <2>1, <2>6 DEF ReadFile, Unaccepted
    <3>2. DOMAIN s.ai.services = ServicesIn(file)
      BY <2>1, <3>1, ParsedFits DEF FileOK, SameServices, ServicesIn
    <3>. HIDE DEF s
    <3>3. w.pc = "keys" /\ w.s = s /\ w.copy = v.copy
      BY <2>1 DEF CallOK, CallFields
    <3>. HIDE DEF w
    <3>4. FromFile(c, w, known') /\ ServicesIn(file') \subseteq known' /\ known' = known
      BY <2>2, <3>1, <3>2, <3>3 DEF FromFile, SavingAt, ServicesIn
    <3>. QED
      BY <3>1, <3>4, CopiesKeep
  <2>7. CASE LoadKey(c)
    <3>1. v.pc = "keys" /\ UNCHANGED <<file, known>> /\ v.todo \subseteq AccountsOf(v.s)
          /\ v.todo \subseteq Accounts /\ v.s \in SettingsRecord
      BY <2>1, <2>7 DEF LoadKey, Unaccepted, CallOK
    <3>2. PICK a \in v.todo :
            LET legacy == Plaintext(v.s, a)
                key == IF keys[a] # Absent THEN keys[a] ELSE legacy
            IN  call' = [call EXCEPT ![c] = [call[c] EXCEPT !.s = SetKey(@, a, key),
                                                            !.plain = @ \/ legacy # Absent,
                                                            !.todo = @ \ {a}]]
      BY <2>7 DEF LoadKey
    <3>. DEFINE legacy == Plaintext(v.s, a)
                key == IF keys[a] # Absent THEN keys[a] ELSE legacy
                s == SetKey(v.s, a, key)
                w == [v EXCEPT !.s = s, !.plain = v.plain \/ legacy # Absent, !.todo = v.todo \ {a}]
    <3>3. call' = [call EXCEPT ![c] = w]
      BY <3>2, Zenon
    <3>4. a \in Accounts /\ a \in AccountsOf(v.s)
      BY <3>1
    <3>5. key \in Texts \cup {Absent}
      BY <2>1, <3>1, <3>4, PlaintextFits DEF KeysOK
    <3>6. DOMAIN s.ai.services = DOMAIN v.s.ai.services
      BY <3>1, <3>4, <3>5, SetKeyFits DEF SameServices
    <3>. HIDE DEF s, key, legacy
    <3>7. w.pc = "keys" /\ w.s = s /\ w.copy = v.copy
      BY <2>1, <3>1 DEF CallOK, CallFields
    <3>. HIDE DEF w
    <3>8. FromFile(c, w, known') /\ ServicesIn(file') \subseteq known' /\ known' = known
      BY <2>2, <3>1, <3>6, <3>7 DEF FromFile, SavingAt, ServicesIn
    <3>. QED
      BY <3>3, <3>8, CopiesKeep
  <2>8. CASE EndLoad(c)
    <3>1. /\ v.pc = "keys" /\ Loaded(c, v.s) /\ v.s \in SettingsRecord
          /\ known' = known \cup ServicesIn(file')
      BY <2>1, <2>8 DEF EndLoad, CallOK
    <3>2. DOMAIN v.s.ai.services \subseteq known'
      BY <2>2, <3>1 DEF FromFile
    <3>. QED
      BY <3>1, <3>2, LoadedCopies
  <2>9. CASE ReadIds(c)
    <3>. DEFINE s == Normalized(v.s)
                w == [v EXCEPT !.pc = "secrets", !.s = s, !.todo = AccountsOf(s), !.ids = ServicesIn(file)]
    <3>1. /\ v.pc = "ids" /\ call' = [call EXCEPT ![c] = w] /\ UNCHANGED <<file, known>>
          /\ v.s \in SettingsRecord
      BY <2>1, <2>9 DEF ReadIds, CallOK
    <3>2. DOMAIN s.ai.services = DOMAIN v.s.ai.services
      BY <2>1, <3>1, NormalizedKeeps DEF SameServices
    <3>. HIDE DEF s
    <3>3. w.pc = "secrets" /\ w.s = s /\ w.meant = v.meant /\ w.copy = v.copy
      BY <2>1 DEF CallOK, CallFields
    <3>. HIDE DEF w
    <3>4. FromFile(c, w, known') /\ ServicesIn(file') \subseteq known' /\ known' = known
      BY <2>2, <3>1, <3>2, <3>3 DEF FromFile, SavingAt, ServicesIn
    <3>. QED
      BY <3>1, <3>4, CopiesKeep
  <2>10. CASE PutKey(c)
    <3>1. v.pc = "secrets" /\ UNCHANGED <<file, known>>
      BY <2>10 DEF PutKey, Unaccepted
    <3>2. PICK a \in v.todo :
            call' = [call EXCEPT ![c] = [v EXCEPT !.todo = @ \ {a},
                                                  !.pc = IF v.todo = {a} THEN "removed" ELSE @]]
      BY <2>10 DEF PutKey
    <3>. DEFINE p == IF v.todo = {a} THEN "removed" ELSE v.pc
                w == [v EXCEPT !.todo = v.todo \ {a}, !.pc = p]
    <3>3. call' = [call EXCEPT ![c] = w]
      BY <3>2, Zenon
    <3>4. p \in {"secrets", "removed"}
      BY <3>1
    <3>. HIDE DEF p
    <3>5. w.pc = p /\ w.s = v.s /\ w.meant = v.meant /\ w.copy = v.copy
      BY <2>1 DEF CallOK, CallFields
    <3>. HIDE DEF w
    <3>6. FromFile(c, w, known') /\ ServicesIn(file') \subseteq known' /\ known' = known
      BY <2>2, <3>1, <3>4, <3>5 DEF FromFile, SavingAt, ServicesIn
    <3>. QED
      BY <3>3, <3>6, CopiesKeep
  <2>11. CASE DropRemoved(c)
    <3>. DEFINE w == [v EXCEPT !.pc = "write"]
    <3>1. v.pc = "removed" /\ call' = [call EXCEPT ![c] = w] /\ UNCHANGED <<file, known>>
      BY <2>1, <2>11 DEF DropRemoved, Unaccepted
    <3>2. w.pc = "write" /\ w.s = v.s /\ w.meant = v.meant /\ w.copy = v.copy
      BY <2>1 DEF CallOK, CallFields
    <3>. HIDE DEF w
    <3>3. FromFile(c, w, known') /\ ServicesIn(file') \subseteq known' /\ known' = known
      BY <2>2, <3>1, <3>2 DEF FromFile, SavingAt, ServicesIn
    <3>. QED
      BY <3>1, <3>3, CopiesKeep
  <2>12. CASE WriteFile(c)
    <3>. DEFINE p == IF c = "factory" THEN "done" ELSE "read"
                w == [v EXCEPT !.pc = p, !.use = "result"]
    <3>1. call' = [call EXCEPT ![c] = w] /\ known' = known \cup ServicesIn(file')
      BY <2>1, <2>12 DEF WriteFile
    <3>2. p \notin SavingAt /\ p # "keys"
      BY DEF SavingAt
    <3>. HIDE DEF p
    <3>3. w.pc = p /\ w.copy = v.copy
      BY <2>1 DEF CallOK, CallFields
    <3>. HIDE DEF w
    <3>4. FromFile(c, w, known') /\ ServicesIn(file') \subseteq known' /\ known \subseteq known'
      BY <2>2, <3>1, <3>2, <3>3 DEF FromFile, SavingAt
    <3>. QED
      BY <3>1, <3>4, CopiesKeep
  <2>. QED
    BY <1>1, <2>3, <2>4, <2>5, <2>6, <2>7, <2>8, <2>9, <2>10, <2>11, <2>12 DEF CallStep
<1>2. ASSUME NEW c \in Callers, CallFails(c) PROVE CopiesInv'
  <2>. DEFINE v == call[c]
              w == [v EXCEPT !.pc = "failed"]
  <2>1. CallOK(c) /\ DOMAIN call = Callers /\ FromFile(c, v, known) /\ ServicesIn(file) \subseteq known
    BY CallerFacts DEF CopiesInv
  <2>2. call' = [call EXCEPT ![c] = w] /\ UNCHANGED <<file, known>>
    BY <1>2, <2>1 DEF CallFails
  <2>3. w.pc = "failed" /\ w.copy = v.copy
    BY <2>1 DEF CallOK, CallFields
  <2>. HIDE DEF w
  <2>4. FromFile(c, w, known') /\ ServicesIn(file') \subseteq known' /\ known' = known
    BY <2>1, <2>2, <2>3 DEF FromFile, SavingAt, ServicesIn
  <2>. QED
    BY <2>2, <2>4, CopiesKeep
<1>3. CASE SettingsCrash
  <2>. DEFINE w == [IdleCall EXCEPT !.pc = "lost"]
  <2>1. /\ \A c \in Callers : call'[c] = call[c] \/ call'[c] = w
        /\ UNCHANGED <<file, known>>
    BY <1>3 DEF SettingsCrash
  <2>2. w.pc = "lost" /\ w.copy = Defaults
    BY DEF IdleCall
  <2>. HIDE DEF w
  <2>3. \A c \in Callers : FromFile(c, w, known)
    BY <2>2, DefaultsFit, DefaultsEmpty DEF FromFile, SavingAt
  <2>4. ServicesIn(file') = ServicesIn(file) /\ known' = known
    BY <2>1
  <2>. QED
    BY <2>1, <2>3, <2>4 DEF CopiesInv
<1>4. CASE UNCHANGED settings
  BY <1>4 DEF settings, CopiesInv, ServicesIn
<1>. QED
  BY <1>1, <1>2, <1>3, <1>4 DEF SettingsNext

LEMMA StartCopies == ASSUME NEW start \in DOMAIN Stored, SettingsInit(start) PROVE CopiesInv
<1>1. known = ServicesIn(file) /\ \A c \in Callers : call[c] = IdleCall
  BY DEF SettingsInit
<1>2. IdleCall.pc = "idle" /\ IdleCall.copy = Defaults
  BY DEF IdleCall
<1>. QED
  BY <1>1, <1>2, DefaultsFit, DefaultsEmpty DEF CopiesInv, FromFile, SavingAt

\* The invariants of the settings together.
SettingsInv == SecretInv /\ RemovalInv /\ Begun /\ CopiesInv /\ PartsInv /\ KeysInv

\* Nothing slipped, and nobody is about to write without the lock, after the step.
InOrder == slips' = {} /\ ~Stray'

\* A holder whose caller and storage a step leaves alone has what it had.
LEMMA HolderKeeps ==
  ASSUME NEW d \in Callers, HolderHasKeys(d), call'[d] = call[d], lock' = d => lock = d,
         AcceptedKeys' = AcceptedKeys, lock = d => keys' = keys,
         lock = d => ServicesIn(file') = ServicesIn(file)
  PROVE  HolderHasKeys(d)'
<1>. DEFINE v == call[d]
<1>. SUFFICES ASSUME lock' = d PROVE HolderHasKeys(d)'
  BY DEF HolderHasKeys
<1>1. lock = d /\ keys' = keys /\ ServicesIn(file') = ServicesIn(file)
  OBVIOUS
<1>. HIDE DEF AcceptedKeys, v
<1>2. call[d] = v /\ call'[d] = v
  BY DEF v
<1>3. v.pc = "keys" =>
        \A a \in AcceptedKeys' :
          IF a \in v.todo THEN Plaintext(v.s, a) = Absent ELSE Carries(v.s, a, keys'[a])
  BY <1>1, <1>2 DEF HolderHasKeys
<1>4. v.pc \in SavingAt =>
        \A a \in Accounts \cap DOMAIN v.meant :
          IF a \notin AccountsOf(v.s) THEN v.meant[a] = Absent
          ELSE IF v.pc = "ids" \/ (v.pc = "secrets" /\ a \in v.todo)
          THEN Exact(v.s, a, v.meant[a])
          ELSE keys'[a] = v.meant[a]
  BY <1>1, <1>2 DEF HolderHasKeys
<1>5. v.pc = "ids" /\ d \notin Windows =>
        /\ \A a \in AcceptedKeys' \ DOMAIN v.meant : Carries(v.s, a, keys'[a])
        /\ DOMAIN v.s.ai.services = ServicesIn(file')
  BY <1>1, <1>2 DEF HolderHasKeys
<1>6. v.pc \in {"secrets", "removed", "write"} =>
        \A a \in AcceptedKeys' \ DOMAIN v.meant :
          /\ Spares(v.s, a, keys'[a])
          /\ a \in v.ids => a \in AccountsOf(v.s) \/ keys'[a] = Absent
  BY <1>1, <1>2 DEF HolderHasKeys
<1>. QED
  BY <1>2, <1>3, <1>4, <1>5, <1>6 DEF HolderHasKeys

\* A step of c that accepts no keys keeps the invariant when it keeps what is said of c
\* and, without the lock, changes no key.
LEMMA KeysKept ==
  ASSUME KeysInv, NEW c \in Callers,
         \A d \in Callers \ {c} : call'[d] = call[d] /\ (lock' = d <=> lock = d),
         AcceptedKeys' = AcceptedKeys, \A a \in AcceptedKeys : accepted'[a] = accepted[a],
         slips \subseteq slips', \A a : Owes(c, a) => Owes(c, a)',
         InOrder =>
           /\ ~WillSlip(c) /\ known' = known
           /\ \A a \in AcceptedKeys : keys'[a] = keys[a] \/ Owes(c, a)'
           /\ lock # c => keys' = keys /\ ServicesIn(file') = ServicesIn(file)
           /\ HolderHasKeys(c)'
  PROVE  KeysInv'
<1>1. ASSUME InOrder
      PROVE  /\ \A a \in AcceptedKeys' \cap ({"gemini"} \cup known') :
                  keys'[a] = accepted'[a] \/ \E d \in Callers : Owes(d, a)'
             /\ \A d \in Callers : HolderHasKeys(d)'
  <2>1. \A d \in Callers : ~WillSlip(d)
    BY <1>1 DEF InOrder, Stray, WillSlip
  <2>2. slips = {} /\ ~Stray
    BY <1>1, <2>1 DEF InOrder, Stray
  <2>3. /\ \A a \in AcceptedKeys \cap ({"gemini"} \cup known) :
             keys[a] = accepted[a] \/ \E d \in Callers : Owes(d, a)
        /\ \A d \in Callers : HolderHasKeys(d)
    BY <2>2 DEF KeysInv
  <2>4. ASSUME NEW d \in Callers, d # c PROVE HolderHasKeys(d)'
    <3>1. lock = d => keys' = keys /\ ServicesIn(file') = ServicesIn(file)
      BY <1>1, <2>4
    <3>2. HolderHasKeys(d) /\ call'[d] = call[d] /\ (lock' = d => lock = d)
      BY <2>3, <2>4
    <3>. HIDE DEF AcceptedKeys
    <3>. QED
      BY <3>1, <3>2, HolderKeeps
  <2>. HIDE DEF AcceptedKeys
  <2>5. ASSUME NEW a \in AcceptedKeys \cap ({"gemini"} \cup known)
        PROVE  keys'[a] = accepted'[a] \/ \E d \in Callers : Owes(d, a)'
    <3>1. CASE \E d \in Callers : Owes(d, a)
      <4>1. PICK d \in Callers : Owes(d, a)
        BY <3>1
      <4>2. d # c => Owes(d, a)'
        BY <4>1 DEF Owes
      <4>. QED
        BY <4>1, <4>2
    <3>2. CASE keys[a] = accepted[a]
      BY <1>1, <2>5, <3>2
    <3>. QED
      BY <2>3, <2>5, <3>1, <3>2
  <2>. QED
    BY <1>1, <2>4, <2>5
<1>. QED
  BY <1>1 DEF KeysInv, InOrder

\* A step that changes only what c has in hand, and whether it has the lock.
LEMMA QuietKeys ==
  ASSUME SettingsInv, NEW c \in Callers, NEW w, call' = [call EXCEPT ![c] = w],
         UNCHANGED <<file, keys, accepted, known>>, slips \subseteq slips',
         lock' = lock \/ (lock' = Absent /\ lock = c) \/ (lock' = c /\ lock = Absent),
         \A a : Owes(c, a) => Owes(c, a)', WillSlip(c) => WillSlip(c)',
         InOrder => HolderHasKeys(c)'
  PROVE  KeysInv'
<1>1. DOMAIN call = Callers /\ KeysInv
  BY DEF SettingsInv, SecretInv, SettingsOK
<1>2. \A d \in Callers \ {c} : call'[d] = call[d] /\ (lock' = d <=> lock = d)
  BY <1>1, KnownCallers
<1>3. AcceptedKeys' = AcceptedKeys /\ \A a \in AcceptedKeys : accepted'[a] = accepted[a]
  BY DEF AcceptedKeys
<1>4. InOrder => ~WillSlip(c)
  BY DEF InOrder, Stray
<1>5. ServicesIn(file') = ServicesIn(file)
  BY DEF ServicesIn
<1>. HIDE DEF AcceptedKeys
<1>. QED
  BY <1>1, <1>2, <1>3, <1>4, <1>5, KeysKept

\* The invariants, as they speak of one caller.
LEMMA CallerKeys ==
  ASSUME SettingsInv, NEW c \in Callers
  PROVE  /\ CallOK(c) /\ CallerIsSettled(c) /\ KeysOK /\ FileOK /\ DOMAIN call = Callers
         /\ FileIsSettled /\ KeysInv /\ SettingsOK /\ PartsInv
         /\ ServicesIn(file) \subseteq known /\ FromFile(c, call[c], known)
         /\ slips = {} => Removals /\ LockHolder(c)
         /\ InOrder /\ slips \subseteq slips' /\ (\A d \in Callers : WillSlip(d) => Stray') =>
              /\ HolderHasKeys(c) /\ slips = {} /\ ~Stray
              /\ \A a \in AcceptedKeys \cap ({"gemini"} \cup known) :
                   keys[a] = accepted[a] \/ \E d \in Callers : Owes(d, a)
<1>1. SettingsOK /\ PartsInv /\ RemovalInv /\ KeysInv /\ CopiesInv
  BY DEF SettingsInv, SecretInv
<1>2. CallOK(c) /\ CallerIsSettled(c) /\ KeysOK /\ FileOK /\ DOMAIN call = Callers /\ FileIsSettled
  BY <1>1, CallerParts
<1>3. slips = {} => Removals /\ LockHolder(c)
  BY <1>1, CallerLock
<1>4. InOrder /\ slips \subseteq slips' /\ (\A d \in Callers : WillSlip(d) => Stray')
        => slips = {} /\ ~Stray
  BY DEF InOrder, Stray
<1>5. ServicesIn(file) \subseteq known /\ FromFile(c, call[c], known)
  BY <1>1 DEF CopiesInv
<1>. QED
  BY <1>1, <1>2, <1>3, <1>4, <1>5 DEF KeysInv

\* What the others are about to do, they still are.
LEMMA OthersStray ==
  ASSUME NEW c \in Callers, WillSlip(c) => WillSlip(c)' \/ Stray',
         \A d \in Callers \ {c} : call'[d] = call[d] /\ (lock' = d <=> lock = d)
  PROVE  \A d \in Callers : WillSlip(d) => Stray'
BY DEF Stray, WillSlip

\* An entry that is of a key spares it.
LEMMA CarriedIsSpared ==
  ASSUME NEW s, NEW a, NEW k, Carries(s, a, k) PROVE Spares(s, a, k)
BY DEF Carries, Spares, Of

LEMMA BeginHolds == ASSUME SettingsInv, NEW c \in Callers, Begin(c) PROVE KeysInv'
<1>. DEFINE v == call[c]
            w == [v EXCEPT !.pc = IF c \in Windows \cup Unlocked THEN "read" ELSE "waiting",
                           !.use = CASE c \in Windows -> "copy"
                                     [] c = "factory" -> "base"
                                     [] OTHER -> "result"]
<1>1. CallerIsSettled(c) /\ v.pc = "idle"
  BY CallerKeys DEF Begin
<1>2. call' = [call EXCEPT ![c] = w] /\ UNCHANGED <<file, keys, accepted, known, slips, lock>>
  BY DEF Begin, Unaccepted
<1>3. lock # c /\ (\A a : ~Owes(c, a)) /\ ~WillSlip(c)
  BY <1>1 DEF CallerIsSettled, SavingAt, Owes, WillSlip
<1>. HIDE DEF w
<1>4. HolderHasKeys(c)'
  BY <1>2, <1>3 DEF HolderHasKeys
<1>. QED
  BY <1>2, <1>3, <1>4, QuietKeys

\* After a failure and after the end of the program nothing is said.
LEMMA FailHolds ==
  ASSUME SettingsInv, (\E c \in Callers : CallFails(c)) \/ SettingsCrash PROVE KeysInv'
<1>1. slips' # {}
  BY DEF CallFails, SettingsCrash
<1>. QED
  BY <1>1 DEF KeysInv

LEMMA ReadFileHolds == ASSUME SettingsInv, NEW c \in Callers, ReadFile(c) PROVE KeysInv'
<1>. DEFINE v == call[c]
            s == [Parsed(file) EXCEPT !.model = "v3"]
            w == [v EXCEPT !.pc = "keys", !.s = s, !.plain = file.model # "v3",
                           !.todo = AccountsOf(Parsed(file))]
<1>1. CallOK(c) /\ DOMAIN call = Callers /\ FileOK /\ FileIsSettled
  BY CallerKeys
<1>2. /\ call' = [call EXCEPT ![c] = w] /\ UNCHANGED <<file, keys, accepted, known, lock, slips>>
      /\ v.pc = "read" /\ file \in SettingsRecord /\ FlatFits(file)
  BY <1>1 DEF ReadFile, Unaccepted, FileOK
<1>3. /\ AccountsOf(Parsed(file)) = AccountsOf(s)
      /\ \A a \in Accounts : Plaintext(s, a) = Plaintext(file, a)
  BY <1>2, ParsedFits
<1>. HIDE DEF s
<1>4. w.pc = "keys" /\ w.s = s /\ w.use = v.use /\ w.todo = AccountsOf(s)
  BY <1>1, <1>3 DEF CallOK, CallFields
<1>. HIDE DEF w
<1>5. call'[c] = w
  BY <1>1, <1>2
<1>6. ~WillSlip(c) /\ \A a : ~Owes(c, a)
  BY <1>2, <1>4, <1>5 DEF WillSlip, SavingAt, Owes
<1>7. ASSUME NEW a \in AcceptedKeys
      PROVE  IF a \in AccountsOf(s) THEN Plaintext(s, a) = Absent ELSE Carries(s, a, keys[a])
  <2>1. Plaintext(s, a) = Absent
    BY <1>1, <1>3, <1>7 DEF AcceptedKeys, FileIsSettled, FileIsRedacted
  <2>2. a \notin AccountsOf(s) => Carries(s, a, keys[a])
    BY DEF AccountsOf, Carries
  <2>. QED
    BY <2>1, <2>2
<1>8. HolderHasKeys(c)'
  <2>1. AcceptedKeys' = AcceptedKeys
    BY <1>2 DEF AcceptedKeys
  <2>. HIDE DEF AcceptedKeys
  <2>2. w.pc \notin SavingAt
    BY <1>4 DEF SavingAt
  <2>3. w.pc \notin {"ids", "secrets", "removed", "write"}
    BY <1>4
  <2>. QED
    BY <1>2, <1>4, <1>5, <1>7, <2>1, <2>2, <2>3 DEF HolderHasKeys, Carries
<1>. QED
  BY <1>2, <1>6, <1>8, QuietKeys

\* A change is handed to the save with every accepted key in it, but for a window's, or
\* with the keys the command means to set.
LEMMA SaveHolds ==
  ASSUME SettingsInv, NEW c \in Callers, c # "snapshot", NEW s \in SettingsRecord,
         c = "whole" => s = call[c].copy, Settled(s), Save(c, s, call[c].copy),
         keys' = keys, accepted' = accepted,
         InOrder /\ lock' = c /\ c \notin Windows =>
           /\ \A a \in AcceptedKeys : Carries(s, a, keys[a])
           /\ DOMAIN s.ai.services = ServicesIn(file')
  PROVE  /\ InOrder => HolderHasKeys(c)'
         /\ call'[c].pc = "ids" /\ \A d \in Callers \ {c} : call'[d] = call[d]
<1>. DEFINE v == call[c]
<1>1. CallOK(c) /\ DOMAIN call = Callers /\ v.copy \in SettingsRecord /\ KeysOK
  BY CallerKeys DEF CallOK
<1>2. PICK m \in Changes(c, s, v.copy) :
        call' = [call EXCEPT ![c] = [call[c] EXCEPT !.pc = "ids", !.s = Synced(c, m.s), !.meant = m.meant]]
  BY DEF Save
<1>. DEFINE t == Synced(c, m.s)
            w == [v EXCEPT !.pc = "ids", !.s = t, !.meant = m.meant]
<1>3. call' = [call EXCEPT ![c] = w]
  BY <1>1, <1>2
<1>4. /\ m.s \in SettingsRecord
      /\ \A a \in Accounts \ DOMAIN m.meant :
           /\ a \in Services =>
                (a \in DOMAIN m.s.ai.services <=> a \in DOMAIN Base(c, s, v.copy).ai.services)
           /\ \A r \in Texts \cup {Absent} :
                Carries(s, a, r) /\ (c \in Windows => Carries(v.copy, a, r)) => Carries(m.s, a, r)
  BY <1>1, ChangesKeep
<1>5. t \in SettingsRecord /\ KeepsKeys(m.s, t)
  BY <1>4, SyncedKeeps
<1>6. DOMAIN m.meant \subseteq IF c \in KeyWriters THEN Parts \cup Accounts ELSE Parts
  BY <1>1, ChangesParts
<1>7. c \in KeyWriters =>
        \A a \in Accounts \cap DOMAIN m.meant :
          IF a \notin AccountsOf(t) THEN m.meant[a] = Absent ELSE Exact(t, a, m.meant[a])
  BY <1>1, <1>4, ChangesExact
<1>. HIDE DEF t
<1>8. w.pc = "ids" /\ w.s = t /\ w.meant = m.meant
  BY <1>1 DEF CallOK, CallFields
<1>. HIDE DEF w
<1>9. call'[c] = w /\ \A d \in Callers \ {c} : call'[d] = call[d]
  BY <1>1, <1>3
<1>10. Parts \cap Accounts = {} /\ Services \subseteq Accounts /\ "gemini" \notin Services
  BY KindsOfServices DEF Parts, Accounts
<1>11. c \notin KeyWriters => Accounts \cap DOMAIN m.meant = {}
  BY <1>6, <1>10
<1>12. ASSUME c \notin Windows PROVE Services \cap DOMAIN m.meant = {}
  <2>1. CASE c \notin KeyWriters
    BY <1>10, <1>11, <2>1
  <2>2. CASE c = "provider"
    <3>1. m.meant = [gemini |-> "new"] \/ m.meant = <<>>
      BY <2>2 DEF Changes, Change
    <3>. QED
      BY <1>10, <3>1
  <2>. QED
    BY <1>12, <2>1, <2>2 DEF Windows, KeyWriters
<1>13. ASSUME InOrder, lock' = c, c \notin Windows
       PROVE  /\ \A a \in AcceptedKeys \ DOMAIN m.meant : Carries(t, a, keys[a])
              /\ DOMAIN t.ai.services = ServicesIn(file')
  <2>1. Base(c, s, v.copy) = s
    BY <1>13 DEF Base
  <2>2. ASSUME NEW a \in AcceptedKeys \ DOMAIN m.meant PROVE Carries(t, a, keys[a])
    <3>1. a \in Accounts /\ a \notin DOMAIN m.meant
      BY DEF AcceptedKeys
    <3>2. keys[a] \in Texts \cup {Absent}
      BY <1>1, <3>1 DEF KeysOK
    <3>3. Carries(m.s, a, keys[a])
      BY <1>4, <1>13, <3>1, <3>2
    <3>. QED
      BY <1>5, <3>1, <3>2, <3>3 DEF KeepsKeys
  <2>3. \A i \in Services : i \in DOMAIN m.s.ai.services <=> i \in DOMAIN s.ai.services
    BY <1>4, <1>10, <1>12, <1>13, <2>1
  <2>4. DOMAIN m.s.ai.services \subseteq Services /\ DOMAIN s.ai.services \subseteq Services
    BY <1>4, AccountsFit
  <2>5. DOMAIN t.ai.services = DOMAIN s.ai.services
    BY <1>5, <2>3, <2>4 DEF KeepsKeys, SameServices
  <2>. QED
    BY <1>13, <2>2, <2>5
<1>14. ASSUME InOrder PROVE HolderHasKeys(c)'
  <2>1. AcceptedKeys' = AcceptedKeys
    BY DEF AcceptedKeys
  <2>2. \A a \in Accounts \cap DOMAIN m.meant :
          IF a \notin AccountsOf(t) THEN m.meant[a] = Absent ELSE Exact(t, a, m.meant[a])
    BY <1>7, <1>11
  <2>. HIDE DEF AcceptedKeys
  <2>. QED
    BY <1>8, <1>9, <1>13, <1>14, <2>1, <2>2 DEF HolderHasKeys, SavingAt
<1>. QED
  BY <1>8, <1>9, <1>14

LEMMA TakeLockHolds == ASSUME SettingsInv, NEW c \in Callers, TakeLock(c) PROVE KeysInv'
<1>. DEFINE v == call[c]
<1>1. CallOK(c) /\ CallerIsSettled(c) /\ DOMAIN call = Callers /\ KeysInv
  BY CallerKeys
<1>2. /\ v.pc = "waiting" /\ lock = Absent /\ lock' = c
      /\ UNCHANGED <<file, keys, accepted, known, slips>>
  BY DEF TakeLock
<1>3. (\A a : ~Owes(c, a)) /\ ~WillSlip(c)
  BY <1>2 DEF Owes, WillSlip, SavingAt
<1>4. CASE c = "whole"
  <2>1. Save(c, v.copy, v.copy) /\ c # "snapshot" /\ c \in Windows
    BY <1>4 DEF TakeLock, Windows
  <2>2. v.copy \in SettingsRecord /\ Settled(v.copy)
    BY <1>1 DEF CallOK, CallerIsSettled
  <2>3. (InOrder => HolderHasKeys(c)') /\ \A d \in Callers \ {c} : call'[d] = call[d]
    BY <1>2, <2>1, <2>2, SaveHolds
  <2>4. \A d \in Callers \ {c} : lock' = d <=> lock = d
    BY <1>2, KnownCallers
  <2>5. AcceptedKeys' = AcceptedKeys /\ \A a \in AcceptedKeys : accepted'[a] = accepted[a]
    BY <1>2 DEF AcceptedKeys
  <2>6. ServicesIn(file') = ServicesIn(file)
    BY <1>2
  <2>. HIDE DEF AcceptedKeys
  <2>. QED
    BY <1>1, <1>2, <1>3, <2>3, <2>4, <2>5, <2>6, KeysKept
<1>5. CASE c # "whole"
  <2>. DEFINE w == [v EXCEPT !.pc = "read", !.use = "base"]
  <2>1. call' = [call EXCEPT ![c] = w]
    BY <1>1, <1>5 DEF TakeLock
  <2>2. w.pc = "read"
    BY <1>1 DEF CallOK, CallFields
  <2>. HIDE DEF w
  <2>3. HolderHasKeys(c)'
    BY <1>1, <2>1, <2>2 DEF HolderHasKeys, SavingAt
  <2>. QED
    BY <1>2, <1>3, <2>1, <2>3, QuietKeys
<1>. QED
  BY <1>4, <1>5

LEMMA LoadKeyHolds == ASSUME SettingsInv, NEW c \in Callers, LoadKey(c) PROVE KeysInv'
<1>. DEFINE v == call[c]
<1>1. CallOK(c) /\ CallerIsSettled(c) /\ DOMAIN call = Callers /\ KeysInv /\ KeysOK
  BY CallerKeys
<1>2. /\ v.pc = "keys" /\ UNCHANGED <<file, lock, known, slips, accepted>>
      /\ v.s \in SettingsRecord /\ v.todo \subseteq AccountsOf(v.s) /\ v.todo \subseteq Accounts
  BY <1>1 DEF LoadKey, Unaccepted, CallOK
<1>3. PICK a \in v.todo :
        LET legacy == Plaintext(v.s, a)
            key == IF keys[a] # Absent THEN keys[a] ELSE legacy
        IN  /\ keys' = [keys EXCEPT ![a] = key]
            /\ call' = [call EXCEPT ![c] = [call[c] EXCEPT !.s = SetKey(@, a, key),
                                                           !.plain = @ \/ legacy # Absent,
                                                           !.todo = @ \ {a}]]
  BY DEF LoadKey
<1>. DEFINE legacy == Plaintext(v.s, a)
            key == IF keys[a] # Absent THEN keys[a] ELSE legacy
            s == SetKey(v.s, a, key)
            w == [v EXCEPT !.s = s, !.plain = v.plain \/ legacy # Absent, !.todo = v.todo \ {a}]
<1>4. /\ keys' = [keys EXCEPT ![a] = key] /\ call' = [call EXCEPT ![c] = w]
  BY <1>3, Zenon
<1>5. a \in Accounts /\ a \in AccountsOf(v.s)
  BY <1>2
<1>6. key \in Texts \cup {Absent}
  BY <1>1, <1>2, <1>5, PlaintextFits DEF KeysOK
<1>7. /\ Carries(s, a, key)
      /\ \A b \in Accounts : b # a =>
           /\ Plaintext(s, b) = Plaintext(v.s, b)
           /\ \A r \in Texts \cup {Absent} : Carries(v.s, b, r) => Carries(s, b, r)
  BY <1>2, <1>5, <1>6, SetKeyFits
<1>8. /\ keys'[a] = key /\ (legacy = Absent => key = keys[a])
      /\ \A b \in Accounts : b # a => keys'[b] = keys[b]
      /\ keys' \in [Accounts -> Texts \cup {Absent}]
  BY <1>1, <1>4, <1>5, <1>6 DEF KeysOK
<1>. HIDE DEF s, key
<1>9. /\ w.pc = "keys" /\ w.use = v.use /\ w.s = s /\ w.todo = v.todo \ {a}
      /\ (w.plain <=> v.plain \/ legacy # Absent)
  BY <1>1, <1>2 DEF CallOK, CallFields
<1>. HIDE DEF w, legacy
<1>10. call'[c] = w /\ \A d \in Callers \ {c} : call'[d] = call[d] /\ (lock' = d <=> lock = d)
  BY <1>1, <1>2, <1>4
<1>11. (WillSlip(c) => WillSlip(c)') /\ \A b : ~Owes(c, b)
  BY <1>2, <1>9, <1>10 DEF WillSlip, Owes, SavingAt
<1>12. AcceptedKeys' = AcceptedKeys /\ (\A b \in AcceptedKeys : accepted'[b] = accepted[b])
       /\ AcceptedKeys \subseteq Accounts
  BY <1>2 DEF AcceptedKeys
<1>13. ASSUME InOrder
       PROVE  /\ ~WillSlip(c)
              /\ \A b \in AcceptedKeys : keys'[b] = keys[b]
              /\ lock # c => keys' = keys
              /\ HolderHasKeys(c)'
  <2>1. ~WillSlip(c)' /\ ~WillSlip(c) /\ HolderHasKeys(c)
    BY <1>2, <1>10, <1>11, <1>13, OthersStray, CallerKeys DEF InOrder, Stray
  <2>. HIDE DEF AcceptedKeys
  <2>2. CASE lock # c
    <3>1. legacy = Absent
      BY <1>2, <1>9, <1>10, <2>1, <2>2 DEF WillSlip
    <3>2. keys' = keys
      BY <1>1, <1>8, <3>1 DEF KeysOK
    <3>. QED
      BY <1>2, <2>1, <2>2, <3>2 DEF HolderHasKeys
  <2>3. CASE lock = c
    <3>1. \A b \in AcceptedKeys :
            IF b \in v.todo THEN Plaintext(v.s, b) = Absent ELSE Carries(v.s, b, keys[b])
      BY <1>2, <2>1, <2>3 DEF HolderHasKeys
    <3>2. a \in AcceptedKeys => legacy = Absent
      BY <3>1 DEF legacy
    <3>3. \A b \in AcceptedKeys : keys'[b] = keys[b]
      BY <1>8, <1>12, <3>2
    <3>4. ASSUME NEW b \in AcceptedKeys
          PROVE  IF b \in w.todo THEN Plaintext(s, b) = Absent ELSE Carries(s, b, keys'[b])
      <4>1. keys[b] \in Texts \cup {Absent} /\ b \in Accounts
        BY <1>1, <1>12 DEF KeysOK
      <4>2. CASE b = a
        BY <1>7, <1>8, <1>9, <4>2
      <4>3. CASE b # a
        BY <1>7, <1>8, <1>9, <3>1, <4>1, <4>3
      <4>. QED
        BY <4>2, <4>3
    <3>5. w.pc \notin SavingAt /\ w.pc \notin {"ids", "secrets", "removed", "write"}
      BY <1>9 DEF SavingAt
    <3>6. HolderHasKeys(c)'
      BY <1>9, <1>10, <1>12, <3>4, <3>5 DEF HolderHasKeys
    <3>. QED
      BY <2>1, <2>3, <3>3, <3>6
  <2>. QED
    BY <2>2, <2>3
<1>14. ServicesIn(file') = ServicesIn(file)
  BY <1>2
<1>. HIDE DEF AcceptedKeys
<1>. QED
  BY <1>1, <1>2, <1>10, <1>11, <1>12, <1>13, <1>14, KeysKept

\* The end of a load is a step of its caller only.
LEMMA LoadedOthers ==
  ASSUME SettingsInv, NEW c \in Callers, NEW s, Loaded(c, s)
  PROVE  \A d \in Callers \ {c} : call'[d] = call[d] /\ (lock' = d <=> lock = d)
<1>1. CallOK(c) /\ DOMAIN call = Callers
  BY CallerKeys
<1>2. \A d \in Callers \ {c} : LockAfter(c) = d <=> lock = d
  BY KnownCallers DEF LockAfter
<1>3. ASSUME NEW w, call' = [call EXCEPT ![c] = w]
      PROVE  \A d \in Callers \ {c} : call'[d] = call[d]
  BY <1>1, <1>3
<1>4. CASE call[c].use = "copy"
  BY <1>3, <1>4 DEF Loaded
<1>5. CASE call[c].use = "result"
  BY <1>1, <1>2, <1>5 DEF Loaded
<1>6. CASE call[c].use = "base" /\ (c # "factory" \/ s.transcription = "outdated")
  BY <1>3, <1>6 DEF Loaded, Save
<1>7. CASE call[c].use = "base" /\ ~(c # "factory" \/ s.transcription = "outdated")
  BY <1>1, <1>7 DEF Loaded
<1>. QED
  BY <1>1, <1>4, <1>5, <1>6, <1>7 DEF CallOK

\* A load that ends with settings that have every accepted key, where it matters.
LEMMA LoadedHolds ==
  ASSUME SettingsInv, NEW c \in Callers, NEW s \in SettingsRecord,
         call[c].pc \in {"read", "keys"}, Settled(s), Loaded(c, s),
         keys' = keys, accepted' = accepted, slips \subseteq slips',
         InOrder => ~WillSlip(c) /\ known' = known /\ ServicesIn(file') = ServicesIn(file),
         InOrder /\ lock = c =>
           /\ \A a \in AcceptedKeys : Carries(s, a, keys[a])
           /\ DOMAIN s.ai.services = ServicesIn(file')
  PROVE  KeysInv'
<1>. DEFINE v == call[c]
<1>1. CallOK(c) /\ CallerIsSettled(c) /\ DOMAIN call = Callers /\ KeysInv
  BY CallerKeys
<1>2. \A d \in Callers \ {c} : call'[d] = call[d] /\ (lock' = d <=> lock = d)
  BY LoadedOthers
<1>3. AcceptedKeys' = AcceptedKeys /\ \A a \in AcceptedKeys : accepted'[a] = accepted[a]
  BY DEF AcceptedKeys
<1>3a. \A a : ~Owes(c, a)
  BY DEF Owes, SavingAt
<1>4. ASSUME InOrder => HolderHasKeys(c)' PROVE KeysInv'
  <2>. HIDE DEF AcceptedKeys
  <2>. QED
    BY <1>1, <1>2, <1>3, <1>4, <1>3a, KeysKept
<1>5. CASE v.use = "copy"
  <2>1. lock' = lock /\ lock # c
    BY <1>1, <1>5 DEF Loaded, CallerIsSettled
  <2>. QED
    BY <1>4, <2>1 DEF HolderHasKeys
<1>6. ASSUME call' = [call EXCEPT ![c].pc = "done"], lock' # c PROVE KeysInv'
  BY <1>4, <1>6 DEF HolderHasKeys
<1>7. CASE v.use = "base" /\ (c # "factory" \/ s.transcription = "outdated")
  <2>1. Save(c, s, v.copy) /\ lock' = lock /\ c # "snapshot" /\ c # "whole"
    BY <1>1, <1>7 DEF Loaded, CallOK
  <2>2. InOrder => HolderHasKeys(c)'
    BY <2>1, SaveHolds
  <2>. QED
    BY <1>4, <2>2
<1>8. CASE v.use = "base" /\ ~(c # "factory" \/ s.transcription = "outdated")
  <2>1. call' = [call EXCEPT ![c].pc = "done"] /\ lock' = lock
    BY <1>8 DEF Loaded
  <2>2. lock # c
    BY <1>1, <1>8 DEF CallerIsSettled, Unlocked
  <2>. QED
    BY <1>6, <2>1, <2>2
<1>9. CASE v.use = "result"
  <2>1. call' = [call EXCEPT ![c].pc = "done"] /\ lock' = LockAfter(c)
    BY <1>9 DEF Loaded
  <2>2. lock' # c
    BY <2>1, KnownCallers DEF LockAfter
  <2>. QED
    BY <1>6, <2>1, <2>2
<1>. QED
  BY <1>1, <1>5, <1>7, <1>8, <1>9 DEF CallOK

LEMMA DefaultsHold ==
  ASSUME SettingsInv, NEW c \in Callers, LoadWritesDefaults(c) PROVE KeysInv'
<1>1. /\ call[c].pc = "read" /\ file = Absent /\ file' = Redacted(Defaults) /\ Loaded(c, Defaults)
      /\ UNCHANGED <<keys, known, accepted>> /\ LoadSlips(c)
  BY DEF LoadWritesDefaults
<1>2. /\ Defaults \in SettingsRecord /\ Settled(Defaults) /\ DOMAIN Defaults.ai.services = {}
      /\ ServicesIn(file') = {}
  BY <1>1, DefaultsFit, DefaultsParts, WrittenIsRedacted
<1>3. ~WillSlip(c) /\ ServicesIn(file) = {}
  BY <1>1 DEF WillSlip, SavingAt, ServicesIn
<1>4. AcceptedKeys = {}
  BY <1>1, CallerKeys DEF FileIsSettled, FileIsRedacted, AcceptedKeys
<1>5. slips \subseteq slips'
  BY <1>1 DEF LoadSlips, Slips
<1>. HIDE DEF AcceptedKeys
<1>. QED
  BY <1>1, <1>2, <1>3, <1>4, <1>5, LoadedHolds

LEMMA EndLoadHolds == ASSUME SettingsInv, NEW c \in Callers, EndLoad(c) PROVE KeysInv'
<1>. DEFINE v == call[c]
<1>1. CallOK(c) /\ CallerIsSettled(c) /\ (slips = {} => Removals /\ LockHolder(c))
  BY CallerKeys
<1>2. /\ v.pc = "keys" /\ v.todo = {} /\ Loaded(c, v.s) /\ UNCHANGED <<keys, accepted>>
      /\ known' = known \cup ServicesIn(file')
      /\ file' = IF v.plain THEN Redacted(v.s) ELSE file
      /\ IF v.plain THEN LoadSlips(c) ELSE UNCHANGED slips
      /\ v.s \in SettingsRecord /\ Settled(v.s)
  BY <1>1 DEF EndLoad, CallOK, CallerIsSettled
<1>3. slips \subseteq slips'
  BY <1>2 DEF LoadSlips, Slips
<1>4. v.plain => ServicesIn(file') = DOMAIN v.s.ai.services
  BY <1>2, WrittenIsRedacted
<1>5. ASSUME InOrder, ~(lock = Absent /\ touched = {})
      PROVE  /\ ~WillSlip(c) /\ known' = known /\ ServicesIn(file') = ServicesIn(file)
             /\ lock = c =>
                  /\ \A a \in AcceptedKeys : Carries(v.s, a, keys[a])
                  /\ DOMAIN v.s.ai.services = ServicesIn(file')
  <2>1. (v.plain => lock = c) /\ slips = {}
    BY <1>2, <1>5 DEF LoadSlips, Slips, InOrder
  <2>2. ~WillSlip(c)
    BY <1>2, <2>1 DEF WillSlip, SavingAt
  <2>3. lock = c => DOMAIN v.s.ai.services = ServicesIn(file)
    BY <1>1, <1>2, <2>1 DEF LockHolder
  <2>4. ServicesIn(file') = ServicesIn(file)
    BY <1>2, <1>4, <2>1, <2>3
  <2>5. known' = known
    BY <1>1, <1>2, <2>1, <2>4 DEF Removals
  <2>6. HolderHasKeys(c)
    BY <1>2, <1>3, <1>5, <2>2, LoadedOthers, OthersStray, CallerKeys
  <2>7. lock = c => \A a \in AcceptedKeys : Carries(v.s, a, keys[a])
    BY <1>2, <2>6 DEF HolderHasKeys
  <2>. QED
    BY <2>2, <2>3, <2>4, <2>5, <2>7
<1>6. CASE lock = Absent /\ touched = {}
  <2>1. DOMAIN accepted = {}
    BY <1>6 DEF SettingsInv, Begun
  <2>2. AcceptedKeys' = {}
    BY <1>2, <2>1 DEF AcceptedKeys
  <2>3. lock' = Absent
    BY <1>1, <1>2, <1>6 DEF Loaded, LockAfter, CallOK
  <2>4. \A d \in Callers : HolderHasKeys(d)'
    BY <2>3, KnownCallers DEF HolderHasKeys
  <2>. QED
    BY <2>2, <2>4 DEF KeysInv
<1>7. CASE ~(lock = Absent /\ touched = {})
  <2>. HIDE DEF AcceptedKeys
  <2>. QED
    BY <1>2, <1>3, <1>5, <1>7, LoadedHolds
<1>. QED
  BY <1>6, <1>7

LEMMA ReadIdsHolds == ASSUME SettingsInv, NEW c \in Callers, ReadIds(c) PROVE KeysInv'
<1>. DEFINE v == call[c]
            s == Normalized(v.s)
            w == [v EXCEPT !.pc = "secrets", !.s = s, !.todo = AccountsOf(s), !.ids = ServicesIn(file)]
<1>1. CallOK(c) /\ DOMAIN call = Callers /\ KeysOK /\ FromFile(c, v, known)
  BY CallerKeys
<1>2. /\ call' = [call EXCEPT ![c] = w] /\ UNCHANGED <<file, keys, accepted, known, lock>>
      /\ slips' = IF Stale(c) THEN slips \cup {"stale"} ELSE slips
      /\ v.pc = "ids" /\ v.s \in SettingsRecord
  BY <1>1 DEF ReadIds, CallOK
<1>3. /\ DOMAIN s.ai.services = DOMAIN v.s.ai.services /\ AccountsOf(s) = AccountsOf(v.s)
      /\ \A a \in Accounts : Carries(v.s, a, keys[a]) => Carries(s, a, keys[a])
      /\ \A a \in Accounts : \A k : Exact(v.s, a, k) => Exact(s, a, k)
      /\ \A a \in Accounts : Plaintext(v.s, a) = Absent /\ keys[a] = Absent => Plaintext(s, a) = Absent
  BY <1>1, <1>2, NormalizedKeeps, NormalizedExact, NormalizedEmpty DEF SameServices, AccountsOf
<1>. HIDE DEF s
<1>4. w.pc = "secrets" /\ w.s = s /\ w.meant = v.meant /\ w.todo = AccountsOf(s) /\ w.ids = ServicesIn(file)
  BY <1>1 DEF CallOK, CallFields
<1>. HIDE DEF w
<1>5. call'[c] = w /\ \A d \in Callers \ {c} : call'[d] = call[d] /\ (lock' = d <=> lock = d)
  BY <1>1, <1>2
<1>6. (WillSlip(c) => WillSlip(c)') /\ (\A a : Owes(c, a) => Owes(c, a)') /\ slips \subseteq slips'
  BY <1>2, <1>4, <1>5 DEF WillSlip, Owes, SavingAt
<1>7. ASSUME InOrder PROVE HolderHasKeys(c)'
  <2>1. HolderHasKeys(c) /\ ~Stale(c)
    BY <1>2, <1>5, <1>6, <1>7, OthersStray, CallerKeys DEF InOrder
  <2>2. AcceptedKeys' = AcceptedKeys /\ AcceptedKeys \subseteq Accounts
    BY <1>2 DEF AcceptedKeys
  <2>. HIDE DEF AcceptedKeys
  <2>3. v.pc \in SavingAt /\ w.pc \in SavingAt /\ w.pc # "keys"
    BY <1>2, <1>4 DEF SavingAt
  <2>4. lock = c =>
          \A a \in Accounts \cap DOMAIN v.meant :
            IF a \notin AccountsOf(s) THEN v.meant[a] = Absent ELSE Exact(s, a, v.meant[a])
    BY <1>2, <1>3, <2>1, <2>3 DEF HolderHasKeys
  <2>5. ASSUME lock = c, NEW a \in AcceptedKeys \ DOMAIN v.meant
        PROVE  /\ Spares(s, a, keys[a])
               /\ a \in ServicesIn(file) => a \in AccountsOf(s) \/ keys[a] = Absent
    <3>1. CASE c \notin Windows
      <4>1. Carries(v.s, a, keys[a]) /\ DOMAIN v.s.ai.services = ServicesIn(file)
        BY <1>2, <2>1, <2>5, <3>1 DEF HolderHasKeys
      <4>2. Spares(s, a, keys[a])
        BY <1>3, <2>2, <2>5, <4>1, CarriedIsSpared
      <4>. QED
        BY <1>3, <4>1, <4>2 DEF AccountsOf
    <3>2. CASE c \in Windows
      <4>1. /\ v.s.flat.present <=> v.s.ai.gem.has
            /\ Plaintext(v.s, a) = Absent
        BY <1>1, <1>2, <2>2, <2>5, <3>2 DEF FromFile
      <4>2. CASE keys[a] = Absent
        <5>1. Plaintext(s, a) = Absent
          BY <1>3, <2>2, <2>5, <4>1, <4>2
        <5>. QED
          BY <4>2, <5>1 DEF Spares, Plaintext
      <4>3. CASE keys[a] # Absent
        <5>1. a \in AccountsOf(v.s) /\ Entry(v.s, a).has
          BY <2>1, <2>2, <2>5, <3>2, <4>3 DEF Stale
        <5>2. Carries(v.s, a, keys[a])
          BY <4>1, <4>3, <5>1 DEF Carries, Of, Entry, Plaintext
        <5>3. Spares(s, a, keys[a])
          BY <1>3, <2>2, <2>5, <5>2, CarriedIsSpared
        <5>. QED
          BY <1>3, <5>1, <5>3
      <4>. QED
        BY <4>2, <4>3
    <3>. QED
      BY <3>1, <3>2
  <2>. QED
    BY <1>2, <1>4, <1>5, <2>2, <2>3, <2>4, <2>5 DEF HolderHasKeys
<1>. QED
  BY <1>2, <1>6, <1>7, QuietKeys

LEMMA PutKeyHolds ==
  ASSUME SettingsInv, NEW c \in Callers, PutKey(c) PROVE KeysInv'
<1>. DEFINE v == call[c]
<1>1. CallOK(c) /\ DOMAIN call = Callers /\ KeysInv /\ KeysOK
  BY CallerKeys
<1>2. /\ v.pc = "secrets" /\ UNCHANGED <<file, lock, known, slips, accepted>>
      /\ v.todo \subseteq AccountsOf(v.s) /\ v.todo \subseteq Accounts
  BY <1>1 DEF PutKey, Unaccepted, CallOK
<1>3. PICK a \in v.todo :
        LET e == Entry(v.s, a)
        IN  /\ keys' = [keys EXCEPT ![a] = IF e.key # Absent THEN e.key
                                           ELSE IF ~e.has THEN Absent ELSE @]
            /\ call' = [call EXCEPT ![c] =
                          [call[c] EXCEPT !.todo = @ \ {a},
                                          !.pc = IF call[c].todo = {a} THEN "removed" ELSE @]]
  BY DEF PutKey
<1>. DEFINE e == Entry(v.s, a)
            p == IF v.todo = {a} THEN "removed" ELSE v.pc
            w == [v EXCEPT !.todo = v.todo \ {a}, !.pc = p]
<1>4. call' = [call EXCEPT ![c] = w]
  BY <1>3, Zenon
<1>5. /\ \A b \in Accounts : b # a => keys'[b] = keys[b]
      /\ keys'[a] = IF e.key # Absent THEN e.key ELSE IF ~e.has THEN Absent ELSE keys[a]
  BY <1>1, <1>2, <1>3 DEF KeysOK
<1>6. p \in {"secrets", "removed"} /\ (v.todo # {a} => p = "secrets")
  BY <1>2
<1>7. e = IF a = "gemini" THEN v.s.ai.gem ELSE v.s.ai.services[a]
  BY DEF Entry
<1>8. a \in AccountsOf(v.s) /\ (a # "gemini" => a \in DOMAIN v.s.ai.services)
  BY <1>2 DEF AccountsOf
<1>. HIDE DEF p, e
<1>9. w.pc = p /\ w.s = v.s /\ w.meant = v.meant /\ w.todo = v.todo \ {a} /\ w.ids = v.ids
  BY <1>1 DEF CallOK, CallFields
<1>. HIDE DEF w
<1>10. call'[c] = w /\ \A d \in Callers \ {c} : call'[d] = call[d] /\ (lock' = d <=> lock = d)
  BY <1>1, <1>2, <1>4
<1>11. (WillSlip(c) => WillSlip(c)') /\ (lock # c => WillSlip(c)')
       /\ \A b : Owes(c, b) => Owes(c, b)'
  BY <1>2, <1>6, <1>9, <1>10 DEF WillSlip, Owes, SavingAt
<1>12. AcceptedKeys' = AcceptedKeys /\ (\A b \in AcceptedKeys : accepted'[b] = accepted[b])
       /\ AcceptedKeys \subseteq Accounts
  BY <1>2 DEF AcceptedKeys
<1>13. v.pc \in SavingAt /\ w.pc \in SavingAt /\ v.pc # "ids" /\ w.pc \notin {"ids", "keys"}
  BY <1>2, <1>6, <1>9 DEF SavingAt
<1>14. ASSUME InOrder
       PROVE  /\ lock = c /\ ~WillSlip(c)
              /\ \A b \in AcceptedKeys : keys'[b] = keys[b] \/ Owes(c, b)'
              /\ HolderHasKeys(c)'
  <2>1. lock = c /\ ~WillSlip(c) /\ HolderHasKeys(c)
    BY <1>2, <1>10, <1>11, <1>14, OthersStray, CallerKeys DEF InOrder, Stray
  <2>. HIDE DEF AcceptedKeys
  <2>2. \A b \in Accounts \cap DOMAIN v.meant :
          IF b \notin AccountsOf(v.s) THEN v.meant[b] = Absent
          ELSE IF b \in v.todo THEN Exact(v.s, b, v.meant[b]) ELSE keys[b] = v.meant[b]
    BY <1>2, <1>13, <2>1 DEF HolderHasKeys
  <2>3. \A b \in AcceptedKeys \ DOMAIN v.meant :
          /\ Spares(v.s, b, keys[b])
          /\ b \in v.ids => b \in AccountsOf(v.s) \/ keys[b] = Absent
    BY <1>2, <2>1 DEF HolderHasKeys
  <2>4. a \in DOMAIN v.meant => keys'[a] = v.meant[a]
    <3>1. a \in DOMAIN v.meant => Exact(v.s, a, v.meant[a])
      BY <1>2, <1>8, <2>2
    <3>. QED
      BY <1>5, <1>7, <1>8, <3>1 DEF Exact
  <2>5. a \in AcceptedKeys \ DOMAIN v.meant => keys'[a] = keys[a]
    <3>1. a \in AcceptedKeys \ DOMAIN v.meant => Spares(v.s, a, keys[a])
      BY <2>3
    <3>. QED
      BY <1>5, <1>7, <1>8, <3>1 DEF Spares
  <2>6. \A b \in AcceptedKeys \ DOMAIN v.meant : keys'[b] = keys[b]
    BY <1>5, <1>12, <2>5
  <2>7. \A b \in DOMAIN v.meant : Owes(c, b)'
    BY <1>2, <1>9, <1>10, <1>13, <2>1 DEF Owes
  <2>8. ASSUME NEW b \in Accounts \cap DOMAIN v.meant
        PROVE  IF b \notin AccountsOf(v.s) THEN v.meant[b] = Absent
               ELSE IF w.pc = "secrets" /\ b \in w.todo THEN Exact(v.s, b, v.meant[b])
               ELSE keys'[b] = v.meant[b]
    BY <1>5, <1>6, <1>9, <2>2, <2>4
  <2>9. \A b \in AcceptedKeys \ DOMAIN v.meant :
          /\ Spares(v.s, b, keys'[b])
          /\ b \in v.ids => b \in AccountsOf(v.s) \/ keys'[b] = Absent
    BY <2>3, <2>6
  <2>10. HolderHasKeys(c)'
    BY <1>2, <1>9, <1>10, <1>12, <1>13, <2>1, <2>8, <2>9 DEF HolderHasKeys
  <2>. QED
    BY <2>1, <2>6, <2>7, <2>10
<1>. HIDE DEF AcceptedKeys
<1>. QED
  BY <1>1, <1>2, <1>10, <1>11, <1>12, <1>14, KeysKept

LEMMA DropRemovedHolds ==
  ASSUME SettingsInv, NEW c \in Callers, DropRemoved(c) PROVE KeysInv'
<1>. DEFINE v == call[c]
            gone == v.ids \ DOMAIN v.s.ai.services
            w == [v EXCEPT !.pc = "write"]
<1>1. /\ CallOK(c) /\ DOMAIN call = Callers /\ KeysInv /\ KeysOK
      /\ slips = {} => LockHolder(c)
  BY CallerKeys
<1>2. /\ v.pc = "removed" /\ UNCHANGED <<file, lock, known, slips, accepted>>
      /\ call' = [call EXCEPT ![c] = w]
      /\ keys' = [a \in Accounts |-> IF a \in gone THEN Absent ELSE keys[a]]
      /\ v.ids \subseteq Services
  BY <1>1 DEF DropRemoved, Unaccepted, CallOK
<1>3. w.pc = "write" /\ w.s = v.s /\ w.meant = v.meant /\ w.ids = v.ids
  BY <1>1 DEF CallOK, CallFields
<1>. HIDE DEF w
<1>4. call'[c] = w /\ \A d \in Callers \ {c} : call'[d] = call[d] /\ (lock' = d <=> lock = d)
  BY <1>1, <1>2
<1>5. (WillSlip(c) => WillSlip(c)') /\ (lock # c => WillSlip(c)')
      /\ \A b : Owes(c, b) => Owes(c, b)'
  BY <1>2, <1>3, <1>4 DEF WillSlip, Owes, SavingAt
<1>6. AcceptedKeys' = AcceptedKeys /\ (\A b \in AcceptedKeys : accepted'[b] = accepted[b])
      /\ AcceptedKeys \subseteq Accounts
  BY <1>2 DEF AcceptedKeys
<1>7. v.pc \in SavingAt /\ w.pc \in SavingAt
  BY <1>2, <1>3 DEF SavingAt
<1>8. ASSUME InOrder
      PROVE  /\ lock = c /\ ~WillSlip(c)
             /\ \A b \in AcceptedKeys : keys'[b] = keys[b] \/ Owes(c, b)'
             /\ HolderHasKeys(c)'
  <2>1. lock = c /\ ~WillSlip(c) /\ HolderHasKeys(c) /\ slips = {}
    BY <1>2, <1>4, <1>5, <1>8, OthersStray, CallerKeys DEF InOrder, Stray
  <2>. HIDE DEF AcceptedKeys
  <2>2. \A b \in Accounts \cap DOMAIN v.meant :
          IF b \notin AccountsOf(v.s) THEN v.meant[b] = Absent ELSE keys[b] = v.meant[b]
    BY <1>2, <1>7, <2>1 DEF HolderHasKeys
  <2>3. \A b \in AcceptedKeys \ DOMAIN v.meant :
          /\ Spares(v.s, b, keys[b])
          /\ b \in v.ids => b \in AccountsOf(v.s) \/ keys[b] = Absent
    BY <1>2, <2>1 DEF HolderHasKeys
  <2>4. \A b \in Accounts : b \in AccountsOf(v.s) => b \notin gone
    BY <1>2, KindsOfServices DEF AccountsOf
  <2>5. \A b \in AcceptedKeys \ DOMAIN v.meant : keys'[b] = keys[b]
    BY <1>2, <1>6, <2>3, <2>4
  <2>6. \A b \in DOMAIN v.meant : Owes(c, b)'
    BY <1>2, <1>3, <1>4, <1>7, <2>1 DEF Owes
  <2>7. \A b \in Accounts \cap DOMAIN v.meant :
          IF b \notin AccountsOf(v.s) THEN v.meant[b] = Absent ELSE keys'[b] = v.meant[b]
    BY <1>2, <2>2, <2>4
  <2>8. \A b \in AcceptedKeys \ DOMAIN v.meant :
          /\ Spares(v.s, b, keys'[b])
          /\ b \in v.ids => b \in AccountsOf(v.s) \/ keys'[b] = Absent
    BY <2>3, <2>5
  <2>9. HolderHasKeys(c)'
    BY <1>2, <1>3, <1>4, <1>6, <1>7, <2>1, <2>7, <2>8 DEF HolderHasKeys
  <2>. QED
    BY <2>1, <2>5, <2>6, <2>9
<1>9. ServicesIn(file') = ServicesIn(file)
  BY <1>2
<1>. HIDE DEF AcceptedKeys
<1>. QED
  BY <1>1, <1>2, <1>4, <1>5, <1>6, <1>8, <1>9, KeysKept

LEMMA WriteFileHolds ==
  ASSUME SettingsInv, NEW c \in Callers, WriteFile(c) PROVE KeysInv'
<1>. DEFINE v == call[c]
            p == IF c = "factory" THEN "done" ELSE "read"
            w == [v EXCEPT !.pc = p, !.use = "result"]
<1>1. /\ CallOK(c) /\ CallerIsSettled(c) /\ DOMAIN call = Callers /\ KeysInv
      /\ FromFile(c, v, known)
      /\ slips = {} => Removals /\ LockHolder(c)
  BY CallerKeys
<1>2. /\ v.pc = "write" /\ file' = Redacted(v.s) /\ UNCHANGED <<lock, keys>> /\ Slips(c)
      /\ accepted' = Joined(v.meant, accepted) /\ known' = known \cup ServicesIn(file')
      /\ call' = [call EXCEPT ![c] = w] /\ v.s \in SettingsRecord
  BY <1>1 DEF WriteFile, CallOK
<1>4. /\ DOMAIN accepted' = DOMAIN v.meant \cup DOMAIN accepted
      /\ \A x \in DOMAIN accepted' :
           accepted'[x] = IF x \in DOMAIN v.meant THEN v.meant[x] ELSE accepted[x]
  BY <1>2 DEF Joined
<1>6. p \in {"done", "read"}
  OBVIOUS
<1>. HIDE DEF p
<1>7. w.pc = p /\ w.use = "result"
  BY <1>1 DEF CallOK, CallFields
<1>. HIDE DEF w
<1>8. call'[c] = w /\ \A d \in Callers \ {c} : call'[d] = call[d] /\ (lock' = d <=> lock = d)
  BY <1>1, <1>2
<1>9. ServicesIn(file') = DOMAIN v.s.ai.services
  BY <1>2, WrittenIsRedacted
<1>10. v.pc \in SavingAt
  BY <1>2 DEF SavingAt
<1>11. ASSUME InOrder
       PROVE  /\ \A a \in AcceptedKeys' \cap ({"gemini"} \cup known') : keys'[a] = accepted'[a]
              /\ \A d \in Callers : HolderHasKeys(d)'
  <2>1. lock = c /\ slips = {} /\ slips' = {}
    BY <1>2, <1>11 DEF Slips, InOrder
  <2>2. ~WillSlip(c) /\ slips \subseteq slips'
    BY <2>1 DEF WillSlip
  <2>3. /\ HolderHasKeys(c) /\ ~Stray
        /\ \A a \in AcceptedKeys \cap ({"gemini"} \cup known) :
             keys[a] = accepted[a] \/ \E d \in Callers : Owes(d, a)
    BY <1>8, <1>11, <2>2, OthersStray, CallerKeys
  <2>4. \A d \in Callers : HolderHasKeys(d)'
    BY <1>2, <1>6, <1>7, <1>8, <2>1 DEF HolderHasKeys, SavingAt
  <2>5. \A a \in Accounts \cap DOMAIN v.meant :
          IF a \notin AccountsOf(v.s) THEN v.meant[a] = Absent ELSE keys[a] = v.meant[a]
    BY <1>2, <1>10, <2>1, <2>3 DEF HolderHasKeys
  <2>6. ASSUME NEW a \in AcceptedKeys' \cap ({"gemini"} \cup known') PROVE keys'[a] = accepted'[a]
    <3>1. a \in Accounts /\ a \in DOMAIN accepted' /\ keys'[a] = keys[a]
      BY <1>2 DEF AcceptedKeys
    <3>2. CASE a \in DOMAIN v.meant /\ a \in AccountsOf(v.s)
      BY <1>4, <2>5, <3>1, <3>2
    <3>3. CASE a \in DOMAIN v.meant /\ a \notin AccountsOf(v.s)
      <4>1. a # "gemini" /\ a \notin DOMAIN v.s.ai.services /\ a \in known
        BY <1>2, <1>9, <2>6, <3>3 DEF AccountsOf
      <4>2. \A d \in Callers : ~Puts(d, a)
        BY <2>1, <4>1 DEF Puts
      <4>3. CASE a \in ServicesIn(file)
        BY <1>1, <1>2, <1>4, <2>1, <2>3, <2>5, <3>1, <3>3, <4>1, <4>3 DEF LockHolder
      <4>4. CASE a \notin ServicesIn(file)
        BY <1>1, <1>4, <2>1, <2>3, <2>5, <3>1, <3>3, <4>1, <4>2, <4>4 DEF Removals
      <4>. QED
        BY <4>3, <4>4
    <3>4. CASE a \notin DOMAIN v.meant
      <4>1. a \in AcceptedKeys /\ accepted'[a] = accepted[a]
        BY <1>4, <3>1, <3>4 DEF AcceptedKeys
      <4>2. a = "gemini" \/ a \in known
        BY <1>1, <1>2, <1>9, <1>10, <2>6, <3>4 DEF FromFile
      <4>3. \A d \in Callers : ~Owes(d, a)
        BY <2>1, <3>4 DEF Owes
      <4>. QED
        BY <2>3, <3>1, <4>1, <4>2, <4>3
    <3>. QED
      BY <3>2, <3>3, <3>4
  <2>. QED
    BY <2>4, <2>6
<1>. QED
  BY <1>11 DEF KeysInv, InOrder

LEMMA StutterHolds == ASSUME SettingsInv, UNCHANGED settings PROVE KeysInv'
<1>1. UNCHANGED <<file, keys, lock, call, accepted, known, slips>> /\ KeysInv
  BY DEF settings, SettingsInv
<1>2. AcceptedKeys' = AcceptedKeys
  BY <1>1 DEF AcceptedKeys
<1>3. \A d \in Callers : WillSlip(d)' <=> WillSlip(d)
  BY <1>1 DEF WillSlip
<1>4. (Stray' <=> Stray) /\ \A d \in Callers, a \in Accounts : Owes(d, a)' <=> Owes(d, a)
  BY <1>1, <1>3 DEF Stray, Owes
<1>5. ServicesIn(file') = ServicesIn(file) /\ AcceptedKeys \subseteq Accounts
  BY <1>1 DEF AcceptedKeys
<1>. HIDE DEF AcceptedKeys
<1>6. ASSUME NEW d \in Callers, HolderHasKeys(d) PROVE HolderHasKeys(d)'
  BY <1>1, <1>2, <1>5, <1>6, HolderKeeps
<1>. QED
  BY <1>1, <1>2, <1>4, <1>5, <1>6 DEF KeysInv

LEMMA StartHolds == ASSUME NEW start \in DOMAIN Stored, SettingsInit(start) PROVE KeysInv
<1>1. lock = Absent /\ DOMAIN accepted = {}
  BY DEF SettingsInit
<1>2. \A c \in Callers : HolderHasKeys(c)
  BY <1>1, KnownCallers DEF HolderHasKeys
<1>. QED
  BY <1>1, <1>2 DEF KeysInv, AcceptedKeys

LEMMA AcceptedStep ==
  ASSUME SettingsInv, [SettingsNext]_settings PROVE KeysInv'
<1>1. ASSUME NEW c \in Callers, CallStep(c) PROVE KeysInv'
  BY <1>1, BeginHolds, TakeLockHolds, DefaultsHold, ReadFileHolds, LoadKeyHolds, EndLoadHolds,
     ReadIdsHolds, PutKeyHolds, DropRemovedHolds, WriteFileHolds DEF CallStep
<1>2. CASE (\E c \in Callers : CallFails(c)) \/ SettingsCrash
  BY <1>2, FailHolds
<1>3. CASE UNCHANGED settings
  BY <1>3, StutterHolds
<1>. QED
  BY <1>1, <1>2, <1>3 DEF SettingsNext

LEMMA KeysFollow == ASSUME SettingsInv PROVE AcceptedSettingsStay
<1>1. SettingsTypeOK /\ AcceptedPartsStay /\ BindingsResolve
  BY PartsFollow DEF SettingsInv
<1>2. AcceptedKeysStay
  <2>. SUFFICES ASSUME Calm, slips = {}, NEW a \in DOMAIN accepted \cap ({"gemini"} \cup known)
       PROVE  keys[a] = accepted[a]
    BY DEF AcceptedKeysStay
  <2>1. \A c \in Callers : call[c].pc \in {"idle", "done", "failed", "lost"}
    BY DEF Calm, Running
  <2>2. ~Stray
    BY <2>1 DEF Stray, WillSlip, SavingAt
  <2>3. a \in Accounts
    BY DEF SettingsInv, RemovalInv, Accounts
  <2>. QED
    <3>1. \A c \in Callers : ~Owes(c, a)
      BY <2>1 DEF Owes, SavingAt
    <3>. QED
      BY <2>2, <2>3, <3>1 DEF SettingsInv, KeysInv, AcceptedKeys
<1>. QED
  BY <1>1, <1>2 DEF AcceptedSettingsStay

\* What the last accepted command set stays, whichever commands run side by side: the
\* parts as long as the file is written under the lock, the keys in the storage too as
\* long as no step fails and no window sends back, unmeant, that a key or a service
\* that is there is not.
THEOREM AcceptedStays == SettingsSpec => []AcceptedSettingsStay
<1>1. (\E start \in DOMAIN Stored : SettingsInit(start)) => SettingsInv
  BY StartIsKept, StartLock, StartBegins, StartCopies, StartIsSettled, StartHolds DEF SettingsInv
<1>2. SettingsInv /\ [SettingsNext]_settings => SettingsInv'
  <2>. SUFFICES ASSUME SettingsInv, [SettingsNext]_settings PROVE SettingsInv'
    OBVIOUS
  <2>1. SecretInv /\ SettingsOK /\ RemovalInv /\ Begun /\ CopiesInv /\ PartsInv
    BY DEF SettingsInv, SecretInv
  <2>2. SecretInv' /\ RemovalInv' /\ Begun' /\ CopiesInv' /\ PartsInv'
    BY <2>1, SecretStep, RemovalStep, BegunStep, CopiesStep, SettledStep
  <2>3. KeysInv'
    BY AcceptedStep
  <2>. QED
    BY <2>2, <2>3 DEF SettingsInv
<1>3. SettingsInv => AcceptedSettingsStay
  BY KeysFollow
<1>. QED
  BY <1>1, <1>2, <1>3, PTL DEF SettingsSpec
=============================================================================
