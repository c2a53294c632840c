------------------------- MODULE CompanionJobsProofs -------------------------
(***************************************************************************)
(* What holds of the companion server's table for every set of jobs and     *)
(* requests, every size of the table and every number of servers started.   *)
(*                                                                         *)
(* The table alone is not inductive: that an upload which fails may write   *)
(* its outcome needs that no task has begun yet, that the task may write    *)
(* needs that its job still is what the task last made it, and that nothing *)
(* holds the gate after the accept loop needs that everyone in the queue is *)
(* a task that waits (JobAgrees, QueueAgrees, ServerAgrees). What the run   *)
(* of a job does matters only in that nothing leaves the archive.           *)
(***************************************************************************)
EXTENDS CompanionJobs, FileTranscriptionProofs, FiniteSetTheorems

Clients == Jobs \cup {Desktop}
Holding == {"building", "running", "checking"}

\* The request, the task and the entry of a job.
JobAgrees(j) ==
  /\ handler[j] # "none" => status[j] = "uploading" /\ task[j] = "none"
  /\ task[j] \in {"gate", "waiting", "building"} => status[j] = "queued"
  /\ task[j] \in {"running", "checking"} => status[j] = "running"
  /\ task[j] \in Holding => holder = j
  /\ holder = j => task[j] \in Holding \cup {"waiting"}
  /\ status[j] = "completed" => archive[j] # NoArtifact /\ j \in completed
  /\ status[j] \notin {"completed", "absent"} => j \notin completed

\* Nobody is in the queue twice, nor while holding the permit, and every job
\* in it is one whose task waits.
QueueAgrees ==
  /\ Orderly(Clients, waiters, holder)
  /\ \A i \in 1..Len(waiters) : waiters[i] \in Jobs => task[waiters[i]] = "waiting"

\* How far the server has come says what may still be under way.
ServerAgrees ==
  /\ slot <=> server # "off"
  /\ server \in {"draining", "ended", "off"} => \A j \in Jobs : handler[j] = "none"
  /\ server \in {"ended", "off"} => \A j \in Jobs : task[j] \notin Busy
  /\ server = "off" => \A j \in Jobs : status[j] = "absent"

TableFits == IsFiniteSet(Present) /\ Cardinality(Present) <= MaxJobs

TableInv ==
  /\ TypeOK
  /\ \A j \in Jobs : JobAgrees(j)
  /\ QueueAgrees
  /\ ServerAgrees
  /\ TableFits

-----------------------------------------------------------------------------
\* Whatever the runs do, the variables keep their types and nothing leaves
\* the archive.
RunsKeep ==
  /\ PipelineTypeOK'
  /\ \A j \in Jobs : archive[j] # NoArtifact => archive'[j] # NoArtifact

LEMMA OneRunKeeps ==
  ASSUME PipelineTypeOK, NEW j \in Jobs, NEW u \in Run, run' = [run EXCEPT ![j] = u],
         UNCHANGED <<cancelled, saving, archive>>, readers' \subseteq Jobs
  PROVE  RunsKeep
BY DEF PipelineTypeOK, RunsKeep

LEMMA CallsKeep ==
  ASSUME PipelineTypeOK, NEW j \in Jobs,
         \/ \E request \in Requests : Call(j, request)
         \/ \E result \in {"cancelled", "failed"} : CallRefused(j, result)
  PROVE  RunsKeep
<1>1. run[j] \in Run
  BY DEF PipelineTypeOK
<1>2. ASSUME NEW request \in Requests, Call(j, request)
      PROVE  RunsKeep
  <2> DEFINE r == [run[j] EXCEPT !.at = "prepare", !.request = request]
             u == Update(r, "preparing", 0, 0)
  <2>1. r \in Run
    BY <1>1 DEF Run, Points
  <2>2. run' = [run EXCEPT ![j] = u]
    BY <1>2 DEF Call
  <2> HIDE DEF r
  <2>3. u \in Run
    BY <2>1, UpdateFacts DEF Stages
  <2>4. UNCHANGED <<cancelled, readers, saving, archive>>
    BY <1>2 DEF Call
  <2> HIDE DEF u
  <2> QED BY <2>2, <2>3, <2>4, OneRunKeeps DEF PipelineTypeOK
<1>3. ASSUME NEW result \in {"cancelled", "failed"}, CallRefused(j, result)
      PROVE  RunsKeep
  <2> DEFINE u == [run[j] EXCEPT !.at = "done", !.result = result]
  <2>1. u \in Run
    BY <1>1 DEF Run, Points, Results
  <2>2. run' = [run EXCEPT ![j] = u]
    BY <1>3 DEF CallRefused
  <2>3. UNCHANGED <<cancelled, readers, saving, archive>>
    BY <1>3 DEF CallRefused
  <2> HIDE DEF u
  <2> QED BY <2>1, <2>2, <2>3, OneRunKeeps DEF PipelineTypeOK
<1> QED BY <1>2, <1>3

\* A run that ends, whatever the outcome.
LEMMA EndingsKeep ==
  ASSUME PipelineTypeOK, NEW j \in Jobs,
         Stopped(j) \/ TranscodeReturns(j, FALSE) \/ EngineFails(j) \/ SaveReturns(j)
  PROVE  RunsKeep
<1>1. run[j] \in Run
  BY DEF PipelineTypeOK
<1>2. PICK result \in {"ok", "cancelled", "failed"} : run' = [run EXCEPT ![j] = Ended(run[j], result)]
  BY DEF Stopped, TranscodeReturns, EngineFails, SaveReturns
<1>3. Ended(run[j], result) \in Run
  BY <1>1, EndedFacts
<1>4. UNCHANGED <<cancelled, readers, saving, archive>>
  BY DEF Stopped, TranscodeReturns, EngineFails, SaveReturns
<1> QED BY <1>2, <1>3, <1>4, OneRunKeeps DEF PipelineTypeOK

LEMMA GoingOnKeeps ==
  ASSUME PipelineTypeOK, NEW j \in Jobs,
         \/ TranscodeReturns(j, TRUE)
         \/ \E seconds \in Nat : Callback(j, seconds)
         \/ EngineReturns(j)
         \/ \E outcome \in {"completed", "failed"} : DiarizerReturns(j, outcome)
         \/ \E optimized \in BOOLEAN : EnhancerReturns(j, optimized)
         \/ EnhancerIsUnavailable(j)
  PROVE  RunsKeep
<1> DEFINE r == run[j]
<1>1. r \in Run /\ readers \subseteq Jobs
  BY DEF PipelineTypeOK
<1>2. ASSUME NEW u, Advances(r, u), run' = [run EXCEPT ![j] = u],
             UNCHANGED <<cancelled, saving, archive>>, readers' \subseteq Jobs
      PROVE  RunsKeep
  BY <1>2, OneRunKeeps DEF Advances
<1>3. CASE TranscodeReturns(j, TRUE)
  <2> DEFINE u == Update(Update(r, "preparing", 5, 0), "transcribing", 5, 0)
             v == [u EXCEPT !.at = "engine"]
  <2>1. Advances(r, u)
    BY <1>1, TwoUpdates DEF Stages
  <2>2. run' = [run EXCEPT ![j] = v]
    BY <1>3 DEF TranscodeReturns
  <2> HIDE DEF u
  <2>3. "engine" \in Points
    BY DEF Points
  <2>4. Advances(r, v)
    BY <1>1, <2>1, <2>3, MovesOn
  <2> HIDE DEF v
  <2>5. readers' \subseteq Jobs /\ UNCHANGED <<cancelled, saving, archive>>
    BY <1>1, <1>3 DEF TranscodeReturns
  <2> QED BY <1>2, <2>2, <2>4, <2>5
<1>4. ASSUME NEW seconds \in Nat, Callback(j, seconds)
      PROVE  RunsKeep
  <2> DEFINE percent == IF r.request.timed THEN OverallAt(seconds) ELSE 5
             u == Update(r, "transcribing", percent, seconds)
  <2>1. percent \in Nat
    BY OverallAtIsNat
  <2>2. run' = [run EXCEPT ![j] = u]
    BY <1>4 DEF Callback
  <2> HIDE DEF percent
  <2>3. Advances(r, u)
    <3>1. "transcribing" \in Stages /\ "transcribing" # "completed"
      BY DEF Stages
    <3> QED BY <1>1, <2>1, <3>1, UpdateFacts
  <2> HIDE DEF u
  <2>4. UNCHANGED <<cancelled, readers, saving, archive>>
    BY <1>4 DEF Callback
  <2> QED BY <1>1, <1>2, <2>2, <2>3, <2>4
<1>5. CASE EngineReturns(j)
  BY <1>1, <1>2, <1>5, AfterSpeechFacts DEF EngineReturns
<1>6. ASSUME NEW outcome \in {"completed", "failed"}, DiarizerReturns(j, outcome)
      PROVE  RunsKeep
  BY <1>1, <1>2, <1>6, AfterDiarizationFacts DEF DiarizerReturns
<1>7. ASSUME NEW optimized \in BOOLEAN, EnhancerReturns(j, optimized)
      PROVE  RunsKeep
  <2> DEFINE u == [r EXCEPT !.optimized = optimized]
  <2>1. Advances(r, u)
    BY <1>1, AdvancesItself, NotesText
  <2>2. run' = [run EXCEPT ![j] = AfterAi(u)]
    BY <1>7 DEF EnhancerReturns
  <2> HIDE DEF u
  <2>3. u \in Run
    BY <2>1 DEF Advances
  <2>4. Advances(u, AfterAi(u))
    BY <2>3, AfterAiFacts
  <2>5. Advances(r, AfterAi(u))
    BY <1>1, <2>1, <2>3, <2>4, AdvancesIsTransitive DEF Advances
  <2> QED BY <1>1, <1>2, <1>7, <2>2, <2>5 DEF EnhancerReturns
<1>8. CASE EnhancerIsUnavailable(j)
  <2>1. CASE r.enhancer < Enhancers
    <3>1. r.enhancer + 1 \in 0..Enhancers
      BY <1>1, <2>1, EnhancersAssumption DEF Run
    <3> DEFINE u == [r EXCEPT !.enhancer = r.enhancer + 1]
    <3>2. Advances(r, u)
      BY <1>1, <3>1, AdvancesItself, EnhancerChanges
    <3>3. run' = [run EXCEPT ![j] = u]
      BY <1>8, <2>1 DEF EnhancerIsUnavailable
    <3> HIDE DEF u
    <3> QED BY <1>1, <1>2, <1>8, <3>2, <3>3 DEF EnhancerIsUnavailable
  <2>2. CASE ~ (r.enhancer < Enhancers)
    <3>1. Advances(r, AfterAi(r))
      BY <1>1, AfterAiFacts
    <3>2. run' = [run EXCEPT ![j] = AfterAi(r)]
      BY <1>8, <2>2 DEF EnhancerIsUnavailable
    <3> QED BY <1>1, <1>2, <1>8, <3>1, <3>2 DEF EnhancerIsUnavailable
  <2> QED BY <2>1, <2>2
<1> QED BY <1>3, <1>4, <1>5, <1>6, <1>7, <1>8

LEMMA SavesKeep ==
  ASSUME PipelineTypeOK, NEW j \in Jobs,
         SaveBegins(j) \/ ReadersEnd(j) \/ \E outcome \in {"ok", "failed"} : Commit(j, outcome)
  PROVE  RunsKeep
<1>1. run[j] \in Run
  BY DEF PipelineTypeOK
<1>2. CASE SaveBegins(j) \/ ReadersEnd(j)
  BY <1>1, <1>2 DEF SaveBegins, ReadersEnd, PipelineTypeOK, RunsKeep, Run, Points
<1>3. ASSUME NEW outcome \in {"ok", "failed"}, Commit(j, outcome)
      PROVE  RunsKeep
  <2> DEFINE saved == [speakers |-> run[j].speakers, optimized |-> run[j].optimized]
  <2>1. saved \in Artifact /\ saved.speakers # NoArtifact.speakers
    BY <1>1 DEF Run, Artifact, NoArtifact
  <2>2. archive' = archive \/ archive' = [archive EXCEPT ![j] = saved]
    BY <1>3 DEF Commit
  <2> HIDE DEF saved
  <2>3. archive' \in [Jobs -> Artifact \cup {NoArtifact}]
    BY <2>1, <2>2 DEF PipelineTypeOK
  <2>4. \A i \in Jobs : archive[i] # NoArtifact => archive'[i] # NoArtifact
    BY <2>1, <2>2 DEF PipelineTypeOK
  <2>5. UNCHANGED <<run, cancelled, readers>> /\ saving' = [saving EXCEPT ![j] = outcome]
    BY <1>3 DEF Commit
  <2> QED BY <2>3, <2>4, <2>5 DEF PipelineTypeOK, RunsKeep
<1> QED BY <1>2, <1>3

LEMMA PipelineStepsKeep ==
  ASSUME PipelineTypeOK, NEW j \in Jobs, PipelineStep(j)
  PROVE  RunsKeep
<1>1. CASE \E seconds \in 1..(Total + 1) : Callback(j, seconds)
  <2>1. \A seconds \in 1..(Total + 1) : seconds \in Nat
    BY TotalAssumption
  <2> QED BY <1>1, <2>1, GoingOnKeeps
<1>2. CASE \E success \in BOOLEAN : TranscodeReturns(j, success)
  <2>1. TranscodeReturns(j, TRUE) \/ TranscodeReturns(j, FALSE)
    BY <1>2
  <2> QED BY <2>1, GoingOnKeeps, EndingsKeep
<1>3. CASE \/ EngineReturns(j) \/ EnhancerIsUnavailable(j)
           \/ \E outcome \in {"completed", "failed"} : DiarizerReturns(j, outcome)
           \/ \E optimized \in BOOLEAN : EnhancerReturns(j, optimized)
  BY <1>3, GoingOnKeeps
<1>4. CASE Stopped(j) \/ EngineFails(j) \/ SaveReturns(j)
  BY <1>4, EndingsKeep
<1>5. CASE \/ SaveBegins(j) \/ ReadersEnd(j)
           \/ \E outcome \in {"ok", "failed"} : Commit(j, outcome)
  BY <1>5, SavesKeep
<1> QED BY <1>1, <1>2, <1>3, <1>4, <1>5 DEF PipelineStep, Waits
-----------------------------------------------------------------------------
\* The table after a step that lets nobody in and nobody out.
LEMMA SameTable ==
  ASSUME TableFits, \A j \in Jobs : status'[j] = "absent" <=> status[j] = "absent"
  PROVE  TableFits'
<1>1. Present' = Present
  BY DEF Present
<1> QED BY <1>1 DEF TableFits

LEMMA RoomFits ==
  ASSUME TypeOK, TableFits, NEW j \in Jobs, status[j] = "absent", RoomFor(j)
  PROVE  /\ TableFits'
         /\ status' \in [Jobs -> {"absent", "uploading", "queued", "running"} \cup Terminal]
         /\ status'[j] = "uploading"
         /\ \A i \in Jobs \ {j} : status'[i] = status[i] \/ (status[i] \in Terminal /\ status'[i] = "absent")
<1>1. status \in [Jobs -> {"absent", "uploading", "queued", "running"} \cup Terminal] /\ "absent" \notin Terminal
  BY DEF TypeOK, Terminal
<1>2. /\ IsFiniteSet(Present) /\ Cardinality(Present) \in Nat /\ Cardinality(Present) <= MaxJobs
      /\ MaxJobs \in Nat /\ j \notin Present
  BY FS_CardinalityType, MaxJobsAssumption DEF TableFits, Present
<1>3. CASE Cardinality(Present) < MaxJobs /\ status' = [status EXCEPT ![j] = "uploading"]
  <2>1. Present' = Present \cup {j}
    BY <1>1, <1>3 DEF Present
  <2>2. IsFiniteSet(Present') /\ Cardinality(Present') = Cardinality(Present) + 1
    BY <1>2, <2>1, FS_AddElement
  <2>3. TableFits'
    BY <1>2, <1>3, <2>2 DEF TableFits
  <2>4. status' \in [Jobs -> {"absent", "uploading", "queued", "running"} \cup Terminal]
    BY <1>1, <1>3
  <2>5. status'[j] = "uploading" /\ \A i \in Jobs \ {j} : status'[i] = status[i]
    BY <1>1, <1>3
  <2> QED BY <2>3, <2>4, <2>5
<1>4. ASSUME NEW old \in Present, status[old] \in Terminal,
             status' = [status EXCEPT ![j] = "uploading", ![old] = "absent"]
      PROVE  /\ TableFits'
             /\ status' \in [Jobs -> {"absent", "uploading", "queued", "running"} \cup Terminal]
             /\ status'[j] = "uploading"
             /\ \A i \in Jobs \ {j} : status'[i] = status[i] \/ (status[i] \in Terminal /\ status'[i] = "absent")
  <2>1. old \in Jobs /\ old # j
    BY <1>2 DEF Present
  <2>2. \A i \in Jobs : status'[i] = IF i = j THEN "uploading" ELSE IF i = old THEN "absent" ELSE status[i]
    BY <1>1, <1>4, <2>1
  <2>3. Present' = (Present \ {old}) \cup {j}
    BY <1>1, <2>1, <2>2 DEF Present
  <2>4. IsFiniteSet(Present \ {old}) /\ Cardinality(Present \ {old}) = Cardinality(Present) - 1
    BY <1>2, FS_RemoveElement
  <2>5. IsFiniteSet(Present') /\ Cardinality(Present') = Cardinality(Present)
    <3>1. j \notin Present \ {old}
      BY <1>2
    <3>2. IsFiniteSet(Present') /\ Cardinality(Present') = Cardinality(Present \ {old}) + 1
      BY <2>3, <2>4, <3>1, FS_AddElement
    <3> QED BY <1>2, <2>4, <3>2
  <2>6. status' \in [Jobs -> {"absent", "uploading", "queued", "running"} \cup Terminal]
    BY <1>1, <1>4
  <2>7. TableFits'
    BY <1>2, <2>5 DEF TableFits
  <2>8. status'[j] = "uploading"
    BY <2>2
  <2>9. \A i \in Jobs \ {j} : status'[i] = status[i] \/ (status[i] \in Terminal /\ status'[i] = "absent")
    BY <1>4, <2>2
  <2> QED BY <2>6, <2>7, <2>8, <2>9
<1> QED BY <1>3, <1>4 DEF RoomFor

LEMMA EmptyTable ==
  ASSUME \A j \in Jobs : status'[j] = "absent"
  PROVE  TableFits'
<1>1. Present' = {}
  BY DEF Present
<1> QED BY <1>1, FS_EmptySet, MaxJobsAssumption DEF TableFits

LEMMA FreeIsNoClient == Free \notin Clients /\ Desktop \notin Jobs /\ Free \notin Jobs
BY ClientsAssumption DEF Clients

LEMMA TableInitInv == Init => TableInv
<1> SUFFICES ASSUME Init PROVE TableInv
  OBVIOUS
<1>1. PipelineTypeOK
  BY PipelineInitInv DEF Init, PipelineInv
<1>2. TypeOK
  <2>1. holder = Free /\ waiters \in Seq(Jobs \cup {Desktop})
    BY EmptySeq DEF Init, GateInit
  <2>2. 0 \in 0..MaxServers
    BY MaxServersAssumption
  <2>3. servers \in 0..MaxServers
    BY <2>2 DEF Init
  <2>4. /\ slot \in BOOLEAN /\ stop \in BOOLEAN /\ server = "off" /\ completed \subseteq Jobs
        /\ status \in [Jobs -> {"absent", "uploading", "queued", "running"} \cup Terminal]
        /\ handler \in [Jobs -> {"none", "receiving", "flushing"}]
        /\ task \in [Jobs -> {"none", "done"} \cup Busy]
    BY DEF Init
  <2> QED BY <1>1, <2>1, <2>3, <2>4 DEF TypeOK
<1>3. \A j \in Jobs : JobAgrees(j)
  BY FreeIsNoClient DEF Init, GateInit, JobAgrees, Holding
<1>4. QueueAgrees
  BY EmptySeq DEF Init, GateInit, QueueAgrees, Orderly
<1>5. ServerAgrees
  BY DEF Init, ServerAgrees, Busy
<1>6. TableFits
  <2>1. Present = {}
    BY DEF Init, Present
  <2> QED BY <2>1, FS_EmptySet, MaxJobsAssumption DEF TableFits
<1> QED BY <1>2, <1>3, <1>4, <1>5, <1>6 DEF TableInv

\* A step of one job that leaves the gate to its holder: what the other jobs
\* agree on stays as it is.
LEMMA OneJobSteps ==
  ASSUME TableInv, NEW j \in Jobs, TypeOK', JobAgrees(j)', ServerAgrees', TableFits',
         UNCHANGED gateVars, RunsKeep,
         \A i \in Jobs \ {j} :
           /\ handler'[i] = handler[i] /\ task'[i] = task[i]
           /\ status'[i] = status[i]
           /\ i \in completed' <=> i \in completed,
         task[j] = "waiting" => holder = j \/ task'[j] = "waiting"
  PROVE  TableInv'
<1>1. ASSUME NEW i \in Jobs, i # j
      PROVE  JobAgrees(i)'
  <2>1. JobAgrees(i) /\ (archive[i] # NoArtifact => archive'[i] # NoArtifact) /\ holder' = holder
    BY DEF TableInv, RunsKeep, gateVars
  <2> QED BY <1>1, <2>1 DEF JobAgrees
<1>2. QueueAgrees'
  <2>1. QueueAgrees /\ waiters' = waiters /\ holder' = holder
    BY DEF TableInv, gateVars
  <2>2. ASSUME NEW i \in 1..Len(waiters), waiters[i] \in Jobs
        PROVE  task'[waiters[i]] = "waiting"
    BY <2>1, <2>2 DEF QueueAgrees, Orderly
  <2> QED BY <2>1, <2>2 DEF QueueAgrees
<1> QED BY <1>1, <1>2 DEF TableInv

\* The request that uploads a job's audio.
LEMMA HandlerKeepsInv ==
  ASSUME TableInv, NEW j \in Jobs,
         BodyComplete(j) \/ UploadFails(j) \/ UploadDone(j) \/ HandlerDropped(j)
  PROVE  TableInv'
<1>1. /\ UNCHANGED <<pipelineVars, gateVars, serverVars, completed>>
      /\ handler[j] # "none"
  BY DEF BodyComplete, UploadFails, UploadDone, HandlerDropped
<1>2. TypeOK /\ JobAgrees(j) /\ ServerAgrees /\ TableFits
  BY DEF TableInv
<1>3. /\ status[j] = "uploading" /\ task[j] = "none"
      /\ server \notin {"draining", "ended", "off"}
  BY <1>1, <1>2 DEF JobAgrees, ServerAgrees
<1>4. RunsKeep
  BY <1>1, <1>2 DEF TypeOK, PipelineTypeOK, RunsKeep, pipelineVars
<1>5. /\ handler' \in [Jobs -> {"none", "receiving", "flushing"}]
      /\ status' \in [Jobs -> {"absent", "uploading", "queued", "running"} \cup Terminal]
      /\ task' \in [Jobs -> {"none", "done"} \cup Busy]
  BY <1>2 DEF BodyComplete, UploadFails, UploadDone, HandlerDropped, TypeOK, Terminal, Busy
<1>6. TypeOK'
  BY <1>1, <1>2, <1>4, <1>5 DEF TypeOK, RunsKeep, gateVars, serverVars
<1>7. \A i \in Jobs \ {j} : handler'[i] = handler[i] /\ task'[i] = task[i] /\ status'[i] = status[i]
  BY <1>2 DEF BodyComplete, UploadFails, UploadDone, HandlerDropped, TypeOK
<1>8. \/ handler'[j] \in {"none", "flushing"} /\ status'[j] = "uploading" /\ task'[j] = "none"
      \/ handler'[j] = "none" /\ status'[j] \in {"failed", "cancelled"} /\ task'[j] = "none"
      \/ handler'[j] = "none" /\ status'[j] = "queued" /\ task'[j] = "gate"
  BY <1>2, <1>3 DEF BodyComplete, UploadFails, UploadDone, HandlerDropped, TypeOK
<1>9. JobAgrees(j)'
  <2>1. holder' = holder /\ completed' = completed /\ holder # j /\ j \notin completed
    BY <1>1, <1>2, <1>3 DEF JobAgrees, gateVars, Holding
  <2> QED BY <1>8, <2>1 DEF JobAgrees, Holding
<1>10. ServerAgrees'
  BY <1>1, <1>2, <1>3 DEF ServerAgrees, serverVars
<1>11. TableFits'
  BY <1>2, <1>3, <1>7, <1>8, SameTable
<1> QED BY <1>1, <1>3, <1>4, <1>6, <1>7, <1>9, <1>10, <1>11, OneJobSteps

\* A new entry, when there is room or a job that has ended to give up.
LEMMA PutKeepsInv ==
  ASSUME TableInv, NEW j \in Jobs, Put(j)
  PROVE  TableInv'
<1>1. TypeOK /\ JobAgrees(j) /\ ServerAgrees /\ TableFits /\ QueueAgrees
  BY DEF TableInv
<1>2. /\ UNCHANGED <<gateVars, serverVars, readers, archive>>
      /\ server \in {"listening", "aborting"} /\ status[j] = "absent" /\ task[j] \notin Busy
      /\ RoomFor(j) /\ handler' = [handler EXCEPT ![j] = "receiving"]
      /\ task' = [task EXCEPT ![j] = "none"] /\ completed' = completed \ {j}
      /\ run' = [run EXCEPT ![j] = NotStarted] /\ saving' = [saving EXCEPT ![j] = "none"]
      /\ cancelled' \subseteq cancelled \cup {j}
  BY DEF Put
<1>3. /\ TableFits'
      /\ status' \in [Jobs -> {"absent", "uploading", "queued", "running"} \cup Terminal]
      /\ status'[j] = "uploading"
      /\ \A i \in Jobs \ {j} : status'[i] = status[i] \/ (status[i] \in Terminal /\ status'[i] = "absent")
  BY <1>1, <1>2, RoomFits
<1>4. PipelineTypeOK'
  <2>1. NotStarted \in Run
    BY EnhancersAssumption DEF NotStarted, Run, Points, Stages, Results
  <2> QED BY <1>1, <1>2, <2>1 DEF TypeOK, PipelineTypeOK
<1>5. TypeOK'
  BY <1>1, <1>2, <1>3, <1>4 DEF TypeOK, gateVars, serverVars
<1>6. JobAgrees(j)'
  <2>1. holder # j
    BY <1>1, <1>2 DEF JobAgrees, Holding, Busy
  <2>2. holder' = holder /\ task'[j] = "none" /\ j \notin completed'
    BY <1>1, <1>2 DEF TypeOK, gateVars
  <2> QED BY <1>3, <2>1, <2>2 DEF JobAgrees, Holding
<1>7. ASSUME NEW i \in Jobs, i # j
      PROVE  JobAgrees(i)'
  <2>1. JobAgrees(i)
    BY DEF TableInv
  <2>2. /\ holder' = holder /\ archive' = archive /\ handler'[i] = handler[i] /\ task'[i] = task[i]
        /\ i \in completed' <=> i \in completed
    BY <1>1, <1>2, <1>7 DEF TypeOK, gateVars
  <2>3. status'[i] = status[i] \/ (status[i] \in Terminal /\ status'[i] = "absent")
    BY <1>3, <1>7
  <2> QED BY <2>1, <2>2, <2>3 DEF JobAgrees, Terminal, Holding
<1>8. QueueAgrees'
  <2>1. waiters' = waiters /\ holder' = holder
    BY <1>2 DEF gateVars
  <2>2. ASSUME NEW i \in 1..Len(waiters), waiters[i] \in Jobs
        PROVE  task'[waiters[i]] = "waiting"
    <3>1. task[waiters[i]] = "waiting"
      BY <1>1, <2>2 DEF QueueAgrees
    <3>2. waiters[i] # j
      BY <1>2, <3>1 DEF Busy
    <3> QED BY <1>1, <1>2, <2>2, <3>1, <3>2 DEF TypeOK
  <2> QED BY <1>1, <2>1, <2>2 DEF QueueAgrees
<1>9. ServerAgrees'
  <2>1. slot' = slot /\ server' = server
    BY <1>2 DEF serverVars
  <2> QED BY <1>1, <1>2, <2>1 DEF ServerAgrees
<1> QED BY <1>3, <1>5, <1>6, <1>7, <1>8, <1>9 DEF TableInv
-----------------------------------------------------------------------------
\* The steps of a task between the gate and its end.
LEMMA WorkKeepsInv ==
  ASSUME TableInv, NEW j \in Jobs, PermitArrives(j) \/ CallPipeline(j) \/ RunEndsWell(j)
  PROVE  TableInv'
<1>1. TypeOK /\ JobAgrees(j) /\ ServerAgrees /\ TableFits /\ PipelineTypeOK
  BY DEF TableInv, TypeOK
<1>2. UNCHANGED <<gateVars, serverVars, handler, completed>>
  BY DEF PermitArrives, CallPipeline, RunEndsWell
<1>3. RunsKeep
  <2>1. CASE CallPipeline(j)
    BY <1>1, <2>1, CallsKeep DEF CallPipeline
  <2>2. CASE PermitArrives(j) \/ RunEndsWell(j)
    BY <1>1, <2>2 DEF PermitArrives, RunEndsWell, PipelineTypeOK, RunsKeep, pipelineVars
  <2> QED BY <2>1, <2>2
<1>4. /\ status' \in [Jobs -> {"absent", "uploading", "queued", "running"} \cup Terminal]
      /\ task' \in [Jobs -> {"none", "done"} \cup Busy]
  BY <1>1 DEF PermitArrives, CallPipeline, RunEndsWell, Told, TypeOK, Busy
<1>5. TypeOK'
  BY <1>1, <1>2, <1>3, <1>4 DEF TypeOK, RunsKeep, gateVars, serverVars
<1>6. \A i \in Jobs \ {j} : task'[i] = task[i] /\ status'[i] = status[i]
  BY <1>1 DEF PermitArrives, CallPipeline, RunEndsWell, Told, TypeOK
<1>7. \/ task[j] = "waiting" /\ holder = j /\ task'[j] = "building" /\ status'[j] = status[j]
      \/ task[j] = "building" /\ task'[j] = "running" /\ status'[j] = "running"
      \/ task[j] = "running" /\ task'[j] = "checking" /\ status'[j] = status[j]
  <2>1. CASE PermitArrives(j)
    BY <1>1, <2>1 DEF PermitArrives, Granted, TypeOK
  <2>2. CASE CallPipeline(j)
    <3>1. task[j] = "building" /\ status[j] = "queued"
      BY <1>1, <2>2 DEF CallPipeline, JobAgrees
    <3> QED BY <1>1, <2>2, <3>1 DEF CallPipeline, Told, TypeOK
  <2>3. CASE RunEndsWell(j)
    BY <1>1, <2>3 DEF RunEndsWell, TypeOK
  <2> QED BY <2>1, <2>2, <2>3
<1>8. JobAgrees(j)'
  <2>1. holder' = holder /\ handler' = handler /\ completed' = completed
    BY <1>2 DEF gateVars
  <2>2. handler[j] = "none" /\ status[j] \in {"queued", "running"} /\ j \notin completed
    BY <1>1, <1>7 DEF JobAgrees
  <2> QED BY <1>1, <1>7, <2>1, <2>2 DEF JobAgrees, Holding
<1>9. ServerAgrees'
  <2>1. slot' = slot /\ server' = server /\ handler' = handler
    BY <1>2 DEF serverVars
  <2>2. server \notin {"ended", "off"}
    BY <1>1, <1>7 DEF ServerAgrees, Busy
  <2> QED BY <1>1, <2>1, <2>2 DEF ServerAgrees
<1>10. TableFits'
  <2>1. status[j] # "absent" /\ status'[j] # "absent"
    BY <1>1, <1>7 DEF JobAgrees
  <2> QED BY <1>1, <1>6, <2>1, SameTable
<1> QED BY <1>2, <1>3, <1>5, <1>6, <1>7, <1>8, <1>9, <1>10, OneJobSteps

\* The task asks for the permit: it has it, or it is queued.
LEMMA BeginsKeepsInv ==
  ASSUME TableInv, NEW j \in Jobs, TaskBegins(j)
  PROVE  TableInv'
<1>1. TypeOK /\ JobAgrees(j) /\ ServerAgrees /\ TableFits /\ QueueAgrees
  BY DEF TableInv
<1>2. UNCHANGED <<pipelineVars, serverVars, status, handler, completed>> /\ task[j] = "gate"
  BY DEF TaskBegins
<1>3. /\ holder # j /\ j \in Clients /\ Free \notin Clients
      /\ \A i \in 1..Len(waiters) : waiters[i] # j
  BY <1>1, <1>2, FreeIsNoClient DEF JobAgrees, Holding, QueueAgrees, Clients
<1>4. PICK place \in {"building", "waiting"} :
        /\ task' = [task EXCEPT ![j] = place]
        /\ place = "building" => TryAcquire(j)
        /\ place = "waiting" => Wait(j)
  BY DEF TaskBegins
<1>5. /\ Orderly(Clients, waiters', holder')
      /\ \A i \in 1..Len(waiters') :
           \/ waiters'[i] = j /\ place = "waiting"
           \/ \E k \in 1..Len(waiters) : waiters'[i] = waiters[k]
      /\ place = "building" => holder' = j /\ holder = Free
      /\ place = "waiting" => holder' = holder
  <2>1. CASE TryAcquire(j) /\ place = "building"
    BY <1>1, <1>3, <2>1 DEF TryAcquire, QueueAgrees, Orderly
  <2>2. CASE Wait(j) /\ place = "waiting"
    BY <1>1, <1>3, <2>2, WaitFacts DEF QueueAgrees
  <2> QED BY <1>4, <2>1, <2>2
<1>6. TypeOK'
  <2>1. task' \in [Jobs -> {"none", "done"} \cup Busy]
    BY <1>1, <1>4 DEF TypeOK, Busy
  <2>2. holder' \in Jobs \cup {Desktop, Free} /\ waiters' \in Seq(Jobs \cup {Desktop})
    BY <1>1, <1>5 DEF TypeOK, Orderly, Clients
  <2>3. PipelineTypeOK'
    BY <1>1, <1>2 DEF TypeOK, PipelineTypeOK, pipelineVars
  <2> QED BY <1>1, <1>2, <2>1, <2>2, <2>3 DEF TypeOK, serverVars
<1>7. ASSUME NEW i \in Jobs
      PROVE  JobAgrees(i)'
  <2>1. JobAgrees(i) /\ i # Free
    BY FreeIsNoClient DEF TableInv
  <2>2. task'[i] = IF i = j THEN place ELSE task[i]
    BY <1>1, <1>4 DEF TypeOK
  <2>3. status' = status /\ handler' = handler /\ completed' = completed /\ archive' = archive
    BY <1>2 DEF pipelineVars
  <2>4. CASE i = j
    BY <1>2, <1>3, <1>5, <2>1, <2>2, <2>3, <2>4 DEF JobAgrees, Holding
  <2>5. CASE i # j
    BY <1>5, <2>1, <2>2, <2>3, <2>5 DEF JobAgrees, Holding
  <2> QED BY <2>4, <2>5
<1>8. QueueAgrees'
  <2>1. ASSUME NEW i \in 1..Len(waiters'), waiters'[i] \in Jobs
        PROVE  task'[waiters'[i]] = "waiting"
    <3>1. CASE waiters'[i] = j /\ place = "waiting"
      BY <1>1, <1>4, <3>1 DEF TypeOK
    <3>2. CASE \E k \in 1..Len(waiters) : waiters'[i] = waiters[k]
      <4>1. task[waiters'[i]] = "waiting" /\ waiters'[i] # j
        BY <1>1, <1>3, <2>1, <3>2 DEF QueueAgrees
      <4> QED BY <1>1, <1>4, <2>1, <4>1 DEF TypeOK
    <3> QED BY <1>5, <3>1, <3>2
  <2> QED BY <1>5, <2>1 DEF QueueAgrees
<1>9. ServerAgrees'
  <2>1. slot' = slot /\ server' = server /\ handler' = handler
    BY <1>2 DEF serverVars
  <2>2. server \notin {"ended", "off"}
    BY <1>1, <1>2 DEF ServerAgrees, Busy
  <2> QED BY <1>1, <2>1, <2>2 DEF ServerAgrees
<1>10. TableFits'
  BY <1>1, <1>2, SameTable
<1> QED BY <1>6, <1>7, <1>8, <1>9, <1>10 DEF TableInv

\* The steps that end a task, the check of the archive included.
LEMMA EndKeepsInv ==
  ASSUME TableInv, NEW j \in Jobs,
         CancelledAtGate(j) \/ BuildFails(j) \/ RunEndsWithout(j) \/ Verify(j)
  PROVE  TableInv'
<1>1. TypeOK /\ JobAgrees(j) /\ ServerAgrees /\ TableFits /\ QueueAgrees
  BY DEF TableInv
<1>2. /\ UNCHANGED <<pipelineVars, serverVars, handler>> /\ task' = [task EXCEPT ![j] = "done"]
      /\ task[j] \in {"gate", "waiting", "building", "running", "checking"}
  BY DEF CancelledAtGate, BuildFails, RunEndsWithout, Verify, Ends
<1>3. handler[j] = "none" /\ status[j] \in {"queued", "running"} /\ j \notin completed
  BY <1>1, <1>2 DEF JobAgrees
<1>4. GateMoves(Clients, j)
  <2>1. j \in Clients /\ Free \notin Clients /\ Orderly(Clients, waiters, holder)
    BY <1>1, FreeIsNoClient DEF QueueAgrees, Clients
  <2>2. holder \in Clients \cup {Free}
    BY <1>1 DEF TypeOK, Clients
  <2>3. Abandon(j) \/ Release(j)
    BY DEF CancelledAtGate, BuildFails, RunEndsWithout, Verify
  <2> QED BY <2>1, <2>2, <2>3, AbandonMovesGate, ReleaseMovesGate
<1>5. PICK outcome \in Terminal :
        /\ status' = [status EXCEPT ![j] = outcome]
        /\ outcome = "completed" => archive[j] # NoArtifact /\ completed' = completed \cup {j}
        /\ outcome # "completed" => completed' = completed
  <2>1. \A outcome : Told(j, outcome) => status' = [status EXCEPT ![j] = outcome]
    BY <1>1, <1>3 DEF Told, TypeOK
  <2>2. CASE CancelledAtGate(j) \/ BuildFails(j) \/ RunEndsWithout(j)
    <3>1. (Told(j, "failed") \/ Told(j, "cancelled")) /\ completed' = completed
      BY <2>2 DEF CancelledAtGate, BuildFails, RunEndsWithout
    <3> QED BY <2>1, <3>1 DEF Terminal
  <2>3. CASE Verify(j)
    <3>1. \/ (Told(j, "failed") \/ Told(j, "cancelled")) /\ completed' = completed
          \/ /\ Told(j, "completed") /\ archive[j] # NoArtifact
             /\ completed' = completed \cup {j}
      BY <2>3 DEF Verify
    <3> QED BY <2>1, <3>1 DEF Terminal
  <2> QED BY <2>2, <2>3
<1>6. TypeOK'
  <2>1. task' \in [Jobs -> {"none", "done"} \cup Busy]
    BY <1>1, <1>2 DEF TypeOK
  <2>2. holder' \in Jobs \cup {Desktop, Free} /\ waiters' \in Seq(Jobs \cup {Desktop})
    BY <1>4 DEF GateMoves, Orderly, Clients
  <2>3. PipelineTypeOK'
    BY <1>1, <1>2 DEF TypeOK, PipelineTypeOK, pipelineVars
  <2>4. status' \in [Jobs -> {"absent", "uploading", "queued", "running"} \cup Terminal]
    BY <1>1, <1>5 DEF TypeOK
  <2>5. completed' \subseteq Jobs
    BY <1>1, <1>5 DEF TypeOK
  <2> QED BY <1>1, <1>2, <2>1, <2>2, <2>3, <2>4, <2>5 DEF TypeOK, serverVars
<1>7. JobAgrees(j)'
  <2>1. /\ holder' # j /\ task'[j] = "done" /\ status'[j] = outcome
        /\ handler' = handler /\ archive' = archive
    BY <1>1, <1>2, <1>4, <1>5 DEF TypeOK, GateMoves, pipelineVars
  <2> QED BY <1>3, <1>5, <2>1 DEF JobAgrees, Holding, Terminal
<1>8. ASSUME NEW i \in Jobs, i # j
      PROVE  JobAgrees(i)'
  <2>1. JobAgrees(i) /\ i # Free
    BY FreeIsNoClient DEF TableInv
  <2>2. /\ task'[i] = task[i] /\ status'[i] = status[i] /\ handler' = handler /\ archive' = archive
        /\ i \in completed' <=> i \in completed
    BY <1>1, <1>2, <1>5, <1>8 DEF TypeOK, pipelineVars
  <2>3. task[i] \in Holding => holder' = i
    BY <1>4, <1>8, <2>1 DEF JobAgrees, GateMoves
  <2>4. holder' = i => task[i] \in Holding \cup {"waiting"}
    <3>1. CASE holder' = holder
      BY <2>1, <3>1 DEF JobAgrees
    <3>2. CASE holder' # holder /\ holder' = i
      <4>1. \E k \in 1..Len(waiters) : i = waiters[k]
        BY <1>4, <2>1, <3>2 DEF GateMoves
      <4> QED BY <1>1, <4>1 DEF QueueAgrees
    <3> QED BY <3>1, <3>2
  <2> QED BY <2>1, <2>2, <2>3, <2>4 DEF JobAgrees
<1>9. QueueAgrees'
  <2>1. ASSUME NEW i \in 1..Len(waiters'), waiters'[i] \in Jobs
        PROVE  task'[waiters'[i]] = "waiting"
    <3>1. PICK k \in 1..Len(waiters) : waiters'[i] = waiters[k]
      BY <1>4 DEF GateMoves, FromQueue
    <3>2. waiters'[i] # j
      BY <1>4 DEF GateMoves
    <3>3. task[waiters'[i]] = "waiting"
      BY <1>1, <2>1, <3>1 DEF QueueAgrees
    <3> QED BY <1>1, <1>2, <2>1, <3>2, <3>3 DEF TypeOK
  <2> QED BY <1>4, <2>1 DEF GateMoves, QueueAgrees
<1>10. ServerAgrees'
  <2>1. slot' = slot /\ server' = server /\ handler' = handler
    BY <1>2 DEF serverVars
  <2>2. server \notin {"ended", "off"}
    BY <1>1, <1>2 DEF ServerAgrees, Busy
  <2> QED BY <1>1, <2>1, <2>2 DEF ServerAgrees
<1>11. TableFits'
  <2>1. \A i \in Jobs : status'[i] = "absent" <=> status[i] = "absent"
    BY <1>1, <1>3, <1>5 DEF TypeOK, Terminal
  <2> QED BY <1>1, <2>1, SameTable
<1> QED BY <1>6, <1>7, <1>8, <1>9, <1>10, <1>11 DEF TableInv
-----------------------------------------------------------------------------
\* A step that leaves the table, the tasks and the gate as they are, and
\* takes nothing out of the archive.
LEMMA TableStays ==
  ASSUME TableInv, RunsKeep, UNCHANGED <<gateVars, tableVars>>, ServerAgrees',
         server' \in {"off", "listening", "aborting", "draining", "ended"},
         slot' \in BOOLEAN, stop' \in BOOLEAN, servers' \in 0..MaxServers
  PROVE  TableInv'
<1>1. TypeOK'
  BY DEF TableInv, TypeOK, RunsKeep, gateVars, tableVars
<1>2. \A j \in Jobs : JobAgrees(j)'
  BY DEF TableInv, JobAgrees, RunsKeep, gateVars, tableVars
<1>3. QueueAgrees'
  BY DEF TableInv, QueueAgrees, gateVars, tableVars
<1>4. TableFits'
  BY SameTable DEF TableInv, tableVars
<1> QED BY <1>1, <1>2, <1>3, <1>4 DEF TableInv

\* The pipeline's steps and the tokens that are cancelled.
LEMMA RunKeepsInv ==
  ASSUME TableInv, NEW j \in Jobs, RunStep(j) \/ Delete(j)
  PROVE  TableInv'
<1>1. TypeOK /\ PipelineTypeOK /\ ServerAgrees
  BY DEF TableInv, TypeOK
<1>2. UNCHANGED <<gateVars, tableVars, serverVars>>
  BY DEF RunStep, Delete
<1>3. RunsKeep
  <2>1. CASE RunStep(j)
    BY <1>1, <2>1, PipelineStepsKeep DEF RunStep
  <2>2. CASE Delete(j)
    BY <1>1, <2>2 DEF Delete, RequestCancel, PipelineTypeOK, RunsKeep
  <2> QED BY <2>1, <2>2
<1>4. ServerAgrees'
  BY <1>1, <1>2 DEF ServerAgrees, tableVars, serverVars
<1> QED BY <1>1, <1>2, <1>3, <1>4, TableStays DEF TypeOK, serverVars

\* The accept loop on its way down.
LEMMA ServerKeepsInv ==
  ASSUME TableInv, StopServer \/ LoopBreaks \/ Drain \/ LoopEnds
  PROVE  TableInv'
<1>1. TypeOK /\ PipelineTypeOK /\ ServerAgrees
  BY DEF TableInv, TypeOK
<1>2. UNCHANGED <<gateVars, tableVars, slot, servers>>
  BY DEF StopServer, LoopBreaks, Drain, LoopEnds
<1>3. RunsKeep
  <2>1. /\ UNCHANGED <<run, readers, saving, archive>>
        /\ cancelled' = cancelled \/ cancelled' = cancelled \cup Present
    BY DEF StopServer, LoopBreaks, Drain, LoopEnds, pipelineVars
  <2> QED BY <1>1, <2>1 DEF PipelineTypeOK, RunsKeep, Present
<1>4. /\ server' \in {"off", "listening", "aborting", "draining", "ended"} /\ stop' \in BOOLEAN
      /\ slot' \in BOOLEAN /\ servers' \in 0..MaxServers
  BY <1>1, <1>2 DEF StopServer, LoopBreaks, Drain, LoopEnds, TypeOK
<1>5. ServerAgrees'
  BY <1>1, <1>2 DEF StopServer, LoopBreaks, Drain, LoopEnds, ServerAgrees, tableVars
<1> QED BY <1>2, <1>3, <1>4, <1>5, TableStays

\* The table goes with the server, and the next one has an empty one.
LEMMA StopReturnsKeepsInv ==
  ASSUME TableInv, StopReturns
  PROVE  TableInv'
<1>1. TypeOK /\ ServerAgrees /\ QueueAgrees
  BY DEF TableInv
<1>2. /\ server = "ended" /\ server' = "off" /\ slot' = FALSE
      /\ status' = [j \in Jobs |-> "absent"]
      /\ UNCHANGED <<pipelineVars, gateVars, handler, task, completed, servers, stop>>
  BY DEF StopReturns
<1>3. PipelineTypeOK'
  BY <1>1, <1>2 DEF TypeOK, PipelineTypeOK, pipelineVars
<1>4. TypeOK'
  BY <1>1, <1>2, <1>3 DEF TypeOK, gateVars
<1>5. ASSUME NEW j \in Jobs
      PROVE  JobAgrees(j)'
  <2>1. JobAgrees(j) /\ task[j] \notin Busy /\ handler[j] = "none"
    BY <1>1, <1>2 DEF TableInv, ServerAgrees
  <2> QED BY <1>2, <2>1 DEF JobAgrees, gateVars, Holding, Busy
<1>6. QueueAgrees'
  BY <1>1, <1>2 DEF QueueAgrees, gateVars
<1>7. ServerAgrees'
  BY <1>1, <1>2 DEF ServerAgrees
<1>8. TableFits'
  BY <1>2, EmptyTable
<1> QED BY <1>4, <1>5, <1>6, <1>7, <1>8 DEF TableInv

LEMMA StartServerKeepsInv ==
  ASSUME TableInv, StartServer
  PROVE  TableInv'
<1>1. TypeOK /\ ServerAgrees /\ QueueAgrees
  BY DEF TableInv
<1>2. /\ ~slot /\ servers < MaxServers /\ slot' = TRUE /\ servers' = servers + 1
      /\ server' = "listening" /\ stop' = FALSE
      /\ status' = [j \in Jobs |-> "absent"] /\ task' = [j \in Jobs |-> "none"]
      /\ run' = [j \in Jobs |-> NotStarted] /\ saving' = [j \in Jobs |-> "none"]
      /\ cancelled' = {} /\ completed' = {}
      /\ UNCHANGED <<gateVars, handler, readers, archive>>
  BY DEF StartServer
<1>3. server = "off" /\ \A j \in Jobs : handler[j] = "none" /\ task[j] \notin Busy
  BY <1>1, <1>2 DEF ServerAgrees
<1>4. PipelineTypeOK'
  <2>1. NotStarted \in Run
    BY EnhancersAssumption DEF NotStarted, Run, Points, Stages, Results
  <2> QED BY <1>1, <1>2, <2>1 DEF TypeOK, PipelineTypeOK
<1>5. TypeOK'
  <2>1. servers' \in 0..MaxServers
    BY <1>1, <1>2, MaxServersAssumption DEF TypeOK
  <2> QED BY <1>1, <1>2, <1>4, <2>1 DEF TypeOK, gateVars
<1>6. ASSUME NEW j \in Jobs
      PROVE  JobAgrees(j)'
  <2>1. JobAgrees(j) /\ task[j] \notin Busy /\ handler[j] = "none"
    BY <1>3 DEF TableInv
  <2> QED BY <1>2, <2>1 DEF JobAgrees, gateVars, Holding, Busy
<1>7. QueueAgrees'
  <2>1. \A i \in 1..Len(waiters) : waiters[i] \notin Jobs
    BY <1>1, <1>3 DEF QueueAgrees, Busy
  <2> QED BY <1>1, <1>2, <2>1 DEF QueueAgrees, gateVars
<1>8. ServerAgrees'
  BY <1>2 DEF ServerAgrees
<1>9. TableFits'
  BY <1>2, EmptyTable
<1> QED BY <1>5, <1>6, <1>7, <1>8, <1>9 DEF TableInv

\* The desktop's jobs come to the gate and leave it.
LEMMA DesktopKeepsInv ==
  ASSUME TableInv, DesktopWants \/ DesktopLeaves
  PROVE  TableInv'
<1>1. TypeOK /\ ServerAgrees /\ TableFits /\ QueueAgrees
  BY DEF TableInv
<1>2. UNCHANGED <<pipelineVars, tableVars, serverVars>>
  BY DEF DesktopWants, DesktopLeaves
<1>3. /\ Desktop \in Clients /\ Desktop \notin Jobs /\ Free \notin Clients
      /\ Orderly(Clients, waiters, holder) /\ holder \in Clients \cup {Free}
  BY <1>1, FreeIsNoClient DEF Clients, QueueAgrees, TypeOK
<1>4. /\ Orderly(Clients, waiters', holder') /\ holder' \in Clients \cup {Free}
      /\ \A i \in 1..Len(waiters') :
           waiters'[i] = Desktop \/ \E k \in 1..Len(waiters) : waiters'[i] = waiters[k]
      /\ holder' # holder =>
           /\ holder \notin Jobs
           /\ holder' \in Jobs => \E k \in 1..Len(waiters) : holder' = waiters[k]
  <2>1. CASE DesktopLeaves
    <3>1. GateMoves(Clients, Desktop)
      BY <1>3, <2>1, ReleaseMovesGate DEF DesktopLeaves
    <3> QED BY <1>3, <3>1, FreeIsNoClient DEF GateMoves, FromQueue
  <2>2. CASE DesktopWants
    <3>1. holder # Desktop /\ \A i \in 1..Len(waiters) : waiters[i] # Desktop
      <4>1. DOMAIN waiters = 1..Len(waiters)
        BY <1>3, LenProperties DEF Orderly
      <4> QED BY <2>2, <4>1 DEF DesktopWants, Granted, ToSet
    <3>2. CASE TryAcquire(Desktop)
      BY <1>3, <3>1, <3>2, FreeIsNoClient DEF TryAcquire, Orderly
    <3>3. CASE Wait(Desktop)
      BY <1>3, <3>1, <3>3, WaitFacts
    <3> QED BY <2>2, <3>2, <3>3 DEF DesktopWants, Acquire
  <2> QED BY <2>1, <2>2
<1>5. TypeOK'
  <2>1. holder' \in Jobs \cup {Desktop, Free} /\ waiters' \in Seq(Jobs \cup {Desktop})
    BY <1>4 DEF Orderly, Clients
  <2>2. PipelineTypeOK'
    BY <1>1, <1>2 DEF TypeOK, PipelineTypeOK, pipelineVars
  <2> QED BY <1>1, <1>2, <2>1, <2>2 DEF TypeOK, tableVars, serverVars
<1>6. ASSUME NEW i \in Jobs
      PROVE  JobAgrees(i)'
  <2>1. JobAgrees(i)
    BY DEF TableInv
  <2>2. task[i] \in Holding => holder' = i
    BY <1>4, <2>1 DEF JobAgrees
  <2>3. holder' = i => task[i] \in Holding \cup {"waiting"}
    <3>1. CASE holder' = holder
      BY <2>1, <3>1 DEF JobAgrees
    <3>2. CASE holder' # holder
      BY <1>1, <1>4, <3>2 DEF QueueAgrees
    <3> QED BY <3>1, <3>2
  <2> QED BY <1>2, <2>1, <2>2, <2>3 DEF JobAgrees, tableVars, pipelineVars
<1>7. QueueAgrees'
  <2>1. \A i \in 1..Len(waiters') : waiters'[i] \in Jobs => task'[waiters'[i]] = "waiting"
    BY <1>1, <1>2, <1>3, <1>4 DEF QueueAgrees, tableVars
  <2> QED BY <1>4, <2>1 DEF QueueAgrees
<1>8. ServerAgrees' /\ TableFits'
  <2>1. ServerAgrees'
    BY <1>1, <1>2 DEF ServerAgrees, tableVars, serverVars
  <2>2. TableFits'
    BY <1>1, <1>2, SameTable DEF tableVars
  <2> QED BY <2>1, <2>2
<1> QED BY <1>5, <1>6, <1>7, <1>8 DEF TableInv

LEMMA TableNextKeepsInv ==
  ASSUME TableInv, [Next]_vars
  PROVE  TableInv'
<1>1. ASSUME NEW j \in Jobs, Put(j) \/ Delete(j) \/ RunStep(j)
      PROVE  TableInv'
  BY <1>1, PutKeepsInv, RunKeepsInv
<1>2. ASSUME NEW j \in Jobs, BodyComplete(j) \/ UploadFails(j) \/ UploadDone(j) \/ HandlerDropped(j)
      PROVE  TableInv'
  BY <1>2, HandlerKeepsInv
<1>3. ASSUME NEW j \in Jobs, TaskStep(j)
      PROVE  TableInv'
  BY <1>3, BeginsKeepsInv, EndKeepsInv, WorkKeepsInv DEF TaskStep
<1>4. CASE StartServer \/ StopServer \/ LoopBreaks \/ ServerStep \/ DesktopWants \/ DesktopLeaves
  BY <1>4, StartServerKeepsInv, ServerKeepsInv, StopReturnsKeepsInv, DesktopKeepsInv DEF ServerStep
<1>5. CASE UNCHANGED vars
  <2>1. TypeOK /\ ServerAgrees /\ PipelineTypeOK
    BY DEF TableInv, TypeOK
  <2>2. RunsKeep
    BY <1>5, <2>1 DEF vars, pipelineVars, PipelineTypeOK, RunsKeep
  <2>3. UNCHANGED <<gateVars, tableVars, serverVars>>
    BY <1>5 DEF vars
  <2>4. ServerAgrees'
    BY <2>1, <2>3 DEF ServerAgrees, tableVars, serverVars
  <2> QED BY <2>1, <2>2, <2>3, <2>4, TableStays DEF TypeOK, serverVars
<1> QED BY <1>1, <1>2, <1>3, <1>4, <1>5 DEF Next

\* The invariant holds of every behaviour of the companion server's jobs.
THEOREM TableInvariant == Spec => []TableInv
<1>1. Init => TableInv
  BY TableInitInv
<1>2. TableInv /\ [Next]_vars => TableInv'
  BY TableNextKeepsInv
<1> QED BY <1>1, <1>2, PTL DEF Spec

\* What a phone reads in the table is true (the table of ServerState, the
\* request that fills an entry, the task that updates it, the accept loop
\* that ends): at most MAX_JOBS jobs, every task's job among them and not
\* ended, "completed" only for a transcript in the archive that was handed to
\* the window, and nothing under way once the accept loop has ended.
THEOREM PhonesReadTheTruth == Spec => []TableIsTrue
<1>1. TableInv => TableIsTrue
  <2> SUFFICES ASSUME TableInv PROVE TableIsTrue
    OBVIOUS
  <2>1. \A j \in Jobs : JobAgrees(j)
    BY DEF TableInv
  <2>2. TableCoversTasks
    BY <2>1 DEF TableInv, TableFits, TableCoversTasks, JobAgrees, Busy, Terminal
  <2>3. CompletedIsArchived
    BY <2>1 DEF CompletedIsArchived, JobAgrees
  <2>4. EndedLeavesNothing
    <3>1. ServerAgrees
      BY DEF TableInv
    <3>2. ASSUME server \in {"ended", "off"}, holder \in Jobs
          PROVE  FALSE
      BY <2>1, <3>1, <3>2 DEF JobAgrees, ServerAgrees, Holding, Busy
    <3> QED BY <3>1, <3>2 DEF EndedLeavesNothing, ServerAgrees
  <2> QED BY <2>2, <2>3, <2>4 DEF TableInv, TableIsTrue
<1> QED BY <1>1, TableInvariant, PTL
-----------------------------------------------------------------------------
\* How far an entry has come.
LEMMA RankCases ==
  /\ Rank("absent") = 0 /\ Rank("uploading") = 1 /\ Rank("queued") = 2 /\ Rank("running") = 3
  /\ \A s \in Terminal : Rank(s) = 4
<1>1. Rank("absent") = 0
  BY DEF Rank, Terminal
<1>2. Rank("uploading") = 1
  BY DEF Rank, Terminal
<1>3. Rank("queued") = 2
  BY DEF Rank, Terminal
<1>4. Rank("running") = 3
  BY DEF Rank, Terminal
<1>5. ASSUME NEW s \in Terminal
      PROVE  Rank(s) = 4
  BY DEF Rank, Terminal
<1> QED BY <1>1, <1>2, <1>3, <1>4, <1>5

Advanced(from, to) == Rank(to) > Rank(from) \/ (from \in Terminal /\ to = "absent")

\* What one step of the server does to an entry that changes.
LEMMA EntriesAdvance ==
  ASSUME TableInv, [Next]_vars, NEW i \in Jobs, status'[i] # status[i]
  PROVE  Advanced(status[i], status'[i]) \/ ~slot'
<1>1. TypeOK /\ JobAgrees(i) /\ ServerAgrees /\ TableFits
  BY DEF TableInv
<1>2. CASE \E j \in Jobs : Put(j)
  <2>1. PICK j \in Jobs : Put(j)
    BY <1>2
  <2>2. /\ status[j] = "absent" /\ status'[j] = "uploading"
        /\ i # j => status'[i] = status[i] \/ (status[i] \in Terminal /\ status'[i] = "absent")
    BY <1>1, <2>1, RoomFits DEF Put
  <2>3. CASE i = j
    BY <2>2, <2>3, RankCases DEF Advanced
  <2>4. CASE i # j
    BY <2>2, <2>4 DEF Advanced
  <2> QED BY <2>3, <2>4
<1>3. CASE \E j \in Jobs : UploadFails(j) \/ UploadDone(j)
  <2>1. PICK j \in Jobs : UploadFails(j) \/ UploadDone(j)
    BY <1>3
  <2>2. i = j
    BY <1>1, <2>1 DEF UploadFails, UploadDone, TypeOK
  <2>3. status[i] = "uploading" /\ status'[i] \in {"queued", "failed", "cancelled"}
    BY <1>1, <2>1, <2>2 DEF UploadFails, UploadDone, JobAgrees, TypeOK
  <2> QED BY <2>3, RankCases DEF Advanced, Terminal
<1>4. CASE \E j \in Jobs : TaskStep(j)
  <2>1. PICK j \in Jobs : TaskStep(j)
    BY <1>4
  <2>2. i = j
    BY <1>1, <2>1 DEF TaskStep, TaskBegins, CancelledAtGate, PermitArrives, BuildFails, CallPipeline,
       RunEndsWithout, RunEndsWell, Verify, Told, TypeOK
  <2>3. CASE CallPipeline(i)
    <3>1. status[i] = "queued" /\ status'[i] = "running"
      BY <1>1, <2>3 DEF CallPipeline, JobAgrees, Told, TypeOK
    <3> QED BY <3>1, RankCases DEF Advanced
  <2>4. CASE CancelledAtGate(i) \/ BuildFails(i) \/ RunEndsWithout(i) \/ Verify(i)
    <3>1. status[i] \in {"queued", "running"}
      BY <1>1, <2>4 DEF CancelledAtGate, BuildFails, RunEndsWithout, Verify, JobAgrees
    <3>2. Told(i, "failed") \/ Told(i, "cancelled") \/ Told(i, "completed")
      BY <2>4 DEF CancelledAtGate, BuildFails, RunEndsWithout, Verify
    <3>3. status'[i] \in Terminal
      BY <1>1, <3>1, <3>2 DEF Told, TypeOK, Terminal
    <3> QED BY <3>1, <3>3, RankCases DEF Advanced
  <2>5. CASE TaskBegins(i) \/ PermitArrives(i) \/ RunEndsWell(i)
    BY <2>5 DEF TaskBegins, PermitArrives, RunEndsWell
  <2> QED BY <2>1, <2>2, <2>3, <2>4, <2>5 DEF TaskStep
<1>5. CASE StartServer
  BY <1>1, <1>5 DEF StartServer, ServerAgrees
<1>6. CASE StopReturns
  BY <1>6 DEF StopReturns
<1>7. CASE \/ \E j \in Jobs : Delete(j) \/ RunStep(j) \/ BodyComplete(j) \/ HandlerDropped(j)
           \/ StopServer \/ LoopBreaks \/ Drain \/ LoopEnds \/ DesktopWants \/ DesktopLeaves
           \/ UNCHANGED vars
  <2>1. status' = status
    BY <1>7 DEF Delete, RunStep, BodyComplete, HandlerDropped, StopServer, LoopBreaks, Drain,
       LoopEnds, DesktopWants, DesktopLeaves, vars, tableVars
  <2> QED BY <2>1
<1> QED BY <1>2, <1>3, <1>4, <1>5, <1>6, <1>7 DEF Next, ServerStep

\* What a phone polls only advances: an outcome once told is not taken back,
\* and an entry goes away only after its job has ended, or with the server.
THEOREM PolledStatusAdvances == Spec => StatusAdvances
<1>1. TableInv /\ [Next]_vars
        => [\A j \in Jobs :
              status'[j] # status[j] =>
                \/ Rank(status'[j]) > Rank(status[j])
                \/ status[j] \in Terminal /\ status'[j] = "absent"
                \/ ~slot']_vars
  BY EntriesAdvance DEF Advanced
<1> QED BY <1>1, TableInvariant, PTL DEF Spec, StatusAdvances
=============================================================================
