-------------------------- MODULE FileTranscription --------------------------
(***************************************************************************)
(* TranscriptionService::run_file_transcription                             *)
(* (crates/application/src/services/transcription_service.rs): one run per  *)
(* job takes an audio file through ffmpeg, the speech engine, the diarizer, *)
(* the AI enhancers and the archive, reporting progress on the way.         *)
(*                                                                         *)
(* Every long operation goes through run_cancellable, a select without      *)
(* `biased` between the job's cancellation token and the operation: when    *)
(* both are ready either branch may be taken. Dropping the operation does   *)
(* not always end it: the save is a blocking task that commits anyway, and  *)
(* the tasks that read the output of the engine's process are detached and  *)
(* may still call the progress callback.                                    *)
(***************************************************************************)
EXTENDS Naturals, FiniteSetsExt

CONSTANTS
  Jobs,       \* transcription jobs
  Requests,   \* what the caller asks for, see Request
  Total,      \* the duration of the audio, in units of progress
  Enhancers   \* how many AI enhancers are configured

Request == [timed : BOOLEAN, speakers : {"no", "engine", "missing"}, ai : BOOLEAN]

NoRequest == [speakers |-> "none"]

ASSUME RequestsAssumption == Requests \subseteq Request
ASSUME TotalAssumption == Total \in Nat \ {0}
ASSUME EnhancersAssumption == Enhancers \in Nat \ {0}

VARIABLES
  run,        \* run_file_transcription of each job: where it is, what it knows
  cancelled,  \* jobs whose cancellation token is cancelled
  readers,    \* jobs whose engine process still has tasks reading its output
  saving,     \* the blocking task that saves the artifact of each job
  archive     \* the artifacts committed to the database

pipelineVars == <<run, cancelled, readers, saving, archive>>

-----------------------------------------------------------------------------
Stages ==
  {"none", "queued", "preparing", "transcribing", "diarizing", "optimizing",
   "summarizing", "persisting", "completed", "cancelled", "failed"}
Points == {"idle", "prepare", "engine", "diarize", "ai", "persist", "save", "done"}
Results == {"none", "ok", "cancelled", "failed"}

\* `stage`, `overall` and `seconds` are the progress event last emitted, the
\* others what the function holds in local variables.
Run ==
  [at : Points, request : Requests \cup {NoRequest}, stage : Stages, overall : 0..100,
   seconds : Nat, enhancer : 0..Enhancers, speakers : {"none", "completed", "failed"},
   optimized : BOOLEAN, result : Results]

NotStarted ==
  [at |-> "idle", request |-> NoRequest, stage |-> "none", overall |-> 0, seconds |-> 0,
   enhancer |-> 0, speakers |-> "none", optimized |-> FALSE, result |-> "none"]

Artifact == [speakers : {"none", "completed", "failed"}, optimized : BOOLEAN]
NoArtifact == [speakers |-> "absent"]

\* The seconds become a share of the 80 points between 5 and 85.
OverallAt(seconds) == 5 + (80 * Min({seconds, Total})) \div Total

\* Mutant: a terminal event takes the percentage its caller passes.
UpdateTrustingTerminal(r, stage, percent, seconds) ==
  [r EXCEPT
     !.stage = stage,
     !.seconds = Max({@, seconds}),
     !.overall = IF stage \in {"completed", "cancelled", "failed"} THEN 100
                 ELSE Max({@, Min({percent, 99})})]

\* ProgressSnapshot::update and the event built from it, under one lock.
Update(r, stage, percent, seconds) ==
  [r EXCEPT
     !.stage = stage,
     !.seconds = Max({@, seconds}),
     !.overall = CASE stage = "completed" -> 100
                   [] stage \in {"cancelled", "failed"} -> @
                   [] OTHER -> Max({@, Min({percent, 99})})]

Ended(r, result) ==
  [Update(r, IF result = "ok" THEN "completed" ELSE result, 100, 0) EXCEPT
     !.at = "done", !.result = result]

\* The parts between two operations the function waits for.
ToPersist(r) == [Update(r, "persisting", 98, 0) EXCEPT !.at = "persist"]

AfterAi(r) == ToPersist(Update(Update(r, "optimizing", 96, 0), "summarizing", 98, 0))

ToAi(r) ==
  IF r.request.ai
  THEN [Update(Update(r, "optimizing", 93, 0), "summarizing", 96, 0) EXCEPT
          !.at = "ai", !.enhancer = 1]
  ELSE ToPersist(r)

AfterDiarization(r, status) ==
  ToAi([Update(r, "diarizing", 93, 0) EXCEPT !.speakers = status])

ToDiarization(r) ==
  CASE r.request.speakers = "no" -> ToAi(r)
    [] r.request.speakers = "missing" -> AfterDiarization(Update(r, "diarizing", 85, 0), "failed")
    [] OTHER -> [Update(r, "diarizing", 85, 0) EXCEPT !.at = "diarize"]

AfterSpeech(r) ==
  ToDiarization(IF r.request.timed THEN Update(r, "transcribing", 85, Total) ELSE r)

-----------------------------------------------------------------------------
PipelineInit ==
  /\ run = [j \in Jobs |-> NotStarted]
  /\ cancelled = {}
  /\ readers = {}
  /\ saving = [j \in Jobs |-> "none"]
  /\ archive = [j \in Jobs |-> NoArtifact]

\* The owner of the token cancels it.
RequestCancel(j) ==
  /\ cancelled' = cancelled \cup {j}
  /\ UNCHANGED <<run, readers, saving, archive>>

Call(j, request) ==
  /\ run[j].at = "idle"
  /\ j \notin cancelled
  /\ run' = [run EXCEPT ![j] =
               Update([@ EXCEPT !.at = "prepare", !.request = request], "preparing", 0, 0)]
  /\ UNCHANGED <<cancelled, readers, saving, archive>>

\* An empty path, a missing file, or a token already cancelled: no event.
CallRefused(j, result) ==
  /\ run[j].at = "idle"
  /\ result = "failed" \/ (result = "cancelled" /\ j \in cancelled)
  /\ run' = [run EXCEPT ![j].at = "done", ![j].result = result]
  /\ UNCHANGED <<cancelled, readers, saving, archive>>

\* Mutant: the diarizer is awaited without the token.
StoppedOutsideDiarization(j) ==
  /\ j \in cancelled
  /\ run[j].at \in {"prepare", "engine", "ai", "persist", "save"}
  /\ run' = [run EXCEPT ![j] = Ended(@, "cancelled")]
  /\ UNCHANGED <<cancelled, readers, saving, archive>>

\* run_cancellable takes the branch of the token; the operation is dropped.
Stopped(j) ==
  /\ j \in cancelled
  /\ run[j].at \in {"prepare", "engine", "diarize", "ai", "persist", "save"}
  /\ run' = [run EXCEPT ![j] = Ended(@, "cancelled")]
  /\ UNCHANGED <<cancelled, readers, saving, archive>>

TranscodeReturns(j, success) ==
  /\ run[j].at = "prepare"
  /\ IF success
     THEN /\ run' = [run EXCEPT ![j] =
                       [Update(Update(@, "preparing", 5, 0), "transcribing", 5, 0) EXCEPT
                          !.at = "engine"]]
          /\ readers' = readers \cup {j}
     ELSE /\ run' = [run EXCEPT ![j] = Ended(@, "failed")]
          /\ UNCHANGED readers
  /\ UNCHANGED <<cancelled, saving, archive>>

\* Mutant: the local timestamp of the callback is trusted.
CallbackTrusted(j, seconds) ==
  /\ j \in readers
  /\ run' = [run EXCEPT ![j] =
               [Update(@, "transcribing", 5, seconds) EXCEPT !.overall = OverallAt(seconds)]]
  /\ UNCHANGED <<cancelled, readers, saving, archive>>

\* The progress callback handed to the engine; a time that is not ahead of
\* what was processed belongs to a retry and is ignored.
Callback(j, seconds) ==
  /\ j \in readers
  /\ seconds > run[j].seconds
  /\ run' = [run EXCEPT ![j] =
               Update(@, "transcribing", IF @.request.timed THEN OverallAt(seconds) ELSE 5,
                      seconds)]
  /\ UNCHANGED <<cancelled, readers, saving, archive>>

ReadersEnd(j) ==
  /\ j \in readers
  /\ readers' = readers \ {j}
  /\ UNCHANGED <<run, cancelled, saving, archive>>

\* The engine joins its readers before it returns a transcript. An empty
\* transcript and an engine that failed end the run.
EngineReturns(j) ==
  /\ run[j].at = "engine"
  /\ j \notin readers
  /\ run' = [run EXCEPT ![j] = AfterSpeech(@)]
  /\ UNCHANGED <<cancelled, readers, saving, archive>>

EngineFails(j) ==
  /\ run[j].at = "engine"
  /\ run' = [run EXCEPT ![j] = Ended(@, "failed")]
  /\ UNCHANGED <<cancelled, readers, saving, archive>>

\* Mutant: an error of the diarizer is passed on with `?`.
DiarizerPassesErrors(j, status) ==
  /\ run[j].at = "diarize"
  /\ run' = [run EXCEPT ![j] = IF status = "failed" THEN Ended(@, "failed")
                               ELSE AfterDiarization(@, status)]
  /\ UNCHANGED <<cancelled, readers, saving, archive>>

DiarizerReturns(j, status) ==
  /\ run[j].at = "diarize"
  /\ run' = [run EXCEPT ![j] = AfterDiarization(@, status)]
  /\ UNCHANGED <<cancelled, readers, saving, archive>>

\* run_ai_post_processing tries the enhancers in order and moves on only
\* after an error of the provider that is worth a retry.
EnhancerReturns(j, optimized) ==
  /\ run[j].at = "ai"
  /\ run' = [run EXCEPT ![j] = AfterAi([@ EXCEPT !.optimized = optimized])]
  /\ UNCHANGED <<cancelled, readers, saving, archive>>

EnhancerIsUnavailable(j) ==
  /\ run[j].at = "ai"
  /\ run' = [run EXCEPT ![j] = IF @.enhancer < Enhancers
                               THEN [@ EXCEPT !.enhancer = run[j].enhancer + 1]
                               ELSE AfterAi(@)]
  /\ UNCHANGED <<cancelled, readers, saving, archive>>

\* The save is polled for the first time and spawns its blocking task.
SaveBegins(j) ==
  /\ run[j].at = "persist"
  /\ run' = [run EXCEPT ![j].at = "save"]
  /\ saving' = [saving EXCEPT ![j] = "running"]
  /\ UNCHANGED <<cancelled, readers, archive>>

\* The blocking task ends, whether or not the run still waits for it.
Commit(j, outcome) ==
  /\ saving[j] = "running"
  /\ saving' = [saving EXCEPT ![j] = outcome]
  /\ archive' = IF outcome = "ok"
                THEN [archive EXCEPT ![j] = [speakers |-> run[j].speakers,
                                             optimized |-> run[j].optimized]]
                ELSE archive
  /\ UNCHANGED <<run, cancelled, readers>>

SaveReturns(j) ==
  /\ run[j].at = "save"
  /\ saving[j] \in {"ok", "failed"}
  /\ run' = [run EXCEPT ![j] = Ended(@, saving[j])]
  /\ UNCHANGED <<cancelled, readers, saving, archive>>

\* What happens in the run of j when what it waits for ends.
Waits(j) ==
  \/ \E success \in BOOLEAN : TranscodeReturns(j, success)
  \/ EngineReturns(j)
  \/ EngineFails(j)
  \/ \E status \in {"completed", "failed"} : DiarizerReturns(j, status)
  \/ \E optimized \in BOOLEAN : EnhancerReturns(j, optimized)
  \/ EnhancerIsUnavailable(j)
  \/ SaveBegins(j)
  \/ \E outcome \in {"ok", "failed"} : Commit(j, outcome)
  \/ SaveReturns(j)
  \/ ReadersEnd(j)

PipelineStep(j) ==
  \/ Stopped(j)
  \/ \E seconds \in 1..(Total + 1) : Callback(j, seconds)
  \/ Waits(j)

PipelineNext ==
  \E j \in Jobs :
    \/ RequestCancel(j)
    \/ \E request \in Requests : Call(j, request)
    \/ \E result \in {"cancelled", "failed"} : CallRefused(j, result)
    \/ PipelineStep(j)

PipelineSpec == PipelineInit /\ [][PipelineNext]_pipelineVars

\* tokio wakes the select when the token is cancelled. Nothing is assumed of
\* the external processes.
StopFairness == \A j \in Jobs : WF_pipelineVars(Stopped(j))
StoppablePipeline == PipelineSpec /\ StopFairness

-----------------------------------------------------------------------------
\* The types of the five variables.
PipelineTypeOK ==
  /\ run \in [Jobs -> Run]
  /\ cancelled \subseteq Jobs
  /\ readers \subseteq Jobs
  /\ saving \in [Jobs -> {"none", "running", "ok", "failed"}]
  /\ archive \in [Jobs -> Artifact \cup {NoArtifact}]

\* The outcome the caller is given agrees with the archive: a run that ended
\* well left its artifact there, with the speaker status it found out; one
\* that failed, or was cancelled before its save began, left nothing, and
\* nothing will arrive later (run_file_transcription's last three steps and
\* the blocking task of SqliteArtifactRepository::save).
OutcomeTellsArchive ==
  \A j \in Jobs :
    /\ run[j].result = "ok" =>
         archive[j] = [speakers |-> run[j].speakers, optimized |-> run[j].optimized]
    /\ run[j].result = "failed" => archive[j] = NoArtifact /\ saving[j] # "running"
    /\ run[j].result = "cancelled" /\ saving[j] = "none" => archive[j] = NoArtifact

\* 100 per cent is shown only for a transcription that is in the archive; a
\* failed or cancelled one never jumps there (ProgressSnapshot::update).
HundredIsArchived ==
  \A j \in Jobs : run[j].overall = 100 => archive[j] # NoArtifact

\* What the caller and the progress bar say of a run is what the archive
\* holds, also when a save commits after the run was cancelled.
ArchiveIsToldTruly == PipelineTypeOK /\ OutcomeTellsArchive /\ HundredIsArchived

\* Whatever the engine's retries report and however late their callbacks
\* run, the percentage the user sees never goes down.
PercentNeverFalls ==
  [][\A j \in Jobs : run'[j].overall >= run[j].overall]_pipelineVars

\* Once there is a transcript, a diarizer or an enhancer that fails costs the
\* user its own part only: the run fails for nothing but a failed save.
TranscriptSurvives ==
  [][\A j \in Jobs :
       run[j].at \in {"diarize", "ai", "persist", "save"} /\ run'[j].result = "failed"
         => saving[j] = "failed"]_pipelineVars

\* A cancelled run ends, even when the program it waits for hangs.
CancelEndsRun ==
  \A j \in Jobs : j \in cancelled /\ run[j].at # "idle" ~> run[j].at = "done"

=============================================================================
