-------------------------- MODULE MCFileTranscription --------------------------
(***************************************************************************)
(* The instance for TLC of FileTranscription and of what it calls. A run of *)
(* the pipeline takes the outcomes of the engines and of the AI as choices, *)
(* so that its parts can be checked one at a time: `scene` is the part that *)
(* moves, and the others stay as they are.                                  *)
(***************************************************************************)
EXTENDS FileTranscription, WhisperBatch, ParakeetLong, SummaryPipeline, TextSamples, TLC

CONSTANTS j1, r1, r2

VARIABLES
  scene   \* the part that moves

EveryRequest == Request
Sizes == <<3, 2, 1>>

\* The first request is for the first text in the first mode, which the names of
\* texts and modes leave open; of the texts the first is longer than its excerpt.
NamedRequests ==
  /\ summary[r1].text = 1 /\ summary[r1].mode = 1
  /\ \A r \in Summaries : summary[r].excerpt = (summary[r].text = 1)

vars == <<scene, run, cancelled, readers, saving, archive, whisper, parakeet, rows,
          summary, noteCache, sample>>

\* What stands for a part in the scenes of the others.
Nothing == [at |-> "nothing", of |-> "nothing"]
EndedWhisper ==
  [at |-> "failed", whole |-> TRUE, device |-> "cpu", heard |-> {}, group |-> 1, mode |-> "cpu",
   pass |-> "first", given |-> {}, held |-> {}, kept |-> {}, texts |-> {}, confirmed |-> {}]
EndedParakeet ==
  [at |-> "failed", as |-> "windows", device |-> "fixed", timed |-> TRUE, voiced |-> {},
   attempt |-> 1, plan |-> <<>>, tried |-> {}, error |-> "other"]

EngineInit ==
  \/ /\ scene = "whisper" /\ WhisperInit
     /\ parakeet = EndedParakeet /\ rows = <<>>
  \/ /\ scene = "parakeet" /\ ParakeetInit
     /\ whisper = EndedWhisper
  \/ /\ scene \notin {"whisper", "parakeet"}
     /\ whisper = EndedWhisper /\ parakeet = EndedParakeet /\ rows = <<>>

Init ==
  /\ scene \in {"pipeline", "whisper", "parakeet", "summary", "sample"}
  /\ PipelineInit /\ EngineInit
  /\ IF scene = "summary" THEN SummaryInit /\ NamedRequests
     ELSE summary = [r \in Summaries |-> Nothing] /\ noteCache = {}
  /\ IF scene = "sample" THEN SampleInit ELSE sample = Nothing

Next ==
  /\ UNCHANGED scene
  /\ \/ scene = "pipeline" /\ PipelineNext
        /\ UNCHANGED <<whisper, parakeet, rows, summary, noteCache, sample>>
     \/ scene = "whisper" /\ WhisperNext
        /\ UNCHANGED <<run, cancelled, readers, saving, archive, parakeet, rows, summary,
                       noteCache, sample>>
     \/ scene = "parakeet" /\ ParakeetNext
        /\ UNCHANGED <<run, cancelled, readers, saving, archive, whisper, summary, noteCache,
                       sample>>
     \/ scene = "summary" /\ SummaryNext
        /\ UNCHANGED <<run, cancelled, readers, saving, archive, whisper, parakeet, rows, sample>>

Spec == Init /\ [][Next]_vars /\ (scene = "pipeline" => StopFairness)
=============================================================================
