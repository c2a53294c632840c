---------------------------- MODULE WhisperBatch -----------------------------
(***************************************************************************)
(* WhisperCppEngine::transcribe (adapters/whisper_cpp.rs): one recording    *)
(* through whisper-cli. The recording is cut into chunks, a process takes   *)
(* at most PerProcess of them and writes one artifact per chunk. A chunk    *)
(* without an artifact is tried again once by the same backend, then, when  *)
(* the compute device is automatic, once more and again once on the CPU.    *)
(* What a process has confirmed is kept and only the rest is given to the   *)
(* next one. A recording of one chunk, or one that is no WAV file, goes     *)
(* through a single process that must succeed as a whole.                   *)
(*                                                                         *)
(* whisper-cli is external: a process may fail to start or stop answering,  *)
(* in which case nothing it wrote is read, or end with an artifact for some *)
(* of its chunks. What is heard in a chunk does not depend on the process.  *)
(***************************************************************************)
EXTENDS Naturals, FiniteSetsExt

CONSTANTS
  ChunkCount, \* how many chunks the recording is cut into
  PerProcess  \* WHISPER_MAX_INPUTS_PER_PROCESS

ASSUME WhisperAssumption == ChunkCount \in Nat \ {0} /\ PerProcess \in Nat \ {0}

VARIABLES
  whisper   \* the job: see Whisper

whisperVars == <<whisper>>

-----------------------------------------------------------------------------
WhisperChunks == 1..ChunkCount
WhisperGroups == 1..((ChunkCount + PerProcess - 1) \div PerProcess)
GroupOf(g) == {c \in WhisperChunks : (c - 1) \div PerProcess = g - 1}

\* `heard` are the chunks in which Whisper hears speech; `given` what the
\* process under way was given, `held` the speech this attempt has confirmed,
\* `kept` what a failed attempt of the group left, `texts` the speech of the
\* groups that are done. `confirmed` are the chunks whose artifact was read.
Whisper ==
  [at : {"process", "done", "failed"}, whole : BOOLEAN, device : {"auto", "gpu", "cpu"},
   heard : SUBSET WhisperChunks, group : WhisperGroups, mode : {"default", "cpu"},
   pass : {"first", "recovery"}, given : SUBSET WhisperChunks, held : SUBSET WhisperChunks,
   kept : SUBSET WhisperChunks, texts : SUBSET WhisperChunks, confirmed : SUBSET WhisperChunks]

\* initial_execution_mode
FirstMode(device) == IF device = "cpu" THEN "cpu" ELSE "default"

WhisperInit ==
  \E heard \in SUBSET WhisperChunks, device \in {"auto", "gpu", "cpu"}, whole \in BOOLEAN :
    /\ ChunkCount = 1 => whole
    /\ whisper =
         [at |-> "process", whole |-> whole, device |-> device, heard |-> heard, group |-> 1,
          mode |-> FirstMode(device), pass |-> "first",
          given |-> IF whole THEN WhisperChunks ELSE GroupOf(1),
          held |-> {}, kept |-> {}, texts |-> {}, confirmed |-> {}]

-----------------------------------------------------------------------------
WhisperFails == whisper' = [whisper EXCEPT !.at = "failed"]

\* The rest of the loop over the groups once a group has an output, and the
\* merge of the outputs after the last one.
GroupDone(w, output) ==
  IF w.group = Max(WhisperGroups)
    THEN [w EXCEPT !.at = "done", !.texts = @ \cup output]
    ELSE [w EXCEPT !.group = w.group + 1, !.given = GroupOf(w.group + 1), !.held = {},
                   !.kept = {}, !.pass = "first", !.mode = FirstMode(w.device),
                   !.texts = @ \cup output]

\* Mutant: the retry on the CPU starts from the whole group.
ContinueOnCpuWithGroup(w, partial, missing) ==
  whisper' = [w EXCEPT !.mode = "cpu", !.pass = "first", !.kept = partial, !.held = {},
                       !.given = GroupOf(w.group)]

\* The arm of run_whisper_cli_chunk_groups that continues on the CPU.
ContinueOnCpu(w, partial, missing) ==
  whisper' = [w EXCEPT !.mode = "cpu", !.pass = "first", !.kept = partial, !.held = {},
                       !.given = IF missing = {} THEN GroupOf(w.group) ELSE missing]

\* Whether the job is at its first backend and may change it. A CPU attempt
\* that was the fallback ends the job when it fails; `auto` starts on the GPU.
MayFallBack(w) == w.device = "auto" /\ w.mode = "default"

\* A batch attempt ends with an error that holds `partial` and lists `missing`;
\* `gpu` is what should_retry_with_cpu_fallback reads from messages and status.
AttemptEndsBadly(w, partial, missing, gpu) ==
  IF MayFallBack(w) /\ (missing # {} \/ gpu)
    THEN ContinueOnCpu(w, partial, missing)
    ELSE WhisperFails

\* What a batch attempt does with the output it composed: nothing at all
\* heard is an error without missing chunks.
AttemptComposes(w, output, gpu) ==
  IF output = {}
    THEN AttemptEndsBadly(w, {}, {}, gpu)
    ELSE whisper' = GroupDone(w, w.kept \cup output)

Recovered(w, recovered) == w.held \cup recovered

\* The first process of an attempt has ended and its artifacts, for the chunks
\* in `found`, are read. Chunks without one go to the recovery.
FirstPassEnds(found, gpu) ==
  LET missing == whisper.given \ found
      w == [whisper EXCEPT !.confirmed = @ \cup found]
      speech == found \cap whisper.heard
  IN  /\ whisper.at = "process" /\ ~whisper.whole /\ whisper.pass = "first"
      /\ found \subseteq whisper.given
      /\ IF missing = {}
           THEN AttemptComposes(w, speech, gpu)
           ELSE whisper' = [w EXCEPT !.held = speech, !.given = missing, !.pass = "recovery"]

\* The recovery process has ended. When its chunks turn out to be silent it
\* composes nothing, which is an error that lists no missing chunk: the outer
\* attempt then takes all of them for unresolved.
RecoveryEnds(found, gpu) ==
  LET missing == whisper.given \ found
      w == [whisper EXCEPT !.confirmed = @ \cup found]
      speech == found \cap whisper.heard
  IN  /\ whisper.at = "process" /\ ~whisper.whole /\ whisper.pass = "recovery"
      /\ found \subseteq whisper.given
      /\ CASE missing # {} -> AttemptEndsBadly(w, Recovered(whisper, speech), missing, gpu)
           [] missing = {} /\ speech = {} -> AttemptEndsBadly(w, whisper.held, whisper.given, gpu)
           [] OTHER -> AttemptComposes(w, Recovered(whisper, speech), gpu)

\* The process cannot be started, or is killed after a time without output,
\* or its output cannot be read: no artifact is looked at.
ProcessIsLost ==
  /\ whisper.at = "process" /\ ~whisper.whole
  /\ IF whisper.pass = "first"
       THEN AttemptEndsBadly(whisper, {}, {}, FALSE)
       ELSE AttemptEndsBadly(whisper, whisper.held, whisper.given, FALSE)

\* A single process for the whole recording: it must exit well and some text
\* must be found in its file, its JSON or its stream.
WholeEnds(exitsWell, gpu) ==
  /\ whisper.at = "process" /\ whisper.whole
  /\ CASE exitsWell /\ whisper.heard # {} ->
            whisper' = [whisper EXCEPT !.at = "done", !.texts = whisper.heard,
                                       !.confirmed = WhisperChunks]
       [] ~(exitsWell /\ whisper.heard # {}) /\ gpu /\ MayFallBack(whisper) ->
            whisper' = [whisper EXCEPT !.mode = "cpu"]
       [] OTHER -> WhisperFails

WhisperNext ==
  \/ \E found \in SUBSET whisper.given, gpu \in BOOLEAN :
       FirstPassEnds(found, gpu) \/ RecoveryEnds(found, gpu)
  \/ ProcessIsLost
  \/ \E exitsWell, gpu \in BOOLEAN : WholeEnds(exitsWell, gpu)

WhisperSpec == WhisperInit /\ [][WhisperNext]_whisperVars

-----------------------------------------------------------------------------
\* The type of the job.
WhisperTypeOK == whisper \in Whisper

\* A transcription is never returned with a hole: whatever processes were
\* lost, every chunk was confirmed by some process and the speech of every
\* chunk is in the text (run_whisper_cli_batch_attempt_with_recovery's partial
\* outputs and run_whisper_cli_chunk_groups' merge).
DoneIsWhole ==
  whisper.at = "done" => whisper.texts = whisper.heard /\ whisper.confirmed = WhisperChunks

\* Speech that is held is not transcribed a second time: "Earlier groups and
\* the confirmed part of this group remain committed and are never replayed".
SpeechIsNotReplayed ==
  whisper.at = "process"
    => whisper.given \cap (whisper.held \cup whisper.kept \cup whisper.texts) = {}

\* What is confirmed to be speech is held until the job ends: no path of the
\* recovery or of the fallback drops it.
ConfirmedSpeechIsHeld ==
  whisper.at = "process"
    => whisper.confirmed \cap whisper.heard = whisper.held \cup whisper.kept \cup whisper.texts

\* Whatever fails, a Whisper job that ends well has heard every chunk, and speech
\* that was confirmed is neither given to a process again nor lost on the way to
\* the CPU (run_whisper_cli_chunk_groups and its retries). Of a chunk confirmed to
\* be silent this is not so: RecoveryEnds hands it to the process on the CPU.
WhisperHearsSpeechOnce == WhisperTypeOK /\ DoneIsWhole /\ SpeechIsNotReplayed /\ ConfirmedSpeechIsHeld
=============================================================================
