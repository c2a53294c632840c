# Sbobino: models and proofs

Sbobino is a desktop application (Tauri, Rust and React) that transcribes
recordings on the user's own machine. This directory holds TLA+ modules of the
parts of it where several things happen at once or can fail half way, and of the
pure algorithms that decide what is heard, kept and told; the TLC configurations
that check them; and theorems checked by TLAPS. Paths below are relative to
`src/sbobino_desktop/` unless they begin with `docs/`.

Every module is translated from the code. Where a doc, a comment or a test says
something else, section 5 says so; two of the disagreements have a run.

## 1. Inventory

| component | code | state it keeps | operations | hard behaviour |
|---|---|---|---|---|
| Companion AI service | `crates/infrastructure/src/companion_ai.rs` | records in memory, one encrypted file per job, sessions, tasks, selected provider, probes | submit, poll, cancel, acknowledge, select, probe, run, reload, shutdown | saves that fail after the rename, crash and restart, late answers, phones that repeat every request |
| Companion server | `crates/infrastructure/src/companion.rs`, `commands/companion.rs` | table of at most 8 jobs, requests, tasks, stop token | PUT, DELETE, GET, the job's task, start, stop | requests dropped at any await, stop racing uploads, a full table |
| Desktop jobs | `commands/transcription.rs`, `state.rs` | registry of tokens, the gate (semaphore of one) | start, cancel, the spawned task | spawn before registration, cancel against permit, gate shared with the companion |
| Transcription service | `crates/application/src/services/transcription_service.rs` | progress snapshot, stage, artifact | transcode, engine, diarization, AI, save | cancellation at every await, detached readers calling back late, blocking commit that outlives its await |
| Engines | `adapters/whisper_cpp.rs`, `parakeet_cpp.rs`, `transcript_segmentation.rs` | completed chunks or windows, child processes | plan, run, retry, merge, segment | processes that die with part of their work done, chunks without words, overlaps, the CPU as a fallback |
| Summaries | `crates/application/src/summary_pipeline.rs` | a cache of notes for the whole program | plan, prompt, chunk, note, synthesise | prompts too long for the model, partial failure, reuse of notes |
| Enhancers | `crates/infrastructure/src/lib.rs` (767-1198), `foundation_apple.rs`, `openai_compatible.rs`, `gemini.rs` | none | which services, in which order | what is sent where when the chosen one fails |
| Portable backup | `commands/backup.rs` | data, staged and rollback directories, settings | import, export | renames failing half way, crash, a transcription that saves meanwhile |
| Automatic import | `commands/automatic_import.rs`, `App.tsx` | automation section of the settings, quarantine, window copy | scan, retry, clear, success, failure, edit | snapshots replaced as a whole, overlapping scans, deduplication |
| Live sessions | `commands/realtime.rs`, `parakeet_realtime.rs`, `whisper_stream.rs` | active job, engines, stops in progress | start, pause, resume, load, stop, background finalisation | commands without the transition guard, threads and a child that die, backlog, a failed stop that is repeated |
| Artifact database | `sqlite_artifact_repository.rs`, `artifact_service.rs` | rows with revisions, audio vault, trash | save, edit, analyses, trash, purge, migration | two-step updates, files beside rows, an interrupted migration |
| Late diarization, chat, AI commands | `commands/artifacts.rs`, `emotion_analysis.rs` | registry of tasks, status in the metadata, chat turns | start, cancel, task; ask; update | cancel against completion, a new run while the old one works, several questions at once |
| Settings and secrets | `settings_service.rs`, `fs_settings_repository.rs`, `secure_storage.rs`, `commands/settings.rs` | settings file, secure storage | load with migration, update, partial updates | writes outside the lock, two stores written one after the other, redacted copies coming back |
| Runtime provisioning | `commands/provisioning.rs`, `runtime.rs`, `crates/infrastructure/src/lib.rs` | one slot, runtime with its journal, diarization runtime with manifest, receipt and status, models | install, recover, download, verify, plan after an update | renames failing, crash between any two, several recoveries, updates of the program |
| Readiness | `crates/infrastructure/src/lib.rs`, `runtime.rs`, `fluid_diarization_runtime.rs` | a cache of probes | health, preflight, ensure, build of the service | several answers to one question that must agree, files that change between the question and the use |
| Window | `App.tsx`, `lib/*.ts` | queue view, settings copy | event handlers, start of a transcription, background installation | lost or early events, timeouts, stale copies |
| Prepared imports, updates, domain types, i18n | `prepared_transcript.rs`, `updates.rs`, `crates/domain` | little | | |

What makes each correct, in one line: the AI service asks the model once and
never loses an answer; the companion and the desktop tell the phone and the
window what the archive says, one job at a time on the machine; a run ends in
exactly one outcome; each piece of speech is heard and kept once; a backup
import leaves one whole archive; a scan queues each new recording; one live
session at a time, saved as it was spoken; an update of an artifact loses no
other; an accepted setting stays; an installation is there or is not; what a
readiness check promises is what the job gets.

How they interact: the window calls commands and listens to events. Desktop
jobs, companion uploads and companion AI jobs wait for the same semaphore
(`transcription_gate`). A desktop job and an upload both call the transcription
service, which calls an engine, a diarizer and enhancers and saves through the
artifact repository. Scans start desktop jobs, and those write back to the
settings. A backup import looks at the registry of desktop jobs and then swaps
the files under the repository. Every load of the settings recovers the
diarization runtime; the readiness commands recover the speech runtime.

`PROJECT.json` lists every component with its status, and the hazards with the
line where each bites and the properties that cover it.

## 2. Modules

    AiLedger                 what a phone may rely on: the contract of AI jobs
      ^ implemented by
    CompanionAi              service, store, tasks, sessions
      ^ CompanionAiProofs    theorems                     MCCompanionAi

    FileTranscription        one pipeline run per job  \
      ^ FileTranscriptionProofs   theorems, the gate's |
    WhisperBatch, ParakeetLong   the engines' retries  |  MCFileTranscription
    SummaryPipeline          notes, synthesis, cache   |
      ^ EngineProofs         theorems of the three     |
    AudioPlans, Transcripts  pure: plans and merges    |
    TextSamples              their inputs              /
    Gate                     the semaphore (external)
    TranscriptionJobs        desktop jobs + Gate + FileTranscription   MCTranscriptionJobs
      ^ DesktopProofs             theorems, from those of the pipeline;
                                  and those of Settings
    CompanionJobs            companion server + Gate + FileTranscription   MCCompanionJobs
      ^ CompanionJobsProofs       theorems, from those of the pipeline

    BackupImport             import, rollback, crash, open databases \
      ^ ProvisioningProofs   theorems                                 | MCImports
    AutomaticImport          scans, jobs, writers of the settings     |
      ^ EngineProofs         theorems                                 /

    WhisperStream            live engine: child and readers  \
    ParakeetLive             live engine: capture, recorder  |
    LiveSessions             the commands over both          /
      ^ LiveSessionsProofs   theorems

    ArtifactStore            rows, revisions, vault, migration \  MCArtifactWork
    ArtifactWork             the commands over the store       /
      ^ ArtifactWorkProofs   theorems

    ProvisioningSlot         the slot                          \
    RuntimeInstall           speech runtime, journal           |
    PyannoteInstall          diarization runtime, stages       |
    ModelDownloads           models and encoders               |
    Provisioning             the three workers around the slot |  MCRuntime
      ^ ProvisioningProofs   theorems                          |
    Settings                 settings file, secrets, callers   |
      ^ DesktopProofs        theorems                          |
    PyannoteHealth           pure: receipt, manifest, status   |
    PyannoteUpgrade          updates of the app, the plan      |
    Readiness, EnhancerChain pure: health, preflight, builders |
    StartChecks              a start of a transcription        /
      ^ ProvisioningProofs   theorems

The modules have one action per step between two awaits (or two file
operations) of the code. A task that is dropped, aborted or cancelled at an
await is an action enabled there. An MC module that holds several components
that do not share state, or groups of commands over one component, has a
variable that is chosen at the start and says which of them move (`scene`, `who`
and `Groups`): each group is explored completely and groups are not multiplied
with each other.

**AiLedger / CompanionAi.** `mem` is `State.jobs`, `disk` the directory of
encrypted files, `task` and `active` the spawned tasks and their leases,
`session` the service, `binding` and `probes` the selected provider. A save
(`SaveAndInsert`, `SaveFails`) writes a temporary file, renames it and syncs the
directory; it can fail before the rename, leaving the old file, or after it,
leaving the new one. `Stop` begins a shutdown, `CloseSession` ends it, and a
crash loses memory and tasks at any moment. `Reloaded` is what a restart makes
of a file. `shown`, `ackTried` and `inferences` observe and guard nothing.
AiLedger keeps of a job its stage, the request that owns its UUID and whether
the model was asked; the refinement mapping takes memory while the service
serves and what a restart would load while it does not.

**FileTranscription.** `run[j]` holds where `run_file_transcription` is, the
progress snapshot and the result. Engine, diarizer, enhancer and repository are
external: each answers at any moment with success or failure, or never.
`readers` are the detached tasks that read the engine's output and may call
back after the run has ended. `saving` is the blocking task of the repository,
which commits although its caller has gone.

**WhisperBatch, ParakeetLong.** What an engine does between being called and
answering: groups of chunks in processes that leave an artifact for some of
them, the isolated retry, the second attempt and the CPU; windows planned,
committed row by row, planned again in smaller sizes. What is kept is the set of
confirmed chunks or the rows. **SummaryPipeline** has two requests over one cache;
the provider's answer to a prompt is text, nothing, "too long" or an error, and a
prompt of the synthesis holds as many of the notes as its budget leaves.

**AudioPlans, Transcripts.** Operators without state: the cut of a recording into
chunks by its levels, the windows with their context and their quietest cut, the
merge of overlapping texts, the segments, the cut of plain text and of the text
for a summary. `TextSamples` enumerates the inputs: every recording of levels and
every small text with its times, within the bounds of the cfg. Thresholds of the code in
seconds, letters or words are constants, made small in the cfg.

**TranscriptionJobs, CompanionJobs, Gate.** `Gate` is tokio's fair semaphore of
one permit with its queue of waiters. In each module the other client of the
gate is one opaque process that may keep it. In TranscriptionJobs `command` and
`task` are the two concurrent halves of `spawn_transcription_job` and
`registry` the map of tokens. In CompanionJobs `status` is the table, `handler`
the uploading request, `task` the spawned job and `server` the accept loop.

**BackupImport.** `data`, `kept` and `staged` say for the database, its two
side files and the vault whether each is absent, blank, from the old archive or
from the backup. Each rename and each removal is a step that can fail. A
transcription and another command open the database by its path and close it again,
whatever the import is doing: opening creates a missing database and its side files
(`Opened`), and the last connection to a database that is still in its place takes
them away (`Closed`). `home` is the archive a connection was opened on, where the
commit goes. `disturbed` and `used` observe that a connection changed the directory
between two renames, or since the swap began.

**AutomaticImport.** `folder` is the world. A scan keeps the snapshot of the
section it read, the index of artifacts, what it found and what it queued; the
job that notes its outcome and the command that clears an item keep snapshots
too, and `window` is the copy the user edits. Size, time and hash of a file are
one value, its content.

**LiveSessions, WhisperStream, ParakeetLive.** `active`, `kind` and `current` are
`RealtimeRuntime`, `stops` the sessions whose stop is under way, `starting` the
command that holds the transition guard. Each engine is a record: for Whisper
the child, the two readers and the buffer; for Parakeet the capture thread, the
recorder thread, the bounded queue between them and the preview gate. A word or
a chunk carries the session it was spoken in, so a leak between sessions is seen.

**ArtifactStore, ArtifactWork.** A row has a value per field with the writer that
put it there; an update reads in one step and writes in another, under the
revision it read. `registry` and `status` of the diarizations, the lock and the
stored turns of the chat, the files of the vault and the rows of an old database
are the other state.

**Provisioning and its parts.** `disk` and `journals` are the directories bin and
lib with their stages and backups; `tree`, `stage` and `backups` those of the
diarization runtime; `downloads` the model files. Every rename, removal and
journal write is a step that can fail, and the program can end between any two.
`slot` is the provisioning slot, `load` a load of the settings on its way through
the recovery. Loads and installations interleave step by step, as in the code, where no
lock is between them; `crossed` and `bared` observe that a load met the swap of an
installation, or took the mark of the runtime being validated.

**Settings.** The file, the secure storage and a caller per command, each with
the snapshot it works on. An API key is absent, an old or a new value; what is
returned to a window is redacted and comes back. `slips` observes what the properties
have to except: a write without the lock, a failed step, a window that sends back a
stale "no key".

**PyannoteHealth, PyannoteUpgrade.** The directory is a record of what decides:
interpreter, portability, model, content, manifest, receipt, status. Updates of
the app move through `Releases`; each is followed by a plan and what the window
makes of it, with a release that cannot be fetched, imports that time out, and
damage in between.

**Readiness, EnhancerChain, StartChecks.** `Readiness` computes, for a machine and
the settings, what health, preflight, setup and the builder of the service each
conclude; `EnhancerChain` the list of services, as a function on places (the chosen one,
Apple's, the remote ones in their order). `StartChecks` has the steps of a
start (ensure, preflight, start) with the probe cache, five minutes that may pass,
and files and settings that change between the steps.

## 3. Runs

| run | question | instance | states |
|---|---|---|---|
| `ai_safety` | are jobs durable and asked once, and is AiLedger implemented? | 2 jobs, 2 requests, 1 provider, 2 sessions | 358 k (symmetry) |
| `ai_selection` | does anything outlive a deselection, hang, or report the wrong provider? | 1 job, 2 providers, 2 selections, 2 sessions | 120 k |
| `pipeline` | do outcome, progress and archive agree, does a cancelled run end; is speech heard once, a summary of its own text, every word kept once? | 1 run with all requests; 5 Whisper chunks in groups of 3; a recording of 4 units in windows of 3, 2, 1; 2 summaries over one cache; all sampled recordings and texts | 973 k |
| `desktop_jobs` | does the gate serialise, is the registry right, does every job end? | 2 jobs and the companion | 379 k |
| `companion_jobs` | does the phone hear the truth, does a stop return? | 2 jobs in a table for 1, the desktop | 880 k |
| `imports` | is the old archive never lost and the new one whole; does one scan queue what it must not? | 1 import, a saving job and another command, all file combinations; 2 overlapping scans over 2 paths and 2 recordings, each listing 1 artifact | 3.5 M (symmetry) |
| `live_sessions` | one session at a time, saved as spoken, every command answered? | 2 sessions, each on either engine | 449 k |
| `artifacts` | does concurrent work on one artifact lose text, rows or audio, or a diarization's end? | 1 artifact, 2 editors, 2 diarizations, 1 cancel, 3 chat turns, in groups | 614 k |
| `runtime` | are installations all or nothing, do repairs keep what works, do settings and keys stay, do the checks before a start tell the truth? | 2 installations, 3 models, 8 callers of the settings, 4 releases, one change of the machine, in groups | 326 k |
| `backup_saved`, `backup_swap`, `parakeet_recovered` | a disagreement each, section 5 | | |

### The properties

A property that joins several claims about one component is a conjunction of named
parts, each stated with its own comment in its module:

| property | parts |
|---|---|
| `EachJobIsServedOnce` | the model is asked once per job; a pending job has a task and belongs to the selected provider; only the selected provider is advertised |
| `ArchiveIsToldTruly` | what a run reports is what the archive holds; 100 per cent means archived |
| `WhisperHearsSpeechOnce` | a returned transcription has the speech of every chunk; confirmed speech is not given to a process again; nor lost on the way to the CPU |
| `ParakeetHearsSpeechOnce` | rows tile the recording; the worker starts where they end; a job that ends well has words wherever there is speech |
| `SummaryIsOfItsText` | a prompt of the synthesis holds notes on the first chunks without a gap, made of the own text in the own mode, although the cache is shared and the notes are clipped; a text that is too long is cut before it is given up |
| `PlansCoverSpeech` | no speech outside the chunks; no chunk longer than the model's limit and the search for a cut; plans pass the validation that follows |
| `WordsAreKeptOnce` | utterances once and in order over overlaps and context; cuts of the timeline, of plain text and of the summary's text keep it whole |
| `GateAndRegistryAgree` | heavy work holds the gate; what is under way is registered; the permit is not lost |
| `TableIsTrue` | the companion's table covers its tasks; "completed" can be read; nothing of an ended job goes on |
| `ImportIsOneArchive` | one archive and its own settings, also after a failure; its own side files unless a command changed the directory between two renames |
| `ScanQueuesOnce` | one scan queues nothing that was processed when it began and is in reach of its list; not a copy under another path |
| `OneSessionAtATime` | one capture; one finaliser |
| `SavedSpeechIsTrue` | whole when the engine was well; nothing of a broken engine; lines and segments agree |
| `LiveCommandsAreAnswered` | every stop ends, with a worker that is alive in reach of the next; every start ends unless the library's load hangs |
| `StoreLosesNothing` | rows and text, old recordings; audio files but those a hard delete had listed |
| `LateWorkIsAccountedFor` | a running diarization can be cancelled; "completed" has its speakers written |
| `InstallIsAllOrNothing` | the last good runtime survives; the report says what is there |
| `RepairKeepsRuntime` | a ready runtime survives, and "completed" is ready, unless a load crossed the swap; no gigabytes are left behind |
| `AcceptedSettingsStay` | accepted parts stay while the file is written under the lock, accepted keys in the storage while nothing slipped; bindings resolve |
| `SecretsAreKept` | untouched keys can be read; no key is readable in the file once a caller was answered; the keys of removed services are gone once no command is under way and nothing slipped |
| `UpgradeKeepsProbed` | "ready" was probed; what was verified is not downloaded again |
| `StartIsAsTold` | what the preflight allows is served; diarization and devices as told; a complete setup is enough; fallbacks stay on the machine |

The others stand alone. The type invariants are conjuncts of these. Every property of a passing run has a mutant: a definition with a
plausible bug that breaks the property under the run's own configuration.

### Why the bounds are enough

Jobs of the AI service meet only in the selection, the capacity check and the
competition of two requests for one UUID, which two jobs and two requests give; a
second session follows a stop or a crash in every state of the first. A run of the
pipeline shares nothing with another run but the gate. Two desktop jobs and the
companion make a queue with one waiter behind another. Two phones' jobs and a table
for one make the table full, and the older job is evicted exactly when it has ended.

Five chunks in processes of three make a full and a partial group, so a
group follows a failed one and a retry has one, two or three chunks. Three window
sizes over a recording of four units give a plan that fails, a smaller one that
starts at the committed rows, and a last size after which only the CPU is left. Two
summaries over two texts and two modes with a cache of two and up to three notes each
evict each other's, and their synthesis is asked for with clipped notes twice; that the
first request is about the first text and mode (`NamedRequests`) is a renaming. The
samples are every recording of 12 units that are loud or not (Whisper) and of 11 units
that are loud or quiet, from every place to resume (Parakeet), every text of up to six
characters of four classes, and every list of three segments over two texts, five times
and three languages, so that times are missing, reversed, repeated or touching
(`TextSamples`).

A list of one artifact and three jobs put a recording out of reach of a scan. One
command beside the saving job is a connection that is open when another one closes.
Two sessions and two engines make a start while a stop is under way; one word per
source and two chunks fill the queue of one. Two editors, two diarizations and one
cancel are a late write after another writer and a cancel of a run that was replaced;
a third chat turn waits while the answer of the first is lost. Two installations, so
that the second finds what the first left; two backups, so that one is not the
newest; a pinned model, an ordinary one and an encoder. Four releases are all
combinations of a changed runtime and a changed program.

`MaxSessions`, `MaxGeneration`, `MaxServers`, `MaxScans`, `MaxLooks`, `MaxJobs` (in
AutomaticImport), `MaxChanges`, `MaxInstalls`, `MaxAttempts`, `MaxDamages`, `MaxMoves`,
`MaxProbes`, `MaxWords` and `MaxChunks` bound the exploration and are guards;
`MaxUnacknowledged`, `MaxRecords`, `MaxJobs` (in CompanionJobs), `ListLimit`,
`QueueSize`, `MaxBacklog`, `RestartAfter`, `CacheMax`, `ChunkCount`, `PerProcess` and
the thresholds of AudioPlans and Transcripts are limits of the code made small.
`MaxBackups` bounds what may be found in the directory of the diarization runtime.

Left out of `MCRuntime` on purpose: an installation of the diarization runtime with a
disk that fails in more than one installation or before a crash. There the code can lose
what it moves (section 5, `provisioning.rs:446`). Of several loads of the settings that
may be in the recovery at once, only one is.

`CHECK_DEADLOCK FALSE` is in every configuration because every one of these
systems may stop: bounded jobs end, a closed service stays closed, a crashed
import is over. What must not stop is stated as liveness.

Symmetry is used in `ai_safety` and `imports` only, which have no liveness property.

### Fairness

* CompanionAi: weak fairness of each job's task and of closing a session. Every
  await of the task is bounded: the gate by the token, the model by its timeout.
* FileTranscription: weak fairness only of a run noticing its own cancellation
  (`tokio::select!` in `run_cancellable`). The programs may hang forever.
* TranscriptionJobs: weak fairness of both halves of a job, of the programs it
  waits for, and of the companion leaving the gate. ffmpeg (300 s), pyannote
  (1800 s), the engines (idle timeout) and the AI clients (60 to 90 s) are all
  bounded.
* CompanionJobs: weak fairness of an upload ending (30 s per frame), of tasks,
  of a run noticing its cancellation, of the accept loop and of `LoopEnds` and
  `StopReturns`. `Drain` has strong fairness: requests still in a connection
  when the loop breaks can put jobs into the table, but at most eight
  connections are open then with one request each (`keep_alive(false)`).
  Nothing is assumed of programs or of the desktop, so `StopEnds` holds while
  they hang.
* LiveSessions: weak fairness of each stop's task and of the start that holds the
  guard, both of which wait with timeouts, and of a Parakeet capture thread that
  has been told to end. Nothing is assumed of the user or of the decoder, nor of the
  library that loads a model: after 90 seconds the start joins its thread without a
  bound (`parakeet_realtime.rs:311`), and `StartIsAnswered` excepts a start whose load
  does not return.
* ArtifactWork: weak fairness of the steps of a diarization; the program it runs
  has a timeout.
* Provisioning: weak fairness of the installations, of a load and of a batch of
  downloads, once they have begun: each is on a thread of its own, and downloads and
  probes have timeouts.

## 4. Proofs

`CompanionAiProofs` proves, for every set of jobs, requests and providers and
all limits:

* `TypeCorrect`: `Spec => []TypeOK`.
* `Durability`: `Spec => []IInv`, where `IInv` is `TypeOK` and `Durable(id)` for
  every job.
* `ReportedOutcome` and `ShownResult`: `ReportedOutcomeIsDurable` and
  `ShownResultIsKept`, from `IInv`.
* `TombstoneForever`: the action property `TombstoneIsFinal`, from `IInv`.
* `Serviced` and `ServedOnce`: `Spec => []ServedInv` and from it
  `EachJobIsServedOnce`.
* `LedgerRefinement`: `Spec => LedgerSpec`, that the service implements AiLedger.

Why `IInv`. Neither safety invariant is inductive: whether a save may overwrite
a file depends on what the task holds and on whether memory still agrees with
the file. `Durable(id)` says, of one job, which pairs of memory and file are
possible at each stage of its task and session, what was shown, and that an
acknowledged file has an acknowledged or absent record in memory or an attempted
acknowledgement. The shape lemmas (`TaskShape`, `SubmitShape`, `ChangeShape`,
`SelectionShape`, `SessionShape`) say once for each group of actions what it
does to one job's record, file and task: it leaves them alone, or it is one of a
few writes. `StepShape` joins them, so the inductive step `DurableStep` is over
those few cases instead of every action.

Why `ServedInv`. That the model is asked once needs that a task which has yet to ask
belongs to a job nobody was asked for, although its record may be dropped, evicted,
reloaded or taken by another request meanwhile: `Tracked(id)` ties the count, the task,
its lease, its token and both copies of the record together. `Probed` says that a probe
which is still of this generation is of the selected provider. `LedgerInv` adds
`Owned(id)`, that memory and file never disagree about the request that owns the UUID.
The refinement proof maps each shape of step to one action of AiLedger or to a stutter;
restarts, crashes and failed saves are stutters or its own steps of forgetting.

`FileTranscriptionProofs` proves, for every set of jobs and requests, every
duration and every number of enhancers:

* `PipelineInvariant`: `PipelineSpec => []PipelineInv`, and from it
  `PipelineTypeCorrect`, `OutcomeIsTrue`, `HundredIsTrue` and, joining them,
  `ArchiveIsTold` (`ArchiveIsToldTruly`).
* `NeverFalls` and `Survives`: the action properties `PercentNeverFalls` and
  `TranscriptSurvives`.

Why `PipelineInv`. What a run reports and what the archive holds are changed by
two tasks, the run and its blocking save, of which either may end first.
`Agrees(run, save, artifact)` says for one job which ends go together: a save
that still runs under an ended run means a cancellation, a committed artifact is
the one the run had computed, 100 per cent means `ok`. The functions that compute
the next record (`Update`, `ToAi`, `AfterSpeech`, ...) have one lemma each, which
says that they advance the record (`Advances`), so no step expands more than one
of them. `GoodStep` carries the action properties through the same proof.

`DesktopProofs` proves of the desktop's jobs, for every set of jobs:

* `JobsInvariant`: `Spec => []JobsInv`, and from it `HeavyWorkIsSerial`,
  `PermitHasOwner`, `JobsAreRegistered`, their conjunction `GateAgreesWithRegistry`
  (`GateAndRegistryAgree`), and `WindowIsToldTheTruth` (`AnnouncedIsTrue`).

Why `JobsInv`. A task acquires the permit at its own step or when another client
gives it back, so the owner of the permit is only known from the queue:
`QueueAgrees` says that nobody is in the queue twice or while holding the permit,
and that the task of a queued job waits. `TaskAgrees(j)` says of each place of
the task what its run is, who may hold the permit between its arrival and its
release, and what may have been announced. Steps of the pipeline keep all of this
by `IdleAndDoneStay`: a run that has not begun or has ended is moved by nobody
else. The facts about the gate's queue (`WaitFacts`, `PassOnFacts`,
`RemoveAtFacts`, `AbandonFacts`) do not mention jobs' tasks.

It proves of the settings, for every set of commands, remote services and files that
there may be at the start:

* `KeysSurvive` (`SettingsSpec => [](UntouchedKeySurvives /\ ReturnedIsRedacted)`) from
  `SecretInv`, and with `RemovalInv` `SecretsKept`
  (`SettingsSpec => []SecretsAreKept`).
* `PartsStay` (`SettingsSpec => [](SettingsTypeOK /\ AcceptedPartsStay /\
  BindingsResolve)`) from `PartsInv`: what was accepted of every part of the file stays,
  whichever callers there are and whatever fails or crashes, as long as nobody writes the
  file past the lock.
* `AcceptedStays` (`SettingsSpec => []AcceptedSettingsStay`) from `KeysInv` beside it: of
  the keys as well, with any commands that change keys side by side.

Why `SecretInv` and `RemovalInv`. A key lives in two stores and in the hands of every
command under way, most of which hold a redacted copy that says only "there is one".
That a save of such a copy loses nothing needs that the storage has the key by then
(`KeptFor`), hence that no load goes on before it has stored what it found (`Origins`,
`ReadTruly`); and that a service missing in the copy was really removed by someone
(`Present`). `RemovalInv` is about the lock: only a caller that writes without it, the
factory or a reader that found keys in the file, can have read the file before a removal
and store a key after it (`Stray`), and the one that holds the lock has in hand the
services that are in the file (`LockHolder`). A load that writes without the lock before
any change has begun passes none (`Begun`), so old files are migrated within the property.

Why `PartsInv` and `KeysInv`. That a part stays is about the one caller that holds the
lock: from its read of the file to its save, the record in its hand has every accepted
part but the ones that it is about to change itself (`HolderAgrees`), and its copy of the
whole settings does not count until it is merged. That needs that normalising a record
moves no part, hence that flat fields and sections agree about the transcription and that
no binding is to a missing template (`Settled`); the lemmas on each function of the record
(`ParsedParts`, `SetKeyParts`, `NormalizedParts`, ...) say it of one function at a time. Of
keys, an accepted one is in the storage unless the holder of the lock is about to change
it (`Owes`). `HolderHasKeys` says what the holder has in hand while it loads, merges and
stores. Of a key it means to change, it says just what the key is to be (`Exact`). Of any
other, it has the key or says "there is one", of which the save makes the key again
(`Carries`), or at least nothing that would overwrite or remove it (`Spares`). For a window
that last part needs that a copy it sends back has no key in it and names no service that
was never in the file (`CopiesInv`), and that it does not say "no key" where there is one,
which the code does not give: the AI section that a window sends back was read before the
lock was taken. Saves of such a section are counted as a slip ("stale"; section 5).

`FileTranscriptionProofs` ends with these facts about the gate; both clients' proofs
cite them. `CompanionJobsProofs` proves, for every set of jobs, every size of the table
and every number of servers:

* `TableInvariant`: `Spec => []TableInv`, and from it `PhonesReadTheTruth`
  (`TableIsTrue`) and the action property `PolledStatusAdvances` (`StatusAdvances`).

Why `TableInv`. That an upload which fails may write its outcome needs that no task has
begun; that a task may write needs that its entry still is what the task last made it
(`JobAgrees`). That nothing holds the gate after the accept loop needs that everyone in
the queue is a task that waits (`QueueAgrees`), and that the table of a server that
ended has no work needs how far the loop has come (`ServerAgrees`). `TableFits` is the
bound itself: an entry is evicted before one is added. Of the run only one thing
matters, that nothing leaves the archive.

`EngineProofs` proves what the three parts of an engine's work promise, and what the
scans that start transcriptions by themselves do:

* `SpeechIsHeardOnce` (`WhisperSpec => []WhisperHearsSpeechOnce`), for any number of
  chunks and any size of a group, from `WhisperInvariant`. That nothing is replayed or
  dropped follows only from where the loop is. All groups before the one under way
  (`Past`) are confirmed and their speech is in the texts; in the group every chunk is
  either still given to a process or confirmed, and confirmed speech is split between
  what this attempt holds and what the attempt on the GPU left (`kept`). The lemmas on
  division (`GroupNumbers`, `GroupsTile`) say that the groups are a partition.
* `RecordingIsHeardOnce` (`ParakeetSpec => []ParakeetHearsSpeechOnce`), for every length
  of a recording and all window sizes, from `ParakeetInvariant`. Rows tile the recording
  only because each worker was given a plan that begins where they end: the rest of the
  plan is a chain from the end of the rows and, unless it is the one window tried by
  itself, reaches the end of the recording, so an emptied plan means complete coverage.
* `SummaryIsOwn` (`SummarySpec => []SummaryIsOfItsText`), for every number of requests,
  of chunks and of notes that the cache keeps, from `SummaryInvariant`. A request may
  take a note that another request made, so the cache has to be true by itself
  (`CacheIsTrue`: a note is about what its key says), and `Follows` says which chunks a
  request has noted before it has them all, how many of the notes a prompt shows, and
  that a way which leaves the chunks out is one with a single chunk.
* `EachScanQueuesOnce` (`WatchSpec => []ScanQueuesOnce`), for every number of paths, scans,
  jobs and listed artifacts, from `ImportInvariant`. What was archived when a scan began is
  carried into its list, or has as many newer artifacts behind it as the list is long,
  and from the list to what the scan queues.

`LiveSessionsProofs` proves, for every number of sessions, words and chunks and every
size of the queue and the backlog:

* `LiveInvariant`: `Spec => []LiveInv`, and from it `OneSession` (`OneSessionAtATime`)
  and `SavedIsHeard` (`SavedSpeechIsTrue`).

Why `LiveInv`. What is saved is a copy that was taken while readers or the capture
thread may still have been at work, so the invariant is about the engines first.
`StreamIsTrue`: no word is in the buffer twice, what this session said has its segment,
a preview that became a line is the last one, no word is of a session to come, and a
failure is noted or the child that failed is still owned. `EngineIsTrue`: every chunk
that was recorded is silent, in the text, being decoded or queued, unless the engine
knows that it lost one. The commands hold ids they read before an await:
`CaptureIsKnown` says that only the session that is active or starting captures,
`FinaliserIsKnown` that the sessions in `stops` are those with a finalising task, that
there is at most one, and that no start came between it and the engine it waits for.
`KeptIsTrue` carries the truth of a text from the copy to the archive.

`ArtifactWorkProofs` proves, for every set of artifacts, editors, diarizations, cancels,
chat turns and rows of an old database:

* `ArtifactsInvariant`: `Spec => []ArtifactInv`, and from it `NothingIsEverLost`
  (`StoreLosesNothing`), `LateWorkIsKnown` (`LateWorkIsAccountedFor`) and
  `AnswersFollow` (`AnswerFollowsQuestion`).

Why `ArtifactInv`. An update writes back a whole map it read earlier, so no edit is lost
only because the view it read is the row's own as long as the row has that revision
(`ViewsAreFresh`). `RowsShowAccepted` holds of rows in the trash too, which no property
looks at until they are restored; `RecordingsAreKept` and `TrashIsOfRows` say where a
recording is while the trash is emptied; `MigrationIsWhole` says that the migration has
in its copy, and in the vault, all it has dealt with. `CallsInv` ties an update under way
to the command that waits for it, and `ChatInv` has the lock: a question that waits for
its answer is the last message of an artifact whose lock its turn holds.

`ProvisioningProofs` proves, for every set of versions, any number of installations and
every set of models:

* `RuntimeInvariant`: `ProvisioningSpec => []RuntimeInv`, and from it `AllOrNothing`
  (`InstallIsAllOrNothing`).
* `RetrySucceeds` (`ProvisioningSpec => []RetryInstalls`) from `NothingInTheWay`.
* `RepairIsSafe` (`ProvisioningSpec /\ (Takes("pyannote") => Fits) =>
  [](ReadyRuntimeSurvives /\ CompletedIsReady /\ (~crossed => NothingLeftBehind))`) from
  `RepairInvariant`, for every directory there may be at the start.
* `ProbedIsKept` (`UpgradeSpec => []UpgradeKeepsProbed`), for every sequence of releases
  and whatever directories there are at the start, from `UpgradeInv`.
* of BackupImport `OldArchiveIsKept` (`BackupSpec => []OldArchiveSurvives`) and
  `OneArchiveIsLeft` (`BackupSpec => []ImportIsOneArchive`), from `BackupInvariant`.
* of StartChecks `StartsAreAsTold` (`ChecksSpec => []StartIsAsTold`), for every set of
  machines and settings, from `StartInvariant`.

Why `RuntimeInv`. The property says what a recovery would make of the directories now,
and a recovery itself takes steps. `DirectoriesAre` says at each step of the installation
which of live, backup and new directory hold what, and what its journal has of them;
`JournalIsTheirs` that the journal on the disk is that one at every stage of its own
replacement; `JournalIsTrue` that a backup is never without a journal that knows it;
`RecoveryGoesOn` how far a recovery has come, so that a second crash may begin it again;
`SlotIsHeld` that a recovery and an installation never run side by side.
`NothingInTheWay` says that nothing that is to be downloaded lies where it would be
refused, but for the archives that a failing disk or the end of the program has left
(`stranded`), which holds of a batch only because every earlier one cleaned up.
`UpgradeInv` is that a receipt,
sound or not, stands only beside a content that was probed; what makes it enough is
`ReadyHasReceipt`, that none of the nine reasons of the health lets a directory without a
receipt pass.

Why `RepairInv`. The property is about rest, when no installation and no load is under
way; in between the runtime is in one of two places. `JobIsAt` says for each step of the
installation which of directory, backup and stage there are, and that what was ready is
untouched or in the one backup; `Recoverable` says the same of a load at each point of
its recovery, which may find what a crash left or come between any two steps of an
installation: the directory `Stays`, or the backup is ready and will replace it
(`Yields`). `Over` says what is left where no installation runs. Two things are left out,
and TLC finds the property violated with either. A load that comes across the swap itself
(`crossed`): it finds the backup before its mark or the stage without one, or takes the
mark that a recovery after a crash goes by (section 5, `lib.rs:3153`); the properties name
this exception. And `Fits`, on who takes part, is the theorem's hypothesis: where the
program ends, the disk obeys; where the disk fails, one installation runs. Where a swap or
its rollback fails, and the recovery after it too, the runtime is only in the backup, the
next installation in the same or another run of the program finds none that is ready, and
removes the backup when it fails (section 5, `provisioning.rs:446`).

Why the invariant of an import (`BackupInv`). What is on the disk when an import ends,
or when the program does, depends on which of the renames and removals happened.
`NotBegun`, `MovingOut`, `MovingIn`, `InPlace`, `Removing`, `MovingBack` and `BackInPlace`
say at each step, of each path the loop has passed or not, where the old archive and the
new one are. A command may open the database in the gap of the swap: what it makes there
is blank, and beside a database of either archive a side file of that archive. What the
loops say of the database and the vault holds whatever commands do; what they say of side
files, as long as none changed the directory between two renames (`disturbed`), because
nothing in the code keeps commands out. Of a path that a failed swap has not moved out
nothing can be said while that is undone: the restore removes it (section 5, run
`backup_swap`), so `OldArchiveSurvives` speaks then of the paths that were moved.

Why the invariant of a start (`StartInv`). What the window was told is older than what the
builder reads. `ProbesAreTrue` says of a remembered probe that succeeded that it has seen
what its key and the history beside it say; `WindowIsTrue`, of a window that was let through
with nothing changed since, that what let it through is there still; `StartIsTrue` carries
it to the job. `DevicesAreHonoured` and `CompleteIsEnough` hold of every machine and every
choice, and are lemmas on the operators of Readiness. That fallbacks stay on the machine is
`FallbacksStay`, on EnhancerChain alone: a service is listed as a fallback by its id, and as
ids differ the one that is built is the one that was found to be local.

Assumptions. Only those on constants, in the modules that declare them, and TLC
evaluates each in a run: sets of names are disjoint where the code uses different types
(`NoneAssumption`, `NobodyIsNone`, `NamesAreDistinct`, `ClientsAssumption`,
`UnsetIsNoValue`), limits are numbers, positive where the code's are
(`LimitsAssumption`, `MaxJobsAssumption`, `WhisperAssumption`, `ParakeetAssumption`,
`SummaryAssumption`, ...), each session may have either engine (`EnginesAreJobs`), what is
found at the start has a version or is absent (`RuntimeAssumption`) or has the fields of
a runtime directory (`DirectoriesAssumption`) and no mark of a running installation
(`PyannoteAssumption`), models and encoders are finitely many
different files (`ModelsAssumption`), and so are the paths of watched folders
(`PathsAssumption`). Machines and settings of a start have their fields, and no two remote
services have one id, which the window draws at random (`App.tsx:2324`;
`MachinesAssumption`, `SelectionsAssumption`): with two of one id a fallback could be
another service than the one that was looked at. Of the settings: the commands are the ones the program has
(`KnownCallers`), Google's services are among the services and no service has the name of
a part (`KindsOfServices`), the texts
that the code writes are texts (`TextsAssumption`), and the file at the start is one that
versions of this program have written (`StoredAssumption`): flat fields and sections
agree, no task is bound to a missing template, and no key is stored before there is a file. The last one excludes a
settings.json that was removed by hand while keys were stored; the defaults that are
written then know of no key, and the next save drops Gemini's. No proof depends on the
bounds that keep an exploration finite.

Only model-checked:

* Liveness (`PendingSettles`, `StopCloses`, `CancelEndsRun`, `StartedJobEnds`,
  `StopEnds`, `LiveCommandsAreAnswered`, `RunsEnd`, `SlotIsFreed`): it rests on fairness
  and ENABLED, which the prover does not handle.
* `PlansCoverSpeech` and `WordsAreKeptOnce`: what recursive definitions compute, over all
  inputs, would need induction over data.

## 5. Disagreements

With a run that shows each:

* `backup_swap`: a swap that fails while it moves the old archive out makes the restore
  remove what was not moved yet, of which there is no other copy
  (`commands/backup.rs:735`; the test at `:1058` expects the restore to succeed, `:1066`,
  and the old vault to be restored, `:1073`).
* `backup_saved`: a transcript saved during an import disappears, although imports are
  refused while transcriptions are active (`commands/backup.rs:378`, `:381`).
* `parakeet_recovered`: a window without words that is repaired by itself uses up one
  of the window sizes. At the last size the job fails with the rest of the recording
  never given to a worker (`parakeet_cpp.rs:3366`, comment `:3344`).

Met while modelling, without a run of their own. The modules contain the behaviour
unless it says otherwise.

**Companion AI and server**

* `companion_ai.rs:187`: a failed acknowledgement may have erased the payload on disk;
  `docs/companion-ai-v1.md:45` says it is retained.
* `companion_ai.rs:703`: a submission refused with a storage error may leave a
  file that the capacity check, on memory, does not count; a restart then refuses
  the whole store.
* `companion.rs:454`: a request dropped while its file is flushed leaves a job
  that DELETE does not end; `docs/REPOSITORY_STATE.md:17` says it cancels.
* `companion.rs:176`: one failed accept ends the accept loop; the server stays
  "running" and no phone can connect.

**Desktop jobs and the pipeline**

* `transcription.rs:299`: a task that ends before its token is inserted stays in
  the registry, and backups are refused until a restart.
* `transcription.rs:317`: a cancelled job leaves the registry while it still
  works or commits. `:219`: a job cancelled while it waits for the gate ends
  without an event.
* `transcription_service.rs:228`: a detached reader moves the progress of a job
  that has been cancelled.
* `App.tsx:8834`: after two minutes without an event the window gives a job up that
  still runs (not modelled).

**Engines and text**

* Whisper: a chunk that was missing once and is silent in its retry gives an "empty
  output" error that names no missing chunk, so its group goes to the CPU or fails. There
  the CPU is given confirmed chunks without speech once more, although `whisper_cpp.rs:1665`
  and `:2117` say that what is confirmed is never replayed; a
  group of chunks in which nothing is heard fails the job although an empty JSON is
  "confirmed coverage". A timeout or a failed spawn ignores what was written.
* Whisper: a cut may end up to the search window (one second) past the limit of a chunk,
  though `whisper_cpp.rs:35` keeps the limit below the model's context of 30 seconds; a stale progress line moves the cursor of the next group (not modelled).
* Parakeet: with an unknown total, rows that already cover everything make planning
  fail the job instead of ending it. The merge drops a word that was spoken twice
  within the tolerance at a seam, though the comment `parakeet_cpp.rs:3524` calls the merge
  lossless. Two overlapping Whisper chunks that disagree about the language of an utterance
  keep both copies of it.
* `summary_pipeline.rs:373`: the synthesis of a long transcript is asked for with the first
  12,000 characters of the notes at most; the notes on its last chunks are dropped and
  nobody is told.
* `transcript_cleanup.rs`: the composed text drops a repeated line whatever lies
  between, the timeline keeps it when it comes later than the gap.
* `transcript_segmentation.rs`: the split of plain text can exceed its limit by one
  letter and cuts at the first letter of a full segment's last word; merged segments ignore
  speakers (not modelled).

**Backup**

* `sqlite_artifact_repository.rs:292`: nothing keeps commands out of the data directory
  during an import. One that opens the database between two renames leaves side
  files beside a database of the other archive; a save that copies audio then leaves a
  vault, onto which the vault of the backup cannot be renamed.
* `backup.rs:364`: whether the old settings could be saved again is not checked.

**Automatic import**

* `automatic_import.rs:244`: a file whose job has not finished is queued again by
  the next scan, or by one of another window at the same time; `:249`: artifacts beyond the 500 newest are forgotten; `:126`: a
  new recording at the path of an old one is never queued; `:511`: a scan puts
  back settings the user changed while it ran; `:612`: a failed file loses its place
  in quarantine, while `docs/github-backlog/issues/08...md:40` says failures expose
  reason and retry.

**Live sessions**

* `realtime.rs:682` tells the user to stop a session that awaits recovery; after the
  preview of a Parakeet session degraded, every stop returns the same error and keeps the
  session, which can be neither ended nor replaced until a restart. `:1191`: a save that fails after the metadata was cleared
  loses the transcript. `:1083`: a second stop saves a Whisper transcript again.
* `parakeet_realtime.rs:311`: a start that has timed out joins its thread without a bound
  and keeps the transition guard: if the library's load does not return, no session can be
  started, nor this one stopped, until the program ends.
* Pause, resume and load take no transition guard: a load runs over a running session.
* `parakeet_realtime.rs:1001`: audio of a pause counts as backlog; `:200`: a resumed
  session forgets the text it was given; `:1241`: a restart that fails frees the stream
  twice, and the recorder is not joined although `:1036` says it is. A stream that fails
  to begin leaks its context.

**Artifacts**

* `artifacts.rs:1660`: a question whose answer was never stored stays at the head of the
  queue that pairs turns; later answers are paired with the question before theirs in the
  history sent to the AI, while the test at `:4850` is named for correct pairs. `:684`: a status that cannot be saved leaves the
  diarization registered without a task. `:962`: a cancel between the last check and
  the last write is overwritten by "completed". `:943`: a run that was replaced reports
  over the "running" of the new one. The status "running" survives a crash.
* A late diarization overwrites edits of the timeline; a pack or an emotion analysis is
  attached to a transcript that is newer than what it read; an artifact that went to
  the trash is "completed" without speakers.
* `sqlite_artifact_repository.rs`: a hard delete of several removes the audio before the
  conditional delete of the row; a purge, a failed save and a failed migration leave
  vault files; one row that cannot be decrypted fails every list; one old recording
  that cannot be read ends every start. Removed metadata of an analysis comes back from
  its own row.

**Settings**

* `settings_service.rs:17`: a load takes no lock, and a load that migrates writes: it
  overwrites a concurrent save and can bring a deleted key back. The factory's load,
  probe and save go past the lock as well. When the program ends while such a load is
  storing keys, the key of a service that was removed meanwhile stays in the storage
  (three callers, for example `transcription`, `ai` and `whole` over a file with keys).
* `settings_service.rs` and the repository go by `settings.json`: where it is missing
  while keys are stored, the defaults say that there are none and the next save removes
  Gemini's. `StoredAssumption` leaves it out.
* `fs_settings_repository.rs:115`: secrets are written before the file that refers to
  them. A stored Gemini key turns the provider "none" into Gemini again;
  `update_ai_settings` cannot clear that key; a custom template may take a built-in id.
* Two windows that save the whole settings: the last wins with its stale copy.
* `settings_service.rs:17`: the lock covers the load of a command, but not the AI section
  that a window sends back. A window that read "there is no Gemini key", or no such
  service, before another command stored one erases it with its save. The model has it,
  from a fresh installation too; `AcceptedKeysStay` and `RemovedLeavesNoSecret` say nothing
  of runs in which it happened.

**Provisioning, readiness, updates**

* `provisioning.rs:4488`: the archive of an encoder that could not be removed, or was
  left by a crash, makes every retry refuse to overwrite it (test `:4973` is named for
  the opposite).
* `lib.rs:3153`: a load of the settings, which every command makes, takes an installation
  that is under way for an interrupted one. During the long probe of the new runtime it
  finds only a backup of this process and clears the pending mark; if the program ends
  then, the next load takes the unproven runtime for good and removes the backup
  (`:3197`), although `lib.rs:3102` and `provisioning.rs:631` say that the backup is kept
  until the new runtime is committed. Between a rename and the owner's mark it moves or
  deletes the stage or the backup itself. The mark is a process id, which may be taken
  again.
* `provisioning.rs:446`: an installation that fails where no directory was ready removes
  every backup, one too that an earlier failed swap could not put back.
* Between the two moves of an installation the directories bin and lib are of two
  versions; nothing reads the cancel token after the download. Part files and backups of
  models stay after a crash.
* `lib.rs:2005`: after an update of the program the import of torch has 180 seconds; a
  slow import of a runtime that was verified plans its download again. A release that
  cannot be fetched leaves the old version in the manifest, and the next request
  downloads everything, while `provisioning.rs:1185` says it does not. A first install that
  is cancelled is never offered again.
* `runtime.rs:204`, `:605`: the cache of probes is keyed without the worker and keeps
  failures for five minutes: the preflight allows a start whose service then cannot be
  built. The preflight checks the engine of the request, the builder takes the settings'
  engine and model and looks for no Whisper model; the health page does not look for
  the worker; the setup is "complete" without a Parakeet model.
* `lib.rs:3561`: `[::1]` is not taken for a local service. The remote service that is
  selected is used although the provider is "none". The plan compares the name of the
  device with its case, the builder without.
* `App.tsx:8608`: without an answer of the preflight in 8 seconds the window starts
  anyway.

## 6. Not modelled

* Prepared and trimmed imports, the updater: one command without concurrent state.
* The window's queue, its watchdog, editors, rendering and localisation.
* TLS, pairing, the limit of eight connections, the readiness probe of the companion.
* What programs print and how it is parsed, prompts and answers, audio samples beyond
  a level per unit, scores of emotions, checksums, archives, encryption.
* The export of a backup, the export of documents; reads that change nothing.
* Previews of the engines, short recordings of Parakeet, WhisperKit; speakers and
  languages of segments.
* More than one load of the settings at a time in the recovery of the diarization runtime.
* In AutomaticImport: writes of the settings that fail, statuses per source, activity.
* A second upload under a UUID whose evicted job still works.
* Migration of an old diarization runtime and its embedded script.

## 7. Plan

Done, in this order: CompanionAi with AiLedger; FileTranscription, Gate,
TranscriptionJobs; CompanionJobs; BackupImport; AutomaticImport; LiveSessions with both
engines; ArtifactStore and ArtifactWork; Provisioning with its parts and Settings; the
engines, summaries and text; Readiness, PyannoteUpgrade and StartChecks.

Left, most useful first:

1. An abstract register of the settings that Settings implements where no load
   migrates, and an abstract archive (save, edit, delete) that ArtifactWork implements.
2. The window's queue against the events of TranscriptionJobs, with the watchdog.
3. Several loads of the settings at once in the recovery of the diarization runtime, and,
   once the code tells an installation of its own process from an interrupted one, the
   repair without the exception for crossings.
