----------------------------- MODULE Readiness ------------------------------
(***************************************************************************)
(* What the app concludes from the programs, models and bundles it finds:  *)
(* which program is used, whether it runs, what is told to the window, and *)
(* what the builder of the transcription service makes of the same files   *)
(* (RuntimeTranscriptionFactory, fluid_diarization_runtime.rs, the         *)
(* readiness commands).  All of it is a function of the machine and of the *)
(* settings; StartChecks has the steps between which they change.          *)
(*                                                                         *)
(* The machine: policy ("managed" or "dev"), host, lib (the libraries of   *)
(* the managed programs), files[place][program], models[name], encoders,   *)
(* bundle (FluidAudio) and pyannote (the directory of PyannoteHealth).     *)
(***************************************************************************)
EXTENDS PyannoteHealth, FiniteSets

Programs == {"ffmpeg", "whisper-cli", "whisper-stream", "parakeet-cli", "parakeet-batch-json"}
ParakeetPrograms == {"parakeet-cli", "parakeet-batch-json"}
Engines == {"whisper", "parakeet"}

\* A program: "usage" ends with an error and its usage text, "failing" with an
\* error alone, "hanging" does not end in time, "shallow" starts and answers, but
\* does not transcribe (for the worker: no interval that begins after zero).
ProgramStates ==
    {"missing", "noexec", "unstartable", "failing", "usage", "hanging", "shallow", "good"}
Executable(f) == f \notin {"missing", "noexec"}

AnswersProbe(p, f) == f \in {"good", "shallow"} \/ (f = "usage" /\ p \in ParakeetPrograms)

\* verify_managed_runtime_binary, with 45 seconds for ffmpeg and 15 for the others:
\* what still runs then counts as available.
VerifyManaged(here, p) ==
    LET f == here.files.managed[p] IN
    Executable(f) /\ here.lib /\ (AnswersProbe(p, f) \/ f = "hanging")

\* is_runnable_binary_file: 2 seconds, for ffmpeg 3 and still running is enough.
Runnable(p, f) == AnswersProbe(p, f) \/ (f = "hanging" /\ p = "ffmpeg")

(***************************************************************************)
(* Which program is meant.  A setting names a place of its own ("path") or *)
(* the program ("name"); "legacy" is a WhisperKit path or none.            *)
(***************************************************************************)
Sanitized(reference) == IF reference = "legacy" THEN "name" ELSE reference

SearchedPlaces(reference) ==
    IF reference = "path" THEN <<"configured">> ELSE <<"managed", "host">>

\* The first that runs, or else the first executable, or else the first file.
FindCandidate(here, p, reference) ==
    LET places == SearchedPlaces(reference)
        where(Test(_)) == {i \in DOMAIN places : Test(here.files[places[i]][p])}
        first(is) == places[CHOOSE i \in is : \A j \in is : i <= j]
        runs(f) == Runnable(p, f)
        isFile(f) == f # "missing"
    IN  CASE where(runs) # {} -> first(where(runs))
          [] where(runs) = {} /\ where(Executable) # {} -> first(where(Executable))
          [] where(Executable) = {} /\ where(isFile) # {} -> first(where(isFile))
          [] OTHER -> "nowhere"

RunsAt(here, p, place) == place # "nowhere" /\ Runnable(p, here.files[place][p])

Resolve(here, s, p) ==
    LET own == FindCandidate(here, p, Sanitized(s.path[p]))
        other == FindCandidate(here, p, "name")
    IN  IF here.policy = "managed" THEN "managed"
        ELSE IF RunsAt(here, p, own) \/ other = "nowhere" THEN own ELSE other

Available(here, s, p) ==
    IF here.policy = "managed" THEN VerifyManaged(here, p)
    ELSE RunsAt(here, p, Resolve(here, s, p))

(***************************************************************************)
(* Health.                                                                 *)
(***************************************************************************)
ManagedReady(here) == \A p \in Programs : VerifyManaged(here, p)

\* The worker beside a Parakeet program of the user's own is not looked at.
EnginePrograms(here, engine) ==
    IF engine = "whisper" THEN {"ffmpeg", "whisper-cli", "whisper-stream"}
    ELSE {"ffmpeg", "parakeet-cli"}
           \cup {p \in {"parakeet-batch-json"} : here.policy = "managed"}
ToolchainReady(here, s) == \A p \in EnginePrograms(here, s.engine) : Available(here, s, p)

InstallComplete(here, s) ==
    IF here.policy = "managed" THEN ManagedReady(here) ELSE ToolchainReady(here, s)

\* The names stand for the files setup requires; that of live use is checked in
\* full where live use asks, for the others there is a file or none.
SetupModels == {"tiny", "base"}
SetupComplete(here, s) ==
    /\ ToolchainReady(here, s)
    /\ \A m \in SetupModels : here.models[m] # "absent"
    /\ here.host.apple => here.encoders

ModelInstalled(here, m) ==
    IF m = "tiny" THEN here.models[m] = "whole" ELSE here.models[m] # "absent"
MissingModels(here) == {m \in SetupModels : ~ModelInstalled(here, m)}

(***************************************************************************)
(* Diarization.                                                            *)
(***************************************************************************)
\* validate_bundle: listed is what the manifest says of each file, files what is
\* there; "odd" among them is a link or another thing that is no plain file.
RequiredBundleFiles == {"helper", "revision", "model"}

BundleReasons(bundle) ==
    << <<~bundle.helper, "fluid_helper_missing">>,
       <<~bundle.manifest.there, "fluid_manifest_missing">>,
       <<~bundle.manifest.sound, "fluid_manifest_invalid">>,
       <<~bundle.manifest.arch, "fluid_arch_mismatch">>,
       <<DOMAIN bundle.listed = {}, "fluid_manifest_invalid">>,
       <<\E f \in DOMAIN bundle.listed :
           f \notin DOMAIN bundle.files \/ bundle.files[f] # bundle.listed[f],
         "fluid_checksum_invalid">>,
       <<DOMAIN bundle.files # DOMAIN bundle.listed \/ \E f \in DOMAIN bundle.files :
           bundle.files[f] = "odd", "fluid_manifest_invalid">>,
       <<RequiredBundleFiles \ DOMAIN bundle.listed # {}, "fluid_manifest_invalid">>,
       <<bundle.revision # bundle.manifest.revision, "fluid_models_revision_mismatch">> >>

FluidReason(here) ==
    IF ~here.host.fluid THEN "fluid_unsupported_platform"
    ELSE IF ~here.bundle.there THEN "fluid_bundle_missing"
    ELSE FirstReason(BundleReasons(here.bundle))
FluidReady(here) == FluidReason(here) = "ok"

\* "none": a device that FluidAudio does not know.
NativeCompute(host, device) ==
    CASE device \in {"cpu", ""} -> "cpu"
      [] device = "ane"  -> IF host.apple THEN "ane" ELSE "error"
      [] device = "auto" -> IF host.apple THEN "ane" ELSE "cpu"
      [] OTHER           -> "none"

ChooseBackend(here, d) ==
    LET compute == NativeCompute(here.host, d.device)
        native == compute \in {"cpu", "ane"} /\ FluidReady(here)
        pyannote == PyannoteReady(here.pyannote, 1)
    IN  CASE d.backend # "pyannote" /\ native -> <<"fluid", compute>>
          [] d.backend = "pyannote" /\ d.device # "ane" /\ pyannote -> <<"pyannote">>
          [] d.backend = "auto" /\ ~native /\ d.device # "ane" /\ pyannote -> <<"pyannote">>
          [] OTHER -> <<"error">>

SelectedHealth(here, d) ==
    IF ~d.enabled THEN [enabled |-> FALSE, ready |-> TRUE, selected |-> <<>>]
    ELSE LET chosen == ChooseBackend(here, d) IN
         [enabled |-> TRUE, ready |-> chosen # <<"error">>, selected |-> chosen]

\* build_pyannote_speaker_diarizer; its script is written when it is missing.
BuildPyannote(here) ==
    IF PyannoteReady(here.pyannote, 1) /\ HasPython(here.pyannote) /\ here.pyannote.model
    THEN <<"pyannote">> ELSE <<"error">>

BuildDiarizer(here, d) ==
    IF ~d.enabled THEN <<>>
    ELSE LET chosen == ChooseBackend(here, d) IN
         CASE chosen = <<"error">> -> chosen
           [] chosen = <<"pyannote">> -> BuildPyannote(here)
           [] OTHER -> IF FluidReady(here) THEN chosen ELSE <<"error">>

\* build_speaker_diarizer_for_job: a companion's job brings its own choice.
ForJob(d, asked) == IF asked = "as set" THEN d ELSE [d EXCEPT !.enabled = asked = "yes"]

CompanionDiarizes(here, d) ==
    BuildDiarizer(here, ForJob(d, "yes")) \notin {<<>>, <<"error">>}

(***************************************************************************)
(* The start of a transcription.                                           *)
(***************************************************************************)
\* The program that does the work: Parakeet's worker lies beside its program.
Working(engine) == IF engine = "whisper" THEN "whisper-cli" ELSE "parakeet-batch-json"
EngineProgram(engine) == IF engine = "whisper" THEN "whisper-cli" ELSE "parakeet-cli"
FileAt(here, place, p) == IF place = "nowhere" THEN "missing" ELSE here.files[place][p]

\* A second of silence decoded by ffmpeg and transcribed with the model.
DeepProbe(here, s, request) ==
    LET worker == FileAt(here, Resolve(here, s, EngineProgram(request.engine)),
                         Working(request.engine))
    IN  FirstReason(
          << <<FileAt(here, Resolve(here, s, "ffmpeg"), "ffmpeg") # "good",
               "ffmpeg_decode_failed">>,
             <<request.engine = "parakeet" /\ worker = "missing", "parakeet_worker_missing">>,
             <<worker # "good" \/ here.models[request.model] # "whole"
                 \/ (here.policy = "managed" /\ ~here.lib), "smoke_failed">> >>)

\* What the start preflight says, given what the deep probe said.
PreflightReason(here, s, request, probe) ==
    FirstReason(
      << <<~Available(here, s, "ffmpeg"), "ffmpeg_missing">>,
         <<~Available(here, s, EngineProgram(request.engine)), "engine_missing">>,
         <<here.models[request.model] = "absent", "model_missing">>,
         <<probe # "ok", probe>>,
         <<~SelectedHealth(here, s.diarization).ready, "diarization_not_ready">> >>)
Probes(here, s, request) == PreflightReason(here, s, request, "reached") = "reached"

\* build_service looks at the engine and the Parakeet model of the settings, and
\* at no Whisper model; diarization that cannot be built is left out.
BuildReason(here, s) ==
    FirstReason(
      << <<~Available(here, s, "ffmpeg"), "ffmpeg">>,
         <<~Available(here, s, EngineProgram(s.engine)), "engine">>,
         <<s.engine = "parakeet" /\ here.policy = "managed"
             /\ ~VerifyManaged(here, "parakeet-batch-json"), "worker">>,
         <<s.engine = "parakeet" /\ here.models["parakeet"] = "absent", "model">> >>)

\* Live use is always Whisper's, with the model certified for it, of which the
\* checksum is taken.
LiveHealth(here, s) ==
    [ffmpeg |-> Available(here, s, "ffmpeg"), stream |-> Available(here, s, "whisper-stream"),
     model |-> here.models["tiny"] = "whole"]

LiveReason(health, input) ==
    FirstReason(<< <<~health.ffmpeg, "ffmpeg_missing">>, <<~health.stream, "whisper_stream_missing">>,
                   <<~health.model, "model_missing">>, <<~input, "no_input_device">> >>)

\* build_whisper_stream_engine refuses only a managed program.
BuildsStream(here) == here.policy = "managed" => VerifyManaged(here, "whisper-stream")

\* The runtime of a late diarization: its own ffmpeg check, then the diarizer.
LateDiarization(here, s) ==
    IF ~Available(here, s, "ffmpeg") THEN <<"error">> ELSE BuildDiarizer(here, s.diarization)
=============================================================================
