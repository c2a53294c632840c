---------------------------- MODULE StartChecks -----------------------------
(***************************************************************************)
(* A start of a file transcription in the window: it lets the runtime be   *)
(* ensured, asks for the preflight (at most 8 seconds; without an answer   *)
(* it goes on), and starts a job, which builds its own service from the    *)
(* files and settings of that moment.  Programs, models and settings may   *)
(* change between the steps, and the preflight's deep probe is remembered  *)
(* for five minutes under the stamps of the files it was made with.        *)
(***************************************************************************)
EXTENDS Readiness, EnhancerChain

CONSTANTS
    Machines,      \* what may be installed at the start
    Selections,       \* what the settings may choose
    MaxMoves,      \* bound: changes of programs, models and settings
    MaxProbes      \* bound: probes remembered at a time

ModelStates == {"absent", "corrupt", "whole"}

\* A released app manages its programs, a developer's takes those of the host.
IsMachine(m) ==
    /\ DOMAIN m = {"policy", "host", "lib", "files", "models", "encoders", "pyannote", "bundle"}
    /\ m.policy \in {"managed", "dev"} /\ m.lib \in BOOLEAN
    /\ m.models \in [SetupModels \cup {"parakeet"} -> ModelStates]

\* createRemoteServiceId draws the id of a service at random.
IsSelection(s) ==
    /\ DOMAIN s = {"engine", "device", "path", "diarization", "ai"}
    /\ s.engine \in Engines /\ DOMAIN s.path = Programs
    /\ DOMAIN s.diarization = {"enabled", "backend", "device"} /\ s.diarization.enabled \in BOOLEAN
    /\ DOMAIN s.ai = {"provider", "active", "apple", "gemini", "services"}
    /\ DOMAIN s.ai.services \subseteq Nat \ {0}
    /\ \A i, j \in DOMAIN s.ai.services : s.ai.services[i].id = s.ai.services[j].id => i = j

ASSUME MachinesAssumption == \A m \in Machines : IsMachine(m)
ASSUME SelectionsAssumption == \A s \in Selections : IsSelection(s)

VARIABLES
    here,          \* the machine
    chosen,        \* the settings
    probes,        \* DEEP_RUNTIME_PROBE_CACHE: key -> what the probe said
    window,        \* how far the start is, and what the window was told
    started,       \* the last job: the service it got
    moves          \* bound

checks == <<here, chosen, probes, window, started, moves>>

Requests == {[engine |-> "whisper", model |-> "base"], [engine |-> "parakeet", model |-> "parakeet"]}

\* moved is history: whether anything the checks saw has changed since.
IdleWindow == [at |-> "idle"]
NotStarted == [reason |-> "none"]

ChecksInit ==
    /\ here \in Machines /\ chosen \in Selections
    /\ probes = <<>> /\ window = IdleWindow /\ started = NotStarted /\ moves = 0

Moved == IF window.at = "idle" THEN window ELSE [window EXCEPT !.moved = TRUE]

(***************************************************************************)
(* What changes between the steps.                                         *)
(***************************************************************************)
SomethingMoves ==
    /\ moves < MaxMoves /\ moves' = moves + 1
    /\ window' = Moved
    /\ UNCHANGED <<probes, started>>

PlaceInUse == IF here.policy = "managed" THEN "managed" ELSE "host"

ChangeProgram ==
    /\ \E p \in Programs, f \in ProgramStates :
         here' = [here EXCEPT !.files[PlaceInUse][p] = f]
    /\ SomethingMoves /\ UNCHANGED chosen

ChangeModel ==
    /\ \E m \in DOMAIN here.models, state \in ModelStates :
         here' = [here EXCEPT !.models[m] = state]
    /\ SomethingMoves /\ UNCHANGED chosen

ChangeRest ==
    /\ \/ here' = [here EXCEPT !.lib = ~@]
       \/ here' = [here EXCEPT !.pyannote.model = ~@]
       \/ \E f \in DOMAIN here.bundle.files : here' = [here EXCEPT !.bundle.files[f] = "odd"]
    /\ SomethingMoves /\ UNCHANGED chosen

ChangeSettings == \E s \in Selections : chosen' = s /\ SomethingMoves /\ UNCHANGED here

FiveMinutesPass ==
    /\ \E key \in DOMAIN probes : probes' = [k \in DOMAIN probes \ {key} |-> probes[k]]
    /\ UNCHANGED <<here, chosen, window, started, moves>>

(***************************************************************************)
(* The window's start.                                                     *)
(***************************************************************************)
\* ensure_transcription_runtime: a Whisper setting that names no program of this
\* app is replaced, which cannot be told from what health reads.
WithPrograms(s) == [s EXCEPT !.path = [p \in DOMAIN @ |-> Sanitized(@[p])]]

EnsureRuntime ==
    /\ window.at = "idle"
    /\ LET normalized == IF ~ToolchainReady(here, chosen) /\ chosen.engine = "whisper"
                         THEN WithPrograms(chosen) ELSE chosen
       IN  /\ chosen' = normalized
           /\ started' = NotStarted
           /\ IF ToolchainReady(here, normalized)
              THEN \E r \in Requests :
                     window' = [at |-> "ensured", request |-> r, told |-> "degraded",
                                speakers |-> <<>>, moved |-> FALSE]
              ELSE UNCHANGED window
    /\ UNCHANGED <<here, probes, moves>>

\* Mutant: a key of paths, without the sizes and times of the files.
KeyOfPaths(r) ==
    <<r.engine, Resolve(here, chosen, "ffmpeg"), Resolve(here, chosen, EngineProgram(r.engine)),
      r.model, chosen.device>>

\* runtime_probe_cache_key has neither the worker nor the libraries in it.
Key(r) ==
    LET place(p) == Resolve(here, chosen, p)
        stamp(p) == <<place(p), FileAt(here, place(p), p)>>
    IN  <<r.engine, stamp("ffmpeg"), stamp(EngineProgram(r.engine)), r.model,
          here.models[r.model], chosen.device>>

\* What the key leaves out, for the history of an entry.
Beside(r) ==
    <<here.lib, FileAt(here, Resolve(here, chosen, EngineProgram(r.engine)), Working(r.engine))>>

\* A program that would do may fail its probe under load, and a failure is
\* remembered like a success.
ProbeOutcomesFor(r) == {DeepProbe(here, chosen, r), "smoke_failed"}

Told(said, beside) ==
    LET told == PreflightReason(here, chosen, window.request, said)
    IN  IF told \in {"ok", "diarization_not_ready"}
        THEN [window EXCEPT !.at = "checked", !.told = told,
                            !.speakers = SelectedHealth(here, chosen.diarization),
                            !.moved = beside # Beside(window.request)]
        ELSE IdleWindow

Preflight ==
    /\ window.at = "ensured"
    /\ LET r == window.request
           key == Key(r)
       IN  \/ /\ ~Probes(here, chosen, r)
              /\ window' = Told("unasked", Beside(r)) /\ UNCHANGED probes
           \/ /\ Probes(here, chosen, r) /\ key \in DOMAIN probes
              /\ window' = Told(probes[key].said, probes[key].beside)
              /\ UNCHANGED probes
           \/ /\ Probes(here, chosen, r) /\ key \notin DOMAIN probes
              /\ Cardinality(DOMAIN probes) < MaxProbes
              /\ \E said \in ProbeOutcomesFor(r) :
                   /\ window' = Told(said, Beside(r))
                   /\ probes' = [k \in DOMAIN probes \cup {key} |->
                                   IF k = key THEN [said |-> said, beside |-> Beside(r)]
                                   ELSE probes[k]]
           \/ window' = [window EXCEPT !.at = "checked"] /\ UNCHANGED probes   \* no answer
    /\ UNCHANGED <<here, chosen, started, moves>>

\* build_service for the job, and what it saves.
StartTranscription ==
    /\ window.at = "checked"
    /\ LET s == WithPrograms([chosen EXCEPT !.ai = ForHost(@, here.host.apple)])
           reason == BuildReason(here, s)
           used == [engine |-> s.engine,
                    model |-> IF s.engine = "parakeet" THEN "parakeet" ELSE window.request.model]
       IN  /\ chosen' = IF reason = "ok" THEN s ELSE chosen
           /\ started' = [reason |-> reason, window |-> window, used |-> used,
                          runs |-> used.model \in DOMAIN here.models
                                     /\ DeepProbe(here, s, used) = "ok",
                          speakers |-> BuildDiarizer(here, s.diarization),
                          chain |-> EnhancerCandidates(s.ai, here.host.apple)]
    /\ window' = IdleWindow
    /\ UNCHANGED <<here, probes, moves>>

ChecksNext ==
    \/ ChangeProgram \/ ChangeModel \/ ChangeRest \/ ChangeSettings \/ FiveMinutesPass
    \/ EnsureRuntime \/ Preflight \/ StartTranscription

ChecksSpec == ChecksInit /\ [][ChecksNext]_checks

(***************************************************************************)
(* Properties                                                              *)
(***************************************************************************)
Unmoved == started # NotStarted /\ ~started.window.moved

\* A start the preflight allowed, with nothing changed since (and no remembered
\* probe from before a change of what its key leaves out), gets its service, and
\* the programs of that service transcribe: whenever the window's copy of the
\* settings named the engine that the settings name.
AllowedIsServed ==
    (Unmoved /\ started.window.told # "degraded"
       /\ started.used.engine = started.window.request.engine)
      => started.reason = "ok" /\ started.runs

\* The diarization the preflight told of is the one the job gets: the same
\* backend and compute, none when it is off, an error noted in the job when it
\* was told to be not ready.
DiarizationIsAsTold ==
    (Unmoved /\ started.window.told # "degraded")
      => LET told == started.window.speakers IN
         /\ started.speakers = told.selected
         /\ (started.window.told = "ok") = (started.speakers # <<"error">>)

\* A companion is offered diarization exactly where a late diarization, with
\* diarization turned on and ffmpeg there, would get an engine; and an engine is
\* only one for the device that was asked for.
DevicesAreHonoured ==
    LET on == [chosen EXCEPT !.diarization.enabled = TRUE]
        built == BuildDiarizer(here, on.diarization)
    IN  /\ CompanionDiarizes(here, chosen.diarization) = (built # <<"error">>)
        /\ Available(here, on, "ffmpeg") => LateDiarization(here, on) = built
        /\ on.diarization.device = "ane" => built \in {<<"error">>, <<"fluid", "ane">>}
        /\ on.diarization.device \in {"mps", "cuda"} => Head(built) # "fluid"

\* "All release binaries must be present regardless of which engine is
\* selected, so the user can switch engines at runtime without re-running
\* setup": a managed installation that counts as complete suits both engines and
\* live use; a complete setup is ready for Whisper with each of its models.
CompleteIsEnough ==
    /\ (here.policy = "managed" /\ InstallComplete(here, chosen)) =>
         \A e \in Engines : ToolchainReady(here, [chosen EXCEPT !.engine = e])
    /\ (SetupComplete(here, chosen) /\ chosen.engine = "whisper") =>
         /\ BuildReason(here, chosen) = "ok"
         /\ MissingModels(here) \subseteq {m \in {"tiny"} : here.models[m] = "corrupt"}
    /\ LiveReason(LiveHealth(here, chosen), TRUE) = "ok" => BuildsStream(here)

\* What a transcript is sent to when the chosen service fails stays on the
\* machine, whatever services the settings list and in whatever order.
FallbacksAreLocal ==
    started # NotStarted =>
      \A i \in DOMAIN started.chain :
        /\ started.chain[i].spec.fallback => started.chain[i].goesTo \in {"loopback", "on device"}
        /\ ~started.chain[i].spec.fallback => \A j \in DOMAIN started.chain : i <= j

\* The start checks are true.
StartIsAsTold ==
    /\ AllowedIsServed /\ DiarizationIsAsTold /\ DevicesAreHonoured
    /\ CompleteIsEnough /\ FallbacksAreLocal
=============================================================================
