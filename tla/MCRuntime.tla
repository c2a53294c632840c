----------------------------- MODULE MCRuntime -----------------------------
EXTENDS Provisioning, Settings, PyannoteUpgrade, StartChecks

\* What may be installed at the start: everything, nothing, or one directory.
MCOriginals == {Pair(0), Pair(None), [Pair(None) EXCEPT !["bin"] = 0]}

WholeTree == [Bare EXCEPT !.whole = TRUE, !.status = "ok", !.receipt = TRUE]
MCTrees == {None, WholeTree, [WholeTree EXCEPT !.receipt = FALSE], [Bare EXCEPT !.status = "bad"]}

\* Settings files: none; a current one; one with keys in it; one of which a load
\* has stored a part of the keys; one from before the sections.
NoKeys == [a \in Accounts |-> Absent]
Stripped == [key |-> Absent, has |-> TRUE]
Current == Redacted([Defaults EXCEPT !.ai.gem = Stripped, !.ai.services = [svc |-> Stripped],
                                     !.prompts = [custom |-> TRUE, bound |-> "custom"]])
WithKeys(k) == [Current EXCEPT !.ai.gem.key = k, !.ai.services.svc.key = "old"]
MCStored ==
    [fresh |-> [file |-> Absent, keys |-> NoKeys],
     modern |-> [file |-> Current, keys |-> [NoKeys EXCEPT !["gemini"] = "old", !["svc"] = "old"]],
     plain |-> [file |-> WithKeys("old"), keys |-> NoKeys],
     half |-> [file |-> WithKeys("older"), keys |-> [NoKeys EXCEPT !["gemini"] = "old"]],
     flat |-> [file |-> [Defaults EXCEPT !.sections = FALSE, !.model = "v2",
                            !.flat = [transcription |-> "outdated", key |-> "old", present |-> FALSE]],
               keys |-> NoKeys]]

SettingsScenes ==
    {{"modern", "transcription", "automation", "ai"},
     {"modern", "whole", "provider", "snapshot"},
     {"modern", "prompts", "whole", "ai"},
     {"modern", "ai", "provider", "faults"},
     {"modern", "whole", "automation", "faults", "crash"},
     {"modern", "snapshot", "ai", "whole", "crash"},
     {"plain", "snapshot", "ai", "crash"},
     {"half", "snapshot", "provider", "crash"},
     {"flat", "factory", "transcription", "crash", "faults"},
     {"fresh", "ai", "provider"},
     {"fresh", "snapshot", "provider"}}
InstallScenes ==
    {{"runtime", "crash", "faults"}, {"pyannote"}, {"pyannote", "crash"},
     {"pyannote", "once", "faults"}, {"models"}, {"runtime", "models"},
     {"pyannote", "models"}, {"models", "crash", "faults"}}

\* What a batch beside an installation finds.
OnlyEncoderAbsent == [i \in Items |-> IF i \in Encoders THEN "absent" ELSE "whole"]

\* Releases of the app: a new version with the same assets, then with others, then
\* with another level.  Directories: none, one of the first version as it was
\* installed, from before receipts and levels, of another architecture, with a
\* receipt that is not sound, with an interpreter that leans on a framework.
MCReleases ==
    <<[compat |-> 1, assets |-> "a1"], [compat |-> 1, assets |-> "a1"],
      [compat |-> 1, assets |-> "a2"], [compat |-> 2, assets |-> "a3"]>>
InstalledDirectory ==
    [python |-> TRUE, portable |-> TRUE, imports |-> TRUE, home |-> TRUE, model |-> TRUE,
     content |-> "a1", status |-> "ok",
     manifest |-> [there |-> TRUE, source |-> "release_asset", app |-> 1, compat |-> 1,
                   arch |-> TRUE, assets |-> "a1"],
     receipt |-> [there |-> TRUE, sound |-> TRUE, assets |-> "a1"]]
LegacyDirectory ==
    [InstalledDirectory EXCEPT !.manifest.app = 0, !.manifest.compat = 0, !.receipt = NoReceipt]
MCDirectories ==
    {EmptyDirectory, InstalledDirectory, LegacyDirectory,
     [LegacyDirectory EXCEPT !.manifest.arch = FALSE],
     [InstalledDirectory EXCEPT !.receipt.sound = FALSE],
     [LegacyDirectory EXCEPT !.content = "a0", !.portable = FALSE, !.manifest.assets = Blank]}

\* Machines: a released app with everything, on a macOS too old for FluidAudio, or
\* without diarization; a developer's with programs of the host.
AllGood == [p \in Programs |-> "good"]
NoPrograms == [p \in Programs |-> "missing"]
PlainFiles == [f \in RequiredBundleFiles |-> "plain"]
Released ==
    [policy |-> "managed", host |-> [apple |-> TRUE, fluid |-> TRUE], lib |-> TRUE,
     files |-> [managed |-> AllGood, host |-> NoPrograms, configured |-> NoPrograms],
     models |-> [m \in SetupModels \cup {"parakeet"} |-> "whole"], encoders |-> TRUE,
     pyannote |-> InstalledDirectory,
     bundle |-> [there |-> TRUE, helper |-> TRUE, listed |-> PlainFiles, files |-> PlainFiles,
                 manifest |-> [there |-> TRUE, sound |-> TRUE, arch |-> TRUE, revision |-> "r"],
                 revision |-> "r"]]
Developers ==
    [Released EXCEPT !.policy = "dev", !.files.managed = NoPrograms, !.files.host = AllGood,
                     !.host = [apple |-> FALSE, fluid |-> FALSE]]
MCMachines ==
    {Released, [Released EXCEPT !.host.fluid = FALSE, !.encoders = FALSE],
     [Released EXCEPT !.pyannote.model = FALSE, !.bundle.revision = "q"],
     Developers, [Developers EXCEPT !.files.configured["whisper-cli"] = "hanging"]}

Service(id, kind, model, url) ==
    [id |-> id, kind |-> kind, enabled |-> TRUE, model |-> model, url |-> url, key |-> NotGiven]
Gemini ==
    [provider |-> "gemini", active |-> NotGiven, apple |-> TRUE, gemini |-> "key",
     services |-> <<Service("remote", "custom", "m", "remote"),
                    Service("google", "google", NotGiven, NotGiven),
                    Service("local", "ollama", "m", NotGiven)>>]
Preferred ==
    [engine |-> "whisper", device |-> "auto", path |-> [p \in Programs |-> "name"],
     diarization |-> [enabled |-> TRUE, backend |-> "auto", device |-> "auto"], ai |-> Gemini]
MCSelections ==
    {Preferred,
     [Preferred EXCEPT !.engine = "parakeet", !.diarization.device = "ane"],
     [Preferred EXCEPT !.path["whisper-cli"] = "legacy", !.diarization.device = "mps",
                       !.ai.provider = "none", !.ai.active = "local"],
     [Preferred EXCEPT !.path["whisper-cli"] = "path",
                       !.diarization = [enabled |-> FALSE, backend |-> "pyannote", device |-> "ane"]],
     [Preferred EXCEPT !.diarization.backend = "pyannote", !.device = "cpu",
                       !.ai.services = <<>>, !.ai.provider = "apple"],
     [Preferred EXCEPT !.diarization.backend = "fluid", !.diarization.device = "cpu",
                       !.ai.gemini = NotGiven]}

vars == <<provisioning, settings, upgrade, checks>>

Start == IF who \cap DOMAIN MCStored = {} THEN "fresh"
         ELSE CHOOSE s \in DOMAIN MCStored : s \in who

\* Scenes of their own: what updates of the app make of the diarization runtime,
\* and the start of a transcription.
OtherScenes == {{"updates"}, {"starts"}}

Init ==
    /\ who \in SettingsScenes \cup InstallScenes \cup OtherScenes
    /\ ProvisioningInit /\ SettingsInit(Start)
    /\ who \notin InstallScenes => pc = "idle"
    /\ {"pyannote", "models"} \subseteq who => have = OnlyEncoderAbsent
    /\ UpgradeInit /\ ChecksInit
    /\ ~Takes("updates") => dir = EmptyDirectory /\ bundle
    /\ ~Takes("starts") => here = Released /\ chosen = Preferred

SettingsSceneNext ==
    /\ who \in SettingsScenes
    /\ \/ \E c \in Callers \cap who : CallStep(c) \/ (Takes("faults") /\ CallFails(c))
       \/ Takes("crash") /\ SettingsCrash
    /\ UNCHANGED <<provisioning, upgrade, checks>>

InstallNext ==
    /\ who \in InstallScenes
    /\ ProvisioningNext
    /\ UNCHANGED <<settings, upgrade, checks>>

OthersNext ==
    \/ Takes("updates") /\ UpgradeNext /\ UNCHANGED <<provisioning, settings, checks>>
    \/ Takes("starts") /\ ChecksNext /\ UNCHANGED <<provisioning, settings, upgrade>>

Next == SettingsSceneNext \/ InstallNext \/ OthersNext
Spec == Init /\ [][Next]_vars /\ ProvisioningFairness
=============================================================================
