-------------------------- MODULE PyannoteHealth ---------------------------
(***************************************************************************)
(* What the files of the managed diarization runtime are worth, decided    *)
(* without starting Python: the receipt of the last deep probe, the        *)
(* manifest of the assets, the status of the last installation and the     *)
(* layout on disk (pyannote_health and its helpers).                       *)
(*                                                                         *)
(* The name and checksum of the runtime asset and of the model asset are   *)
(* one value, Blank where a manifest from before the assets has none.      *)
(***************************************************************************)
EXTENDS Naturals, Sequences

Blank == "blank"

\* manifest.json, or one that is missing or cannot be read
NoManifest == [there |-> FALSE, source |-> "none", app |-> 0, compat |-> 0, arch |-> FALSE,
               assets |-> Blank]
\* receipt.json: sound says that schema, platform, architecture, deep smoke
\* and the versions in it are all as they must be
NoReceipt == [there |-> FALSE, sound |-> FALSE, assets |-> Blank]

\* The runtime directory: an interpreter that can be run, whether it does
\* without the frameworks of the machine it was built on, a whole standard
\* library, libraries that can be imported, and a model; which assets these
\* are; and the three files.
EmptyDirectory ==
    [python |-> FALSE, portable |-> FALSE, home |-> FALSE, imports |-> FALSE, model |-> FALSE,
     content |-> Blank, manifest |-> NoManifest, status |-> "", receipt |-> NoReceipt]

\* Whatever was written into the files, this is what is read of them.
IsDirectory(dir) ==
    /\ DOMAIN dir = DOMAIN EmptyDirectory
    /\ DOMAIN dir.manifest = DOMAIN NoManifest /\ DOMAIN dir.receipt = DOMAIN NoReceipt

\* managed_pyannote_python_path: an interpreter that leans on an outside
\* framework counts as none.
HasPython(dir) == dir.portable /\ dir.python
HasBoth(dir) == HasPython(dir) /\ dir.model

\* validate_pyannote_python_runtime looks at the libraries and lets Python
\* import them; slow says that this took longer than its 180 seconds.
Validates(dir, slow) == HasPython(dir) /\ dir.home /\ dir.imports /\ ~slow
LayoutIsWhole(dir, slow) == Validates(dir, slow) /\ dir.model

\* Level 0 is a manifest from before the levels.
CompatLevel(level, needed) == IF level = 0 THEN needed ELSE level

SupportsCompat(manifest, needed) ==
    /\ CompatLevel(manifest.compat, needed) = needed
    /\ manifest.source # "bundled_override" /\ manifest.assets # Blank

ValidReceipt(dir) ==
    /\ dir.receipt.there /\ dir.receipt.sound
    /\ dir.manifest.there =>
         /\ dir.manifest.arch
         /\ dir.manifest.assets # Blank => dir.receipt.assets = dir.manifest.assets

\* The version the receipt was written by is no part of its validity.
MatchesHost(manifest, needed) ==
    /\ manifest.there /\ manifest.arch
    /\ manifest.source = "bundled_override" \/ SupportsCompat(manifest, needed)

TrustsCached(dir, needed) ==
    /\ HasBoth(dir) /\ dir.home
    /\ MatchesHost(dir.manifest, needed)
    /\ dir.status = "ok" /\ ValidReceipt(dir)

\* Of pairs of a condition and its reason the first that holds, or "ok".
FirstReason(reasons) ==
    LET against == {i \in DOMAIN reasons : reasons[i][1]} IN
    IF against = {} THEN "ok" ELSE reasons[CHOOSE i \in against : \A j \in against : i <= j][2]

\* The reasons against it in the order they are looked for.
Reasons(dir, needed) ==
    << <<dir.status = "pyannote_install_incomplete", "pyannote_repair_required">>,
       <<dir.status \notin {"", "ok"}, dir.status>>,
       <<dir.receipt.there /\ ~ValidReceipt(dir), "pyannote_receipt_invalid">>,
       <<~HasPython(dir), "pyannote_runtime_missing">>,
       <<~dir.model, "pyannote_model_missing">>,
       <<~dir.home \/ ~dir.manifest.there, "pyannote_repair_required">>,
       <<~dir.manifest.arch, "pyannote_arch_mismatch">>,
       <<~MatchesHost(dir.manifest, needed), "pyannote_version_mismatch">>,
       <<~dir.receipt.there, "pyannote_receipt_required">> >>

PyannoteReason(dir, needed) ==
    IF TrustsCached(dir, needed) THEN "ok" ELSE FirstReason(Reasons(dir, needed))

PyannoteReady(dir, needed) == PyannoteReason(dir, needed) = "ok"

\* A health that trusts the files writes the level into an old manifest.
Backfilled(dir, needed) ==
    IF TrustsCached(dir, needed) /\ dir.manifest.source # "bundled_override"
    THEN [dir EXCEPT !.manifest.compat = CompatLevel(@, needed)]
    ELSE dir

RepairReasons ==
    {"pyannote_arch_mismatch", "pyannote_version_mismatch", "pyannote_repair_required",
     "pyannote_install_incomplete", "pyannote_checksum_invalid", "pyannote_receipt_required",
     "pyannote_receipt_invalid", "pyannote_import_load_failed"}
MissingReasons == {"pyannote_runtime_missing", "pyannote_model_missing"}
ProbeReasons ==
    {"pyannote_receipt_required", "pyannote_receipt_invalid", "pyannote_import_load_failed"}
=============================================================================
