-------------------------- MODULE PyannoteUpgrade --------------------------
(***************************************************************************)
(* The diarization runtime across updates of the app: after each, the      *)
(* window asks for a plan (reconcile the files with the assets of the new  *)
(* release, or decide from their health), and carries it out with an       *)
(* installation request; the user may ask for one at any time.  How one    *)
(* installation swaps directories is PyannoteInstall's subject; here it is *)
(* one step with its outcomes.                                             *)
(***************************************************************************)
EXTENDS PyannoteHealth

CONSTANTS
    Releases,      \* per app version the compatibility level it needs and its assets
    Directories,   \* what may be there at the start
    MaxDamages     \* bound: parts of the directory that vanish

ASSUME DirectoriesAssumption == \A d \in Directories : IsDirectory(d)

VARIABLES
    app,           \* version of the running app
    bundle,        \* whether the build brings a runtime of its own
    dir,           \* the runtime directory
    plan,          \* the background action the window was given
    probed,        \* history: what passed a deep probe
    damages        \* bound

upgrade == <<app, bundle, dir, plan, probed, damages>>

Level == Releases[app].compat
Assets == Releases[app].assets
BundledContent == <<"bundled", app>>

\* Everything there, verified, of this release, and imported in time.
Verified(slow) ==
    TrustsCached(dir, Level) /\ Validates(dir, slow) /\ dir.manifest.assets = Assets

\* The last field is history: whether the plan was made for a verified runtime.
NoPlan == [status |-> "none", starts |-> FALSE, force |-> FALSE, verified |-> FALSE]
Plan(status, force, slow) ==
    [status |-> status, starts |-> TRUE, force |-> force, verified |-> Verified(slow)]

UpgradeInit ==
    /\ app = 1 /\ bundle \in BOOLEAN /\ dir \in Directories
    /\ plan = NoPlan
    /\ probed = IF dir.receipt.there THEN {dir.content} ELSE {}
    /\ damages = 0

\* The next version is started on the directory the last one left.
UpdateApp ==
    /\ app + 1 \in DOMAIN Releases
    /\ app' = app + 1
    /\ plan' = NoPlan
    /\ UNCHANGED <<bundle, dir, probed, damages>>

\* Another program removes a part of the directory.
Damage ==
    /\ damages < MaxDamages
    /\ \/ dir' = [dir EXCEPT !.python = FALSE]
       \/ dir' = [dir EXCEPT !.imports = FALSE]
       \/ dir' = [dir EXCEPT !.home = FALSE]
       \/ dir' = [dir EXCEPT !.model = FALSE]
       \/ dir' = [dir EXCEPT !.manifest = NoManifest]
       \/ dir' = [dir EXCEPT !.receipt = NoReceipt]
    /\ damages' = damages + 1
    /\ UNCHANGED <<app, bundle, plan, probed>>

(***************************************************************************)
(* The plan.                                                               *)
(***************************************************************************)
Reconciles ==
    /\ dir.manifest.there /\ dir.manifest.source # "bundled_override"
    /\ dir.manifest.app # app \/ CompatLevel(dir.manifest.compat, Level) # Level

\* The manifests that are fetched are those of this very version, and are
\* refused unless they have the level the app needs and describe the assets
\* alike: a release that was fetched is Releases[app].
MatchesRelease ==
    /\ CompatLevel(dir.manifest.compat, Level) = Level
    /\ dir.manifest.assets = Assets

\* Mutant: a migration that makes the receipt it misses.
MigratedWithReceipt ==
    [dir EXCEPT !.manifest.app = app, !.manifest.compat = Level, !.status = "ok",
                !.receipt = [there |-> TRUE, sound |-> TRUE, assets |-> Assets]]

ReceiptFits == ValidReceipt(dir) /\ dir.receipt.assets = Assets

\* The files of a runtime that fits are brought up to this version.
Migrated == [dir EXCEPT !.manifest.app = app, !.manifest.compat = Level, !.status = "ok"]

Reconcile(slow) ==
    IF LayoutIsWhole(dir, slow) /\ MatchesRelease
    THEN /\ dir' = Migrated
         /\ plan' = IF ReceiptFits THEN [NoPlan EXCEPT !.status = "migrate_manifest"]
                    ELSE Plan("verify_existing", FALSE, slow)
    ELSE plan' = Plan("migrate_assets", TRUE, slow) /\ UNCHANGED dir

HasState ==
    HasPython(dir) \/ dir.model \/ dir.manifest.there \/ dir.status # ""

\* What only another set of assets mends.
MigrateReasons == {"pyannote_version_mismatch", "pyannote_checksum_invalid"}

PlanFor(reason, enabled) ==
    CASE reason = "ok" -> NoPlan
      [] HasState /\ reason \in MigrateReasons ->
           Plan("migrate_assets", TRUE, FALSE)
      [] HasState /\ reason \in ProbeReasons -> Plan("verify_existing", FALSE, FALSE)
      [] ~HasState /\ enabled /\ reason \in MissingReasons -> Plan("install_missing", FALSE, FALSE)
      [] \/ /\ HasState
            /\ reason \in MissingReasons \cup (RepairReasons \ (ProbeReasons \cup MigrateReasons))
         \/ ~HasState /\ enabled /\ reason \in RepairReasons ->
           Plan("repair_existing", TRUE, FALSE)
      [] OTHER -> NoPlan

\* plan_pyannote_background_action: fluid says that the diarization the
\* settings choose needs no Pyannote.
MakePlan(fluid, reachable, enabled) ==
    /\ CASE fluid -> plan' = NoPlan /\ UNCHANGED dir
         [] ~fluid /\ Reconciles /\ reachable /\ dir.manifest.arch ->
              \E slow \in BOOLEAN : Reconcile(slow)
         [] OTHER -> /\ plan' = PlanFor(PyannoteReason(dir, Level), enabled)
                     /\ dir' = Backfilled(dir, Level)
    /\ UNCHANGED <<app, bundle, probed, damages>>

(***************************************************************************)
(* The installation request.                                               *)
(***************************************************************************)
VerifiesInPlace(force) ==
    /\ ~force /\ PyannoteReason(dir, Level) \in ProbeReasons
    /\ HasBoth(dir)
    /\ dir.manifest.there /\ dir.manifest.app = app
    /\ CompatLevel(dir.manifest.compat, Level) = Level

\* The receipt of a probe is about the assets the manifest names.
Receipt(manifest) == [there |-> TRUE, sound |-> TRUE, assets |-> manifest.assets]

\* The deep probe lets the managed interpreter load the model, and reads the
\* manifest for its receipt.
ProbeOutcomes ==
    {"cancelled", "failed"}
      \cup {o \in {"passed"} : LayoutIsWhole(dir, FALSE) /\ dir.manifest.there}

Says(status) == dir' = [dir EXCEPT !.status = status] /\ UNCHANGED probed

VerifyExisting ==
    \/ (\E slow \in BOOLEAN : ~LayoutIsWhole(dir, slow)) /\ Says("pyannote_repair_required")
    \/ \E outcome \in ProbeOutcomes :
         \/ outcome = "cancelled" /\ UNCHANGED <<dir, probed>>
         \/ outcome = "failed" /\ Says("pyannote_import_load_failed")
         \/ /\ outcome = "passed"
            /\ probed' = probed \cup {dir.content}
            /\ \/ dir' = [dir EXCEPT !.status = "pyannote_install_incomplete"]
               \/ \E status \in {dir.status, "ok"} :
                    dir' = [dir EXCEPT !.receipt = Receipt(dir.manifest), !.status = status]

\* The directory an installation of the kind publishes.
NewDirectory(kind) ==
    LET manifest == [there |-> TRUE, arch |-> TRUE, app |-> app, compat |-> Level,
                     source |-> IF kind = "bundled" THEN "bundled_override" ELSE "release_asset",
                     assets |-> IF kind = "bundled" THEN "bundled-override" ELSE Assets]
    IN  [python |-> TRUE, portable |-> TRUE, home |-> TRUE, imports |-> TRUE, model |-> TRUE,
         content |-> IF kind = "bundled" THEN BundledContent ELSE Assets,
         manifest |-> manifest, status |-> "ok", receipt |-> Receipt(manifest)]

\* A bundled installation removes the old directory first, a download fills
\* another one.
NothingInstalled(kind) ==
    IF kind = "bundled" THEN EmptyDirectory ELSE dir

Replace(kind) ==
    \/ dir' = NewDirectory(kind) /\ probed' = probed \cup {dir'.content}
    \/ HasBoth(dir) /\ UNCHANGED <<dir, probed>>                   \* rolled back
    \/ /\ ~HasBoth(dir)
       /\ \E status \in {"cancelled", "pyannote_install_incomplete", "pyannote_repair_required"} :
            dir' = [NothingInstalled(kind) EXCEPT !.status = status]
       /\ UNCHANGED probed
    \/ /\ ~HasBoth(dir)
       /\ dir' = [NewDirectory(kind) EXCEPT !.status = "pyannote_import_load_failed",
                                            !.receipt = NoReceipt]
       /\ UNCHANGED probed
    \/ /\ ~HasBoth(dir)
       /\ dir' = [NewDirectory(kind) EXCEPT !.status = "pyannote_install_incomplete"]
       /\ probed' = probed \cup {dir'.content}

Refuses(force) == PyannoteReady(dir, Level) /\ ~force

RequestInstall(force) ==
    /\ ~Refuses(force)
    /\ IF VerifiesInPlace(force) THEN VerifyExisting
       ELSE Replace(IF bundle THEN "bundled" ELSE "download")
    /\ UNCHANGED <<app, bundle, damages>>

\* The window carries its plan out, unless it did so before and the marker of
\* that has not expired.
CarryOut ==
    /\ plan.starts /\ plan' = NoPlan
    /\ \/ RequestInstall(plan.force)
       \/ UNCHANGED <<app, bundle, dir, probed, damages>>

UserInstalls == \E force \in BOOLEAN : RequestInstall(force) /\ UNCHANGED plan

UpgradeNext ==
    \/ UpdateApp \/ Damage \/ CarryOut \/ UserInstalls
    \/ \E fluid, reachable, enabled \in BOOLEAN : MakePlan(fluid, reachable, enabled)

UpgradeSpec == UpgradeInit /\ [][UpgradeNext]_upgrade

(***************************************************************************)
(* Properties                                                              *)
(***************************************************************************)

\* Whatever updates, migrations, repairs and bundled installations came
\* before, a runtime that health calls ready is one whose very content passed
\* a deep probe: no receipt is taken for another content, and no migration
\* makes one (validate_managed_pyannote_receipt, reconcile).
ReadyIsProbed == PyannoteReady(dir, Level) => dir.content \in probed

\* "A missing receipt does not mean that the (large) runtime and model assets
\* are broken", nor does an update: the plan made for a whole directory with a
\* valid receipt for the assets of this release starts nothing, whether the
\* release could be reached or not, as long as its imports are done in time.
VerifiedIsLeftAlone == plan.starts => ~plan.verified

\* Over any sequence of updates: ready means probed, and what was probed is
\* not downloaded again.
UpgradeKeepsProbed == ReadyIsProbed /\ VerifiedIsLeftAlone
=============================================================================
