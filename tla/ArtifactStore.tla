---------------------------- MODULE ArtifactStore ----------------------------
(***************************************************************************)
(* The artifact database (sqlite_artifact_repository.rs): the rows with    *)
(* their revisions, the audio vault beside them, the trash, and the        *)
(* migration of a plain-text database.                                     *)
(*                                                                         *)
(* Every update opens a connection, loads the live row, and then writes    *)
(* under the condition that the row is live and has the revision it read.  *)
(* The two halves are two steps, so other commands run between them.       *)
(* Encryption is left out: the names under which texts are encrypted are   *)
(* the field names here.                                                   *)
(***************************************************************************)
EXTENDS Naturals, Sequences, FiniteSets

CONSTANTS
    Artifacts,    \* artifact ids
    Legacy,       \* the artifacts of a database of an old version
    Writers,      \* the processes that update rows
    Values        \* what a field can hold

ASSUME LegacyAreArtifacts == Legacy \subseteq Artifacts
ASSUME UnsetIsNoValue == "unset" \notin Values /\ "first" \in Values

VARIABLES
    schema,       \* "legacy" or "current": which columns the table has
    old,          \* the artifacts the plain-text table held, if there was one
    row,          \* transcript_artifacts with artifact_analysis, per artifact
    vault,        \* artifacts whose vault/artifacts/<id>/source.enc exists
    recording,    \* artifacts whose source file exists outside the program
    saving,       \* the open transaction of an import of the artifact
    migrating,    \* the open legacy migration: none, or the rows not yet done
    call,         \* the update of each writer between its read and its write
    accepted      \* history: the last value accepted for each field

store == <<schema, old, row, vault, recording, saving, migrating, call, accepted>>

BaseFields == {"content", "title"}
AnalysisKeys == {"timeline", "emotion"}
PlainKeys == {"pack", "status", "progress"}
MetaKeys == PlainKeys \cup AnalysisKeys
Fields == BaseFields \cup MetaKeys
Cells == Values \cup {"unset"}

NoRow == [st |-> "new", rev |-> 0, audio |-> FALSE,
          base |-> [f \in BaseFields |-> "first"],
          meta |-> [k \in MetaKeys |-> "unset"],
          analysis |-> [k \in AnalysisKeys |-> "unset"]]

\* insert_artifact_tx: the timeline of the artifact's metadata is written to
\* the metadata and to the analysis row.
Inserted(hasAudio) ==
    [NoRow EXCEPT !.st = "live", !.audio = hasAudio,
                  !.meta["timeline"] = "first",
                  !.analysis["timeline"] = "first"]

\* row_to_artifact: what the analysis row holds hides the metadata's entry.
View(r) ==
    [k \in MetaKeys |->
        IF k \in AnalysisKeys /\ r.analysis[k] # "unset"
        THEN r.analysis[k] ELSE r.meta[k]]

Shown(r) == [f \in Fields |-> IF f \in BaseFields THEN r.base[f] ELSE View(r)[f]]

InTable(a) == row[a].st \in {"live", "trash"}

NoCall == [st |-> "none"]
Reading(a, f, v) ==
    [st |-> "read", art |-> a, field |-> f, value |-> v,
     rev |-> row[a].rev, view |-> View(row[a])]

StoreTypeOK ==
    /\ schema \in {"legacy", "current"}
    /\ old \subseteq Legacy
    /\ vault \subseteq Artifacts
    /\ recording \subseteq Artifacts
    /\ saving \in [Artifacts -> {"no", "audio", "silent"}]
    /\ migrating.open \in BOOLEAN
    /\ \A a \in Artifacts :
           /\ row[a].st \in {"new", "live", "trash", "gone"}
           /\ row[a].rev \in Nat
           /\ row[a].audio \in BOOLEAN
           /\ row[a].base \in [BaseFields -> Cells]
           /\ row[a].meta \in [MetaKeys -> Cells]
           /\ row[a].analysis \in [AnalysisKeys -> Cells]
    /\ \A w \in Writers : call[w].st = "read" => call[w].field \in Fields
    /\ accepted \in [Artifacts -> [Fields -> Cells]]

StoreInit ==
    /\ schema \in {"legacy", "current"}
    /\ old = IF schema = "legacy" THEN Legacy ELSE {}
    /\ row = [a \in Artifacts |-> NoRow]
    /\ vault = {}
    /\ recording \in SUBSET Artifacts
    /\ saving = [a \in Artifacts |-> "no"]
    /\ migrating = [open |-> FALSE]
    /\ call = [w \in Writers |-> NoCall]
    /\ accepted = [a \in Artifacts |-> Shown(NoRow)]

\* A database in use, with all artifacts saved and their recordings kept.
StoreInUse ==
    /\ schema = "current" /\ old = {}
    /\ row = [a \in Artifacts |-> Inserted(TRUE)]
    /\ vault = Artifacts /\ recording = Artifacts
    /\ saving = [a \in Artifacts |-> "no"]
    /\ migrating = [open |-> FALSE]
    /\ call = [w \in Writers |-> NoCall]
    /\ accepted = [a \in Artifacts |-> Shown(row[a])]

-----------------------------------------------------------------------------
(* Opening the database: init_schema and the legacy migration. *)

Ready == schema = "current"

\* needs_legacy_migration: the table exists without the column title_enc.
MigrationBegins ==
    /\ schema = "legacy" /\ ~migrating.open
    /\ migrating' = [open |-> TRUE, todo |-> old, done |-> row]
    /\ UNCHANGED <<schema, old, row, vault, recording, saving, call, accepted>>

\* One legacy row: its recording is copied to the vault at once, its row is
\* inserted in the transaction.
MigrateRow(a) ==
    /\ migrating.open /\ a \in migrating.todo
    /\ vault' = IF a \in recording THEN vault \cup {a} ELSE vault
    /\ migrating' = [migrating EXCEPT
                        !.todo = @ \ {a},
                        !.done[a] = Inserted(a \in recording)]
    /\ UNCHANGED <<schema, old, row, recording, saving, call, accepted>>

\* An existing recording that cannot be read, or any statement that fails,
\* ends the migration and the start of the program.
MigrationFails ==
    /\ migrating.open
    /\ migrating' = [open |-> FALSE]
    /\ UNCHANGED <<schema, old, row, vault, recording, saving, call, accepted>>

MigrationCommits ==
    /\ migrating.open /\ migrating.todo = {}
    /\ row' = migrating.done
    /\ schema' = "current"
    /\ accepted' = [a \in Artifacts |-> Shown(row'[a])]
    /\ migrating' = [open |-> FALSE]
    /\ UNCHANGED <<old, vault, recording, saving, call>>

Migration == MigrationBegins \/ MigrationFails \/ MigrationCommits
             \/ \E a \in Artifacts : MigrateRow(a)

-----------------------------------------------------------------------------
(* Saving a new artifact. *)

\* save: the transaction is opened, and the source file, when it exists, is
\* encrypted into the vault before anything is inserted.
SaveBegins(a) ==
    /\ Ready /\ row[a].st = "new" /\ saving[a] = "no"
    /\ IF a \in recording
       THEN /\ vault' = vault \cup {a}
            /\ saving' = [saving EXCEPT ![a] = "audio"]
       ELSE /\ saving' = [saving EXCEPT ![a] = "silent"]
            /\ UNCHANGED vault
    /\ UNCHANGED <<schema, old, row, recording, migrating, call, accepted>>

SaveCommits(a) ==
    /\ saving[a] # "no"
    /\ row' = [row EXCEPT ![a] = Inserted(saving[a] = "audio")]
    /\ accepted' = [accepted EXCEPT ![a] = Shown(row'[a])]
    /\ saving' = [saving EXCEPT ![a] = "no"]
    /\ UNCHANGED <<schema, old, vault, recording, migrating, call>>

\* The rollback leaves the file in the vault.  The id is not used again.
SaveFails(a) ==
    /\ saving[a] # "no"
    /\ row' = [row EXCEPT ![a].st = "gone"]
    /\ saving' = [saving EXCEPT ![a] = "no"]
    /\ UNCHANGED <<schema, old, vault, recording, migrating, call, accepted>>

-----------------------------------------------------------------------------
(* The five updates: content, metadata entry, timeline, emotions, title. *)

\* load_one(.., is_deleted = false), then Ok(None) when there is no such row.
ReadForUpdate(w, a, f, v) ==
    /\ row[a].st = "live"
    /\ call' = [call EXCEPT ![w] = Reading(a, f, v)]
    /\ UNCHANGED <<schema, old, row, vault, recording, saving, migrating, accepted>>

\* Mutant: the update does not ask for the revision that was read.
MatchesAnyRevision(c) == row[c.art].st = "live"

\* WHERE id = ?1 AND is_deleted = 0 AND revision = ?
Matches(c) == row[c.art].st = "live" /\ row[c.art].rev = c.rev

\* update_content writes back the metadata it read, update_metadata_entry the
\* same with one entry changed; the two analysis updates leave it alone.
Written(r, c) ==
    [r EXCEPT
        !.rev = @ + 1,
        !.base = IF c.field \in BaseFields THEN [@ EXCEPT ![c.field] = c.value]
                 ELSE @,
        !.meta = CASE c.field = "content" -> c.view
                   [] c.field \in PlainKeys -> [c.view EXCEPT ![c.field] = c.value]
                   [] OTHER -> @,
        !.analysis = IF c.field \in AnalysisKeys
                     THEN [@ EXCEPT ![c.field] = c.value] ELSE @]

Accept(w) ==
    LET c == call[w] IN
    /\ Matches(c)
    /\ row' = [row EXCEPT ![c.art] = Written(@, c)]
    /\ accepted' = [accepted EXCEPT ![c.art][c.field] = c.value]

\* "a newer revision already exists", or the statement or commit failed.
Reject(w, faulty) ==
    /\ ~Matches(call[w]) \/ faulty
    /\ UNCHANGED <<row, accepted>>

EndUpdate(w) ==
    /\ call[w].st = "read"
    /\ call' = [call EXCEPT ![w] = NoCall]
    /\ UNCHANGED <<schema, old, vault, recording, saving, migrating>>

-----------------------------------------------------------------------------
(* The trash. Neither deleting nor restoring changes the revision. *)

DeleteMany(ids) ==
    /\ \E a \in ids : row[a].st = "live"
    /\ row' = [a \in Artifacts |->
                 IF a \in ids /\ row[a].st = "live"
                 THEN [row[a] EXCEPT !.st = "trash"] ELSE row[a]]
    /\ UNCHANGED <<schema, old, vault, recording, saving, migrating, call, accepted>>

RestoreMany(ids) ==
    /\ \E a \in ids : row[a].st = "trash"
    /\ row' = [a \in Artifacts |->
                 IF a \in ids /\ row[a].st = "trash"
                 THEN [row[a] EXCEPT !.st = "live"] ELSE row[a]]
    /\ UNCHANGED <<schema, old, vault, recording, saving, migrating, call, accepted>>

\* hard_delete_many, the files: those of every id it was given.
RemoveFiles(ids) ==
    /\ vault' = vault \ ids
    /\ UNCHANGED <<schema, old, row, recording, saving, migrating, call, accepted>>

\* hard_delete_many and purge_deleted_older_than_days, the rows: those that
\* are in the trash.
DeleteRows(ids) ==
    /\ row' = [a \in Artifacts |->
                 IF a \in ids /\ row[a].st = "trash"
                 THEN [row[a] EXCEPT !.st = "gone"] ELSE row[a]]
    /\ UNCHANGED <<schema, old, vault, recording, saving, migrating, call, accepted>>

\* The transactions that were open are rolled back.
StoreCrash ==
    /\ migrating' = [open |-> FALSE]
    /\ saving' = [a \in Artifacts |-> "no"]
    /\ row' = [a \in Artifacts |->
                 IF saving[a] # "no" THEN [row[a] EXCEPT !.st = "gone"] ELSE row[a]]
    /\ call' = [w \in Writers |-> NoCall]
    /\ UNCHANGED <<schema, old, vault, recording, accepted>>

\* The user removes or replaces recordings at any time.
RecordingLost(a) ==
    /\ a \in recording
    /\ recording' = recording \ {a}
    /\ UNCHANGED <<schema, old, row, vault, saving, migrating, call, accepted>>

-----------------------------------------------------------------------------
\* An accepted update is never undone by an update of another field: what a
\* live artifact shows in each field is the last value that was accepted for
\* it, although content and metadata updates write back a whole map that was
\* read earlier and the analysis row shadows part of it.
NothingIsLost ==
    \A a \in Artifacts : row[a].st = "live" => Shown(row[a]) = accepted[a]

\* A plain-text artifact is in its old table or has a row of its own: at no
\* step of the migration, and after no failure or crash, is it in neither.
LegacyIsKept == schema = "current" => \A a \in old : row[a].st # "new"
==============================================================================
