--------------------------- MODULE AutomaticImport ---------------------------
(***************************************************************************)
(* Automatic import of watched folders (commands/automatic_import.rs).      *)
(*                                                                         *)
(* A scan reads the settings, lists the newest artifacts, walks and hashes  *)
(* the folders, starts a transcription for every file it does not know, and *)
(* writes back the automation section of the settings with the files it     *)
(* could not read in quarantine. The job of an imported file notes its      *)
(* outcome in the same section. Every one of these writers takes the        *)
(* section from a snapshot it read earlier and replaces it as a whole, as   *)
(* the window does when the user edits it; SettingsService only serialises  *)
(* the replacements (update_partial).                                       *)
(*                                                                         *)
(* A file is a path with a content: size, time of change and hash are the   *)
(* same exactly if the content is.                                          *)
(***************************************************************************)
EXTENDS Naturals, SequencesExt

CONSTANTS
  Paths,      \* paths in the watched folders
  Contents,   \* recordings
  None,       \* no recording at a path
  Scans,      \* scan commands that can run at the same time
  ListLimit,  \* how many artifacts a scan lists, 500
  MaxScans,   \* bound of the exploration: scans begun
  MaxJobs,    \* bound of the exploration: jobs started
  MaxChanges  \* bound of the exploration: changes of the folder
              \* and edits of the settings

ASSUME NoneAssumption == None \notin Contents
ASSUME PathsAssumption == IsFiniteSet(Paths)
ASSUME ListLimitAssumption == ListLimit \in Nat

VARIABLES
  folder,      \* what is at each path
  unreadable,  \* paths that cannot be opened or hashed now
  saved,       \* settings.automation on disk
  window,      \* the window's copy of it
  scan,        \* each scan command: where it is and what it has read
  clearing,    \* a quarantine item being cleared or retried
  jobs,        \* the jobs started, with the snapshot of the one that notes
  archive,     \* the artifacts of imported files, oldest first
  begun,       \* bound: scans begun
  changes      \* bound: folder changes and edits

files == <<folder, unreadable>>
settings == <<saved, window>>
bounds == <<begun, changes>>
watchVars == <<files, settings, scan, clearing, jobs, archive, bounds>>

Recordings == {p \in Paths : folder[p] # None}

File(p) == [path |-> p, content |-> folder[p]]

\* `enabled` stands for everything the user sets in the section.
Fresh == [enabled |-> TRUE, quarantined |-> {}]

Idle == [step |-> "idle", seen |-> Fresh, known |-> {}, found |-> {}, broken |-> {},
         archived |-> 0, queued |-> {}]

NoItem == [path |-> None, seen |-> Fresh, clears |-> FALSE]

WatchInit ==
  /\ folder \in [Paths -> Contents \cup {None}] /\ unreadable = {}
  /\ saved = Fresh /\ window = Fresh
  /\ scan = [s \in Scans |-> Idle]
  /\ clearing = NoItem
  /\ jobs = <<>> /\ archive = <<>>
  /\ begun = 0 /\ changes = 0

-----------------------------------------------------------------------------
(***************************************************************************)
(* The world: files appear, are moved, replaced, or become (un)readable.    *)
(***************************************************************************)
Change ==
  /\ changes < MaxChanges
  /\ changes' = changes + 1
  /\ UNCHANGED <<settings, scan, clearing, jobs, archive, begun>>

Appear(p, c) ==
  /\ folder[p] # c
  /\ folder' = [folder EXCEPT ![p] = c]
  /\ Change /\ UNCHANGED unreadable

Move(p, q) ==
  /\ folder[p] # None /\ folder[q] = None
  /\ folder' = [folder EXCEPT ![p] = None, ![q] = folder[p]]
  /\ Change /\ UNCHANGED unreadable

ToggleReadable(p) ==
  /\ unreadable' = IF p \in unreadable THEN unreadable \ {p} ELSE unreadable \cup {p}
  /\ Change /\ UNCHANGED folder

-----------------------------------------------------------------------------
(***************************************************************************)
(* A scan (scan_automatic_import_inner), with the awaits between its parts. *)
(***************************************************************************)
Newest(n) ==
  {archive[i] : i \in {k \in 1..Len(archive) : k + n > Len(archive)}}

ScanBegins(s) ==
  /\ scan[s].step = "idle" /\ begun < MaxScans
  /\ begun' = begun + 1
  /\ saved.enabled
  /\ scan' = [scan EXCEPT ![s] =
       [Idle EXCEPT !.step = "begun", !.seen = saved,
                    !.archived = Len(archive)]]
  /\ UNCHANGED <<files, settings, clearing, jobs, archive, changes>>

List(s) ==
  /\ scan[s].step = "begun"
  /\ scan' = [scan EXCEPT ![s].step = "listed", ![s].known = Newest(ListLimit)]
  /\ UNCHANGED <<files, settings, clearing, jobs, archive, bounds>>

\* collect_candidates, on a blocking thread.
Collect(s) ==
  /\ scan[s].step = "listed"
  /\ scan' = [scan EXCEPT ![s].step = "collected",
                          ![s].found = {File(p) : p \in Recordings \ unreadable},
                          ![s].broken = Recordings \cap unreadable]
  /\ UNCHANGED <<files, settings, clearing, jobs, archive, bounds>>

\* ExistingImportIndex::matches.
Matches(file, index) ==
  \E known \in index : known.path = file.path \/ known.content = file.content

\* Mutant: the loop forgets what it has just queued.
AllUnknown(s) == {{file \in scan[s].found : ~Matches(file, scan[s].known)}}

\* The files the loop queues, in whatever order it meets them: what was
\* queued joins the index.
Unknown(s) ==
  LET new == {file \in scan[s].found : ~Matches(file, scan[s].known)} IN
  {batch \in SUBSET new :
     /\ \A file \in batch : ~Matches(file, batch \ {file})
     /\ \A file \in new : Matches(file, batch)}

NewJob(file) == [path |-> file.path, content |-> file.content, step |-> "active", seen |-> Fresh]

\* They start in the order in which the folders were walked.
Enqueue(batch) ==
  /\ Len(jobs) + Cardinality(batch) <= MaxJobs
  /\ \E order \in SetToSeqs(batch) :
       jobs' = jobs \o [i \in 1..Cardinality(batch) |-> NewJob(order[i])]

\* Every unknown file is given to a job; when one cannot be started the scan
\* ends there and writes nothing back.
Queue(s) ==
  /\ scan[s].step = "collected"
  /\ \E all \in Unknown(s) :
       \/ /\ Enqueue(all)
          /\ scan' = [scan EXCEPT ![s].step = "queued", ![s].queued = all]
       \/ \E some \in SUBSET all :
            /\ some # all
            /\ Enqueue(some)
            /\ scan' = [scan EXCEPT ![s] = [Idle EXCEPT !.queued = some, !.archived = scan[s].archived]]
  /\ UNCHANGED <<files, settings, clearing, archive, bounds>>

\* persist_scan_state works on the settings read when the scan began.
Persist(s) ==
  /\ scan[s].step = "queued"
  /\ saved' = [scan[s].seen EXCEPT !.quarantined =
                 (@ \ {file.path : file \in scan[s].found}) \cup scan[s].broken]
  /\ scan' = [scan EXCEPT ![s] = [Idle EXCEPT !.queued = scan[s].queued, !.archived = scan[s].archived]]
  /\ UNCHANGED <<files, window, clearing, jobs, archive, bounds>>

-----------------------------------------------------------------------------
(***************************************************************************)
(* The job of an imported file (spawn_transcription_job).                   *)
(***************************************************************************)
JobGoes(j, from, to) ==
  /\ jobs[j].step = from
  /\ jobs' = [jobs EXCEPT ![j].step = to]

Archived(j) ==
  /\ JobGoes(j, "active", "archived")
  /\ archive' = Append(archive, [path |-> jobs[j].path, content |-> jobs[j].content])
  /\ UNCHANGED <<files, settings, scan, clearing, bounds>>

Failed(j) ==
  /\ JobGoes(j, "active", "failing")
  /\ UNCHANGED <<files, settings, scan, clearing, archive, bounds>>

Cancelled(j) ==
  /\ JobGoes(j, "active", "over")
  /\ UNCHANGED <<files, settings, scan, clearing, archive, bounds>>

\* record_automatic_import_success and _failure read the settings ...
ReadToNote(j) ==
  /\ jobs[j].step \in {"archived", "failing"}
  /\ jobs' = [jobs EXCEPT ![j].seen = saved,
       ![j].step = IF jobs[j].step = "archived" THEN "noting success" ELSE "noting failure"]
  /\ UNCHANGED <<files, settings, scan, clearing, archive, bounds>>

\* ... and write them back.
NoteOutcome(j) ==
  /\ jobs' = [jobs EXCEPT ![j].step = "over", ![j].seen = Fresh]
  /\ \/ /\ jobs[j].step = "noting success"
        /\ saved' = [jobs[j].seen EXCEPT !.quarantined = @ \ {jobs[j].path}]
     \/ /\ jobs[j].step = "noting failure"
        /\ saved' = [jobs[j].seen EXCEPT !.quarantined = @ \cup {jobs[j].path}]
  /\ UNCHANGED <<files, window, scan, clearing, archive, bounds>>

-----------------------------------------------------------------------------
(***************************************************************************)
(* The user clears an item of the quarantine, or retries it: a snapshot and *)
(* a replacement, after which a retry begins a scan of its own. And the     *)
(* user edits the section.                                                  *)
(***************************************************************************)
ItemBegins(p, clears) ==
  /\ clearing.path = None /\ p \in saved.quarantined
  /\ clearing' = [path |-> p, seen |-> saved, clears |-> clears]
  /\ UNCHANGED <<files, settings, scan, jobs, archive, bounds>>

ItemEnds ==
  /\ clearing.path # None
  /\ LET gone == IF clearing.clears THEN {clearing.path} ELSE {} IN
     /\ saved' = [clearing.seen EXCEPT !.quarantined = @ \ gone]
  /\ window' = IF clearing.clears THEN saved' ELSE window
  /\ clearing' = NoItem
  /\ UNCHANGED <<files, scan, jobs, archive, bounds>>

\* The window (patchAutomaticImportSettings) sends its copy of the section with
\* the edit; update_partial puts it in the place of the saved one as a whole.
Edit ==
  /\ changes < MaxChanges /\ changes' = changes + 1
  /\ saved' = [window EXCEPT !.enabled = ~@]
  /\ window' = saved'
  /\ UNCHANGED <<files, scan, clearing, jobs, archive, begun>>

\* After a scan, or when it opens, the window fetches the saved settings
\* (get_settings_snapshot); as long as an edit can follow, which is what the copy
\* is for.
Refresh ==
  /\ changes < MaxChanges
  /\ window' = saved
  /\ UNCHANGED <<files, saved, scan, clearing, jobs, archive, bounds>>

WatchNext ==
  \/ \E p \in Paths, c \in Contents : Appear(p, c)
  \/ \E p, q \in Paths : Move(p, q)
  \/ \E p \in Paths : ToggleReadable(p) \/ ItemBegins(p, TRUE) \/ ItemBegins(p, FALSE)
  \/ \E s \in Scans : ScanBegins(s) \/ List(s) \/ Collect(s) \/ Queue(s) \/ Persist(s)
  \/ \E j \in DOMAIN jobs : Archived(j) \/ Failed(j) \/ Cancelled(j) \/ ReadToNote(j) \/ NoteOutcome(j)
  \/ ItemEnds \/ Edit \/ Refresh

WatchSpec == WatchInit /\ [][WatchNext]_watchVars

-----------------------------------------------------------------------------
(***************************************************************************)
(* Properties.                                                             *)
(***************************************************************************)
\* "A file is renamed after successful transcription and does not create a
\* duplicate transcript" (github-backlog issue 01:48): a scan queues no recording
\* with an artifact that was in the archive when it began, under whatever path and
\* whatever the other scans and jobs do meanwhile, unless as many newer ones as a
\* scan lists have been archived since (matches 124, the limit 249).
ProcessedIsNotQueued ==
  \A s \in Scans : \A file \in scan[s].queued : \A i \in 1..scan[s].archived :
    archive[i].content = file.content => i + ListLimit <= Len(archive)

\* Two copies of a recording found by one scan start one job (the loop adds
\* what it queued to the index, 351-352).
CopiesAreQueuedOnce ==
  \A s \in Scans : \A f, g \in scan[s].queued : f # g => f.content # g.content

\* One scan queues a recording once, and none it could see was processed. Two
\* scans whose lists are both older than the recording's artifact queue it twice;
\* nothing in the code prevents that.
ScanQueuesOnce == ProcessedIsNotQueued /\ CopiesAreQueuedOnce

=============================================================================
