--------------------------- MODULE RuntimeInstall ---------------------------
(***************************************************************************)
(* The installation of the local speech runtime: its two directories, bin  *)
(* and lib, are replaced one after the other under a journal, validated by *)
(* running the new programs, and committed.  Whoever finds the journal of  *)
(* an installation that did not end (the next installation, or a command   *)
(* that asks whether the runtime is ready) undoes or finishes it.          *)
(***************************************************************************)
EXTENDS Naturals, ProvisioningSlot

CONSTANTS
    Originals,    \* versions of bin and lib that may be installed at the start
    MaxInstalls   \* bound: installations, numbered as the versions they bring

Parts == {"bin", "lib"}
Versions == 0 .. MaxInstalls

VARIABLES
    live,         \* bin and lib, where every program looks for them
    old,          \* the backup directory
    new,          \* the staging directory
    journal,      \* .runtime-install-journal.json, or None
    previous,     \* its copy while it is being replaced, or None
    installLock,         \* RUNTIME_INSTALL_TRANSACTION_LOCK
    pc,           \* where the installation is
    swap,         \* how far it is in replacing its journal
    rec,          \* how far the holder of the lock is in a recovery
    txn,          \* the installation's own copy of its journal
    version,      \* the version it brings
    report,       \* the status it ends with
    good          \* history: the pair last known to work

disk == <<live, old, new>>
journals == <<journal, previous>>
runtime == <<disk, journals, slot, installLock, pc, swap, rec, txn, version, report, good>>

Nothing == [p \in Parts |-> None]
Pair(v) == [p \in Parts |-> v]

Journals == [had : [Parts -> BOOLEAN], tried : [Parts -> BOOLEAN], validated : BOOLEAN]

\* None stands for no directory, no journal and nobody.
ASSUME RuntimeAssumption ==
    /\ MaxInstalls \in Nat
    /\ None \notin Versions /\ None \notin Journals
    /\ None \notin Workers \cup {"reader", "worker"}
    /\ Originals \subseteq [Parts -> {0, None}]

\* Mutant: a new journal says that both directories were there.
FreshAssumes == [had |-> [p \in Parts |-> TRUE],
                 tried |-> [p \in Parts |-> FALSE], validated |-> FALSE]
Fresh == [had |-> [p \in Parts |-> live[p] # None],
          tried |-> [p \in Parts |-> FALSE], validated |-> FALSE]

\* Recovery reads the copy only when there is no journal.
Known == IF journal # None THEN journal ELSE previous

Writes == {"write", "write bin", "write lib", "write validated"}
Steps == {"idle", "fetch", "open", "extract", "move bin", "move lib", "publish bin",
          "publish lib", "probe", "drop new", "drop old", "drop previous",
          "drop journal", "undo", "undo marker", "end"} \cup Writes
Recovery == {"off", "begin", "bin", "lib", "new", "old", "previous", "journal"}
Reports == {"none", "completed", "cancelled", "error", "restored", "retained"}

RuntimeTypeOK ==
    /\ live \in [Parts -> Versions \cup {None}]
    /\ old \in [Parts -> Versions \cup {None}]
    /\ new \in [Parts -> Versions \cup {None}]
    /\ journal \in Journals \cup {None}
    /\ previous \in Journals \cup {None}
    /\ slot \in {None, "reader"} \cup Workers
    /\ installLock \in {None, "worker", "reader"}
    /\ pc \in Steps
    /\ swap \in {"no", "moved", "published"}
    /\ rec \in Recovery
    /\ txn \in Journals
    /\ version \in Versions
    /\ report \in Reports
    /\ good \in [Parts -> Versions \cup {None}]

NoJournal == [had |-> [p \in Parts |-> FALSE], tried |-> [p \in Parts |-> FALSE],
              validated |-> FALSE]

RuntimeInit ==
    /\ live \in Originals
    /\ old = Nothing /\ new = Nothing
    /\ journal = None /\ previous = None
    /\ slot = None /\ installLock = None
    /\ pc = "idle" /\ swap = "no" /\ rec = "off"
    /\ txn = NoJournal
    /\ version = 0
    /\ report = "none"
    /\ good = live

(***************************************************************************)
(* The request and the download.  An installation that ends releases the   *)
(* slot, whatever it reports.                                              *)
(***************************************************************************)
BeginInstall ==
    /\ pc = "idle"
    /\ version < MaxInstalls
    /\ Acquire("runtime") /\ pc' = "fetch" /\ version' = version + 1
    /\ report' = "none"
    /\ UNCHANGED <<disk, journals, installLock, swap, rec, txn, good>>

Fetched ==
    /\ pc = "fetch"
    /\ pc' = "open"
    /\ UNCHANGED <<disk, journals, slot, installLock, swap, rec, txn, version, report, good>>

NotFetched ==
    /\ pc = "fetch"
    /\ pc' = "end"
    /\ report' \in {"cancelled", "error"}
    /\ UNCHANGED <<disk, journals, slot, installLock, swap, rec, txn, version, good>>

EndInstall ==
    /\ pc = "end"
    /\ pc' = "idle" /\ Release("runtime")
    /\ UNCHANGED <<disk, journals, installLock, swap, rec, txn, version, report, good>>

(***************************************************************************)
(* Recovery, by the holder of the lock.                                    *)
(***************************************************************************)

\* A command may recover only while nobody provisions, and keeps the slot until
\* it has.
ReaderRecovers ==
    /\ slot = None /\ installLock = None
    /\ slot' = "reader" /\ installLock' = "reader" /\ rec' = "begin"
    /\ UNCHANGED <<disk, journals, pc, swap, txn, version, report, good>>

WorkerRecovers ==
    /\ pc \in {"open", "undo", "undo marker"}
    /\ rec = "off" /\ installLock \in {None, "worker"}
    /\ installLock' = "worker" /\ rec' = "begin"
    /\ UNCHANGED <<disk, journals, slot, pc, swap, txn, version, report, good>>

RecoveryEnds(ok) ==
    /\ rec' = "off"
    /\ CASE installLock = "reader" ->
              installLock' = None /\ slot' = None /\ UNCHANGED <<pc, report>>
         [] installLock = "worker" /\ pc = "open" /\ ok ->
              pc' = "extract" /\ UNCHANGED <<installLock, slot, report>>
         [] OTHER ->
              /\ pc' = "end" /\ installLock' = None
              /\ report' = IF ok /\ pc = "undo marker" THEN "restored" ELSE "error"
              /\ UNCHANGED slot

RecoveryBegins ==
    /\ rec = "begin"
    /\ IF Known = None
       THEN RecoveryEnds(TRUE)
       ELSE /\ rec' = IF Known.validated THEN "new" ELSE "bin"
            /\ UNCHANGED <<slot, installLock, pc, report>>
    /\ UNCHANGED <<disk, journals, swap, txn, version, good>>

\* A backed-up directory takes its place again, after what is there was removed.
Restore(p) ==
    /\ rec = p
    /\ LET next == IF p = "bin" THEN "lib" ELSE "new"
       IN  \/ /\ old[p] # None /\ live[p] # None
              /\ live' = [live EXCEPT ![p] = None]
              /\ UNCHANGED <<old, rec>>
           \/ /\ old[p] # None /\ live[p] = None
              /\ live' = [live EXCEPT ![p] = old[p]]
              /\ old' = [old EXCEPT ![p] = None]
              /\ rec' = next
           \/ /\ old[p] = None
              /\ live' = [live EXCEPT ![p] =
                             IF Known.tried[p] /\ ~Known.had[p] THEN None ELSE @]
              /\ rec' = next
              /\ UNCHANGED old
    /\ UNCHANGED <<new, journals, slot, installLock, pc, swap, txn, version, report, good>>

RecoveryDropsNew ==
    /\ rec = "new"
    /\ new' = Nothing /\ rec' = "old"
    /\ UNCHANGED <<live, old, journals, slot, installLock, pc, swap, txn, version, report, good>>

RecoveryDropsOld ==
    /\ rec = "old"
    /\ old' = Nothing /\ rec' = "previous"
    /\ UNCHANGED <<live, new, journals, slot, installLock, pc, swap, txn, version, report, good>>

RecoveryDropsPrevious ==
    /\ rec = "previous"
    /\ previous' = None /\ rec' = "journal"
    /\ UNCHANGED <<disk, journal, slot, installLock, pc, swap, txn, version, report, good>>

RecoveryDropsJournal ==
    /\ rec = "journal"
    /\ journal' = None
    /\ RecoveryEnds(TRUE)
    /\ UNCHANGED <<disk, previous, swap, txn, version, good>>

RecoveryFails ==
    /\ rec # "off"
    /\ RecoveryEnds(FALSE)
    /\ UNCHANGED <<disk, journals, swap, txn, version, good>>

Recovering ==
    \/ RecoveryBegins \/ Restore("bin") \/ Restore("lib") \/ RecoveryDropsNew
    \/ RecoveryDropsOld \/ RecoveryDropsPrevious \/ RecoveryDropsJournal

(***************************************************************************)
(* install_runtime_archive, under the lock from its recovery on.           *)
(***************************************************************************)
Extract ==
    /\ pc = "extract"
    /\ new' = Pair(version)
    /\ txn' = Fresh
    /\ pc' = "write"
    /\ UNCHANGED <<live, old, journals, slot, installLock, swap, rec, version, report, good>>

\* The archive cannot be extracted, or does not hold both directories.
NotExtracted ==
    /\ pc = "extract"
    /\ pc' = "end" /\ report' = "error" /\ installLock' = None
    /\ new' = Nothing
    /\ UNCHANGED <<live, old, journals, slot, swap, rec, txn, version, good>>

(***************************************************************************)
(* Writing the journal: a rename over it or, where that fails, a rename of *)
(* the old one out of the way first.                                       *)
(***************************************************************************)
Entered ==
    CASE pc = "write bin" -> [txn EXCEPT !.tried["bin"] = TRUE]
      [] pc = "write lib" -> [txn EXCEPT !.tried["lib"] = TRUE]
      [] pc = "write validated" -> [txn EXCEPT !.validated = TRUE]
      [] OTHER -> txn

AfterWrite ==
    CASE pc = "write bin" -> "publish bin"
      [] pc = "write lib" -> "publish lib"
      [] pc = "write validated" -> "drop new"
      [] OTHER -> "move bin"

\* The pair that works is the new one from the moment the journal says so.
Validated == IF pc = "write validated" THEN live ELSE good

WriteReplaces ==
    /\ pc \in Writes /\ swap = "no"
    /\ pc = "write validated" => installLock \in {None, "worker"}
    /\ installLock' = "worker"
    /\ journal' = Entered /\ txn' = Entered
    /\ good' = Validated
    /\ pc' = AfterWrite
    /\ UNCHANGED <<disk, previous, slot, swap, rec, version, report>>

WriteMoves ==
    /\ pc \in Writes /\ swap = "no" /\ journal # None
    /\ pc = "write validated" => installLock \in {None, "worker"}
    /\ installLock' = "worker"
    /\ previous' = journal /\ journal' = None
    /\ swap' = "moved"
    /\ UNCHANGED <<disk, slot, pc, rec, txn, version, report, good>>

WritePublishes ==
    /\ swap = "moved"
    /\ journal' = Entered
    /\ good' = Validated
    /\ swap' = "published"
    /\ UNCHANGED <<disk, previous, slot, installLock, pc, rec, txn, version, report>>

WriteEnds ==
    /\ swap = "published"
    /\ previous' = None
    /\ txn' = Entered
    /\ pc' = AfterWrite /\ swap' = "no"
    /\ UNCHANGED <<disk, journal, slot, installLock, rec, version, report, good>>

\* What an installation does that could not write its journal: nothing was
\* moved yet, or it is undone; the mark that it is valid counts if it can be
\* read back.
WriteFailed ==
    /\ swap' = "no"
    /\ CASE pc = "write" ->
              /\ new' = Nothing /\ old' = Nothing
              /\ pc' = "end" /\ report' = "error" /\ installLock' = None
         [] pc \in {"write bin", "write lib"} ->
              pc' = "undo" /\ installLock' = "worker" /\ UNCHANGED <<new, old, report>>
         [] OTHER ->
              /\ installLock' = None /\ UNCHANGED <<new, old>>
              /\ IF journal' # None /\ journal'.validated
                 THEN pc' = "end" /\ report' = "retained"
                 ELSE pc' = "undo marker" /\ UNCHANGED report
    /\ UNCHANGED <<live, slot, rec, txn, version, good>>

WriteFailsFirst ==
    /\ pc \in Writes /\ swap = "no"
    /\ pc = "write validated" => installLock \in {None, "worker"}
    /\ previous' \in {previous, None} /\ UNCHANGED journal
    /\ WriteFailed

WriteFailsMoved ==
    /\ swap = "moved"
    /\ \/ journal' = previous /\ previous' = None
       \/ UNCHANGED journals
    /\ WriteFailed

WriteFailsPublished ==
    /\ swap = "published"
    /\ UNCHANGED journals
    /\ WriteFailed

(***************************************************************************)
(* The renames, the old directories first.                                 *)
(***************************************************************************)
Move(p) ==
    /\ pc = (IF p = "bin" THEN "move bin" ELSE "move lib")
    /\ live' = [live EXCEPT ![p] = None]
    /\ old' = IF txn.had[p] THEN [old EXCEPT ![p] = live[p]] ELSE old
    /\ pc' = IF p = "bin" THEN "move lib" ELSE "write bin"
    /\ UNCHANGED <<new, journals, slot, installLock, swap, rec, txn, version, report, good>>

\* Nothing was moved when bin cannot be: its journal is cleared, as far as that
\* goes.  When lib cannot be, bin is restored.
MoveBinFails ==
    /\ pc = "move bin" /\ txn.had["bin"]
    /\ new' = Nothing /\ old' = Nothing
    /\ \/ previous' = None /\ journal' = None
       \/ previous' = None /\ UNCHANGED journal
       \/ UNCHANGED journals
    /\ pc' = "end" /\ report' = "error" /\ installLock' = None
    /\ UNCHANGED <<live, slot, swap, rec, txn, version, good>>

MoveLibFails ==
    /\ pc = "move lib" /\ txn.had["lib"]
    /\ pc' = "undo"
    /\ UNCHANGED <<disk, journals, slot, installLock, swap, rec, txn, version, report, good>>

Publish(p) ==
    /\ pc = (IF p = "bin" THEN "publish bin" ELSE "publish lib")
    /\ live' = [live EXCEPT ![p] = new[p]]
    /\ new' = [new EXCEPT ![p] = None]
    /\ pc' = IF p = "bin" THEN "write lib" ELSE "probe"
    /\ installLock' = IF p = "bin" THEN installLock ELSE None
    /\ UNCHANGED <<old, journals, slot, swap, rec, txn, version, report, good>>

PublishFails ==
    /\ pc \in {"publish bin", "publish lib"}
    /\ pc' = "undo"
    /\ UNCHANGED <<disk, journals, slot, installLock, swap, rec, txn, version, report, good>>

(***************************************************************************)
(* The programs that were installed are run, without the lock; then the    *)
(* installation is committed, or undone.                                   *)
(***************************************************************************)
Probe ==
    /\ pc = "probe"
    /\ \E ready \in {r \in BOOLEAN : r => \A p \in Parts : live[p] # None} :
        pc' = IF ready THEN "write validated" ELSE "undo"
    /\ UNCHANGED <<disk, journals, slot, installLock, swap, rec, txn, version, report, good>>

CommitDropsNew ==
    /\ pc = "drop new"
    /\ new' = Nothing /\ pc' = "drop old"
    /\ UNCHANGED <<live, old, journals, slot, installLock, swap, rec, txn, version, report, good>>

CommitDropsOld ==
    /\ pc = "drop old"
    /\ old' = Nothing /\ pc' = "drop previous"
    /\ UNCHANGED <<live, new, journals, slot, installLock, swap, rec, txn, version, report, good>>

\* The copy first: it may be older than the mark in the journal.
CommitDropsPrevious ==
    /\ pc = "drop previous"
    /\ previous' = None /\ pc' = "drop journal"
    /\ UNCHANGED <<disk, journal, slot, installLock, swap, rec, txn, version, report, good>>

CommitDropsJournal ==
    /\ pc = "drop journal"
    /\ journal' = None /\ installLock' = None
    /\ pc' = "end" /\ report' = "completed"
    /\ UNCHANGED <<disk, previous, slot, swap, rec, txn, version, good>>

CommitFails ==
    /\ pc \in {"drop new", "drop old", "drop previous", "drop journal"}
    /\ pc' = "end" /\ report' = "retained" /\ installLock' = None
    /\ UNCHANGED <<disk, journals, slot, swap, rec, txn, version, good>>

Installing ==
    \/ Fetched \/ EndInstall \/ WorkerRecovers \/ Extract \/ WriteReplaces \/ WriteMoves
    \/ WritePublishes \/ WriteEnds \/ Move("bin") \/ Move("lib") \/ Publish("bin")
    \/ Publish("lib") \/ Probe \/ CommitDropsNew \/ CommitDropsOld \/ CommitDropsPrevious
    \/ CommitDropsJournal

InstallFails ==
    \/ NotFetched \/ RecoveryFails \/ NotExtracted \/ WriteFailsFirst \/ WriteFailsMoved
    \/ WriteFailsPublished \/ MoveBinFails \/ MoveLibFails \/ PublishFails \/ CommitFails

\* The program ends at any point; what is on the disk stays.
RuntimeCrash ==
    /\ slot' = None /\ installLock' = None
    /\ pc' = "idle" /\ swap' = "no" /\ rec' = "off" /\ txn' = NoJournal
    /\ UNCHANGED <<disk, journals, version, report, good>>

RuntimeNext ==
    \/ BeginInstall \/ ReaderRecovers \/ Recovering \/ Installing \/ InstallFails
    \/ RuntimeCrash

RuntimeSpec == RuntimeInit /\ [][RuntimeNext]_runtime

(***************************************************************************)
(* What a recovery would leave of each directory, from the journal alone.  *)
(***************************************************************************)
Restored(p) ==
    IF Known = None \/ Known.validated THEN live[p]
    ELSE IF old[p] # None THEN old[p]
    ELSE IF Known.tried[p] /\ ~Known.had[p] THEN None
    ELSE live[p]

\* At every step, whatever fails and wherever the program ends, the next
\* recovery brings back the pair last known to work: bin and lib together,
\* never one of each version, and never an older pair once the new one was
\* validated (recover_interrupted_runtime_install_locked).
LastGoodSurvives == \A p \in Parts : Restored(p) = good[p]

\* What an installation reports is true: "completed" means that the new pair is
\* in place and nothing is left to recover; "previous runtime restored" that it
\* was; "the validated runtime remains active" that it is the new one.
ReportIsTrue ==
    pc = "end" =>
        /\ report = "completed" =>
              live = Pair(version) /\ good = live /\ Known = None /\ old = Nothing
        /\ report = "restored" => live = good /\ Known = None
        /\ report = "retained" => live = Pair(version) /\ good = live

\* An installation of the runtime is all or nothing, over every rename that
\* fails and every end of the program, and what it reports is what is there.
InstallIsAllOrNothing == LastGoodSurvives /\ ReportIsTrue
=============================================================================
