------------------------- MODULE ProvisioningProofs -------------------------
(***************************************************************************)
(* Proofs about what replaces files that are in use.  An installation of   *)
(* the speech runtime is all or nothing, for any number of installations   *)
(* and every failure, end of the program and recovery between its steps; a *)
(* batch of models that nothing refuses anything installs them all; a      *)
(* repair of the diarization runtime keeps one that works; an update never *)
(* trusts a runtime that was not probed; a start of a transcription is as  *)
(* the window was told; the import of a backup leaves one archive, and     *)
(* loses the old one at no step.                                           *)
(***************************************************************************)
EXTENDS Provisioning, PyannoteUpgrade, StartChecks, BackupImport, FiniteSetTheorems,
        SequenceTheorems, TLAPS

(***************************************************************************)
(* The inductive invariant.  The property speaks of what a recovery would  *)
(* do; it is kept because the directories, the journal and the place of    *)
(* the installation always agree.                                          *)
(***************************************************************************)

\* What a directory can be while it is replaced.
Intact(p) == live[p] = good[p] /\ old[p] = None
Backed(p) == live[p] = None /\ old[p] = good[p]
Replaced(p) == live[p] = version /\ old[p] = good[p]

\* What the installation's journal has of them.
Tried(parts) == \A p \in Parts : txn.tried[p] <=> p \in parts
Noted == ~txn.validated /\ \A p \in Parts : txn.had[p] <=> good[p] # None

\* Where an installation may recover, stands under its journal, and commits.
Undone == {"open", "undo", "undo marker"}
Under == {"move bin", "move lib", "write bin", "publish bin", "write lib", "publish lib",
          "probe", "write validated"}
Drops == {"drop new", "drop old", "drop previous", "drop journal"}

\* One at a time: whoever recovers has the lock, and a reader has the slot too.
SlotIsHeld ==
  /\ pc # "idle" => slot = "runtime"
  /\ installLock = "reader" => slot = "reader"
  /\ rec # "off" => installLock = "reader" \/ (installLock = "worker" /\ pc \in Undone)
  /\ swap # "no" => pc \in {"write bin", "write lib", "write validated"}

\* Without a journal there is no backup, and a journal knows of every backup.
JournalIsTrue ==
  /\ Known = None => old = Nothing
  /\ Known # None /\ ~Known.validated => \A p \in Parts : old[p] # None => Known.had[p]

\* What a recovery has done so far.
RecoveryGoesOn ==
  /\ rec \in {"bin", "lib"} => Known # None /\ ~Known.validated
  /\ rec = "lib" => Intact("bin")
  /\ rec \in {"new", "old", "previous", "journal"} => live = good
  /\ rec \in {"new", "old"} => Known # None /\ (Known.validated \/ old = Nothing)
  /\ rec \in {"previous", "journal"} => old = Nothing
  /\ rec = "journal" => previous = None

\* The journal on the disk is the installation's own, at every stage of its
\* replacement.
JournalIsTheirs ==
  /\ pc \in {"extract", "write"} => journal = None /\ previous = None
  /\ pc \in Under =>
       /\ swap = "no" => journal = txn /\ previous = None
       /\ swap = "moved" => journal = None /\ previous = txn
       /\ swap = "published" => journal = Entered /\ previous = txn
  /\ pc \in Drops => journal # None /\ journal.validated
  /\ pc = "drop journal" => previous = None

\* Where the two directories are at every step, and what the journal says then.
DirectoriesAre ==
  /\ pc \in {"write", "move bin"} =>
       Intact("bin") /\ Intact("lib") /\ new = Pair(version) /\ Tried({}) /\ Noted
  /\ pc = "move lib" =>
       Backed("bin") /\ Intact("lib") /\ new = Pair(version) /\ Tried({}) /\ Noted
  /\ pc = "write bin" =>
       Backed("bin") /\ Backed("lib") /\ new = Pair(version) /\ Tried({}) /\ Noted
  /\ pc = "publish bin" =>
       Backed("bin") /\ Backed("lib") /\ new = Pair(version) /\ Tried({"bin"}) /\ Noted
  /\ pc = "write lib" =>
       Replaced("bin") /\ Backed("lib") /\ new["lib"] = version /\ Tried({"bin"}) /\ Noted
  /\ pc = "publish lib" =>
       Replaced("bin") /\ Backed("lib") /\ new["lib"] = version /\ Tried(Parts) /\ Noted
  /\ pc = "probe" => Replaced("bin") /\ Replaced("lib") /\ Tried(Parts) /\ Noted
  /\ pc = "write validated" =>
       /\ live = Pair(version) /\ ~txn.validated
       /\ IF swap = "published" THEN good = live ELSE old = good /\ Tried(Parts) /\ Noted
  /\ pc \in Drops => live = Pair(version) /\ good = live
  /\ pc \in {"drop previous", "drop journal"} => old = Nothing

RuntimeInv ==
  /\ RuntimeTypeOK /\ InstallIsAllOrNothing
  /\ SlotIsHeld /\ JournalIsTrue /\ RecoveryGoesOn /\ JournalIsTheirs /\ DirectoriesAre

(***************************************************************************)
(* The operators with several arms, one conjunct or disjunct per arm.      *)
(***************************************************************************)

\* How a recovery ends: a reader lets go, an installation that was to begin goes
\* on, and one that was undone ends.
LEMMA RecoveryEndsCases ==
  ASSUME NEW ok \in BOOLEAN, RecoveryEnds(ok)
  PROVE  /\ rec' = "off"
         /\ \/ /\ installLock = "reader" /\ installLock' = None /\ slot' = None
               /\ pc' = pc /\ report' = report
            \/ /\ installLock = "worker" /\ pc = "open" /\ ok /\ pc' = "extract"
               /\ installLock' = installLock /\ slot' = slot /\ report' = report
            \/ /\ installLock # "reader" /\ ~(installLock = "worker" /\ pc = "open" /\ ok)
               /\ pc' = "end" /\ installLock' = None /\ slot' = slot
               /\ report' \in {"restored", "error"}
               /\ report' = "restored" => ok /\ pc = "undo marker"
<1>1. CASE installLock = "reader"
  BY <1>1 DEF RecoveryEnds
<1>2. CASE installLock = "worker" /\ pc = "open" /\ ok
  BY <1>2 DEF RecoveryEnds
<1>3. CASE installLock # "reader" /\ ~(installLock = "worker" /\ pc = "open" /\ ok)
  BY <1>3 DEF RecoveryEnds
<1>. QED
  BY <1>1, <1>2, <1>3

\* The journal that is written, for each of the four writes.
LEMMA EnteredCases ==
  /\ pc = "write bin" => Entered = [txn EXCEPT !.tried["bin"] = TRUE]
  /\ pc = "write lib" => Entered = [txn EXCEPT !.tried["lib"] = TRUE]
  /\ pc = "write validated" => Entered = [txn EXCEPT !.validated = TRUE]
  /\ pc \notin {"write bin", "write lib", "write validated"} => Entered = txn
<1>1. pc = "write bin" => Entered = [txn EXCEPT !.tried["bin"] = TRUE]
  BY DEF Entered
<1>2. pc = "write lib" => Entered = [txn EXCEPT !.tried["lib"] = TRUE]
  BY DEF Entered
<1>3. pc = "write validated" => Entered = [txn EXCEPT !.validated = TRUE]
  BY DEF Entered
<1>4. pc \notin {"write bin", "write lib", "write validated"} => Entered = txn
  BY DEF Entered
<1>. QED
  BY <1>1, <1>2, <1>3, <1>4

\* The journal that is written, field by field.
LEMMA EnteredFields ==
  ASSUME txn \in Journals
  PROVE  /\ Entered \in Journals /\ Entered.had = txn.had
         /\ Entered.validated <=> txn.validated \/ pc = "write validated"
         /\ Entered.tried["bin"] <=> txn.tried["bin"] \/ pc = "write bin"
         /\ Entered.tried["lib"] <=> txn.tried["lib"] \/ pc = "write lib"
<1>1. CASE pc = "write bin"
  BY <1>1, EnteredCases DEF Journals, Parts
<1>2. CASE pc = "write lib"
  <2>1. Entered = [txn EXCEPT !.tried["lib"] = TRUE]
    BY <1>2, EnteredCases
  <2>. QED
    BY <1>2, <2>1 DEF Journals, Parts
<1>3. CASE pc = "write validated"
  BY <1>3, EnteredCases DEF Journals, Parts
<1>4. CASE pc \notin {"write bin", "write lib", "write validated"}
  BY <1>4, EnteredCases DEF Journals, Parts
<1>. QED
  BY <1>1, <1>2, <1>3, <1>4

\* It is a journal.
LEMMA EnteredType == RuntimeTypeOK => Entered \in Journals
BY EnteredFields DEF RuntimeTypeOK

\* Where an installation goes on after a write.
LEMMA AfterWriteCases ==
  /\ pc = "write bin" => AfterWrite = "publish bin"
  /\ pc = "write lib" => AfterWrite = "publish lib"
  /\ pc = "write validated" => AfterWrite = "drop new"
  /\ pc = "write" => AfterWrite = "move bin"
  /\ AfterWrite \in {"publish bin", "publish lib", "drop new", "move bin"}
BY DEF AfterWrite

\* What it does when a write failed.
LEMMA WriteFailedCases ==
  ASSUME WriteFailed
  PROVE  /\ swap' = "no"
         /\ UNCHANGED <<live, slot, rec, txn, version, good>>
         /\ \/ /\ pc = "write" /\ new' = Nothing /\ old' = Nothing
               /\ pc' = "end" /\ report' = "error" /\ installLock' = None
            \/ /\ pc \in {"write bin", "write lib"} /\ new' = new /\ old' = old
               /\ pc' = "undo" /\ installLock' = "worker" /\ report' = report
            \/ /\ pc \notin {"write", "write bin", "write lib"} /\ new' = new /\ old' = old /\ installLock' = None
               /\ \/ journal' # None /\ journal'.validated /\ pc' = "end" /\ report' = "retained"
                  \/ ~(journal' # None /\ journal'.validated) /\ pc' = "undo marker" /\ report' = report
<1>1. CASE pc = "write"
  BY <1>1 DEF WriteFailed
<1>2. CASE pc \in {"write bin", "write lib"}
  BY <1>2 DEF WriteFailed
<1>3. CASE pc \notin {"write", "write bin", "write lib"}
  BY <1>3 DEF WriteFailed
<1>. QED
  BY <1>1, <1>2, <1>3

(***************************************************************************)
(* The types.                                                              *)
(***************************************************************************)

\* The types are kept by the request and its end ...
LEMMA RequestTypes ==
  ASSUME RuntimeTypeOK, BeginInstall \/ Fetched \/ NotFetched \/ EndInstall
  PROVE  RuntimeTypeOK'
<1>. USE RuntimeAssumption DEF BeginInstall, Fetched, NotFetched, EndInstall, Acquire, Release,
     RuntimeTypeOK
<1>1. pc' \in Steps
  BY DEF Steps, Writes
<1>2. rec' \in Recovery
  BY DEF Recovery
<1>3. report' \in Reports
  BY DEF Reports
<1>4. /\ live' \in [Parts -> Versions \cup {None}] /\ good' \in [Parts -> Versions \cup {None}]
      /\ old' \in [Parts -> Versions \cup {None}]
  BY DEF disk, Nothing, Validated
<1>5. new' \in [Parts -> Versions \cup {None}] /\ version' \in Versions
  BY DEF disk, Nothing, Pair, Versions
<1>6. journal' \in Journals \cup {None} /\ previous' \in Journals \cup {None}
  BY DEF journals
<1>7. txn' \in Journals
  BY DEF Fresh, NoJournal, Journals
<1>8. swap' \in {"no", "moved", "published"}
  OBVIOUS
<1>9. slot' \in {None, "reader"} \cup Workers /\ installLock' \in {None, "worker", "reader"}
  BY DEF Workers
<1>. QED
  BY <1>1, <1>2, <1>3, <1>4, <1>5, <1>6, <1>7, <1>8, <1>9 DEF RuntimeTypeOK

\* ... by a recovery ...
LEMMA RecoveryTypes ==
  ASSUME RuntimeTypeOK,
         \/ ReaderRecovers \/ WorkerRecovers \/ RecoveryBegins \/ Restore("bin")
         \/ Restore("lib") \/ RecoveryDropsNew \/ RecoveryDropsOld \/ RecoveryDropsPrevious
         \/ RecoveryDropsJournal \/ RecoveryFails
  PROVE  RuntimeTypeOK'
<1>. USE RecoveryEndsCases, RuntimeAssumption DEF ReaderRecovers, WorkerRecovers, RecoveryBegins,
     Restore, RecoveryDropsNew, RecoveryDropsOld, RecoveryDropsPrevious, RecoveryDropsJournal,
     RecoveryFails, RuntimeTypeOK
<1>1. pc' \in Steps
  BY DEF Steps, Writes
<1>2. rec' \in Recovery
  BY DEF Recovery
<1>3. report' \in Reports
  BY DEF Reports
<1>4. /\ live' \in [Parts -> Versions \cup {None}] /\ good' \in [Parts -> Versions \cup {None}]
      /\ old' \in [Parts -> Versions \cup {None}]
  BY DEF disk, Nothing, Validated
<1>5. new' \in [Parts -> Versions \cup {None}] /\ version' \in Versions
  BY DEF disk, Nothing, Pair, Versions
<1>6. journal' \in Journals \cup {None} /\ previous' \in Journals \cup {None}
  BY DEF journals
<1>7. txn' \in Journals
  BY DEF Fresh, NoJournal, Journals
<1>8. swap' \in {"no", "moved", "published"}
  OBVIOUS
<1>9. slot' \in {None, "reader"} \cup Workers /\ installLock' \in {None, "worker", "reader"}
  BY DEF Workers
<1>. QED
  BY <1>1, <1>2, <1>3, <1>4, <1>5, <1>6, <1>7, <1>8, <1>9 DEF RuntimeTypeOK

\* ... by the four steps of a write ...
LEMMA WriteTypes ==
  ASSUME RuntimeTypeOK, WriteReplaces \/ WriteMoves \/ WritePublishes \/ WriteEnds
  PROVE  RuntimeTypeOK'
<1>. USE EnteredType, AfterWriteCases, RuntimeAssumption DEF WriteReplaces, WriteMoves,
     WritePublishes, WriteEnds, RuntimeTypeOK
<1>1. pc' \in Steps
  BY DEF Steps, Writes
<1>2. rec' \in Recovery
  BY DEF Recovery
<1>3. report' \in Reports
  BY DEF Reports
<1>4. /\ live' \in [Parts -> Versions \cup {None}] /\ good' \in [Parts -> Versions \cup {None}]
      /\ old' \in [Parts -> Versions \cup {None}]
  BY DEF disk, Nothing, Validated
<1>5. new' \in [Parts -> Versions \cup {None}] /\ version' \in Versions
  BY DEF disk, Nothing, Pair, Versions
<1>6. journal' \in Journals \cup {None} /\ previous' \in Journals \cup {None}
  BY DEF journals
<1>7. txn' \in Journals
  BY DEF Fresh, NoJournal, Journals
<1>8. swap' \in {"no", "moved", "published"}
  OBVIOUS
<1>9. slot' \in {None, "reader"} \cup Workers /\ installLock' \in {None, "worker", "reader"}
  BY DEF Workers
<1>. QED
  BY <1>1, <1>2, <1>3, <1>4, <1>5, <1>6, <1>7, <1>8, <1>9 DEF RuntimeTypeOK

\* ... by a write that fails ...
LEMMA WriteFailsTypes ==
  ASSUME RuntimeTypeOK, WriteFailsFirst \/ WriteFailsMoved \/ WriteFailsPublished
  PROVE  RuntimeTypeOK'
<1>. USE WriteFailedCases, RuntimeAssumption DEF WriteFailsFirst, WriteFailsMoved,
     WriteFailsPublished, RuntimeTypeOK
<1>1. pc' \in Steps
  BY DEF Steps, Writes
<1>2. rec' \in Recovery
  BY DEF Recovery
<1>3. report' \in Reports
  BY DEF Reports
<1>4. /\ live' \in [Parts -> Versions \cup {None}] /\ good' \in [Parts -> Versions \cup {None}]
      /\ old' \in [Parts -> Versions \cup {None}]
  BY DEF disk, Nothing, Validated
<1>5. new' \in [Parts -> Versions \cup {None}] /\ version' \in Versions
  BY DEF disk, Nothing, Pair, Versions
<1>6. journal' \in Journals \cup {None} /\ previous' \in Journals \cup {None}
  BY DEF journals
<1>7. txn' \in Journals
  BY DEF Fresh, NoJournal, Journals
<1>8. swap' \in {"no", "moved", "published"}
  OBVIOUS
<1>9. slot' \in {None, "reader"} \cup Workers /\ installLock' \in {None, "worker", "reader"}
  BY DEF Workers
<1>. QED
  BY <1>1, <1>2, <1>3, <1>4, <1>5, <1>6, <1>7, <1>8, <1>9 DEF RuntimeTypeOK

\* The journals an installation starts with are journals.
LEMMA JournalTypes == RuntimeTypeOK => Fresh \in Journals /\ NoJournal \in Journals
BY DEF Fresh, NoJournal, Journals

\* ... and by every other step of an installation.
LEMMA MoveTypes ==
  ASSUME RuntimeTypeOK,
         \/ Extract \/ NotExtracted \/ Move("bin") \/ Move("lib") \/ MoveBinFails
         \/ MoveLibFails \/ Publish("bin") \/ Publish("lib") \/ PublishFails \/ Probe
         \/ CommitDropsNew \/ CommitDropsOld \/ CommitDropsPrevious \/ CommitDropsJournal
         \/ CommitFails \/ RuntimeCrash
  PROVE  RuntimeTypeOK'
<1>. USE RuntimeAssumption, JournalTypes DEF Extract, NotExtracted, Move, MoveBinFails,
     MoveLibFails, Publish, PublishFails, Probe, CommitDropsNew, CommitDropsOld,
     CommitDropsPrevious, CommitDropsJournal, CommitFails, RuntimeCrash, RuntimeTypeOK
<1>1. pc' \in Steps
  BY DEF Steps, Writes
<1>2. rec' \in Recovery
  BY DEF Recovery
<1>3. report' \in Reports
  BY DEF Reports
<1>4. /\ live' \in [Parts -> Versions \cup {None}] /\ good' \in [Parts -> Versions \cup {None}]
      /\ old' \in [Parts -> Versions \cup {None}]
  BY DEF disk, Nothing, Validated
<1>5. new' \in [Parts -> Versions \cup {None}] /\ version' \in Versions
  BY DEF disk, Nothing, Pair, Versions
<1>6. journal' \in Journals \cup {None} /\ previous' \in Journals \cup {None}
  BY DEF journals
<1>7. txn' \in Journals
  OBVIOUS
<1>8. swap' \in {"no", "moved", "published"}
  OBVIOUS
<1>9. slot' \in {None, "reader"} \cup Workers /\ installLock' \in {None, "worker", "reader"}
  BY DEF Workers
<1>. QED
  BY <1>1, <1>2, <1>3, <1>4, <1>5, <1>6, <1>7, <1>8, <1>9 DEF RuntimeTypeOK

(***************************************************************************)
(* The steps that leave the disk alone, and the recovery.                  *)
(***************************************************************************)

\* What the directories and the journals alone decide.
LEMMA SameDiskSurvives ==
  ASSUME LastGoodSurvives, live' = live, old' = old, journal' = journal, previous' = previous,
       good' = good
  PROVE  LastGoodSurvives'
BY DEF LastGoodSurvives, Restored, Known

\* A request, its download and its end keep the invariant.
LEMMA RequestKeeps ==
  ASSUME RuntimeInv, RuntimeTypeOK', BeginInstall \/ Fetched \/ NotFetched \/ EndInstall
  PROVE  RuntimeInv'
<1>. USE RuntimeAssumption DEF RuntimeInv, InstallIsAllOrNothing, BeginInstall, Fetched,
     NotFetched, EndInstall, disk, journals
<1>1. LastGoodSurvives'
  BY SameDiskSurvives
<1>2. ReportIsTrue'
  BY DEF ReportIsTrue
<1>3. SlotIsHeld'
  BY DEF SlotIsHeld, Acquire, Release, Undone, Workers
<1>4. JournalIsTrue'
  BY DEF JournalIsTrue, Known
<1>5. RecoveryGoesOn'
  BY DEF RecoveryGoesOn, Known, Intact
<1>6. JournalIsTheirs'
  BY DEF JournalIsTheirs, Drops, Under
<1>7. DirectoriesAre'
  BY DEF DirectoriesAre, Drops
<1>. QED
  BY <1>1, <1>2, <1>3, <1>4, <1>5, <1>6, <1>7

\* Where an installation is while a recovery goes on.
LEMMA RecoveryPlace ==
  ASSUME RuntimeInv, rec # "off"
  PROVE  /\ pc \in Undone \cup {"idle"} /\ swap = "no"
         /\ installLock \in {"reader", "worker"}
         /\ installLock = "reader" => pc = "idle" /\ slot = "reader"
         /\ installLock = "worker" => pc \in Undone
BY RuntimeAssumption DEF RuntimeInv, SlotIsHeld, RuntimeTypeOK, Undone, Workers

\* While a recovery goes on, the installation stands still.
LEMMA RecoveryStays ==
  ASSUME RuntimeInv, rec # "off", pc' = pc, swap' = swap, slot' = slot, installLock' = installLock
  PROVE  SlotIsHeld' /\ ReportIsTrue' /\ JournalIsTheirs' /\ DirectoriesAre'
<1>. USE RecoveryPlace DEF Undone
<1>1. SlotIsHeld'
  BY DEF RuntimeInv, SlotIsHeld
<1>2. ReportIsTrue'
  BY DEF ReportIsTrue
<1>3. JournalIsTheirs'
  BY DEF JournalIsTheirs, Drops, Under
<1>4. DirectoriesAre'
  BY DEF DirectoriesAre, Drops
<1>. QED
  BY <1>1, <1>2, <1>3, <1>4

\* When it is over, the installation begins, ends, or never was.
LEMMA RecoveryIsOver ==
  ASSUME RuntimeInv, rec # "off", swap' = swap, NEW ok \in BOOLEAN, RecoveryEnds(ok),
         ok => live' = good' /\ journal' = None /\ previous' = None
  PROVE  SlotIsHeld' /\ ReportIsTrue' /\ JournalIsTheirs' /\ DirectoriesAre'
<1>1. SlotIsHeld'
  BY RecoveryPlace, RecoveryEndsCases, RuntimeAssumption DEF RuntimeInv, SlotIsHeld, Undone
<1>2. ReportIsTrue'
  BY RecoveryPlace, RecoveryEndsCases DEF ReportIsTrue, Known, Undone
<1>3. JournalIsTheirs'
  BY RecoveryPlace, RecoveryEndsCases DEF JournalIsTheirs, Drops, Under, Undone
<1>4. DirectoriesAre'
  BY RecoveryPlace, RecoveryEndsCases DEF DirectoriesAre, Drops, Undone
<1>. QED
  BY <1>1, <1>2, <1>3, <1>4

\* What a recovery does to one directory.
LEMMA RestoreKeeps ==
  ASSUME RuntimeInv, NEW p \in Parts, Restore(p)
  PROVE  LastGoodSurvives' /\ JournalIsTrue' /\ RecoveryGoesOn'
<1>. USE DEF Parts
<1>0. /\ rec = p /\ journal' = journal /\ previous' = previous /\ good' = good /\ Known' = Known
      /\ Known # None /\ ~Known.validated
      /\ live \in [Parts -> Versions \cup {None}] /\ old \in [Parts -> Versions \cup {None}]
  BY DEF Restore, journals, Known, RuntimeInv, RecoveryGoesOn, RuntimeTypeOK
<1>1. /\ \A q \in Parts : old[q] # None => old[q] = good[q] /\ Known.had[q]
      /\ \A q \in Parts : old[q] = None => good[q] = (IF Known.tried[q] /\ ~Known.had[q] THEN None ELSE live[q])
      /\ p = "lib" => live["bin"] = good["bin"] /\ old["bin"] = None
  BY <1>0 DEF RuntimeInv, InstallIsAllOrNothing, LastGoodSurvives, Restored, JournalIsTrue,
       RecoveryGoesOn, Intact
<1>2. CASE old[p] # None /\ live[p] # None /\ live' = [live EXCEPT ![p] = None] /\ old' = old /\ rec' = rec
  <2>1. LastGoodSurvives'
    BY <1>0, <1>1, <1>2 DEF LastGoodSurvives, Restored
  <2>2. JournalIsTrue' /\ RecoveryGoesOn'
    BY <1>0, <1>1, <1>2 DEF JournalIsTrue, RecoveryGoesOn, Intact
  <2>. QED
    BY <2>1, <2>2
<1>3. CASE /\ \/ /\ old[p] # None /\ live' = [live EXCEPT ![p] = old[p]] /\ old' = [old EXCEPT ![p] = None]
              \/ /\ old[p] = None /\ old' = old
                 /\ live' = [live EXCEPT ![p] = IF Known.tried[p] /\ ~Known.had[p] THEN None ELSE @]
           /\ rec' = IF p = "bin" THEN "lib" ELSE "new"
  <2>1. live'[p] = good[p] /\ old'[p] = None
    BY <1>0, <1>1, <1>3
  <2>2. \A q \in Parts : q # p => live'[q] = live[q] /\ old'[q] = old[q]
    BY <1>0, <1>3
  <2>3. LastGoodSurvives'
    BY <1>0, <1>1, <1>3, <2>1, <2>2 DEF LastGoodSurvives, Restored
  <2>4. JournalIsTrue'
    BY <1>0, <1>1, <2>1, <2>2 DEF JournalIsTrue
  <2>5. p = "lib" => live' = good /\ old' = Nothing
    <3>1. live' \in [Parts -> Versions \cup {None}] /\ old' \in [Parts -> Versions \cup {None}]
      BY <1>0, <1>1, <1>3
    <3>2. p = "lib" => \A q \in Parts : live'[q] = good[q] /\ old'[q] = None
      BY <1>1, <2>1, <2>2
    <3>. QED
      BY <3>1, <3>2 DEF Nothing, RuntimeInv, RuntimeTypeOK
  <2>6. RecoveryGoesOn'
    BY <1>0, <1>1, <1>3, <2>1, <2>5 DEF RecoveryGoesOn, Intact
  <2>. QED
    BY <2>3, <2>4, <2>6
<1>. QED
  BY <1>0, <1>2, <1>3 DEF Restore

\* Every step of a recovery keeps the invariant.
LEMMA RecoveryKeeps ==
  ASSUME RuntimeInv, RuntimeTypeOK', Recovering \/ RecoveryFails \/ ReaderRecovers \/ WorkerRecovers
  PROVE  RuntimeInv'
<1>. USE RuntimeAssumption
<1>0. \A p \in Parts : Restored(p) = good[p]
  BY DEF RuntimeInv, InstallIsAllOrNothing, LastGoodSurvives
<1>1. CASE ReaderRecovers \/ WorkerRecovers
  <2>. USE <1>1 DEF ReaderRecovers, WorkerRecovers, disk, journals
  <2>1. LastGoodSurvives'
    BY SameDiskSurvives DEF RuntimeInv, InstallIsAllOrNothing
  <2>2. ReportIsTrue' /\ JournalIsTheirs' /\ DirectoriesAre'
    <3>1. pc \in {"open", "undo", "undo marker", "idle"} /\ pc' = pc
      BY DEF RuntimeInv, SlotIsHeld, Workers
    <3>. QED
      BY <3>1 DEF ReportIsTrue, JournalIsTheirs, Under, DirectoriesAre, Drops
  <2>3. SlotIsHeld'
    <3>1. pc = "idle" \/ slot = "runtime"
      BY DEF RuntimeInv, SlotIsHeld
    <3>2. CASE ReaderRecovers
      BY <3>1, <3>2 DEF RuntimeInv, SlotIsHeld, Undone, Workers
    <3>3. CASE WorkerRecovers
      BY <3>1, <3>3 DEF RuntimeInv, SlotIsHeld, Undone, Workers
    <3>. QED
      BY <3>2, <3>3
  <2>4. JournalIsTrue' /\ RecoveryGoesOn'
    BY DEF RuntimeInv, JournalIsTrue, RecoveryGoesOn, Known
  <2>. QED
    BY <2>1, <2>2, <2>3, <2>4 DEF RuntimeInv, InstallIsAllOrNothing
<1>2. CASE RecoveryBegins
  <2>0. UNCHANGED <<live, old, new, journal, previous, swap, good>> /\ rec = "begin" /\ Known' = Known
    BY <1>2 DEF RecoveryBegins, disk, journals, Known
  <2>1. LastGoodSurvives' /\ JournalIsTrue'
    BY <2>0, SameDiskSurvives DEF RuntimeInv, InstallIsAllOrNothing, JournalIsTrue
  <2>2. CASE Known = None
    <3>1. RecoveryEnds(TRUE) /\ rec' = "off"
      BY <1>2, <2>2 DEF RecoveryBegins, RecoveryEnds
    <3>2. journal = None /\ previous = None /\ live = good
      BY <1>0, <2>2 DEF Known, Restored, RuntimeInv, RuntimeTypeOK
    <3>3. SlotIsHeld' /\ ReportIsTrue' /\ JournalIsTheirs' /\ DirectoriesAre'
      BY <2>0, <3>1, <3>2, RecoveryIsOver
    <3>4. RecoveryGoesOn'
      BY <3>1 DEF RecoveryGoesOn
    <3>. QED
      BY <2>1, <3>3, <3>4 DEF RuntimeInv, InstallIsAllOrNothing
  <2>3. CASE Known # None
    <3>1. rec' = IF Known.validated THEN "new" ELSE "bin"
      BY <1>2, <2>3 DEF RecoveryBegins
    <3>2. SlotIsHeld' /\ ReportIsTrue' /\ JournalIsTheirs' /\ DirectoriesAre'
      BY <1>2, <2>0, <2>3, RecoveryStays DEF RecoveryBegins
    <3>3. Known.validated => live = good
      BY <1>0, <2>3 DEF Restored, RuntimeInv, RuntimeTypeOK
    <3>4. RecoveryGoesOn'
      BY <2>0, <2>3, <3>1, <3>3 DEF RecoveryGoesOn
    <3>. QED
      BY <2>1, <3>2, <3>4 DEF RuntimeInv, InstallIsAllOrNothing
  <2>. QED
    BY <2>2, <2>3
<1>3. ASSUME NEW p \in Parts, Restore(p)
      PROVE  RuntimeInv'
  <2>1. SlotIsHeld' /\ ReportIsTrue' /\ JournalIsTheirs' /\ DirectoriesAre'
    BY <1>3, RecoveryStays DEF Restore, Parts
  <2>. QED
    BY <1>3, <2>1, RestoreKeeps DEF RuntimeInv, InstallIsAllOrNothing
<1>4. CASE RecoveryDropsNew \/ RecoveryDropsOld \/ RecoveryDropsPrevious
  <2>1. SlotIsHeld' /\ ReportIsTrue' /\ JournalIsTheirs' /\ DirectoriesAre'
    BY <1>4, RecoveryStays DEF RecoveryDropsNew, RecoveryDropsOld, RecoveryDropsPrevious
  <2>2. live = good /\ live' = live /\ good' = good
    BY <1>4 DEF RecoveryDropsNew, RecoveryDropsOld, RecoveryDropsPrevious, RuntimeInv,
         RecoveryGoesOn, disk
  <2>3. CASE RecoveryDropsNew
    <3>1. LastGoodSurvives'
      BY <2>3, SameDiskSurvives DEF RecoveryDropsNew, journals, RuntimeInv, InstallIsAllOrNothing
    <3>2. JournalIsTrue' /\ RecoveryGoesOn'
      BY <2>3 DEF RecoveryDropsNew, journals, RuntimeInv, JournalIsTrue, RecoveryGoesOn, Known
    <3>. QED
      BY <2>1, <3>1, <3>2 DEF RuntimeInv, InstallIsAllOrNothing
  <2>4. CASE RecoveryDropsOld
    <3>1. Known' = Known /\ old' = Nothing /\ rec' = "previous" /\ (Known.validated \/ old = Nothing) /\ Known # None
      BY <2>4 DEF RecoveryDropsOld, journals, Known, RuntimeInv, RecoveryGoesOn
    <3>2. \A p \in Parts : old'[p] = None
      BY <3>1 DEF Nothing
    <3>3. LastGoodSurvives'
      BY <1>0, <2>2, <3>1, <3>2 DEF LastGoodSurvives, Restored
    <3>4. JournalIsTrue' /\ RecoveryGoesOn'
      BY <2>2, <3>1, <3>2 DEF JournalIsTrue, RecoveryGoesOn
    <3>. QED
      BY <2>1, <3>3, <3>4 DEF RuntimeInv, InstallIsAllOrNothing
  <2>5. CASE RecoveryDropsPrevious
    <3>1. /\ journal' = journal /\ previous' = None /\ rec' = "journal" /\ old = Nothing /\ old' = old
          /\ Known' = journal
      BY <2>5 DEF RecoveryDropsPrevious, disk, Known, RuntimeInv, RecoveryGoesOn
    <3>2. \A p \in Parts : old[p] = None
      BY <3>1 DEF Nothing
    <3>3. LastGoodSurvives'
      BY <1>0, <2>2, <3>1, <3>2 DEF LastGoodSurvives, Restored, Known
    <3>4. JournalIsTrue' /\ RecoveryGoesOn'
      BY <2>2, <3>1, <3>2 DEF JournalIsTrue, RecoveryGoesOn
    <3>. QED
      BY <2>1, <3>3, <3>4 DEF RuntimeInv, InstallIsAllOrNothing
  <2>. QED
    BY <1>4, <2>3, <2>4, <2>5
<1>5. CASE RecoveryDropsJournal
  <2>1. /\ rec = "journal" /\ RecoveryEnds(TRUE) /\ rec' = "off" /\ journal' = None /\ previous' = None
        /\ live = good /\ live' = live /\ good' = good /\ old' = old /\ old = Nothing /\ swap' = swap
        /\ Known' = None
    BY <1>5 DEF RecoveryDropsJournal, RecoveryEnds, RuntimeInv, RecoveryGoesOn, disk, Known
  <2>2. SlotIsHeld' /\ ReportIsTrue' /\ JournalIsTheirs' /\ DirectoriesAre'
    BY <2>1, RecoveryIsOver
  <2>3. LastGoodSurvives' /\ JournalIsTrue' /\ RecoveryGoesOn'
    BY <2>1 DEF LastGoodSurvives, Restored, JournalIsTrue, RecoveryGoesOn
  <2>. QED
    BY <2>2, <2>3 DEF RuntimeInv, InstallIsAllOrNothing
<1>6. CASE RecoveryFails
  <2>1. /\ rec # "off" /\ RecoveryEnds(FALSE) /\ rec' = "off" /\ swap' = swap
        /\ UNCHANGED <<live, old, journal, previous, good>> /\ Known' = Known
    BY <1>6 DEF RecoveryFails, RecoveryEnds, disk, journals, Known
  <2>2. SlotIsHeld' /\ ReportIsTrue' /\ JournalIsTheirs' /\ DirectoriesAre'
    BY <2>1, RecoveryIsOver
  <2>3. LastGoodSurvives' /\ JournalIsTrue' /\ RecoveryGoesOn'
    BY <2>1, SameDiskSurvives DEF RuntimeInv, InstallIsAllOrNothing, JournalIsTrue, RecoveryGoesOn
  <2>. QED
    BY <2>2, <2>3 DEF RuntimeInv, InstallIsAllOrNothing
<1>. QED
  BY <1>1, <1>2, <1>3, <1>4, <1>5, <1>6 DEF Recovering, Parts


(***************************************************************************)
(* The installation under its journal.                                     *)
(***************************************************************************)

\* An installation past its own recovery is alone: nobody else recovers.
LEMMA InstallIsAlone ==
  ASSUME RuntimeInv, pc \notin Undone \cup {"idle"}
  PROVE  rec = "off" /\ slot = "runtime" /\ installLock # "reader"
BY RuntimeAssumption DEF RuntimeInv, SlotIsHeld, RuntimeTypeOK, Undone, Workers

\* Where the journal is the installation's own, what it says of each directory
\* brings back the last good pair.
LEMMA JournalRestores ==
  ASSUME RuntimeTypeOK', JournalIsTheirs', DirectoriesAre', pc' \in Under \cup Drops, swap' = "no"
  PROVE  LastGoodSurvives' /\ JournalIsTrue'
<1>. USE RuntimeAssumption DEF Parts
<1>0. /\ txn' \in Journals /\ live' \in [Parts -> Versions \cup {None}]
      /\ old' \in [Parts -> Versions \cup {None}] /\ good' \in [Parts -> Versions \cup {None}]
      /\ version' \in Versions
  BY DEF RuntimeTypeOK
<1>1. CASE pc' \in Drops
  <2>1. journal' # None /\ journal'.validated /\ good' = live'
    BY <1>1 DEF JournalIsTheirs, DirectoriesAre, Drops
  <2>. QED
    BY <2>1 DEF LastGoodSurvives, JournalIsTrue, Restored, Known
<1>2. CASE pc' \in Under
  <2>1. Known' = txn' /\ txn' # None
    BY <1>0, <1>2 DEF JournalIsTheirs, Drops, Known
  <2>2. /\ ~txn'.validated /\ \A p \in Parts : txn'.had[p] <=> good'[p] # None
    BY <1>2 DEF DirectoriesAre, Drops, Noted, Under
  <2>3. \A p \in Parts :
          \/ old'[p] = None /\ live'[p] = good'[p] /\ ~txn'.tried[p]
          \/ old'[p] = good'[p] /\ (live'[p] = None \/ txn'.tried[p])
    BY <1>0, <1>2 DEF DirectoriesAre, Drops, Under, Intact, Backed, Replaced, Tried
  <2>4. LastGoodSurvives'
    BY <2>1, <2>2, <2>3 DEF LastGoodSurvives, Restored
  <2>5. JournalIsTrue'
    BY <2>1, <2>2, <2>3 DEF JournalIsTrue
  <2>. QED
    BY <2>4, <2>5
<1>. QED
  BY <1>1, <1>2

\* A journal that was written, whichever way.
LEMMA WriteIsDone ==
  ASSUME RuntimeInv, RuntimeTypeOK', pc \in Writes, swap' = "no", previous' = None,
         journal' = Entered, txn' = Entered, pc' = AfterWrite,
         UNCHANGED <<disk, slot, rec, version, report>>, installLock' \in {None, "worker"},
         good' = IF pc = "write validated" THEN live ELSE good
  PROVE  RuntimeInv'
<1>. USE RuntimeAssumption
<1>0. /\ rec' = "off" /\ slot' = "runtime" /\ txn \in Journals
      /\ live' = live /\ old' = old /\ new' = new /\ version' = version
      /\ pc \in {"write", "write bin", "write lib", "write validated"}
  BY InstallIsAlone DEF Undone, Writes, disk, RuntimeInv, RuntimeTypeOK
<1>1. SlotIsHeld' /\ RecoveryGoesOn'
  BY <1>0 DEF SlotIsHeld, RecoveryGoesOn
<1>2. ReportIsTrue'
  BY <1>0, AfterWriteCases DEF ReportIsTrue
<1>3. JournalIsTheirs'
  <2>1. Entered # None
    BY <1>0, EnteredFields
  <2>2. pc' = "drop new" => Entered.validated
    BY <1>0, EnteredFields, AfterWriteCases
  <2>. QED
    BY <1>0, <2>1, <2>2, AfterWriteCases DEF JournalIsTheirs, Drops
<1>4. DirectoriesAre'
  <2>1. CASE pc = "write"
    <3>1. Intact("bin") /\ Intact("lib") /\ new = Pair(version) /\ Tried({}) /\ Noted
      BY <2>1 DEF RuntimeInv, DirectoriesAre, Drops
    <3>2. pc' = "move bin" /\ txn' = txn /\ good' = good
      BY <2>1, AfterWriteCases, EnteredCases
    <3>3. (Intact("bin") /\ Intact("lib") /\ new = Pair(version) /\ Tried({}) /\ Noted)'
      BY <1>0, <3>1, <3>2 DEF Intact, Tried, Noted, Pair
    <3>. QED
      BY <3>2, <3>3 DEF DirectoriesAre, Drops
  <2>2. CASE pc = "write bin"
    <3>1. Backed("bin") /\ Backed("lib") /\ new = Pair(version) /\ Tried({}) /\ Noted
      BY <2>2 DEF RuntimeInv, DirectoriesAre, Drops
    <3>2. pc' = "publish bin" /\ good' = good
      BY <2>2, AfterWriteCases
    <3>3. (Backed("bin") /\ Backed("lib") /\ new = Pair(version))'
      BY <1>0, <3>1, <3>2 DEF Backed, Pair
    <3>4. (Tried({"bin"}) /\ Noted)'
      BY <1>0, <2>2, <3>1, <3>2, EnteredFields DEF Tried, Noted, Parts
    <3>. QED
      BY <3>2, <3>3, <3>4 DEF DirectoriesAre, Drops
  <2>3. CASE pc = "write lib"
    <3>1. Replaced("bin") /\ Backed("lib") /\ new["lib"] = version /\ Tried({"bin"}) /\ Noted
      BY <2>3 DEF RuntimeInv, DirectoriesAre, Drops
    <3>2. pc' = "publish lib" /\ good' = good
      BY <2>3, AfterWriteCases
    <3>3. (Replaced("bin") /\ Backed("lib") /\ new["lib"] = version)'
      BY <1>0, <3>1, <3>2 DEF Backed, Replaced
    <3>4. (Tried(Parts) /\ Noted)'
      BY <1>0, <2>3, <3>1, <3>2, EnteredFields DEF Tried, Noted, Parts
    <3>. QED
      BY <3>2, <3>3, <3>4 DEF DirectoriesAre, Drops
  <2>4. CASE pc = "write validated"
    <3>1. live = Pair(version)
      BY <2>4 DEF RuntimeInv, DirectoriesAre, Drops
    <3>2. pc' = "drop new" /\ good' = live
      BY <2>4, AfterWriteCases
    <3>. QED
      BY <1>0, <3>1, <3>2 DEF DirectoriesAre, Drops, Pair
  <2>. QED
    BY <1>0, <2>1, <2>2, <2>3, <2>4
<1>5. LastGoodSurvives' /\ JournalIsTrue'
  BY <1>3, <1>4, JournalRestores, AfterWriteCases DEF Under, Drops
<1>. QED
  BY <1>1, <1>2, <1>3, <1>4, <1>5 DEF RuntimeInv, InstallIsAllOrNothing

\* Nor does it matter which of the two files holds the journal.
LEMMA SameKnownSurvives ==
  ASSUME RuntimeInv, Known' = Known, live' = live, old' = old, good' = good
  PROVE  LastGoodSurvives' /\ JournalIsTrue'
BY DEF RuntimeInv, InstallIsAllOrNothing, LastGoodSurvives, Restored, JournalIsTrue

\* A write keeps the invariant, by a rename over the journal or around it.
LEMMA WriteKeeps ==
  ASSUME RuntimeInv, RuntimeTypeOK',
         WriteReplaces \/ WriteMoves \/ WritePublishes \/ WriteEnds
  PROVE  RuntimeInv'
<1>. USE RuntimeAssumption
<1>0. pc \in Writes
  BY DEF WriteReplaces, WriteMoves, WritePublishes, WriteEnds, RuntimeInv, SlotIsHeld, Writes
<1>1. /\ rec = "off" /\ slot = "runtime" /\ installLock \in {None, "worker"}
      /\ txn \in Journals /\ Entered \in Journals
  BY <1>0, InstallIsAlone, EnteredType DEF Undone, Writes, RuntimeInv, RuntimeTypeOK
<1>2. swap = "no" => previous = None
  BY <1>0 DEF RuntimeInv, JournalIsTheirs, Drops, Under, Writes
<1>3. CASE WriteReplaces
  BY <1>0, <1>1, <1>2, <1>3, WriteIsDone DEF WriteReplaces, Validated
<1>4. CASE WriteMoves
  <2>. USE <1>4 DEF WriteMoves
  <2>1. LastGoodSurvives' /\ JournalIsTrue'
    BY <1>0, <1>1, <1>2, SameKnownSurvives DEF Known, disk
  <2>2. SlotIsHeld' /\ RecoveryGoesOn' /\ ReportIsTrue'
    <3>1. pc # "write"
      BY <1>0 DEF RuntimeInv, JournalIsTheirs, Drops
    <3>. QED
      BY <1>0, <1>1, <3>1 DEF SlotIsHeld, RecoveryGoesOn, ReportIsTrue, Writes
  <2>3. JournalIsTheirs'
    BY <1>0, <1>1, <1>2 DEF RuntimeInv, JournalIsTheirs, Drops, Under, Writes
  <2>4. DirectoriesAre'
    BY <1>0, <1>1 DEF RuntimeInv, DirectoriesAre, Drops, Writes, disk, Intact, Backed, Replaced,
         Tried, Noted, Pair
  <2>. QED
    BY <2>1, <2>2, <2>3, <2>4 DEF RuntimeInv, InstallIsAllOrNothing
<1>5. CASE WritePublishes
  <2>. USE <1>5 DEF WritePublishes
  <2>1. pc \in {"write bin", "write lib", "write validated"} /\ pc' = pc
    BY DEF RuntimeInv, SlotIsHeld
  <2>2. previous = txn /\ journal' = Entered /\ txn' = txn /\ previous' = previous /\ Entered' = Entered
    BY <2>1 DEF RuntimeInv, JournalIsTheirs, Drops, Under, Entered
  <2>3. SlotIsHeld' /\ RecoveryGoesOn' /\ ReportIsTrue'
    BY <1>1, <2>1 DEF SlotIsHeld, RecoveryGoesOn, ReportIsTrue
  <2>4. JournalIsTheirs'
    BY <2>1, <2>2 DEF JournalIsTheirs, Drops, Under
  <2>5. DirectoriesAre'
    <3>1. CASE pc = "write validated"
      BY <2>1, <3>1 DEF RuntimeInv, DirectoriesAre, Drops, Validated, disk, Pair
    <3>2. CASE pc # "write validated"
      BY <2>1, <3>2 DEF RuntimeInv, DirectoriesAre, Drops, Validated, disk, Pair, Intact, Backed,
           Replaced, Tried, Noted
    <3>. QED
      BY <3>1, <3>2
  <2>6. LastGoodSurvives' /\ JournalIsTrue'
    <3>0. Known' = Entered /\ Entered # None
      BY <1>1, <2>2 DEF Known
    <3>1. CASE pc = "write validated"
      BY <1>1, <3>0, <3>1, EnteredFields DEF LastGoodSurvives, Restored, JournalIsTrue,
           Validated, disk
    <3>2. CASE pc # "write validated"
      <4>1. /\ ~Entered.validated /\ good' = good /\ live' = live /\ old' = old
            /\ \A p \in Parts : Entered.had[p] <=> good[p] # None
        BY <1>1, <2>1, <3>2, EnteredFields DEF RuntimeInv, DirectoriesAre, Drops, Noted,
             Validated, disk
      <4>2. \A p \in Parts : old[p] = good[p] /\ (live[p] = None \/ Entered.tried[p])
        BY <1>1, <2>1, <3>2, EnteredFields DEF RuntimeInv, DirectoriesAre, Drops, Tried, Backed,
             Replaced, Parts
      <4>. QED
        BY <3>0, <4>1, <4>2 DEF LastGoodSurvives, Restored, JournalIsTrue
    <3>. QED
      BY <3>1, <3>2
  <2>. QED
    BY <2>3, <2>4, <2>5, <2>6 DEF RuntimeInv, InstallIsAllOrNothing
<1>6. CASE WriteEnds
  <2>1. journal = Entered /\ (pc = "write validated" => good = live)
    BY <1>0, <1>6 DEF WriteEnds, RuntimeInv, SlotIsHeld, JournalIsTheirs, Under, DirectoriesAre,
         Drops
  <2>. QED
    BY <1>0, <1>1, <1>6, <2>1, WriteIsDone DEF WriteEnds
<1>. QED
  BY <1>3, <1>4, <1>5, <1>6

\* A journal that could not be written.
LEMMA WriteFailsKeeps ==
  ASSUME RuntimeInv, RuntimeTypeOK', WriteFailsFirst \/ WriteFailsMoved \/ WriteFailsPublished
  PROVE  RuntimeInv'
<1>. USE RuntimeAssumption
<1>0. pc \in {"write", "write bin", "write lib", "write validated"} /\ WriteFailed
  BY DEF WriteFailsFirst, WriteFailsMoved, WriteFailsPublished, RuntimeInv, SlotIsHeld, Writes
<1>1. rec = "off" /\ slot = "runtime" /\ rec' = "off" /\ slot' = "runtime"
  BY <1>0, InstallIsAlone, WriteFailedCases DEF Undone
<1>2. txn \in Journals /\ txn # None /\ (pc = "write validated" => ~txn.validated)
  BY DEF RuntimeInv, RuntimeTypeOK, DirectoriesAre, Drops
<1>3. Known' = Known
  <2>1. CASE WriteFailsFirst
    <3>1. journal' = journal /\ (previous = None => previous' = None)
      BY <2>1 DEF WriteFailsFirst
    <3>2. previous = None
      BY <1>0, <2>1 DEF WriteFailsFirst, RuntimeInv, JournalIsTheirs, Drops, Under
    <3>. QED
      BY <3>1, <3>2 DEF Known
  <2>2. CASE WriteFailsMoved
    <3>1. journal = None
      BY <1>0, <2>2 DEF WriteFailsMoved, RuntimeInv, SlotIsHeld, JournalIsTheirs, Drops, Under
    <3>2. (journal' = previous /\ previous' = None) \/ (journal' = journal /\ previous' = previous)
      BY <2>2 DEF WriteFailsMoved, journals
    <3>. QED
      BY <3>1, <3>2 DEF Known
  <2>3. CASE WriteFailsPublished
    BY <2>3 DEF WriteFailsPublished, journals, Known
  <2>. QED
    BY <2>1, <2>2, <2>3
<1>4. old' = old
  <2>1. pc = "write" => old = Nothing
    BY <1>0 DEF RuntimeInv, JournalIsTheirs, Drops, JournalIsTrue, Known
  <2>. QED
    BY <1>0, <2>1, WriteFailedCases
<1>5. LastGoodSurvives' /\ JournalIsTrue'
  BY <1>0, <1>3, <1>4, SameKnownSurvives, WriteFailedCases
<1>6. SlotIsHeld' /\ RecoveryGoesOn'
  BY <1>0, <1>1, WriteFailedCases DEF SlotIsHeld, RecoveryGoesOn
<1>7. pc' \in {"end", "undo", "undo marker"}
  BY <1>0, WriteFailedCases
<1>8. JournalIsTheirs' /\ DirectoriesAre'
  BY <1>7 DEF JournalIsTheirs, Under, DirectoriesAre, Drops
<1>9. ReportIsTrue'
  <2>1. CASE pc' = "end" /\ report' = "retained"
    <3>1. journal' # None /\ journal'.validated /\ pc = "write validated"
      BY <1>0, <2>1, WriteFailedCases
    <3>2. swap = "published"
      <4>1. CASE WriteFailsFirst
        BY <1>2, <3>1, <4>1 DEF WriteFailsFirst, RuntimeInv, JournalIsTheirs, Drops, Under
      <4>2. CASE WriteFailsMoved
        BY <1>2, <3>1, <4>2 DEF WriteFailsMoved, RuntimeInv, JournalIsTheirs, Drops, Under,
             journals
      <4>3. CASE WriteFailsPublished
        BY <4>3 DEF WriteFailsPublished
      <4>. QED
        BY <4>1, <4>2, <4>3
    <3>3. live = Pair(version) /\ good = live
      BY <3>1, <3>2 DEF RuntimeInv, DirectoriesAre, Drops
    <3>. QED
      BY <1>0, <2>1, <3>3, WriteFailedCases DEF ReportIsTrue, Pair
  <2>2. pc' = "end" => report' \in {"error", "retained"}
    BY <1>0, WriteFailedCases
  <2>. QED
    BY <2>1, <2>2 DEF ReportIsTrue
<1>. QED
  BY <1>5, <1>6, <1>8, <1>9 DEF RuntimeInv, InstallIsAllOrNothing

\* An installation that gives up before its commit: what is on the disk stays.
LEMMA GivesUp ==
  ASSUME RuntimeInv, pc \notin Undone \cup {"idle"}, UNCHANGED <<live, slot, rec, good>>,
         swap' = "no", Known' = Known, old' = old, installLock' \in {installLock, None},
         \/ pc' \in {"undo", "undo marker"}
         \/ pc' = "end" /\ report' \in {"cancelled", "error"}
  PROVE  /\ LastGoodSurvives' /\ ReportIsTrue' /\ SlotIsHeld' /\ JournalIsTrue'
         /\ RecoveryGoesOn' /\ JournalIsTheirs' /\ DirectoriesAre'
<1>0. rec' = "off" /\ slot' = "runtime" /\ installLock' # "reader"
  BY InstallIsAlone, RuntimeAssumption
<1>1. LastGoodSurvives' /\ JournalIsTrue'
  BY SameKnownSurvives
<1>2. SlotIsHeld' /\ RecoveryGoesOn'
  BY <1>0 DEF SlotIsHeld, RecoveryGoesOn
<1>3. JournalIsTheirs' /\ DirectoriesAre' /\ ReportIsTrue'
  BY DEF JournalIsTheirs, Under, DirectoriesAre, Drops, ReportIsTrue
<1>. QED
  BY <1>1, <1>2, <1>3

\* The renames and the commit, each step that succeeds.
LEMMA InstallGoesOn ==
  ASSUME RuntimeInv, RuntimeTypeOK', pc \notin Undone \cup {"idle"}, swap = "no",
         UNCHANGED <<slot, swap, rec, version, good>>, installLock' \in {installLock, None},
         pc' \in Under \cup Drops \cup {"write"},
         JournalIsTheirs', DirectoriesAre', LastGoodSurvives' /\ JournalIsTrue'
  PROVE  RuntimeInv'
<1>0. rec' = "off" /\ slot' = "runtime" /\ installLock' # "reader"
  BY InstallIsAlone, RuntimeAssumption
<1>1. SlotIsHeld' /\ RecoveryGoesOn'
  BY <1>0 DEF SlotIsHeld, RecoveryGoesOn
<1>2. ReportIsTrue'
  BY DEF ReportIsTrue, Under, Drops
<1>. QED
  BY <1>1, <1>2 DEF RuntimeInv, InstallIsAllOrNothing

\* A rename that fails keeps the invariant.
LEMMA FailuresKeep ==
  ASSUME RuntimeInv, RuntimeTypeOK',
         NotExtracted \/ MoveBinFails \/ MoveLibFails \/ PublishFails
  PROVE  RuntimeInv'
<1>. USE RuntimeAssumption
<1>1. swap = "no" /\ pc \in {"extract", "move bin", "move lib", "publish bin", "publish lib"}
  BY DEF NotExtracted, MoveBinFails, MoveLibFails, PublishFails, RuntimeInv, SlotIsHeld,
       RuntimeTypeOK
<1>2. CASE NotExtracted \/ MoveLibFails \/ PublishFails
  <2>1. Known' = Known
    BY <1>2 DEF NotExtracted, MoveLibFails, PublishFails, journals, disk, Known
  <2>. QED
    BY <1>1, <1>2, <2>1, GivesUp DEF NotExtracted, MoveLibFails, PublishFails, journals, disk,
         Undone,
         RuntimeInv, InstallIsAllOrNothing
<1>3. CASE MoveBinFails
  <2>1. /\ Intact("bin") /\ Intact("lib") /\ Tried({}) /\ Noted /\ journal = txn /\ previous = None
        /\ txn \in Journals /\ txn # None
    BY <1>1, <1>3 DEF MoveBinFails, RuntimeInv, JournalIsTheirs, DirectoriesAre, Drops,
         RuntimeTypeOK, Under
  <2>2. old = Nothing
    BY <2>1 DEF Intact, Nothing, RuntimeInv, RuntimeTypeOK, Parts
  <2>3. old' = old /\ live' = live /\ good' = good /\ (Known' = None \/ Known' = Known)
    BY <1>3, <2>1, <2>2 DEF MoveBinFails, Known, journals
  <2>4. LastGoodSurvives' /\ JournalIsTrue'
    <3>1. CASE Known' = Known
      BY <2>3, <3>1, SameKnownSurvives
    <3>2. CASE Known' = None
      BY <2>1, <2>2, <2>3, <3>2 DEF LastGoodSurvives, Restored, JournalIsTrue, Intact, Parts
    <3>. QED
      BY <2>3, <3>1, <3>2
  <2>5. rec' = "off" /\ slot' = "runtime" /\ installLock' = None /\ pc' = "end" /\ report' = "error" /\ swap' = "no"
    BY <1>1, <1>3, InstallIsAlone DEF MoveBinFails, Undone
  <2>6. SlotIsHeld' /\ RecoveryGoesOn' /\ JournalIsTheirs' /\ DirectoriesAre' /\ ReportIsTrue'
    BY <2>5 DEF SlotIsHeld, RecoveryGoesOn, JournalIsTheirs, Under, DirectoriesAre, Drops,
         ReportIsTrue
  <2>. QED
    BY <2>4, <2>6 DEF RuntimeInv, InstallIsAllOrNothing
<1>. QED
  BY <1>2, <1>3

\* So does every rename that succeeds.
LEMMA MoveKeeps ==
  ASSUME RuntimeInv, RuntimeTypeOK',
         Extract \/ Move("bin") \/ Move("lib") \/ Publish("bin") \/ Publish("lib")
  PROVE  RuntimeInv'
<1>. USE RuntimeAssumption DEF Parts
<1>0. /\ swap = "no" /\ pc \in {"extract", "move bin", "move lib", "publish bin", "publish lib"}
      /\ UNCHANGED <<slot, swap, rec, version, good, journal, previous>>
  BY DEF Extract, Move, Publish, RuntimeInv, SlotIsHeld, RuntimeTypeOK, journals
<1>1. /\ live \in [Parts -> Versions \cup {None}] /\ old \in [Parts -> Versions \cup {None}]
      /\ new \in [Parts -> Versions \cup {None}] /\ good \in [Parts -> Versions \cup {None}]
      /\ version \in Versions /\ txn \in Journals
  BY DEF RuntimeInv, RuntimeTypeOK
<1>2. CASE Extract
  <2>1. /\ pc = "extract" /\ new' = Pair(version) /\ txn' = Fresh /\ pc' = "write"
        /\ live' = live /\ old' = old /\ installLock' = installLock
        /\ journal = None /\ previous = None
    BY <1>2 DEF Extract, RuntimeInv, JournalIsTheirs, Drops
  <2>2. \A p \in Parts : live[p] = good[p] /\ old[p] = None
    BY <2>1 DEF RuntimeInv, InstallIsAllOrNothing, LastGoodSurvives, Restored, Known,
         JournalIsTrue, Nothing
  <2>3. LastGoodSurvives' /\ JournalIsTrue'
    BY <1>0, <2>1, SameKnownSurvives DEF Known
  <2>4. JournalIsTheirs'
    BY <1>0, <2>1 DEF JournalIsTheirs, Drops, Under
  <2>5. (Intact("bin") /\ Intact("lib") /\ new = Pair(version) /\ Tried({}) /\ Noted)'
    BY <1>0, <2>1, <2>2 DEF Intact, Tried, Noted, Fresh, Pair
  <2>6. DirectoriesAre'
    BY <2>1, <2>5 DEF DirectoriesAre, Drops
  <2>. QED
    BY <1>0, <2>1, <2>3, <2>4, <2>6, InstallGoesOn DEF Undone
<1>3. CASE Move("bin")
  <2>1. /\ pc = "move bin" /\ pc' = "move lib" /\ txn' = txn /\ new' = new /\ installLock' = installLock
        /\ live' = [live EXCEPT !["bin"] = None]
        /\ old' = IF txn.had["bin"] THEN [old EXCEPT !["bin"] = live["bin"]] ELSE old
    BY <1>3 DEF Move
  <2>2. Intact("bin") /\ Intact("lib") /\ new = Pair(version) /\ Tried({}) /\ Noted
    BY <2>1 DEF RuntimeInv, DirectoriesAre, Drops
  <2>3. JournalIsTheirs'
    BY <1>0, <2>1 DEF RuntimeInv, JournalIsTheirs, Drops, Under
  <2>4. (Backed("bin") /\ Intact("lib"))'
    BY <1>0, <1>1, <2>1, <2>2 DEF Backed, Intact, Noted
  <2>5. (new = Pair(version) /\ Tried({}) /\ Noted)'
    BY <1>0, <2>1, <2>2 DEF Tried, Noted, Pair
  <2>6. DirectoriesAre'
    BY <2>1, <2>4, <2>5 DEF DirectoriesAre, Drops
  <2>7. LastGoodSurvives' /\ JournalIsTrue'
    BY <1>0, <2>1, <2>3, <2>6, JournalRestores DEF Under
  <2>. QED
    BY <1>0, <2>1, <2>3, <2>6, <2>7, InstallGoesOn DEF Undone, Under
<1>4. CASE Move("lib")
  <2>1. /\ pc = "move lib" /\ pc' = "write bin" /\ txn' = txn /\ new' = new /\ installLock' = installLock
        /\ live' = [live EXCEPT !["lib"] = None]
        /\ old' = IF txn.had["lib"] THEN [old EXCEPT !["lib"] = live["lib"]] ELSE old
    BY <1>4 DEF Move
  <2>2. Backed("bin") /\ Intact("lib") /\ new = Pair(version) /\ Tried({}) /\ Noted
    BY <2>1 DEF RuntimeInv, DirectoriesAre, Drops
  <2>3. JournalIsTheirs'
    BY <1>0, <2>1 DEF RuntimeInv, JournalIsTheirs, Drops, Under
  <2>4. (Backed("bin") /\ Backed("lib"))'
    BY <1>0, <1>1, <2>1, <2>2 DEF Backed, Intact, Noted
  <2>5. (new = Pair(version) /\ Tried({}) /\ Noted)'
    BY <1>0, <2>1, <2>2 DEF Tried, Noted, Pair
  <2>6. DirectoriesAre'
    BY <2>1, <2>4, <2>5 DEF DirectoriesAre, Drops
  <2>7. LastGoodSurvives' /\ JournalIsTrue'
    BY <1>0, <2>1, <2>3, <2>6, JournalRestores DEF Under
  <2>. QED
    BY <1>0, <2>1, <2>3, <2>6, <2>7, InstallGoesOn DEF Undone, Under
<1>5. CASE Publish("bin")
  <2>1. /\ pc = "publish bin" /\ pc' = "write lib" /\ txn' = txn /\ old' = old /\ installLock' = installLock
        /\ live' = [live EXCEPT !["bin"] = new["bin"]] /\ new' = [new EXCEPT !["bin"] = None]
    BY <1>5 DEF Publish
  <2>2. Backed("bin") /\ Backed("lib") /\ new = Pair(version) /\ Tried({"bin"}) /\ Noted
    BY <2>1 DEF RuntimeInv, DirectoriesAre, Drops
  <2>3. JournalIsTheirs'
    BY <1>0, <2>1 DEF RuntimeInv, JournalIsTheirs, Drops, Under
  <2>4. (Replaced("bin") /\ Backed("lib") /\ new["lib"] = version)'
    BY <1>0, <1>1, <2>1, <2>2 DEF Backed, Replaced, Pair
  <2>5. (Tried({"bin"}) /\ Noted)'
    BY <1>0, <2>1, <2>2 DEF Tried, Noted
  <2>6. DirectoriesAre'
    BY <2>1, <2>4, <2>5 DEF DirectoriesAre, Drops
  <2>7. LastGoodSurvives' /\ JournalIsTrue'
    BY <1>0, <2>1, <2>3, <2>6, JournalRestores DEF Under
  <2>. QED
    BY <1>0, <2>1, <2>3, <2>6, <2>7, InstallGoesOn DEF Undone, Under
<1>6. CASE Publish("lib")
  <2>1. /\ pc = "publish lib" /\ pc' = "probe" /\ txn' = txn /\ old' = old /\ installLock' = None
        /\ live' = [live EXCEPT !["lib"] = new["lib"]] /\ new' = [new EXCEPT !["lib"] = None]
    BY <1>6 DEF Publish
  <2>2. Replaced("bin") /\ Backed("lib") /\ new["lib"] = version /\ Tried(Parts) /\ Noted
    BY <2>1 DEF RuntimeInv, DirectoriesAre, Drops
  <2>3. JournalIsTheirs'
    BY <1>0, <2>1 DEF RuntimeInv, JournalIsTheirs, Drops, Under
  <2>4. (Replaced("bin") /\ Replaced("lib"))'
    BY <1>0, <1>1, <2>1, <2>2 DEF Backed, Replaced
  <2>5. (Tried(Parts) /\ Noted)'
    BY <1>0, <2>1, <2>2 DEF Tried, Noted
  <2>6. DirectoriesAre'
    BY <2>1, <2>4, <2>5 DEF DirectoriesAre, Drops
  <2>7. LastGoodSurvives' /\ JournalIsTrue'
    BY <1>0, <2>1, <2>3, <2>6, JournalRestores DEF Under
  <2>. QED
    BY <1>0, <2>1, <2>3, <2>6, <2>7, InstallGoesOn DEF Undone, Under
<1>. QED
  BY <1>2, <1>3, <1>4, <1>5, <1>6

\* The new programs are run; the commit.
LEMMA CommitKeeps ==
  ASSUME RuntimeInv, RuntimeTypeOK',
         \/ Probe \/ CommitDropsNew \/ CommitDropsOld \/ CommitDropsPrevious
         \/ CommitDropsJournal \/ CommitFails
  PROVE  RuntimeInv'
<1>. USE RuntimeAssumption
<1>0. swap = "no" /\ pc \in {"probe"} \cup Drops
  BY DEF Probe, CommitDropsNew, CommitDropsOld, CommitDropsPrevious, CommitDropsJournal,
       CommitFails, Drops,
         RuntimeInv, SlotIsHeld, RuntimeTypeOK
<1>1. rec = "off" /\ slot = "runtime" /\ installLock # "reader"
  BY <1>0, InstallIsAlone DEF Undone, Drops
<1>2. pc \in Drops => journal # None /\ journal.validated /\ live = Pair(version) /\ good = live /\ Known = journal
  BY DEF RuntimeInv, JournalIsTheirs, DirectoriesAre, Drops, Known
<1>3. CASE Probe
  <2>1. /\ pc = "probe" /\ UNCHANGED <<disk, journals, slot, installLock, swap, rec, txn, version, report, good>>
        /\ \/ pc' = "undo"
           \/ pc' = "write validated" /\ \A p \in Parts : live[p] # None
    BY <1>3 DEF Probe
  <2>2. CASE pc' = "undo"
    <3>1. Known' = Known
      BY <2>1 DEF Known, journals
    <3>. QED
      BY <1>0, <2>1, <2>2, <3>1, GivesUp DEF disk, Undone, RuntimeInv, InstallIsAllOrNothing
  <2>3. CASE pc' = "write validated"
    <3>1. Replaced("bin") /\ Replaced("lib") /\ Tried(Parts) /\ Noted
      BY <2>1 DEF RuntimeInv, DirectoriesAre, Drops
    <3>2. live = Pair(version) /\ old = good
      BY <3>1 DEF Replaced, Pair, Parts, RuntimeInv, RuntimeTypeOK
    <3>3. LastGoodSurvives' /\ JournalIsTrue'
      BY <2>1, SameKnownSurvives DEF Known, disk, journals
    <3>4. JournalIsTheirs'
      BY <1>0, <2>1, <2>3 DEF RuntimeInv, JournalIsTheirs, Drops, Under, journals
    <3>5. (Tried(Parts) /\ Noted)'
      BY <2>1, <3>1 DEF Tried, Noted
    <3>6. DirectoriesAre'
      BY <1>0, <2>1, <2>3, <3>2, <3>5 DEF DirectoriesAre, Drops, Noted, Pair, disk
    <3>. QED
      BY <1>0, <2>1, <2>3, <3>3, <3>4, <3>6, InstallGoesOn DEF Undone, Under
  <2>. QED
    BY <2>1, <2>2, <2>3
<1>4. CASE CommitDropsNew \/ CommitDropsOld \/ CommitDropsPrevious
  <2>1. /\ pc \in {"drop new", "drop old", "drop previous"}
        /\ UNCHANGED <<live, journal, slot, installLock, swap, rec, txn, version, report, good>>
        /\ pc' \in {"drop old", "drop previous", "drop journal"}
        /\ pc' = "drop old" => TRUE
        /\ pc' = "drop previous" => old' = Nothing
        /\ pc' = "drop journal" => pc = "drop previous" /\ old' = old /\ previous' = None
    BY <1>4 DEF CommitDropsNew, CommitDropsOld, CommitDropsPrevious, journals, disk
  <2>2. JournalIsTheirs'
    BY <1>2, <2>1 DEF JournalIsTheirs, Under, Drops
  <2>3. DirectoriesAre'
    BY <1>2, <2>1 DEF RuntimeInv, DirectoriesAre, Drops, Pair
  <2>4. LastGoodSurvives' /\ JournalIsTrue'
    BY <1>0, <2>1, <2>2, <2>3, JournalRestores DEF Drops
  <2>. QED
    BY <1>0, <2>1, <2>2, <2>3, <2>4, InstallGoesOn DEF Undone, Drops
<1>5. CASE CommitDropsJournal
  <2>1. /\ previous' = None /\ journal' = None /\ installLock' = None /\ pc' = "end"
        /\ UNCHANGED <<live, old, slot, swap, rec, version, good>> /\ old = Nothing
        /\ live = Pair(version) /\ good = live
    BY <1>2, <1>5 DEF CommitDropsJournal, RuntimeInv, JournalIsTheirs, DirectoriesAre, Drops, disk
  <2>2. Known' = None
    BY <2>1 DEF Known
  <2>3. LastGoodSurvives' /\ JournalIsTrue' /\ ReportIsTrue'
    BY <2>1, <2>2 DEF LastGoodSurvives, Restored, JournalIsTrue, ReportIsTrue, Pair
  <2>4. SlotIsHeld' /\ RecoveryGoesOn' /\ JournalIsTheirs' /\ DirectoriesAre'
    BY <1>0, <1>1, <2>1 DEF SlotIsHeld, RecoveryGoesOn, JournalIsTheirs, Under, DirectoriesAre,
         Drops
  <2>. QED
    BY <2>3, <2>4 DEF RuntimeInv, InstallIsAllOrNothing
<1>6. CASE CommitFails
  <2>1. /\ UNCHANGED <<live, old, journal, previous, slot, swap, rec, version, good>> /\ installLock' = None
        /\ pc' = "end" /\ report' = "retained" /\ live = Pair(version) /\ good = live
    BY <1>2, <1>6 DEF CommitFails, disk, journals, Drops
  <2>2. LastGoodSurvives' /\ JournalIsTrue' /\ ReportIsTrue'
    BY <2>1, SameKnownSurvives DEF Known, ReportIsTrue, Pair
  <2>3. SlotIsHeld' /\ RecoveryGoesOn' /\ JournalIsTheirs' /\ DirectoriesAre'
    BY <1>0, <1>1, <2>1 DEF SlotIsHeld, RecoveryGoesOn, JournalIsTheirs, Under, DirectoriesAre,
         Drops
  <2>. QED
    BY <2>2, <2>3 DEF RuntimeInv, InstallIsAllOrNothing
<1>. QED
  BY <1>3, <1>4, <1>5, <1>6

\* The end of the program leaves the disk, which is all that a recovery needs.
LEMMA CrashKeeps ==
  ASSUME RuntimeInv, RuntimeTypeOK', RuntimeCrash
  PROVE  RuntimeInv'
<1>. USE DEF RuntimeCrash, disk, journals
<1>1. LastGoodSurvives' /\ JournalIsTrue'
  BY SameKnownSurvives DEF Known
<1>2. SlotIsHeld' /\ RecoveryGoesOn' /\ JournalIsTheirs' /\ DirectoriesAre' /\ ReportIsTrue'
  BY RuntimeAssumption DEF SlotIsHeld, RecoveryGoesOn, JournalIsTheirs, Under, DirectoriesAre,
       Drops, ReportIsTrue
<1>. QED
  BY <1>1, <1>2 DEF RuntimeInv, InstallIsAllOrNothing

\* The other workers take and release the slot, never from the installation.
LEMMA OthersKeep ==
  ASSUME RuntimeInv, UNCHANGED RuntimeRest,
         \/ slot' = slot
         \/ slot = None /\ slot' \in Workers
         \/ slot \in {"pyannote", "models"} /\ slot' = None
  PROVE  RuntimeInv'
<1>. USE RuntimeAssumption DEF RuntimeRest, disk, journals
<1>1. RuntimeTypeOK'
  BY DEF RuntimeInv, RuntimeTypeOK, Workers
<1>2. LastGoodSurvives' /\ JournalIsTrue'
  BY SameKnownSurvives DEF Known
<1>3. SlotIsHeld'
  BY DEF RuntimeInv, SlotIsHeld, Workers
<1>4. ReportIsTrue' /\ RecoveryGoesOn'
  BY DEF RuntimeInv, InstallIsAllOrNothing, ReportIsTrue, RecoveryGoesOn, Known, Intact
<1>5. JournalIsTheirs'
  BY DEF RuntimeInv, JournalIsTheirs, Drops, Entered
<1>6. DirectoriesAre'
  BY DEF RuntimeInv, DirectoriesAre, Drops, Intact, Backed, Replaced, Tried, Noted
<1>. QED
  BY <1>1, <1>2, <1>3, <1>4, <1>5, <1>6 DEF RuntimeInv, InstallIsAllOrNothing

(***************************************************************************)
(* The composition with the other workers.                                 *)
(***************************************************************************)

\* Every step of the installation and its recoveries.
LEMMA RuntimePartKeeps ==
  ASSUME RuntimeInv, RuntimePart
  PROVE  RuntimeInv'
<1>1. CASE BeginInstall \/ Fetched \/ NotFetched \/ EndInstall
  <2>1. RuntimeTypeOK'
    BY <1>1, RequestTypes DEF RuntimeInv
  <2>. QED
    BY <1>1, <2>1, RequestKeeps
<1>2. CASE Recovering \/ RecoveryFails \/ ReaderRecovers \/ WorkerRecovers
  <2>1. RuntimeTypeOK'
    BY <1>2, RecoveryTypes DEF RuntimeInv, Recovering
  <2>. QED
    BY <1>2, <2>1, RecoveryKeeps
<1>3. CASE WriteReplaces \/ WriteMoves \/ WritePublishes \/ WriteEnds
  <2>1. RuntimeTypeOK'
    BY <1>3, WriteTypes DEF RuntimeInv
  <2>. QED
    BY <1>3, <2>1, WriteKeeps
<1>4. CASE WriteFailsFirst \/ WriteFailsMoved \/ WriteFailsPublished
  <2>1. RuntimeTypeOK'
    BY <1>4, WriteFailsTypes DEF RuntimeInv
  <2>. QED
    BY <1>4, <2>1, WriteFailsKeeps
<1>5. CASE NotExtracted \/ MoveBinFails \/ MoveLibFails \/ PublishFails
  <2>1. RuntimeTypeOK'
    BY <1>5, MoveTypes DEF RuntimeInv
  <2>. QED
    BY <1>5, <2>1, FailuresKeep
<1>6. CASE Extract \/ Move("bin") \/ Move("lib") \/ Publish("bin") \/ Publish("lib")
  <2>1. RuntimeTypeOK'
    BY <1>6, MoveTypes DEF RuntimeInv
  <2>. QED
    BY <1>6, <2>1, MoveKeeps
<1>7. CASE \/ Probe \/ CommitDropsNew \/ CommitDropsOld \/ CommitDropsPrevious
           \/ CommitDropsJournal \/ CommitFails
  <2>1. RuntimeTypeOK'
    BY <1>7, MoveTypes DEF RuntimeInv
  <2>. QED
    BY <1>7, <2>1, CommitKeeps
<1>. QED
  BY <1>1, <1>2, <1>3, <1>4, <1>5, <1>6, <1>7 DEF RuntimePart, Installing, InstallFails

\* What the worker for diarization does with the slot.
LEMMA PyannoteSlot ==
  ASSUME PyannotePart
  PROVE  \/ slot' = slot
         \/ slot = None /\ slot' \in Workers
         \/ slot \in {"pyannote", "models"} /\ slot' = None
<1>1. CASE StartJob \/ EndJob
  BY <1>1 DEF StartJob, EndJob, Acquire, Release, Workers
<1>2. CASE JobStep /\ ~StartJob /\ ~EndJob
  BY <1>2 DEF JobStep, PrepareStage, FillStage, BeginBundled, Reset, Copy, MoveToBackup,
       MarkBackup,
       UnmarkStage, PublishTree, Validate, ProbeTree, WriteReceipt, WriteStatus, Finalize, DropBackup,
       Rollback, RestoreBackup, PersistFailure
<1>3. CASE JobFails \/ DiskFails
  BY <1>3 DEF JobFails, JobOutrun, Busy, StageFails, StageCancelled, NotValid, NotVerified,
       DiskFails, CopyFails, MarkFails, PublishTreeFails, NotWritten, NotFinalized, NotRestored, NotRecovered
<1>4. CASE Ask \/ BeginLoad \/ Loading
  BY <1>4 DEF Ask, Loading, BeginLoad, LookForPending, LookForUsable, Evict, Adopt, CleanOrphans,
       LoadOutrun, NotRecovered
<1>. QED
  BY <1>1, <1>2, <1>3, <1>4 DEF PyannotePart

\* What the worker for models does with it.
LEMMA ModelsSlot ==
  ASSUME ModelsPart
  PROVE  \/ slot' = slot
         \/ slot = None /\ slot' \in Workers
         \/ slot \in {"pyannote", "models"} /\ slot' = None
<1>1. CASE StartModels \/ EndModels
  BY <1>1 DEF StartModels, EndModels, Acquire, Release, Workers
<1>2. CASE ~StartModels /\ ~EndModels
  BY <1>2 DEF ModelsPart, BatchStep, NextItem, Downloaded, Refused, ExtractEncoder, CleanArchive,
       BatchFails, ModelsBusy, BatchCancelled, AttemptFails, ReplaceFails, NotCleaned, AskModels
<1>. QED
  BY <1>1, <1>2

\* Nothing is installed half at any time: the provisioning of the programs keeps
\* the invariant of the runtime's directories, its journal and its lock.
THEOREM RuntimeInvariant == ProvisioningSpec => []RuntimeInv
<1>1. ProvisioningInit => RuntimeInv
  <2>. SUFFICES ASSUME ProvisioningInit PROVE RuntimeInv
    OBVIOUS
  <2>. USE RuntimeAssumption DEF ProvisioningInit, RuntimeInit
  <2>1. RuntimeTypeOK
    <3>1. live \in [Parts -> Versions \cup {None}]
      BY DEF Versions
    <3>2. old \in [Parts -> Versions \cup {None}] /\ new \in [Parts -> Versions \cup {None}]
      BY DEF Nothing
    <3>3. txn \in Journals
      BY DEF NoJournal, Journals
    <3>4. pc \in Steps /\ rec \in Recovery /\ report \in Reports /\ version \in Versions
      BY DEF Steps, Recovery, Reports, Versions
    <3>. QED
      BY <3>1, <3>2, <3>3, <3>4 DEF RuntimeTypeOK
  <2>2. LastGoodSurvives /\ JournalIsTrue
    BY DEF LastGoodSurvives, Restored, JournalIsTrue, Known
  <2>3. ReportIsTrue /\ SlotIsHeld /\ RecoveryGoesOn
    BY DEF ReportIsTrue, SlotIsHeld, RecoveryGoesOn
  <2>4. JournalIsTheirs /\ DirectoriesAre
    BY DEF JournalIsTheirs, Under, DirectoriesAre, Drops
  <2>. QED
    BY <2>1, <2>2, <2>3, <2>4 DEF RuntimeInv, InstallIsAllOrNothing
<1>2. RuntimeInv /\ [ProvisioningNext]_provisioning => RuntimeInv'
  <2>. SUFFICES ASSUME RuntimeInv, [ProvisioningNext]_provisioning PROVE RuntimeInv'
    OBVIOUS
  <2>1. CASE RuntimePart
    BY <2>1, RuntimePartKeeps
  <2>2. CASE PyannotePart
    <3>1. UNCHANGED RuntimeRest
      BY <2>2 DEF PyannotePart
    <3>. QED
      BY <2>2, <3>1, PyannoteSlot, OthersKeep
  <2>3. CASE ModelsPart
    <3>1. UNCHANGED RuntimeRest
      BY <2>3 DEF ModelsPart
    <3>. QED
      BY <2>3, <3>1, ModelsSlot, OthersKeep
  <2>4. CASE ProgramEnds
    <3>1. RuntimeCrash /\ RuntimeTypeOK'
      BY <2>4, MoveTypes DEF ProgramEnds, RuntimeInv
    <3>. QED
      BY <3>1, CrashKeeps
  <2>5. CASE UNCHANGED provisioning
    <3>1. UNCHANGED RuntimeRest /\ slot' = slot
      BY <2>5 DEF provisioning, runtime, RuntimeRest
    <3>. QED
      BY <3>1, OthersKeep
  <2>. QED
    BY <2>1, <2>2, <2>3, <2>4, <2>5 DEF ProvisioningNext
<1>. QED
  BY <1>1, <1>2, PTL DEF ProvisioningSpec

\* An installation of the runtime is all or nothing, for any number of them and
\* whatever else is provisioned.
THEOREM AllOrNothing == ProvisioningSpec => []InstallIsAllOrNothing
<1>1. RuntimeInv => InstallIsAllOrNothing
  BY DEF RuntimeInv
<1>. QED
  BY <1>1, RuntimeInvariant, PTL

(***************************************************************************)
(* A batch of models that nothing refuses anything installs everything.    *)
(***************************************************************************)
Distinct(s) == \A i, j \in 1 .. Len(s) : s[i] = s[j] => i = j

\* Nothing that is to be downloaded lies where it would be refused: an archive
\* that no batch was kept from removing is there only while its encoder is
\* extracted, and a batch whose extraction failed is not one that nothing was refused.
NothingInTheWay ==
  /\ have \in [Items -> {"absent", "broken", "whole"}]
  /\ batch = [pc |-> batch.pc, todo |-> batch.todo, tries |-> batch.tries,
              extracted |-> batch.extracted, told |-> batch.told]
  /\ batch.todo \in Seq(Items) /\ Distinct(batch.todo)
  /\ batch.pc # "end" => \A k \in 1 .. Len(batch.todo) :
       batch.todo[k] \in Models \ Pinned => have[batch.todo[k]] = "absent"
  /\ batch.pc \in {"download", "extract", "clean"} => batch.todo # <<>>
  /\ batch.pc \in {"extract", "clean"} =>
       Ahead \in Encoders /\ archive \subseteq stranded \cup {Ahead}
  /\ batch.pc \notin {"extract", "clean"} => archive \subseteq stranded
  /\ batch.pc = "clean" => batch.extracted \in BOOLEAN /\ (lucky => batch.extracted)
  /\ RetryInstalls

\* The order of a set holds each of its elements once.
LEMMA SetToSeqOrders ==
  ASSUME NEW S, IsFiniteSet(S)
  PROVE  /\ SetToSeq(S) \in Seq(S) /\ Distinct(SetToSeq(S))
<1>1. Cardinality(S) \in Nat /\ ExistsBijection(1 .. Cardinality(S), S)
  BY FS_CardinalityType
<1>2. \E f \in [1 .. Cardinality(S) -> S] : IsInjective(f)
  BY <1>1 DEF ExistsBijection, Bijection, Injection, Surjection
<1>3. SetToSeq(S) \in [1 .. Cardinality(S) -> S] /\ IsInjective(SetToSeq(S))
  BY <1>2 DEF SetToSeq
<1>4. SetToSeq(S) \in Seq(S)
  BY <1>1, <1>3, SeqDef
<1>5. DOMAIN SetToSeq(S) = 1 .. Len(SetToSeq(S))
  BY <1>4, LenProperties
<1>. QED
  BY <1>3, <1>4, <1>5 DEF Distinct, IsInjective

\* One order after another, of sets that share nothing.
LEMMA OrdersFollow ==
  ASSUME NEW S, NEW T, NEW s \in Seq(S), NEW t \in Seq(T), Distinct(s), Distinct(t),
         S \cap T = {}
  PROVE  s \o t \in Seq(S \cup T) /\ Distinct(s \o t)
<1>1. s \in Seq(S \cup T) /\ t \in Seq(S \cup T)
  BY SeqMonotonic
<1>2. /\ s \o t \in Seq(S \cup T) /\ Len(s \o t) = Len(s) + Len(t)
      /\ \A i \in 1 .. Len(s) + Len(t) :
           (s \o t)[i] = IF i <= Len(s) THEN s[i] ELSE t[i - Len(s)]
  BY <1>1, ConcatProperties
<1>3. Len(s) \in Nat /\ Len(t) \in Nat
  BY LenProperties
<1>4. \A i \in 1 .. Len(s) + Len(t) :
        \/ i \in 1 .. Len(s) /\ (s \o t)[i] = s[i] /\ s[i] \in S
        \/ i - Len(s) \in 1 .. Len(t) /\ (s \o t)[i] = t[i - Len(s)] /\ t[i - Len(s)] \in T
  <2>. SUFFICES ASSUME NEW i \in 1 .. Len(s) + Len(t)
                PROVE  \/ i \in 1 .. Len(s) /\ (s \o t)[i] = s[i] /\ s[i] \in S
                       \/ /\ i - Len(s) \in 1 .. Len(t) /\ (s \o t)[i] = t[i - Len(s)]
                          /\ t[i - Len(s)] \in T
    OBVIOUS
  <2>1. CASE i <= Len(s)
    <3>1. i \in 1 .. Len(s)
      BY <1>3, <2>1
    <3>. QED
      BY <1>2, <2>1, <3>1, ElementOfSeq
  <2>2. CASE ~(i <= Len(s))
    <3>1. i - Len(s) \in 1 .. Len(t)
      BY <1>3, <2>2
    <3>. QED
      BY <1>2, <2>2, <3>1, ElementOfSeq
  <2>. QED
    BY <2>1, <2>2
<1>5. \A i, j \in 1 .. Len(s \o t) : (s \o t)[i] = (s \o t)[j] => i = j
  <2>. SUFFICES ASSUME NEW i \in 1 .. Len(s) + Len(t), NEW j \in 1 .. Len(s) + Len(t),
                       (s \o t)[i] = (s \o t)[j]
                PROVE  i = j
    BY <1>2
  <2>1. CASE i \in 1 .. Len(s) /\ (s \o t)[i] = s[i] /\ s[i] \in S
    <3>1. j \in 1 .. Len(s) /\ (s \o t)[j] = s[j]
      BY <1>4, <2>1
    <3>. QED
      BY <2>1, <3>1 DEF Distinct
  <2>2. CASE i - Len(s) \in 1 .. Len(t) /\ (s \o t)[i] = t[i - Len(s)] /\ t[i - Len(s)] \in T
    <3>1. j - Len(s) \in 1 .. Len(t) /\ (s \o t)[j] = t[j - Len(s)]
      BY <1>4, <2>2
    <3>2. i - Len(s) = j - Len(s)
      BY <2>2, <3>1 DEF Distinct
    <3>. QED
      BY <1>3, <3>2
  <2>. QED
    BY <1>4, <2>1, <2>2
<1>. QED
  BY <1>2, <1>5 DEF Distinct

\* What is left of an order after its first element.
LEMMA RestOfOrder ==
  ASSUME NEW S, NEW s \in Seq(S), s # <<>>, Distinct(s)
  PROVE  /\ Tail(s) \in Seq(S) /\ Distinct(Tail(s)) /\ Head(s) \in S
         /\ \A k \in 1 .. Len(Tail(s)) : \E l \in 1 .. Len(s) : Tail(s)[k] = s[l] /\ s[l] # Head(s)
<1>1. /\ Head(s) \in S /\ Head(s) = s[1] /\ Tail(s) \in Seq(S) /\ Len(Tail(s)) = Len(s) - 1
      /\ Len(s) \in Nat \ {0}
      /\ \A k \in 1 .. Len(Tail(s)) : k + 1 \in 1 .. Len(s) /\ Tail(s)[k] = s[k + 1]
  BY HeadTailProperties, EmptySeq
<1>2. \A k \in 1 .. Len(Tail(s)) : s[k + 1] # Head(s)
  BY <1>1 DEF Distinct
<1>3. Distinct(Tail(s))
  BY <1>1 DEF Distinct
<1>. QED
  BY <1>1, <1>2, <1>3

\* The request for what is missing.
LEMMA AskKeeps ==
  ASSUME NothingInTheWay, AskModels
  PROVE  NothingInTheWay'
<1>. USE ModelsAssumption
<1>1. PICK ms \in SUBSET {m \in Models : ~Installed(m)}, es \in SUBSET {e \in Encoders : ~Installed(e)} :
        batch' = [NoBatch EXCEPT !.pc = "asked", !.todo = SetToSeq(ms) \o SetToSeq(es)]
  BY DEF AskModels
<1>2. /\ batch.pc = "idle" /\ have' = have /\ archive' = archive /\ lucky' = lucky
      /\ have \in [Items -> {"absent", "broken", "whole"}]
      /\ archive \subseteq stranded /\ stranded' = stranded
  BY DEF AskModels, NothingInTheWay
<1>3. IsFiniteSet(ms) /\ IsFiniteSet(es)
  <2>1. ms \in SUBSET Items /\ es \in SUBSET Items
    BY DEF Items
  <2>. QED
    BY <2>1, FS_Subset
<1>4. /\ SetToSeq(ms) \in Seq(ms) /\ Distinct(SetToSeq(ms))
      /\ SetToSeq(es) \in Seq(es) /\ Distinct(SetToSeq(es))
  BY <1>3, SetToSeqOrders
<1> DEFINE todo == SetToSeq(ms) \o SetToSeq(es)
<1>5. todo \in Seq(ms \cup es) /\ Distinct(todo)
  <2>1. ms \cap es = {}
    BY DEF Items
  <2>. QED
    BY <1>4, <2>1, OrdersFollow
<1>6. batch' = [pc |-> "asked", todo |-> todo, tries |-> 0, extracted |-> TRUE, told |-> "none"]
  BY <1>1 DEF NoBatch
<1>. HIDE DEF todo
<1>7. todo \in Seq(Items)
  <2>1. ms \cup es \subseteq Items
    BY DEF Items
  <2>. QED
    BY <1>5, <2>1, SeqMonotonic
<1>8. \A k \in 1 .. Len(todo) : todo[k] \in Models \ Pinned => have[todo[k]] = "absent"
  <2>. SUFFICES ASSUME NEW k \in 1 .. Len(todo), todo[k] \in Models \ Pinned
                PROVE  have[todo[k]] = "absent"
    OBVIOUS
  <2>1. todo[k] \in ms \cup es
    BY <1>5, ElementOfSeq
  <2>2. ~Installed(todo[k]) /\ todo[k] \in Items
    BY <2>1 DEF Items
  <2>. QED
    BY <1>2, <2>2 DEF Installed
<1>. QED
  BY <1>2, <1>5, <1>6, <1>7, <1>8 DEF NothingInTheWay, RetryInstalls

\* Every step of a batch, and where it is cut off.
LEMMA BatchKeeps ==
  ASSUME NothingInTheWay, BatchStep \/ BatchFails \/ NotCleaned \/ ModelsCrash
  PROVE  NothingInTheWay'
<1>. USE ModelsAssumption
<1> DEFINE todo == batch.todo
<1>0. /\ have \in [Items -> {"absent", "broken", "whole"}] /\ todo \in Seq(Items) /\ Distinct(todo)
      /\ Ahead = Head(todo)
      /\ batch = [pc |-> batch.pc, todo |-> todo, tries |-> batch.tries,
                  extracted |-> batch.extracted, told |-> batch.told]
      /\ todo # <<>> => Ahead \in Items /\ \E k \in 1 .. Len(todo) : Ahead = todo[k]
  <2>1. todo # <<>> => Head(todo) \in Items /\ Head(todo) = todo[1] /\ Len(todo) \in Nat \ {0}
    BY HeadTailProperties, EmptySeq DEF NothingInTheWay
  <2>. QED
    BY <2>1 DEF NothingInTheWay, Ahead
<1>1. CASE ModelsBusy \/ EndModels \/ ModelsCrash
  <2>1. /\ batch' = NoBatch /\ have' = have /\ archive' = archive /\ archive' \subseteq stranded'
    BY <1>1 DEF ModelsBusy, EndModels, ModelsCrash, NothingInTheWay
  <2>2. <<>> \in Seq(Items) /\ Len(<<>>) = 0 /\ Distinct(<<>>)
    BY EmptySeq DEF Distinct
  <2>. QED
    BY <1>0, <2>1, <2>2 DEF NothingInTheWay, NoBatch, RetryInstalls
<1>2. CASE StartModels
  BY <1>2 DEF StartModels, NothingInTheWay, RetryInstalls
<1>3. CASE NextItem
  <2>1. CASE todo = <<>>
    BY <1>0, <1>3, <2>1 DEF NextItem, NothingInTheWay, BatchTells, RetryInstalls
  <2>2. CASE todo # <<>>
    BY <1>0, <1>3, <2>2 DEF NextItem, NothingInTheWay, RetryInstalls
  <2>. QED
    BY <2>1, <2>2
<1>4. CASE BatchCancelled \/ ReplaceFails
  <2>1. have' \in [Items -> {"absent", "broken", "whole"}]
    BY <1>0, <1>4 DEF BatchCancelled, ReplaceFails, NothingInTheWay
  <2>2. /\ batch' = [batch EXCEPT !.pc = "end", !.told = batch'.told] /\ lucky' = FALSE
        /\ archive' = archive /\ archive \subseteq stranded /\ stranded' = stranded
    BY <1>0, <1>4 DEF BatchCancelled, ReplaceFails, BatchTells, NothingInTheWay
  <2>. QED
    BY <1>0, <2>1, <2>2 DEF NothingInTheWay, RetryInstalls
<1>5. CASE AttemptFails
  <2>1. /\ have' = have /\ archive' = archive /\ archive \subseteq stranded
        /\ batch.pc = "download" /\ stranded' = stranded
    BY <1>5 DEF AttemptFails, NothingInTheWay
  <2>2. \/ batch' = [batch EXCEPT !.tries = batch.tries + 1]
        \/ batch' = [batch EXCEPT !.pc = "end", !.told = "error"] /\ lucky' = FALSE
    BY <1>5 DEF AttemptFails, BatchTells
  <2>. QED
    BY <1>0, <2>1, <2>2 DEF NothingInTheWay, RetryInstalls
<1>6. CASE Refused
  <2>1. /\ batch.pc = "download" /\ Ahead \notin Pinned /\ todo # <<>> /\ archive \subseteq stranded
        /\ UNCHANGED <<have, archive, stranded>> /\ batch' = [batch EXCEPT !.pc = "end", !.told = "error"]
    BY <1>6 DEF Refused, InTheWay, NothingInTheWay, BatchTells
  <2>2. Ahead \in Encoders => Ahead \in stranded
    BY <1>6, <2>1 DEF Refused, InTheWay
  <2>3. Ahead \in Encoders
    <3>1. Ahead \in Models => have[Ahead] = "absent" /\ Ahead \notin Encoders
      BY <1>0, <2>1 DEF NothingInTheWay
    <3>. QED
      BY <1>0, <1>6, <2>1, <3>1 DEF Refused, InTheWay, Items
  <2>4. Ahead' = Ahead /\ batch'.todo = todo /\ batch'.pc = "end"
    BY <1>0, <2>1 DEF Ahead
  <2>. QED
    BY <1>0, <2>1, <2>2, <2>3, <2>4 DEF NothingInTheWay, RetryInstalls
<1>7. todo # <<>> =>
        /\ Tail(todo) \in Seq(Items) /\ Distinct(Tail(todo))
        /\ \A k \in 1 .. Len(Tail(todo)) :
             \E l \in 1 .. Len(todo) : Tail(todo)[k] = todo[l] /\ todo[l] # Ahead
  BY <1>0, RestOfOrder
<1>8. CASE Downloaded
  <2>1. /\ batch.pc = "download" /\ todo # <<>> /\ archive \subseteq stranded
        /\ lucky' = lucky /\ stranded' = stranded
        /\ \A k \in 1 .. Len(todo) : todo[k] \in Models \ Pinned => have[todo[k]] = "absent"
    BY <1>8 DEF Downloaded, NothingInTheWay
  <2>2. CASE Ahead \in Encoders
    <3>1. archive' = archive \cup {Ahead} /\ batch' = [batch EXCEPT !.pc = "extract"] /\ have' = have
      BY <1>8, <2>1, <2>2 DEF Downloaded
    <3>2. Ahead' = Ahead /\ batch'.todo = todo
      BY <1>0, <3>1 DEF Ahead
    <3>. QED
      BY <1>0, <2>1, <2>2, <3>1, <3>2 DEF NothingInTheWay, RetryInstalls
  <2>3. CASE Ahead \notin Encoders
    <3>1. /\ have' = [have EXCEPT ![Ahead] = "whole"] /\ archive' = archive
          /\ batch' = [batch EXCEPT !.pc = "next", !.todo = Tail(todo)]
      BY <1>8, <2>1, <2>3 DEF Downloaded
    <3>2. have' \in [Items -> {"absent", "broken", "whole"}]
      BY <1>0, <3>1
    <3>3. \A k \in 1 .. Len(Tail(todo)) :
            Tail(todo)[k] \in Models \ Pinned => have'[Tail(todo)[k]] = "absent"
      BY <1>0, <1>7, <2>1, <3>1 DEF Items
    <3>4. /\ batch'.pc = "next" /\ batch'.todo = Tail(todo)
          /\ batch' = [pc |-> batch'.pc, todo |-> batch'.todo, tries |-> batch'.tries,
                       extracted |-> batch'.extracted, told |-> batch'.told]
      BY <1>0, <3>1
    <3>. QED
      BY <1>7, <2>1, <3>1, <3>2, <3>3, <3>4 DEF NothingInTheWay, RetryInstalls
  <2>. QED
    BY <2>2, <2>3
<1>9. CASE ExtractEncoder
  <2>1. /\ batch.pc = "extract" /\ todo # <<>> /\ Ahead \in Encoders
        /\ archive \subseteq stranded \cup {Ahead} /\ archive' = archive /\ stranded' = stranded
        /\ \A k \in 1 .. Len(todo) : todo[k] \in Models \ Pinned => have[todo[k]] = "absent"
    BY <1>9 DEF ExtractEncoder, NothingInTheWay
  <2>2. PICK ok \in BOOLEAN :
          /\ have' = IF ok THEN [have EXCEPT ![Ahead] = "whole"] ELSE have
          /\ batch' = [batch EXCEPT !.pc = "clean", !.extracted = ok]
          /\ lucky' = (lucky /\ ok)
    BY <1>9 DEF ExtractEncoder
  <2>3. have' \in [Items -> {"absent", "broken", "whole"}]
    BY <1>0, <2>2
  <2>4. \A m \in Models : m \in Items => have'[m] = have[m]
    BY <1>0, <2>1, <2>2
  <2>5. \A k \in 1 .. Len(todo) : todo[k] \in Models \ Pinned => have'[todo[k]] = "absent"
    BY <2>1, <2>4 DEF Items
  <2>6. /\ Ahead' = Ahead /\ batch'.todo = todo /\ batch'.pc = "clean" /\ batch'.extracted = ok
        /\ batch' = [pc |-> batch'.pc, todo |-> batch'.todo, tries |-> batch'.tries,
                     extracted |-> batch'.extracted, told |-> batch'.told]
    BY <1>0, <2>2 DEF Ahead
  <2>7. lucky' => ok
    BY <2>2
  <2>. QED
    BY <1>0, <2>1, <2>3, <2>5, <2>6, <2>7 DEF NothingInTheWay, RetryInstalls
<1>10. CASE CleanArchive
  <2>1. /\ batch.pc = "clean" /\ todo # <<>> /\ archive \subseteq stranded \cup {Ahead}
        /\ archive' = archive \ {Ahead} /\ stranded' = stranded \ {Ahead}
        /\ have' = have /\ lucky' = lucky /\ (lucky => batch.extracted)
        /\ \A k \in 1 .. Len(todo) : todo[k] \in Models \ Pinned => have[todo[k]] = "absent"
    BY <1>10 DEF CleanArchive, NothingInTheWay
  <2>2. archive' \subseteq stranded'
    BY <2>1
  <2>3. CASE batch.extracted
    <3>1. batch' = [batch EXCEPT !.pc = "next", !.todo = Tail(todo)]
      BY <1>10, <2>3 DEF CleanArchive
    <3>2. /\ batch'.pc = "next" /\ batch'.todo = Tail(todo)
          /\ batch' = [pc |-> batch'.pc, todo |-> batch'.todo, tries |-> batch'.tries,
                       extracted |-> batch'.extracted, told |-> batch'.told]
      BY <1>0, <3>1
    <3>3. \A k \in 1 .. Len(Tail(todo)) :
            Tail(todo)[k] \in Models \ Pinned => have[Tail(todo)[k]] = "absent"
      BY <1>7, <2>1
    <3>. QED
      BY <1>0, <1>7, <2>1, <2>2, <3>2, <3>3 DEF NothingInTheWay, RetryInstalls
  <2>4. CASE ~batch.extracted
    <3>1. batch' = [batch EXCEPT !.pc = "end", !.told = "error"] /\ ~lucky'
      BY <1>10, <2>1, <2>4 DEF CleanArchive, BatchTells
    <3>. QED
      BY <1>0, <2>1, <2>2, <3>1 DEF NothingInTheWay, RetryInstalls
  <2>. QED
    BY <2>3, <2>4
<1>11. CASE NotCleaned
  <2>1. /\ batch.pc = "clean" /\ todo # <<>> /\ archive \subseteq stranded \cup {Ahead}
        /\ UNCHANGED <<have, archive>> /\ stranded' = stranded \cup {Ahead} /\ ~lucky'
        /\ batch' = [batch EXCEPT !.pc = "end", !.told = "error"]
    BY <1>11 DEF NotCleaned, NothingInTheWay, BatchTells
  <2>. QED
    BY <1>0, <2>1 DEF NothingInTheWay, RetryInstalls
<1>. QED
  BY <1>1, <1>2, <1>3, <1>4, <1>5, <1>6, <1>8, <1>9, <1>10, <1>11 DEF BatchStep, BatchFails

\* Whatever else is provisioned, and whatever earlier batches came to, failures of
\* the disk and ends of the program included: a batch that no server, token or disk
\* refuses anything installs everything, or meets an archive that one of them could
\* not remove (provisioning_download_models).
THEOREM RetrySucceeds == ProvisioningSpec => []RetryInstalls
<1>1. ProvisioningInit => NothingInTheWay
  <2>. SUFFICES ASSUME ProvisioningInit PROVE NothingInTheWay
    OBVIOUS
  <2>1. <<>> \in Seq(Items) /\ Len(<<>>) = 0 /\ Distinct(<<>>)
    BY EmptySeq DEF Distinct
  <2>. QED
    BY <2>1 DEF ProvisioningInit, ModelsInit, NoBatch, NothingInTheWay, RetryInstalls
<1>2. NothingInTheWay /\ [ProvisioningNext]_provisioning => NothingInTheWay'
  <2>. SUFFICES ASSUME NothingInTheWay, [ProvisioningNext]_provisioning PROVE NothingInTheWay'
    OBVIOUS
  <2>1. CASE ModelsPart
    BY <2>1, AskKeeps, BatchKeeps DEF ModelsPart
  <2>2. CASE ProgramEnds
    BY <2>2, BatchKeeps DEF ProgramEnds
  <2>3. CASE UNCHANGED downloads
    BY <2>3 DEF downloads, NothingInTheWay, Ahead, RetryInstalls
  <2>. QED
    BY <2>1, <2>2, <2>3 DEF ProvisioningNext, RuntimePart, PyannotePart, provisioning
<1>3. NothingInTheWay => RetryInstalls
  BY DEF NothingInTheWay
<1>. QED
  BY <1>1, <1>2, <1>3, PTL DEF ProvisioningSpec

(***************************************************************************)
(* A repair of the diarization runtime.  It swaps a whole directory, so    *)
(* the invariant says at every point where what was ready is: in the       *)
(* directory, or in the one backup there can be.                           *)
(***************************************************************************)
\* The installation and the recovery in a load, wherever they are.
JobRecord ==
  [pc : {"idle", "asked", "begin", "fetch", "swap", "mark", "unmark", "publish", "reset", "copy",
         "validate", "probe", "receipt", "status", "finalize", "drop", "rollback", "restore",
         "persist", "end"},
   kind : {"download", "bundled", "verify"}, had : BOOLEAN, backup : BOOLEAN,
   told : {"none", "cancelled", "error", "completed"}]
LoadRecord ==
  [pc : {"off", "pending", "usable", "evict", "adopt", "clean"},
   from : {"none", "backup", "stage"}, which : Nat, marked : BOOLEAN]

\* There is at most one backup at a time.
PyannoteTypeOK ==
  /\ tree \in TreeRecord \cup {None} /\ (tree # None => ~tree.owned)
  /\ stage \in TreeRecord \cup {None}
  /\ backups = <<>> \/ (MaxBackups > 0 /\ backups[1] \in TreeRecord /\ backups = <<backups[1]>>)
  /\ job \in JobRecord /\ load \in LoadRecord
  /\ loaded \in BOOLEAN /\ everReady \in BOOLEAN

\* The backup is the running installation's, or left by one that is gone.
Owned == backups # <<>> /\ backups[1].owned
Left == backups # <<>> /\ ~backups[1].owned

\* What there is of backups, and which one a step of the installation or a load takes.
LEMMA OneBackup ==
  ASSUME PyannoteTypeOK
  PROVE  /\ Owned => Mine = {1} /\ Foreign = {} /\ NewestMine = 1
         /\ Left => Mine = {} /\ Foreign = {1} /\ NewestForeign = 1
         /\ backups = <<>> => Mine = {} /\ Foreign = {}
         /\ backups # <<>> => RemoveAt(backups, 1) = <<>>
<1>1. CASE backups = <<>>
  BY <1>1 DEF Owned, Left, Mine, Foreign
<1>2. CASE backups # <<>>
  <2>1. backups[1] \in TreeRecord /\ backups = <<backups[1]>>
    BY <1>2 DEF PyannoteTypeOK
  <2>2. Len(backups) = 1 /\ DOMAIN backups = {1}
    BY <2>1
  <2>3. Owned => Mine = {1} /\ Foreign = {}
    BY <2>2 DEF Owned, Mine, Foreign
  <2>4. Left => Mine = {} /\ Foreign = {1}
    BY <2>2 DEF Left, Mine, Foreign
  <2>5. Mine = {1} => NewestMine = 1
    BY DEF NewestMine
  <2>6. Foreign = {1} => NewestForeign = 1
    BY DEF NewestForeign
  <2>7. RemoveAt(backups, 1) = <<>>
    BY <2>1, <2>2 DEF RemoveAt
  <2>. QED
    BY <1>2, <2>3, <2>4, <2>5, <2>6, <2>7
<1>. QED
  BY <1>1, <1>2

\* What no running installation owns is removed, what one owns stays.
LEMMA OwnStays ==
  ASSUME PyannoteTypeOK
  PROVE  OwnBackups = IF Owned THEN backups ELSE <<>>
<1>1. CASE ~Owned
  <2>1. Mine = {}
    BY <1>1, OneBackup DEF Owned, Left
  <2>2. Cardinality(Mine) = 0
    BY <2>1, FS_EmptySet
  <2>. QED
    BY <1>1, <2>2 DEF OwnBackups
<1>2. CASE Owned
  <2>1. Mine = {1} /\ backups = <<backups[1]>>
    BY <1>2, OneBackup DEF Owned, PyannoteTypeOK
  <2>2. Cardinality({1}) = 1
    BY FS_Singleton
  <2>3. {j \in Mine : j <= 1} = {1}
    BY <2>1
  <2>4. (CHOOSE i \in Mine : Cardinality({j \in Mine : j <= i}) = 1) = 1
    BY <2>1, <2>2, <2>3
  <2>5. OwnBackups = [k \in 1 .. 1 |-> backups[1]]
    BY <2>1, <2>2, <2>4 DEF OwnBackups
  <2>. QED
    BY <1>2, <2>1, <2>5
<1>. QED
  BY <1>1, <1>2

\* What the code does to a directory.
LEMMA TreeUpdates ==
  ASSUME NEW t \in TreeRecord, NEW s \in {"none", "ok", "bad", "failed probe"}
  PROVE  /\ t # None /\ Directory(t) = t /\ Bare \in TreeRecord
         /\ [t EXCEPT !.status = s] \in TreeRecord
         /\ [t EXCEPT !.receipt = TRUE] \in TreeRecord
         /\ [t EXCEPT !.whole = TRUE] \in TreeRecord
         /\ [t EXCEPT !.pending = FALSE] \in TreeRecord
         /\ [t EXCEPT !.owned = FALSE] \in TreeRecord
         /\ [t EXCEPT !.owned = TRUE] \in TreeRecord
         /\ [t EXCEPT !.whole = TRUE, !.status = s] \in TreeRecord
         /\ Unmarked(t) \in TreeRecord
<1>1. t # None /\ Directory(t) = t
  BY PyannoteAssumption DEF Directory
<1>. QED
  BY <1>1 DEF TreeRecord, Unmarked, Bare

\* How an installation goes on, and ends.
LEMMA JobUpdates ==
  ASSUME NEW place, NEW what, PyannoteTypeOK
  PROVE  /\ place \in {"begin", "fetch", "swap", "mark", "unmark", "publish", "reset", "copy",
                    "validate", "probe", "receipt", "status", "finalize", "drop", "rollback",
                    "restore", "persist"} /\ Goto(place) =>
              /\ job' \in JobRecord /\ job'.pc = place
              /\ job'.kind = job.kind /\ job'.had = job.had /\ job'.backup = job.backup
         /\ what \in {"cancelled", "error", "completed"} /\ Tells(what) =>
              /\ job' \in JobRecord /\ job'.pc = "end" /\ job'.told = what
              /\ job'.kind = job.kind /\ job'.had = job.had /\ job'.backup = job.backup
<1>1. job \in JobRecord
  BY DEF PyannoteTypeOK
<1>. QED
  BY <1>1 DEF JobRecord, Goto, Tells

\* Where a step of an installation leads that fails.
LEMMA FailsGoes ==
  ASSUME PyannoteTypeOK, Fails
  PROVE  /\ job' \in JobRecord
         /\ job'.pc = IF job.backup THEN "rollback" ELSE "persist"
         /\ job'.kind = job.kind /\ job'.had = job.had /\ job'.backup = job.backup
<1>1. job \in JobRecord
  BY DEF PyannoteTypeOK
<1>. QED
  BY <1>1 DEF JobRecord, Goto, Fails

\* How a load goes on.
LEMMA LoadUpdates ==
  ASSUME PyannoteTypeOK, NEW place \in {"usable", "adopt", "clean", "pending", "evict"},
         NEW from \in {"backup", "stage"}, NEW which \in Nat, NEW mark \in BOOLEAN
  PROVE  /\ [load EXCEPT !.pc = place] \in LoadRecord
         /\ [load EXCEPT !.pc = place].pc = place
         /\ [load EXCEPT !.pc = place].from = load.from
         /\ [load EXCEPT !.pc = place].which = load.which
         /\ Restores(from, which, mark) =>
              load' \in LoadRecord /\ load'.pc = "evict" /\ load'.from = from /\ load'.which = which
         /\ NoLoad \in LoadRecord /\ NoLoad.pc = "off"
<1>1. load \in LoadRecord
  BY DEF PyannoteTypeOK
<1>. QED
  BY <1>1 DEF LoadRecord, NoLoad, Restores

\* Not both does the disk fail and the program end; and the disk fails in one
\* installation.
Fits == Takes("faults") => Takes("once") /\ ~Takes("crash")

\* What was ready is in this directory.
Kept(t) == everReady => Ready(t)
Committed(t) == t.status = "ok" /\ t.receipt
\* A load puts the backup that is left in the place of such a directory ...
Yields(t) == t = None \/ ~t.whole \/ (t.pending /\ ~Committed(t))
\* ... and leaves such a one.
Stays == Ready(tree) /\ (~tree.pending \/ Committed(tree) \/ ~Left)

OwnedIsReady == Owned /\ Ready(backups[1])
LeftIsReady == Left /\ Ready(backups[1])

\* An installation that failed has removed what a load was about to put back.
Wiped == backups = <<>> /\ ~everReady /\ ~Whole(tree) /\ Takes("faults")

\* How far the recovery in a load is, and what it still finds.
Recoverable ==
  /\ load.pc \in {"off", "pending"} /\ everReady =>
       Stays \/ OwnedIsReady \/ (LeftIsReady /\ Yields(tree))
  /\ load.pc = "usable" /\ everReady => Stays \/ OwnedIsReady \/ (LeftIsReady /\ ~Whole(tree))
  /\ load.pc = "adopt" => tree = None \/ Takes("faults")
  /\ load.pc \in {"evict", "adopt"} => load.from \in {"backup", "stage"}
  /\ load.pc \in {"evict", "adopt"} /\ load.from = "backup" =>
       /\ load.which = 1
       /\ (Left /\ backups[1].whole /\ Kept(backups[1]) /\ Yields(tree)) \/ Wiped
  /\ load.pc \in {"evict", "adopt"} /\ load.from = "stage" =>
       Whole(stage) /\ ~stage.owned /\ ~Whole(tree) /\ (everReady => OwnedIsReady)
  /\ load.pc = "clean" /\ everReady => Stays \/ OwnedIsReady

\* What was there is in a backup of the installation's own, or was not ready.
BackedUp ==
  \/ job.backup /\ Owned /\ Kept(backups[1])
  \/ ~job.backup /\ backups = <<>> /\ ~everReady
Untouched == ~job.backup /\ backups = <<>> /\ Kept(tree)

StageIs(whole, owned) ==
  /\ stage # None
  /\ (stage.whole <=> whole) /\ (stage.owned <=> owned)
  /\ stage.pending /\ ~stage.receipt /\ stage.status = "none"
Staged == IF job.kind = "download" THEN StageIs(TRUE, TRUE) ELSE stage = None

\* Where the program ends now, the backup is put back, or the new directory stays
\* because it is ready; or a load has taken the mark.
Pending == tree.pending \/ bared \/ ~Owned \/ Committed(tree)
\* The new directory, and whether it has its receipt.
Built(receipt) ==
  Whole(tree) /\ (tree.receipt <=> receipt) /\ tree.status \in {"ok", "none"} /\ Pending
\* An installation is verified only where none was ready.
ToVerify == Untouched /\ Whole(tree) /\ ~everReady

\* Where the installation is, between its request and its outcome.
JobIsAt ==
  /\ job.pc \in {"asked", "begin"} =>
       Untouched /\ stage = None /\ (job.kind = "verify" => ToVerify)
  /\ job.pc = "fetch" => Untouched /\ job.kind = "download" /\ StageIs(FALSE, TRUE)
  /\ job.pc = "swap" =>
       Untouched /\ job.kind # "verify" /\ Staged /\ (job.kind = "bundled" => tree # None)
  /\ job.pc = "mark" =>
       ~job.backup /\ job.kind # "verify" /\ Staged /\ tree = None /\ Left /\ Kept(backups[1])
  /\ job.pc = "unmark" =>
       BackedUp /\ job.kind = "download" /\ StageIs(TRUE, TRUE) /\ tree = None
  /\ job.pc = "publish" =>
       /\ BackedUp /\ job.kind = "download" /\ tree = None
       /\ stage = None \/ StageIs(TRUE, FALSE)
  /\ job.pc = "reset" =>
       BackedUp /\ job.kind = "bundled" /\ stage = None /\ (job.backup => tree = None)
  /\ job.pc = "copy" =>
       /\ BackedUp /\ job.kind = "bundled" /\ stage = None
       /\ tree # None /\ ~tree.whole /\ ~tree.receipt /\ Pending
  /\ job.pc = "validate" => BackedUp /\ job.kind # "verify" /\ stage = None /\ Built(FALSE)
  /\ job.pc \in {"probe", "receipt"} =>
       stage = None /\ IF job.kind = "verify" THEN ToVerify ELSE BackedUp /\ Built(FALSE)
  /\ job.pc = "status" =>
       /\ stage = None
       /\ IF job.kind = "verify" THEN ToVerify /\ tree.receipt ELSE BackedUp /\ Built(TRUE)
  /\ job.pc \in {"finalize", "drop"} =>
       BackedUp /\ job.kind # "verify" /\ stage = None /\ Ready(tree) /\ Committed(tree)
  /\ job.pc = "rollback" =>
       BackedUp /\ job.backup /\ stage = None /\ (Takes("faults") \/ bared \/ Yields(tree))
  /\ job.pc = "restore" => BackedUp /\ job.backup /\ stage = None /\ tree = None

Outside == {"idle", "persist", "end"}

\* Who goes on beside whom.
Around ==
  /\ job.pc = "mark" => load.pc = "off"
  /\ load.pc \in {"evict", "adopt"} => job.pc \in Outside
  /\ job.pc # "idle" => loaded
  /\ Takes("faults") /\ asked = 0 => job.pc = "idle" /\ backups = <<>>
  /\ job.pc \notin Outside => (everReady => job.had)

\* What there is where no installation runs, or where it is over.
Over ==
  /\ Recoverable
  /\ Owned => Takes("faults")
  /\ Left /\ Takes("faults") => ~Whole(tree)
  /\ stage # None => job.pc = "idle" /\ ~stage.owned /\ Takes("crash")
  /\ loaded /\ ~Takes("faults") => backups = <<>> /\ stage = None
  /\ job.pc = "persist" => (everReady => job.had)
  /\ job.pc = "end" /\ job.told = "completed" => Ready(tree) /\ ~Left

RepairInv ==
  /\ PyannoteTypeOK /\ Fits /\ Around
  /\ job.pc \notin Outside => JobIsAt
  /\ job.pc \in Outside => Over

\* A step within an installation keeps the invariant if it comes to where it should.
LEMMA MidStep ==
  ASSUME RepairInv, PyannoteTypeOK', job.pc \notin Outside, job'.pc \notin Outside,
         job'.had = job.had, JobIsAt', job'.pc = "mark" => load.pc = "off",
         UNCHANGED <<load, loaded, everReady, who, asked>>
  PROVE  RepairInv'
<1>1. Fits' /\ Around'
  BY DEF RepairInv, Fits, Around, Takes, Outside
<1>. QED
  BY <1>1 DEF RepairInv, Outside

\* So does one that ends it, if what was ready is in the directory, or in a backup
\* that the next load finds.
LEMMA EndStep ==
  ASSUME RepairInv, PyannoteTypeOK', job.pc \notin Outside, job'.pc \in {"persist", "end"},
         job'.had = job.had, stage' = None,
         Owned' => Takes("faults"), ~Takes("faults") => backups' = <<>>,
         Left' => load.pc = "off" /\ tree' = None,
         everReady => Stays' \/ OwnedIsReady' \/ LeftIsReady',
         job'.pc = "end" /\ job'.told = "completed" => Ready(tree') /\ ~Left',
         UNCHANGED <<load, loaded, everReady, who, asked>>
  PROVE  RepairInv'
<1>1. Fits' /\ Around'
  BY DEF RepairInv, Fits, Around, Takes, Outside
<1>2. LeftIsReady' => Yields(tree') /\ ~Whole(tree') /\ load.pc = "off"
  BY DEF LeftIsReady, Yields, Whole
<1>3. load'.pc \notin {"evict", "adopt"}
  BY DEF RepairInv, Around
<1>4. Recoverable'
  BY <1>2, <1>3 DEF Recoverable
<1>5. Left' => ~Whole(tree')
  BY DEF Whole
<1>6. Over'
  BY <1>4, <1>5 DEF Over, RepairInv, Around, Takes
<1>. QED
  BY <1>1, <1>6 DEF RepairInv, Outside

\* One that fails leaves the backup to be restored, where there is one.
LEMMA FailureKeeps ==
  ASSUME RepairInv, job.pc \notin Outside, BackedUp,
         job.backup => Takes("faults") \/ bared \/ Yields(tree), Fails, stage' = None,
         UNCHANGED <<tree, backups, load, loaded, everReady, bared, who, asked>>
  PROVE  RepairInv'
<1>1. PyannoteTypeOK'
  BY FailsGoes DEF RepairInv, PyannoteTypeOK
<1>2. CASE job.backup
  <2>1. job'.pc = "rollback" /\ job'.backup /\ job'.had = job.had
    BY <1>2, FailsGoes DEF RepairInv
  <2>2. BackedUp' /\ (Takes("faults") \/ bared \/ Yields(tree))'
    BY <1>2, <2>1 DEF BackedUp, Owned, Kept, Takes, Ready, Whole, Yields, Committed
  <2>3. JobIsAt'
    BY <2>1, <2>2 DEF JobIsAt
  <2>. QED
    BY <1>1, <2>1, <2>3, MidStep DEF Outside
<1>3. CASE ~job.backup
  <2>1. job'.pc = "persist" /\ job'.had = job.had
    BY <1>3, FailsGoes DEF RepairInv
  <2>2. backups' = <<>> /\ ~everReady /\ ~Owned' /\ ~Left'
    BY <1>3 DEF BackedUp, Owned, Left
  <2>. QED
    BY <1>1, <2>1, <2>2, EndStep
<1>. QED
  BY <1>2, <1>3 

\* The staging directory: prepared, filled, or lost.
LEMMA StageKeeps ==
  ASSUME RepairInv, UNCHANGED <<who, asked>>,
         StartJob \/ PrepareStage \/ FillStage \/ StageFails \/ StageCancelled
  PROVE  RepairInv'
<1>. USE DEF RepairInv, history
<1>1. CASE StartJob
  <2>1. job'.pc = "begin" /\ job'.had = job.had /\ job'.kind = job.kind /\ job'.backup = job.backup
        /\ PyannoteTypeOK'
    BY <1>1, JobUpdates DEF StartJob, PyannoteTypeOK
  <2>2. JobIsAt'
    BY <1>1, <2>1 DEF StartJob, JobIsAt, Outside, Untouched, ToVerify, Kept, Ready, Whole
  <2>. QED
    BY <1>1, <2>1, <2>2, MidStep DEF StartJob, Outside
<1>2. CASE PrepareStage
  <2>1. job'.pc = "fetch" /\ job'.had = job.had /\ job'.kind = job.kind /\ job'.backup = job.backup
        /\ job' \in JobRecord
    BY <1>2, JobUpdates DEF PrepareStage
  <2>2. stage' \in TreeRecord /\ StageIs(FALSE, TRUE)'
    BY <1>2, PyannoteAssumption DEF PrepareStage, Bare, TreeRecord, StageIs
  <2>3. JobIsAt' /\ PyannoteTypeOK'
    BY <1>2, <2>1, <2>2 DEF PrepareStage, JobIsAt, Outside, Untouched, Kept, Ready, Whole,
         PyannoteTypeOK
  <2>. QED
    BY <1>2, <2>1, <2>3, MidStep DEF PrepareStage, Outside
<1>3. CASE FillStage
  <2>1. job'.pc = "swap" /\ job'.had = job.had /\ job'.kind = job.kind /\ job'.backup = job.backup
        /\ job' \in JobRecord
    BY <1>3, JobUpdates DEF FillStage
  <2>2. stage \in TreeRecord /\ StageIs(FALSE, TRUE) /\ job.kind = "download" /\ Untouched
    BY <1>3 DEF FillStage, JobIsAt, Outside, PyannoteTypeOK
  <2>3. stage' \in TreeRecord /\ StageIs(TRUE, TRUE)'
    BY <1>3, <2>2, PyannoteAssumption DEF FillStage, TreeRecord, StageIs
  <2>4. JobIsAt' /\ PyannoteTypeOK'
    BY <1>3, <2>1, <2>2, <2>3 DEF FillStage, JobIsAt, Staged, Untouched, Kept, Ready, Whole,
         PyannoteTypeOK
  <2>. QED
    BY <1>3, <2>1, <2>4, MidStep DEF FillStage, Outside
<1>4. CASE StageFails
  <2>1. job'.pc = "persist" /\ job'.had = job.had /\ PyannoteTypeOK'
    BY <1>4, JobUpdates DEF StageFails, PyannoteTypeOK
  <2>2. Untouched
    BY <1>4 DEF StageFails, JobIsAt, Outside
  <2>3. backups' = <<>> /\ ~Owned' /\ ~Left' /\ (everReady => Stays')
    BY <1>4, <2>2 DEF StageFails, Untouched, Owned, Left, Stays, Kept, Ready, Whole
  <2>. QED
    BY <1>4, <2>1, <2>3, EndStep DEF StageFails, Outside
<1>5. CASE StageCancelled
  <2>1. job'.pc = "end" /\ job'.had = job.had /\ job'.told = "cancelled" /\ job' \in JobRecord
    BY <1>5, JobUpdates DEF StageCancelled
  <2>2. Untouched /\ (everReady => job.had)
    BY <1>5 DEF StageCancelled, JobIsAt, Outside, Around
  <2>3. tree' \in TreeRecord \cup {None} /\ (tree' # None => ~tree'.owned)
    <3>1. CASE job.had
      BY <1>5, <3>1 DEF StageCancelled, PyannoteTypeOK
    <3>2. Directory(tree) \in TreeRecord /\ ~Directory(tree).owned
      BY DEF Directory, PyannoteTypeOK, Bare, TreeRecord
    <3>3. [Directory(tree) EXCEPT !.status = "bad"] \in TreeRecord
          /\ ~[Directory(tree) EXCEPT !.status = "bad"].owned
      BY <3>2 DEF TreeRecord
    <3>. QED
      BY <1>5, <3>1, <3>3 DEF StageCancelled
  <2>4. PyannoteTypeOK'
    BY <1>5, <2>1, <2>3 DEF StageCancelled, PyannoteTypeOK
  <2>5. backups' = <<>> /\ ~Owned' /\ ~Left' /\ (everReady => Stays')
    BY <1>5, <2>2 DEF StageCancelled, Untouched, Owned, Left, Stays, Kept, Ready, Whole
  <2>. QED
    BY <1>5, <2>1, <2>4, <2>5, EndStep DEF StageCancelled, Outside
<1>. QED
  BY <1>1, <1>2, <1>3, <1>4, <1>5

\* A bundled installation: reset and copied where it is to stand.
LEMMA BundledKeeps ==
  ASSUME RepairInv, UNCHANGED <<who, asked>>,
         BeginBundled \/ Reset
           \/ Copy \/ CopyFails
  PROVE  RepairInv'
<1>. USE DEF RepairInv, history
<1>1. CASE BeginBundled
  <2>1. Untouched /\ stage = None /\ job.kind = "bundled" /\ job.pc \notin Outside /\ (everReady => job.had)
    BY <1>1 DEF BeginBundled, JobIsAt, Outside, Around
  <2>2. job' \in JobRecord /\ job'.had = job.had /\ job'.kind = job.kind /\ job'.backup = job.backup
        /\ PyannoteTypeOK'
    BY <1>1, JobUpdates DEF BeginBundled, PyannoteTypeOK
  <2>3. CASE job'.pc = "persist"
    <3>1. backups' = <<>> /\ ~Owned' /\ ~Left' /\ (everReady => Stays')
      BY <1>1, <2>1 DEF BeginBundled, Untouched, Owned, Left, Stays, Kept, Ready, Whole
    <3>. QED
      BY <1>1, <2>1, <2>2, <2>3, <3>1, EndStep DEF BeginBundled
  <2>4. CASE job'.pc = (IF job.had /\ tree # None THEN "swap" ELSE "reset")
    <3>1. JobIsAt'
      BY <1>1, <2>1, <2>2, <2>4 DEF BeginBundled, JobIsAt, Untouched, BackedUp, Staged, Kept,
           Ready, Whole
    <3>. QED
      BY <1>1, <2>1, <2>2, <2>4, <3>1, MidStep DEF BeginBundled, Outside
  <2>5. job'.pc \in {"persist", IF job.had /\ tree # None THEN "swap" ELSE "reset"}
    BY <1>1, JobUpdates DEF BeginBundled
  <2>. QED
    BY <2>3, <2>4, <2>5
<1>2. CASE Reset
  <2>1. BackedUp /\ stage = None /\ job.kind = "bundled" /\ job.pc \notin Outside
    BY <1>2 DEF Reset, JobIsAt, Outside
  <2>2. job' \in JobRecord /\ job'.pc = "copy" /\ job'.had = job.had /\ job'.kind = job.kind
        /\ job'.backup = job.backup
    BY <1>2, JobUpdates DEF Reset
  <2>3. tree' \in TreeRecord /\ ~tree'.owned /\ ~tree'.whole /\ ~tree'.receipt /\ tree'.pending /\ tree' # None
    BY <1>2, PyannoteAssumption DEF Reset, Bare, TreeRecord
  <2>4. PyannoteTypeOK' /\ JobIsAt'
    BY <1>2, <2>1, <2>2, <2>3 DEF Reset, JobIsAt, BackedUp, Owned, Kept, Ready, Whole,
         PyannoteTypeOK, Pending
  <2>. QED
    BY <1>2, <2>1, <2>2, <2>4, MidStep DEF Reset, Outside
<1>3. CASE Copy
  <2>1. /\ BackedUp /\ stage = None /\ job.kind = "bundled" /\ job.pc \notin Outside
        /\ tree \in TreeRecord /\ ~tree.owned /\ ~tree.receipt /\ Pending
    BY <1>3 DEF Copy, JobIsAt, Outside, PyannoteTypeOK
  <2>2. job' \in JobRecord /\ job'.pc = "validate" /\ job'.had = job.had /\ job'.kind = job.kind
        /\ job'.backup = job.backup
    BY <1>3, JobUpdates DEF Copy
  <2>3. tree' = [tree EXCEPT !.whole = TRUE, !.status = "ok"]
    BY <1>3, <2>1, TreeUpdates DEF Copy
  <2>4. /\ tree' \in TreeRecord /\ ~tree'.owned /\ tree'.whole /\ ~tree'.receipt
        /\ tree'.pending = tree.pending /\ tree'.status = "ok" /\ tree' # None
    BY <2>1, <2>3, PyannoteAssumption DEF TreeRecord
  <2>5. PyannoteTypeOK' /\ BackedUp'
    BY <1>3, <2>1, <2>2, <2>4 DEF Copy, BackedUp, Owned, Kept, Ready, Whole, PyannoteTypeOK
  <2>6. Built(FALSE)'
    BY <1>3, <2>1, <2>4 DEF Copy, Built, Whole, Pending, Committed, Owned
  <2>7. JobIsAt'
    BY <1>3, <2>1, <2>2, <2>5, <2>6 DEF Copy, JobIsAt
  <2>. QED
    BY <1>3, <2>1, <2>2, <2>5, <2>7, MidStep DEF Copy, Outside
<1>4. CASE CopyFails
  <2>1. BackedUp /\ stage = None /\ job.pc \notin Outside
    BY <1>4 DEF CopyFails, JobIsAt, Outside
  <2>2. job.backup => Yields(tree)
    BY <1>4 DEF CopyFails, JobIsAt, Outside, Yields
  <2>3. CASE job.backup
    BY <1>4, <2>1, <2>2, <2>3, FailureKeeps DEF CopyFails
  <2>4. CASE ~job.backup
    <3>1. job'.pc = "persist" /\ job'.had = job.had /\ PyannoteTypeOK'
      BY <1>4, <2>4, FailsGoes DEF CopyFails, PyannoteTypeOK
    <3>2. backups' = <<>> /\ ~Owned' /\ ~Left' /\ ~everReady
      BY <1>4, <2>1, <2>4 DEF CopyFails, BackedUp, Owned, Left
    <3>. QED
      BY <1>4, <2>1, <3>1, <3>2, EndStep DEF CopyFails
  <2>. QED
    BY <2>3, <2>4
<1>. QED
  BY <1>1, <1>2, <1>3, <1>4

\* What was there is moved to a backup and the backup marked, or moved back.
LEMMA MovingKeeps ==
  ASSUME RepairInv, UNCHANGED <<who, asked>>,
         (MoveToBackup /\ ~crossed') \/ MarkBackup
           \/ (MarkFails /\ (Takes("faults") \/ Foreign = {}))
  PROVE  RepairInv'
<1>. USE DEF RepairInv, history
<1>1. CASE MoveToBackup /\ ~crossed'
  <2>1. /\ Untouched /\ job.kind # "verify" /\ Staged /\ job.pc \notin Outside
        /\ (job.kind = "bundled" => tree # None) /\ job.kind \in {"download", "bundled", "verify"}
    BY <1>1 DEF MoveToBackup, JobIsAt, Outside, PyannoteTypeOK, JobRecord
  <2>2. CASE tree = None
    <3>1. job'.pc = "unmark" /\ job'.had = job.had /\ job'.kind = job.kind /\ job'.backup = job.backup
          /\ PyannoteTypeOK'
      BY <1>1, <2>2, JobUpdates DEF MoveToBackup, PyannoteTypeOK
    <3>2. JobIsAt'
      BY <1>1, <2>1, <2>2, <3>1 DEF MoveToBackup, JobIsAt, Untouched, BackedUp, Staged, StageIs,
           Kept,
           Ready, Whole
    <3>. QED
      BY <1>1, <2>1, <2>2, <3>1, <3>2, MidStep DEF MoveToBackup, Outside
  <2>3. CASE tree # None
    <3>0. load.pc = "off"
      BY <1>1, <2>3 DEF MoveToBackup
    <3>1. /\ job' \in JobRecord /\ job'.pc = "mark" /\ job'.had = job.had /\ job'.kind = job.kind
          /\ job'.backup = job.backup
      BY <1>1, <2>3, JobUpdates DEF MoveToBackup
    <3>2. backups = <<>> /\ Len(backups) = 0 /\ MaxBackups > 0
      BY <1>1, <2>1, <2>3, PyannoteAssumption DEF Untouched, MoveToBackup
    <3>3. backups' = <<tree>> /\ tree' = None /\ tree \in TreeRecord /\ ~tree.owned
      BY <1>1, <2>3, <3>2 DEF MoveToBackup, PyannoteTypeOK
    <3>4. backups' # <<>> /\ backups'[1] = tree /\ backups' = <<backups'[1]>>
      BY <3>3
    <3>5. PyannoteTypeOK' /\ Left' /\ Kept(backups[1])'
      BY <1>1, <2>1, <3>1, <3>2, <3>3, <3>4 DEF MoveToBackup, PyannoteTypeOK, Left, Kept,
           Untouched, Ready, Whole
    <3>6. JobIsAt'
      BY <1>1, <2>1, <3>1, <3>3, <3>5 DEF MoveToBackup, JobIsAt, Untouched, Staged, StageIs
    <3>. QED
      BY <1>1, <2>1, <3>0, <3>1, <3>5, <3>6, MidStep DEF MoveToBackup, Outside
  <2>. QED
    BY <2>2, <2>3
<1>2. CASE MarkBackup
  <2>1. /\ ~job.backup /\ job.kind # "verify" /\ Staged /\ tree = None /\ Left /\ Kept(backups[1])
        /\ job.pc \notin Outside /\ job \in JobRecord
    BY <1>2 DEF MarkBackup, JobIsAt, Outside, PyannoteTypeOK
  <2>2. /\ job' \in JobRecord /\ job'.had = job.had /\ job'.kind = job.kind /\ job'.backup
        /\ job'.pc = IF job.kind = "bundled" THEN "reset" ELSE "unmark"
    BY <1>2, <2>1 DEF MarkBackup, JobRecord
  <2>3. backups = <<backups[1]>> /\ backups[1] \in TreeRecord /\ MaxBackups > 0
    BY <2>1 DEF Left, PyannoteTypeOK
  <2>4. backups' = [backups EXCEPT ![1].owned = TRUE]
    BY <1>2, <2>1, OneBackup DEF MarkBackup
  <2>5. backups' = <<[backups[1] EXCEPT !.owned = TRUE]>>
    <3>. DEFINE b == backups[1]
                marked == [backups[1] EXCEPT !.owned = TRUE]
    <3>1. backups' = [backups EXCEPT ![1] = marked]
      BY <2>4
    <3>2. backups = <<b>>
      BY <2>3
    <3>. HIDE DEF marked, b
    <3>3. backups = [i \in 1 .. 1 |-> b]
      BY <3>2
    <3>4. <<marked>> = [i \in 1 .. 1 |-> marked]
      OBVIOUS
    <3>5. backups' = [i \in 1 .. 1 |-> marked]
      <4>1. DOMAIN backups = 1 .. 1 /\ \A i \in 1 .. 1 : i = 1
        BY <3>3
      <4>2. DOMAIN backups' = 1 .. 1 /\ \A i \in 1 .. 1 : backups'[i] = marked
        BY <3>1, <4>1
      <4>3. backups' = [i \in DOMAIN backups' |-> backups'[i]]
        BY <3>1
      <4>. QED
        BY <4>2, <4>3
    <3>. QED
      BY <3>4, <3>5 DEF marked
  <2>6. /\ backups' # <<>> /\ backups' = <<backups'[1]>> /\ backups'[1] \in TreeRecord
        /\ backups'[1] = [backups[1] EXCEPT !.owned = TRUE]
    BY <2>3, <2>5 DEF TreeRecord
  <2>7. /\ backups'[1].owned /\ backups'[1].whole = backups[1].whole
        /\ backups'[1].receipt = backups[1].receipt /\ backups'[1].status = backups[1].status
    BY <2>3, <2>6 DEF TreeRecord
  <2>8. Ready(backups[1]) => Ready(backups'[1])
    BY <2>3, <2>6, <2>7, PyannoteAssumption DEF Ready, Whole
  <2>9. PyannoteTypeOK'
    BY <1>2, <2>2, <2>3, <2>6 DEF MarkBackup, PyannoteTypeOK
  <2>10. BackedUp'
    BY <1>2, <2>1, <2>2, <2>6, <2>7, <2>8 DEF MarkBackup, BackedUp, Owned, Kept
  <2>11. tree' = None /\ stage' = stage
    BY <1>2, <2>1 DEF MarkBackup
  <2>12. ASSUME job.kind = "bundled" PROVE JobIsAt'
    <3>1. stage' = None /\ job'.pc = "reset"
      BY <2>1, <2>2, <2>11, <2>12 DEF Staged
    <3>2. job'.kind = "bundled"
      BY <2>2, <2>12
    <3>. QED
      BY <2>10, <2>11, <3>1, <3>2 DEF JobIsAt
  <2>13. ASSUME job.kind = "download" PROVE JobIsAt'
    <3>1. StageIs(TRUE, TRUE)' /\ job'.pc = "unmark"
      BY <2>1, <2>2, <2>11, <2>13 DEF Staged, StageIs
    <3>2. job'.kind = "download"
      BY <2>2, <2>13
    <3>. QED
      BY <2>10, <2>11, <3>1, <3>2 DEF JobIsAt
  <2>14. job.kind \in {"download", "bundled", "verify"}
    BY <2>1 DEF JobRecord
  <2>15. JobIsAt'
    BY <2>1, <2>12, <2>13, <2>14
  <2>. QED
    BY <1>2, <2>1, <2>2, <2>9, <2>15, MidStep DEF MarkBackup, Outside
<1>3. CASE MarkFails /\ (Takes("faults") \/ Foreign = {})
  <2>1. /\ ~job.backup /\ tree = None /\ Left /\ Kept(backups[1])
        /\ job.pc \notin Outside /\ job \in JobRecord /\ load.pc = "off"
    BY <1>3 DEF MarkFails, JobIsAt, Outside, PyannoteTypeOK, Around
  <2>2. job' \in JobRecord /\ job'.pc = "persist" /\ job'.had = job.had
    BY <1>3, JobUpdates DEF MarkFails
  <2>3. backups = <<backups[1]>> /\ backups[1] \in TreeRecord /\ ~backups[1].owned
    BY <2>1 DEF Left, PyannoteTypeOK
  <2>4. CASE tree' = backups[1] /\ backups' = <<>>
    <3>1. PyannoteTypeOK'
      BY <1>3, <2>2, <2>3, <2>4 DEF MarkFails, PyannoteTypeOK
    <3>2. ~Owned' /\ ~Left' /\ (everReady => Stays')
      BY <1>3, <2>1, <2>4 DEF MarkFails, Owned, Left, Stays, Kept, Ready, Whole
    <3>. QED
      BY <1>3, <2>1, <2>2, <2>4, <3>1, <3>2, EndStep DEF MarkFails
  <2>5. CASE UNCHANGED <<tree, backups>>
    <3>1. PyannoteTypeOK'
      BY <1>3, <2>2, <2>5 DEF MarkFails, PyannoteTypeOK
    <3>0. Takes("faults")
      BY <1>3, <2>1, OneBackup
    <3>2. ~Owned' /\ tree' = None /\ (everReady => LeftIsReady')
      BY <1>3, <2>1, <2>5 DEF MarkFails, Owned, Left, LeftIsReady, Kept, Ready, Whole
    <3>. QED
      BY <1>3, <2>1, <2>2, <2>5, <3>0, <3>1, <3>2, EndStep DEF MarkFails
  <2>. QED
    BY <1>3, <2>1, <2>4, <2>5, OneBackup DEF MarkFails, Left
<1>. QED
  BY <1>1, <1>2, <1>3

\* The stage takes its place, or it does not.
LEMMA PublishingKeeps ==
  ASSUME RepairInv, UNCHANGED <<who, asked>>,
         UnmarkStage \/ PublishTree
           \/ PublishTreeFails
  PROVE  RepairInv'
<1>. USE DEF RepairInv, history
<1>1. CASE UnmarkStage
  <2>1. BackedUp /\ job.kind = "download" /\ StageIs(TRUE, TRUE) /\ job.pc \notin Outside
    BY <1>1 DEF UnmarkStage, JobIsAt, Outside
  <2>2. /\ job' \in JobRecord /\ job'.pc = "publish" /\ job'.had = job.had /\ job'.kind = job.kind
        /\ job'.backup = job.backup
    BY <1>1, JobUpdates DEF UnmarkStage
  <2>3. stage \in TreeRecord /\ stage' = [stage EXCEPT !.owned = FALSE] /\ tree' = None
    BY <1>1, <2>1 DEF UnmarkStage, StageIs, PyannoteTypeOK
  <2>4. stage' \in TreeRecord /\ StageIs(TRUE, FALSE)'
    BY <2>1, <2>3, PyannoteAssumption DEF StageIs, TreeRecord
  <2>5. PyannoteTypeOK' /\ BackedUp'
    BY <1>1, <2>1, <2>2, <2>3, <2>4 DEF UnmarkStage, BackedUp, Owned, Kept, Ready, Whole,
         PyannoteTypeOK
  <2>6. JobIsAt'
    BY <1>1, <2>1, <2>2, <2>3, <2>4, <2>5 DEF UnmarkStage, JobIsAt
  <2>. QED
    BY <1>1, <2>1, <2>2, <2>5, <2>6, MidStep DEF UnmarkStage, Outside
<1>2. CASE PublishTree
  <2>1. BackedUp /\ job.kind = "download" /\ StageIs(TRUE, FALSE) /\ job.pc \notin Outside
    BY <1>2 DEF PublishTree, JobIsAt, Outside
  <2>2. /\ job' \in JobRecord /\ job'.pc = "validate" /\ job'.had = job.had /\ job'.kind = job.kind
        /\ job'.backup = job.backup
    BY <1>2, JobUpdates DEF PublishTree
  <2>3. tree' = stage /\ stage' = None /\ stage \in TreeRecord /\ ~stage.owned
    BY <1>2, <2>1 DEF PublishTree, StageIs, PyannoteTypeOK
  <2>4. Built(FALSE)'
    BY <2>1, <2>3 DEF StageIs, Built, Whole, Pending
  <2>5. PyannoteTypeOK' /\ BackedUp'
    BY <1>2, <2>1, <2>2, <2>3 DEF PublishTree, BackedUp, Owned, Kept, Ready, Whole, PyannoteTypeOK
  <2>6. JobIsAt'
    BY <2>1, <2>2, <2>3, <2>4, <2>5 DEF JobIsAt
  <2>. QED
    BY <1>2, <2>1, <2>2, <2>5, <2>6, MidStep DEF PublishTree, Outside
<1>3. CASE PublishTreeFails
  <2>1. BackedUp /\ tree = None /\ job.pc \notin Outside
    BY <1>3 DEF PublishTreeFails, JobIsAt, Outside
  <2>. QED
    BY <1>3, <2>1, FailureKeeps DEF PublishTreeFails, Yields
<1>. QED
  BY <1>1, <1>2, <1>3

\* What is there is validated and probed.
LEMMA ProbingKeeps ==
  ASSUME RepairInv, UNCHANGED <<who, asked>>,
         Validate \/ ProbeTree \/ NotValid \/ NotVerified
  PROVE  RepairInv'
<1>. USE DEF RepairInv, history
<1>1. CASE Validate
  <2>1. /\ stage = None /\ job.pc \notin Outside
        /\ IF job.kind = "verify" THEN ToVerify ELSE BackedUp /\ Built(FALSE)
    BY <1>1 DEF Validate, JobIsAt, Outside
  <2>2. /\ job'.pc = "probe" /\ job'.had = job.had /\ job'.kind = job.kind
        /\ job'.backup = job.backup /\ PyannoteTypeOK'
    BY <1>1, JobUpdates DEF Validate, PyannoteTypeOK
  <2>3. JobIsAt'
    BY <1>1, <2>1, <2>2 DEF Validate, JobIsAt, ToVerify, Untouched, BackedUp, Built, Owned, Kept,
         Ready, Whole, Pending, Committed
  <2>. QED
    BY <1>1, <2>1, <2>2, <2>3, MidStep DEF Validate, Outside
<1>2. CASE ProbeTree
  <2>1. /\ stage = None /\ job.pc \notin Outside
        /\ IF job.kind = "verify" THEN ToVerify ELSE BackedUp /\ Built(FALSE)
    BY <1>2 DEF ProbeTree, JobIsAt, Outside
  <2>2. /\ job'.pc = "receipt" /\ job'.had = job.had /\ job'.kind = job.kind
        /\ job'.backup = job.backup /\ PyannoteTypeOK'
    BY <1>2, JobUpdates DEF ProbeTree, PyannoteTypeOK
  <2>3. JobIsAt'
    BY <1>2, <2>1, <2>2 DEF ProbeTree, JobIsAt, ToVerify, Untouched, BackedUp, Built, Owned,
         Kept, Ready, Whole, Pending, Committed
  <2>. QED
    BY <1>2, <2>1, <2>2, <2>3, MidStep DEF ProbeTree, Outside
<1>3. CASE NotValid
  <2>1. stage = None /\ job.pc \notin Outside /\ BackedUp /\ Built(FALSE)
    BY <1>3 DEF NotValid, JobIsAt, Outside
  <2>2. job.backup => bared \/ Yields(tree)
    BY <2>1 DEF Built, Pending, BackedUp, Yields, Committed
  <2>. QED
    BY <1>3, <2>1, <2>2, FailureKeeps DEF NotValid
<1>4. CASE NotVerified
  <2>1. ToVerify /\ stage = None /\ job.pc \notin Outside /\ tree \in TreeRecord /\ ~tree.owned
    BY <1>4 DEF NotVerified, JobIsAt, Outside, ToVerify, Whole, PyannoteTypeOK
  <2>2. job' \in JobRecord /\ job'.pc = "end" /\ job'.told \in {"error", "cancelled"} /\ job'.had = job.had
    BY <1>4, JobUpdates DEF NotVerified
  <2>3. tree' = tree \/ \E s \in {"bad", "failed probe"} : tree' = [tree EXCEPT !.status = s]
    BY <1>4, <2>1, TreeUpdates DEF NotVerified
  <2>4. tree' \in TreeRecord /\ ~tree'.owned
    BY <2>1, <2>3 DEF TreeRecord
  <2>5. PyannoteTypeOK'
    BY <1>4, <2>2, <2>4 DEF NotVerified, PyannoteTypeOK
  <2>6. backups' = <<>> /\ ~Owned' /\ ~Left' /\ ~everReady
    BY <1>4, <2>1 DEF NotVerified, ToVerify, Untouched, Owned, Left
  <2>. QED
    BY <1>4, <2>1, <2>2, <2>5, <2>6, EndStep DEF NotVerified
<1>. QED
  BY <1>1, <1>2, <1>3, <1>4

\* The receipt and the status that make it ready.
LEMMA WritingKeeps ==
  ASSUME RepairInv, UNCHANGED <<who, asked>>,
         WriteReceipt \/ WriteStatus
           \/ (NotWritten /\ Takes("faults"))
  PROVE  RepairInv'
<1>. USE DEF RepairInv, history
<1>1. CASE WriteReceipt
  <2>1. /\ stage = None /\ job.pc \notin Outside
        /\ IF job.kind = "verify" THEN ToVerify ELSE BackedUp /\ Built(FALSE)
    BY <1>1 DEF WriteReceipt, JobIsAt, Outside
  <2>2. /\ job' \in JobRecord /\ job'.pc = "status" /\ job'.had = job.had /\ job'.kind = job.kind
        /\ job'.backup = job.backup
    BY <1>1, JobUpdates DEF WriteReceipt
  <2>3. tree \in TreeRecord /\ ~tree.owned
    BY <2>1 DEF ToVerify, Built, Whole, PyannoteTypeOK
  <2>4. tree' = [tree EXCEPT !.receipt = TRUE]
    BY <1>1, <2>3, TreeUpdates DEF WriteReceipt
  <2>5. /\ tree' \in TreeRecord /\ tree' # None /\ ~tree'.owned /\ tree'.receipt /\ tree'.whole = tree.whole
        /\ tree'.pending = tree.pending /\ tree'.status = tree.status
    BY <2>3, <2>4, PyannoteAssumption DEF TreeRecord
  <2>6. PyannoteTypeOK'
    BY <1>1, <2>2, <2>5 DEF WriteReceipt, PyannoteTypeOK
  <2>7. ASSUME job.kind = "verify" PROVE JobIsAt'
    <3>1. (ToVerify /\ tree.receipt)' /\ stage' = None
      BY <1>1, <2>1, <2>2, <2>5, <2>7 DEF WriteReceipt, ToVerify, Untouched, Whole, Kept
    <3>. QED
      BY <2>2, <2>7, <3>1 DEF JobIsAt
  <2>8. ASSUME job.kind # "verify" PROVE JobIsAt'
    <3>1. BackedUp' /\ Built(TRUE)' /\ stage' = None
      BY <1>1, <2>1, <2>2, <2>5, <2>8 DEF WriteReceipt, BackedUp, Built, Owned, Kept, Ready,
           Whole, Pending, Committed
    <3>. QED
      BY <2>2, <2>8, <3>1 DEF JobIsAt
  <2>. QED
    BY <1>1, <2>1, <2>2, <2>6, <2>7, <2>8, MidStep DEF WriteReceipt, Outside
<1>2. CASE WriteStatus
  <2>1. /\ stage = None /\ job.pc \notin Outside /\ Whole(tree) /\ tree.receipt
        /\ IF job.kind = "verify" THEN ToVerify ELSE BackedUp
    BY <1>2 DEF WriteStatus, JobIsAt, Outside, ToVerify, Built
  <2>2. tree \in TreeRecord /\ ~tree.owned /\ tree.whole
    BY <2>1 DEF Whole, PyannoteTypeOK
  <2>3. tree' = [tree EXCEPT !.status = "ok"]
    BY <1>2, <2>2, TreeUpdates DEF WriteStatus
  <2>4. /\ tree' \in TreeRecord /\ tree' # None /\ ~tree'.owned /\ tree'.receipt /\ tree'.whole
        /\ tree'.status = "ok"
    BY <2>1, <2>2, <2>3, PyannoteAssumption DEF TreeRecord
  <2>5. Ready(tree') /\ Committed(tree')
    BY <2>4 DEF Ready, Committed, Whole
  <2>6. CASE job.kind = "verify"
    <3>1. job' \in JobRecord /\ job'.pc = "end" /\ job'.had = job.had
      BY <1>2, <2>6, JobUpdates DEF WriteStatus
    <3>2. PyannoteTypeOK'
      BY <1>2, <2>4, <3>1 DEF WriteStatus, PyannoteTypeOK
    <3>3. backups' = <<>> /\ ~Owned' /\ ~Left' /\ ~everReady
      BY <1>2, <2>1, <2>6 DEF WriteStatus, ToVerify, Untouched, Owned, Left
    <3>. QED
      BY <1>2, <2>1, <2>5, <3>1, <3>2, <3>3, EndStep DEF WriteStatus
  <2>7. CASE job.kind # "verify"
    <3>1. /\ job' \in JobRecord /\ job'.pc = "finalize" /\ job'.had = job.had /\ job'.kind = job.kind
          /\ job'.backup = job.backup
      BY <1>2, <2>7, JobUpdates DEF WriteStatus
    <3>2. PyannoteTypeOK' /\ BackedUp' /\ stage' = None
      BY <1>2, <2>1, <2>4, <2>7, <3>1 DEF WriteStatus, BackedUp, Owned, Kept, Ready, Whole,
           PyannoteTypeOK
    <3>3. JobIsAt'
      BY <2>5, <2>7, <3>1, <3>2 DEF JobIsAt
    <3>. QED
      BY <1>2, <2>1, <3>1, <3>2, <3>3, MidStep DEF WriteStatus, Outside
  <2>. QED
    BY <2>6, <2>7
<1>3. CASE NotWritten /\ Takes("faults")
  <2>1. /\ stage = None /\ job.pc \notin Outside
        /\ IF job.kind = "verify" THEN ToVerify ELSE BackedUp
    BY <1>3 DEF NotWritten, JobIsAt, Outside
  <2>2. CASE job.kind # "verify"
    BY <1>3, <2>1, <2>2, FailureKeeps DEF NotWritten, Fits
  <2>3. CASE job.kind = "verify"
    <3>1. ToVerify /\ tree \in TreeRecord /\ ~tree.owned
      BY <2>1, <2>3 DEF ToVerify, Whole, PyannoteTypeOK
    <3>2. job' \in JobRecord /\ job'.pc = "end" /\ job'.told = "error" /\ job'.had = job.had
      BY <1>3, <2>3, JobUpdates DEF NotWritten
    <3>3. tree' = tree \/ tree' = [tree EXCEPT !.status = "bad"]
      BY <1>3, <2>3, <3>1, TreeUpdates DEF NotWritten
    <3>4. tree' \in TreeRecord /\ ~tree'.owned
      BY <3>1, <3>3 DEF TreeRecord
    <3>5. PyannoteTypeOK'
      BY <1>3, <3>2, <3>4 DEF NotWritten, PyannoteTypeOK
    <3>6. backups' = <<>> /\ ~Owned' /\ ~Left' /\ ~everReady
      BY <1>3, <3>1 DEF NotWritten, ToVerify, Untouched, Owned, Left
    <3>. QED
      BY <1>3, <2>1, <3>2, <3>5, <3>6, EndStep DEF NotWritten
  <2>. QED
    BY <2>2, <2>3
<1>. QED
  BY <1>1, <1>2, <1>3

\* The end of the transaction: the mark goes, then the backup, as far as they do.
LEMMA FinalizingKeeps ==
  ASSUME RepairInv, UNCHANGED <<who, asked>>,
         Finalize \/ DropBackup
           \/ (NotFinalized /\ Takes("faults"))
  PROVE  RepairInv'
<1>. USE DEF RepairInv, history
<1>1. /\ BackedUp /\ job.kind # "verify" /\ stage = None /\ Ready(tree) /\ Committed(tree)
      /\ job.pc \notin Outside
  BY DEF Finalize, DropBackup, NotFinalized, JobIsAt, Outside
<1>2. tree \in TreeRecord /\ ~tree.owned
  BY <1>1 DEF Ready, Whole, PyannoteTypeOK
<1>3. CASE Finalize
  <2>1. /\ job' \in JobRecord /\ job'.pc = "drop" /\ job'.had = job.had /\ job'.kind = job.kind
        /\ job'.backup = job.backup
    BY <1>3, JobUpdates DEF Finalize
  <2>2. tree' = [tree EXCEPT !.pending = FALSE]
    BY <1>2, <1>3, PyannoteAssumption DEF Finalize
  <2>3. /\ tree' \in TreeRecord /\ tree' # None /\ ~tree'.owned /\ tree'.whole = tree.whole
        /\ tree'.receipt = tree.receipt /\ tree'.status = tree.status
    BY <1>2, <2>2, PyannoteAssumption DEF TreeRecord
  <2>4. Ready(tree') /\ Committed(tree')
    BY <1>1, <2>3 DEF Ready, Committed, Whole
  <2>5. PyannoteTypeOK' /\ BackedUp' /\ stage' = None
    BY <1>1, <1>3, <2>1, <2>3 DEF Finalize, BackedUp, Owned, Kept, Ready, Whole, PyannoteTypeOK
  <2>6. JobIsAt'
    BY <1>1, <2>1, <2>4, <2>5 DEF JobIsAt
  <2>. QED
    BY <1>1, <1>3, <2>1, <2>5, <2>6, MidStep DEF Finalize, Outside
<1>4. CASE DropBackup
  <2>1. job' \in JobRecord /\ job'.pc = "end" /\ job'.had = job.had
    BY <1>4, JobUpdates DEF DropBackup
  <2>2. backups' = <<>>
    BY <1>1, <1>4, OneBackup DEF DropBackup, BackedUp, Owned
  <2>3. PyannoteTypeOK' /\ ~Owned' /\ ~Left' /\ stage' = None /\ tree' = tree
    BY <1>1, <1>4, <2>1, <2>2 DEF DropBackup, PyannoteTypeOK, Owned, Left
  <2>4. Ready(tree') /\ Stays'
    BY <1>1, <2>3 DEF Stays, Ready, Whole
  <2>. QED
    BY <1>1, <1>4, <2>1, <2>2, <2>3, <2>4, EndStep DEF DropBackup
<1>5. CASE NotFinalized /\ Takes("faults")
  <2>1. job' \in JobRecord /\ job'.pc = "end" /\ job'.had = job.had
    BY <1>5, JobUpdates DEF NotFinalized
  <2>2. PyannoteTypeOK' /\ ~Left' /\ stage' = None /\ tree' = tree
    BY <1>1, <1>5, <2>1 DEF NotFinalized, PyannoteTypeOK, Left, BackedUp, Owned
  <2>3. Ready(tree') /\ Stays'
    BY <1>1, <2>2 DEF Stays, Ready, Whole
  <2>. QED
    BY <1>1, <1>5, <2>1, <2>2, <2>3, EndStep DEF NotFinalized
<1>. QED
  BY <1>3, <1>4, <1>5

\* A swap is undone, as far as that goes.
LEMMA RestoringKeeps ==
  ASSUME RepairInv, UNCHANGED <<who, asked>>,
         Rollback \/ RestoreBackup
           \/ /\ NotRestored
              /\ Takes("faults") \/ (job.pc = "restore" /\ (Mine = {} \/ tree # None))
  PROVE  RepairInv'
<1>. USE DEF RepairInv, history
<1>1. BackedUp /\ job.backup /\ stage = None /\ job.pc \notin Outside
  BY DEF Rollback, RestoreBackup, NotRestored, JobIsAt, Outside
<1>2. Owned /\ Kept(backups[1]) /\ backups[1] \in TreeRecord
  BY <1>1 DEF BackedUp, Owned, PyannoteTypeOK
<1>3. CASE Rollback
  <2>1. /\ job' \in JobRecord /\ job'.pc = "restore" /\ job'.had = job.had
        /\ job'.backup = job.backup
    BY <1>3, JobUpdates DEF Rollback
  <2>2. PyannoteTypeOK' /\ BackedUp' /\ stage' = None /\ tree' = None
    BY <1>1, <1>3, <2>1 DEF Rollback, BackedUp, Owned, Kept, Ready, Whole, PyannoteTypeOK
  <2>3. JobIsAt'
    BY <1>1, <2>1, <2>2 DEF JobIsAt
  <2>. QED
    BY <1>1, <1>3, <2>1, <2>2, <2>3, MidStep DEF Rollback, Outside
<1>4. CASE RestoreBackup
  <2>1. job' \in JobRecord /\ job'.pc = "persist" /\ job'.had = job.had
    BY <1>4, JobUpdates DEF RestoreBackup
  <2>2. tree' = Unmarked(backups[1]) /\ backups' = <<>> /\ stage' = None
    BY <1>1, <1>2, <1>4, OneBackup DEF RestoreBackup, Owned
  <2>3. /\ tree' \in TreeRecord /\ tree' # None /\ ~tree'.owned /\ tree'.whole = backups[1].whole
        /\ tree'.receipt = backups[1].receipt /\ tree'.status = backups[1].status
    BY <1>2, <2>2, PyannoteAssumption DEF Unmarked, TreeRecord
  <2>4. PyannoteTypeOK' /\ ~Owned' /\ ~Left'
    BY <1>4, <2>1, <2>2, <2>3 DEF RestoreBackup, PyannoteTypeOK, Owned, Left
  <2>5. everReady => Stays'
    BY <1>2, <2>3, <2>4 DEF Kept, Stays, Ready, Whole
  <2>. QED
    BY <1>1, <1>4, <2>1, <2>2, <2>4, <2>5, EndStep DEF RestoreBackup
<1>5. CASE /\ NotRestored
           /\ Takes("faults") \/ (job.pc = "restore" /\ (Mine = {} \/ tree # None))
  <2>0. Takes("faults")
    BY <1>1, <1>2, <1>5, OneBackup DEF JobIsAt, Outside
  <2>1. job' \in JobRecord /\ job'.pc = "persist" /\ job'.had = job.had
    BY <1>5, JobUpdates DEF NotRestored
  <2>2. PyannoteTypeOK' /\ ~Left' /\ stage' = None
    BY <1>1, <1>2, <1>5, <2>1 DEF NotRestored, PyannoteTypeOK, Left, Owned
  <2>3. everReady => OwnedIsReady'
    BY <1>2, <1>5 DEF NotRestored, Kept, OwnedIsReady, Owned, Ready, Whole
  <2>. QED
    BY <1>1, <1>5, <2>0, <2>1, <2>2, <2>3, EndStep DEF NotRestored
<1>. QED
  BY <1>3, <1>4, <1>5

\* A request decides on what it finds; it is refused, or ends.
LEMMA RequestStartsOver ==
  ASSUME RepairInv, Ask, ~crossed', Takes("once") => asked = 0, asked' = 1, who' = who
  PROVE  RepairInv'
<1>. USE DEF RepairInv, history
<1>1. job.pc = "idle" /\ load.pc \notin {"evict", "adopt"} /\ loaded /\ Over
  BY DEF Ask, Outside
<1>2. backups = <<>>
  BY <1>1 DEF Over, Around, Fits
<1>3. stage = None
  BY <1>1 DEF Over, Fits
<1>4. Kept(tree)
  BY <1>1, <1>2 DEF Over, Recoverable, Owned, Left, OwnedIsReady, LeftIsReady, Stays, Kept,
       PyannoteTypeOK, LoadRecord
<1>5. PICK force \in BOOLEAN, kind \in {"download", "bundled", "verify"} :
        /\ Ready(tree) => force
        /\ kind = "verify" => ~force /\ Whole(tree)
        /\ job' = [NoJob EXCEPT !.pc = "asked", !.kind = kind, !.had = Whole(tree)]
  BY DEF Ask
<1>6. Whole(tree) \in BOOLEAN
  BY DEF Whole, PyannoteTypeOK, TreeRecord
<1>7. /\ job' \in JobRecord /\ job'.pc = "asked" /\ job'.kind = kind /\ ~job'.backup
      /\ job'.had = Whole(tree)
  BY <1>5, <1>6 DEF NoJob, JobRecord
<1>8. UNCHANGED <<tree, backups, stage, load, loaded, everReady>>
  BY DEF Ask
<1>9. PyannoteTypeOK'
  BY <1>7, <1>8 DEF PyannoteTypeOK
<1>10. Untouched'
  BY <1>2, <1>4, <1>7, <1>8 DEF Untouched, Kept, Ready, Whole
<1>11. kind = "verify" => ToVerify'
  BY <1>4, <1>5, <1>8, <1>10 DEF ToVerify, Kept, Whole
<1>12. JobIsAt'
  BY <1>3, <1>7, <1>8, <1>10, <1>11 DEF JobIsAt
<1>13. everReady' => job'.had
  BY <1>4, <1>7, <1>8 DEF Kept, Ready
<1>14. Fits' /\ Around'
  BY <1>1, <1>7, <1>8, <1>13 DEF Fits, Around, Takes
<1>. QED
  BY <1>7, <1>9, <1>12, <1>14 DEF Outside

\* A request that is refused, a failure that is diagnosed, an installation that ends.
LEMMA RequestEnds ==
  ASSUME RepairInv, UNCHANGED <<who, asked>>, Busy \/ PersistFailure \/ EndJob
  PROVE  RepairInv'
<1>. USE DEF RepairInv, history
<1>0. NoJob \in JobRecord /\ NoJob.pc = "idle" /\ job \in JobRecord
  BY DEF NoJob, JobRecord, PyannoteTypeOK
<1>1. CASE Busy
  <2>1. /\ job'.pc = "idle" /\ job' \in JobRecord
        /\ UNCHANGED <<tree, backups, stage, load, loaded, everReady>>
    BY <1>0, <1>1 DEF Busy
  <2>2. Untouched /\ stage = None /\ job.pc = "asked" /\ load.pc \notin {"evict", "adopt"}
    BY <1>1 DEF Busy, JobIsAt, Outside, Around
  <2>3. PyannoteTypeOK' /\ Fits' /\ Around'
    BY <2>1, <2>2 DEF PyannoteTypeOK, Fits, Around, Takes, Outside
  <2>4. everReady => Stays
    BY <2>2 DEF Untouched, Kept, Stays, Left
  <2>5. Recoverable'
    BY <2>1, <2>2, <2>4 DEF Recoverable, Stays, Ready, Whole, Committed, Left, Untouched, PyannoteTypeOK, LoadRecord
  <2>6. Over'
    BY <2>1, <2>2, <2>5 DEF Over, Owned, Left, Untouched
  <2>. QED
    BY <2>1, <2>3, <2>6 DEF Outside
<1>2. CASE PersistFailure
  <2>1. /\ job' \in JobRecord /\ job'.pc = "end" /\ job'.told = "error"
        /\ UNCHANGED <<load, loaded, everReady>> /\ job.pc = "persist"
    BY <1>2, JobUpdates DEF PersistFailure
  <2>2. Over /\ stage = None /\ (everReady => job.had)
    BY <1>2 DEF PersistFailure, Over, Outside
  <2>3. Fits' /\ Around'
    BY <2>1 DEF Fits, Around, Takes, Outside
  <2>4. CASE job.had
    <3>1. tree' = Directory(tree) /\ UNCHANGED <<backups, stage>>
      BY <1>2, <2>4 DEF PersistFailure
    <3>2. tree' = IF tree = None THEN Bare ELSE tree
      BY <3>1 DEF Directory
    <3>3. Bare \in TreeRecord /\ ~Bare.owned /\ ~Bare.whole
      BY DEF Bare, TreeRecord
    <3>4. PyannoteTypeOK'
      BY <2>1, <3>1, <3>2, <3>3 DEF PyannoteTypeOK
    <3>5. (tree = None /\ tree' = Bare /\ ~Ready(tree) /\ ~Whole(tree')) \/ tree' = tree
      BY <3>2, <3>3 DEF Whole, Ready
    <3>6. Recoverable'
      <4>1. CASE tree' = tree
        BY <2>1, <2>2, <3>1, <4>1 DEF Over, Recoverable, Stays, OwnedIsReady, LeftIsReady, Ready,
             Whole, Committed,
             Left, Owned, Yields, Kept, Wiped, Takes
      <4>2. CASE tree = None /\ tree' = Bare /\ ~Ready(tree) /\ ~Whole(tree')
        <5>1. Yields(tree')
          BY <3>3, <4>2 DEF Yields
        <5>2. everReady => OwnedIsReady \/ LeftIsReady
          BY <2>2, <4>2 DEF Over, Recoverable, Stays, LeftIsReady, Kept, Wiped, Around,
               PyannoteTypeOK, LoadRecord, Whole
        <5>3. everReady' => OwnedIsReady' \/ LeftIsReady'
          BY <2>1, <3>1, <5>2 DEF OwnedIsReady, LeftIsReady, Owned, Left, Ready, Whole
        <5>4. /\ load.pc = "clean" /\ everReady => OwnedIsReady
              /\ load.pc \in {"evict", "adopt"} => load.from = "backup" /\ Takes("faults")
          BY <2>1, <2>2, <4>2 DEF Over, Recoverable, Stays, Around, Left, Wiped, Whole
        <5>5. Wiped => Wiped'
          BY <2>1, <3>1, <4>2 DEF Wiped, Takes
        <5>6. load.pc \in {"evict", "adopt"} =>
                load.which = 1 /\ ((Left' /\ backups'[1].whole /\ Kept(backups[1])') \/ Wiped')
          BY <2>1, <2>2, <3>1, <5>4, <5>5 DEF Over, Recoverable, Left, Kept, Ready, Whole
        <5>7. OwnedIsReady => OwnedIsReady'
          BY <2>1, <3>1 DEF OwnedIsReady, Owned, Ready, Whole
        <5>. QED
          BY <2>1, <4>2, <5>1, <5>3, <5>4, <5>6, <5>7 DEF Recoverable, Takes
      <4>. QED
        BY <3>5, <4>1, <4>2
    <3>7. Over'
      BY <2>1, <2>2, <3>1, <3>5, <3>6 DEF Over, Owned, Left, Takes, Whole
    <3>. QED
      BY <2>1, <2>3, <3>4, <3>7 DEF Outside
  <2>5. CASE ~job.had
    <3>1. tree' = [Bare EXCEPT !.status = "bad"] /\ backups' = <<>> /\ stage' = None
      BY <1>2, <2>5 DEF PersistFailure
    <3>2. tree' \in TreeRecord /\ ~tree'.owned
      BY <3>1 DEF Bare, TreeRecord
    <3>3. PyannoteTypeOK' /\ ~Owned' /\ ~Left' /\ ~everReady'
      BY <2>1, <2>2, <2>5, <3>1, <3>2 DEF PyannoteTypeOK, Owned, Left
    <3>4. /\ load.pc \in {"evict", "adopt"} => load.from = "backup" /\ Takes("faults")
          /\ load.pc \in {"evict", "adopt"} => load.which = 1
      BY <2>1, <2>2 DEF Over, Recoverable, Around, Left, Wiped, Whole
    <3>5. ~Whole(tree')
      BY <3>1 DEF Whole, Bare
    <3>6. Recoverable'
      BY <2>1, <3>1, <3>3, <3>4, <3>5 DEF Recoverable, Wiped, Takes
    <3>7. Over'
      BY <2>1, <3>1, <3>3, <3>6 DEF Over, Takes
    <3>. QED
      BY <2>1, <2>3, <3>3, <3>7 DEF Outside
  <2>. QED
    BY <2>4, <2>5
<1>3. CASE EndJob
  <2>1. /\ job'.pc = "idle" /\ job' \in JobRecord /\ job.pc = "end"
        /\ UNCHANGED <<tree, backups, stage, load>> /\ loaded' = FALSE
        /\ everReady' = (everReady \/ Ready(tree))
    BY <1>0, <1>3 DEF EndJob, Note
  <2>2. Over /\ loaded
    BY <2>1 DEF Outside, Around
  <2>3. everReady' \in BOOLEAN
    BY <2>1
  <2>4. PyannoteTypeOK' /\ Fits' /\ Around'
    BY <2>1, <2>3 DEF PyannoteTypeOK, Fits, Around, Takes, Outside
  <2>5. Ready(tree) => ~Left /\ ~Wiped
    BY <2>2 DEF Over, Ready, Left, Wiped
  <2>6. Recoverable'
    <3>1. load.pc \in {"evict", "adopt"} => load.from = "backup" /\ everReady' = everReady
      BY <2>1, <2>2, <2>5 DEF Over, Recoverable, PyannoteTypeOK, Around, Left, Wiped, Ready, Whole
    <3>2. Ready(tree) => Stays
      BY <2>5 DEF Stays
    <3>3. /\ (Stays <=> Stays') /\ (OwnedIsReady <=> OwnedIsReady')
          /\ (LeftIsReady <=> LeftIsReady') /\ (Left <=> Left')
          /\ (Yields(tree) <=> Yields(tree)') /\ (Whole(tree) <=> Whole(tree)')
      BY <2>1 DEF Stays, OwnedIsReady, LeftIsReady, Ready, Whole, Committed, Left, Owned, Yields
    <3>4. load.pc \in {"evict", "adopt"} =>
            (Kept(backups[1]) => Kept(backups[1])') /\ (Wiped => Wiped')
      BY <2>1, <3>1 DEF Kept, Wiped, Ready, Whole, Takes
    <3>. QED
      BY <2>1, <2>2, <3>1, <3>2, <3>3, <3>4 DEF Over, Recoverable, Takes
  <2>7. Over'
    BY <2>1, <2>2, <2>6 DEF Over, Owned, Left, Takes, Whole
  <2>. QED
    BY <2>1, <2>4, <2>7 DEF Outside
<1>. QED
  BY <1>1, <1>2, <1>3

\* Where the program ends, what was ready stays or is found again: the marks on the
\* backup and on the stage name a process that is gone.
LEMMA Abandoned ==
  ASSUME PyannoteTypeOK, PyannoteCrash
  PROVE  /\ PyannoteTypeOK' /\ job'.pc = "idle" /\ load'.pc = "off" /\ ~loaded'
         /\ ~Owned' /\ (Left' <=> backups # <<>>)
         /\ backups # <<>> /\ Ready(backups[1]) => Ready(backups'[1])
         /\ stage' # None => ~stage'.owned
<1>1. job' \in JobRecord /\ job'.pc = "idle" /\ load' \in LoadRecord /\ load'.pc = "off" /\ ~loaded'
  BY DEF PyannoteCrash, NoJob, NoLoad, JobRecord, LoadRecord
<1>2. stage' \in TreeRecord \cup {None} /\ (stage' # None => ~stage'.owned)
  BY DEF PyannoteCrash, PyannoteTypeOK, TreeRecord
<1>3. /\ backups = <<>> => backups' = <<>>
      /\ backups # <<>> =>
           /\ backups' # <<>> /\ backups' = <<backups'[1]>> /\ backups'[1] \in TreeRecord
           /\ MaxBackups > 0 /\ ~backups'[1].owned
           /\ Ready(backups[1]) => Ready(backups'[1])
  <2>1. CASE backups = <<>>
    BY <2>1 DEF PyannoteCrash
  <2>2. CASE backups # <<>>
    <3>. DEFINE b == backups[1]
                freed == [b EXCEPT !.owned = FALSE]
    <3>1. backups = <<b>> /\ b \in TreeRecord /\ MaxBackups > 0
      BY <2>2 DEF PyannoteTypeOK
    <3>2. freed \in TreeRecord /\ ~freed.owned /\ (Ready(b) => Ready(freed))
      BY <3>1, PyannoteAssumption DEF TreeRecord, Ready, Whole
    <3>3. DOMAIN backups = 1 .. 1 /\ \A i \in 1 .. 1 : i = 1
      BY <3>1
    <3>4. backups' = [i \in 1 .. 1 |-> [backups[i] EXCEPT !.owned = FALSE]]
      BY <3>3 DEF PyannoteCrash
    <3>5. backups' = [i \in 1 .. 1 |-> freed]
      BY <3>3, <3>4
    <3>. HIDE DEF freed
    <3>6. backups' = <<freed>>
      BY <3>5
    <3>. QED
      BY <2>2, <3>1, <3>2, <3>6
  <2>. QED
    BY <2>1, <2>2
<1>4. tree' = tree /\ everReady' = everReady /\ loaded' \in BOOLEAN
  BY DEF PyannoteCrash
<1>5. PyannoteTypeOK'
  BY <1>1, <1>2, <1>3, <1>4 DEF PyannoteTypeOK
<1>. QED
  BY <1>1, <1>2, <1>3, <1>5 DEF Owned, Left

\* The end of the program keeps the invariant wherever it comes.
LEMMA EndOfProgramKeeps ==
  ASSUME RepairInv, ~crossed', Takes("crash"), PyannoteCrash, who' = who
  PROVE  RepairInv'
<1>. USE DEF RepairInv, history
<1>1. tree' = tree /\ everReady' = everReady
  BY DEF PyannoteCrash
<1>2. ~Takes("faults") /\ (Owned => ~bared)
  BY OneBackup DEF Fits, PyannoteCrash
<1>3. everReady => \/ Ready(tree) /\ (~tree.pending \/ Committed(tree) \/ backups = <<>>)
                   \/ backups # <<>> /\ Ready(backups[1]) /\ Yields(tree)
  <2>. SUFFICES ASSUME everReady
                PROVE  \/ Ready(tree) /\ (~tree.pending \/ Committed(tree) \/ backups = <<>>)
                       \/ backups # <<>> /\ Ready(backups[1]) /\ Yields(tree)
    OBVIOUS
  <2>1. CASE job.pc \in Outside
    <3>1. Over /\ ~Owned /\ (Owned \/ Left \/ backups = <<>>)
      BY <1>2, <2>1 DEF Over, Owned, Left
    <3>2. ~Whole(tree) => Yields(tree)
      BY DEF Yields, Whole
    <3>3. load.pc \in {"off", "pending", "usable", "evict", "adopt", "clean"}
      BY DEF PyannoteTypeOK, LoadRecord
    <3>. QED
      BY <3>1, <3>2, <3>3 DEF Over, Recoverable, Stays, OwnedIsReady, LeftIsReady, Owned, Left,
           Kept, Wiped
  <2>2. CASE job.pc \notin Outside /\ Untouched
    BY <2>2 DEF Untouched, Kept
  <2>3. CASE job.pc \notin Outside /\ BackedUp
    <3>1. Owned /\ Ready(backups[1]) /\ JobIsAt /\ job.backup
      BY <2>3 DEF BackedUp, Kept
    <3>2. Built(FALSE) => Yields(tree)
      BY <1>2, <3>1 DEF Built, Pending, Yields, Committed
    <3>3. Built(TRUE) => Yields(tree) \/ (Ready(tree) /\ Committed(tree))
      BY <1>2, <3>1 DEF Built, Pending, Yields, Committed, Ready
    <3>4. job.pc \in {"asked", "begin", "fetch", "swap", "mark"} => ~job.backup
      BY <3>1 DEF JobIsAt, Untouched
    <3>5. job.kind = "verify" /\ job.pc \in {"probe", "receipt", "status"} => ~everReady
      BY <3>1 DEF JobIsAt, ToVerify
    <3>6. Yields(tree) \/ (Ready(tree) /\ Committed(tree))
      BY <1>2, <2>3, <3>1, <3>2, <3>3, <3>4, <3>5 DEF JobIsAt, Yields, Outside, PyannoteTypeOK,
           JobRecord
    <3>. QED
      BY <3>1, <3>6 DEF Owned
  <2>4. CASE job.pc = "mark"
    BY <2>4 DEF JobIsAt, Outside, Left, Kept, Yields
  <2>5. job.pc \notin Outside /\ job.pc # "mark" => Untouched \/ BackedUp
    BY DEF JobIsAt, Outside, PyannoteTypeOK, JobRecord, ToVerify
  <2>. QED
    BY <2>1, <2>2, <2>3, <2>4, <2>5
<1>4. Recoverable'
  <2>1. everReady' => Stays' \/ (LeftIsReady' /\ Yields(tree'))
    BY <1>1, <1>3, Abandoned DEF Stays, LeftIsReady, Ready, Whole, Committed, Yields
  <2>. QED
    BY <2>1, Abandoned DEF Recoverable
<1>5. Over'
  BY <1>2, <1>4, Abandoned DEF Over, Takes
<1>6. Fits' /\ Around'
  BY <1>2, Abandoned DEF Fits, Around, Takes, Outside
<1>. QED
  BY <1>5, <1>6, Abandoned DEF Outside

\* A load between the steps of an installation clears the mark that the directory
\* awaits validation, or removes the stage that has lost its mark, no more.
LEMMA BesideStep ==
  ASSUME RepairInv, job.pc \notin Outside, UNCHANGED <<who, asked>>, job.pc # "mark",
         UNCHANGED <<backups, job, everReady, loaded>>,
         stage' = stage \/ (job.pc = "publish" /\ stage' = None), bared => bared',
         load' \in LoadRecord, load'.pc \notin {"evict", "adopt"},
         \/ tree' = tree
         \/ /\ tree # None /\ tree' = [tree EXCEPT !.pending = FALSE]
            /\ Committed(tree) \/ ~Owned \/ bared'
  PROVE  RepairInv'
<1>. USE DEF RepairInv, history
<1>0. /\ JobIsAt /\ load.pc \notin {"evict", "adopt"} /\ loaded /\ loaded \in BOOLEAN
      /\ load \in LoadRecord /\ NoLoad \in LoadRecord /\ NoLoad.pc = "off"
  BY DEF Around, Outside, PyannoteTypeOK, NoLoad, LoadRecord
<1>1. \/ tree' = tree
      \/ /\ tree \in TreeRecord /\ tree' \in TreeRecord /\ tree # None /\ tree' # None /\ ~tree'.owned
         /\ Committed(tree) \/ ~Owned \/ bared'
         /\ tree'.whole = tree.whole /\ tree'.status = tree.status
         /\ tree'.receipt = tree.receipt
  <2>1. CASE tree' = tree
    BY <2>1
  <2>2. CASE /\ tree # None /\ tree' = [tree EXCEPT !.pending = FALSE]
             /\ Committed(tree) \/ ~Owned \/ bared'
    <3>1. tree \in TreeRecord /\ ~tree.owned
      BY <2>2 DEF PyannoteTypeOK
    <3>2. tree' \in TreeRecord /\ tree' # None
      BY <2>2, <3>1, PyannoteAssumption DEF TreeRecord
    <3>. QED
      BY <2>2, <3>1, <3>2 DEF TreeRecord
  <2>. QED
    BY <2>1, <2>2
<1>2. PyannoteTypeOK'
  BY <1>1 DEF PyannoteTypeOK
<1>3. (Ready(tree) => Ready(tree')) /\ (Whole(tree) <=> Whole(tree'))
  BY <1>1 DEF Ready, Whole
<1>4. Untouched => Untouched'
  BY <1>3 DEF Untouched, Kept
<1>5. BackedUp => BackedUp'
  BY DEF BackedUp, Owned, Kept, Ready, Whole
<1>6. /\ job.pc # "publish" =>
           /\ stage' = stage /\ (Staged => Staged')
           /\ StageIs(FALSE, TRUE) => StageIs(FALSE, TRUE)'
           /\ StageIs(TRUE, TRUE) => StageIs(TRUE, TRUE)'
      /\ stage = None \/ StageIs(TRUE, FALSE) => stage' = None \/ StageIs(TRUE, FALSE)'
  BY DEF Staged, StageIs
<1>8. (ToVerify => ToVerify') /\ (Committed(tree) /\ tree # None => Committed(tree'))
  BY <1>1, <1>3, <1>4 DEF ToVerify, Committed
<1>7. /\ tree # None /\ Pending => Pending'
      /\ (Built(FALSE) => Built(FALSE)') /\ (Built(TRUE) => Built(TRUE)')
  <2>1. tree # None /\ Pending => Pending'
    BY <1>1, <1>8 DEF Pending, Owned, Committed
  <2>. QED
    BY <1>1, <1>3, <2>1 DEF Built, Whole
<1>9. (tree = None <=> tree' = None)
  BY <1>1
<1>10. job.pc \in {"asked", "begin", "fetch", "swap", "unmark", "publish"} => JobIsAt'
  BY <1>0, <1>4, <1>5, <1>6, <1>8, <1>9 DEF JobIsAt
<1>11. job.pc \in {"reset", "copy", "validate", "probe", "receipt"} => JobIsAt'
  BY <1>0, <1>1, <1>4, <1>5, <1>7, <1>8, <1>9 DEF JobIsAt, Takes
<1>12. job.pc = "status" => JobIsAt'
  BY <1>0, <1>1, <1>5, <1>7, <1>8 DEF JobIsAt, ToVerify, Whole
<1>13. job.pc \in {"finalize", "drop", "rollback", "restore"} => JobIsAt'
  BY <1>0, <1>1, <1>3, <1>5, <1>6, <1>8, <1>9
     DEF JobIsAt, Ready, Takes, Yields, Committed, BackedUp
<1>14. JobIsAt'
  BY <1>10, <1>11, <1>12, <1>13 DEF Outside, PyannoteTypeOK, JobRecord
<1>15. Fits' /\ Around'
  BY <1>0 DEF Fits, Around, Takes, Outside
<1>. QED
  BY <1>2, <1>14, <1>15

\* It finds nothing to take the place of anything.
LEMMA LoadBesideKeeps ==
  ASSUME RepairInv, job.pc \notin Outside, UNCHANGED <<who, asked>>, ~crossed',
         BeginLoad \/ Loading \/ NotRecovered
  PROVE  RepairInv'
<1>. USE DEF history
<1>1. /\ JobIsAt /\ load.pc \notin {"evict", "adopt"} /\ loaded /\ loaded \in BOOLEAN
      /\ load \in LoadRecord /\ NoLoad \in LoadRecord /\ NoLoad.pc = "off"
  BY DEF RepairInv, Around, Outside, PyannoteTypeOK, NoLoad, LoadRecord
<1>2. job.pc # "mark"
  BY DEF BeginLoad, Loading, NotRecovered, LookForPending, LookForUsable, Evict, Adopt,
       CleanOrphans, LoadOutrun, RepairInv, Around
<1>3. ~Left /\ (backups = <<>> \/ Owned)
  BY <1>1, <1>2 DEF RepairInv, JobIsAt, Outside, Left, Owned, BackedUp, Untouched, ToVerify,
       PyannoteTypeOK, JobRecord
<1>4. stage = None \/ stage.owned \/ job.pc = "publish"
  BY <1>1, <1>2 DEF RepairInv, JobIsAt, Outside, Staged, StageIs, PyannoteTypeOK, JobRecord
<1>5. CASE BeginLoad
  <2>1. load' \in LoadRecord /\ load'.pc = "pending"
    BY <1>5 DEF BeginLoad, NoLoad, LoadRecord
  <2>. QED
    BY <1>1, <1>2, BesideStep, <1>5, <2>1 DEF BeginLoad
<1>6. CASE LookForPending
  <2>1. Foreign = {} /\ (Owned <=> Mine # {})
    BY <1>3, OneBackup DEF RepairInv, Owned
  <2>2. load' = [load EXCEPT !.pc = "usable"]
    BY <1>6, <2>1 DEF LookForPending
  <2>3. /\ bared => bared'
        /\ \/ tree' = tree
           \/ /\ tree # None /\ tree' = [tree EXCEPT !.pending = FALSE]
              /\ Committed(tree) \/ ~Owned \/ bared'
    BY <1>6, <2>1 DEF LookForPending, Committed
  <2>4. load' \in LoadRecord /\ load'.pc = "usable"
    BY <2>2, LoadUpdates DEF RepairInv
  <2>. QED
    BY <1>1, <1>2, BesideStep, <1>6, <2>3, <2>4 DEF LookForPending
<1>7. CASE LookForUsable
  <2>1. Foreign = {}
    BY <1>3, OneBackup DEF RepairInv
  <2>2. load' = [load EXCEPT !.pc = "clean"]
    BY <1>7, <2>1 DEF LookForUsable, Restores, Outside
  <2>3. load' \in LoadRecord /\ load'.pc = "clean"
    BY <2>2, LoadUpdates DEF RepairInv
  <2>. QED
    BY <1>1, <1>2, BesideStep, <1>7, <2>3 DEF LookForUsable
<1>8. CASE CleanOrphans \/ NotRecovered
  <2>1. everReady' = everReady /\ bared' = bared /\ load' = NoLoad /\ loaded' = TRUE
    BY <1>8 DEF CleanOrphans, NotRecovered, LoadEnds, Note, Outside, RepairInv, PyannoteTypeOK
  <2>2. UNCHANGED <<backups, tree, job>> /\ (stage' = stage \/ (job.pc = "publish" /\ stage' = None))
    BY <1>3, <1>4, <1>8, OwnStays DEF RepairInv, CleanOrphans, NotRecovered, Owned
  <2>3. loaded' = loaded
    BY <1>1, <2>1
  <2>. QED
    BY <1>1, <1>2, BesideStep, <2>1, <2>2, <2>3
<1>9. CASE Evict \/ Adopt \/ LoadOutrun
  BY <1>1, <1>9 DEF Evict, Adopt, LoadOutrun
<1>. QED
  BY <1>5, <1>6, <1>7, <1>8, <1>9 DEF Loading

\* A load where no installation runs.
LEMMA AloneStep ==
  ASSUME RepairInv, job.pc \in Outside, UNCHANGED <<who, asked, job>>, PyannoteTypeOK', Over',
         loaded => loaded', backups = <<>> => backups' = <<>>
  PROVE  RepairInv'
<1>1. Fits' /\ Around'
  BY DEF RepairInv, Fits, Around, Takes, Outside
<1>. QED
  BY <1>1 DEF RepairInv, Outside

\* It looks for what a directory that is not ready can be replaced by.
LEMMA LookingKeeps ==
  ASSUME RepairInv, job.pc \in Outside, UNCHANGED <<who, asked>>,
         BeginLoad \/ LookForPending \/ LookForUsable
  PROVE  RepairInv'
<1>. USE DEF Wiped
<1>0. /\ Over /\ PyannoteTypeOK /\ load \in LoadRecord /\ UNCHANGED <<backups, stage, job, loaded, everReady>>
      /\ (Owned => backups' # <<>>)
  BY DEF RepairInv, PyannoteTypeOK, BeginLoad, LookForPending, LookForUsable, Owned
<1>1. /\ (Owned <=> Owned') /\ (Left <=> Left') /\ (OwnedIsReady <=> OwnedIsReady')
      /\ (LeftIsReady <=> LeftIsReady') /\ (backups = <<>> <=> backups' = <<>>)
      /\ (Kept(backups[1]) <=> Kept(backups[1])')
  BY <1>0 DEF Owned, Left, OwnedIsReady, LeftIsReady, Ready, Whole, Kept
<1>2. CASE BeginLoad
  <2>1. load' \in LoadRecord /\ load'.pc = "pending" /\ load.pc = "off" /\ tree' = tree
    BY <1>2 DEF BeginLoad, NoLoad, LoadRecord
  <2>2. PyannoteTypeOK'
    BY <1>0, <2>1 DEF PyannoteTypeOK
  <2>3. Recoverable'
    BY <1>0, <1>1, <2>1 DEF Over, Recoverable, Stays, Ready, Whole, Committed, Yields
  <2>4. Over'
    BY <1>0, <1>1, <2>1, <2>3 DEF Over, Takes, Whole, Ready
  <2>. QED
    BY <1>0, <1>1, <2>2, <2>4, AloneStep
<1>3. CASE LookForPending
  <2>0. load.pc = "pending" /\ (everReady => Stays \/ OwnedIsReady \/ (LeftIsReady /\ Yields(tree)))
    BY <1>0, <1>3 DEF LookForPending, Over, Recoverable
  <2>. DEFINE clears == Committed(tree) \/ Foreign = {} \/ ~backups[NewestForeign].whole
  <2>1. CASE tree = None \/ ~Directory(tree).pending
    <3>1. load' = [load EXCEPT !.pc = "usable"] /\ tree' = tree
      BY <1>3, <2>1 DEF LookForPending
    <3>2. load' \in LoadRecord /\ load'.pc = "usable"
      BY <1>0, <3>1, LoadUpdates
    <3>3. PyannoteTypeOK'
      BY <1>0, <3>1, <3>2 DEF PyannoteTypeOK
    <3>4. Yields(tree) => ~Whole(tree)
      BY <2>1 DEF Yields, Whole, Directory
    <3>5. Recoverable'
      BY <1>0, <1>1, <2>0, <3>1, <3>2, <3>4 DEF Recoverable, Stays, Ready, Whole, Committed
    <3>6. Over'
      BY <1>0, <1>1, <3>1, <3>5 DEF Over, Takes, Whole, Ready
    <3>. QED
      BY <1>0, <1>1, <3>3, <3>6, AloneStep
  <2>2. CASE ~(tree = None \/ ~Directory(tree).pending) /\ clears
    <3>1. load' = [load EXCEPT !.pc = "usable"] /\ tree' = [tree EXCEPT !.pending = FALSE] /\ tree # None
      BY <1>3, <2>2 DEF LookForPending, Committed
    <3>2. load' \in LoadRecord /\ load'.pc = "usable"
      BY <1>0, <3>1, LoadUpdates
    <3>3. tree \in TreeRecord /\ ~tree.owned
      BY <1>0, <3>1 DEF PyannoteTypeOK
    <3>4. /\ tree' \in TreeRecord /\ tree' # None /\ ~tree'.owned /\ ~tree'.pending
          /\ tree'.whole = tree.whole /\ tree'.status = tree.status /\ tree'.receipt = tree.receipt
      BY <3>1, <3>3, PyannoteAssumption DEF TreeRecord
    <3>5. (Whole(tree) <=> Whole(tree')) /\ (Ready(tree) => Ready(tree'))
      BY <3>1, <3>4 DEF Whole, Ready
    <3>6. PyannoteTypeOK'
      BY <1>0, <3>2, <3>4 DEF PyannoteTypeOK
    <3>7. LeftIsReady => Committed(tree)
      BY <1>0, <2>2, OneBackup DEF LeftIsReady, Ready, Whole
    <3>8. LeftIsReady /\ Yields(tree) => ~Whole(tree)
      BY <3>1, <3>7 DEF Yields, Whole
    <3>9. Stays => Stays'
      BY <3>4, <3>5 DEF Stays
    <3>10. Recoverable'
      BY <1>0, <1>1, <2>0, <3>2, <3>5, <3>8, <3>9 DEF Recoverable
    <3>11. Over'
      BY <1>0, <1>1, <3>5, <3>10 DEF Over, Takes
    <3>. QED
      BY <1>0, <1>1, <3>6, <3>11, AloneStep
  <2>3. CASE ~(tree = None \/ ~Directory(tree).pending) /\ ~clears
    <3>1. Restores("backup", NewestForeign, TRUE) /\ tree' = tree /\ tree # None /\ tree.pending
      BY <1>3, <2>3 DEF LookForPending, Committed, Directory
    <3>4. Left /\ NewestForeign = 1 /\ backups[1].whole /\ ~Committed(tree)
      BY <1>0, <2>3, OneBackup DEF Left, Owned
    <3>2. load' \in LoadRecord /\ load'.pc = "evict" /\ load'.from = "backup" /\ load'.which = 1
      BY <1>0, <3>1, <3>4, LoadUpdates
    <3>3. PyannoteTypeOK'
      BY <1>0, <3>1, <3>2 DEF PyannoteTypeOK
    <3>5. everReady => LeftIsReady
      BY <2>0, <3>1, <3>4 DEF Stays, OwnedIsReady, Owned, Left
    <3>6. Kept(backups[1]) /\ Yields(tree)
      BY <3>1, <3>4, <3>5 DEF Kept, LeftIsReady, Yields
    <3>7. Recoverable'
      BY <1>0, <1>1, <3>1, <3>2, <3>4, <3>6 DEF Recoverable, Yields, Committed
    <3>8. Over'
      BY <1>0, <1>1, <3>1, <3>7 DEF Over, Takes, Whole, Ready
    <3>. QED
      BY <1>0, <1>1, <3>3, <3>8, AloneStep
  <2>. QED
    BY <2>1, <2>2, <2>3
<1>4. CASE LookForUsable
  <2>0. /\ load.pc = "usable" /\ tree' = tree
        /\ (everReady => Stays \/ OwnedIsReady \/ (LeftIsReady /\ ~Whole(tree)))
    BY <1>0, <1>4 DEF LookForUsable, Over, Recoverable
  <2>1. ASSUME load' \in LoadRecord, Recoverable' PROVE RepairInv'
    <3>1. PyannoteTypeOK'
      BY <1>0, <2>0, <2>1 DEF PyannoteTypeOK
    <3>2. Over'
      BY <1>0, <1>1, <2>0, <2>1 DEF Over, Takes, Whole, Ready
    <3>. QED
      BY <1>0, <1>1, <3>1, <3>2, AloneStep
  <2>2. CASE Whole(tree)
    <3>1. load' = [load EXCEPT !.pc = "clean"]
      BY <1>4, <2>2 DEF LookForUsable
    <3>2. load' \in LoadRecord /\ load'.pc = "clean"
      BY <1>0, <3>1, LoadUpdates
    <3>3. Recoverable'
      BY <1>0, <1>1, <2>0, <2>2, <3>2 DEF Recoverable, Stays, Ready, Whole, Committed
    <3>. QED
      BY <2>1, <3>2, <3>3
  <2>3. CASE ~Whole(tree) /\ Foreign # {} /\ backups[NewestForeign].whole
    <3>1. Restores("backup", NewestForeign, FALSE)
      BY <1>4, <2>3 DEF LookForUsable
    <3>3. Left /\ NewestForeign = 1 /\ backups[1].whole
      BY <1>0, <2>3, OneBackup DEF Left, Owned
    <3>2. load' \in LoadRecord /\ load'.pc = "evict" /\ load'.from = "backup" /\ load'.which = 1
      BY <1>0, <3>1, <3>3, LoadUpdates
    <3>4. everReady => LeftIsReady
      BY <2>0, <2>3, <3>3 DEF Stays, OwnedIsReady, Owned, Left, Ready
    <3>5. Kept(backups[1]) /\ Yields(tree)
      BY <2>3, <3>4 DEF Kept, LeftIsReady, Yields, Whole
    <3>6. Recoverable'
      BY <1>0, <1>1, <2>0, <3>2, <3>3, <3>5 DEF Recoverable, Yields, Committed
    <3>. QED
      BY <2>1, <3>2, <3>6
  <2>4. CASE ~Whole(tree) /\ ~(Foreign # {} /\ backups[NewestForeign].whole)
    <3>1. ~LeftIsReady /\ ~Stays
      BY <1>0, <2>4, OneBackup DEF LeftIsReady, Stays, Ready, Whole
    <3>2. CASE Whole(stage) /\ ~stage.owned
      <4>1. Restores("stage", 0, FALSE)
        BY <1>4, <2>4, <3>2 DEF LookForUsable
      <4>2. load' \in LoadRecord /\ load'.pc = "evict" /\ load'.from = "stage"
        BY <1>0, <4>1, LoadUpdates
      <4>3. Recoverable'
        BY <1>0, <1>1, <2>0, <2>4, <3>1, <3>2, <4>2 DEF Recoverable, Whole
      <4>. QED
        BY <2>1, <4>2, <4>3
    <3>3. CASE ~(Whole(stage) /\ ~stage.owned)
      <4>1. load' = [load EXCEPT !.pc = "clean"]
        BY <1>4, <2>4, <3>3 DEF LookForUsable
      <4>2. load' \in LoadRecord /\ load'.pc = "clean"
        BY <1>0, <4>1, LoadUpdates
      <4>3. Recoverable'
        BY <1>0, <1>1, <2>0, <3>1, <4>2 DEF Recoverable
      <4>. QED
        BY <2>1, <4>2, <4>3
    <3>. QED
      BY <3>2, <3>3
  <2>. QED
    BY <2>2, <2>3, <2>4
<1>. QED
  BY <1>2, <1>3, <1>4

\* What is found takes the place of the directory.
LEMMA TakingKeeps ==
  ASSUME RepairInv, job.pc \in Outside, UNCHANGED <<who, asked>>, Evict \/ Adopt
  PROVE  RepairInv'
<1>0. Over /\ PyannoteTypeOK /\ load \in LoadRecord /\ UNCHANGED <<job, loaded, everReady>>
  BY DEF RepairInv, PyannoteTypeOK, Evict, Adopt, history
<1>1. /\ load.from \in {"backup", "stage"}
      /\ load.from = "backup" =>
           load.which = 1 /\ ((Left /\ backups[1].whole /\ Kept(backups[1])) \/ Wiped)
      /\ load.from = "stage" => Whole(stage) /\ ~stage.owned /\ (everReady => OwnedIsReady)
  BY <1>0 DEF Evict, Adopt, Over, Recoverable
<1>2. CASE Evict
  <2>1. tree' = None /\ UNCHANGED <<backups, stage>> /\ load' = [load EXCEPT !.pc = "adopt"]
    BY <1>2 DEF Evict
  <2>2. load' \in LoadRecord /\ load'.pc = "adopt" /\ load'.from = load.from /\ load'.which = load.which
    BY <1>0, <2>1, LoadUpdates
  <2>3. PyannoteTypeOK'
    BY <1>0, <2>1, <2>2 DEF PyannoteTypeOK
  <2>4. ~Whole(tree') /\ Yields(tree')
    BY <2>1 DEF Whole, Yields
  <2>5. Recoverable'
    BY <1>0, <1>1, <2>1, <2>2, <2>4 DEF Recoverable, Left, Owned, Kept, OwnedIsReady, Ready, Whole,
         Wiped, Takes
  <2>6. ~(job.pc = "end" /\ job.told = "completed")
    BY <1>0, <1>1 DEF Over, Whole, Wiped, Ready
  <2>7. Over'
    BY <1>0, <2>1, <2>4, <2>5, <2>6 DEF Over, Takes, Left, Owned
  <2>. QED
    BY <1>0, <2>1, <2>3, <2>7, AloneStep
<1>3. CASE Adopt /\ load.from = "backup"
  <2>0. load.which = 1 /\ backups # <<>>
    BY <1>1, <1>3 DEF Adopt, Adoptable
  <2>1. Left /\ RemoveAt(backups, 1) = <<>> /\ backups[1] \in TreeRecord
    BY <1>0, <1>1, <1>3, <2>0, OneBackup DEF Left, PyannoteTypeOK, Wiped
  <2>2. /\ tree' = [backups[1] EXCEPT !.owned = FALSE, !.pending = @ /\ ~load.marked]
        /\ backups' = <<>> /\ stage' = stage
    BY <1>3, <2>0, <2>1 DEF Adopt
  <2>3. /\ tree' \in TreeRecord /\ tree' # None /\ ~tree'.owned /\ tree'.whole = backups[1].whole
        /\ tree'.receipt = backups[1].receipt /\ tree'.status = backups[1].status
    BY <2>1, <2>2, PyannoteAssumption DEF TreeRecord
  <2>4. load' \in LoadRecord /\ load'.pc \in {"usable", "clean"}
    BY <1>0, <1>3 DEF Adopt, LoadRecord
  <2>5. PyannoteTypeOK' /\ ~Owned' /\ ~Left'
    BY <1>0, <2>2, <2>3, <2>4 DEF PyannoteTypeOK, Owned, Left
  <2>6. everReady => Stays'
    BY <1>1, <1>3, <2>0, <2>3, <2>5 DEF Kept, Stays, Ready, Whole, Wiped
  <2>7. Recoverable'
    BY <1>0, <2>4, <2>6 DEF Recoverable
  <2>8. ~(job.pc = "end" /\ job.told = "completed")
    BY <1>0, <2>1 DEF Over
  <2>9. Over'
    BY <1>0, <2>2, <2>5, <2>7, <2>8 DEF Over, Takes
  <2>. QED
    BY <1>0, <2>2, <2>5, <2>9, AloneStep
<1>4. CASE Adopt /\ load.from = "stage"
  <2>1. stage \in TreeRecord /\ Whole(stage) /\ (everReady => OwnedIsReady) /\ job.pc = "idle" /\ Takes("crash")
    BY <1>0, <1>1, <1>4 DEF Over, Whole, PyannoteTypeOK
  <2>2. tree' = [stage EXCEPT !.owned = FALSE] /\ stage' = None /\ backups' = backups
    BY <1>4 DEF Adopt
  <2>3. tree' \in TreeRecord /\ ~tree'.owned
    BY <2>1, <2>2 DEF TreeRecord
  <2>4. load' \in LoadRecord /\ load'.pc \in {"usable", "clean"}
    BY <1>0, <1>4 DEF Adopt, LoadRecord
  <2>5. PyannoteTypeOK'
    BY <1>0, <2>2, <2>3, <2>4 DEF PyannoteTypeOK
  <2>6. Recoverable'
    BY <1>0, <2>1, <2>2, <2>4 DEF Recoverable, OwnedIsReady, Owned, Ready, Whole
  <2>7. Over'
    BY <1>0, <2>1, <2>2, <2>6 DEF Over, Takes, Left, Owned, RepairInv, Fits
  <2>. QED
    BY <1>0, <2>2, <2>5, <2>7, AloneStep
<1>. QED
  BY <1>1, <1>2, <1>3, <1>4

\* Only a disk that fails takes away what a load was about to put back.
LEMMA NothingIsOutrun ==
  ASSUME RepairInv, job.pc \in Outside, load.pc = "adopt", ~Adoptable
  PROVE  Takes("faults")
<1>1. Over /\ PyannoteTypeOK
  BY DEF RepairInv
<1>2. CASE load.from = "backup"
  <2>1. backups # <<>> /\ load.which = 1 => load.which \in DOMAIN backups
    BY <1>1 DEF PyannoteTypeOK
  <2>. QED
    BY <1>1, <1>2, <2>1 DEF Over, Recoverable, Adoptable, Left, Wiped
<1>3. CASE load.from = "stage"
  BY <1>1, <1>3 DEF Over, Recoverable, Adoptable, Whole
<1>. QED
  BY <1>1, <1>2, <1>3 DEF Over, Recoverable

\* A load ends with what no running installation owns removed, or where it failed.
LEMMA LoadEndKeeps ==
  ASSUME RepairInv, job.pc \in Outside, UNCHANGED <<who, asked>>,
         CleanOrphans \/ (NotRecovered /\ Takes("faults"))
  PROVE  RepairInv'
<1>0. /\ Over /\ PyannoteTypeOK /\ load' \in LoadRecord /\ load'.pc = "off" /\ loaded' = TRUE
      /\ UNCHANGED <<tree, job>> /\ everReady' = (everReady \/ (job.pc \in {"idle", "end"} /\ Ready(tree)))
  <2>1. LoadEnds /\ UNCHANGED <<tree, job>>
    BY DEF CleanOrphans, NotRecovered
  <2>2. load' = NoLoad /\ loaded' = TRUE
        /\ everReady' = (everReady \/ (job.pc \in {"idle", "end"} /\ Ready(tree)))
    BY <2>1, Zenon DEF LoadEnds, Note
  <2>3. NoLoad \in LoadRecord /\ NoLoad.pc = "off"
    BY DEF NoLoad, LoadRecord
  <2>4. Over /\ PyannoteTypeOK
    BY DEF RepairInv
  <2>5. load' \in LoadRecord /\ load'.pc = "off"
    BY <2>2, <2>3
  <2>. QED
    BY <2>1, <2>2, <2>4, <2>5, Zenon
<1>1. everReady' \in BOOLEAN /\ loaded' \in BOOLEAN /\ loaded'
  BY <1>0
<1>2. CASE CleanOrphans
  <2>1. /\ backups' = (IF Owned THEN backups ELSE <<>>)
        /\ stage' = (IF stage # None /\ stage.owned THEN stage ELSE None)
        /\ load.pc = "clean"
    BY <1>0, <1>2, OwnStays DEF CleanOrphans
  <2>2. stage' = None
    BY <1>0, <2>1 DEF Over
  <2>3. (Owned' <=> Owned) /\ ~Left' /\ (OwnedIsReady => OwnedIsReady')
    BY <2>1 DEF Owned, Left, OwnedIsReady, Ready, Whole
  <2>4. PyannoteTypeOK'
    BY <1>0, <1>1, <2>1, <2>2 DEF PyannoteTypeOK
  <2>5. everReady => Ready(tree) \/ OwnedIsReady
    BY <1>0, <2>1 DEF Over, Recoverable, Stays
  <2>6. everReady' => Stays' \/ OwnedIsReady'
    BY <1>0, <2>3, <2>5 DEF Stays, Ready, Whole
  <2>7. Recoverable'
    BY <1>0, <2>6 DEF Recoverable
  <2>8. job.pc = "persist" => everReady' = everReady
    BY <1>0 DEF PyannoteTypeOK
  <2>9. Over'
    BY <1>0, <1>1, <2>1, <2>2, <2>3, <2>7, <2>8 DEF Over, Takes, Ready, Whole, Owned
  <2>. QED
    BY <1>0, <1>1, <2>1, <2>4, <2>9, AloneStep
<1>3. CASE NotRecovered /\ Takes("faults")
  <2>1. UNCHANGED <<backups, stage>> /\ load.pc \in {"pending", "evict", "adopt", "clean"}
    BY <1>3 DEF NotRecovered
  <2>2. PyannoteTypeOK'
    BY <1>0, <1>1, <2>1 DEF PyannoteTypeOK
  <2>3. Ready(tree) => Stays
    BY <1>0, <1>3 DEF Over, Stays, Ready
  <2>4. everReady => Stays \/ OwnedIsReady \/ (LeftIsReady /\ Yields(tree))
    BY <1>0, <2>1 DEF Over, Recoverable, LeftIsReady, Kept, Wiped
  <2>5. everReady' => Stays \/ OwnedIsReady \/ (LeftIsReady /\ Yields(tree))
    BY <1>0, <2>3, <2>4
  <2>6. Recoverable'
    BY <1>0, <2>1, <2>5 DEF Recoverable, Stays, OwnedIsReady, LeftIsReady, Ready, Whole,
         Committed,
         Left, Owned, Yields
  <2>7. job.pc = "persist" => everReady' = everReady
    BY <1>0 DEF PyannoteTypeOK
  <2>8. Over'
    BY <1>0, <1>3, <2>1, <2>6, <2>7 DEF Over, Takes, Ready, Whole, Owned, Left
  <2>. QED
    BY <1>0, <1>1, <2>1, <2>2, <2>8, AloneStep
<1>. QED
  BY <1>2, <1>3

\* Every step of an installation and of a load keeps the invariant.
LEMMA RepairStepKeeps ==
  ASSUME RepairInv, ~crossed', PyannotePart, who' = who
  PROVE  RepairInv'
<1>1. CASE /\ Ask /\ (Takes("once") => asked = 0) /\ asked' = 1
  BY <1>1, RequestStartsOver
<1>2. ASSUME UNCHANGED asked, JobStep \/ JobFails PROVE RepairInv'
  BY <1>2, StageKeeps, BundledKeeps, MovingKeeps, PublishingKeeps, ProbingKeeps, WritingKeeps,
     FinalizingKeeps, RestoringKeeps, RequestEnds DEF JobStep, JobFails, JobOutrun
<1>3. ASSUME UNCHANGED asked, BeginLoad \/ Loading \/ (Takes("faults") /\ NotRecovered)
      PROVE  RepairInv'
  <2>1. CASE job.pc \notin Outside
    BY <1>3, <2>1, LoadBesideKeeps
  <2>2. CASE job.pc \in Outside
    <3>1. LoadOutrun => NotRecovered /\ Takes("faults")
      BY <2>2, NothingIsOutrun DEF LoadOutrun
    <3>. QED
      BY <1>3, <2>2, <3>1, LookingKeeps, TakingKeeps, LoadEndKeeps DEF Loading
  <2>. QED
    BY <2>1, <2>2
<1>5. ASSUME UNCHANGED asked, Takes("faults"), DiskFails, ~NotRecovered PROVE RepairInv'
  BY <1>5, BundledKeeps, MovingKeeps, PublishingKeeps, WritingKeeps, FinalizingKeeps,
       RestoringKeeps
     DEF DiskFails
<1>. QED
  BY <1>1, <1>2, <1>3, <1>5 DEF PyannotePart

\* Once a load has come across a swap, it has.
LEMMA CrossedStays ==
  ASSUME PyannotePart \/ PyannoteCrash, crossed
  PROVE  crossed'
<1>. USE DEF history
<1>1. CASE Ask \/ JobStep
  BY <1>1 DEF Ask, JobStep, StartJob, EndJob, Note, PrepareStage, FillStage, BeginBundled, Reset,
       Copy, MoveToBackup, MarkBackup, UnmarkStage, PublishTree, Validate, ProbeTree,
       WriteReceipt, WriteStatus, Finalize, DropBackup, Rollback, RestoreBackup, PersistFailure
<1>2. CASE JobFails \/ DiskFails
  BY <1>2 DEF JobFails, JobOutrun, Busy, StageFails, StageCancelled, NotValid, NotVerified,
       DiskFails, CopyFails, MarkFails, PublishTreeFails, NotWritten, NotFinalized, NotRestored,
       NotRecovered, LoadEnds, Note
<1>3. CASE BeginLoad \/ Loading
  BY <1>3 DEF BeginLoad, Loading, LookForPending, LookForUsable, Restores, Evict, Adopt,
       CleanOrphans, LoadOutrun, NotRecovered, LoadEnds, Note
<1>4. CASE PyannoteCrash
  BY <1>4 DEF PyannoteCrash
<1>. QED
  BY <1>1, <1>2, <1>3, <1>4 DEF PyannotePart

\* Where no diarization runtime takes part there is none.
NoRuntime ==
  /\ tree = None /\ backups = <<>> /\ stage = None
  /\ job = NoJob /\ load = NoLoad /\ ~everReady

RepairOrNone == IF Takes("pyannote") THEN ~crossed => RepairInv ELSE NoRuntime

\* What the batches of models are counted and told by.
BatchTypeOK ==
  /\ have \in [Items -> {"absent", "broken", "whole"}]
  /\ archive \subseteq Encoders
  /\ batch = [pc |-> batch.pc, todo |-> batch.todo, tries |-> batch.tries,
              extracted |-> batch.extracted, told |-> batch.told]
  /\ batch.tries \in 0 .. MaxAttempts
  /\ lucky \in BOOLEAN

\* Every step of a batch keeps them.
LEMMA BatchTypes ==
  ASSUME BatchTypeOK, ModelsPart \/ ModelsCrash
  PROVE  BatchTypeOK'
<1>0. MaxAttempts \in Nat /\ 0 \in 0 .. MaxAttempts /\ 1 \in 0 .. MaxAttempts
  BY ModelsAssumption
<1>. DEFINE Shaped(b) == b = [pc |-> b.pc, todo |-> b.todo, tries |-> b.tries,
                             extracted |-> b.extracted, told |-> b.told]
<1>1. Shaped(batch) /\ batch.tries \in 0 .. MaxAttempts
  BY DEF BatchTypeOK
<1>2. Shaped(NoBatch) /\ NoBatch.tries = 0
  BY DEF NoBatch
<1>3. ASSUME NEW what PROVE BatchTells(what) => Shaped(batch') /\ batch'.tries = batch.tries
  BY <1>1 DEF BatchTells
<1>4. CASE AskModels \/ ModelsBusy \/ StartModels \/ EndModels \/ ModelsCrash
  <2>1. Shaped(batch') /\ batch'.tries \in {0, batch.tries}
    BY <1>1, <1>2, <1>4 DEF AskModels, ModelsBusy, StartModels, EndModels, ModelsCrash, NoBatch
  <2>2. lucky' \in {lucky, TRUE} /\ UNCHANGED <<have, archive>>
    BY <1>4 DEF AskModels, ModelsBusy, StartModels, EndModels, ModelsCrash
  <2>. QED
    BY <1>0, <2>1, <2>2 DEF BatchTypeOK
<1>5. CASE NextItem \/ BatchCancelled \/ AttemptFails \/ Refused
  <2>1. Shaped(batch') /\ batch'.tries \in 0 .. MaxAttempts
    <3>1. CASE \E what : BatchTells(what)
      BY <1>1, <1>3, <3>1
    <3>2. CASE batch' = [batch EXCEPT !.pc = "download", !.tries = 1]
      BY <1>0, <1>1, <3>2
    <3>3. CASE batch.tries < MaxAttempts /\ batch' = [batch EXCEPT !.tries = @ + 1]
      BY <1>0, <1>1, <3>3
    <3>. QED
      BY <1>5, <3>1, <3>2, <3>3 DEF NextItem, BatchCancelled, AttemptFails, Refused
  <2>2. lucky' \in {lucky, FALSE} /\ UNCHANGED <<have, archive>>
    BY <1>5 DEF NextItem, BatchCancelled, AttemptFails, Refused
  <2>. QED
    BY <2>1, <2>2 DEF BatchTypeOK
<1>6. CASE Downloaded \/ ReplaceFails \/ ExtractEncoder
  <2>1. Shaped(batch') /\ batch'.tries = batch.tries
    BY <1>1, <1>3, <1>6 DEF Downloaded, ReplaceFails, ExtractEncoder
  <2>2. lucky' \in BOOLEAN
    BY <1>6 DEF BatchTypeOK, Downloaded, ReplaceFails, ExtractEncoder
  <2>3. have' \in {have, [have EXCEPT ![Ahead] = "whole"], [have EXCEPT ![Ahead] = "absent"]}
    BY <1>6 DEF Downloaded, ReplaceFails, ExtractEncoder
  <2>4. have' \in [Items -> {"absent", "broken", "whole"}]
    BY <2>3 DEF BatchTypeOK
  <2>5. archive' \subseteq Encoders
    BY <1>6 DEF BatchTypeOK, Downloaded, ReplaceFails, ExtractEncoder
  <2>. QED
    BY <1>1, <2>1, <2>2, <2>4, <2>5 DEF BatchTypeOK
<1>7. CASE CleanArchive \/ NotCleaned
  <2>1. Shaped(batch') /\ batch'.tries = batch.tries
    BY <1>1, <1>3, <1>7 DEF CleanArchive, NotCleaned
  <2>2. lucky' \in {lucky, FALSE} /\ have' = have /\ archive' \subseteq archive
    BY <1>7 DEF CleanArchive, NotCleaned
  <2>. QED
    BY <1>1, <2>1, <2>2 DEF BatchTypeOK
<1>. QED
  BY <1>4, <1>5, <1>6, <1>7 DEF ModelsPart, BatchStep, BatchFails

\* The invariant of a repair holds until a load comes across its swap, where the
\* program ends or the disk fails, but not both, and is kept beside the provisioning
\* of everything else.
THEOREM RepairInvariant ==
  ProvisioningSpec /\ (Takes("pyannote") => Fits) => [](RepairOrNone /\ BatchTypeOK)
<1>. DEFINE Inv == RepairOrNone /\ BatchTypeOK
<1>1. ProvisioningInit /\ (Takes("pyannote") => Fits) => Inv
  <2>. SUFFICES ASSUME ProvisioningInit, Takes("pyannote") => Fits PROVE Inv
    OBVIOUS
  <2>1. PyannoteInit /\ ModelsInit /\ asked = 0 /\ (~Takes("pyannote") => tree = None)
    BY DEF ProvisioningInit
  <2>2. ASSUME Takes("pyannote") PROVE RepairInv
    <3>1. NoJob \in JobRecord /\ NoLoad \in LoadRecord /\ NoJob.pc = "idle" /\ NoLoad.pc = "off"
      BY DEF NoJob, NoLoad, JobRecord, LoadRecord
    <3>2. tree \in TreeRecord \cup {None} /\ (tree # None => ~tree.owned)
      BY <2>1, PyannoteAssumption DEF PyannoteInit
    <3>3. everReady \in BOOLEAN /\ (everReady => Ready(tree))
      BY <2>1 DEF PyannoteInit, Ready, Whole
    <3>4. PyannoteTypeOK
      BY <2>1, <3>1, <3>2, <3>3 DEF PyannoteTypeOK, PyannoteInit
    <3>5. Over
      BY <2>1, <3>1, <3>3 DEF PyannoteInit, Over, Recoverable, Stays, Left, Owned
    <3>6. Around
      BY <2>1, <3>1 DEF PyannoteInit, Around, Outside
    <3>. QED
      BY <2>1, <2>2, <3>1, <3>4, <3>5, <3>6 DEF RepairInv, Outside, PyannoteInit
  <2>3. ASSUME ~Takes("pyannote") PROVE NoRuntime
    BY <2>1, <2>3 DEF PyannoteInit, NoRuntime, Ready, Whole
  <2>4. BatchTypeOK
    BY <2>1, ModelsAssumption DEF ModelsInit, NoBatch, BatchTypeOK
  <2>. QED
    BY <2>2, <2>3, <2>4 DEF RepairOrNone
<1>2. Inv /\ [ProvisioningNext]_provisioning => Inv'
  <2>. SUFFICES ASSUME Inv, [ProvisioningNext]_provisioning PROVE Inv'
    OBVIOUS
  <2>1. who' = who /\ (Takes("pyannote") <=> Takes("pyannote")')
    BY DEF ProvisioningNext, provisioning, Takes
  <2>2. ASSUME UNCHANGED <<tree, backups, stage, job, load, loaded, history, asked>>
        PROVE  RepairOrNone'
    BY <2>1, <2>2 DEF history, Wiped, Pending, RepairOrNone, RepairInv, NoRuntime, PyannoteTypeOK, Fits, Around, JobIsAt,
         Over,
         Recoverable, Stays, OwnedIsReady, LeftIsReady, Owned, Left, BackedUp, Untouched, ToVerify, Built,
         Staged, StageIs, Kept, Ready, Whole, Committed, Yields, Takes
  <2>3. CASE RuntimePart
    <3>1. UNCHANGED downloads
      BY <2>3 DEF RuntimePart
    <3>. QED
      BY <2>2, <2>3, <3>1 DEF RuntimePart, downloads, BatchTypeOK
  <2>4. CASE PyannotePart
    <3>1. BatchTypeOK'
      BY <2>4 DEF PyannotePart, downloads, BatchTypeOK
    <3>2. Takes("pyannote")
      BY <2>4 DEF PyannotePart
    <3>. QED
      BY <2>1, <2>4, <3>1, <3>2, RepairStepKeeps, CrossedStays DEF RepairOrNone
  <2>5. CASE ModelsPart
    BY <2>2, <2>5, BatchTypes DEF ModelsPart
  <2>6. CASE ProgramEnds
    <3>1. BatchTypeOK'
      BY <2>6, BatchTypes DEF ProgramEnds
    <3>2. CASE Takes("pyannote")
      BY <2>1, <2>6, <3>1, <3>2, EndOfProgramKeeps, CrossedStays DEF ProgramEnds, RepairOrNone
    <3>3. CASE ~Takes("pyannote")
      BY <2>1, <2>6, <3>1, <3>3 DEF ProgramEnds, RepairOrNone, NoRuntime, PyannoteCrash
    <3>. QED
      BY <3>2, <3>3
  <2>7. CASE UNCHANGED provisioning
    BY <2>2, <2>7 DEF provisioning, pyannote, downloads, BatchTypeOK
  <2>. QED
    BY <2>3, <2>4, <2>5, <2>6, <2>7 DEF ProvisioningNext
<1>. QED
  BY <1>1, <1>2, PTL DEF ProvisioningSpec

\* A repair keeps a diarization runtime that works, says "completed" only of one
\* that is ready, and leaves nothing of itself behind: for every directory there may
\* be at the start, however probes, downloads, renames and tokens come out, with
\* loads of the settings beside it and the end of the program at any of its steps, as
\* long as no load comes across the swap itself (provisioning_install_pyannote,
\* recover_interrupted_pyannote_swap_if_needed).
THEOREM RepairIsSafe ==
  ProvisioningSpec /\ (Takes("pyannote") => Fits)
    => [](ReadyRuntimeSurvives /\ CompletedIsReady /\ (~crossed => NothingLeftBehind))
<1>. DEFINE Safe == ReadyRuntimeSurvives /\ CompletedIsReady /\ (~crossed => NothingLeftBehind)
<1>1. RepairOrNone => Safe
  <2>. SUFFICES ASSUME RepairOrNone, ~crossed PROVE Safe
    BY DEF ReadyRuntimeSurvives, CompletedIsReady
  <2>1. ASSUME NoRuntime PROVE Safe
    BY <2>1 DEF NoRuntime, NoJob, ReadyRuntimeSurvives, CompletedIsReady, NothingLeftBehind
  <2>2. ASSUME RepairInv PROVE Safe
    <3>1. job.pc \in {"idle", "end"} => Over
      BY <2>2 DEF RepairInv, Outside
    <3>2. backups # <<>> => 1 \in DOMAIN backups
      BY <2>2 DEF RepairInv, PyannoteTypeOK
    <3>3. ReadyRuntimeSurvives
      BY <2>2, <3>1, <3>2 DEF ReadyRuntimeSurvives, Settled, Over, Recoverable, Stays,
           OwnedIsReady, LeftIsReady, Owned, Left
    <3>4. CompletedIsReady /\ NothingLeftBehind
      BY <3>1 DEF CompletedIsReady, NothingLeftBehind, Settled, Over
    <3>. QED
      BY <3>3, <3>4
  <2>. QED
    BY <2>1, <2>2 DEF RepairOrNone
<1>. QED
  BY <1>1, RepairInvariant, PTL

(***************************************************************************)
(* Updates of the app: for every sequence of releases and whatever stands  *)
(* in the directory at the start, a runtime that counts as ready was       *)
(* probed, and a plan never starts anything for a verified one.            *)
(***************************************************************************)
\* A receipt, valid or not, stands only beside the content it was made for.
UpgradeInv ==
  /\ IsDirectory(dir) /\ DOMAIN plan = DOMAIN NoPlan
  /\ dir.receipt.there => dir.content \in probed
  /\ VerifiedIsLeftAlone

\* The first of the reasons against a directory.
LEMMA LeastReason ==
  ASSUME NEW S, S \subseteq 1 .. 9, S # {}
  PROVE  \E i \in S : \A j \in S : i <= j
<1>1. CASE 1 \in S BY <1>1
<1>2. CASE 1 \notin S /\ 2 \in S BY <1>2
<1>3. CASE S \cap {1, 2} = {} /\ 3 \in S BY <1>3
<1>4. CASE S \cap {1, 2, 3} = {} /\ 4 \in S BY <1>4
<1>5. CASE S \cap {1, 2, 3, 4} = {} /\ 5 \in S BY <1>5
<1>6. CASE S \cap {1, 2, 3, 4, 5} = {} /\ 6 \in S BY <1>6
<1>7. CASE S \cap {1, 2, 3, 4, 5, 6} = {} /\ 7 \in S BY <1>7
<1>8. CASE S \cap {1, 2, 3, 4, 5, 6, 7} = {} /\ 8 \in S BY <1>8
<1>9. CASE S \cap {1, 2, 3, 4, 5, 6, 7, 8} = {}
  <2>1. \A j \in S : j = 9
    <3>. TAKE j \in S
    <3>1. j \in 1 .. 9 /\ j \notin {1, 2, 3, 4, 5, 6, 7, 8}
      BY <1>9
    <3>. QED BY <3>1
  <2>2. PICK k : k \in S
    OBVIOUS
  <2>. QED BY <2>1, <2>2
<1>. QED
  BY <1>1, <1>2, <1>3, <1>4, <1>5, <1>6, <1>7, <1>8, <1>9

\* Health calls no directory ready that has no receipt.
LEMMA ReadyHasReceipt ==
  ASSUME NEW d, IsDirectory(d), NEW needed, PyannoteReady(d, needed)
  PROVE  d.receipt.there
<1>1. CASE TrustsCached(d, needed)
  BY <1>1 DEF TrustsCached, ValidReceipt
<1>2. CASE ~TrustsCached(d, needed)
  <2>. DEFINE reasons == Reasons(d, needed)
              against == {i \in DOMAIN reasons : reasons[i][1]}
  <2>1. FirstReason(reasons) = "ok"
    BY <1>2 DEF PyannoteReady, PyannoteReason
  <2>2. /\ DOMAIN reasons = 1 .. 9 /\ (reasons[9][1] <=> ~d.receipt.there)
        /\ \A i \in 1 .. 9 : reasons[i][1] => reasons[i][2] # "ok"
    <3>1. DOMAIN reasons = 1 .. 9
      BY DEF Reasons
    <3>2. reasons[9][1] <=> ~d.receipt.there
      BY DEF Reasons
    <3>3. ASSUME NEW i \in 1 .. 9, reasons[i][1]
          PROVE  reasons[i][2] # "ok"
      <4>1. i = 1 \/ i = 2 \/ i = 3 \/ i = 4 \/ i = 5 \/ i = 6 \/ i = 7 \/ i = 8 \/ i = 9
        OBVIOUS
      <4>2. reasons[2][1] => reasons[2][2] # "ok"
        BY DEF Reasons
      <4>3. /\ reasons[1][2] # "ok" /\ reasons[3][2] # "ok" /\ reasons[4][2] # "ok"
            /\ reasons[5][2] # "ok" /\ reasons[6][2] # "ok" /\ reasons[7][2] # "ok"
            /\ reasons[8][2] # "ok" /\ reasons[9][2] # "ok"
        BY DEF Reasons
      <4>. HIDE DEF reasons
      <4>. QED
        BY <3>3, <4>1, <4>2, <4>3
    <3>. QED
      BY <3>1, <3>2, <3>3
  <2>. HIDE DEF reasons
  <2>3. CASE against = {}
    BY <2>2, <2>3
  <2>4. CASE against # {}
    <3>1. against \subseteq 1 .. 9
      BY <2>2
    <3>2. PICK first : first = CHOOSE i \in against : \A j \in against : i <= j
      OBVIOUS
    <3>3. first \in against
      BY <2>4, <3>1, <3>2, LeastReason
    <3>4. FirstReason(reasons) = reasons[first][2]
      BY <2>4, <3>2 DEF FirstReason
    <3>. QED
      BY <2>1, <2>2, <3>3, <3>4
  <2>. QED
    BY <2>3, <2>4
<1>. QED
  BY <1>1, <1>2

\* A change of the status keeps the content and the receipt.
LEMMA StatusFits ==
  ASSUME NEW d, IsDirectory(d), NEW status
  PROVE  LET e == [d EXCEPT !.status = status] IN
         IsDirectory(e) /\ e.content = d.content /\ e.receipt = d.receipt
BY DEF IsDirectory, EmptyDirectory

\* So does a loss of the receipt.
LEMMA BareFits ==
  ASSUME NEW d, IsDirectory(d), NEW status
  PROVE  LET e == [d EXCEPT !.status = status, !.receipt = NoReceipt] IN
         IsDirectory(e) /\ ~e.receipt.there
<1>. DEFINE e == [d EXCEPT !.status = status, !.receipt = NoReceipt]
<1>1. DOMAIN e = DOMAIN d /\ e.receipt = NoReceipt /\ e.manifest = d.manifest
  BY DEF IsDirectory, EmptyDirectory
<1>2. ~NoReceipt.there
  BY DEF NoReceipt
<1>. HIDE DEF e
<1>3. IsDirectory(e) /\ ~e.receipt.there
  BY <1>1, <1>2 DEF IsDirectory
<1>. QED
  BY <1>3 DEF e

\* The directories that an installation leaves.
LEMMA NewDirectoryFits ==
  ASSUME NEW kind
  PROVE  IsDirectory(NewDirectory(kind))
BY DEF NewDirectory, IsDirectory, Receipt, EmptyDirectory, NoManifest, NoReceipt

LEMMA EmptyFits == IsDirectory(EmptyDirectory) /\ ~EmptyDirectory.receipt.there
BY DEF IsDirectory, EmptyDirectory, NoReceipt

\* Whatever an installation comes to, a receipt that is there afterwards was
\* made for what was probed.
LEMMA ReplaceKeeps ==
  ASSUME UpgradeInv, NEW kind, Replace(kind)
  PROVE  IsDirectory(dir') /\ (dir'.receipt.there => dir'.content \in probed')
<1>1. CASE dir' = NewDirectory(kind) /\ probed' = probed \cup {dir'.content}
  BY <1>1, NewDirectoryFits
<1>2. CASE UNCHANGED <<dir, probed>>
  BY <1>2 DEF UpgradeInv
<1>3. CASE /\ \E status \in {"cancelled", "pyannote_install_incomplete",
                             "pyannote_repair_required"} :
                dir' = [NothingInstalled(kind) EXCEPT !.status = status]
           /\ UNCHANGED probed
  <2>1. PICK status : dir' = [NothingInstalled(kind) EXCEPT !.status = status]
    BY <1>3
  <2>2. CASE kind = "bundled"
    BY <2>1, <2>2, EmptyFits, StatusFits DEF NothingInstalled
  <2>3. CASE kind # "bundled"
    BY <1>3, <2>1, <2>3, StatusFits DEF NothingInstalled, UpgradeInv
  <2>. QED
    BY <2>2, <2>3
<1>4. CASE /\ dir' = [NewDirectory(kind) EXCEPT !.status = "pyannote_import_load_failed",
                                                !.receipt = NoReceipt]
           /\ UNCHANGED probed
  BY <1>4, NewDirectoryFits, BareFits
<1>5. CASE /\ dir' = [NewDirectory(kind) EXCEPT !.status = "pyannote_install_incomplete"]
           /\ probed' = probed \cup {dir'.content}
  BY <1>5, NewDirectoryFits, StatusFits
<1>. QED
  BY <1>1, <1>2, <1>3, <1>4, <1>5 DEF Replace

LEMMA VerifyKeeps ==
  ASSUME UpgradeInv, VerifyExisting
  PROVE  IsDirectory(dir') /\ (dir'.receipt.there => dir'.content \in probed')
<1>1. ASSUME NEW status, Says(status)
      PROVE  IsDirectory(dir') /\ (dir'.receipt.there => dir'.content \in probed')
  BY <1>1, StatusFits DEF Says, UpgradeInv
<1>2. CASE UNCHANGED <<dir, probed>>
  BY <1>2 DEF UpgradeInv
<1>3. CASE /\ probed' = probed \cup {dir.content}
           /\ \/ dir' = [dir EXCEPT !.status = "pyannote_install_incomplete"]
              \/ \E status \in {dir.status, "ok"} :
                   dir' = [dir EXCEPT !.receipt = Receipt(dir.manifest), !.status = status]
  <2>1. CASE dir' = [dir EXCEPT !.status = "pyannote_install_incomplete"]
    BY <1>3, <2>1, StatusFits DEF UpgradeInv
  <2>2. ASSUME NEW status,
               dir' = [dir EXCEPT !.receipt = Receipt(dir.manifest), !.status = status]
        PROVE  IsDirectory(dir') /\ dir'.content = dir.content
    <3>1. DOMAIN Receipt(dir.manifest) = DOMAIN NoReceipt
      BY DEF Receipt, NoReceipt
    <3>. QED
      BY <2>2, <3>1 DEF UpgradeInv, IsDirectory, EmptyDirectory
  <2>. QED
    BY <1>3, <2>1, <2>2
<1>. QED
  BY <1>1, <1>2, <1>3 DEF VerifyExisting

LEMMA InstallKeeps ==
  ASSUME UpgradeInv, NEW force, RequestInstall(force)
  PROVE  IsDirectory(dir') /\ (dir'.receipt.there => dir'.content \in probed')
BY VerifyKeeps, ReplaceKeeps DEF RequestInstall

\* A plan: none, or one that starts something for a runtime that is not verified.
Harmless(p) == DOMAIN p = DOMAIN NoPlan /\ (p.starts => ~p.verified)

LEMMA PlanIsHarmless ==
  ASSUME NEW status, NEW force, NEW slow, ~Verified(slow)
  PROVE  Harmless(Plan(status, force, slow))
BY DEF Harmless, Plan, NoPlan

LEMMA NoPlanIsHarmless ==
  ASSUME NEW status
  PROVE  Harmless(NoPlan) /\ Harmless([NoPlan EXCEPT !.status = status])
BY DEF Harmless, NoPlan

\* From the health: a verified runtime has the reason "ok".
LEMMA PlanForKeeps ==
  ASSUME NEW enabled
  PROVE  Harmless(PlanFor(PyannoteReason(dir, Level), enabled))
<1>. DEFINE reason == PyannoteReason(dir, Level)
<1>1. CASE reason = "ok"
  <2>1. PlanFor("ok", enabled) = NoPlan
    BY DEF PlanFor, MigrateReasons, ProbeReasons, MissingReasons, RepairReasons
  <2>. QED
    BY <1>1, <2>1, NoPlanIsHarmless
<1>2. CASE reason # "ok"
  <2>1. ~Verified(FALSE)
    BY <1>2 DEF Verified, PyannoteReason
  <2>2. \A status, force : Harmless(Plan(status, force, FALSE))
    BY <2>1, PlanIsHarmless
  <2>. HIDE DEF reason
  <2>3. \/ PlanFor(reason, enabled) = NoPlan
        \/ \E status, force : PlanFor(reason, enabled) = Plan(status, force, FALSE)
    BY <1>2 DEF PlanFor, MigrateReasons, ProbeReasons, MissingReasons, RepairReasons
  <2>. QED
    BY <2>2, <2>3, NoPlanIsHarmless DEF reason
<1>. QED
  BY <1>1, <1>2

\* From the assets of the release: what is verified is of it, is whole, and its
\* receipt fits.
LEMMA ReconcileKeeps ==
  ASSUME UpgradeInv, NEW slow, Reconciles, Reconcile(slow)
  PROVE  /\ Harmless(plan')
         /\ IsDirectory(dir') /\ dir'.content = dir.content /\ dir'.receipt = dir.receipt
<1>1. CASE LayoutIsWhole(dir, slow) /\ MatchesRelease
  <2>1. dir' = Migrated
    BY <1>1 DEF Reconcile
  <2>2. IsDirectory(dir') /\ dir'.content = dir.content /\ dir'.receipt = dir.receipt
    BY <2>1 DEF Migrated, UpgradeInv, IsDirectory, EmptyDirectory, NoManifest
  <2>3. CASE ReceiptFits
    BY <1>1, <2>2, <2>3, NoPlanIsHarmless DEF Reconcile
  <2>4. CASE ~ReceiptFits
    <3>1. ~Verified(slow)
      BY <2>4 DEF ReceiptFits, Verified, TrustsCached, MatchesHost, SupportsCompat, ValidReceipt,
                  Reconciles
    <3>. QED
      BY <1>1, <2>2, <2>4, <3>1, PlanIsHarmless DEF Reconcile
  <2>. QED
    BY <2>3, <2>4
<1>2. CASE ~(LayoutIsWhole(dir, slow) /\ MatchesRelease)
  <2>1. ~Verified(slow)
    BY <1>2 DEF LayoutIsWhole, MatchesRelease, Verified, TrustsCached, HasBoth, MatchesHost,
                SupportsCompat, Reconciles
  <2>2. plan' = Plan("migrate_assets", TRUE, slow) /\ dir' = dir
    BY <1>2 DEF Reconcile
  <2>. QED
    BY <2>1, <2>2, PlanIsHarmless DEF UpgradeInv
<1>. QED
  BY <1>1, <1>2

LEMMA MakePlanKeeps ==
  ASSUME UpgradeInv, NEW fluid, NEW reachable, NEW enabled, MakePlan(fluid, reachable, enabled)
  PROVE  UpgradeInv'
<1>1. Harmless(plan')
      /\ IsDirectory(dir') /\ dir'.content = dir.content /\ dir'.receipt = dir.receipt
  <2>1. CASE fluid
    BY <2>1, NoPlanIsHarmless DEF MakePlan, UpgradeInv
  <2>2. CASE ~fluid /\ Reconciles /\ reachable /\ dir.manifest.arch
    <3>1. PICK slow \in BOOLEAN : Reconcile(slow)
      BY <2>2 DEF MakePlan
    <3>. QED
      BY <2>2, <3>1, ReconcileKeeps
  <2>3. CASE ~fluid /\ ~(Reconciles /\ reachable /\ dir.manifest.arch)
    <3>1. plan' = PlanFor(PyannoteReason(dir, Level), enabled) /\ dir' = Backfilled(dir, Level)
      BY <2>3 DEF MakePlan
    <3>2. IsDirectory(dir') /\ dir'.content = dir.content /\ dir'.receipt = dir.receipt
      BY <3>1 DEF Backfilled, UpgradeInv, IsDirectory, EmptyDirectory, NoManifest
    <3>. QED
      BY <3>1, <3>2, PlanForKeeps
  <2>. QED
    BY <2>1, <2>2, <2>3
<1>. QED
  BY <1>1 DEF MakePlan, UpgradeInv, Harmless, VerifiedIsLeftAlone

\* A runtime that counts as ready is one whose very content was probed, over
\* any sequence of updates, repairs, migrations and damages; and a plan starts
\* nothing for a runtime that is verified (plan_pyannote_background_action,
\* reconcile_managed_pyannote_release_assets).
THEOREM ProbedIsKept == UpgradeSpec => []UpgradeKeepsProbed
<1>1. UpgradeInit => UpgradeInv
  BY DirectoriesAssumption DEF UpgradeInit, UpgradeInv, NoPlan, VerifiedIsLeftAlone
<1>2. UpgradeInv /\ [UpgradeNext]_upgrade => UpgradeInv'
  <2>. SUFFICES ASSUME UpgradeInv, [UpgradeNext]_upgrade
                PROVE  UpgradeInv'
    OBVIOUS
  <2>1. CASE UpdateApp
    BY <2>1 DEF UpdateApp, UpgradeInv, NoPlan, VerifiedIsLeftAlone
  <2>2. CASE Damage
    <3>1. /\ IsDirectory(dir') /\ dir'.content = dir.content
          /\ dir'.receipt.there => dir.receipt.there
      BY <2>2 DEF Damage, UpgradeInv, IsDirectory, EmptyDirectory, NoManifest, NoReceipt
    <3>. QED
      BY <2>2, <3>1 DEF Damage, UpgradeInv, VerifiedIsLeftAlone
  <2>3. CASE CarryOut
    BY <2>3, InstallKeeps DEF CarryOut, UpgradeInv, NoPlan, VerifiedIsLeftAlone
  <2>4. CASE UserInstalls
    BY <2>4, InstallKeeps DEF UserInstalls, UpgradeInv, VerifiedIsLeftAlone
  <2>5. ASSUME NEW fluid \in BOOLEAN, NEW reachable \in BOOLEAN, NEW enabled \in BOOLEAN,
               MakePlan(fluid, reachable, enabled)
        PROVE  UpgradeInv'
    BY <2>5, MakePlanKeeps
  <2>6. CASE UNCHANGED upgrade
    BY <2>6 DEF upgrade, UpgradeInv, VerifiedIsLeftAlone
  <2>. QED
    BY <2>1, <2>2, <2>3, <2>4, <2>5, <2>6 DEF UpgradeNext
<1>3. UpgradeInv => UpgradeKeepsProbed
  <2>. SUFFICES ASSUME UpgradeInv, PyannoteReady(dir, Level) PROVE dir.content \in probed
    BY DEF UpgradeInv, UpgradeKeepsProbed, ReadyIsProbed
  <2>. QED
    BY ReadyHasReceipt DEF UpgradeInv
<1>. QED
  BY <1>1, <1>2, <1>3, PTL DEF UpgradeSpec

(***************************************************************************)
(* Importing a backup.  What a loop has done is what it has passed; the    *)
(* rest of the invariant says, for every step of the import, where the     *)
(* paths of the two archives are: passed and not passed, moved or made     *)
(* anew by a command that opened the database meanwhile.                   *)
(***************************************************************************)
MainPaths == {"db", "vault"}

\* A loop has dealt with a path that stands before the one it is at.
Position == [path \in ArchivePaths |->
  CASE path = "db" -> 1 [] path = "wal" -> 2 [] path = "shm" -> 3 [] path = "vault" -> 4]
Passed(path) == Position[path] < at

BackupFiles ==
  /\ data \in [ArchivePaths -> PathStates] /\ kept \in [ArchivePaths -> PathStates]
  /\ staged \in [ArchivePaths -> {"absent", "new"}]
  /\ before \in [ArchivePaths -> {"absent", "old"}] /\ before["db"] = "old" /\ before["vault"] = "old"
  /\ moved \subseteq ArchivePaths /\ stuck \subseteq ArchivePaths
  /\ moved # {} => "db" \in moved
  /\ ~disturbed => \A path \in moved : before[path] = "old"

BackupCommand ==
  /\ applied \in {"old", "new"} /\ at \in 1..4 /\ cause \in {"none", "swap", "settings"}
  /\ disturbed \in BOOLEAN /\ used \in BOOLEAN /\ (disturbed => used)

\* The command stands where its cause and answer say.
BackupStands ==
  /\ answer # "none" => step = "returned"
  /\ step \in {"idle", "preparing", "moving out", "moving in", "settings"} => cause = "none" /\ stuck = {}
  /\ step \in {"removing", "moving back"} => cause # "none"
  /\ step = "failing" => cause = "swap"
  /\ step = "settings back" => cause = "settings"
  /\ step = "cleaning" => cause \in {"none", "settings"} /\ (cause = "none" => applied = "new")

\* The import has touched nothing yet.
NotBegun ==
  step \in {"idle", "preparing"} =>
    /\ moved = {} /\ kept = Empty /\ ~disturbed /\ ~used
    /\ \A path \in MainPaths : data[path] = "old"
    /\ \A side \in SideFiles : data[side] \in {"absent", "old"}

\* What the first loop has passed is kept, and nothing of it is left but what a
\* command made anew.
MovingOut ==
  step = "moving out" =>
    /\ staged["db"] = "new"
    /\ \A path \in MainPaths :
         IF Passed(path) THEN path \in moved /\ kept[path] = "old" /\ data[path] # "old"
         ELSE path \notin moved /\ data[path] = "old"
    /\ \A side \in SideFiles :
         IF Passed(side) THEN data[side] # "old" ELSE side \notin moved
    /\ ~disturbed => \A path \in ArchivePaths :
         IF Passed(path) THEN kept[path] = before[path] /\ data[path] = "absent"
         ELSE data[path] = before[path] /\ kept[path] = "absent"

KeptWhole ==
  /\ MainPaths \subseteq moved
  /\ \A path \in MainPaths : kept[path] = "old"
  /\ ~disturbed => \A side \in SideFiles : kept[side] = before[side]

MovingIn ==
  step = "moving in" =>
    /\ KeptWhole
    /\ \A path \in ArchivePaths : data[path] # "old"
    /\ IF Passed("db") THEN data["db"] = "new" ELSE staged["db"] = "new"
    /\ ~disturbed => \A side \in SideFiles :
         data[side] \in {"absent", "new"} /\ (~Passed(side) => data[side] = "absent")

InPlace ==
  step = "settings" \/ (step = "cleaning" /\ cause = "none") =>
    /\ KeptWhole
    /\ \A path \in ArchivePaths : data[path] # "old"
    /\ data["db"] = "new"

\* What was kept when the old archive began to be put back.
ToPutBack ==
  /\ cause = "settings" => MainPaths \subseteq moved
  /\ ~disturbed => \A side \in SideFiles :
       kept[side] \in {"absent", "old"} /\ (kept[side] = "old" => "db" \in moved)

Removing ==
  step = "removing" =>
    /\ ToPutBack
    /\ \A path \in MainPaths \cap moved : kept[path] = "old"
    /\ ~disturbed =>
         /\ \A side \in SideFiles :
              (side \in moved => kept[side] = "old") /\ (cause = "settings" => kept[side] = before[side])
         /\ \A path \in ArchivePaths \ stuck : Passed(path) => data[path] = "absent"

MovingBack ==
  step = "moving back" =>
    /\ ToPutBack
    /\ \A path \in MainPaths \cap moved : IF Passed(path) THEN data[path] = "old" ELSE kept[path] = "old"
    /\ ~disturbed =>
         /\ \A side \in SideFiles :
              IF Passed(side) THEN cause = "settings" => side \in stuck \/ data[side] = before[side]
              ELSE /\ side \in moved => kept[side] = "old"
                   /\ cause = "settings" => kept[side] = before[side]
         /\ \A path \in ArchivePaths \ stuck : ~Passed(path) => data[path] = "absent"

BackInPlace ==
  step \in {"failing", "settings back"} \/ (step = "cleaning" /\ cause = "settings") =>
    /\ \A path \in MainPaths \cap moved : data[path] = "old"
    /\ cause = "settings" =>
         MainPaths \subseteq moved /\ (~used => \A side \in SideFiles \ stuck : data[side] = before[side])

\* Where a path of the old archive is, as long as the import has not succeeded.
OldIsSomewhere ==
  Swapping /\ answer # "imported" =>
    /\ \A path \in MainPaths : path \in moved \/ cause # "swap" => "old" \in {data[path], kept[path]}
    /\ ~disturbed => \A side \in SideFiles : before[side] = "old" /\ (side \in moved \/ cause # "swap") =>
         \/ kept[side] = "old" \/ data["db"] = "old"
         \/ (Renaming \/ step = "crashed") /\ data[side] = "old"

\* Outside the loops the side files are those of the database, or absent with it.
Match == \A side \in SideFiles : data[side] \in {"absent", data["db"]}
MatchOutside ==
  stuck = {} /\ ~disturbed /\ step \notin {"moving out", "removing", "crashed"} => Match

BackupInv ==
  /\ BackupFiles /\ BackupCommand /\ BackupStands
  /\ NotBegun /\ MovingOut /\ MovingIn /\ InPlace /\ Removing /\ MovingBack /\ BackInPlace
  /\ OldIsSomewhere /\ MatchOutside /\ SideFilesMatch /\ ImportIsWhole /\ FailedSettingsRestore

LEMMA ThePaths ==
  /\ ArchivePaths = {"db", "vault", "wal", "shm"} /\ SideFiles = {"wal", "shm"}
  /\ \A path \in ArchivePaths : path \in MainPaths \/ path \in SideFiles
  /\ MainPaths \subseteq ArchivePaths /\ SideFiles \subseteq ArchivePaths
  /\ "db" \in MainPaths /\ "vault" \in MainPaths
BY DEF ArchivePaths, SideFiles, MainPaths

\* The path a loop is at.
LEMMA PathIs ==
  ASSUME at \in 1..4
  PROVE  /\ Path \in ArchivePaths /\ Position[Path] = at /\ Len(Order) = 4
         /\ \A path \in ArchivePaths : Position[path] \in 1..4 /\ (Position[path] = at <=> path = Path)
<1>1. Len(Order) = 4
  BY DEF Order
<1>2. Order[1] = "db" /\ Order[2] = "wal" /\ Order[3] = "shm" /\ Order[4] = "vault"
  BY DEF Order
<1>3. Position["db"] = 1 /\ Position["wal"] = 2 /\ Position["shm"] = 3 /\ Position["vault"] = 4
  BY ThePaths DEF Position
<1>. QED
  BY <1>1, <1>2, <1>3, ThePaths DEF Path

LEMMA Positions ==
  /\ \A path \in ArchivePaths : Position[path] \in 1..4 /\ Position["db"] <= Position[path]
  /\ at \in 1..4 => \A path \in ArchivePaths : Passed(path) => Passed("db")
<1>1. Position["db"] = 1 /\ Position["wal"] = 2 /\ Position["shm"] = 3 /\ Position["vault"] = 4
  BY ThePaths DEF Position
<1>. QED
  BY <1>1, ThePaths DEF Passed

\* A loop begins with no path passed, and passes one after the other.
LEMMA LoopBegins == ASSUME at' = 1 PROVE \A path \in ArchivePaths : ~Passed(path)'
BY Positions DEF Passed

\* A loop passes the path it was at, and then the next loop begins.
LEMMA LoopGoesOn ==
  ASSUME at \in 1..4, NEW next, Continue(next)
  PROVE  /\ at' \in 1..4
         /\ \/ /\ step' = step
               /\ \A path \in ArchivePaths : Passed(path)' <=> Passed(path) \/ path = Path
            \/ /\ step' = next
               /\ \A path \in ArchivePaths : (Passed(path) \/ path = Path) /\ ~Passed(path)'
<1>1. /\ Len(Order) = 4
      /\ \A path \in ArchivePaths : Position[path] \in 1..4 /\ (Position[path] = at <=> path = Path)
  BY PathIs
<1>2. CASE at < 4
  <2>1. at' = at + 1 /\ step' = step
    BY <1>1, <1>2 DEF Continue
  <2>2. \A path \in ArchivePaths : Passed(path)' <=> Passed(path) \/ path = Path
    BY <2>1, <1>1 DEF Passed
  <2>. QED
    BY <1>2, <2>1, <2>2
<1>3. CASE at = 4
  <2>1. at' = 1 /\ step' = next
    BY <1>1, <1>3 DEF Continue, ProceedTo
  <2>2. \A path \in ArchivePaths : Passed(path) \/ path = Path
    BY <1>3, <1>1 DEF Passed
  <2>. QED
    BY <1>3, <2>1, <2>2, LoopBegins
<1>. QED
  BY <1>2, <1>3

LEMMA InitBackup == BackupInit => BackupInv
<1>. SUFFICES ASSUME BackupInit PROVE BackupInv
  OBVIOUS
<1>1. /\ data \in [ArchivePaths -> {"absent", "old"}] /\ data["db"] = "old" /\ data["vault"] = "old"
      /\ step = "idle" /\ answer = "none" /\ cause = "none" /\ at = 1 /\ applied = "old"
      /\ staged = Empty /\ kept = Empty /\ before = data /\ moved = {} /\ stuck = {}
      /\ disturbed = FALSE /\ used = FALSE
  BY DEF BackupInit, Archives
<1>2. BackupFiles /\ BackupCommand /\ BackupStands
  <2>1. /\ Empty \in [ArchivePaths -> PathStates] /\ Empty \in [ArchivePaths -> {"absent", "new"}]
        /\ data \in [ArchivePaths -> PathStates]
    BY <1>1 DEF Empty, PathStates
  <2>2. BackupFiles
    BY <1>1, <2>1, ThePaths DEF BackupFiles
  <2>3. 1 \in 1..4
    OBVIOUS
  <2>. QED
    BY <1>1, <2>2, <2>3 DEF BackupCommand, BackupStands
<1>3. NotBegun /\ MovingOut /\ MovingIn /\ InPlace /\ Removing /\ MovingBack /\ BackInPlace
  BY <1>1, ThePaths DEF NotBegun, MovingOut, MovingIn, InPlace, Removing, MovingBack, BackInPlace, MainPaths
<1>4. OldIsSomewhere /\ MatchOutside /\ SideFilesMatch /\ ImportIsWhole /\ FailedSettingsRestore
  BY <1>1, ThePaths DEF OldIsSomewhere, Swapping, MatchOutside, Match, SideFilesMatch, ImportIsWhole,
     FailedSettingsRestore
<1>. QED
  BY <1>2, <1>3, <1>4 DEF BackupInv

\* What a command on the archive may do to the data directory.
LEMMA StoreTouches ==
  ASSUME BackupFiles, BackupCommand, StoreStep
  PROVE  /\ UNCHANGED <<staged, kept, applied, step, at, cause, answer, before, moved, stuck>>
         /\ data' \in [ArchivePaths -> PathStates]
         /\ \A path \in MainPaths : data'[path] = data[path] \/ (data[path] = "absent" /\ data'[path] = "blank")
         /\ \A side \in SideFiles : data'[side] \in {data[side], "absent", data'["db"]}
         /\ Match => Match'
         /\ data' = data => disturbed' = disturbed /\ used' = used
         /\ data' # data => disturbed' = (disturbed \/ Renaming) /\ used' = (used \/ Swapping)
         /\ disturbed' \in BOOLEAN /\ used' \in BOOLEAN /\ (disturbed' => used')
         /\ (disturbed => disturbed') /\ (used => used')
<1>. USE ThePaths
<1>1. UNCHANGED <<staged, kept, applied, step, at, cause, answer, before, moved, stuck>>
  BY DEF StoreStep, BeginTranscript, CancelTranscript, CommitSave, OpenStore, CloseStore, Touch,
     diskVars, commandVars, swapVars
<1>2. (data' = data /\ UNCHANGED <<disturbed, used>>) \/ Touch
  BY DEF StoreStep, BeginTranscript, CancelTranscript, CommitSave, OpenStore, CloseStore, diskVars, touchVars
<1>3. Renaming => Swapping
  BY DEF Renaming, Swapping
<1>4. /\ data' = data => disturbed' = disturbed /\ used' = used
      /\ data' # data => disturbed' = (disturbed \/ Renaming) /\ used' = (used \/ Swapping)
      /\ disturbed' \in BOOLEAN /\ used' \in BOOLEAN /\ (disturbed' => used')
      /\ (disturbed => disturbed') /\ (used => used')
  <2>1. disturbed \in BOOLEAN /\ used \in BOOLEAN /\ (disturbed => used)
    BY DEF BackupCommand
  <2>2. CASE data' = data /\ UNCHANGED <<disturbed, used>>
    BY <2>1, <2>2
  <2>3. CASE Touch
    <3>1. Renaming \in BOOLEAN /\ Swapping \in BOOLEAN
      BY DEF Renaming, Swapping
    <3>. QED
      BY <1>3, <2>1, <2>3, <3>1 DEF Touch
  <2>. QED
    BY <1>2, <2>2, <2>3
<1>5. data \in [ArchivePaths -> PathStates] /\ PathStates = {"absent", "old", "new", "blank"}
  BY DEF BackupFiles, PathStates
<1>6. CASE data' = data
  BY <1>1, <1>4, <1>5, <1>6 DEF Match
<1>7. ASSUME NEW c \in Connections, OpenStore(c)
      PROVE  /\ data' \in [ArchivePaths -> PathStates]
             /\ \A path \in MainPaths : data'[path] = data[path] \/ (data[path] = "absent" /\ data'[path] = "blank")
             /\ \A side \in SideFiles : data'[side] \in {data[side], "absent", data'["db"]}
             /\ Match => Match'
  <2>1. /\ Opened(data) \in [ArchivePaths -> PathStates]
        /\ Opened(data)["db"] = (IF data["db"] = "absent" THEN "blank" ELSE data["db"])
        /\ Opened(data)["vault"] = data["vault"]
        /\ \A side \in SideFiles :
             Opened(data)[side] = IF data["db"] = "absent" THEN "blank"
                                  ELSE IF data[side] = "absent" THEN data["db"] ELSE data[side]
    BY <1>5 DEF Opened
  <2>2. data' = Opened(data) \/ (data["vault"] = "absent" /\ data' = [Opened(data) EXCEPT !["vault"] = "blank"])
    BY <1>7 DEF OpenStore
  <2>. HIDE DEF Opened
  <2>3. /\ data' \in [ArchivePaths -> PathStates]
        /\ data'["db"] = Opened(data)["db"] /\ data'["wal"] = Opened(data)["wal"] /\ data'["shm"] = Opened(data)["shm"]
        /\ data'["vault"] = data["vault"] \/ (data["vault"] = "absent" /\ data'["vault"] = "blank")
    BY <1>5, <2>1, <2>2
  <2>4. \A path \in MainPaths : path = "db" \/ path = "vault"
    BY DEF MainPaths
  <2>. QED
    BY <2>1, <2>3, <2>4 DEF Match
<1>8. ASSUME NEW c \in Connections, CloseStore(c)
      PROVE  /\ data' \in [ArchivePaths -> PathStates]
             /\ \A path \in MainPaths : data'[path] = data[path]
             /\ \A side \in SideFiles : data'[side] \in {data[side], "absent"}
             /\ Match => Match'
  <2>1. data' = data \/ data' = [data EXCEPT !["wal"] = "absent", !["shm"] = "absent"]
    BY <1>8 DEF CloseStore, Closed
  <2>2. \A path \in MainPaths : path = "db" \/ path = "vault"
    BY DEF MainPaths
  <2>. QED
    BY <1>5, <2>1, <2>2 DEF Match
<1>9. data' = data \/ (\E c \in Connections : OpenStore(c) \/ CloseStore(c))
  BY DEF StoreStep, BeginTranscript, CancelTranscript, CommitSave, diskVars
<1>. QED
  BY <1>1, <1>4, <1>6, <1>7, <1>8, <1>9

LEMMA StoreKeeps == ASSUME BackupInv, StoreStep PROVE BackupInv'
<1>. USE ThePaths
<1>1. BackupFiles /\ BackupCommand
  BY DEF BackupInv
<1>2. /\ UNCHANGED <<staged, kept, applied, step, at, cause, answer, before, moved, stuck>>
      /\ data' \in [ArchivePaths -> PathStates]
      /\ \A path \in MainPaths : data'[path] = data[path] \/ (data[path] = "absent" /\ data'[path] = "blank")
      /\ \A side \in SideFiles : data'[side] \in {data[side], "absent", data'["db"]}
      /\ Match => Match'
      /\ data' = data => disturbed' = disturbed /\ used' = used
      /\ data' # data => disturbed' = (disturbed \/ Renaming) /\ used' = (used \/ Swapping)
      /\ disturbed' \in BOOLEAN /\ used' \in BOOLEAN /\ (disturbed' => used')
      /\ (disturbed => disturbed') /\ (used => used')
  BY <1>1, StoreTouches
<1>3. \A path \in ArchivePaths : Passed(path)' <=> Passed(path)
  BY <1>2 DEF Passed
<1>4. at \in 1..4 /\ \A path \in ArchivePaths : Passed(path) => Passed("db")
  BY <1>1, Positions DEF BackupCommand
<1>5. /\ step \in {"moving out", "moving in", "removing", "moving back"} /\ ~disturbed' => data' = data /\ ~disturbed
      /\ step \notin {"idle", "preparing"} /\ ~used' => data' = data /\ ~used
  BY <1>2 DEF Renaming, Swapping
<1>6. BackupFiles' /\ BackupCommand' /\ BackupStands'
  BY <1>2 DEF BackupInv, BackupFiles, BackupCommand, BackupStands
<1>7. NotBegun'
  <2>. SUFFICES ASSUME step \in {"idle", "preparing"} PROVE NotBegun'
    BY <1>2 DEF NotBegun
  <2>1. /\ moved = {} /\ kept = Empty /\ ~disturbed /\ ~used
        /\ \A path \in MainPaths : data[path] = "old"
        /\ \A side \in SideFiles : data[side] \in {"absent", "old"}
    BY DEF BackupInv, NotBegun
  <2>2. ~Renaming /\ ~Swapping
    BY DEF Renaming, Swapping
  <2>3. ~disturbed' /\ ~used'
    BY <1>2, <2>1, <2>2
  <2>. QED
    BY <1>2, <2>1, <2>3 DEF NotBegun
<1>20. \A path \in ArchivePaths : data[path] = "old" /\ path \in MainPaths => data'[path] = "old"
  BY <1>2
<1>21. /\ data["db"] = "new" => data'["db"] = "new"
       /\ data["db"] # "old" => \A path \in ArchivePaths : data[path] # "old" => data'[path] # "old"
       /\ \A path \in MainPaths : data[path] # "old" => data'[path] # "old"
  BY <1>2
<1>8. MovingOut'
  <2>. SUFFICES ASSUME step = "moving out" PROVE MovingOut'
    BY <1>2 DEF MovingOut
  <2>1. MovingOut
    BY DEF BackupInv
  <2>2. \A side \in SideFiles : Passed(side) => data'[side] # "old"
    BY <1>4, <1>21, <2>1 DEF MovingOut
  <2>3. ~disturbed' => \A path \in ArchivePaths :
          IF Passed(path) THEN kept[path] = before[path] /\ data'[path] = "absent"
          ELSE data'[path] = before[path] /\ kept[path] = "absent"
    BY <1>5, <2>1 DEF MovingOut
  <2>. QED
    BY <1>2, <1>3, <1>20, <1>21, <2>1, <2>2, <2>3 DEF MovingOut
<1>9. MovingIn' /\ InPlace'
  <2>1. MovingIn'
    <3>. SUFFICES ASSUME step = "moving in" PROVE MovingIn'
      BY <1>2 DEF MovingIn
    <3>1. MovingIn
      BY DEF BackupInv
    <3>2. KeptWhole' /\ \A path \in ArchivePaths : data'[path] # "old"
      BY <1>2, <1>5, <1>21, <3>1 DEF MovingIn, KeptWhole
    <3>3. Passed("db")' <=> Passed("db")
      BY <1>3
    <3>. QED
      BY <1>2, <1>3, <1>5, <1>21, <3>1, <3>2, <3>3 DEF MovingIn
  <2>2. InPlace'
    <3>. SUFFICES ASSUME step = "settings" \/ (step = "cleaning" /\ cause = "none") PROVE InPlace'
      BY <1>2 DEF InPlace
    <3>. QED
      BY <1>2, <1>21 DEF BackupInv, InPlace, KeptWhole
  <2>. QED
    BY <2>1, <2>2
<1>10. Removing' /\ MovingBack'
  <2>1. CASE step = "removing"
    <3>1. ToPutBack'
      BY <1>2, <2>1 DEF BackupInv, Removing, ToPutBack
    <3>. QED
      BY <1>2, <1>3, <1>5, <2>1, <3>1 DEF BackupInv, Removing, MovingBack
  <2>2. CASE step = "moving back"
    <3>1. ToPutBack'
      BY <1>2, <2>2 DEF BackupInv, MovingBack, ToPutBack
    <3>2. \A path \in MainPaths \cap moved : IF Passed(path) THEN data'[path] = "old" ELSE kept[path] = "old"
      BY <1>20, <2>2 DEF BackupInv, MovingBack
    <3>3. ~disturbed' => data' = data /\ ~disturbed
      BY <1>5, <2>2
    <3>4. /\ \A side \in SideFiles : Passed(side)' <=> Passed(side)
          /\ \A path \in MainPaths \cap moved : Passed(path)' <=> Passed(path)
          /\ \A path \in ArchivePaths \ stuck : Passed(path)' <=> Passed(path)
      BY <1>3
    <3>5. step' = "moving back"
      BY <1>2, <2>2
    <3>6. \A path \in MainPaths \cap moved' : IF Passed(path)' THEN data'[path] = "old" ELSE kept'[path] = "old"
      BY <1>2, <3>2, <3>4
    <3>7. ~disturbed' =>
            /\ \A side \in SideFiles :
                 IF Passed(side)' THEN cause = "settings" => side \in stuck \/ data'[side] = before[side]
                 ELSE /\ side \in moved => kept[side] = "old"
                      /\ cause = "settings" => kept[side] = before[side]
            /\ \A path \in ArchivePaths \ stuck : ~Passed(path)' => data'[path] = "absent"
      BY <2>2, <3>3, <3>4 DEF BackupInv, MovingBack
    <3>8. MovingBack'
      BY <1>2, <3>1, <3>6, <3>7 DEF MovingBack
    <3>. QED
      BY <3>5, <3>8 DEF Removing
  <2>. QED
    BY <1>2, <2>1, <2>2 DEF Removing, MovingBack
<1>11. BackInPlace'
  <2>. SUFFICES ASSUME step \in {"failing", "settings back"} \/ (step = "cleaning" /\ cause = "settings")
                PROVE  BackInPlace'
    BY <1>2 DEF BackInPlace
  <2>1. ~used' => data' = data /\ ~used
    BY <1>5
  <2>. QED
    BY <1>2, <1>20, <2>1 DEF BackupInv, BackInPlace
<1>12. OldIsSomewhere'
  <2>1. step # "crashed" /\ (Renaming' <=> Renaming) /\ (Swapping' <=> Swapping)
    BY <1>2 DEF StoreStep, Renaming, Swapping
  <2>2. \A path \in MainPaths : "old" \in {data[path], kept[path]} => "old" \in {data'[path], kept'[path]}
    BY <1>2
  <2>3. data["db"] = "old" => data'["db"] = "old"
    BY <1>2
  <2>4. Renaming /\ ~disturbed' => data' = data
    BY <1>2
  <2>. QED
    BY <1>2, <2>1, <2>2, <2>3, <2>4 DEF BackupInv, OldIsSomewhere
<1>13. MatchOutside' /\ SideFilesMatch'
  <2>1. MatchOutside'
    BY <1>2 DEF BackupInv, MatchOutside
  <2>2. step \in {"moving out", "removing"} => SideFilesMatch'
    BY <1>2, <1>5 DEF BackupInv, SideFilesMatch
  <2>3. step # "crashed"
    BY DEF StoreStep
  <2>. QED
    BY <1>2, <2>1, <2>2, <2>3 DEF MatchOutside, Match, SideFilesMatch
<1>14. ImportIsWhole' /\ FailedSettingsRestore'
  <2>1. answer # "none" => Swapping
    BY DEF BackupInv, BackupStands, Swapping
  <2>2. ImportIsWhole'
    BY <1>2 DEF BackupInv, ImportIsWhole
  <2>3. FailedSettingsRestore'
    <3>1. MainPaths = {"db", "vault"} /\ before["db"] = "old" /\ before["vault"] = "old"
      BY <1>1 DEF MainPaths, BackupFiles
    <3>2. answer = "failed" /\ ~used' => data' = data /\ ~used
      BY <1>2, <2>1
    <3>. QED
      BY <1>2, <3>1, <3>2 DEF BackupInv, FailedSettingsRestore
  <2>. QED
    BY <2>2, <2>3
<1>. QED
  BY <1>6, <1>7, <1>8, <1>9, <1>10, <1>11, <1>12, <1>13, <1>14 DEF BackupInv

\* The steps of the import, one after the other.
LEMMA BeginKeeps == ASSUME BackupInv, Import \/ Prepare PROVE BackupInv'
<1>. USE ThePaths
<1>1. /\ UNCHANGED <<data, kept, applied, cause, moved, stuck, disturbed, used>> /\ at' = 1
      /\ step \in {"idle", "preparing"} /\ before' \in {before, data}
      /\ \/ step' = "returned" /\ answer' \in {"refused", "failed"} /\ staged' = staged
         \/ step' = "preparing" /\ answer' = answer /\ staged' = staged
         \/ step' = "moving out" /\ answer' = answer /\ staged' \in Archives("new") /\ before' = data
  BY DEF Import, Prepare, diskVars, touchVars, ProceedTo, Reply
<1>2. /\ moved = {} /\ kept = Empty /\ ~disturbed /\ ~used /\ cause = "none" /\ stuck = {}
      /\ \A path \in MainPaths : data[path] = "old"
      /\ \A side \in SideFiles : data[side] \in {"absent", "old"}
  BY <1>1 DEF BackupInv, NotBegun, BackupStands
<1>3. data \in [ArchivePaths -> {"absent", "old"}]
  BY <1>2 DEF BackupInv, BackupFiles, PathStates
<1>4. \A path \in ArchivePaths : ~Passed(path)' /\ kept[path] = "absent"
  BY <1>1, <1>2, LoopBegins DEF Empty
<1>5. staged' \in Archives("new") => staged' \in [ArchivePaths -> {"absent", "new"}] /\ staged'["db"] = "new"
  BY DEF Archives
<1>6. BackupFiles'
  BY <1>1, <1>2, <1>3, <1>5 DEF BackupInv, BackupFiles
<1>7. BackupCommand' /\ BackupStands'
  <2>0. at' = 1
    BY <1>1
  <2>1. at' \in 1..4
    BY <2>0
  <2>. QED
    BY <1>1, <1>2, <2>1 DEF BackupInv, BackupCommand, BackupStands
<1>8. NotBegun'
  BY <1>1, <1>2 DEF NotBegun
<1>9. MovingOut'
  BY <1>1, <1>2, <1>4, <1>5 DEF MovingOut
<1>10. MovingIn' /\ InPlace' /\ Removing' /\ MovingBack' /\ BackInPlace'
  BY <1>1 DEF MovingIn, InPlace, Removing, MovingBack, BackInPlace
<1>11. OldIsSomewhere'
  BY <1>1, <1>2 DEF OldIsSomewhere
<1>12. Match /\ Match'
  BY <1>1, <1>2 DEF Match
<1>13. MatchOutside' /\ SideFilesMatch' /\ ImportIsWhole' /\ FailedSettingsRestore'
  BY <1>1, <1>2, <1>12 DEF BackupInv, BackupStands, MatchOutside, Match, SideFilesMatch, ImportIsWhole,
     FailedSettingsRestore
<1>. QED
  BY <1>6, <1>7, <1>8, <1>9, <1>10, <1>11, <1>13 DEF BackupInv

\* A loop begins at a place of the order.
LEMMA OneIsAPlace == 1 \in 1..4
  OBVIOUS

\* A failed swap begins to put back what was moved.
LEMMA PutBackKeeps ==
  ASSUME BackupInv, PutBack("swap"), step \in {"moving out", "moving in"},
         UNCHANGED <<data, kept, staged, applied, answer, before, moved, stuck, disturbed, used>>
  PROVE  BackupInv'
<1>. USE ThePaths
<1>1. step' = "removing" /\ at' = 1 /\ cause' = "swap"
  BY DEF PutBack, ProceedTo
<1>2. cause = "none" /\ stuck = {} /\ answer = "none"
  BY DEF BackupInv, BackupStands
<1>3. \A path \in ArchivePaths : ~Passed(path)'
  BY <1>1, LoopBegins
<1>4. BackupFiles' /\ BackupCommand' /\ BackupStands'
  <2>0. at' = 1
    BY <1>1
  <2>1. at' \in 1..4
    BY <2>0, OneIsAPlace, Zenon
  <2>2. BackupFiles'
    BY DEF BackupInv, BackupFiles
  <2>3. BackupCommand'
    BY <1>1, <2>1 DEF BackupInv, BackupCommand
  <2>4. BackupStands'
    BY <1>1, <1>2 DEF BackupStands
  <2>. QED
    BY <2>2, <2>3, <2>4
<1>5. NotBegun' /\ MovingOut' /\ MovingIn' /\ InPlace' /\ MovingBack' /\ BackInPlace'
  BY <1>1 DEF NotBegun, MovingOut, MovingIn, InPlace, MovingBack, BackInPlace
<1>6. /\ \A path \in MainPaths \cap moved : kept[path] = "old"
      /\ ~disturbed => \A side \in SideFiles :
           /\ side \in moved => kept[side] = "old"
           /\ kept[side] \in {"absent", "old"} /\ (kept[side] = "old" => "db" \in moved)
  <2>1. \A side \in SideFiles : before[side] \in {"absent", "old"}
    BY DEF BackupInv, BackupFiles
  <2>2. at \in 1..4 /\ \A path \in ArchivePaths : Passed(path) => Passed("db")
    BY Positions DEF BackupInv, BackupCommand
  <2>5. ~disturbed => \A path \in moved : before[path] = "old"
    BY DEF BackupInv, BackupFiles
  <2>3. CASE step = "moving out"
    <3>1. MovingOut
      BY DEF BackupInv
    <3>. QED
      BY <2>1, <2>2, <2>3, <2>5, <3>1 DEF MovingOut
  <2>4. CASE step = "moving in"
    BY <2>1, <2>4, <2>5 DEF BackupInv, MovingIn, KeptWhole
  <2>. QED
    BY <2>3, <2>4
<1>7. Removing'
  BY <1>1, <1>3, <1>6 DEF Removing, ToPutBack
<1>8. OldIsSomewhere'
  BY <1>1, <1>2, <1>6 DEF OldIsSomewhere, Renaming
<1>9. MatchOutside' /\ SideFilesMatch' /\ ImportIsWhole' /\ FailedSettingsRestore'
  BY <1>1, <1>2 DEF BackupInv, MatchOutside, SideFilesMatch, ImportIsWhole, FailedSettingsRestore
<1>. QED
  BY <1>4, <1>5, <1>7, <1>8, <1>9 DEF BackupInv

LEMMA MoveOutKeeps == ASSUME BackupInv, MoveOut PROVE BackupInv'
<1>. USE ThePaths
<1>1. /\ UNCHANGED <<staged, applied, before, answer, stuck, disturbed, used>> /\ step = "moving out"
  BY DEF MoveOut, touchVars
<1>2. cause = "none" /\ stuck = {} /\ answer = "none" /\ at \in 1..4
  BY <1>1 DEF BackupInv, BackupStands, BackupCommand
<1>3. /\ Path \in ArchivePaths /\ ~Passed(Path)
      /\ \A path \in ArchivePaths : Passed(path) => Passed("db")
  BY <1>2, PathIs, Positions DEF Passed
<1>4. CASE PutBack("swap") /\ UNCHANGED <<data, kept, moved>>
  BY <1>1, <1>4, PutBackKeeps
<1>5. CASE Continue("moving in") /\ cause' = cause
  <2>1. /\ data \in [ArchivePaths -> PathStates] /\ kept \in [ArchivePaths -> PathStates]
        /\ moved \subseteq ArchivePaths /\ (moved # {} => "db" \in moved)
        /\ before \in [ArchivePaths -> {"absent", "old"}] /\ before["db"] = "old" /\ before["vault"] = "old"
        /\ ~disturbed => \A path \in moved : before[path] = "old"
    BY DEF BackupInv, BackupFiles
  <2>2. MovingOut
    BY DEF BackupInv
  <2>3. /\ data' \in [ArchivePaths -> PathStates] /\ kept' \in [ArchivePaths -> PathStates]
        /\ data'[Path] = "absent" /\ kept'[Path] \in {kept[Path], data[Path]}
        /\ IF HasOld THEN kept'[Path] = data[Path] /\ moved' = moved \cup {Path}
           ELSE kept'[Path] = kept[Path] /\ moved' = moved
        /\ \A path \in ArchivePaths : path # Path => data'[path] = data[path] /\ kept'[path] = kept[path]
    <3>1. CASE ~HasOld /\ UNCHANGED <<data, kept, moved>>
      BY <1>3, <2>1, <3>1 DEF HasOld
    <3>2. CASE /\ HasOld /\ kept' = [kept EXCEPT ![Path] = data[Path]]
               /\ data' = [data EXCEPT ![Path] = "absent"] /\ moved' = moved \cup {Path}
      <4>1. "absent" \in PathStates /\ data[Path] \in PathStates
        BY <1>3, <2>1 DEF PathStates
      <4>. QED
        BY <1>3, <2>1, <3>2, <4>1
    <3>. QED
      BY <1>2, <1>5, <3>1, <3>2 DEF MoveOut, PutBack
  <2>4. /\ at' \in 1..4
        /\ \/ step' = step /\ \A path \in ArchivePaths : Passed(path)' <=> Passed(path) \/ path = Path
           \/ step' = "moving in" /\ \A path \in ArchivePaths : (Passed(path) \/ path = Path) /\ ~Passed(path)'
    BY <1>2, <1>5, LoopGoesOn
  \* What holds of the path that was moved, and of those that had been.
  <2>5. /\ Path \in MainPaths => HasOld /\ data[Path] = "old"
        /\ ~disturbed => data[Path] = before[Path] /\ kept[Path] = "absent"
    BY <1>1, <1>3, <2>2 DEF MovingOut, HasOld
  <2>20. /\ staged["db"] = "new"
         /\ \A path \in MainPaths :
              IF Passed(path) THEN path \in moved /\ kept[path] = "old" /\ data[path] # "old"
              ELSE path \notin moved /\ data[path] = "old"
         /\ \A side \in SideFiles :
              IF Passed(side) THEN data[side] # "old" ELSE side \notin moved
         /\ ~disturbed => \A path \in ArchivePaths :
              IF Passed(path) THEN kept[path] = before[path] /\ data[path] = "absent"
              ELSE data[path] = before[path] /\ kept[path] = "absent"
    BY <1>1, <2>2 DEF MovingOut
  <2>21. /\ \A path \in ArchivePaths : path \in moved => path \in moved'
         /\ \A path \in ArchivePaths : path # Path /\ path \notin moved => path \notin moved'
         /\ Path \in MainPaths => Path \in moved' /\ kept'[Path] = "old"
         /\ ~disturbed => kept'[Path] = before[Path]
    <3>1. CASE HasOld
      BY <2>3, <2>5, <3>1
    <3>2. CASE ~HasOld
      <4>1. data[Path] = "absent"
        BY <3>2 DEF HasOld
      <4>. QED
        BY <2>3, <2>5, <3>2, <4>1
    <3>. QED
      BY <3>1, <3>2
  <2>6. /\ \A path \in MainPaths : Passed(path) \/ path = Path => path \in moved' /\ kept'[path] = "old" /\ data'[path] # "old"
        /\ \A side \in SideFiles : Passed(side) \/ side = Path => data'[side] # "old"
        /\ ~disturbed => \A path \in ArchivePaths : Passed(path) \/ path = Path =>
             kept'[path] = before[path] /\ data'[path] = "absent"
    <3>1. data'[Path] = "absent" /\ \A path \in ArchivePaths : path # Path => data'[path] = data[path] /\ kept'[path] = kept[path]
      BY <2>3
    <3>. QED
      BY <3>1, <2>20, <2>21
  <2>7. /\ \A path \in MainPaths : ~Passed(path) /\ path # Path => path \notin moved' /\ data'[path] = "old"
        /\ \A side \in SideFiles : ~Passed(side) /\ side # Path => side \notin moved'
        /\ ~disturbed => \A path \in ArchivePaths : ~Passed(path) /\ path # Path =>
             data'[path] = before[path] /\ kept'[path] = "absent"
        /\ staged["db"] = "new"
    <3>1. \A path \in ArchivePaths : path # Path => data'[path] = data[path] /\ kept'[path] = kept[path]
      BY <2>3
    <3>. QED
      BY <3>1, <2>20, <2>21
  <2>8. BackupFiles'
    <3>1. moved' \subseteq ArchivePaths /\ (~disturbed => \A path \in moved' : before[path] = "old")
      <4>1. CASE HasOld
        <5>1. before[Path] \in {"absent", "old"}
          BY <1>3, <2>1
        <5>2. ~disturbed => before[Path] = "old"
          BY <2>5, <4>1, <5>1 DEF HasOld
        <5>3. moved' = moved \cup {Path}
          BY <2>3, <4>1
        <5>. QED
          BY <1>3, <2>1, <5>2, <5>3
      <4>2. CASE ~HasOld
        BY <2>1, <2>3, <4>2
      <4>. QED
        BY <4>1, <4>2
    <3>2. moved' # {} => "db" \in moved'
      <4>1. CASE Path = "db"
        BY <2>6, <4>1
      <4>2. CASE Path # "db"
        <5>1. Passed("db")
          BY <1>2, <1>3, <4>2, PathIs, Positions DEF Passed
        <5>. QED
          BY <2>6, <5>1
      <4>. QED
        BY <4>1, <4>2
    <3>. QED
      BY <1>1, <2>1, <2>3, <3>1, <3>2 DEF BackupInv, BackupFiles
  <2>9. step' \in {"moving out", "moving in"}
    BY <1>1, <2>4
  <2>10. BackupCommand' /\ BackupStands'
    BY <1>1, <1>2, <1>5, <2>4, <2>9 DEF BackupInv, BackupCommand, BackupStands
  <2>11. NotBegun' /\ InPlace' /\ Removing' /\ MovingBack' /\ BackInPlace'
    BY <2>9 DEF NotBegun, InPlace, Removing, MovingBack, BackInPlace
  <2>12. MovingOut'
    <3>. SUFFICES ASSUME step' = "moving out" PROVE MovingOut'
      BY DEF MovingOut
    <3>1. \A path \in ArchivePaths : Passed(path)' <=> Passed(path) \/ path = Path
      BY <2>4
    <3>2. \A path \in MainPaths : IF Passed(path)' THEN path \in moved' /\ kept'[path] = "old" /\ data'[path] # "old"
                                  ELSE path \notin moved' /\ data'[path] = "old"
      BY <2>6, <2>7, <3>1
    <3>3. \A side \in SideFiles : IF Passed(side)' THEN data'[side] # "old" ELSE side \notin moved'
      BY <2>6, <2>7, <3>1
    <3>4. ~disturbed => \A path \in ArchivePaths :
            IF Passed(path)' THEN kept'[path] = before[path] /\ data'[path] = "absent"
            ELSE data'[path] = before[path] /\ kept'[path] = "absent"
      BY <2>6, <2>7, <3>1
    <3>. QED
      BY <1>1, <2>7, <3>2, <3>3, <3>4 DEF MovingOut
  <2>13. MovingIn'
    <3>. SUFFICES ASSUME step' = "moving in" PROVE MovingIn'
      BY DEF MovingIn
    <3>1. \A path \in ArchivePaths : (Passed(path) \/ path = Path) /\ ~Passed(path)'
      BY <1>1, <2>4
    <3>2. /\ MainPaths \subseteq moved' /\ \A path \in MainPaths : kept'[path] = "old"
          /\ \A path \in ArchivePaths : data'[path] # "old"
          /\ ~disturbed => \A side \in SideFiles : kept'[side] = before[side] /\ data'[side] = "absent"
      BY <2>6, <3>1
    <3>. QED
      BY <1>1, <2>7, <3>1, <3>2 DEF MovingIn, KeptWhole
  <2>14. OldIsSomewhere'
    <3>1. Renaming'
      BY <2>9 DEF Renaming
    <3>2. \A path \in MainPaths : "old" \in {data'[path], kept'[path]}
      BY <2>6, <2>7
    <3>3. ~disturbed => \A side \in SideFiles : before[side] = "old" => kept'[side] = "old" \/ data'[side] = "old"
      BY <2>6, <2>7
    <3>. QED
      BY <1>1, <3>1, <3>2, <3>3 DEF OldIsSomewhere
  <2>15. ~disturbed => data'["db"] = "absent"
    <3>1. Passed("db") \/ Path = "db"
      BY <1>2, <1>3, PathIs, Positions DEF Passed
    <3>. QED
      BY <2>6, <3>1
  <2>16. MatchOutside' /\ SideFilesMatch'
    <3>1. SideFilesMatch'
      BY <1>1, <2>15 DEF SideFilesMatch
    <3>2. ASSUME step' = "moving in", ~disturbed PROVE Match'
      <4>1. \A side \in SideFiles : data'[side] = "absent"
        BY <1>1, <2>4, <2>6, <3>2
      <4>. QED
        BY <4>1 DEF Match
    <3>. QED
      BY <1>1, <2>9, <3>1, <3>2 DEF MatchOutside
  <2>17. ImportIsWhole' /\ FailedSettingsRestore'
    BY <1>1, <1>2 DEF ImportIsWhole, FailedSettingsRestore
  <2>. QED
    BY <2>8, <2>10, <2>11, <2>12, <2>13, <2>14, <2>16, <2>17 DEF BackupInv
<1>. QED
  BY <1>4, <1>5 DEF MoveOut

LEMMA MoveInKeeps == ASSUME BackupInv, MoveIn PROVE BackupInv'
<1>. USE ThePaths
<1>1. /\ UNCHANGED <<kept, applied, before, moved, answer, stuck, disturbed, used>> /\ step = "moving in"
  BY DEF MoveIn, swapVars, touchVars
<1>2. cause = "none" /\ stuck = {} /\ answer = "none" /\ at \in 1..4
  BY <1>1 DEF BackupInv, BackupStands, BackupCommand
<1>3. /\ Path \in ArchivePaths /\ ~Passed(Path)
      /\ \A path \in ArchivePaths : Passed(path) => Passed("db")
  BY <1>2, PathIs, Positions DEF Passed
<1>4. CASE PutBack("swap") /\ UNCHANGED <<data, staged>>
  BY <1>1, <1>4, PutBackKeeps
<1>5. CASE Continue("settings") /\ cause' = cause
  <2>1. data \in [ArchivePaths -> PathStates] /\ staged \in [ArchivePaths -> {"absent", "new"}]
    BY DEF BackupInv, BackupFiles
  <2>2. /\ KeptWhole
        /\ \A path \in ArchivePaths : data[path] # "old"
        /\ IF Passed("db") THEN data["db"] = "new" ELSE staged["db"] = "new"
        /\ ~disturbed => \A side \in SideFiles :
             data[side] \in {"absent", "new"} /\ (~Passed(side) => data[side] = "absent")
    BY <1>1 DEF BackupInv, MovingIn
  <2>3. /\ data' \in [ArchivePaths -> PathStates] /\ staged' \in [ArchivePaths -> {"absent", "new"}]
        /\ \A path \in ArchivePaths : path # Path => data'[path] = data[path] /\ staged'[path] = staged[path]
        /\ data'[Path] \in {data[Path], "new"}
        /\ Path = "db" => data'["db"] = "new"
    <3>1. CASE staged[Path] = "absent" /\ Path # "vault" /\ data' = data /\ staged' = staged
      BY <1>3, <2>1, <2>2, <3>1
    <3>2. CASE /\ staged[Path] = "absent" /\ Path = "vault" /\ staged' = staged
               /\ data' = [data EXCEPT !["vault"] = IF @ = "absent" THEN "new" ELSE @]
      BY <1>3, <2>1, <3>2 DEF PathStates
    <3>3. CASE data' = [data EXCEPT ![Path] = "new"] /\ staged' = [staged EXCEPT ![Path] = "absent"]
      BY <1>3, <2>1, <3>3 DEF PathStates
    <3>4. PutBack("swap") => FALSE
      BY <1>2, <1>5 DEF PutBack
    <3>. QED
      BY <3>1, <3>2, <3>3, <3>4 DEF MoveIn
  <2>4. /\ at' \in 1..4
        /\ \/ step' = step /\ \A path \in ArchivePaths : Passed(path)' <=> Passed(path) \/ path = Path
           \/ step' = "settings" /\ \A path \in ArchivePaths : (Passed(path) \/ path = Path) /\ ~Passed(path)'
    BY <1>2, <1>5, LoopGoesOn
  <2>5. /\ \A path \in ArchivePaths : data'[path] # "old"
        /\ Passed("db") \/ Path = "db" => data'["db"] = "new"
        /\ ~Passed("db") /\ Path # "db" => staged'["db"] = "new"
        /\ ~disturbed => \A side \in SideFiles :
             /\ data'[side] \in {"absent", "new"}
             /\ ~Passed(side) /\ side # Path => data'[side] = "absent"
    BY <1>3, <2>2, <2>3
  <2>6. Passed("db") \/ Path = "db"
    BY <1>2, <1>3, PathIs, Positions DEF Passed
  <2>7. step' \in {"moving in", "settings"}
    BY <1>1, <2>4
  <2>8. BackupFiles'
    BY <1>1, <2>3 DEF BackupInv, BackupFiles
  <2>9. BackupCommand' /\ BackupStands'
    BY <1>1, <1>2, <1>5, <2>4, <2>7 DEF BackupInv, BackupCommand, BackupStands
  <2>10. NotBegun' /\ MovingOut' /\ Removing' /\ MovingBack' /\ BackInPlace'
    BY <2>7 DEF NotBegun, MovingOut, Removing, MovingBack, BackInPlace
  <2>11. KeptWhole'
    BY <1>1, <2>2 DEF KeptWhole
  <2>12. MovingIn'
    <3>. SUFFICES ASSUME step' = "moving in" PROVE MovingIn'
      BY DEF MovingIn
    <3>1. \A path \in ArchivePaths : Passed(path)' <=> Passed(path) \/ path = Path
      BY <1>1, <2>4
    <3>. QED
      BY <1>1, <2>5, <2>6, <2>11, <3>1 DEF MovingIn
  <2>13. InPlace'
    BY <2>5, <2>6, <2>7, <2>11 DEF InPlace
  <2>14. OldIsSomewhere'
    <3>1. \A path \in MainPaths : kept'[path] = "old"
      BY <2>11 DEF KeptWhole
    <3>2. ~disturbed' => \A side \in SideFiles : kept'[side] = before'[side]
      BY <2>11 DEF KeptWhole
    <3>. QED
      BY <1>1, <3>1, <3>2 DEF OldIsSomewhere
  <2>15. ~disturbed => Match'
    BY <2>5, <2>6 DEF Match
  <2>16. MatchOutside' /\ SideFilesMatch'
    BY <1>1, <2>5, <2>15 DEF MatchOutside, Match, SideFilesMatch
  <2>17. ImportIsWhole' /\ FailedSettingsRestore'
    BY <1>1, <1>2 DEF ImportIsWhole, FailedSettingsRestore
  <2>. QED
    BY <2>8, <2>9, <2>10, <2>12, <2>13, <2>14, <2>16, <2>17 DEF BackupInv
<1>. QED
  BY <1>4, <1>5 DEF MoveIn

LEMMA SaveSettingsKeeps == ASSUME BackupInv, SaveSettings PROVE BackupInv'
<1>. USE ThePaths
<1>1. /\ UNCHANGED <<data, staged, kept, before, moved, answer, stuck, disturbed, used>>
      /\ step = "settings" /\ at' = 1 /\ applied' \in {"old", "new"}
      /\ \/ step' = "cleaning" /\ applied' = "new" /\ cause' = cause
         \/ step' = "removing" /\ cause' = "settings"
  BY DEF SaveSettings, diskVars, swapVars, touchVars, PutBack, ProceedTo
<1>2. cause = "none" /\ stuck = {} /\ answer = "none"
  BY <1>1 DEF BackupInv, BackupStands
<1>3. KeptWhole /\ data["db"] = "new" /\ \A path \in ArchivePaths : data[path] # "old"
  BY <1>1 DEF BackupInv, InPlace
<1>4. \A path \in ArchivePaths : ~Passed(path)'
  BY <1>1, LoopBegins
<1>5. BackupFiles' /\ BackupCommand' /\ BackupStands'
  <2>0. at' = 1
    BY <1>1
  <2>1. at' \in 1..4
    BY <2>0
  <2>2. BackupFiles'
    BY <1>1 DEF BackupInv, BackupFiles
  <2>3. BackupCommand'
    BY <1>1, <1>2, <2>1 DEF BackupInv, BackupCommand
  <2>4. BackupStands'
    BY <1>1, <1>2 DEF BackupStands
  <2>. QED
    BY <2>2, <2>3, <2>4
<1>6. KeptWhole'
  BY <1>1, <1>3 DEF KeptWhole
<1>7. NotBegun' /\ MovingOut' /\ MovingIn' /\ MovingBack' /\ BackInPlace'
  BY <1>1, <1>2 DEF NotBegun, MovingOut, MovingIn, MovingBack, BackInPlace
<1>8. InPlace'
  BY <1>1, <1>3, <1>6 DEF InPlace
<1>9. Removing'
  <2>1. \A side \in SideFiles : before[side] \in {"absent", "old"}
    BY DEF BackupInv, BackupFiles
  <2>2. ~disturbed => \A path \in moved : before[path] = "old"
    BY DEF BackupInv, BackupFiles
  <2>. QED
    BY <1>1, <1>3, <1>4, <2>1, <2>2 DEF Removing, ToPutBack, KeptWhole
<1>10. OldIsSomewhere'
  BY <1>1, <1>3 DEF OldIsSomewhere, KeptWhole
<1>11. MatchOutside' /\ SideFilesMatch' /\ ImportIsWhole' /\ FailedSettingsRestore'
  BY <1>1, <1>2 DEF BackupInv, MatchOutside, Match, SideFilesMatch, ImportIsWhole, FailedSettingsRestore
<1>. QED
  BY <1>5, <1>7, <1>8, <1>9, <1>10, <1>11 DEF BackupInv

LEMMA RemovePathKeeps == ASSUME BackupInv, RemovePath PROVE BackupInv'
<1>. USE ThePaths
<1>1. /\ UNCHANGED <<staged, kept, applied, before, moved, answer, cause, disturbed, used>>
      /\ step = "removing" /\ Continue("moving back")
  BY DEF RemovePath, touchVars
<1>2. cause # "none" /\ answer = "none" /\ at \in 1..4
  BY <1>1 DEF BackupInv, BackupStands, BackupCommand
<1>3. Path \in ArchivePaths
  BY <1>2, PathIs
<1>4. data \in [ArchivePaths -> PathStates] /\ stuck \subseteq ArchivePaths
  BY DEF BackupInv, BackupFiles
<1>5. /\ data' \in [ArchivePaths -> PathStates] /\ stuck' \subseteq ArchivePaths /\ stuck \subseteq stuck'
      /\ \A path \in ArchivePaths : path # Path => data'[path] = data[path] /\ (path \in stuck' <=> path \in stuck)
      /\ data'[Path] \in {data[Path], "absent"}
      /\ Path \in stuck' \/ data'[Path] = "absent"
  <2>1. CASE data' = [data EXCEPT ![Path] = "absent"] /\ stuck' = stuck
    BY <1>3, <1>4, <2>1 DEF PathStates
  <2>2. CASE stuck' = stuck \cup {Path} /\ data' = data
    BY <1>3, <1>4, <2>2
  <2>. QED
    BY <2>1, <2>2 DEF RemovePath
<1>6. /\ at' \in 1..4
      /\ \/ step' = step /\ \A path \in ArchivePaths : Passed(path)' <=> Passed(path) \/ path = Path
         \/ step' = "moving back" /\ \A path \in ArchivePaths : (Passed(path) \/ path = Path) /\ ~Passed(path)'
  BY <1>1, <1>2, LoopGoesOn
<1>7. step' \in {"removing", "moving back"}
  BY <1>1, <1>6
<1>8. /\ ToPutBack
      /\ \A path \in MainPaths \cap moved : kept[path] = "old"
      /\ ~disturbed =>
           /\ \A side \in SideFiles :
                (side \in moved => kept[side] = "old") /\ (cause = "settings" => kept[side] = before[side])
           /\ \A path \in ArchivePaths \ stuck : Passed(path) => data[path] = "absent"
  BY <1>1 DEF BackupInv, Removing
<1>9. ~disturbed => \A path \in ArchivePaths \ stuck' : Passed(path) \/ path = Path => data'[path] = "absent"
  BY <1>5, <1>8
<1>10. ToPutBack'
  BY <1>1, <1>8 DEF ToPutBack
<1>11. BackupFiles' /\ BackupCommand' /\ BackupStands'
  <2>1. BackupFiles'
    BY <1>1, <1>5 DEF BackupInv, BackupFiles
  <2>2. BackupCommand'
    BY <1>1, <1>6 DEF BackupInv, BackupCommand
  <2>3. BackupStands'
    BY <1>1, <1>2, <1>7 DEF BackupStands
  <2>. QED
    BY <2>1, <2>2, <2>3
<1>12. NotBegun' /\ MovingOut' /\ MovingIn' /\ InPlace' /\ BackInPlace'
  BY <1>7 DEF NotBegun, MovingOut, MovingIn, InPlace, BackInPlace
<1>13. Removing'
  <2>. SUFFICES ASSUME step' = "removing" PROVE Removing'
    BY DEF Removing
  <2>1. \A path \in ArchivePaths : Passed(path)' <=> Passed(path) \/ path = Path
    BY <1>1, <1>6
  <2>2. ~disturbed => \A path \in ArchivePaths \ stuck' : Passed(path)' => data'[path] = "absent"
    BY <1>9, <2>1
  <2>. QED
    BY <1>1, <1>8, <1>10, <2>2 DEF Removing
<1>14. MovingBack'
  <2>. SUFFICES ASSUME step' = "moving back" PROVE MovingBack'
    BY DEF MovingBack
  <2>1. \A path \in ArchivePaths : (Passed(path) \/ path = Path) /\ ~Passed(path)'
    BY <1>1, <1>6
  <2>2. ~disturbed => \A path \in ArchivePaths \ stuck' : data'[path] = "absent"
    BY <1>9, <2>1
  <2>. QED
    BY <1>1, <1>8, <1>10, <2>1, <2>2 DEF MovingBack
<1>15. OldIsSomewhere'
  <2>1. \A path \in MainPaths : path \in moved => kept[path] = "old"
    BY <1>8
  <2>2. cause = "settings" => MainPaths \subseteq moved
    BY <1>8 DEF ToPutBack
  <2>3. cause \in {"swap", "settings"}
    BY <1>2 DEF BackupInv, BackupCommand
  <2>. QED
    BY <1>1, <1>8, <2>1, <2>2, <2>3 DEF OldIsSomewhere
<1>16. SideFilesMatch'
  <2>1. \A path \in ArchivePaths : data'[path] \in {data[path], "absent"}
    BY <1>5
  <2>2. stuck' = {} => stuck = {}
    BY <1>5
  <2>. QED
    BY <1>1, <2>1, <2>2 DEF BackupInv, SideFilesMatch
<1>17. MatchOutside'
  <2>1. ASSUME step' = "moving back", stuck' = {}, ~disturbed PROVE Match'
    <3>1. \A path \in ArchivePaths : Passed(path) \/ path = Path
      BY <1>1, <1>6, <2>1
    <3>2. \A path \in ArchivePaths : data'[path] = "absent"
      BY <1>9, <2>1, <3>1
    <3>. QED
      BY <3>2 DEF Match
  <2>. QED
    BY <1>1, <1>7, <2>1 DEF MatchOutside
<1>18. ImportIsWhole' /\ FailedSettingsRestore'
  BY <1>1, <1>2 DEF ImportIsWhole, FailedSettingsRestore
<1>. QED
  BY <1>11, <1>12, <1>13, <1>14, <1>15, <1>16, <1>17, <1>18 DEF BackupInv

LEMMA MoveBackKeeps == ASSUME BackupInv, MoveBack PROVE BackupInv'
<1>. USE ThePaths
<1>1. /\ UNCHANGED <<staged, applied, before, moved, cause, stuck, disturbed, used>> /\ step = "moving back"
  BY DEF MoveBack, swapVars, touchVars
<1>2. cause # "none" /\ answer = "none" /\ at \in 1..4 /\ cause \in {"none", "swap", "settings"}
  BY <1>1 DEF BackupInv, BackupStands, BackupCommand
<1>3. /\ Path \in ArchivePaths /\ ~Passed(Path)
      /\ \A path \in ArchivePaths : Passed(path) => Passed("db")
      /\ Passed("db") \/ Path = "db"
  BY <1>2, PathIs, Positions DEF Passed
<1>4. /\ data \in [ArchivePaths -> PathStates] /\ kept \in [ArchivePaths -> PathStates]
      /\ moved \subseteq ArchivePaths /\ (moved # {} => "db" \in moved)
      /\ before \in [ArchivePaths -> {"absent", "old"}] /\ before["db"] = "old" /\ before["vault"] = "old"
      /\ ~disturbed => \A path \in moved : before[path] = "old"
  BY DEF BackupInv, BackupFiles
<1>5. /\ ToPutBack
      /\ \A path \in MainPaths \cap moved : IF Passed(path) THEN data[path] = "old" ELSE kept[path] = "old"
      /\ ~disturbed =>
           /\ \A side \in SideFiles :
                IF Passed(side) THEN cause = "settings" => side \in stuck \/ data[side] = before[side]
                ELSE /\ side \in moved => kept[side] = "old"
                     /\ cause = "settings" => kept[side] = before[side]
           /\ \A path \in ArchivePaths \ stuck : ~Passed(path) => data[path] = "absent"
  BY <1>1 DEF BackupInv, MovingBack
<1>6. CASE answer' = answer /\ Continue(IF cause = "swap" THEN "failing" ELSE "settings back")
  <2>. DEFINE next == IF cause = "swap" THEN "failing" ELSE "settings back"
  <2>1. /\ data' \in [ArchivePaths -> PathStates] /\ kept' \in [ArchivePaths -> PathStates]
        /\ \A path \in ArchivePaths : path # Path => data'[path] = data[path] /\ kept'[path] = kept[path]
        /\ kept'[Path] = "absent"
        /\ data'[Path] = IF kept[Path] = "absent" THEN data[Path] ELSE kept[Path]
    <3>1. CASE ~HasKept /\ data' = data /\ kept' = kept
      BY <1>3, <1>4, <3>1 DEF HasKept
    <3>2. CASE /\ HasKept
               /\ data' = [data EXCEPT ![Path] = kept[Path]]
               /\ kept' = [kept EXCEPT ![Path] = "absent"]
      <4>1. "absent" \in PathStates /\ kept[Path] \in PathStates
        BY <1>3, <1>4 DEF PathStates
      <4>. QED
        BY <1>3, <1>4, <3>2, <4>1 DEF HasKept
    <3>3. RestoreFails => FALSE
      BY <1>2, <1>6 DEF RestoreFails, Reply
    <3>. QED
      BY <3>1, <3>2, <3>3 DEF MoveBack
  <2>2. /\ at' \in 1..4
        /\ \/ step' = step /\ \A path \in ArchivePaths : Passed(path)' <=> Passed(path) \/ path = Path
           \/ step' = next /\ \A path \in ArchivePaths : (Passed(path) \/ path = Path) /\ ~Passed(path)'
    BY <1>2, <1>6, LoopGoesOn
  <2>3. step' \in {"moving back", next}
    BY <1>1, <2>2
  <2>. HIDE DEF next
  <2>4. next = IF cause = "swap" THEN "failing" ELSE "settings back"
    BY DEF next
  \* The main paths, then the side files.
  <2>5. \A path \in MainPaths \cap moved :
          IF Passed(path) \/ path = Path THEN data'[path] = "old" ELSE kept'[path] = "old"
    BY <1>3, <1>5, <2>1
  <2>6. ~disturbed => \A side \in SideFiles :
          /\ kept'[side] \in {"absent", "old"} /\ (kept'[side] = "old" => "db" \in moved)
          /\ kept[side] \in {"absent", "old"} /\ (kept[side] = "old" => "db" \in moved)
    BY <1>5, <2>1 DEF ToPutBack
  <2>7. ~disturbed => \A side \in SideFiles :
          IF Passed(side) \/ side = Path THEN cause = "settings" => side \in stuck \/ data'[side] = before[side]
          ELSE /\ side \in moved => kept'[side] = "old"
               /\ cause = "settings" => kept'[side] = before[side]
    BY <1>3, <1>5, <2>1
  <2>8. ~disturbed => \A path \in ArchivePaths \ stuck : ~Passed(path) /\ path # Path => data'[path] = "absent"
    BY <1>5, <2>1
  <2>9. ToPutBack'
    BY <1>1, <1>5, <2>6 DEF ToPutBack
  <2>10. "db" \in moved => data'["db"] = "old"
    BY <1>3, <2>5
  <2>11. BackupFiles' /\ BackupCommand' /\ BackupStands'
    <3>1. BackupFiles'
      BY <1>1, <2>1 DEF BackupInv, BackupFiles
    <3>2. BackupCommand'
      BY <1>1, <2>2 DEF BackupInv, BackupCommand
    <3>3. BackupStands'
      BY <1>1, <1>2, <1>6, <2>3, <2>4 DEF BackupStands
    <3>. QED
      BY <3>1, <3>2, <3>3
  <2>12. NotBegun' /\ MovingOut' /\ MovingIn' /\ InPlace' /\ Removing'
    BY <2>3, <2>4 DEF NotBegun, MovingOut, MovingIn, InPlace, Removing
  <2>13. MovingBack'
    <3>. SUFFICES ASSUME step' = "moving back" PROVE MovingBack'
      BY DEF MovingBack
    <3>1. \A path \in ArchivePaths : Passed(path)' <=> Passed(path) \/ path = Path
      BY <1>1, <2>2, <2>4
    <3>2. \A path \in MainPaths \cap moved : IF Passed(path)' THEN data'[path] = "old" ELSE kept'[path] = "old"
      BY <2>5, <3>1
    <3>3. ~disturbed => \A side \in SideFiles :
            IF Passed(side)' THEN cause = "settings" => side \in stuck \/ data'[side] = before[side]
            ELSE /\ side \in moved => kept'[side] = "old"
                 /\ cause = "settings" => kept'[side] = before[side]
      BY <2>7, <3>1
    <3>4. ~disturbed => \A path \in ArchivePaths \ stuck : ~Passed(path)' => data'[path] = "absent"
      BY <2>8, <3>1
    <3>. QED
      BY <1>1, <2>9, <3>2, <3>3, <3>4 DEF MovingBack
  <2>14. BackInPlace'
    <3>. SUFFICES ASSUME step' = next PROVE BackInPlace'
      BY <2>3 DEF BackInPlace
    <3>1. \A path \in ArchivePaths : Passed(path) \/ path = Path
      BY <1>1, <2>2, <2>4
    <3>2. \A path \in MainPaths \cap moved : data'[path] = "old"
      BY <2>5, <3>1
    <3>3. ~disturbed /\ cause = "settings" => \A side \in SideFiles \ stuck : data'[side] = before[side]
      BY <2>7, <3>1
    <3>4. cause = "settings" => MainPaths \subseteq moved
      BY <1>5 DEF ToPutBack
    <3>5. ~used => ~disturbed
      BY DEF BackupInv, BackupCommand
    <3>. QED
      BY <1>1, <3>2, <3>3, <3>4, <3>5 DEF BackInPlace
  <2>15. OldIsSomewhere'
    <3>1. \A path \in MainPaths : path \in moved => "old" \in {data'[path], kept'[path]}
      BY <2>5
    <3>2. cause = "settings" => MainPaths \subseteq moved
      BY <1>5 DEF ToPutBack
    <3>3. ~disturbed => \A side \in SideFiles : side \in moved => "db" \in moved
      BY <1>4
    <3>4. cause = "settings" => "db" \in moved
      BY <3>2
    <3>. QED
      BY <1>1, <1>2, <2>10, <3>1, <3>2, <3>3, <3>4 DEF OldIsSomewhere
  <2>16. stuck = {} /\ ~disturbed => Match'
    <3>. SUFFICES ASSUME stuck = {}, ~disturbed PROVE Match'
      OBVIOUS
    <3>1. Match
      BY <1>1 DEF BackupInv, MatchOutside
    <3>2. CASE Path = "db"
      <4>1. \A side \in SideFiles : ~Passed(side)
        BY <1>3, <3>2
      <4>. QED
        BY <2>8, <3>2, <4>1 DEF Match
    <3>3. CASE Path # "db"
      <4>1. data'["db"] = data["db"]
        BY <2>1, <3>3
      <4>2. \A side \in SideFiles : data'[side] \in {data[side], "absent"} \/ (data'[side] = "old" /\ "db" \in moved)
        BY <2>1, <2>6
      <4>. QED
        BY <2>10, <3>1, <4>1, <4>2 DEF Match
    <3>. QED
      BY <3>2, <3>3
  <2>17. MatchOutside' /\ SideFilesMatch'
    BY <1>1, <2>16 DEF MatchOutside, Match, SideFilesMatch
  <2>18. ImportIsWhole' /\ FailedSettingsRestore'
    BY <1>1, <1>2, <1>6 DEF ImportIsWhole, FailedSettingsRestore
  <2>. QED
    BY <2>11, <2>12, <2>13, <2>14, <2>15, <2>17, <2>18 DEF BackupInv
<1>7. CASE RestoreFails /\ data' = data /\ kept' = kept
  <2>1. /\ step' = "returned" /\ at' = 1
        /\ answer' = IF cause = "swap" THEN "failed" ELSE "failed without rollback"
    BY <1>7 DEF RestoreFails, Reply, ProceedTo
  <2>2. BackupFiles' /\ BackupCommand' /\ BackupStands'
    <3>1. 1 \in 1..4
      OBVIOUS
    <3>2. at' \in 1..4
      BY <2>1, <3>1, Zenon
    <3>3. BackupFiles'
      BY <1>1, <1>7 DEF BackupInv, BackupFiles
    <3>4. BackupCommand'
      BY <1>1, <3>2 DEF BackupInv, BackupCommand
    <3>5. BackupStands'
      BY <2>1 DEF BackupStands
    <3>. QED
      BY <3>3, <3>4, <3>5
  <2>3. NotBegun' /\ MovingOut' /\ MovingIn' /\ InPlace' /\ Removing' /\ MovingBack' /\ BackInPlace'
    BY <2>1 DEF NotBegun, MovingOut, MovingIn, InPlace, Removing, MovingBack, BackInPlace
  <2>4. OldIsSomewhere'
    <3>1. \A path \in MainPaths : path \in moved => "old" \in {data[path], kept[path]}
      BY <1>5
    <3>2. cause = "settings" => MainPaths \subseteq moved
      BY <1>5 DEF ToPutBack
    <3>3. ~disturbed => \A side \in SideFiles : before[side] = "old" /\ (side \in moved \/ cause # "swap") =>
            kept[side] = "old" \/ data["db"] = "old"
      <4>1. Passed("db") /\ "db" \in moved => data["db"] = "old"
        BY <1>5
      <4>2. \A side \in SideFiles : side \in moved \/ cause # "swap" => "db" \in moved
        BY <1>2, <1>4, <3>2
      <4>3. ~disturbed => \A side \in SideFiles : ~Passed(side) /\ before[side] = "old" /\ (side \in moved \/ cause # "swap") => kept[side] = "old"
        BY <1>2, <1>5
      <4>. QED
        BY <1>3, <4>1, <4>2, <4>3
    <3>. QED
      BY <1>1, <1>2, <1>7, <3>1, <3>2, <3>3 DEF OldIsSomewhere
  <2>5. MatchOutside' /\ SideFilesMatch'
    BY <1>1, <1>7 DEF BackupInv, MatchOutside, Match, SideFilesMatch
  <2>6. ImportIsWhole' /\ FailedSettingsRestore'
    BY <1>1, <1>2, <2>1 DEF ImportIsWhole, FailedSettingsRestore
  <2>. QED
    BY <2>2, <2>3, <2>4, <2>5, <2>6 DEF BackupInv
<1>. QED
  BY <1>6, <1>7 DEF MoveBack

LEMMA RestKeeps ==
  ASSUME BackupInv, FailSwap \/ SettingsBack \/ CleanUp
  PROVE  BackupInv'
<1>. USE ThePaths
<1>1. /\ UNCHANGED <<data, before, moved, cause, stuck, disturbed, used>> /\ at' = 1
      /\ applied' \in {"old", applied}
      /\ staged' \in {staged, Empty} /\ kept' \in {kept, Empty}
  BY DEF FailSwap, SettingsBack, CleanUp, diskVars, swapVars, touchVars, Reply, ProceedTo
<1>2. \/ step = "failing" /\ step' = "returned" /\ answer' = "failed" /\ kept' = kept
      \/ step = "settings back" /\ step' = "cleaning" /\ answer' = answer /\ kept' = kept
      \/ /\ step = "cleaning" /\ step' = "returned" /\ applied' = applied
         /\ answer' = IF cause = "none" THEN "imported" ELSE "failed"
  BY DEF FailSwap, SettingsBack, CleanUp, diskVars, Reply, ProceedTo
<1>3. /\ answer = "none" /\ cause \in {"none", "swap", "settings"}
      /\ step = "failing" => cause = "swap"
      /\ step = "settings back" => cause = "settings"
      /\ step = "cleaning" => cause \in {"none", "settings"} /\ (cause = "none" => applied = "new")
  BY <1>2 DEF BackupInv, BackupCommand, BackupStands
<1>4. BackupFiles' /\ BackupCommand' /\ BackupStands'
  <2>1. 1 \in 1..4
    OBVIOUS
  <2>2. at' \in 1..4
    BY <1>1, <2>1, Zenon
  <2>3. Empty \in [ArchivePaths -> {"absent", "new"}] /\ Empty \in [ArchivePaths -> PathStates]
    BY DEF Empty, PathStates
  <2>4. staged' \in [ArchivePaths -> {"absent", "new"}] /\ kept' \in [ArchivePaths -> PathStates]
    BY <1>1, <2>3 DEF BackupInv, BackupFiles
  <2>5. BackupFiles'
    BY <1>1, <2>4 DEF BackupInv, BackupFiles
  <2>6. BackupCommand'
    BY <1>1, <2>2 DEF BackupInv, BackupCommand
  <2>7. BackupStands'
    BY <1>1, <1>2, <1>3 DEF BackupStands
  <2>. QED
    BY <2>5, <2>6, <2>7
<1>5. NotBegun' /\ MovingOut' /\ MovingIn' /\ InPlace' /\ Removing' /\ MovingBack'
  BY <1>1, <1>2, <1>3 DEF NotBegun, MovingOut, MovingIn, InPlace, Removing, MovingBack
<1>6. BackInPlace'
  BY <1>1, <1>2 DEF BackupInv, BackInPlace
<1>7. step \in {"failing", "settings back"} \/ (step = "cleaning" /\ cause = "settings") =>
        /\ \A path \in MainPaths \cap moved : data[path] = "old"
        /\ cause = "settings" =>
             MainPaths \subseteq moved /\ (~used => \A side \in SideFiles \ stuck : data[side] = before[side])
  BY DEF BackupInv, BackInPlace
<1>8. OldIsSomewhere'
  <2>1. moved # {} => "db" \in moved
    BY DEF BackupInv, BackupFiles
  <2>2. CASE step = "cleaning" /\ cause = "none"
    BY <1>2, <2>2 DEF OldIsSomewhere
  <2>3. CASE ~(step = "cleaning" /\ cause = "none")
    <3>1. \A path \in MainPaths : path \in moved \/ cause # "swap" => data[path] = "old"
      BY <1>2, <1>3, <1>7, <2>3
    <3>2. \A side \in SideFiles : side \in moved \/ cause # "swap" => data["db"] = "old"
      BY <2>1, <3>1
    <3>. QED
      BY <1>1, <3>1, <3>2 DEF OldIsSomewhere
  <2>. QED
    BY <2>2, <2>3
<1>9. MatchOutside' /\ SideFilesMatch'
  BY <1>1, <1>2 DEF BackupInv, MatchOutside, Match, SideFilesMatch
<1>10. ImportIsWhole'
  <2>. SUFFICES ASSUME answer' = "imported" PROVE ImportIsWhole'
    BY DEF ImportIsWhole
  <2>1. step = "cleaning" /\ cause = "none" /\ applied' = "new"
    BY <1>2, <1>3
  <2>2. data["db"] = "new" /\ \A path \in ArchivePaths : data[path] # "old"
    BY <2>1 DEF BackupInv, InPlace
  <2>. QED
    BY <1>1, <2>1, <2>2 DEF ImportIsWhole
<1>11. FailedSettingsRestore'
  <2>. SUFFICES ASSUME answer' = "failed", cause = "settings" PROVE FailedSettingsRestore'
    BY <1>1 DEF FailedSettingsRestore
  <2>1. MainPaths = {"db", "vault"} /\ before["db"] = "old" /\ before["vault"] = "old"
    BY DEF BackupInv, BackupFiles, MainPaths
  <2>2. step = "cleaning"
    BY <1>2, <1>3
  <2>. QED
    BY <1>1, <1>7, <2>1, <2>2 DEF FailedSettingsRestore
<1>. QED
  BY <1>4, <1>5, <1>6, <1>8, <1>9, <1>10, <1>11 DEF BackupInv

\* The program dies.
LEMMA DeathKeeps == ASSUME BackupInv, BackupCrash PROVE BackupInv'
<1>. USE ThePaths
<1>1. /\ UNCHANGED <<data, staged, kept, applied, cause, answer, before, moved, stuck, disturbed, used>>
      /\ step \notin {"idle", "returned"} /\ step' = "crashed" /\ at' = 1
  BY DEF BackupCrash, ProceedTo, diskVars, swapVars, touchVars
<1>2. answer = "none"
  BY <1>1 DEF BackupInv, BackupStands
<1>3. BackupFiles' /\ BackupCommand' /\ SideFilesMatch'
  <2>1. at' \in 1..4
    BY <1>1, OneIsAPlace, Zenon
  <2>. QED
    BY <1>1, <2>1 DEF BackupInv, BackupFiles, BackupCommand, SideFilesMatch
<1>4. /\ BackupStands' /\ NotBegun' /\ MovingOut' /\ MovingIn' /\ InPlace' /\ Removing' /\ MovingBack'
      /\ BackInPlace' /\ MatchOutside' /\ ImportIsWhole' /\ FailedSettingsRestore'
  BY <1>1, <1>2 DEF BackupStands, NotBegun, MovingOut, MovingIn, InPlace, Removing, MovingBack, BackInPlace,
     MatchOutside, ImportIsWhole, FailedSettingsRestore
<1>5. OldIsSomewhere'
  <2>1. CASE step = "preparing"
    BY <1>1, <2>1 DEF BackupInv, NotBegun, OldIsSomewhere
  <2>2. CASE step # "preparing"
    <3>1. Swapping /\ answer # "imported"
      BY <1>1, <1>2, <2>2 DEF Swapping
    <3>. QED
      BY <1>1, <3>1 DEF BackupInv, OldIsSomewhere
  <2>. QED
    BY <2>1, <2>2
<1>. QED
  BY <1>3, <1>4, <1>5 DEF BackupInv

LEMMA BackupStep == BackupInv /\ [BackupNext]_backupVars => BackupInv'
<1>. SUFFICES ASSUME BackupInv, [BackupNext]_backupVars PROVE BackupInv'
  OBVIOUS
<1>1. CASE UNCHANGED backupVars
  <2>1. UNCHANGED <<data, staged, kept, applied, step, at, cause, answer, before, moved, stuck, disturbed, used>>
    BY <1>1 DEF backupVars, diskVars, commandVars, swapVars, touchVars
  <2>2. \A path \in ArchivePaths : Passed(path)' <=> Passed(path)
    BY <2>1 DEF Passed
  <2>3. BackupFiles' /\ BackupCommand' /\ BackupStands' /\ NotBegun' /\ InPlace' /\ BackInPlace'
    BY <2>1 DEF BackupInv, BackupFiles, BackupCommand, BackupStands, NotBegun, InPlace, BackInPlace, KeptWhole
  <2>4. MovingOut' /\ MovingIn' /\ Removing' /\ MovingBack'
    BY <2>1 DEF BackupInv, MovingOut, MovingIn, Removing, MovingBack, KeptWhole, ToPutBack, Passed
  <2>5. OldIsSomewhere' /\ MatchOutside' /\ SideFilesMatch' /\ ImportIsWhole' /\ FailedSettingsRestore'
    BY <2>1 DEF BackupInv, OldIsSomewhere, Swapping, Renaming, MatchOutside, Match, SideFilesMatch, ImportIsWhole,
       FailedSettingsRestore
  <2>. QED
    BY <2>3, <2>4, <2>5 DEF BackupInv
<1>2. CASE BackupNext
  BY <1>2, StoreKeeps, BeginKeeps, MoveOutKeeps, MoveInKeeps, SaveSettingsKeeps, RemovePathKeeps, MoveBackKeeps,
     RestKeeps, DeathKeeps DEF BackupNext, ImportStep
<1>. QED
  BY <1>1, <1>2

\* Between any two renames, whatever fails and whatever commands open, save to and
\* close the database meanwhile, the paths of the two archives are where the import
\* believes.
THEOREM BackupInvariant == BackupSpec => []BackupInv
BY InitBackup, BackupStep, PTL DEF BackupSpec

\* Whatever fails, and wherever the program ends, every path of the old archive
\* that was moved out stays in the data directory or in the rollback directory
\* until the import has succeeded, while it is put back too; one that was not moved
\* stays unless a failed swap is being undone.
THEOREM OldArchiveIsKept == BackupSpec => []OldArchiveSurvives
<1>1. BackupInv => OldArchiveSurvives
  <2>. SUFFICES ASSUME BackupInv, Swapping, answer # "imported", NEW path \in ArchivePaths,
                       before[path] = "old", path \in moved \/ cause # "swap"
                PROVE  Somewhere(path)
    BY DEF OldArchiveSurvives
  <2>. QED
    BY ThePaths DEF BackupInv, OldIsSomewhere, Somewhere
<1>. QED
  BY <1>1, BackupInvariant, PTL

\* An import leaves one archive, the one of the backup after a success and, as far
\* as it could be put back, the previous one after its settings failed; with its own
\* side files, unless a command opened or closed the database between two renames.
THEOREM OneArchiveIsLeft == BackupSpec => []ImportIsOneArchive
<1>1. BackupInv => ImportIsOneArchive
  BY DEF BackupInv, ImportIsOneArchive
<1>. QED
  BY <1>1, BackupInvariant, PTL

(***************************************************************************)
(* A start of a transcription is as the window was told.  The invariant    *)
(* ties three memories to the machine of the moment: what is remembered of *)
(* a probe, as far as its key and the history beside it go; what a window  *)
(* was told, unless something has changed since; and the last start, which *)
(* stands as it was.                                                       *)
(***************************************************************************)
\* The reason that is given is the first that holds.
LEMMA ReasonGiven ==
  ASSUME NEW n \in 1..9, NEW reasons, DOMAIN reasons = 1..n
  PROVE  \/ FirstReason(reasons) = "ok" /\ \A i \in 1..n : ~reasons[i][1]
         \/ \E i \in 1..n : /\ reasons[i][1] /\ FirstReason(reasons) = reasons[i][2]
                            /\ \A j \in 1..n : j < i => ~reasons[j][1]
<1>. DEFINE against == {i \in DOMAIN reasons : reasons[i][1]}
            first == CHOOSE i \in against : \A j \in against : i <= j
<1>0. FirstReason(reasons) = IF against = {} THEN "ok" ELSE reasons[first][2]
  BY DEF FirstReason
<1>1. against \subseteq 1..9 /\ against \subseteq 1..n
  OBVIOUS
<1>2. \A i \in 1..n : i \in against <=> reasons[i][1]
  OBVIOUS
<1>. HIDE DEF against
<1>3. CASE against = {}
  BY <1>0, <1>2, <1>3
<1>4. CASE against # {}
  <2>1. first \in against /\ \A j \in against : first <= j
    BY <1>1, <1>4, LeastReason
  <2>. HIDE DEF first
  <2>2. first \in 1..n /\ \A j \in 1..n : j < first => j \notin against
    BY <1>1, <2>1
  <2>. QED
    BY <1>0, <1>2, <1>4, <2>1, <2>2
<1>. QED
  BY <1>3, <1>4

\* What a deep probe that succeeds has seen.
ProbeSees(h, s, r) ==
  /\ FileAt(h, Resolve(h, s, "ffmpeg"), "ffmpeg") = "good"
  /\ FileAt(h, Resolve(h, s, EngineProgram(r.engine)), Working(r.engine)) = "good"
  /\ h.models[r.model] = "whole"
  /\ h.policy = "managed" => h.lib

LEMMA ProbeMeans ==
  ASSUME NEW h, NEW s, NEW r
  PROVE  /\ DeepProbe(h, s, r) = "ok" <=> ProbeSees(h, s, r)
         /\ DeepProbe(h, s, r) # "diarization_not_ready"
<1>. DEFINE worker == FileAt(h, Resolve(h, s, EngineProgram(r.engine)), Working(r.engine))
            c1 == FileAt(h, Resolve(h, s, "ffmpeg"), "ffmpeg") # "good"
            c2 == r.engine = "parakeet" /\ worker = "missing"
            c3 == worker # "good" \/ h.models[r.model] # "whole" \/ (h.policy = "managed" /\ ~h.lib)
            reasons == << <<c1, "ffmpeg_decode_failed">>, <<c2, "parakeet_worker_missing">>,
                          <<c3, "smoke_failed">> >>
<1>1. DeepProbe(h, s, r) = FirstReason(reasons)
  BY DEF DeepProbe
<1>2. ProbeSees(h, s, r) <=> ~c1 /\ ~c2 /\ ~c3
  BY DEF ProbeSees
<1>. HIDE DEF c1, c2, c3
<1>3. /\ DOMAIN reasons = 1..3
      /\ (reasons[1][1] <=> c1) /\ (reasons[2][1] <=> c2) /\ (reasons[3][1] <=> c3)
      /\ reasons[1][2] = "ffmpeg_decode_failed" /\ reasons[2][2] = "parakeet_worker_missing"
      /\ reasons[3][2] = "smoke_failed"
  OBVIOUS
<1>. HIDE DEF reasons
<1>4. \/ FirstReason(reasons) = "ok" /\ \A i \in 1..3 : ~reasons[i][1]
      \/ \E i \in 1..3 : reasons[i][1] /\ FirstReason(reasons) = reasons[i][2]
  <2>. 3 \in 1..9
    OBVIOUS
  <2>. QED
    BY <1>3, ReasonGiven
<1>. QED
  BY <1>1, <1>2, <1>3, <1>4

\* What a preflight that lets a start through has seen.
LEMMA PreflightMeans ==
  ASSUME NEW h, NEW s, NEW r, NEW probe, probe # "diarization_not_ready",
         PreflightReason(h, s, r, probe) \in {"ok", "diarization_not_ready"}
  PROVE  /\ Available(h, s, "ffmpeg") /\ Available(h, s, EngineProgram(r.engine))
         /\ h.models[r.model] # "absent" /\ probe = "ok"
         /\ PreflightReason(h, s, r, probe) = "ok" <=> SelectedHealth(h, s.diarization).ready
<1>. DEFINE c1 == ~Available(h, s, "ffmpeg")
            c2 == ~Available(h, s, EngineProgram(r.engine))
            c3 == h.models[r.model] = "absent"
            c4 == probe # "ok"
            c5 == ~SelectedHealth(h, s.diarization).ready
            reasons == << <<c1, "ffmpeg_missing">>, <<c2, "engine_missing">>, <<c3, "model_missing">>,
                          <<c4, probe>>, <<c5, "diarization_not_ready">> >>
<1>1. PreflightReason(h, s, r, probe) = FirstReason(reasons)
  BY DEF PreflightReason
<1>. SUFFICES ~c1 /\ ~c2 /\ ~c3 /\ ~c4 /\ (FirstReason(reasons) = "ok" <=> ~c5)
  BY <1>1
<1>2. c4 <=> probe # "ok"
  OBVIOUS
<1>. HIDE DEF c1, c2, c3, c4, c5
<1>3. /\ DOMAIN reasons = 1..5
      /\ (reasons[1][1] <=> c1) /\ (reasons[2][1] <=> c2) /\ (reasons[3][1] <=> c3)
      /\ (reasons[4][1] <=> c4) /\ (reasons[5][1] <=> c5)
      /\ reasons[1][2] = "ffmpeg_missing" /\ reasons[2][2] = "engine_missing"
      /\ reasons[3][2] = "model_missing" /\ reasons[4][2] = probe
      /\ reasons[5][2] = "diarization_not_ready"
  OBVIOUS
<1>. HIDE DEF reasons
<1>4. \/ FirstReason(reasons) = "ok" /\ \A i \in 1..5 : ~reasons[i][1]
      \/ \E i \in 1..5 : /\ reasons[i][1] /\ FirstReason(reasons) = reasons[i][2]
                         /\ \A j \in 1..5 : j < i => ~reasons[j][1]
  <2>. 5 \in 1..9
    OBVIOUS
  <2>. QED
    BY <1>3, ReasonGiven
<1>. QED
  BY <1>1, <1>2, <1>3, <1>4

\* When the service is built.
LEMMA BuildMeans ==
  ASSUME NEW h, NEW s
  PROVE  BuildReason(h, s) = "ok" <=>
           /\ Available(h, s, "ffmpeg") /\ Available(h, s, EngineProgram(s.engine))
           /\ s.engine = "parakeet" /\ h.policy = "managed" => VerifyManaged(h, "parakeet-batch-json")
           /\ s.engine = "parakeet" => h.models["parakeet"] # "absent"
<1>. DEFINE c1 == ~Available(h, s, "ffmpeg")
            c2 == ~Available(h, s, EngineProgram(s.engine))
            c3 == s.engine = "parakeet" /\ h.policy = "managed" /\ ~VerifyManaged(h, "parakeet-batch-json")
            c4 == s.engine = "parakeet" /\ h.models["parakeet"] = "absent"
            reasons == << <<c1, "ffmpeg">>, <<c2, "engine">>, <<c3, "worker">>, <<c4, "model">> >>
<1>1. BuildReason(h, s) = FirstReason(reasons)
  BY DEF BuildReason
<1>. SUFFICES FirstReason(reasons) = "ok" <=> ~c1 /\ ~c2 /\ ~c3 /\ ~c4
  BY <1>1
<1>. HIDE DEF c1, c2, c3, c4
<1>3. /\ DOMAIN reasons = 1..4
      /\ (reasons[1][1] <=> c1) /\ (reasons[2][1] <=> c2) /\ (reasons[3][1] <=> c3)
      /\ (reasons[4][1] <=> c4)
      /\ reasons[1][2] = "ffmpeg" /\ reasons[2][2] = "engine"
      /\ reasons[3][2] = "worker" /\ reasons[4][2] = "model"
  OBVIOUS
<1>. HIDE DEF reasons
<1>4. \/ FirstReason(reasons) = "ok" /\ \A i \in 1..4 : ~reasons[i][1]
      \/ \E i \in 1..4 : reasons[i][1] /\ FirstReason(reasons) = reasons[i][2]
  <2>. 4 \in 1..9
    OBVIOUS
  <2>. QED
    BY <1>3, ReasonGiven
<1>. QED
  BY <1>3, <1>4

LEMMA LiveMeans ==
  ASSUME NEW health, LiveReason(health, TRUE) = "ok"
  PROVE  health.stream
<1>. DEFINE c1 == ~health.ffmpeg
            c2 == ~health.stream
            c3 == ~health.model
            reasons == << <<c1, "ffmpeg_missing">>, <<c2, "whisper_stream_missing">>,
                          <<c3, "model_missing">>, <<FALSE, "no_input_device">> >>
<1>1. FirstReason(reasons) = "ok"
  BY DEF LiveReason
<1>. SUFFICES ~c2
  OBVIOUS
<1>. HIDE DEF c1, c2, c3
<1>3. /\ DOMAIN reasons = 1..4 /\ (reasons[2][1] <=> c2)
      /\ reasons[1][2] = "ffmpeg_missing" /\ reasons[2][2] = "whisper_stream_missing"
      /\ reasons[3][2] = "model_missing" /\ reasons[4][2] = "no_input_device"
  OBVIOUS
<1>. HIDE DEF reasons
<1>4. \/ FirstReason(reasons) = "ok" /\ \A i \in 1..4 : ~reasons[i][1]
      \/ \E i \in 1..4 : reasons[i][1] /\ FirstReason(reasons) = reasons[i][2]
  <2>. 4 \in 1..9
    OBVIOUS
  <2>. QED
    BY <1>3, ReasonGiven
<1>. QED
  BY <1>1, <1>3, <1>4

\* Health calls no directory ready that has no interpreter or no model.
LEMMA ReadyHasBoth ==
  ASSUME NEW d, NEW needed, PyannoteReady(d, needed)
  PROVE  HasPython(d) /\ d.model
<1>1. CASE TrustsCached(d, needed)
  BY <1>1 DEF TrustsCached, HasBoth
<1>2. CASE ~TrustsCached(d, needed)
  <2>. DEFINE c1 == d.status = "pyannote_install_incomplete"
              c2 == d.status \notin {"", "ok"}
              c3 == d.receipt.there /\ ~ValidReceipt(d)
              c4 == ~HasPython(d)
              c5 == ~d.model
              c6 == ~d.home \/ ~d.manifest.there
              c7 == ~d.manifest.arch
              c8 == ~MatchesHost(d.manifest, needed)
              c9 == ~d.receipt.there
              reasons ==
                << <<c1, "pyannote_repair_required">>, <<c2, d.status>>,
                   <<c3, "pyannote_receipt_invalid">>, <<c4, "pyannote_runtime_missing">>,
                   <<c5, "pyannote_model_missing">>, <<c6, "pyannote_repair_required">>,
                   <<c7, "pyannote_arch_mismatch">>, <<c8, "pyannote_version_mismatch">>,
                   <<c9, "pyannote_receipt_required">> >>
  <2>1. FirstReason(reasons) = "ok"
    BY <1>2 DEF PyannoteReady, PyannoteReason, Reasons
  <2>. SUFFICES ~c4 /\ ~c5
    OBVIOUS
  <2>2. c2 => d.status # "ok"
    OBVIOUS
  <2>. HIDE DEF c1, c2, c3, c4, c5, c6, c7, c8, c9
  <2>3. /\ DOMAIN reasons = 1..9
        /\ (reasons[2][1] <=> c2) /\ (reasons[4][1] <=> c4) /\ (reasons[5][1] <=> c5)
        /\ reasons[1][2] = "pyannote_repair_required" /\ reasons[2][2] = d.status
        /\ reasons[3][2] = "pyannote_receipt_invalid" /\ reasons[4][2] = "pyannote_runtime_missing"
        /\ reasons[5][2] = "pyannote_model_missing" /\ reasons[6][2] = "pyannote_repair_required"
        /\ reasons[7][2] = "pyannote_arch_mismatch" /\ reasons[8][2] = "pyannote_version_mismatch"
        /\ reasons[9][2] = "pyannote_receipt_required"
    OBVIOUS
  <2>. HIDE DEF reasons
  <2>4. \/ FirstReason(reasons) = "ok" /\ \A i \in 1..9 : ~reasons[i][1]
        \/ \E i \in 1..9 : reasons[i][1] /\ FirstReason(reasons) = reasons[i][2]
    <3>. 9 \in 1..9
      OBVIOUS
    <3>. QED
      BY <2>3, ReasonGiven
  <2>. QED
    BY <2>1, <2>2, <2>3, <2>4
<1>. QED
  BY <1>1, <1>2

\* The diarization that health selects is the one that is built.
LEMMA BuiltAsSelected ==
  ASSUME NEW h, NEW d
  PROVE  /\ BuildDiarizer(h, d) = SelectedHealth(h, d).selected
         /\ d.enabled \in BOOLEAN =>
              (SelectedHealth(h, d).ready <=> SelectedHealth(h, d).selected # <<"error">>)
<1>1. /\ ChooseBackend(h, d) = <<"pyannote">> => BuildPyannote(h) = <<"pyannote">>
      /\ ChooseBackend(h, d) \notin {<<"pyannote">>, <<"error">>} => FluidReady(h)
  <2>. DEFINE compute == NativeCompute(h.host, d.device)
              native == compute \in {"cpu", "ane"} /\ FluidReady(h)
              usable == PyannoteReady(h.pyannote, 1)
  <2>1. \/ ChooseBackend(h, d) = <<"fluid", compute>> /\ native
        \/ ChooseBackend(h, d) = <<"pyannote">> /\ usable
        \/ ChooseBackend(h, d) = <<"error">>
    <3>. DEFINE fluid == d.backend # "pyannote" /\ native
                wanted == d.backend = "pyannote" /\ d.device # "ane" /\ usable
                other == d.backend = "auto" /\ ~native /\ d.device # "ane" /\ usable
    <3>1. ChooseBackend(h, d) = CASE fluid -> <<"fluid", compute>>
                                  [] wanted -> <<"pyannote">>
                                  [] other -> <<"pyannote">>
                                  [] OTHER -> <<"error">>
      BY Zenon DEF ChooseBackend
    <3>2. (fluid => native) /\ (wanted \/ other => usable) /\ ~(fluid /\ (wanted \/ other))
      OBVIOUS
    <3>. HIDE DEF fluid, wanted, other, native, compute, usable
    <3>. QED
      BY <3>1, <3>2
  <2>2. usable => HasPython(h.pyannote) /\ h.pyannote.model
    BY ReadyHasBoth
  <2>3. <<"fluid", compute>> # <<"pyannote">>
    OBVIOUS
  <2>4. <<"pyannote">> # <<"error">>
    OBVIOUS
  <2>. QED
    BY <2>1, <2>2, <2>3, <2>4 DEF BuildPyannote
<1>2. CASE d.enabled
  <2>1. SelectedHealth(h, d).selected = ChooseBackend(h, d)
    BY <1>2 DEF SelectedHealth
  <2>2. SelectedHealth(h, d).ready <=> ChooseBackend(h, d) # <<"error">>
    BY <1>2 DEF SelectedHealth
  <2>3. BuildDiarizer(h, d) = ChooseBackend(h, d)
    BY <1>1, <1>2 DEF BuildDiarizer
  <2>. QED
    BY <2>1, <2>2, <2>3
<1>3. CASE ~d.enabled
  <2>1. SelectedHealth(h, d).selected = <<>> /\ SelectedHealth(h, d).ready
    BY <1>3 DEF SelectedHealth
  <2>2. BuildDiarizer(h, d) = <<>>
    BY <1>3 DEF BuildDiarizer
  <2>. QED
    BY <2>1, <2>2
<1>. QED
  BY <1>2, <1>3

\* Naming the programs of this app changes none that is used.
LEMMA NamedPrograms ==
  ASSUME NEW s, IsSelection(s)
  PROVE  LET t == WithPrograms(s) IN
         /\ IsSelection(t)
         /\ t.engine = s.engine /\ t.device = s.device /\ t.diarization = s.diarization /\ t.ai = s.ai
         /\ \A h : \A p \in Programs :
              Resolve(h, t, p) = Resolve(h, s, p) /\ Available(h, t, p) = Available(h, s, p)
<1>. DEFINE t == WithPrograms(s)
<1>1. /\ DOMAIN t = DOMAIN s /\ DOMAIN t.path = DOMAIN s.path
      /\ t.engine = s.engine /\ t.device = s.device /\ t.diarization = s.diarization /\ t.ai = s.ai
      /\ \A p \in Programs : t.path[p] = Sanitized(s.path[p])
  BY DEF WithPrograms, IsSelection
<1>. HIDE DEF t
<1>2. \A p \in Programs : Sanitized(t.path[p]) = Sanitized(s.path[p])
  BY <1>1 DEF Sanitized
<1>3. ASSUME NEW h, NEW p \in Programs
      PROVE  Resolve(h, t, p) = Resolve(h, s, p) /\ Available(h, t, p) = Available(h, s, p)
  <2>1. Resolve(h, t, p) = Resolve(h, s, p)
    BY <1>2 DEF Resolve
  <2>. QED
    BY <2>1 DEF Available
<1>4. IsSelection(t)
  BY <1>1 DEF IsSelection
<1>. QED
  BY <1>1, <1>3, <1>4 DEF t

\* What stands in for the chosen service stays on the machine.
LEMMA FallbacksStay ==
  ASSUME NEW ai, NEW apple,
         DOMAIN ai.services \subseteq Nat \ {0},
         \A i, j \in DOMAIN ai.services : ai.services[i].id = ai.services[j].id => i = j
  PROVE  LET chain == EnhancerCandidates(ai, apple) IN
         \A i \in DOMAIN chain :
           /\ chain[i].spec.fallback => chain[i].goesTo \in {"loopback", "on device"}
           /\ ~chain[i].spec.fallback => \A j \in DOMAIN chain : i <= j
<1>. DEFINE specs == OrderedSpecs(ai, apple)
            chain == EnhancerCandidates(ai, apple)
<1>2. ASSUME NEW p \in DOMAIN specs
      PROVE  \/ p = 0 /\ ~specs[p].fallback
             \/ p = 1 /\ specs[p].fallback /\ specs[p].key = "apple"
             \/ \E i \in DOMAIN ai.services :
                  /\ p = 1 + i /\ IsLocalFallback(ai.services[i])
                  /\ specs[p].fallback /\ specs[p].key = "remote" /\ specs[p].id = ai.services[i].id
  <2>. DEFINE locals == {i \in DOMAIN ai.services : IsLocalFallback(ai.services[i])}
              apples == AppleSpec(TRUE)
              service(i) == ServiceSpec(ai.services[i].id, TRUE)
  <2>1. ~ActiveSpec(ai).fallback
    BY DEF ActiveSpec, AppleSpec, ServiceSpec, GeminiSpec
  <2>2. apples.fallback /\ apples.key = "apple"
    BY DEF AppleSpec
  <2>3. \A i : service(i).fallback /\ service(i).key = "remote" /\ service(i).id = ai.services[i].id
    BY DEF ServiceSpec
  <2>4. /\ p \in {0, 1} \/ \E i \in locals : p = 1 + i
        /\ specs[p] = CASE p = 0 -> ActiveSpec(ai) [] p = 1 -> apples [] OTHER -> service(p - 1)
    BY DEF OrderedSpecs
  <2>. HIDE DEF specs, apples, service
  <2>5. CASE p = 0
    <3>1. specs[p] = ActiveSpec(ai)
      BY <2>4, <2>5
    <3>. QED
      BY <2>1, <2>5, <3>1
  <2>6. CASE p = 1
    <3>1. specs[p] = apples
      BY <2>4, <2>6
    <3>. QED
      BY <2>2, <2>6, <3>1
  <2>7. CASE \E i \in locals : p = 1 + i
    <3>1. PICK i \in locals : p = 1 + i
      BY <2>7
    <3>2. i \in DOMAIN ai.services /\ IsLocalFallback(ai.services[i])
      OBVIOUS
    <3>. HIDE DEF locals
    <3>3. i \in Nat \ {0}
      BY <3>2
    <3>4. p # 0 /\ p # 1 /\ p - 1 = i
      BY <3>1, <3>3
    <3>5. specs[p] = service(i)
      BY <2>4, <3>4
    <3>. QED
      BY <2>3, <3>1, <3>2, <3>5
  <2>. QED
    BY <2>4, <2>5, <2>6, <2>7
<1>3. ASSUME NEW i \in DOMAIN ai.services, IsLocalFallback(ai.services[i])
      PROVE  RemoteService(ai, ai.services[i].id) \in {"loopback", NotGiven}
  <2>. DEFINE id == ai.services[i].id
              those == {j \in DOMAIN ai.services : ai.services[j].id = id /\ ai.services[j].enabled}
  <2>1. ai.services[i].enabled /\ ai.services[i].kind \in LocalKinds /\ BaseUrl(ai.services[i]) = "loopback"
    BY <1>3 DEF IsLocalFallback
  <2>2. those = {i}
    BY <2>1
  <2>3. First({i}) = i
    BY DEF First
  <2>4. ai.services[i].kind # "google"
    BY <2>1 DEF LocalKinds
  <2>5. RemoteService(ai, id) = OpenAiCompatible(ai.services[i])
    <3>1. RemoteService(ai, id) = IF those = {} THEN NotGiven
            ELSE IF ai.services[First(those)].kind = "google" THEN GeminiService(ai, ai.services[First(those)])
            ELSE OpenAiCompatible(ai.services[First(those)])
      BY DEF RemoteService
    <3>. HIDE DEF those
    <3>. QED
      BY <2>2, <2>3, <2>4, <3>1
  <2>. QED
    BY <2>1, <2>5 DEF OpenAiCompatible
<1>4. ASSUME NEW i \in DOMAIN chain
      PROVE  i \in DOMAIN specs /\ chain[i].spec = specs[i] /\ chain[i].goesTo = FromSpec(ai, apple, specs[i])
             /\ chain[i].goesTo # NotGiven
  <2>. HIDE DEF specs
  <2>. QED
    BY DEF EnhancerCandidates, specs
<1>. HIDE DEF specs, chain
<1>5. ASSUME NEW i \in DOMAIN chain, chain[i].spec.fallback
      PROVE  chain[i].goesTo \in {"loopback", "on device"}
  <2>1. i \in DOMAIN specs /\ specs[i].fallback
    BY <1>4, <1>5
  <2>2. CASE specs[i].key = "apple"
    <3>1. FromSpec(ai, apple, specs[i]) \in {"on device", NotGiven}
      BY <2>2 DEF FromSpec
    <3>. QED
      BY <1>4, <3>1
  <2>3. CASE \E j \in DOMAIN ai.services :
               /\ IsLocalFallback(ai.services[j])
               /\ specs[i].key = "remote" /\ specs[i].id = ai.services[j].id
    <3>1. PICK j \in DOMAIN ai.services :
            /\ IsLocalFallback(ai.services[j])
            /\ specs[i].key = "remote" /\ specs[i].id = ai.services[j].id
      BY <2>3
    <3>2. FromSpec(ai, apple, specs[i]) = RemoteService(ai, ai.services[j].id)
      BY <3>1 DEF FromSpec
    <3>. QED
      BY <1>3, <1>4, <3>1, <3>2
  <2>. QED
    BY <1>2, <2>1, <2>2, <2>3
<1>6. ASSUME NEW i \in DOMAIN chain, ~chain[i].spec.fallback, NEW j \in DOMAIN chain
      PROVE  i <= j
  <2>1. i \in DOMAIN specs /\ ~specs[i].fallback /\ j \in DOMAIN specs
    BY <1>4, <1>6
  <2>2. i = 0
    BY <1>2, <2>1
  <2>3. j \in Nat
    BY <1>2, <2>1
  <2>. QED
    BY <2>2, <2>3
<1>. QED
  BY <1>5, <1>6 DEF chain

\* The machine and the settings, whatever was changed.
ChecksOK == IsMachine(here) /\ IsSelection(chosen)

\* What holds of every machine and every choice.
LEMMA DevicesHonoured == ASSUME ChecksOK PROVE DevicesAreHonoured
<1>. DEFINE d == chosen.diarization
            on == [chosen EXCEPT !.diarization.enabled = TRUE]
            turned == [d EXCEPT !.enabled = TRUE]
            built == BuildDiarizer(here, on.diarization)
<1>1. /\ on.diarization = turned /\ turned.enabled /\ turned.device = d.device
      /\ \A p \in Programs : Available(here, on, p) = Available(here, chosen, p)
  <2>1. on.diarization = turned /\ on.path = chosen.path
    BY DEF ChecksOK, IsSelection
  <2>2. turned.enabled /\ turned.device = d.device
    BY DEF ChecksOK, IsSelection
  <2>. QED
    BY <2>1, <2>2 DEF Available, Resolve
<1>2. ForJob(d, "yes") = turned
  BY DEF ForJob
<1>3. built = BuildDiarizer(here, turned)
  BY <1>1
<1>. HIDE DEF on, turned, built
<1>4. built = <<"error">> \/ built = ChooseBackend(here, turned)
  BY <1>1, <1>3, BuiltAsSelected DEF SelectedHealth
<1>. DEFINE compute == NativeCompute(here.host, d.device)
<1>5. \/ built = <<"fluid", compute>> /\ compute \in {"cpu", "ane"}
      \/ built = <<"pyannote">> /\ d.device # "ane"
      \/ built = <<"error">>
  <2>. DEFINE native == compute \in {"cpu", "ane"} /\ FluidReady(here)
              usable == PyannoteReady(here.pyannote, 1)
              fluid == turned.backend # "pyannote" /\ native
              wanted == turned.backend = "pyannote" /\ d.device # "ane" /\ usable
              other == turned.backend = "auto" /\ ~native /\ d.device # "ane" /\ usable
  <2>1. ChooseBackend(here, turned) = CASE fluid -> <<"fluid", compute>>
                                     [] wanted -> <<"pyannote">>
                                     [] other -> <<"pyannote">>
                                     [] OTHER -> <<"error">>
    BY <1>1, Zenon DEF ChooseBackend
  <2>2. /\ fluid => compute \in {"cpu", "ane"}
        /\ wanted \/ other => d.device # "ane"
        /\ ~(fluid /\ (wanted \/ other))
    OBVIOUS
  <2>. HIDE DEF fluid, wanted, other, compute
  <2>. QED
    BY <1>4, <2>1, <2>2
<1>6. /\ d.device = "ane" /\ compute \in {"cpu", "ane"} => compute = "ane"
      /\ d.device \in {"mps", "cuda"} => compute \notin {"cpu", "ane"}
  BY DEF NativeCompute
<1>. HIDE DEF compute
<1>7. <<"fluid", compute>> # <<"error">> /\ <<"fluid", compute>> # <<>>
  OBVIOUS
<1>8. <<"pyannote">> # <<"error">> /\ <<"pyannote">> # <<>> /\ <<"error">> # <<>>
  OBVIOUS
<1>9. Head(<<"pyannote">>) = "pyannote" /\ Head(<<"error">>) = "error"
  OBVIOUS
<1>10. /\ d.device = "ane" => built \in {<<"error">>, <<"fluid", "ane">>}
       /\ d.device \in {"mps", "cuda"} => Head(built) # "fluid"
  BY <1>5, <1>6, <1>9
<1>11. built # <<>>
  BY <1>5, <1>7, <1>8
<1>12. CompanionDiarizes(here, d) = (built # <<"error">>)
  BY <1>2, <1>3, <1>11 DEF CompanionDiarizes
<1>13. Available(here, on, "ffmpeg") => LateDiarization(here, on) = built
  BY DEF LateDiarization, built
<1>14. on.diarization.device = d.device
  BY <1>1
<1>. QED
  BY <1>10, <1>12, <1>13, <1>14 DEF DevicesAreHonoured, on, built

LEMMA CompleteSuffices == ASSUME ChecksOK PROVE CompleteIsEnough
<1>1. ASSUME here.policy = "managed", InstallComplete(here, chosen), NEW e \in Engines
      PROVE  ToolchainReady(here, [chosen EXCEPT !.engine = e])
  <2>1. \A p \in Programs : VerifyManaged(here, p)
    BY <1>1 DEF InstallComplete, ManagedReady
  <2>2. EnginePrograms(here, e) \subseteq Programs
    BY DEF EnginePrograms, Programs
  <2>3. [chosen EXCEPT !.engine = e].engine = e
    BY DEF ChecksOK, IsSelection
  <2>. QED
    BY <1>1, <2>1, <2>2, <2>3 DEF ToolchainReady, Available
<1>2. ASSUME SetupComplete(here, chosen), chosen.engine = "whisper"
      PROVE  /\ BuildReason(here, chosen) = "ok"
             /\ MissingModels(here) \subseteq {m \in {"tiny"} : here.models[m] = "corrupt"}
  <2>1. Available(here, chosen, "ffmpeg") /\ Available(here, chosen, "whisper-cli")
    BY <1>2 DEF SetupComplete, ToolchainReady, EnginePrograms
  <2>2. BuildReason(here, chosen) = "ok"
    BY <1>2, <2>1, BuildMeans DEF EngineProgram
  <2>3. \A m \in SetupModels : here.models[m] \in {"corrupt", "whole"}
    BY <1>2 DEF SetupComplete, ChecksOK, IsMachine, ModelStates
  <2>4. \A m \in MissingModels(here) : m = "tiny" /\ here.models[m] = "corrupt"
    BY <2>3 DEF MissingModels, ModelInstalled, SetupModels
  <2>. QED
    BY <2>2, <2>4
<1>3. ASSUME LiveReason(LiveHealth(here, chosen), TRUE) = "ok"
      PROVE  BuildsStream(here)
  <2>1. LiveHealth(here, chosen).stream
    BY <1>3, LiveMeans
  <2>2. Available(here, chosen, "whisper-stream")
    BY <2>1 DEF LiveHealth
  <2>. QED
    BY <2>2 DEF Available, BuildsStream
<1>. QED
  BY <1>1, <1>2, <1>3 DEF CompleteIsEnough

\* A remembered probe that succeeded has seen what its key and the history
\* beside it say.
ProbesAreTrue ==
  \A k \in DOMAIN probes :
    /\ probes[k].said # "diarization_not_ready"
    /\ probes[k].said = "ok" =>
         /\ k[2][2] = "good" /\ k[5] = "whole" /\ probes[k].beside[2] = "good"
         /\ here.policy = "managed" => probes[k].beside[1] = TRUE

\* What let a start through is there still.
Seen(w) ==
  /\ Available(here, chosen, "ffmpeg") /\ Available(here, chosen, EngineProgram(w.request.engine))
  /\ here.models[w.request.model] # "absent" /\ ProbeSees(here, chosen, w.request)
  /\ w.speakers = SelectedHealth(here, chosen.diarization)
  /\ w.told = "ok" <=> w.speakers.ready

\* A window that was let through, with nothing changed since, was told the truth.
WindowIsTrue ==
  /\ window.at # "idle" =>
       /\ DOMAIN window = {"at", "request", "told", "speakers", "moved"}
       /\ window.request \in Requests /\ window.moved \in BOOLEAN
  /\ window.at = "ensured" => window.told = "degraded"
  /\ window.at = "checked" /\ window.told # "degraded" /\ ~window.moved => Seen(window)

\* The properties that speak of the last start.
StartIsTrue == AllowedIsServed /\ DiarizationIsAsTold /\ FallbacksAreLocal

StartInv == ChecksOK /\ ProbesAreTrue /\ WindowIsTrue /\ StartIsTrue

LEMMA InitChecks == ChecksInit => StartInv
<1>. SUFFICES ASSUME ChecksInit PROVE StartInv
  OBVIOUS
<1>1. ChecksOK
  BY MachinesAssumption, SelectionsAssumption DEF ChecksInit, ChecksOK
<1>2. ProbesAreTrue
  BY DEF ChecksInit, ProbesAreTrue
<1>3. WindowIsTrue
  BY DEF ChecksInit, IdleWindow, WindowIsTrue
<1>4. StartIsTrue
  BY DEF ChecksInit, StartIsTrue, AllowedIsServed, DiarizationIsAsTold, FallbacksAreLocal, Unmoved
<1>. QED
  BY <1>1, <1>2, <1>3, <1>4 DEF StartInv

\* What was told of a start stands until the next one.
LEMMA StartStands ==
  ASSUME StartIsTrue, started' = started \/ started' = NotStarted
  PROVE  StartIsTrue'
BY DEF StartIsTrue, AllowedIsServed, DiarizationIsAsTold, FallbacksAreLocal, Unmoved, NotStarted

\* Whatever changes is noted in a start that is under way.
LEMMA MovesAreNoted ==
  ASSUME StartInv, SomethingMoves, ChecksOK', here'.policy = here.policy
  PROVE  StartInv'
<1>1. window' = Moved /\ probes' = probes /\ started' = started
  BY DEF SomethingMoves
<1>2. ProbesAreTrue'
  BY <1>1 DEF StartInv, ProbesAreTrue
<1>3. WindowIsTrue'
  <2>1. CASE window.at = "idle"
    BY <1>1, <2>1 DEF Moved, WindowIsTrue
  <2>2. CASE window.at # "idle"
    <3>1. window' = [window EXCEPT !.moved = TRUE]
      BY <1>1, <2>2 DEF Moved
    <3>2. /\ DOMAIN window = {"at", "request", "told", "speakers", "moved"}
          /\ window.request \in Requests /\ (window.at = "ensured" => window.told = "degraded")
      BY <2>2 DEF StartInv, WindowIsTrue
    <3>3. /\ DOMAIN window' = {"at", "request", "told", "speakers", "moved"} /\ window'.moved
          /\ window'.at = window.at /\ window'.request = window.request /\ window'.told = window.told
      BY <3>1, <3>2
    <3>. QED
      BY <3>2, <3>3 DEF WindowIsTrue
  <2>. QED
    BY <2>1, <2>2
<1>4. StartIsTrue'
  BY <1>1, StartStands DEF StartInv
<1>. QED
  BY <1>2, <1>3, <1>4 DEF StartInv

\* The steps, one after the other.
LEMMA ChangesKeep ==
  ASSUME StartInv, ChangeProgram \/ ChangeModel \/ ChangeRest \/ ChangeSettings
  PROVE  StartInv'
<1>1. CASE ChangeProgram
  <2>1. PICK p \in Programs, f \in ProgramStates : here' = [here EXCEPT !.files[PlaceInUse][p] = f]
    BY <1>1 DEF ChangeProgram
  <2>2. /\ DOMAIN here' = DOMAIN here /\ here'.policy = here.policy /\ here'.lib = here.lib
        /\ here'.models = here.models /\ chosen' = chosen
    BY <1>1, <2>1 DEF ChangeProgram, StartInv, ChecksOK, IsMachine
  <2>3. ChecksOK'
    BY <2>2 DEF StartInv, ChecksOK, IsMachine
  <2>. QED
    BY <1>1, <2>2, <2>3, MovesAreNoted DEF ChangeProgram
<1>2. CASE ChangeModel
  <2>1. PICK m \in DOMAIN here.models, state \in ModelStates : here' = [here EXCEPT !.models[m] = state]
    BY <1>2 DEF ChangeModel
  <2>2. /\ DOMAIN here' = DOMAIN here /\ here'.policy = here.policy /\ here'.lib = here.lib
        /\ here'.models = [here.models EXCEPT ![m] = state] /\ chosen' = chosen
    BY <1>2, <2>1 DEF ChangeModel, StartInv, ChecksOK, IsMachine
  <2>3. here'.models \in [SetupModels \cup {"parakeet"} -> ModelStates]
    BY <2>1, <2>2 DEF StartInv, ChecksOK, IsMachine
  <2>4. ChecksOK'
    BY <2>2, <2>3 DEF StartInv, ChecksOK, IsMachine
  <2>. QED
    BY <1>2, <2>2, <2>4, MovesAreNoted DEF ChangeModel
<1>3. CASE ChangeRest
  <2>1. /\ DOMAIN here' = DOMAIN here /\ here'.policy = here.policy /\ here'.lib \in BOOLEAN
        /\ here'.models = here.models /\ chosen' = chosen
    BY <1>3 DEF ChangeRest, StartInv, ChecksOK, IsMachine
  <2>2. ChecksOK'
    BY <2>1 DEF StartInv, ChecksOK, IsMachine
  <2>. QED
    BY <1>3, <2>1, <2>2, MovesAreNoted DEF ChangeRest
<1>4. CASE ChangeSettings
  <2>1. here' = here /\ chosen' \in Selections /\ SomethingMoves
    BY <1>4 DEF ChangeSettings
  <2>2. ChecksOK'
    BY <2>1, SelectionsAssumption DEF StartInv, ChecksOK
  <2>. QED
    BY <2>1, <2>2, MovesAreNoted
<1>. QED
  BY <1>1, <1>2, <1>3, <1>4

LEMMA ProbesForgotten == ASSUME StartInv, FiveMinutesPass PROVE StartInv'
<1>1. /\ here' = here /\ chosen' = chosen /\ window' = window /\ started' = started
      /\ \A k \in DOMAIN probes' : k \in DOMAIN probes /\ probes'[k] = probes[k]
  BY DEF FiveMinutesPass
<1>2. ChecksOK'
  BY <1>1 DEF StartInv, ChecksOK
<1>3. ProbesAreTrue'
  BY <1>1 DEF StartInv, ProbesAreTrue
<1>4. WindowIsTrue'
  BY <1>1 DEF StartInv, WindowIsTrue, Seen
<1>5. StartIsTrue'
  BY <1>1, StartStands DEF StartInv
<1>. QED
  BY <1>2, <1>3, <1>4, <1>5 DEF StartInv

LEMMA EnsureKeeps == ASSUME StartInv, EnsureRuntime PROVE StartInv'
<1>1. /\ here' = here /\ probes' = probes /\ started' = NotStarted /\ window.at = "idle"
      /\ chosen' \in {chosen, WithPrograms(chosen)}
      /\ \/ window' = window
         \/ \E r \in Requests :
              window' = [at |-> "ensured", request |-> r, told |-> "degraded",
                         speakers |-> <<>>, moved |-> FALSE]
  BY DEF EnsureRuntime
<1>2. ChecksOK'
  BY <1>1, NamedPrograms DEF StartInv, ChecksOK
<1>3. ProbesAreTrue'
  BY <1>1 DEF StartInv, ProbesAreTrue
<1>4. WindowIsTrue'
  <2>1. CASE window' = window
    BY <1>1, <2>1 DEF WindowIsTrue
  <2>2. ASSUME NEW r \in Requests,
               window' = [at |-> "ensured", request |-> r, told |-> "degraded",
                          speakers |-> <<>>, moved |-> FALSE]
        PROVE  WindowIsTrue'
    <3>1. /\ DOMAIN window' = {"at", "request", "told", "speakers", "moved"}
          /\ window'.at = "ensured" /\ window'.request = r /\ window'.told = "degraded"
          /\ window'.moved \in BOOLEAN
      BY <2>2
    <3>. QED
      BY <3>1 DEF WindowIsTrue
  <2>. QED
    BY <1>1, <2>1, <2>2
<1>5. StartIsTrue'
  BY <1>1, StartStands DEF StartInv
<1>. QED
  BY <1>2, <1>3, <1>4, <1>5 DEF StartInv

\* What the window keeps of an answer that lets the start through.
LEMMA ToldIsSeen ==
  ASSUME StartInv, window.at = "ensured", NEW said, NEW beside,
         said # "diarization_not_ready",
         said = "ok" /\ beside = Beside(window.request) => ProbeSees(here, chosen, window.request),
         window' = Told(said, beside), here' = here, chosen' = chosen
  PROVE  WindowIsTrue'
<1>. DEFINE told == PreflightReason(here, chosen, window.request, said)
            checked == [window EXCEPT !.at = "checked", !.told = told,
                                      !.speakers = SelectedHealth(here, chosen.diarization),
                                      !.moved = beside # Beside(window.request)]
<1>1. window' = IF told \in {"ok", "diarization_not_ready"} THEN checked ELSE IdleWindow
  BY DEF Told
<1>2. CASE told \notin {"ok", "diarization_not_ready"}
  <2>1. window'.at = "idle"
    BY <1>1, <1>2 DEF IdleWindow
  <2>. QED
    BY <2>1 DEF WindowIsTrue
<1>3. CASE told \in {"ok", "diarization_not_ready"}
  <2>1. window' = checked
    BY <1>1, <1>3
  <2>2. /\ DOMAIN window = {"at", "request", "told", "speakers", "moved"} /\ window.request \in Requests
    BY DEF StartInv, WindowIsTrue
  <2>. HIDE DEF told
  <2>3. /\ DOMAIN window' = {"at", "request", "told", "speakers", "moved"}
        /\ window'.at = "checked" /\ window'.request = window.request /\ window'.told = told
        /\ window'.speakers = SelectedHealth(here, chosen.diarization)
    BY <2>1, <2>2
  <2>4. window'.moved \in BOOLEAN /\ (~window'.moved => beside = Beside(window.request))
    BY <2>1, <2>2
  <2>5. /\ Available(here, chosen, "ffmpeg") /\ Available(here, chosen, EngineProgram(window.request.engine))
        /\ here.models[window.request.model] # "absent" /\ said = "ok"
        /\ told = "ok" <=> SelectedHealth(here, chosen.diarization).ready
    BY <1>3, PreflightMeans DEF told
  <2>6. ~window'.moved => Seen(window)'
    BY <2>3, <2>4, <2>5 DEF Seen
  <2>. QED
    BY <2>2, <2>3, <2>4, <2>6 DEF WindowIsTrue
<1>. QED
  BY <1>2, <1>3

\* What the key and the history of a probe say of the machine.
LEMMA KeySays ==
  ASSUME NEW r
  PROVE  LET key == Key(r) IN
         /\ key[2][2] = FileAt(here, Resolve(here, chosen, "ffmpeg"), "ffmpeg")
         /\ key[5] = here.models[r.model]
         /\ Beside(r)[1] = here.lib
         /\ Beside(r)[2] = FileAt(here, Resolve(here, chosen, EngineProgram(r.engine)), Working(r.engine))
BY DEF Key, Beside

LEMMA PreflightKeeps == ASSUME StartInv, Preflight PROVE StartInv'
<1>. DEFINE r == window.request
            key == Key(r)
<1>1. /\ here' = here /\ chosen' = chosen /\ started' = started /\ window.at = "ensured"
      /\ \/ window' = Told("unasked", Beside(r)) /\ probes' = probes
         \/ key \in DOMAIN probes /\ window' = Told(probes[key].said, probes[key].beside) /\ probes' = probes
         \/ \E said \in ProbeOutcomesFor(r) :
              /\ window' = Told(said, Beside(r))
              /\ probes' = [k \in DOMAIN probes \cup {key} |->
                              IF k = key THEN [said |-> said, beside |-> Beside(r)] ELSE probes[k]]
         \/ window' = [window EXCEPT !.at = "checked"] /\ probes' = probes
  BY DEF Preflight
<1>2. ChecksOK' /\ StartIsTrue'
  BY <1>1, StartStands DEF StartInv, ChecksOK
<1>3. /\ key[2][2] = FileAt(here, Resolve(here, chosen, "ffmpeg"), "ffmpeg")
      /\ key[5] = here.models[r.model]
      /\ Beside(r)[1] = here.lib
      /\ Beside(r)[2] = FileAt(here, Resolve(here, chosen, EngineProgram(r.engine)), Working(r.engine))
  BY KeySays
<1>. HIDE DEF key
<1>4. CASE window' = Told("unasked", Beside(r)) /\ probes' = probes
  <2>1. WindowIsTrue'
    BY <1>1, <1>4, ToldIsSeen
  <2>2. ProbesAreTrue'
    BY <1>1, <1>4 DEF StartInv, ProbesAreTrue
  <2>. QED
    BY <1>2, <2>1, <2>2 DEF StartInv
<1>5. CASE key \in DOMAIN probes /\ window' = Told(probes[key].said, probes[key].beside) /\ probes' = probes
  <2>1. /\ probes[key].said # "diarization_not_ready"
        /\ probes[key].said = "ok" =>
             /\ key[2][2] = "good" /\ key[5] = "whole" /\ probes[key].beside[2] = "good"
             /\ here.policy = "managed" => probes[key].beside[1] = TRUE
    BY <1>5 DEF StartInv, ProbesAreTrue
  <2>2. probes[key].said = "ok" /\ probes[key].beside = Beside(r) => ProbeSees(here, chosen, r)
    BY <1>3, <2>1 DEF ProbeSees
  <2>3. WindowIsTrue'
    BY <1>1, <1>5, <2>1, <2>2, ToldIsSeen
  <2>4. ProbesAreTrue'
    BY <1>1, <1>5 DEF StartInv, ProbesAreTrue
  <2>. QED
    BY <1>2, <2>3, <2>4 DEF StartInv
<1>6. ASSUME NEW said \in ProbeOutcomesFor(r), window' = Told(said, Beside(r)),
             probes' = [k \in DOMAIN probes \cup {key} |->
                          IF k = key THEN [said |-> said, beside |-> Beside(r)] ELSE probes[k]]
      PROVE  StartInv'
  <2>1. said # "diarization_not_ready" /\ (said = "ok" => ProbeSees(here, chosen, r))
    BY ProbeMeans DEF ProbeOutcomesFor
  <2>2. WindowIsTrue'
    BY <1>1, <1>6, <2>1, ToldIsSeen
  <2>3. ASSUME NEW k \in DOMAIN probes'
        PROVE  /\ probes'[k].said # "diarization_not_ready"
               /\ probes'[k].said = "ok" =>
                    /\ k[2][2] = "good" /\ k[5] = "whole" /\ probes'[k].beside[2] = "good"
                    /\ here.policy = "managed" => probes'[k].beside[1] = TRUE
    <3>1. CASE k = key
      <4>1. probes'[k].said = said /\ probes'[k].beside = Beside(r)
        BY <1>6, <3>1
      <4>2. here.lib \in BOOLEAN
        BY DEF StartInv, ChecksOK, IsMachine
      <4>. QED
        BY <1>3, <2>1, <3>1, <4>1, <4>2 DEF ProbeSees
    <3>2. CASE k # key
      <4>1. k \in DOMAIN probes /\ probes'[k] = probes[k]
        BY <1>6, <3>2
      <4>. QED
        BY <4>1 DEF StartInv, ProbesAreTrue
    <3>. QED
      BY <3>1, <3>2
  <2>4. ProbesAreTrue'
    BY <1>1, <2>3 DEF ProbesAreTrue
  <2>. QED
    BY <1>2, <2>2, <2>4 DEF StartInv
<1>7. CASE window' = [window EXCEPT !.at = "checked"] /\ probes' = probes
  <2>1. /\ DOMAIN window = {"at", "request", "told", "speakers", "moved"} /\ window.request \in Requests
        /\ window.moved \in BOOLEAN /\ window.told = "degraded"
    BY <1>1 DEF StartInv, WindowIsTrue
  <2>2. /\ DOMAIN window' = {"at", "request", "told", "speakers", "moved"} /\ window'.request \in Requests
        /\ window'.moved \in BOOLEAN /\ window'.told = "degraded" /\ window'.at = "checked"
    BY <1>7, <2>1
  <2>3. WindowIsTrue'
    BY <2>2 DEF WindowIsTrue
  <2>4. ProbesAreTrue'
    BY <1>1, <1>7 DEF StartInv, ProbesAreTrue
  <2>. QED
    BY <1>2, <2>3, <2>4 DEF StartInv
<1>. QED
  BY <1>1, <1>4, <1>5, <1>6, <1>7

LEMMA TranscriptionKeeps == ASSUME StartInv, StartTranscription PROVE StartInv'
<1>. DEFINE given == [chosen EXCEPT !.ai = ForHost(@, here.host.apple)]
            s == WithPrograms(given)
            reason == BuildReason(here, s)
            taken == [engine |-> s.engine,
                     model |-> IF s.engine = "parakeet" THEN "parakeet" ELSE window.request.model]
<1>1. /\ window.at = "checked" /\ here' = here /\ probes' = probes /\ window' = IdleWindow
      /\ chosen' \in {s, chosen}
      /\ started' = [reason |-> reason, window |-> window, used |-> taken,
                      runs |-> taken.model \in DOMAIN here.models /\ DeepProbe(here, s, taken) = "ok",
                      speakers |-> BuildDiarizer(here, s.diarization),
                      chain |-> EnhancerCandidates(s.ai, here.host.apple)]
  BY DEF StartTranscription
<1>2. IsMachine(here) /\ IsSelection(chosen)
  BY DEF StartInv, ChecksOK
<1>3. /\ IsSelection(given)
      /\ given.engine = chosen.engine /\ given.diarization = chosen.diarization /\ given.path = chosen.path
  <2>. DEFINE ai == ForHost(chosen.ai, here.host.apple)
  <2>1. DOMAIN ai = DOMAIN chosen.ai /\ ai.services = chosen.ai.services
    BY <1>2 DEF ForHost, IsSelection
  <2>. HIDE DEF ai
  <2>2. given = [chosen EXCEPT !.ai = ai]
    BY DEF ai
  <2>. HIDE DEF given
  <2>3. /\ DOMAIN given = DOMAIN chosen /\ given.ai = ai /\ given.engine = chosen.engine
        /\ given.diarization = chosen.diarization /\ given.path = chosen.path
    BY <1>2, <2>2 DEF IsSelection
  <2>. QED
    BY <1>2, <2>1, <2>3 DEF IsSelection
<1>4. \A p \in Programs :
        Resolve(here, given, p) = Resolve(here, chosen, p) /\ Available(here, given, p) = Available(here, chosen, p)
  BY <1>3 DEF Resolve, Available
<1>. HIDE DEF given
<1>5. /\ IsSelection(s) /\ s.engine = chosen.engine /\ s.diarization = chosen.diarization
      /\ \A p \in Programs :
           Resolve(here, s, p) = Resolve(here, chosen, p) /\ Available(here, s, p) = Available(here, chosen, p)
  BY <1>3, <1>4, NamedPrograms
<1>. HIDE DEF s
<1>6. /\ started'.reason = reason /\ started'.window = window /\ started'.used = taken
      /\ started'.runs = (taken.model \in DOMAIN here.models /\ DeepProbe(here, s, taken) = "ok")
      /\ started'.speakers = BuildDiarizer(here, s.diarization)
      /\ started'.chain = EnhancerCandidates(s.ai, here.host.apple)
  BY <1>1
<1>7. ASSUME Unmoved', started'.window.told # "degraded"
      PROVE  Seen(window) /\ window.request \in Requests
  <2>1. ~window.moved /\ window.told # "degraded"
    BY <1>6, <1>7 DEF Unmoved
  <2>. QED
    BY <1>1, <2>1 DEF StartInv, WindowIsTrue
<1>8. FallbacksAreLocal'
  <2>1. /\ DOMAIN s.ai.services \subseteq Nat \ {0}
        /\ \A i, j \in DOMAIN s.ai.services : s.ai.services[i].id = s.ai.services[j].id => i = j
    BY <1>5 DEF IsSelection
  <2>. DEFINE chain == EnhancerCandidates(s.ai, here.host.apple)
  <2>2. \A i \in DOMAIN chain :
           /\ chain[i].spec.fallback => chain[i].goesTo \in {"loopback", "on device"}
           /\ ~chain[i].spec.fallback => \A j \in DOMAIN chain : i <= j
    BY <2>1, FallbacksStay
  <2>3. started'.chain = chain
    BY <1>6
  <2>. HIDE DEF chain
  <2>. QED
    BY <2>2, <2>3 DEF FallbacksAreLocal
<1>9. DiarizationIsAsTold'
  <2>. SUFFICES ASSUME Unmoved', started'.window.told # "degraded"
                PROVE  /\ started'.speakers = started'.window.speakers.selected
                       /\ (started'.window.told = "ok") = (started'.speakers # <<"error">>)
    BY DEF DiarizationIsAsTold
  <2>1. /\ window.speakers = SelectedHealth(here, chosen.diarization)
        /\ window.told = "ok" <=> window.speakers.ready
    BY <1>7 DEF Seen
  <2>2. /\ BuildDiarizer(here, chosen.diarization) = SelectedHealth(here, chosen.diarization).selected
        /\ SelectedHealth(here, chosen.diarization).ready
              <=> SelectedHealth(here, chosen.diarization).selected # <<"error">>
    BY <1>2, BuiltAsSelected DEF IsSelection
  <2>3. started'.speakers = window.speakers.selected
    BY <1>5, <1>6, <2>1, <2>2
  <2>. QED
    BY <1>6, <2>1, <2>2, <2>3
<1>10. AllowedIsServed'
  <2>. SUFFICES ASSUME Unmoved', started'.window.told # "degraded",
                       started'.used.engine = started'.window.request.engine
                PROVE  started'.reason = "ok" /\ started'.runs
    BY DEF AllowedIsServed
  <2>. DEFINE r == window.request
  <2>1. r \in Requests /\ Seen(window)
    BY <1>7
  <2>2. /\ s.engine = r.engine /\ taken.engine = r.engine /\ taken.model = r.model
        /\ r.engine \in {"whisper", "parakeet"} /\ r.model \in {"base", "parakeet"}
        /\ r.engine = "parakeet" => r.model = "parakeet"
    BY <1>6, <2>1 DEF Requests
  <2>3. EngineProgram(r.engine) \in Programs /\ "ffmpeg" \in Programs
    BY DEF EngineProgram, Programs
  <2>4. /\ Available(here, s, "ffmpeg") /\ Available(here, s, EngineProgram(r.engine))
        /\ ProbeSees(here, s, r) /\ here.models[r.model] # "absent"
    BY <1>5, <2>1, <2>3 DEF Seen, ProbeSees
  <2>5. ASSUME r.engine = "parakeet", here.policy = "managed"
        PROVE  VerifyManaged(here, "parakeet-batch-json")
    <3>1. Resolve(here, s, EngineProgram(r.engine)) = "managed"
      BY <2>5 DEF Resolve
    <3>2. here.files.managed["parakeet-batch-json"] = "good" /\ here.lib
      BY <2>4, <2>5, <3>1 DEF ProbeSees, FileAt, Working
    <3>. QED
      BY <3>2 DEF VerifyManaged, Executable, AnswersProbe
  <2>6. reason = "ok"
    BY <2>2, <2>4, <2>5, BuildMeans
  <2>7. DeepProbe(here, s, taken) = "ok"
    <3>1. ProbeSees(here, s, taken)
      BY <2>2, <2>4 DEF ProbeSees
    <3>. QED
      BY <3>1, ProbeMeans
  <2>8. taken.model \in DOMAIN here.models
    BY <1>2, <2>2 DEF IsMachine, SetupModels
  <2>. QED
    BY <1>6, <2>6, <2>7, <2>8
<1>11. ChecksOK' /\ ProbesAreTrue'
  BY <1>1, <1>2, <1>5 DEF StartInv, ChecksOK, ProbesAreTrue
<1>12. WindowIsTrue'
  BY <1>1 DEF WindowIsTrue, IdleWindow
<1>. QED
  BY <1>8, <1>9, <1>10, <1>11, <1>12 DEF StartInv, StartIsTrue

LEMMA ChecksStep == StartInv /\ [ChecksNext]_checks => StartInv'
<1>. SUFFICES ASSUME StartInv, [ChecksNext]_checks PROVE StartInv'
  OBVIOUS
<1>1. CASE UNCHANGED checks
  <2>1. /\ here' = here /\ chosen' = chosen /\ probes' = probes /\ window' = window /\ started' = started
    BY <1>1 DEF checks
  <2>2. ChecksOK' /\ ProbesAreTrue'
    BY <2>1 DEF StartInv, ChecksOK, ProbesAreTrue
  <2>3. WindowIsTrue'
    BY <2>1 DEF StartInv, WindowIsTrue, Seen
  <2>4. StartIsTrue'
    BY <2>1, StartStands DEF StartInv
  <2>. QED
    BY <2>2, <2>3, <2>4 DEF StartInv
<1>2. CASE ChecksNext
  BY <1>2, ChangesKeep, ProbesForgotten, EnsureKeeps, PreflightKeeps, TranscriptionKeeps DEF ChecksNext
<1>. QED
  BY <1>1, <1>2

\* Whatever changes between its steps, what is remembered of a start is true
\* of the machine, or known to be out of date.
THEOREM StartInvariant == ChecksSpec => []StartInv
BY InitChecks, ChecksStep, PTL DEF ChecksSpec

\* A start that the preflight allowed gets its service and transcribes, with
\* the diarization it was told of; and what stands in for the chosen AI service
\* stays on the machine, for any machines and settings, if services differ in id.
THEOREM StartsAreAsTold == ChecksSpec => []StartIsAsTold
<1>1. StartInv => StartIsAsTold
  BY DevicesHonoured, CompleteSuffices DEF StartInv, StartIsTrue, StartIsAsTold
<1>. QED
  BY <1>1, StartInvariant, PTL

=============================================================================
