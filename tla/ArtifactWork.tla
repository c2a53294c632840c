---------------------------- MODULE ArtifactWork -----------------------------
(***************************************************************************)
(* The commands that work on saved artifacts (commands/artifacts.rs): the  *)
(* edits, the AI commands that keep their result, the trash, the late      *)
(* diarization with its registry and its cancel command, and the chat with *)
(* its lock per artifact.  All of them run concurrently over the store.    *)
(***************************************************************************)
EXTENDS ArtifactStore, SequencesExt

CONSTANTS
    Editors,      \* edits, renames, emotion analyses and generated packs
    Runs,         \* late diarizations
    Cancels,      \* cancel commands
    Turns,        \* chat questions
    None,
    Scenes        \* sets of the processes that take part together

ASSUME NobodyIsNone == None \notin Runs \cup Turns
ASSUME NamesAreDistinct ==
    /\ Editors \cap Runs = {} /\ Editors \cap Cancels = {} /\ Runs \cap Cancels = {}
ASSUME WritersAreUpdaters == Writers = Editors \cup Runs \cup Cancels
ASSUME ValuesAreWritten ==
    Editors \cup Runs \cup {"running", "completed", "failed", "cancelled"} \subseteq Values

VARIABLES
    who,          \* the processes of this behaviour
    editor,       \* phase and purpose of each edit
    run,          \* each diarization: its phase, token and metadata to write
    registry,     \* state.diarization_tasks
    cancel,       \* each cancel command
    trash,        \* the hard delete under way
    lock,         \* state.artifact_chat_locks
    turn,         \* each chat command
    messages,     \* artifact_chat_messages, oldest first
    crashed       \* the program has been ended and started again

work == <<editor, run, registry, cancel, trash, lock, turn, messages, crashed>>
vars == <<store, who, work>>

EditFields == {"content", "title", "timeline", "pack", "emotion"}
\* The entries set_diarization_metadata writes; the error's, written between
\* them, fails and succeeds as the progress does.
StatusKeys == <<"status", "progress">>

IdleRun == [pc |-> "idle", art |-> None, cancelled |-> FALSE, goal |-> "running",
            todo |-> <<>>, wrote |-> "no"]

TypeOK ==
    /\ StoreTypeOK
    /\ who \in Scenes
    /\ \A e \in Editors :
           editor[e].pc \in {"idle", "thinking", "reading", "writing", "done"}
    /\ registry \in [Artifacts -> Runs \cup {None}]
    /\ \A r \in Runs :
           /\ run[r].pc \in {"idle", "starting", "spawned", "diarizing", "turns",
                             "writing", "written", "completing", "reporting",
                             "leaving", "done", "refused"}
           /\ run[r].wrote \in {"no", "yes", "missed"}
    /\ \A c \in Cancels : cancel[c].pc \in {"idle", "setting", "done"}
    /\ trash.pc \in {"idle", "listed", "erased", "done"}
    /\ lock \in [Artifacts -> Turns \cup {None}]
    /\ \A t \in Turns :
           turn[t].pc \in {"idle", "waiting", "open", "asking", "done"}
    /\ crashed \in BOOLEAN

Init ==
    /\ who \in Scenes
    /\ IF "import" \in who THEN StoreInit ELSE StoreInUse
    /\ editor = [e \in Editors |-> [pc |-> "idle"]]
    /\ run = [r \in Runs |-> IdleRun]
    /\ registry = [a \in Artifacts |-> None]
    /\ cancel = [c \in Cancels |-> [pc |-> "idle", art |-> None, todo |-> <<>>]]
    /\ trash = [pc |-> "idle", ids |-> {}]
    /\ lock = [a \in Artifacts |-> None]
    /\ turn = [t \in Turns |-> [pc |-> "idle", art |-> None, history |-> <<>>]]
    /\ messages = [a \in Artifacts |-> <<>>]
    /\ crashed = FALSE

\* Whether statements and programs fail for reasons of their own in this behaviour.
Faulty == "faults" \in who

-----------------------------------------------------------------------------
(* Edits and AI commands. *)

\* update_artifact, update_artifact_timeline and rename_artifact go straight to the
\* store; generate_artifact_pack and analyze_artifact_emotions first load the
\* artifact and then wait for the AI.
BeginEdit(e, a, f) ==
    /\ Ready /\ editor[e].pc = "idle"
    /\ f \in {"pack", "emotion"} => row[a].st = "live"
    /\ editor' = [editor EXCEPT
          ![e] = [pc |-> IF f \in {"pack", "emotion"} THEN "thinking" ELSE "reading",
                  art |-> a, field |-> f]]
    /\ UNCHANGED <<store, who, run, registry, cancel, trash, lock, turn, messages, crashed>>

\* No provider, an empty transcript, or an AI error ends the command.
AiAnswers(e, ok) ==
    /\ editor[e].pc = "thinking"
    /\ editor' = [editor EXCEPT ![e].pc = IF ok THEN "reading" ELSE "done"]
    /\ UNCHANGED <<store, who, run, registry, cancel, trash, lock, turn, messages, crashed>>

EditReads(e) ==
    /\ editor[e].pc = "reading"
    /\ IF row[editor[e].art].st = "live"
       THEN /\ ReadForUpdate(e, editor[e].art, editor[e].field, e)
            /\ editor' = [editor EXCEPT ![e].pc = "writing"]
       ELSE /\ editor' = [editor EXCEPT ![e].pc = "done"]
            /\ UNCHANGED store
    /\ UNCHANGED <<who, run, registry, cancel, trash, lock, turn, messages, crashed>>

EditWrites(e) ==
    /\ editor[e].pc = "writing" /\ EndUpdate(e)
    /\ Accept(e) \/ Reject(e, Faulty)
    /\ editor' = [editor EXCEPT ![e].pc = "done"]
    /\ UNCHANGED <<who, run, registry, cancel, trash, lock, turn, messages, crashed>>

Edit(e) ==
    \/ \E a \in Artifacts, f \in EditFields : BeginEdit(e, a, f)
    \/ \E ok \in BOOLEAN : AiAnswers(e, ok)
    \/ EditReads(e) \/ EditWrites(e)

-----------------------------------------------------------------------------
(* Late diarization. *)

\* The result of the task: an error of a cancelled run is reported as
\* "cancelled", any other as "failed".
Reporting(t) == [t EXCEPT !.pc = "reporting", !.todo = StatusKeys,
                          !.goal = IF t.cancelled THEN "cancelled" ELSE "failed"]

\* A run that is registered already answers "running" and nothing else.
StartRun(r, a) ==
    /\ Ready /\ run[r].pc = "idle" /\ registry[a] = None
    /\ registry' = [registry EXCEPT ![a] = r]
    /\ run' = [run EXCEPT ![r] = [IdleRun EXCEPT !.pc = "starting", !.art = a,
                                                 !.todo = StatusKeys]]
    /\ UNCHANGED <<store, who, editor, cancel, trash, lock, turn, messages, crashed>>

Setting == {"starting", "completing", "reporting"}

\* Mutant: a report that cannot be written ends the task at once.
AfterStatusReturns(t, ok) ==
    CASE t.pc = "starting" -> [t EXCEPT !.pc = IF ok THEN "spawned" ELSE "refused"]
      [] t.pc = "completing" -> IF ok THEN [t EXCEPT !.pc = "leaving"] ELSE Reporting(t)
      [] OTHER -> [t EXCEPT !.pc = IF ok THEN "leaving" ELSE "done"]

\* What follows a set_diarization_metadata that went through, and one that did
\* not. A start that fails leaves its registration behind and spawns nothing.
AfterStatus(t, ok) ==
    CASE t.pc = "starting" -> [t EXCEPT !.pc = IF ok THEN "spawned" ELSE "refused"]
      [] t.pc = "completing" -> IF ok THEN [t EXCEPT !.pc = "leaving"] ELSE Reporting(t)
      [] OTHER -> [t EXCEPT !.pc = "leaving"]

Advanced(t) == [t EXCEPT !.todo = Tail(@)]

\* set_diarization_metadata: one update per key; an artifact that is not live is
\* passed over, an error ends it.
SetReads(r) ==
    LET t == run[r] IN
    /\ t.pc \in Setting /\ t.todo # <<>> /\ call[r].st = "none"
    /\ IF row[t.art].st = "live"
       THEN /\ ReadForUpdate(r, t.art, Head(t.todo), t.goal)
            /\ UNCHANGED run
       ELSE /\ run' = [run EXCEPT ![r] = Advanced(t)]
            /\ UNCHANGED store
    /\ UNCHANGED <<who, editor, registry, cancel, trash, lock, turn, messages, crashed>>

SetWrites(r) ==
    LET t == run[r] IN
    /\ t.pc \in Setting /\ EndUpdate(r)
    /\ \/ Accept(r) /\ run' = [run EXCEPT ![r] = Advanced(t)]
       \/ Reject(r, Faulty) /\ run' = [run EXCEPT ![r] = AfterStatus([t EXCEPT !.todo = <<>>], FALSE)]
    /\ UNCHANGED <<who, editor, registry, cancel, trash, lock, turn, messages, crashed>>

SetEnds(r) ==
    /\ run[r].pc \in Setting /\ run[r].todo = <<>> /\ call[r].st = "none"
    /\ run' = [run EXCEPT ![r] = AfterStatus(@, TRUE)]
    /\ UNCHANGED <<store, who, editor, registry, cancel, trash, lock, turn, messages, crashed>>

\* The task loads the timeline and the recording and copies it to a temporary
\* file; everything that is missing is an error.
LoadSource(r) ==
    LET t == run[r]
        there == row[t.art].st = "live" /\ row[t.art].audio /\ t.art \in vault IN
    /\ t.pc = "spawned"
    /\ \/ there /\ ~t.cancelled /\ run' = [run EXCEPT ![r].pc = "diarizing"]
       \/ (~there \/ t.cancelled \/ Faulty) /\ run' = [run EXCEPT ![r] = Reporting(t)]
    /\ UNCHANGED <<store, who, editor, registry, cancel, trash, lock, turn, messages, crashed>>

\* The decoder and the diarizer raced against the token; both may be ready.
Diarizes(r) ==
    LET t == run[r] IN
    /\ t.pc = "diarizing"
    /\ \/ run' = [run EXCEPT ![r].pc = "turns"]
       \/ (t.cancelled \/ Faulty) /\ run' = [run EXCEPT ![r] = Reporting(t)]
    /\ UNCHANGED <<store, who, editor, registry, cancel, trash, lock, turn, messages, crashed>>

ChecksToken(r) ==
    LET t == run[r] IN
    /\ t.pc = "turns"
    /\ run' = [run EXCEPT ![r] = IF t.cancelled THEN Reporting(t)
                                 ELSE [t EXCEPT !.pc = "writing"]]
    /\ UNCHANGED <<store, who, editor, registry, cancel, trash, lock, turn, messages, crashed>>

TimelineReads(r) ==
    LET t == run[r] IN
    /\ t.pc = "writing" /\ call[r].st = "none"
    /\ IF row[t.art].st = "live"
       THEN ReadForUpdate(r, t.art, "timeline", r) /\ UNCHANGED run
       ELSE /\ run' = [run EXCEPT ![r].pc = "written", ![r].wrote = "missed"]
            /\ UNCHANGED store
    /\ UNCHANGED <<who, editor, registry, cancel, trash, lock, turn, messages, crashed>>

TimelineWrites(r) ==
    LET t == run[r] IN
    /\ t.pc = "writing" /\ EndUpdate(r)
    /\ \/ Accept(r) /\ run' = [run EXCEPT ![r].pc = "written", ![r].wrote = "yes"]
       \/ Reject(r, Faulty) /\ run' = [run EXCEPT ![r] = Reporting(t)]
    /\ UNCHANGED <<who, editor, registry, cancel, trash, lock, turn, messages, crashed>>

ChecksTokenAgain(r) ==
    LET t == run[r] IN
    /\ t.pc = "written"
    /\ run' = [run EXCEPT ![r] =
                  IF t.cancelled THEN Reporting(t)
                  ELSE [t EXCEPT !.pc = "completing", !.goal = "completed",
                                 !.todo = StatusKeys]]
    /\ UNCHANGED <<store, who, editor, registry, cancel, trash, lock, turn, messages, crashed>>

\* Mutant: the task removes whatever is registered for its artifact.
LeavesBlindly(r) ==
    /\ run[r].pc = "leaving"
    /\ registry' = [registry EXCEPT ![run[r].art] = None]
    /\ run' = [run EXCEPT ![r].pc = "done"]
    /\ UNCHANGED <<store, who, editor, cancel, trash, lock, turn, messages, crashed>>

\* The task removes its registration, not that of a later run.
Leaves(r) ==
    /\ run[r].pc = "leaving"
    /\ registry' = [registry EXCEPT
                       ![run[r].art] = IF @ = r THEN None ELSE @]
    /\ run' = [run EXCEPT ![r].pc = "done"]
    /\ UNCHANGED <<store, who, editor, cancel, trash, lock, turn, messages, crashed>>

Diarization(r) ==
    \/ \E a \in Artifacts : StartRun(r, a)
    \/ SetReads(r) \/ SetWrites(r) \/ SetEnds(r)
    \/ LoadSource(r) \/ Diarizes(r) \/ ChecksToken(r)
    \/ TimelineReads(r) \/ TimelineWrites(r) \/ ChecksTokenAgain(r)
    \/ Leaves(r)

\* cancel_artifact_speaker_diarization: the registration goes at once, the
\* task ends when it sees its token.
CancelRun(c, a) ==
    /\ Ready /\ cancel[c].pc = "idle"
    /\ registry' = [registry EXCEPT ![a] = None]
    /\ run' = [r \in Runs |-> IF registry[a] = r
                              THEN [run[r] EXCEPT !.cancelled = TRUE] ELSE run[r]]
    /\ cancel' = [cancel EXCEPT ![c] = [pc |-> "setting", art |-> a, todo |-> StatusKeys]]
    /\ UNCHANGED <<store, who, editor, trash, lock, turn, messages, crashed>>

CancelReads(c) ==
    LET t == cancel[c] IN
    /\ t.pc = "setting" /\ t.todo # <<>> /\ call[c].st = "none"
    /\ IF row[t.art].st = "live"
       THEN ReadForUpdate(c, t.art, Head(t.todo), "cancelled") /\ UNCHANGED cancel
       ELSE cancel' = [cancel EXCEPT ![c] = Advanced(t)] /\ UNCHANGED store
    /\ UNCHANGED <<who, editor, run, registry, trash, lock, turn, messages, crashed>>

CancelWrites(c) ==
    LET t == cancel[c] IN
    /\ t.pc = "setting" /\ EndUpdate(c)
    /\ \/ Accept(c) /\ cancel' = [cancel EXCEPT ![c] = Advanced(t)]
       \/ Reject(c, Faulty) /\ cancel' = [cancel EXCEPT ![c].pc = "done", ![c].todo = <<>>]
    /\ UNCHANGED <<who, editor, run, registry, trash, lock, turn, messages, crashed>>

CancelEnds(c) ==
    /\ cancel[c].pc = "setting" /\ cancel[c].todo = <<>> /\ call[c].st = "none"
    /\ cancel' = [cancel EXCEPT ![c].pc = "done"]
    /\ UNCHANGED <<store, who, editor, run, registry, trash, lock, turn, messages, crashed>>

Cancelling(c) == CancelReads(c) \/ CancelWrites(c) \/ CancelEnds(c)
                 \/ \E a \in Artifacts : CancelRun(c, a)

-----------------------------------------------------------------------------
(* The trash. *)

Trashed == {a \in Artifacts : row[a].st = "trash"}

\* artifact_chat_messages goes with its artifact: ON DELETE CASCADE.
Cascade == messages' = [a \in Artifacts |->
                           IF row'[a].st = "gone" THEN <<>> ELSE messages[a]]

MoveToTrash(ids) ==
    /\ DeleteMany(ids)
    /\ UNCHANGED <<who, work>>

TakeFromTrash(ids) ==
    /\ RestoreMany(ids)
    /\ UNCHANGED <<who, work>>

\* list_deleted_artifacts: what has been in the trash for 30 days goes, its
\* files stay.
PurgeOld(ids) ==
    /\ ids # {} /\ ids \subseteq Trashed
    /\ DeleteRows(ids) /\ Cascade
    /\ UNCHANGED <<who, editor, run, registry, cancel, trash, lock, turn, crashed>>

\* empty_deleted_artifacts lists the trash page by page; hard_delete_artifacts gets ids
\* that the window listed before.
ListTrash ==
    /\ trash.pc = "idle" /\ Trashed # {}
    /\ trash' = [pc |-> "listed", ids |-> Trashed]
    /\ UNCHANGED <<store, who, editor, run, registry, cancel, lock, turn, messages, crashed>>

EraseListed ==
    /\ trash.pc = "listed"
    /\ RemoveFiles(trash.ids)
    /\ trash' = [trash EXCEPT !.pc = "erased"]
    /\ UNCHANGED <<who, editor, run, registry, cancel, lock, turn, messages, crashed>>

\* The statement may fail after the files are gone.
EraseRows(ok) ==
    /\ trash.pc = "erased"
    /\ IF ok THEN DeleteRows(trash.ids) /\ Cascade
       ELSE UNCHANGED <<store, messages>>
    /\ trash' = [trash EXCEPT !.pc = "done"]
    /\ UNCHANGED <<who, editor, run, registry, cancel, lock, turn, crashed>>

Trash ==
    \/ \E ids \in SUBSET Artifacts :
           MoveToTrash(ids) \/ TakeFromTrash(ids) \/ PurgeOld(ids)
    \/ ListTrash \/ EraseListed
    \/ \E ok \in BOOLEAN : EraseRows(ok)

-----------------------------------------------------------------------------
(* Chat. *)

\* completed_chat_turns: answers are paired with the questions in the order in
\* which both were asked; an error answer takes a question with it.
CompletedTurns(ms) ==
    LET step(acc, m) ==
          CASE m.role = "user" -> [acc EXCEPT !.pending = Append(@, m.turn)]
            [] m.role = "assistant" /\ acc.pending = <<>> -> acc
            [] m.status = "complete" ->
                   [pending |-> Tail(acc.pending),
                    pairs |-> Append(acc.pairs, <<Head(acc.pending), m.turn>>)]
            [] OTHER -> [acc EXCEPT !.pending = Tail(@)]
    IN  FoldLeft(step, [pending |-> <<>>, pairs |-> <<>>], ms).pairs

BeginTurn(t, a) ==
    /\ Ready /\ turn[t].pc = "idle"
    /\ turn' = [turn EXCEPT ![t] = [@ EXCEPT !.pc = "waiting", !.art = a]]
    /\ UNCHANGED <<store, who, editor, run, registry, cancel, trash, lock, messages, crashed>>

\* Mutant: the turn does not wait for the lock of its artifact.
MayChat(a) == TRUE

\* The guard of the artifact's mutex; the map holds it weakly, so it exists as
\* long as a turn holds it or waits for it.
MayEnter(a) == lock[a] = None

\* The artifact and its messages are loaded.
EnterTurn(t) ==
    LET a == turn[t].art IN
    /\ turn[t].pc = "waiting" /\ MayEnter(a)
    /\ IF row[a].st = "live"
       THEN /\ lock' = [lock EXCEPT ![a] = t]
            /\ turn' = [turn EXCEPT ![t].pc = "open",
                                    ![t].history = CompletedTurns(messages[a])]
       ELSE /\ turn' = [turn EXCEPT ![t].pc = "done"]
            /\ UNCHANGED lock
    /\ UNCHANGED <<store, who, editor, run, registry, cancel, trash, messages, crashed>>

LeaveTurn(t, ms) ==
    LET a == turn[t].art IN
    /\ messages' = [messages EXCEPT ![a] = ms]
    /\ turn' = [turn EXCEPT ![t].pc = "done"]
    /\ lock' = [lock EXCEPT ![a] = None]

\* Only a row that exists can be given a message; trashed rows exist.
Appended(a, role, status, t) ==
    IF InTable(a) THEN Append(messages[a], [role |-> role, status |-> status, turn |-> t])
    ELSE messages[a]

Asks(t) ==
    LET a == turn[t].art IN
    /\ turn[t].pc = "open"
    /\ \/ /\ InTable(a)
          /\ messages' = [messages EXCEPT ![a] = Appended(a, "user", "complete", t)]
          /\ turn' = [turn EXCEPT ![t].pc = "asking"]
          /\ UNCHANGED lock
       \/ LeaveTurn(t, messages[a])
    /\ UNCHANGED <<store, who, editor, run, registry, cancel, trash, crashed>>

\* The provider's answer, or the error, is appended; when that fails the turn
\* ends without it.
Answers(t) ==
    LET a == turn[t].art IN
    /\ turn[t].pc = "asking"
    /\ \/ \E status \in {"complete", "error"} :
              LeaveTurn(t, Appended(a, "assistant", status, t))
       \/ LeaveTurn(t, messages[a])
    /\ UNCHANGED <<store, who, editor, run, registry, cancel, trash, crashed>>

Chat(t) == EnterTurn(t) \/ Asks(t) \/ Answers(t) \/ \E a \in Artifacts : BeginTurn(t, a)

-----------------------------------------------------------------------------
\* The program ends and is started again: what was under way is gone, the
\* database and the vault remain.
Crash ==
    /\ ~crashed /\ crashed' = TRUE
    /\ StoreCrash
    /\ editor' = [e \in Editors |-> IF editor[e].pc = "idle" THEN editor[e]
                                    ELSE [editor[e] EXCEPT !.pc = "done"]]
    /\ run' = [r \in Runs |-> IF run[r].pc = "idle" THEN run[r]
                              ELSE [run[r] EXCEPT !.pc = "done"]]
    /\ registry' = [a \in Artifacts |-> None]
    /\ cancel' = [c \in Cancels |-> IF cancel[c].pc = "idle" THEN cancel[c]
                                    ELSE [cancel[c] EXCEPT !.pc = "done"]]
    /\ trash' = IF trash.pc \in {"erased", "done"} THEN [trash EXCEPT !.pc = "done"]
                ELSE [pc |-> "idle", ids |-> {}]
    /\ lock' = [a \in Artifacts |-> None]
    /\ turn' = [t \in Turns |-> IF turn[t].pc = "idle" THEN turn[t]
                                ELSE [turn[t] EXCEPT !.pc = "done"]]
    /\ UNCHANGED <<who, messages>>

Import(a) == (SaveBegins(a) \/ SaveCommits(a) \/ SaveFails(a) \/ RecordingLost(a))
             /\ UNCHANGED <<who, work>>

Next ==
    \/ "import" \in who /\ Migration /\ UNCHANGED <<who, work>>
    \/ "import" \in who /\ \E a \in Artifacts \ old : Import(a)
    \/ \E e \in Editors \cap who : Edit(e)
    \/ \E r \in Runs \cap who : Diarization(r)
    \/ \E c \in Cancels \cap who : Cancelling(c)
    \/ \E t \in Turns \cap who : Chat(t)
    \/ "trash" \in who /\ Trash
    \/ "crash" \in who /\ Crash

Fairness ==
    \A r \in Runs :
           WF_vars(SetReads(r) \/ SetWrites(r) \/ SetEnds(r) \/ LoadSource(r)
                   \/ Diarizes(r) \/ ChecksToken(r) \/ TimelineReads(r)
                   \/ TimelineWrites(r) \/ ChecksTokenAgain(r) \/ Leaves(r))

Spec == Init /\ [][Next]_vars /\ Fairness

-----------------------------------------------------------------------------
\* A live artifact that says it has its recording has it in the vault, unless
\* a hard delete that had listed it in the trash removed the file and then left
\* the row: it was restored in between, or its statement failed.
AudioIsThere ==
    \A a \in Artifacts :
        row[a].st = "live" /\ row[a].audio =>
            a \in vault \/ (trash.pc \in {"erased", "done"} /\ a \in trash.ids)

\* A run that was not cancelled is the registered one until it leaves, so that
\* a second start finds it: a run that ends late does not take the
\* registration of the run that came after it.
UncancelledIsRegistered ==
    \A r \in Runs :
        run[r].pc \notin {"idle", "done"} /\ ~run[r].cancelled
            => registry[run[r].art] = r

\* No run reports completion over a timeline it failed to write: the store
\* took its turns, or the artifact was in the trash at that moment.
CompletedIsWritten ==
    \A r \in Runs : run[r].goal = "completed" => run[r].wrote # "no"

\* Edits, trash, migration and late writers of one artifact lose nothing the
\* user has not deleted: neither a row nor its text, nor its recording but for
\* one that a hard delete had listed (AudioIsThere).
StoreLosesNothing == TypeOK /\ NothingIsLost /\ LegacyIsKept /\ AudioIsThere

\* A late diarization is accounted for: while it runs it can be cancelled, and
\* it is "completed" only with its speakers written.
LateWorkIsAccountedFor == UncancelledIsRegistered /\ CompletedIsWritten

\* Every answer stands right after its own question, whatever other turns of
\* the same artifact are waiting and whatever answers were lost.
AnswerFollowsQuestion ==
    \A a \in Artifacts : \A i \in DOMAIN messages[a] :
        messages[a][i].role = "assistant" =>
            /\ i > 1
            /\ messages[a][i - 1].role = "user"
            /\ messages[a][i - 1].turn = messages[a][i].turn

\* A late diarization ends, whatever becomes of its artifact, of its updates
\* and of its token, and then frees its registration.
RunsEnd ==
    \A r \in Runs :
        (run[r].pc = "spawned") ~> (\A a \in Artifacts : registry[a] # r)
==============================================================================
