---------------------------- MODULE WhisperStream ----------------------------
(***************************************************************************)
(* The Whisper live engine (adapters/whisper_stream.rs): a child process   *)
(* that listens to the microphone, and two reader tasks that turn its      *)
(* output into lines, previews and failures.  A word is the text of one    *)
(* utterance, named by the session it was spoken in and its number there.  *)
(* The state of the engine is one record; the commands of LiveSessions    *)
(* start and stop it with the operators below.                             *)
(***************************************************************************)
EXTENDS Integers, Sequences, FiniteSets

CONSTANTS
    Jobs,      \* job ids; a session is named by the job that started it
    MaxWords   \* bound: utterances of one session

ASSUME WhisperAssumption == Jobs \subseteq Nat \ {0} /\ MaxWords \in Nat

VARIABLE whisper

Words == Jobs \X (1 .. MaxWords)
NoWord == <<0, 0>>
WhisperErrors == {"none", "crash", "backlog", "startup"}

\* The engine `AppState.realtime.engine` starts with.
IdleStream ==
    [session |-> 0, proc |-> "none", owned |-> FALSE, readers |-> 0,
     running |-> FALSE, paused |-> FALSE, stopping |-> FALSE,
     startup |-> "none", error |-> "none",
     lines |-> <<>>, preview |-> NoWord, segments |-> {}, said |-> 0,
     broken |-> FALSE, reloaded |-> FALSE]   \* the last two are history

WhisperTypeOK ==
    /\ whisper.session \in Jobs \cup {0}
    /\ whisper.proc \in {"none", "alive", "ok", "crashed"}
    /\ whisper.owned \in BOOLEAN
    /\ whisper.readers \in 0 .. 2
    /\ whisper.running \in BOOLEAN
    /\ whisper.paused \in BOOLEAN
    /\ whisper.stopping \in BOOLEAN
    /\ whisper.startup \in {"none", "waiting", "ready", "failed"}
    /\ whisper.error \in WhisperErrors
    /\ \A i \in DOMAIN whisper.lines : whisper.lines[i] \in Words
    /\ whisper.preview \in Words \cup {NoWord}
    /\ whisper.segments \subseteq Words
    /\ whisper.said \in 0 .. MaxWords
    /\ whisper.broken \in BOOLEAN
    /\ whisper.reloaded \in BOOLEAN

-----------------------------------------------------------------------------
(* Operators of the engine record. *)

\* seed_buffer replaces the lines and forgets a failure, even of a session
\* that is running.
SeedBuffer(w, text) ==
    [w EXCEPT !.lines = text, !.preview = NoWord, !.segments = {},
              !.error = "none", !.stopping = FALSE]

ResetBuffer(w) ==
    [w EXCEPT !.lines = <<>>, !.preview = NoWord, !.segments = {},
              !.error = "none"]

\* start_with_telemetry up to the wait for the startup signal.
SpawnStream(w, job) ==
    [w EXCEPT !.session = job, !.proc = "alive", !.owned = TRUE,
              !.readers = 2, !.running = TRUE, !.paused = FALSE,
              !.stopping = FALSE, !.startup = "waiting", !.error = "none",
              !.segments = {}, !.said = 0, !.broken = FALSE,
              !.reloaded = FALSE]

CompleteStartup(w, how) ==
    IF w.startup = "waiting" THEN [w EXCEPT !.startup = how] ELSE w

\* mark_terminal_child_failure: a clean exit is no failure, and the first
\* failure is kept.
MarkExit(w) ==
    CASE w.proc = "ok"            -> [w EXCEPT !.running = FALSE,
                                               !.paused = FALSE]
      [] w.proc # "ok" /\ w.error # "none" -> w
      [] OTHER                    -> [w EXCEPT !.error = "crash",
                                               !.running = FALSE,
                                               !.paused = FALSE]

\* An exit of the child the engine still owns is noticed by try_wait.
ObserveExit(w) ==
    IF w.owned /\ w.proc \in {"ok", "crashed"} THEN MarkExit(w) ELSE w

CommitLine(w, word) ==
    [w EXCEPT !.lines = Append(w.lines, word), !.preview = NoWord,
              !.segments = w.segments \cup {word}]

FlushPreview(w) ==
    IF w.preview = NoWord THEN w
    ELSE IF w.lines # <<>> /\ w.lines[Len(w.lines)] = w.preview
         THEN [w EXCEPT !.preview = NoWord]
         ELSE CommitLine(w, w.preview)

\* stop, first part: an exit is observed, the child and the readers are taken
\* out of the state.
TakeChild(w) == [ObserveExit(w) EXCEPT !.stopping = TRUE, !.owned = FALSE]

\* stop, last part: the child is dead, the readers ended or were aborted.
CollectStream(w) ==
    FlushPreview([w EXCEPT !.proc = "none", !.owned = FALSE, !.readers = 0,
                           !.running = FALSE, !.paused = FALSE,
                           !.stopping = FALSE, !.startup = "none",
                           !.said = 0])

-----------------------------------------------------------------------------
(* Steps of the child process (external) and of the reader tasks. *)

ChildExits ==
    /\ whisper.proc = "alive"
    /\ \E how \in {"ok", "crashed"} :
          whisper' = [whisper EXCEPT !.proc = how,
                                     !.broken = @ \/ (how = "crashed"
                                                      /\ whisper.owned)]

\* A record is read while a reader is left; what the child wrote before it
\* ended may still be in the pipe.
ReadsRecord == whisper.readers > 0 /\ whisper.proc # "none"

ReadStartMarker ==
    /\ ReadsRecord
    /\ whisper.startup = "waiting"
    /\ whisper' = CompleteStartup(whisper, "ready")

\* A rejected preflight or a fatal diagnostic of the audio device.
ReadFatalStartup ==
    /\ ReadsRecord
    /\ whisper.startup = "waiting"
    /\ whisper' = CompleteStartup([whisper EXCEPT !.error = "startup",
                                                  !.running = FALSE,
                                                  !.paused = FALSE], "failed")

\* The child reports that it cannot keep up; it goes on running.
ReadBacklog ==
    /\ ReadsRecord
    /\ whisper.startup = "ready"
    /\ whisper' = [whisper EXCEPT !.error = "backlog", !.running = FALSE,
                                  !.paused = FALSE, !.broken = TRUE]

\* A preview of the next utterance, or of the last one again.
ReadPreview ==
    /\ ReadsRecord
    /\ \E n \in {whisper.said, whisper.said + 1} \cap (1 .. MaxWords) :
          LET w == CompleteStartup(whisper, "ready") IN
          whisper' = IF w.paused THEN w
                     ELSE [w EXCEPT !.preview = <<w.session, n>>]

\* The final text of the next utterance; a paused session drops it.
ReadFinal ==
    /\ ReadsRecord
    /\ whisper.said < MaxWords
    /\ LET w == [CompleteStartup(whisper, "ready") EXCEPT !.said = @ + 1] IN
       whisper' = IF w.paused THEN w ELSE CommitLine(w, <<w.session, w.said>>)

\* End of file on one pipe.  The last reader looks at the exit status, if the
\* child is still the engine's, and fails a start that is still waiting.
ReaderEnds ==
    /\ whisper.readers > 0
    /\ whisper.proc \in {"ok", "crashed"}
    /\ LET last == whisper.readers = 1
           seen == IF whisper.running /\ ~whisper.stopping /\ whisper.owned
                      /\ whisper.proc = "crashed"
                   THEN MarkExit(whisper) ELSE whisper
       IN whisper' = IF ~last THEN [whisper EXCEPT !.readers = @ - 1]
                     ELSE CompleteStartup([seen EXCEPT !.readers = 0,
                                                       !.running = FALSE,
                                                       !.paused = FALSE],
                                          "failed")

WhisperNext ==
    \/ ChildExits
    \/ ReadStartMarker
    \/ ReadFatalStartup
    \/ ReadBacklog
    \/ ReadPreview
    \/ ReadFinal
    \/ ReaderEnds
=============================================================================
