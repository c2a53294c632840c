---------------------------- MODULE LiveSessions -----------------------------
(***************************************************************************)
(* The live transcription commands (commands/realtime.rs) over the two     *)
(* engines: start, pause, resume, stop with its task in the background,    *)
(* and the loading of a saved session.  Start and stop take the transition *)
(* guard; the others do not.                                               *)
(***************************************************************************)
EXTENDS WhisperStream, ParakeetLive

ASSUME EnginesAreJobs == Engines = Jobs

VARIABLES
    active,      \* realtime.active_job_id; 0 is None
    kind,        \* realtime.active_engine
    current,     \* realtime.parakeet_engine; 0 is None
    starting,    \* the start command that holds the guard: its job, or 0
    stops,       \* REALTIME_STOPS_IN_PROGRESS
    task,        \* the task of each stop
    artifacts,   \* the sessions saved to the artifact store
    used         \* ids made so far

commands == <<active, kind, current, starting, stops, task, artifacts, used>>
vars == <<whisper, parakeet, commands>>

NoTask == [pc |-> "none", save |-> FALSE, kind |-> "whisper", engine |-> 0,
           text |-> {}]
TaskEnds == {"saved", "discarded", "failed"}

TypeOK ==
    /\ WhisperTypeOK
    /\ ParakeetTypeOK
    /\ active \in Jobs \cup {0}
    /\ kind \in {"whisper", "parakeet"}
    /\ current \in Engines \cup {0}
    /\ starting \in Jobs \cup {0}
    /\ stops \subseteq Jobs
    /\ \A j \in Jobs : task[j].text # {} => task[j].pc = "saving"
    /\ [j \in Jobs |-> [task[j] EXCEPT !.text = 0]] \in
           [Jobs -> [pc : {"none", "stopping", "waiting", "saving"}
                          \cup TaskEnds,
                     save : BOOLEAN, kind : {"whisper", "parakeet"},
                     engine : Engines \cup {0}, text : {0}]]
    /\ \A a \in artifacts : a.job \in Jobs
    /\ used \in Jobs \cup {0}

Init ==
    /\ whisper = IdleStream
    /\ parakeet = [e \in Engines |-> NewEngine]
    /\ active = 0 /\ kind = "whisper" /\ current = 0 /\ starting = 0
    /\ stops = {} /\ task = [j \in Jobs |-> NoTask]
    /\ artifacts = {} /\ used = 0

\* Uuid::new_v4.
Fresh == used + 1
CanMakeId == Fresh \in Jobs

-----------------------------------------------------------------------------
(* Starting a session. *)

\* Mutant: a start does not look for a stop that is still finalising.
StartAllowedInStop == starting = 0 /\ active = 0

\* ensure_realtime_start_allowed, under the guard.
StartAllowed == starting = 0 /\ stops = {} /\ active = 0

\* The buffer a resumed session starts from.
Resumable == {<<>>} \cup {a.lines : a \in artifacts}

StartWhisper ==
    /\ StartAllowed /\ CanMakeId
    /\ used' = Fresh /\ active' = Fresh /\ starting' = Fresh
    /\ kind' = "whisper" /\ current' = 0
    /\ \E text \in Resumable :
          whisper' = SpawnStream(IF text = <<>> THEN ResetBuffer(IdleStream)
                                 ELSE SeedBuffer(IdleStream, text), Fresh)
    /\ UNCHANGED <<parakeet, stops, task, artifacts>>

\* No runtime, no model or no child process: the metadata are cleared; the
\* engine chosen last stays the active one.
StartWhisperFails ==
    /\ StartAllowed /\ CanMakeId
    /\ used' = Fresh /\ kind' = "whisper"
    /\ \/ UNCHANGED <<current, whisper>>                       \* no runtime
       \/ /\ current' = 0
          /\ \E text \in Resumable :
                whisper' = IF text = <<>> THEN ResetBuffer(IdleStream)
                           ELSE SeedBuffer(IdleStream, text)
    /\ UNCHANGED <<parakeet, active, starting, stops, task, artifacts>>

StartParakeet ==
    /\ StartAllowed /\ CanMakeId
    /\ used' = Fresh /\ active' = Fresh /\ starting' = Fresh
    /\ kind' = "parakeet" /\ current' = Fresh
    /\ \E seed \in {{}, {Seeded}} :
          Become(Fresh, SpawnWorker([NewEngine EXCEPT !.transcript = seed]))
    /\ UNCHANGED <<whisper, stops, task, artifacts>>

\* No library or no model: the engine may be stored, without a worker.
StartParakeetFails ==
    /\ StartAllowed /\ CanMakeId
    /\ used' = Fresh /\ kind' = "parakeet"
    /\ current' \in {current, Fresh}
    /\ UNCHANGED <<whisper, parakeet, active, starting, stops, task, artifacts>>

\* The worker is in the library, which loads the model.
StartLoads ==
    /\ starting # 0 /\ kind = "parakeet"
    /\ parakeet[starting].worker = "loading"

\* The worker reports that it listens, or its thread ends with an error.
ParakeetStarts ==
    /\ StartLoads /\ ~parakeet[starting].shutdown
    /\ Become(starting, Started(parakeet[starting]))
    /\ UNCHANGED <<whisper, commands>>

ParakeetStartFails ==
    /\ StartLoads /\ ~parakeet[starting].shutdown
    /\ Become(starting, [parakeet[starting] EXCEPT !.worker = "none"])
    /\ starting' = 0 /\ active' = 0
    /\ UNCHANGED <<whisper, kind, current, stops, task, artifacts, used>>

\* Ninety seconds without a report: the worker is told to stop and is joined,
\* without a bound and with the guard held.
ParakeetStartTimesOut ==
    /\ StartLoads /\ ~parakeet[starting].shutdown
    /\ Become(starting, [parakeet[starting] EXCEPT !.shutdown = TRUE])
    /\ UNCHANGED <<whisper, commands>>

\* The start that has timed out waits for a load that has not returned.
LoadHangs == StartLoads /\ parakeet[starting].shutdown

\* The load returns after all: the worker finds that it is to stop, at the
\* latest once it has the microphone, and its thread ends.
LoadReturns ==
    /\ LoadHangs
    /\ Become(starting, [parakeet[starting] EXCEPT !.worker = "ended"])
    /\ UNCHANGED <<whisper, commands>>

\* The join returns, and the start its error; what the worker heard is not kept.
ParakeetJoined ==
    /\ starting # 0 /\ kind = "parakeet"
    /\ parakeet[starting].worker = "ended" /\ parakeet[starting].shutdown
    /\ Become(starting, [parakeet[starting] EXCEPT !.worker = "none", !.shutdown = FALSE])
    /\ starting' = 0 /\ active' = 0
    /\ UNCHANGED <<whisper, kind, current, stops, task, artifacts, used>>

\* is_running of the active engine, once the engine's own start succeeded;
\* a Whisper engine that is not running is stopped, a Parakeet one is not.
StartReturns ==
    /\ starting # 0 /\ starting' = 0
    /\ \/ /\ kind = "whisper" /\ whisper.startup = "ready"
          /\ LET w == ObserveExit(whisper) IN
             IF w.running THEN whisper' = w /\ active' = active
             ELSE whisper' = CollectStream(TakeChild(w)) /\ active' = 0
          /\ UNCHANGED parakeet
       \/ /\ kind = "parakeet" /\ parakeet[current].worker # "loading"
          /\ ~parakeet[current].shutdown
          /\ active' = IF parakeet[current].running
                          /\ parakeet[current].error = "none"
                       THEN active ELSE 0
          /\ UNCHANGED <<whisper, parakeet>>
    /\ UNCHANGED <<kind, current, stops, task, artifacts, used>>

\* The startup signal is a failure, or does not come within 60 seconds.
WhisperStartFails ==
    /\ starting # 0 /\ kind = "whisper"
    /\ whisper.startup \in {"failed", "waiting"}
    /\ whisper' = CollectStream(TakeChild(
                     IF whisper.startup = "waiting"
                     THEN [whisper EXCEPT !.error = "startup"] ELSE whisper))
    /\ starting' = 0 /\ active' = 0
    /\ UNCHANGED <<parakeet, kind, current, stops, task, artifacts, used>>

-----------------------------------------------------------------------------
(* Pause, resume and load do not take the guard. *)

SetPaused(p) ==
    /\ \/ /\ kind = "whisper" /\ whisper.running
          /\ whisper' = [whisper EXCEPT !.paused = p]
          /\ UNCHANGED parakeet
       \/ /\ kind = "parakeet" /\ current # 0
          /\ parakeet[current].running
          /\ Become(current, [parakeet[current] EXCEPT !.paused = p])
          /\ UNCHANGED whisper
    /\ UNCHANGED commands

Pause == SetPaused(TRUE)
Resume == SetPaused(FALSE)

LoadSession ==
    /\ \E a \in artifacts :
          whisper' = [SeedBuffer(whisper, a.lines) EXCEPT !.reloaded = TRUE]
    /\ UNCHANGED <<parakeet, active, kind, current, starting, stops, task,
                   artifacts, used>>

-----------------------------------------------------------------------------
(* Stopping.  The command reserves its job and starts the task. *)

Stop(save) ==
    /\ starting = 0
    /\ stops = {}
    /\ active # 0 \/ CanMakeId
    /\ kind = "parakeet" => current # 0
    /\ LET job == IF active # 0 THEN active ELSE Fresh IN
       /\ used' = IF active # 0 THEN used ELSE Fresh
       /\ stops' = stops \cup {job}
       /\ task' = [task EXCEPT ![job] =
                     [pc |-> "stopping", save |-> save, kind |-> kind,
                      engine |-> IF kind = "parakeet" THEN current ELSE 0,
                      text |-> {}]]
    /\ UNCHANGED <<whisper, parakeet, active, kind, current, starting,
                   artifacts>>

\* The end of a task drops its marker.
EndTask(j, how) ==
    /\ task' = [task EXCEPT ![j].pc = how, ![j].text = {}]
    /\ stops' = stops \ {j}

SameSession(j) == active \in {0, j}

\* engine.stop(): the child or the worker is told to stop, and taken.
StopBegins(j) ==
    /\ task[j].pc = "stopping"
    /\ task' = [task EXCEPT ![j].pc = "waiting"]
    /\ IF task[j].kind = "whisper"
       THEN whisper' = TakeChild(whisper) /\ UNCHANGED parakeet
       ELSE /\ Become(task[j].engine,
                      [parakeet[task[j].engine] EXCEPT !.shutdown = TRUE,
                                                       !.owned = FALSE])
            /\ UNCHANGED whisper
    /\ UNCHANGED <<active, kind, current, starting, stops, artifacts, used>>

\* clear_completed_realtime_session
ClearCompleted(j) ==
    IF SameSession(j)
    THEN /\ active' = 0
         /\ current' = IF task[j].kind = "parakeet" THEN 0 ELSE current
    ELSE UNCHANGED <<active, current>>

\* retain_failed_parakeet_session
RetainFailed(j) ==
    /\ current' = IF SameSession(j) THEN task[j].engine ELSE current
    /\ UNCHANGED active

\* What a stop does with the text it collected: nothing to keep, or the save
\* that follows.
Keep(j, text) ==
    IF ~task[j].save \/ (text.lines = <<>> /\ text.chunks = {})
    THEN EndTask(j, "discarded")
    ELSE /\ task' = [task EXCEPT ![j].pc = "saving", ![j].text = {text}]
         /\ UNCHANGED stops

\* Mutant: the readers are joined without the three second bound.
WhisperCollectedAfterReaders(j) ==
    /\ task[j].pc = "waiting" /\ task[j].kind = "whisper"
    /\ whisper.readers = 0
    /\ whisper' = CollectStream(whisper)
    /\ ClearCompleted(j)
    /\ IF whisper.error # "none" THEN EndTask(j, "failed")
       ELSE EndTask(j, "discarded")
    /\ UNCHANGED <<parakeet, kind, starting, artifacts, used>>

\* The child is dead by now and the readers ended or were aborted.
WhisperCollected(j) ==
    /\ task[j].pc = "waiting" /\ task[j].kind = "whisper"
    /\ LET w == CollectStream(whisper) IN
       /\ whisper' = w
       /\ ClearCompleted(j)
       /\ IF w.error # "none"
          THEN EndTask(j, "failed")
          ELSE Keep(j, [job |-> j, session |-> w.session, lines |-> w.lines,
                        segments |-> w.segments, chunks |-> {}, heard |-> {},
                        broken |-> w.broken, reloaded |-> w.reloaded])
    /\ UNCHANGED <<parakeet, kind, starting, artifacts, used>>

ParakeetCollected(j) ==
    LET e == task[j].engine
        p == parakeet[e]
    IN
    /\ task[j].pc = "waiting" /\ task[j].kind = "parakeet"
    /\ p.worker \in {"none", "ended"}
    /\ IF p.error # "none"
       THEN /\ Become(e, Collected(p))
            /\ RetainFailed(j) /\ EndTask(j, "failed")
       ELSE /\ Become(e, NewEngine)     \* the last reference is dropped
            /\ ClearCompleted(j)
            /\ Keep(j, [job |-> j, session |-> e, lines |-> <<>>,
                        segments |-> {}, chunks |-> p.transcript,
                        heard |-> (1 .. p.recorded) \ p.silent,
                        broken |-> FALSE, reloaded |-> FALSE])
    /\ UNCHANGED <<whisper, kind, starting, artifacts, used>>

\* The worker is still alive after two seconds: it stays with the engine.
ParakeetTimesOut(j) ==
    LET e == task[j].engine IN
    /\ task[j].pc = "waiting" /\ task[j].kind = "parakeet"
    /\ parakeet[e].worker \in {"capturing", "finishing"}
    /\ Become(e, [parakeet[e] EXCEPT !.owned = TRUE, !.running = FALSE])
    /\ RetainFailed(j) /\ EndTask(j, "failed")
    /\ UNCHANGED <<whisper, kind, starting, artifacts, used>>

\* The artifact is built and saved, or one of the two fails and its text is
\* gone: the session was retired before.
Save(j) ==
    /\ task[j].pc = "saving"
    /\ \/ EndTask(j, "saved") /\ artifacts' = artifacts \cup task[j].text
       \/ EndTask(j, "failed") /\ UNCHANGED artifacts
    /\ UNCHANGED <<whisper, parakeet, active, kind, current, starting, used>>

-----------------------------------------------------------------------------
Task(j) ==
    \/ StopBegins(j)
    \/ WhisperCollected(j)
    \/ ParakeetCollected(j)
    \/ ParakeetTimesOut(j)
    \/ Save(j)

Engine ==
    \/ WhisperNext /\ UNCHANGED <<parakeet, commands>>
    \/ ParakeetNext /\ UNCHANGED <<whisper, commands>>

StartProceeds ==
    \/ ParakeetStarts
    \/ ParakeetStartFails
    \/ ParakeetStartTimesOut
    \/ ParakeetJoined
    \/ StartReturns
    \/ WhisperStartFails

Next ==
    \/ StartWhisper
    \/ StartWhisperFails
    \/ StartParakeet
    \/ StartParakeetFails
    \/ StartProceeds
    \/ LoadReturns
    \/ Pause
    \/ Resume
    \/ LoadSession
    \/ \E save \in BOOLEAN : Stop(save)
    \/ \E j \in Jobs : Task(j)
    \/ Engine

\* Tasks and commands that hold the guard are run to their end by the async
\* runtime, and waits with a bound end; the capture thread answers a shutdown and
\* finishes. Of the library nothing is assumed: a load may not return.
Fairness ==
    /\ \A j \in Jobs : WF_vars(Task(j))
    /\ WF_vars(StartProceeds)
    /\ \A e \in Engines :
          WF_vars((BreaksOut(e) \/ Finishes(e)) /\ UNCHANGED <<whisper, commands>>)

Spec == Init /\ [][Next]_vars /\ Fairness
-----------------------------------------------------------------------------
(* Properties. *)

\* The microphone is heard only for the session the commands know: a child
\* process or a capture thread that is alive belongs to the active job, and
\* stop_realtime reaches its engine.  A stop that fails or times out, a start
\* that fails half way and a task that ends late may not lose it.
NoStrayCapture ==
    /\ whisper.proc = "alive" => kind = "whisper" /\ active = whisper.session
    /\ \A e \in Engines :
          parakeet[e].worker \in {"loading", "capturing", "finishing"}
             => kind = "parakeet" /\ active = e /\ current = e

\* No session is started while the last one is finalised, and one stop
\* finalises at a time, however start and stop commands are interleaved.
OneFinaliser ==
    LET open == {j \in Jobs : task[j].pc \notin {"none"} \cup TaskEnds} IN
    /\ Cardinality(open) <= 1
    /\ starting # 0 => open = {}
    /\ stops = open

\* A Parakeet session that is saved is saved whole: its text covers every
\* chunk the recorder wrote, but for silence and what was consumed paused.
\* A full queue, a late decoder, a failed feed or an early stop never leaves
\* a gap in an artifact.
SavedTextIsWhole ==
    \A a \in artifacts : a.heard \subseteq a.chunks

\* A Whisper session whose child crashed or fell behind before it was stopped
\* is not saved, unless a loaded session wiped the failure.
BrokenIsNotSaved ==
    \A a \in artifacts : a.broken => a.reloaded

\* Lines and timed segments of a saved Whisper session agree, and no
\* utterance is in it twice, whatever previews, finals and flushes came.
LinesMatchSegments ==
    \A a \in artifacts :
        /\ ~a.reloaded =>
              \A i \in DOMAIN a.lines :
                  a.lines[i][1] = a.session => a.lines[i] \in a.segments
        /\ \A i, k \in DOMAIN a.lines : a.lines[i] = a.lines[k] => i = k

\* One session at a time has the microphone and the finaliser, whatever the
\* order of starts, stops and failures.
OneSessionAtATime == TypeOK /\ NoStrayCapture /\ OneFinaliser

\* What a live session saves is what was heard: all of it when the engine was
\* well, nothing of a broken engine, and lines and segments that agree.
SavedSpeechIsTrue == SavedTextIsWhole /\ BrokenIsNotSaved /\ LinesMatchSegments

\* Another stop reaches the worker of the stop that failed, if it is alive.
InReach(j) ==
    task[j].kind = "parakeet"
       /\ parakeet[task[j].engine].worker \in {"loading", "capturing", "finishing"}
    => kind = "parakeet" /\ active = task[j].engine /\ current = task[j].engine

\* Every stop that got the guard is answered: its task saves or discards the
\* session, or fails and leaves a worker that is still alive to the next stop.
StopIsAnswered ==
    \A j \in Jobs : (task[j].pc = "stopping") ~>
        (task[j].pc \in {"saved", "discarded"} \/ (task[j].pc = "failed" /\ InReach(j)))

\* A start lets go of the guard, also when the child never gets ready, but for
\* one that waits for a library whose load does not return.
StartIsAnswered == (starting # 0) ~> (starting = 0 \/ LoadHangs)

\* Every start and every stop of a live session that got the guard is answered,
\* although the engine may be loading, behind or broken; only a start that has
\* timed out keeps its caller, and the guard, as long as the library's load
\* does not return.
LiveCommandsAreAnswered == StopIsAnswered /\ StartIsAnswered

=============================================================================
