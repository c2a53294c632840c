---------------------------- MODULE CompanionJobs ----------------------------
(***************************************************************************)
(* The transcription jobs phones send to the companion server               *)
(* (crates/infrastructure/src/companion.rs, commands/companion.rs): a table *)
(* of at most MAX_JOBS jobs by UUID. The request that uploads the audio runs *)
(* in its connection's task, which the server drops when it stops and hyper *)
(* drops when the phone goes away after the whole body was read. A complete *)
(* upload spawns the job's own task: the gate, the pipeline, a check that   *)
(* the archive has the result.                                              *)
(*                                                                         *)
(* The token of every job is a child of the server's `stop` token.          *)
(***************************************************************************)
EXTENDS FileTranscription, Gate

CONSTANTS
  Desktop,    \* the desktop's own jobs, which share the gate
  MaxJobs,    \* MAX_JOBS
  MaxServers  \* bound of the exploration: servers started

ASSUME ClientsAssumption == Desktop # Free /\ {Desktop, Free} \cap Jobs = {}
ASSUME MaxJobsAssumption == MaxJobs \in Nat \ {0}
ASSUME MaxServersAssumption == MaxServers \in Nat

VARIABLES
  slot,       \* AppState.companion holds a server
  servers,    \* how many servers were started
  server,     \* the accept loop: off, listening, aborting, draining, ended
  stop,       \* the server's stop token is cancelled
  status,     \* ServerState.jobs: the status of each job
  handler,    \* the request that uploads each job
  task,       \* the task of each job
  completed   \* observed: jobs passed to the `completed` callback

tableVars == <<status, handler, task, completed>>
serverVars == <<slot, servers, server, stop>>
vars == <<pipelineVars, gateVars, tableVars, serverVars>>

-----------------------------------------------------------------------------
Terminal == {"completed", "failed", "cancelled"}
Present == {j \in Jobs : status[j] # "absent"}
Busy == {"gate", "waiting", "building", "running", "checking"}

Init ==
  /\ PipelineInit
  /\ GateInit
  /\ slot = FALSE
  /\ servers = 0
  /\ server = "off"
  /\ stop = FALSE
  /\ status = [j \in Jobs |-> "absent"]
  /\ handler = [j \in Jobs |-> "none"]
  /\ task = [j \in Jobs |-> "none"]
  /\ completed = {}

\* start_companion with no server in the slot: an empty table. A save of an
\* earlier server that is still committing belongs to a run of its own, and
\* is waited for here only to reuse the job's variables.
StartServer ==
  /\ ~slot
  /\ servers < MaxServers
  /\ \A j \in Jobs : saving[j] # "running" /\ j \notin readers
  /\ slot' = TRUE
  /\ servers' = servers + 1
  /\ server' = "listening"
  /\ stop' = FALSE
  /\ status' = [j \in Jobs |-> "absent"]
  /\ task' = [j \in Jobs |-> "none"]
  /\ run' = [j \in Jobs |-> NotStarted]
  /\ saving' = [j \in Jobs |-> "none"]
  /\ cancelled' = {}
  /\ completed' = {}
  /\ UNCHANGED <<gateVars, handler, readers, archive>>

-----------------------------------------------------------------------------
\* A full table gives up a job that has ended.
RoomFor(j) ==
  \/ /\ Cardinality(Present) < MaxJobs
     /\ status' = [status EXCEPT ![j] = "uploading"]
  \/ /\ Cardinality(Present) >= MaxJobs
     /\ \E old \in Present :
          /\ status[old] \in Terminal
          /\ status' = [status EXCEPT ![j] = "uploading", ![old] = "absent"]

\* PUT of a UUID that is not in the table, with a fresh token and a run of its
\* own. A full table of unfinished jobs refuses it and changes nothing. The
\* model keeps one run per UUID: it does not begin another while the task, the
\* save or the readers of the last one are still there.
Put(j) ==
  /\ server \in {"listening", "aborting"}
  /\ status[j] = "absent"
  /\ task[j] \notin Busy
  /\ saving[j] # "running" /\ j \notin readers
  /\ RoomFor(j)
  /\ handler' = [handler EXCEPT ![j] = "receiving"]
  /\ task' = [task EXCEPT ![j] = "none"]
  /\ cancelled' = IF stop THEN cancelled \cup {j} ELSE cancelled \ {j}
  /\ run' = [run EXCEPT ![j] = NotStarted]
  /\ saving' = [saving EXCEPT ![j] = "none"]
  /\ completed' = completed \ {j}
  /\ UNCHANGED <<gateVars, serverVars, readers, archive>>

\* Mutant: DELETE writes the outcome itself, as the AI jobs do.
DeleteAtOnce(j) ==
  /\ server \in {"listening", "aborting"}
  /\ status[j] \notin Terminal \cup {"absent"}
  /\ RequestCancel(j)
  /\ status' = [status EXCEPT ![j] = "cancelled"]
  /\ UNCHANGED <<gateVars, serverVars, handler, task, completed>>

\* DELETE only cancels the token.
Delete(j) ==
  /\ server \in {"listening", "aborting"}
  /\ status[j] \notin Terminal \cup {"absent"}
  /\ RequestCancel(j)
  /\ UNCHANGED <<gateVars, serverVars, tableVars>>

\* The last frame arrived; the file is being written and flushed.
BodyComplete(j) ==
  /\ handler[j] = "receiving"
  /\ handler' = [handler EXCEPT ![j] = "flushing"]
  /\ UNCHANGED <<pipelineVars, gateVars, serverVars, status, task, completed>>

\* A timeout, an error of the connection or the disk, a file empty or too
\* large, or the cancelled token.
UploadFails(j) ==
  /\ handler[j] # "none"
  /\ handler' = [handler EXCEPT ![j] = "none"]
  /\ status' = [status EXCEPT ![j] = IF j \in cancelled THEN "cancelled" ELSE "failed"]
  /\ UNCHANGED <<pipelineVars, gateVars, serverVars, task, completed>>

\* The job is queued and its task spawned and listed, without a pause.
UploadDone(j) ==
  /\ handler[j] = "flushing"
  /\ handler' = [handler EXCEPT ![j] = "none"]
  /\ status' = [status EXCEPT ![j] = "queued"]
  /\ task' = [task EXCEPT ![j] = "gate"]
  /\ UNCHANGED <<pipelineVars, gateVars, serverVars, completed>>

\* The future of the request is dropped while it waits: the server stops, or
\* the phone closed a connection with nothing left to read from it.
HandlerDropped(j) ==
  /\ \/ handler[j] = "flushing"
     \/ handler[j] = "receiving" /\ (stop \/ server = "aborting")
  /\ handler' = [handler EXCEPT ![j] = "none"]
  /\ UNCHANGED <<pipelineVars, gateVars, serverVars, status, task, completed>>

-----------------------------------------------------------------------------
\* `update` of a job that may have left the table.
Told(j, outcome) ==
  status' = [status EXCEPT ![j] = IF @ = "absent" THEN @ ELSE outcome]

Ends(j) == task' = [task EXCEPT ![j] = "done"]

\* The first poll of the task: the permit, or a place in the queue.
TaskBegins(j) ==
  /\ task[j] = "gate"
  /\ \/ TryAcquire(j) /\ task' = [task EXCEPT ![j] = "building"]
     \/ Wait(j) /\ task' = [task EXCEPT ![j] = "waiting"]
  /\ UNCHANGED <<pipelineVars, serverVars, status, handler, completed>>

\* Mutant: the gate is awaited without the token.
CancelledBeforeGate(j) ==
  /\ task[j] = "gate"
  /\ j \in cancelled
  /\ Told(j, "cancelled")
  /\ Ends(j)
  /\ UNCHANGED <<pipelineVars, gateVars, serverVars, handler, completed>>

CancelledAtGate(j) ==
  /\ task[j] \in {"gate", "waiting"}
  /\ j \in cancelled
  /\ Abandon(j)
  /\ Told(j, "cancelled")
  /\ Ends(j)
  /\ UNCHANGED <<pipelineVars, serverVars, handler, completed>>

PermitArrives(j) ==
  /\ task[j] = "waiting"
  /\ Granted(j)
  /\ task' = [task EXCEPT ![j] = "building"]
  /\ UNCHANGED <<pipelineVars, gateVars, serverVars, status, handler, completed>>

\* No settings, no service, or settings that changed while it was built.
BuildFails(j) ==
  /\ task[j] = "building"
  /\ Told(j, "failed")
  /\ Ends(j)
  /\ Release(j)
  /\ UNCHANGED <<pipelineVars, serverVars, handler, completed>>

CallPipeline(j) ==
  /\ task[j] = "building"
  /\ \/ \E request \in Requests : Call(j, request)
     \/ \E result \in {"cancelled", "failed"} : CallRefused(j, result)
  /\ task' = [task EXCEPT ![j] = "running"]
  /\ Told(j, "running")
  /\ UNCHANGED <<gateVars, serverVars, handler, completed>>

\* The run ended without a result, or with one the phone no longer wants.
RunEndsWithout(j) ==
  /\ task[j] = "running"
  /\ \/ run[j].result = "failed" /\ Told(j, "failed")
     \/ run[j].result = "cancelled" /\ Told(j, "cancelled")
     \/ run[j].result = "ok" /\ j \in cancelled /\ Told(j, "cancelled")
  /\ Ends(j)
  /\ Release(j)
  /\ UNCHANGED <<pipelineVars, serverVars, handler, completed>>

RunEndsWell(j) ==
  /\ task[j] = "running"
  /\ run[j].result = "ok"
  /\ j \notin cancelled
  /\ task' = [task EXCEPT ![j] = "checking"]
  /\ UNCHANGED <<pipelineVars, gateVars, serverVars, status, handler, completed>>

\* The saved artifact is read back, which may fail; then the token is looked
\* at again.
Verify(j) ==
  /\ task[j] = "checking"
  /\ \/ Told(j, "failed") /\ UNCHANGED completed
     \/ /\ archive[j] # NoArtifact
        /\ j \in cancelled
        /\ Told(j, "cancelled")
        /\ UNCHANGED completed
     \/ /\ archive[j] # NoArtifact
        /\ j \notin cancelled
        /\ Told(j, "completed")
        /\ completed' = completed \cup {j}
  /\ Ends(j)
  /\ Release(j)
  /\ UNCHANGED <<pipelineVars, serverVars, handler>>

-----------------------------------------------------------------------------
\* CompanionServer::shutdown cancels the token, and with it its children.
StopServer ==
  /\ slot
  /\ ~stop
  /\ stop' = TRUE
  /\ cancelled' = cancelled \cup Present
  /\ UNCHANGED <<run, readers, saving, archive, gateVars, tableVars, slot, servers, server>>

\* The accept loop breaks: stopped, or accept returned an error.
LoopBreaks ==
  /\ server = "listening"
  /\ server' = "aborting"
  /\ UNCHANGED <<pipelineVars, gateVars, tableVars, slot, servers, stop>>

\* Mutant: the list of tasks is taken before the connections have ended.
DrainEarly ==
  /\ server = "aborting"
  /\ server' = "draining"
  /\ cancelled' = cancelled \cup Present
  /\ UNCHANGED <<run, readers, saving, archive, gateVars, tableVars, slot, servers, stop>>

\* All connections have ended; every job in the table is cancelled.
Drain ==
  /\ server = "aborting"
  /\ \A j \in Jobs : handler[j] = "none"
  /\ server' = "draining"
  /\ cancelled' = cancelled \cup Present
  /\ UNCHANGED <<run, readers, saving, archive, gateVars, tableVars, slot, servers, stop>>

LoopEnds ==
  /\ server = "draining"
  /\ \A j \in Jobs : task[j] \notin Busy
  /\ server' = "ended"
  /\ UNCHANGED <<pipelineVars, gateVars, tableVars, slot, servers, stop>>

\* stop_companion: shutdown has awaited the accept loop; the table goes.
StopReturns ==
  /\ server = "ended"
  /\ stop
  /\ server' = "off"
  /\ slot' = FALSE
  /\ status' = [j \in Jobs |-> "absent"]
  /\ UNCHANGED <<pipelineVars, gateVars, handler, task, completed, servers, stop>>

DesktopWants ==
  /\ ~Granted(Desktop)
  /\ Desktop \notin ToSet(waiters)
  /\ Acquire(Desktop)
  /\ UNCHANGED <<pipelineVars, tableVars, serverVars>>

DesktopLeaves == Release(Desktop) /\ UNCHANGED <<pipelineVars, tableVars, serverVars>>

TaskStep(j) ==
  \/ TaskBegins(j)
  \/ CancelledAtGate(j)
  \/ PermitArrives(j)
  \/ BuildFails(j)
  \/ CallPipeline(j)
  \/ RunEndsWithout(j)
  \/ RunEndsWell(j)
  \/ Verify(j)

RunStep(j) == PipelineStep(j) /\ UNCHANGED <<gateVars, tableVars, serverVars>>

ServerStep == Drain \/ LoopEnds \/ StopReturns

Next ==
  \/ StartServer
  \/ \E j \in Jobs :
       \/ Put(j) \/ Delete(j)
       \/ BodyComplete(j) \/ UploadFails(j) \/ UploadDone(j) \/ HandlerDropped(j)
       \/ TaskStep(j) \/ RunStep(j)
  \/ StopServer \/ LoopBreaks \/ ServerStep
  \/ DesktopWants \/ DesktopLeaves

Spec == Init /\ [][Next]_vars

\* A request that waits for the phone is bounded by a timeout, and tokio polls
\* every task whose select has a branch that is ready. At most eight
\* connections are open when the loop breaks, each with one request: what they
\* still put into the table cannot keep Drain away forever. Nothing is assumed
\* of the external programs and of the desktop's jobs: they may hang.
Fairness ==
  /\ \A j \in Jobs :
       /\ WF_vars(UploadFails(j) \/ UploadDone(j))
       /\ WF_vars(TaskStep(j))
       /\ WF_vars(Stopped(j) /\ UNCHANGED <<gateVars, tableVars, serverVars>>)
  /\ WF_vars(stop /\ LoopBreaks)
  /\ SF_vars(Drain)
  /\ WF_vars(LoopEnds \/ StopReturns)

FairSpec == Spec /\ Fairness

-----------------------------------------------------------------------------
\* The types of the variables.
TypeOK ==
  /\ PipelineTypeOK
  /\ holder \in Jobs \cup {Desktop, Free}
  /\ waiters \in Seq(Jobs \cup {Desktop})
  /\ slot \in BOOLEAN /\ stop \in BOOLEAN /\ servers \in 0..MaxServers
  /\ server \in {"off", "listening", "aborting", "draining", "ended"}
  /\ status \in [Jobs -> {"absent", "uploading", "queued", "running"} \cup Terminal]
  /\ handler \in [Jobs -> {"none", "receiving", "flushing"}]
  /\ task \in [Jobs -> {"none", "done"} \cup Busy]
  /\ completed \subseteq Jobs

Rank(s) ==
  CASE s = "uploading" -> 1 [] s = "queued" -> 2 [] s = "running" -> 3
    [] s \in Terminal -> 4 [] OTHER -> 0

\* What a phone polls only advances: an outcome once told is not taken back,
\* and only a job that has ended leaves the table (to make room for another,
\* or with the server), so no poll of a job under way answers 404.
StatusAdvances ==
  [][\A j \in Jobs :
       status'[j] # status[j] =>
         \/ Rank(status'[j]) > Rank(status[j])
         \/ status[j] \in Terminal /\ status'[j] = "absent"
         \/ ~slot']_vars

\* The table never holds more than MAX_JOBS jobs and a job that waits, works
\* or checks is in it: the task's updates reach the phone.
TableCoversTasks ==
  /\ Cardinality(Present) <= MaxJobs
  /\ \A j \in Jobs : task[j] \in Busy => status[j] \notin Terminal \cup {"absent"}

\* The phone and the window hear the same: a job the phone sees completed is
\* in the archive and was handed to the window, and one it sees failed or
\* cancelled was not.
CompletedIsArchived ==
  \A j \in Jobs :
    /\ status[j] = "completed" => archive[j] # NoArtifact /\ j \in completed
    /\ status[j] \in {"failed", "cancelled"} => j \notin completed

\* When the accept loop has ended no request and no task of the server is
\* left and none holds the gate: a task spawned by a request that was still
\* running when the server stopped is waited for as well.
EndedLeavesNothing ==
  server \in {"ended", "off"} =>
    /\ \A j \in Jobs : task[j] \notin Busy /\ handler[j] = "none"
    /\ holder \notin Jobs

\* What a phone reads in the table is true: the table covers every job under
\* way, "completed" means that the transcript can be read, and nothing of an
\* ended job is still going on.
TableIsTrue == TypeOK /\ TableCoversTasks /\ CompletedIsArchived /\ EndedLeavesNothing

\* A stop returns, even while a program hangs or the desktop keeps the gate:
\* the token reaches whatever a request or a task of the server waits for.
StopEnds == stop ~> ~slot

=============================================================================
