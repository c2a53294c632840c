----------------------------- MODULE CompanionAi -----------------------------
(***************************************************************************)
(* The companion AI service of the desktop: the durable job store the phone *)
(* talks to (crates/infrastructure/src/companion_ai.rs).                    *)
(*                                                                         *)
(* A job is a record kept twice: in the memory of the running session       *)
(* (`mem`, the map `State.records`) and in an encrypted file (`disk`). Every *)
(* change writes the file first and memory second, under one lock, so a     *)
(* handler is one action. What makes it hard is around the lock: one task   *)
(* per job that waits for the gate it shares with speech recognition, calls *)
(* a model and writes its outcome later; the owner who deselects the        *)
(* provider meanwhile; saves that fail; stops, crashes and restarts.        *)
(*                                                                         *)
(* A save (Store::save) renames a complete temporary file over the target   *)
(* and then syncs the directory. It can fail before the rename, and nothing *)
(* changed, or after it, when the caller is told of an error although the   *)
(* new record is on disk.                                                   *)
(***************************************************************************)
EXTENDS Naturals, FiniteSets

CONSTANTS
  Ids,               \* job UUIDs the phones use
  Requests,          \* request digests
  Bindings,          \* provider, model and URL the owner can select
  None,              \* no binding, no digest
  MaxUnacknowledged, \* MAX_UNACKNOWLEDGED
  MaxRecords,        \* MAX_RECORDS
  MaxGeneration,     \* bound of the exploration: selections in one session
  MaxSessions        \* bound of the exploration: sessions opened

ASSUME NoneAssumption == None \notin Requests \cup Bindings
ASSUME LimitsAssumption ==
  /\ MaxUnacknowledged \in Nat
  /\ MaxRecords \in Nat

VARIABLES
  mem,         \* State.records of the session, Absent where there is none
  disk,        \* the encrypted files, Absent where there is none
  session,     \* the AiService: closed, open, stopping or disabled
  sessions,    \* how many times a session was opened
  leaseHeld,   \* a command of an earlier session still holds its lease
  active,      \* State.active: jobs with a cancellation token
  token,       \* the tokens of `active` that are cancelled
  task,        \* where the task of each job is in `run`
  bound,       \* the binding each task was spawned with
  gate,        \* holders of the heavy-work gate shared with transcription
  binding,     \* State.binding, the provider the owner selected
  health,      \* State.health
  generation,  \* State.selection_generation
  probes,      \* selections whose probe of the provider is under way
  enabled,     \* bindings the desktop settings resolve to now
  inferences,  \* observed: how often the model was asked for each job
  shown,       \* observed: jobs whose result a GET could return
  ackTried     \* observed: jobs with an acknowledgement request

jobVars == <<mem, disk>>
taskVars == <<active, token, task, bound>>
selectionVars == <<binding, health, generation, probes>>
sessionVars == <<session, sessions, leaseHeld>>
observedVars == <<inferences, shown, ackTried>>
vars == <<jobVars, taskVars, selectionVars, sessionVars, observedVars, gate, enabled>>

-----------------------------------------------------------------------------
Pending == {"queued", "running"}
Final == {"completed", "failed", "cancelled", "interrupted"}
Terminal == Final \cup {"acknowledged"}

\* `request` and `result` say whether the payload is still there; `volatile`
\* is the phase "storage_error".
Record ==
  [status : {"absent"} \cup Pending \cup Terminal, digest : Requests \cup {None},
   request : BOOLEAN, result : BOOLEAN, volatile : BOOLEAN]

Absent ==
  [status |-> "absent", digest |-> None, request |-> FALSE, result |-> FALSE,
   volatile |-> FALSE]

Queued(request) ==
  [status |-> "queued", digest |-> request, request |-> TRUE, result |-> FALSE,
   volatile |-> FALSE]

WithStatus(record, status) == [record EXCEPT !.status = status]
Completed(record) == [record EXCEPT !.status = "completed", !.result = TRUE]
Tombstone(record) ==
  [record EXCEPT !.status = "acknowledged", !.request = FALSE, !.result = FALSE,
                 !.volatile = FALSE]

\* Mutant: a restart interrupts every job it did not see acknowledged.
ReloadedAsInterrupted(record) ==
  IF record.status \in {"absent", "acknowledged"} THEN record
  ELSE WithStatus(record, "interrupted")

\* What Store::load makes of a record it finds.
Reloaded(record) ==
  IF record.status \in Pending THEN WithStatus(record, "interrupted") ELSE record

Nothing == [id \in Ids |-> Absent]

\* The jobs a map of records holds.
Stored(records) == {id \in Ids : records[id].status # "absent"}
Unacknowledged(records) == {id \in Stored(records) : records[id].status # "acknowledged"}

Working == {"waiting", "granted", "running", "prepared", "asking"}
TaskStates == {"none", "failing", "unsaved", "finishing"} \cup Working

JobHolder(id) == <<"job", id>>
ProbeHolder(probe) == <<"probe", probe.generation>>
AsrHolder == <<"asr", 0>>

Unavailable(b) == [available |-> FALSE, of |-> b]

-----------------------------------------------------------------------------
(***************************************************************************)
(* Store::save: both copies change, or the save fails and the file is the   *)
(* old or the new one while memory keeps the old record.                    *)
(***************************************************************************)
SaveAndInsert(id, record) ==
  /\ disk' = [disk EXCEPT ![id] = record]
  /\ mem' = [mem EXCEPT ![id] = record]

\* Mutant: memory is changed before the file is written.
SaveFailsAfterInsert(id, record) ==
  /\ disk' \in {disk, [disk EXCEPT ![id] = record]}
  /\ mem' = [mem EXCEPT ![id] = record]

SaveFails(id, record) ==
  /\ disk' \in {disk, [disk EXCEPT ![id] = record]}
  /\ mem' = mem

-----------------------------------------------------------------------------
Init ==
  /\ mem = Nothing /\ disk = Nothing
  /\ session = "closed" /\ sessions = 0 /\ leaseHeld = FALSE
  /\ active = {} /\ token = {}
  /\ task = [id \in Ids |-> "none"]
  /\ bound = [id \in Ids |-> None]
  /\ gate = {}
  /\ binding = None /\ health = Unavailable(None) /\ generation = 0 /\ probes = {}
  /\ enabled = Bindings
  /\ inferences = [id \in Ids |-> 0] /\ shown = {} /\ ackTried = {}

Serving == session \in {"open", "stopping"}

(***************************************************************************)
(* PUT of a new UUID. A known UUID is answered from its record, and one     *)
(* that is refused (no provider, full queue, invalid request) changes       *)
(* nothing.                                                                 *)
(***************************************************************************)
Admissible(id) ==
  /\ Serving
  /\ mem[id].status = "absent"
  /\ binding # None /\ health.available /\ binding \in enabled
  /\ Cardinality(Stored(mem)) < MaxRecords
  /\ Cardinality(Unacknowledged(mem)) < MaxUnacknowledged

Submit(id, request) ==
  /\ Admissible(id)
  /\ SaveAndInsert(id, Queued(request))
  /\ active' = active \cup {id}
  /\ token' = token \ {id}
  /\ task' = [task EXCEPT ![id] = "waiting"]
  /\ bound' = [bound EXCEPT ![id] = binding]
  /\ UNCHANGED <<selectionVars, sessionVars, observedVars, gate, enabled>>

SubmitUnsaved(id, request) ==
  /\ Admissible(id)
  /\ SaveFails(id, Queued(request))
  /\ UNCHANGED <<taskVars, selectionVars, sessionVars, observedVars, gate, enabled>>

(***************************************************************************)
(* DELETE cancels a job that is not terminal; POST .../ack replaces the     *)
(* payload of a terminal one by a tombstone. Both cancel the token of a     *)
(* task that is still there, and change nothing when the save fails.        *)
(***************************************************************************)
Cancel(id) ==
  /\ Serving
  /\ mem[id].status \in Pending
  /\ \/ /\ SaveAndInsert(id, WithStatus(mem[id], "cancelled"))
        /\ token' = token \cup ({id} \cap active)
     \/ /\ SaveFails(id, WithStatus(mem[id], "cancelled"))
        /\ UNCHANGED token
  /\ UNCHANGED <<active, task, bound, selectionVars, sessionVars, observedVars, gate, enabled>>

\* Mutant: an acknowledgement is accepted before the job is terminal.
AckEarly(id) ==
  /\ Serving
  /\ mem[id].status \in Pending \cup Final
  /\ \/ /\ SaveAndInsert(id, Tombstone(mem[id]))
        /\ token' = token \cup ({id} \cap active)
     \/ /\ SaveFails(id, Tombstone(mem[id]))
        /\ UNCHANGED token
  /\ ackTried' = ackTried \cup {id}
  /\ UNCHANGED <<active, task, bound, selectionVars, sessionVars, inferences, shown, gate, enabled>>

Ack(id) ==
  /\ Serving
  /\ mem[id].status \in Final
  /\ \/ /\ SaveAndInsert(id, Tombstone(mem[id]))
        /\ token' = token \cup ({id} \cap active)
     \/ /\ SaveFails(id, Tombstone(mem[id]))
        /\ UNCHANGED token
  /\ ackTried' = ackTried \cup {id}
  /\ UNCHANGED <<active, task, bound, selectionVars, sessionVars, inferences, shown, gate, enabled>>

-----------------------------------------------------------------------------
(***************************************************************************)
(* The owner selects a provider, or none. Every job under way is saved as   *)
(* cancelled first; a save that fails ends the command half way, with the   *)
(* jobs before it cancelled and the selection as it was.                    *)
(***************************************************************************)
CancelAll(jobs) ==
  [id \in Ids |-> IF id \in jobs THEN WithStatus(mem[id], "cancelled") ELSE mem[id]]

CancelledFiles(jobs) ==
  [id \in Ids |-> IF id \in jobs THEN WithStatus(mem[id], "cancelled") ELSE disk[id]]

\* Mutant: only jobs that already run are cancelled, not queued ones.
UnderWayRunning == {id \in active : mem[id].status = "running"}

UnderWay == {id \in active : mem[id].status \in Pending}

Selectable == Serving /\ generation < MaxGeneration

\* The binding was resolved from the settings before the lock was taken.
Select(choice) ==
  /\ Selectable
  /\ mem' = CancelAll(UnderWay)
  /\ disk' = CancelledFiles(UnderWay)
  /\ token' = token \cup active
  /\ binding' = choice
  /\ health' = Unavailable(choice)
  /\ generation' = generation + 1
  /\ probes' = IF choice = None THEN probes
               ELSE probes \cup {[generation |-> generation + 1, of |-> choice]}
  /\ UNCHANGED <<active, task, bound, sessionVars, observedVars, gate, enabled>>

SelectInterrupted(done, bad) ==
  /\ Selectable
  /\ mem' = CancelAll(done)
  /\ disk' \in {CancelledFiles(done), CancelledFiles(done \cup {bad})}
  /\ token' = token \cup done
  /\ generation' = generation + 1
  /\ UNCHANGED <<active, task, bound, binding, health, probes, sessionVars, observedVars, gate,
                 enabled>>

\* The probe of a selection waits for the gate like any other work.
ProbeAcquires(probe) ==
  /\ gate = {}
  /\ gate' = {ProbeHolder(probe)}
  /\ UNCHANGED <<jobVars, taskVars, selectionVars, sessionVars, observedVars, enabled>>

\* The probe ends: the provider answered, or it failed, timed out or was
\* stopped. Only the latest selection sets the health.
ProbeEnds(probe) ==
  /\ \E answered \in BOOLEAN :
       /\ answered => ProbeHolder(probe) \in gate
       /\ health' = IF probe.generation = generation
                    THEN [available |-> answered, of |-> probe.of]
                    ELSE health
  /\ probes' = probes \ {probe}
  /\ gate' = gate \ {ProbeHolder(probe)}
  /\ UNCHANGED <<jobVars, taskVars, binding, generation, sessionVars, observedVars, enabled>>

-----------------------------------------------------------------------------
(***************************************************************************)
(* The task of one job (AiService::run). `Working` is the work future; its  *)
(* permit of the gate goes with it when it ends, times out or is dropped.   *)
(***************************************************************************)
Goto(id, state) == task' = [task EXCEPT ![id] = state]
ReleaseGate(id) == gate' = gate \ {JobHolder(id)}

\* The work ends without an outcome saved.
WorkFails(id) == Goto(id, "failing") /\ ReleaseGate(id)

GateGranted(id) ==
  /\ task[id] = "waiting"
  /\ gate = {}
  /\ gate' = {JobHolder(id)}
  /\ Goto(id, "granted")
  /\ UNCHANGED <<jobVars, active, token, bound, selectionVars, sessionVars, observedVars, enabled>>

\* AiService::update refuses a record that is already terminal.
StartRunning(id) ==
  /\ task[id] = "granted"
  /\ \/ /\ bound[id] \in enabled /\ mem[id].status \in Pending
        /\ SaveAndInsert(id, WithStatus(mem[id], "running"))
        /\ Goto(id, "running") /\ UNCHANGED gate
     \/ /\ bound[id] \in enabled /\ mem[id].status \in Pending
        /\ SaveFails(id, WithStatus(mem[id], "running"))
        /\ WorkFails(id)
     \/ /\ bound[id] \notin enabled \/ mem[id].status \notin Pending
        /\ WorkFails(id) /\ UNCHANGED jobVars
  /\ UNCHANGED <<active, token, bound, selectionVars, sessionVars, observedVars, enabled>>

\* The request is read from the record; an acknowledgement may have taken it.
ReadRequest(id) ==
  /\ task[id] = "running"
  /\ \/ mem[id].request /\ Goto(id, "prepared") /\ UNCHANGED gate
     \/ ~mem[id].request /\ WorkFails(id)
  /\ UNCHANGED <<jobVars, active, token, bound, selectionVars, sessionVars, observedVars, enabled>>

\* The provider is prepared and asked, or the prompt does not fit.
Ask(id) ==
  /\ task[id] = "prepared"
  /\ \/ /\ Goto(id, "asking") /\ UNCHANGED gate
        /\ inferences' = [inferences EXCEPT ![id] = @ + 1]
     \/ /\ WorkFails(id) /\ UNCHANGED inferences
  /\ UNCHANGED <<jobVars, active, token, bound, selectionVars, sessionVars, shown, ackTried, enabled>>

\* Mutant: the answer is saved whatever became of the job meanwhile.
AnswerAlways(id) ==
  /\ task[id] = "asking"
  /\ SaveAndInsert(id, Completed(mem[id]))
  /\ shown' = shown \cup {id}
  /\ Goto(id, "finishing") /\ ReleaseGate(id)
  /\ UNCHANGED <<active, token, bound, selectionVars, sessionVars, inferences, ackTried, enabled>>

\* The answer is parsed and saved as the result, unless it is no valid
\* result, the save fails, or the job was settled meanwhile.
Answer(id) ==
  /\ task[id] = "asking"
  /\ \/ /\ mem[id].status \in Pending
        /\ SaveAndInsert(id, Completed(mem[id]))
        /\ shown' = shown \cup {id}
        /\ Goto(id, "finishing") /\ ReleaseGate(id)
     \/ /\ mem[id].status \in Pending
        /\ SaveFails(id, Completed(mem[id]))
        /\ WorkFails(id) /\ UNCHANGED shown
     \/ WorkFails(id) /\ UNCHANGED <<jobVars, shown>>
  /\ UNCHANGED <<active, token, bound, selectionVars, sessionVars, inferences, ackTried, enabled>>

\* 600 seconds are over, wherever the work is.
TimeOut(id) ==
  /\ task[id] \in Working
  /\ WorkFails(id)
  /\ UNCHANGED <<jobVars, active, token, bound, selectionVars, sessionVars, observedVars, enabled>>

\* The token is cancelled: the work is dropped where it is. A save of the
\* cancellation that fails is ignored.
Cancelled(id) ==
  /\ task[id] \in Working
  /\ id \in token \/ session = "stopping"
  /\ Goto(id, "finishing") /\ ReleaseGate(id)
  /\ \/ /\ mem[id].status \in Pending
        /\ \/ SaveAndInsert(id, WithStatus(mem[id], "cancelled"))
           \/ SaveFails(id, WithStatus(mem[id], "cancelled"))
     \/ mem[id].status \notin Pending /\ UNCHANGED jobVars
  /\ UNCHANGED <<active, token, bound, selectionVars, sessionVars, observedVars, enabled>>

SaveFailure(id) ==
  /\ task[id] = "failing"
  /\ \/ /\ mem[id].status \in Pending
        /\ SaveAndInsert(id, WithStatus(mem[id], "failed"))
        /\ Goto(id, "finishing")
     \/ /\ mem[id].status \in Pending
        /\ SaveFails(id, WithStatus(mem[id], "failed"))
        /\ Goto(id, "unsaved")
     \/ /\ mem[id].status \notin Pending
        /\ Goto(id, "unsaved") /\ UNCHANGED jobVars
  /\ UNCHANGED <<active, token, bound, selectionVars, sessionVars, observedVars, gate, enabled>>

\* Mutant: a failure that could not be saved is not reported at all.
ReportNothing(id) ==
  /\ task[id] = "unsaved"
  /\ Goto(id, "finishing")
  /\ UNCHANGED <<jobVars, active, token, bound, selectionVars, sessionVars, observedVars, gate, enabled>>

\* Not even the failure could be saved: memory alone reports it.
ReportVolatile(id) ==
  /\ task[id] = "unsaved"
  /\ mem' = IF mem[id].status \in Pending
            THEN [mem EXCEPT ![id].status = "failed", ![id].volatile = TRUE]
            ELSE mem
  /\ Goto(id, "finishing")
  /\ UNCHANGED <<disk, active, token, bound, selectionVars, sessionVars, observedVars, gate, enabled>>

Finish(id) ==
  /\ task[id] = "finishing"
  /\ Goto(id, "none")
  /\ active' = active \ {id}
  /\ token' = token \ {id}
  /\ UNCHANGED <<jobVars, bound, selectionVars, sessionVars, observedVars, gate, enabled>>

TaskStep(id) ==
  \/ GateGranted(id) \/ StartRunning(id) \/ ReadRequest(id) \/ Ask(id) \/ Answer(id)
  \/ TimeOut(id) \/ Cancelled(id) \/ SaveFailure(id) \/ ReportVolatile(id) \/ Finish(id)

-----------------------------------------------------------------------------
(***************************************************************************)
(* Sessions. Opening one takes the lease of the store and loads every file; *)
(* a lease still held, too many files or a save that fails leave the        *)
(* session without AI (AiService::disabled), some files already rewritten.  *)
(***************************************************************************)
CanOpen == session = "closed" /\ sessions < MaxSessions

ReloadedFiles(jobs) == [id \in Ids |-> IF id \in jobs THEN Reloaded(disk[id]) ELSE disk[id]]

FreshSelection ==
  /\ binding' = None /\ health' = Unavailable(None) /\ generation' = 0 /\ probes' = {}

Open ==
  /\ CanOpen
  /\ ~leaseHeld
  /\ Cardinality(Stored(disk)) <= MaxRecords
  /\ disk' = ReloadedFiles(Ids)
  /\ mem' = disk'
  /\ shown' = shown \cup {id \in Ids : disk[id].status = "completed"}
  /\ session' = "open"
  /\ sessions' = sessions + 1
  /\ FreshSelection
  /\ UNCHANGED <<leaseHeld, taskVars, inferences, ackTried, gate, enabled>>

OpenDisabled ==
  /\ CanOpen
  /\ \/ leaseHeld /\ UNCHANGED disk
     \/ ~leaseHeld /\ \E rewritten \in SUBSET Stored(disk) : disk' = ReloadedFiles(rewritten)
  /\ session' = "disabled"
  /\ sessions' = sessions + 1
  /\ FreshSelection
  /\ UNCHANGED <<mem, leaseHeld, taskVars, observedVars, gate, enabled>>

\* CompanionServer::shutdown cancels the stop token, then waits for every
\* task; the selections still under way are dropped without being awaited
\* and keep the lease until they return. A disabled session has neither.
Stop ==
  /\ session \in {"open", "disabled"}
  /\ session' = IF session = "open" THEN "stopping" ELSE "closed"
  /\ UNCHANGED <<sessions, leaseHeld, jobVars, taskVars, selectionVars, observedVars, gate, enabled>>

\* Mutant: the shutdown waits for the gate instead of its own tasks.
CloseWhenGateIsFree ==
  /\ session = "stopping"
  /\ \A id \in Ids : task[id] = "none"
  /\ gate = {}
  /\ session' = "closed"
  /\ mem' = Nothing
  /\ leaseHeld' = (leaseHeld \/ probes # {})
  /\ FreshSelection
  /\ UNCHANGED <<disk, sessions, taskVars, observedVars, gate, enabled>>

CloseSession ==
  /\ session = "stopping"
  /\ \A id \in Ids : task[id] = "none"
  /\ session' = "closed"
  /\ mem' = Nothing
  /\ leaseHeld' = (leaseHeld \/ probes # {})
  /\ gate' = gate \ {ProbeHolder(probe) : probe \in probes}
  /\ FreshSelection
  /\ UNCHANGED <<disk, sessions, taskVars, observedVars, enabled>>

LeaseReleased ==
  /\ leaseHeld
  /\ leaseHeld' = FALSE
  /\ UNCHANGED <<session, sessions, jobVars, taskVars, selectionVars, observedVars, gate, enabled>>

\* The process dies; what is on disk stays.
Crash ==
  /\ session # "closed"
  /\ session' = "closed"
  /\ mem' = Nothing
  /\ active' = {} /\ token' = {}
  /\ task' = [id \in Ids |-> "none"]
  /\ gate' = {}
  /\ leaseHeld' = FALSE
  /\ FreshSelection
  /\ UNCHANGED <<disk, sessions, bound, observedVars, enabled>>

-----------------------------------------------------------------------------
\* Speech recognition takes and releases the shared gate.
AsrAcquires ==
  /\ gate = {}
  /\ gate' = {AsrHolder}
  /\ UNCHANGED <<jobVars, taskVars, selectionVars, sessionVars, observedVars, enabled>>

AsrReleases ==
  /\ AsrHolder \in gate
  /\ gate' = gate \ {AsrHolder}
  /\ UNCHANGED <<jobVars, taskVars, selectionVars, sessionVars, observedVars, enabled>>

\* The owner edits the AI settings.
ChangeSettings ==
  /\ enabled' \in SUBSET Bindings
  /\ UNCHANGED <<jobVars, taskVars, selectionVars, sessionVars, observedVars, gate>>

Next ==
  \/ \E id \in Ids, request \in Requests : Submit(id, request) \/ SubmitUnsaved(id, request)
  \/ \E id \in Ids : Cancel(id) \/ Ack(id) \/ TaskStep(id)
  \/ \E choice \in Bindings \cup {None} : Select(choice)
  \/ \E done \in SUBSET UnderWay : \E bad \in UnderWay \ done : SelectInterrupted(done, bad)
  \/ \E probe \in probes : ProbeAcquires(probe) \/ ProbeEnds(probe)
  \/ Open \/ OpenDisabled \/ Stop \/ CloseSession \/ LeaseReleased \/ Crash
  \/ AsrAcquires \/ AsrReleases \/ ChangeSettings

Spec == Init /\ [][Next]_vars

\* Spawned tasks are polled, their 600 second timer fires and a shutdown
\* awaits them: the runtime runs them whatever clients do.
Fairness ==
  /\ \A id \in Ids : WF_vars(TaskStep(id))
  /\ WF_vars(CloseSession)

FairSpec == Spec /\ Fairness

-----------------------------------------------------------------------------
(***************************************************************************)
(* Properties.                                                             *)
(***************************************************************************)
TypeOK ==
  /\ mem \in [Ids -> Record]
  /\ disk \in [Ids -> Record]
  /\ session \in {"closed", "open", "stopping", "disabled"}
  /\ sessions \in Nat
  /\ leaseHeld \in BOOLEAN
  /\ active \subseteq Ids
  /\ token \subseteq active
  /\ task \in [Ids -> TaskStates]
  /\ bound \in [Ids -> Bindings \cup {None}]
  /\ binding \in Bindings \cup {None}
  /\ health \in [available : BOOLEAN, of : Bindings \cup {None}]
  /\ generation \in Nat
  /\ probes \subseteq [generation : Nat, of : Bindings]
  /\ enabled \subseteq Bindings
  /\ inferences \in [Ids -> Nat]
  /\ shown \subseteq Ids
  /\ ackTried \subseteq Ids

\* Repeating a PUT, restarting or crashing never asks the model a second time
\* for the same UUID (submit 662, Store::load 194, run 762).
AtMostOneInference == \A id \in Ids : inferences[id] <= 1

\* A result a phone could have read stays on disk, through failed saves,
\* stops and crashes, until an acknowledgement of it arrives (change 614).
ShownResultIsKept ==
  \A id \in shown \ ackTried : disk[id].status = "completed" /\ disk[id].result

\* An acknowledged file is never written again: no late answer, cancellation
\* or failure of its task and no restart brings the UUID back to life.
TombstoneIsFinal ==
  [][\A id \in Ids : disk[id].status = "acknowledged" => disk'[id] = disk[id]]_vars

\* "Never leave UI polling forever" (companion_ai.rs:802): while the service
\* is open, a job reported as pending has a task that will settle it.
PendingHasATask ==
  session = "open" =>
    \A id \in Ids : mem[id].status \in Pending => task[id] \notin {"none", "finishing"}

\* No job goes on for a provider the owner has deselected: every pending job
\* of an open session belongs to the selected binding (select 460, submit).
PendingBelongsToSelection ==
  session = "open" =>
    \A id \in Ids : mem[id].status \in Pending => bound[id] = binding /\ binding # None

\* The service is advertised as available only for the provider selected
\* now, whichever probe ends last (select 523-527).
AvailableIsSelected == health.available => health.of = binding /\ binding # None

\* Memory and file agree on the outcome that was reported, except where
\* memory said itself that it could not save it, or an acknowledgement that
\* answered with an error reached the disk.
ReportedOutcomeIsDurable ==
  \A id \in Ids :
    mem[id].status \in Terminal /\ ~mem[id].volatile =>
      \/ disk[id] = mem[id]
      \/ disk[id].status = "acknowledged" /\ id \in ackTried

\* Each accepted job is served once, by the provider it was accepted for:
\* asked for at most once across retries and restarts, never left pending
\* without a task, and never worked on or advertised for a provider the owner
\* has deselected (submit, select, run and the probe of select together).
EachJobIsServedOnce ==
  TypeOK /\ AtMostOneInference /\ PendingHasATask /\ PendingBelongsToSelection /\ AvailableIsSelected

\* A pending job is settled, or its session ends.
PendingSettles ==
  \A id \in Ids : mem[id].status \in Pending ~> mem[id].status \notin Pending

\* A stopped session drains its tasks and closes.
StopCloses == session = "stopping" ~> session = "closed"

(***************************************************************************)
(* The contract (AiLedger), read from memory while the service serves and   *)
(* from what a restart would load while it does not.                        *)
(***************************************************************************)
View(id) == IF Serving THEN mem[id] ELSE Reloaded(disk[id])

StageOf(record) ==
  CASE record.status = "absent" -> "absent"
    [] record.status \in Pending -> "pending"
    [] record.status \in Final -> "settled"
    [] OTHER -> "closed"

Ledger == INSTANCE AiLedger WITH
  stage <- [id \in Ids |-> StageOf(View(id))],
  owner <- [id \in Ids |-> View(id).digest],
  inferred <- {id \in Ids : inferences[id] > 0}

LedgerSpec == Ledger!Spec

=============================================================================
