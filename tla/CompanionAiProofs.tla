-------------------------- MODULE CompanionAiProofs --------------------------
(***************************************************************************)
(* Theorems about CompanionAi, for every set of jobs, requests and          *)
(* providers and every value of the limits.                                 *)
(***************************************************************************)
EXTENDS CompanionAi, TLAPS

\* What the operators on records return.
LEMMA RecordTypes ==
  /\ Absent \in Record
  /\ \A request \in Requests : Queued(request) \in Record
  /\ \A record \in Record :
       /\ \A status \in Pending \cup Terminal : WithStatus(record, status) \in Record
       /\ Completed(record) \in Record
       /\ Tombstone(record) \in Record
       /\ Reloaded(record) \in Record
BY DEF Absent, Record, Queued, WithStatus, Completed, Tombstone, Reloaded, Pending, Terminal, Final

LEMMA SaveTypes ==
  ASSUME NEW id \in Ids, NEW record \in Record, TypeOK,
         SaveAndInsert(id, record) \/ SaveFails(id, record)
  PROVE  mem' \in [Ids -> Record] /\ disk' \in [Ids -> Record]
BY DEF SaveAndInsert, SaveFails, TypeOK

LEMMA TypeInit == Init => TypeOK
<1>. SUFFICES ASSUME Init
              PROVE  TypeOK
  OBVIOUS
<1>1. mem \in [Ids -> Record] /\ disk \in [Ids -> Record]
  BY RecordTypes DEF Init, Nothing
<1>2. task \in [Ids -> TaskStates] /\ bound \in [Ids -> Bindings \cup {None}]
  BY DEF Init, TaskStates
<1>3. health \in [available : BOOLEAN, of : Bindings \cup {None}]
  BY DEF Init, Unavailable
<1>4. inferences \in [Ids -> Nat] /\ generation \in Nat /\ sessions \in Nat
  BY DEF Init
<1>5. /\ session \in {"closed", "open", "stopping", "disabled"} /\ leaseHeld \in BOOLEAN
      /\ binding \in Bindings \cup {None}
  BY DEF Init
<1>6. /\ active \subseteq Ids /\ token \subseteq active /\ shown \subseteq Ids /\ ackTried \subseteq Ids
      /\ probes \subseteq [generation : Nat, of : Bindings] /\ enabled \subseteq Bindings
  BY DEF Init
<1>. QED
  BY <1>1, <1>2, <1>3, <1>4, <1>5, <1>6 DEF TypeOK

LEMMA TypeTask ==
  ASSUME TypeOK, NEW id \in Ids, TaskStep(id)
  PROVE  TypeOK'
<1>1. mem' \in [Ids -> Record] /\ disk' \in [Ids -> Record]
  <2>0. mem[id] \in Record
    BY DEF TypeOK
  <2>1. CASE GateGranted(id)
    BY <2>1 DEF GateGranted, TypeOK, jobVars
  <2>2. CASE StartRunning(id)
    BY <2>0, <2>2, SaveTypes, RecordTypes DEF StartRunning, TypeOK, jobVars, Pending
  <2>3. CASE ReadRequest(id)
    BY <2>3 DEF ReadRequest, TypeOK, jobVars
  <2>4. CASE Ask(id)
    BY <2>4 DEF Ask, TypeOK, jobVars
  <2>5. CASE Answer(id)
    BY <2>0, <2>5, SaveTypes, RecordTypes DEF Answer, TypeOK, jobVars
  <2>6. CASE TimeOut(id)
    BY <2>6 DEF TimeOut, TypeOK, jobVars
  <2>7. CASE Cancelled(id)
    BY <2>0, <2>7, SaveTypes, RecordTypes DEF Cancelled, TypeOK, jobVars, Terminal, Final
  <2>8. CASE SaveFailure(id)
    BY <2>0, <2>8, SaveTypes, RecordTypes DEF SaveFailure, TypeOK, jobVars, Terminal, Final
  <2>9. CASE ReportVolatile(id)
    <3>1. [mem[id] EXCEPT !.status = "failed", !.volatile = TRUE] \in Record
      BY <2>0 DEF Record, Terminal, Final
    <3>. QED
      BY <2>9, <3>1 DEF ReportVolatile, TypeOK
  <2>10. CASE Finish(id)
    BY <2>10 DEF Finish, TypeOK, jobVars
  <2>. QED
    BY <2>1, <2>2, <2>3, <2>4, <2>5, <2>6, <2>7, <2>8, <2>9, <2>10 DEF TaskStep
<1>2. task' \in [Ids -> TaskStates]
  BY DEF TypeOK, TaskStep, GateGranted, StartRunning, ReadRequest, Ask, Answer, TimeOut, Cancelled,
         SaveFailure, ReportVolatile, Finish, Goto, WorkFails, TaskStates, Working
<1>3. active' \subseteq Ids /\ token' \subseteq active'
  BY DEF TypeOK, TaskStep, GateGranted, StartRunning, ReadRequest, Ask, Answer, TimeOut, Cancelled,
         SaveFailure, ReportVolatile, Finish
<1>4. inferences' \in [Ids -> Nat] /\ shown' \subseteq Ids /\ ackTried' \subseteq Ids
  BY DEF TypeOK, TaskStep, GateGranted, StartRunning, ReadRequest, Ask, Answer, TimeOut, Cancelled,
         SaveFailure, ReportVolatile, Finish, observedVars
<1>5. UNCHANGED <<bound, selectionVars, sessionVars, enabled>>
  BY DEF TaskStep, GateGranted, StartRunning, ReadRequest, Ask, Answer, TimeOut, Cancelled,
         SaveFailure, ReportVolatile, Finish
<1>. QED
  BY <1>1, <1>2, <1>3, <1>4, <1>5 DEF TypeOK, selectionVars, sessionVars

LEMMA TypeSubmit ==
  ASSUME TypeOK, NEW id \in Ids, NEW request \in Requests,
         Submit(id, request) \/ SubmitUnsaved(id, request)
  PROVE  TypeOK'
<1>1. CASE Submit(id, request)
  <2>1. mem' \in [Ids -> Record] /\ disk' \in [Ids -> Record]
    BY <1>1, SaveTypes, RecordTypes DEF Submit
  <2>. QED
    BY <1>1, <2>1 DEF Submit, TypeOK, TaskStates, Working, selectionVars, sessionVars, observedVars
<1>2. CASE SubmitUnsaved(id, request)
  <2>1. mem' \in [Ids -> Record] /\ disk' \in [Ids -> Record]
    BY <1>2, SaveTypes, RecordTypes DEF SubmitUnsaved
  <2>. QED
    BY <1>2, <2>1 DEF SubmitUnsaved, TypeOK, taskVars, selectionVars, sessionVars, observedVars
<1>. QED
  BY <1>1, <1>2

LEMMA TypeChange ==
  ASSUME TypeOK, NEW id \in Ids, Cancel(id) \/ Ack(id)
  PROVE  TypeOK'
<1>0. mem[id] \in Record
  BY DEF TypeOK
<1>3. CASE Cancel(id)
  <2>1. mem' \in [Ids -> Record] /\ disk' \in [Ids -> Record]
    BY <1>0, <1>3, SaveTypes, RecordTypes DEF Cancel, Terminal, Final
  <2>. QED
    BY <1>3, <2>1 DEF Cancel, TypeOK, selectionVars, sessionVars, observedVars
<1>4. CASE Ack(id)
  <2>1. mem' \in [Ids -> Record] /\ disk' \in [Ids -> Record]
    BY <1>0, <1>4, SaveTypes, RecordTypes DEF Ack
  <2>. QED
    BY <1>4, <2>1 DEF Ack, TypeOK, selectionVars, sessionVars
<1>. QED
  BY <1>3, <1>4

LEMMA TypeSelection ==
  ASSUME TypeOK,
         \/ \E choice \in Bindings \cup {None} : Select(choice)
         \/ \E done \in SUBSET UnderWay : \E bad \in UnderWay \ done : SelectInterrupted(done, bad)
         \/ \E probe \in probes : ProbeAcquires(probe) \/ ProbeEnds(probe)
  PROVE  TypeOK'
<1>1. ASSUME NEW jobs \in SUBSET Ids
      PROVE  CancelAll(jobs) \in [Ids -> Record] /\ CancelledFiles(jobs) \in [Ids -> Record]
  BY <1>1, RecordTypes DEF CancelAll, CancelledFiles, TypeOK, Terminal, Final
<1>2. UnderWay \subseteq Ids
  BY DEF UnderWay, TypeOK
<1>3. ASSUME NEW choice \in Bindings \cup {None}, Select(choice)
      PROVE  TypeOK'
  BY <1>1, <1>2, <1>3 DEF Select, TypeOK, Unavailable, sessionVars, observedVars
<1>4. ASSUME NEW done \in SUBSET UnderWay, NEW bad \in UnderWay \ done, SelectInterrupted(done, bad)
      PROVE  TypeOK'
  <2>1. done \in SUBSET Ids /\ done \cup {bad} \in SUBSET Ids /\ done \subseteq active
    BY <1>2 DEF UnderWay
  <2>2. mem' \in [Ids -> Record] /\ disk' \in [Ids -> Record]
    BY <1>1, <1>4, <2>1 DEF SelectInterrupted
  <2>. QED
    BY <1>4, <2>1, <2>2 DEF SelectInterrupted, TypeOK, sessionVars, observedVars
<1>5. ASSUME NEW probe \in probes, ProbeAcquires(probe)
      PROVE  TypeOK'
  BY <1>5 DEF ProbeAcquires, TypeOK, jobVars, taskVars, selectionVars, sessionVars, observedVars
<1>6. ASSUME NEW probe \in probes, ProbeEnds(probe)
      PROVE  TypeOK'
  BY <1>6 DEF ProbeEnds, TypeOK, jobVars, taskVars, sessionVars, observedVars
<1>. QED
  BY <1>3, <1>4, <1>5, <1>6

LEMMA TypeSession ==
  ASSUME TypeOK,
         \/ Open \/ OpenDisabled \/ Stop \/ CloseSession \/ LeaseReleased \/ Crash
         \/ AsrAcquires \/ AsrReleases \/ ChangeSettings
  PROVE  TypeOK'
<1>1. ASSUME NEW jobs \in SUBSET Ids
      PROVE  ReloadedFiles(jobs) \in [Ids -> Record]
  BY <1>1, RecordTypes DEF ReloadedFiles, TypeOK
<1>2. Nothing \in [Ids -> Record]
  BY RecordTypes DEF Nothing
<1>3. CASE Open
  <2>1. mem' \in [Ids -> Record] /\ disk' \in [Ids -> Record]
    BY <1>1, <1>3 DEF Open
  <2>. QED
    BY <1>3, <2>1 DEF Open, TypeOK, FreshSelection, Unavailable, taskVars
<1>4. CASE OpenDisabled
  <2>1. disk' \in [Ids -> Record]
    <3>1. Stored(disk) \subseteq Ids
      BY DEF Stored
    <3>. QED
      BY <1>1, <1>4, <3>1 DEF OpenDisabled, TypeOK
  <2>. QED
    BY <1>4, <2>1 DEF OpenDisabled, TypeOK, FreshSelection, Unavailable, taskVars, observedVars
<1>5. CASE Stop
  BY <1>5 DEF Stop, TypeOK, jobVars, taskVars, selectionVars, observedVars
<1>6. CASE CloseSession
  BY <1>2, <1>6 DEF CloseSession, TypeOK, FreshSelection, Unavailable, taskVars, observedVars
<1>7. CASE LeaseReleased
  BY <1>7 DEF LeaseReleased, TypeOK, jobVars, taskVars, selectionVars, observedVars
<1>8. CASE Crash
  BY <1>2, <1>8 DEF Crash, TypeOK, FreshSelection, Unavailable, observedVars, TaskStates
<1>9. CASE AsrAcquires \/ AsrReleases \/ ChangeSettings
  BY <1>9 DEF AsrAcquires, AsrReleases, ChangeSettings, TypeOK, jobVars, taskVars, selectionVars,
              sessionVars, observedVars
<1>. QED
  BY <1>3, <1>4, <1>5, <1>6, <1>7, <1>8, <1>9

LEMMA TypeStep == TypeOK /\ [Next]_vars => TypeOK'
<1>1. ASSUME TypeOK, Next
      PROVE  TypeOK'
  BY <1>1, TypeTask, TypeSubmit, TypeChange, TypeSelection, TypeSession DEF Next
<1>2. ASSUME TypeOK, UNCHANGED vars
      PROVE  TypeOK'
  BY <1>2 DEF TypeOK, vars, jobVars, taskVars, selectionVars, sessionVars, observedVars
<1>. QED
  BY <1>1, <1>2

\* Every variable keeps its type.
THEOREM TypeCorrect == Spec => []TypeOK
BY TypeInit, TypeStep, PTL DEF Spec

-----------------------------------------------------------------------------
(***************************************************************************)
(* What any step of the service does to one job. The proofs about records   *)
(* are about these few transitions; StepShape shows there are no others.    *)
(***************************************************************************)
Unsettled(record) == record.status \in Pending \cup {"absent"}

\* A record that a save of a task or of a client's request may write.
Writable(record) ==
  /\ record.status \in Pending \cup Final
  /\ record.status = "completed" => record.result

\* What is written belongs to the request the job belongs to already.
Continues(old, new) ==
  IF old.status = "absent" THEN new.digest \in Requests ELSE new.digest = old.digest

SameShown(id) == id \in shown' <=> id \in shown

Untouched(id) == mem'[id] = mem[id] /\ disk'[id] = disk[id] /\ SameShown(id)

Recorded(id) ==
  /\ Unsettled(mem[id]) /\ (mem[id].status = "absent" => Serving)
  /\ mem'[id] = disk'[id] /\ Writable(disk'[id]) /\ Continues(mem[id], disk'[id])
  /\ id \in shown' => id \in shown \/ mem'[id].status = "completed"

Unrecorded(id) ==
  /\ Unsettled(mem[id]) /\ (mem[id].status = "absent" => Serving)
  /\ mem'[id] = mem[id] /\ Writable(disk'[id]) /\ Continues(mem[id], disk'[id])
  /\ SameShown(id)

MadeVolatile(id) ==
  /\ mem[id].status \in Pending
  /\ mem'[id].status = "failed" /\ mem'[id].volatile /\ mem'[id].digest = mem[id].digest
  /\ disk'[id] = disk[id]
  /\ SameShown(id)

Acknowledged(id) ==
  /\ Serving /\ mem[id].status \in Final
  /\ disk'[id] = Tombstone(mem[id]) /\ mem'[id] \in {mem[id], Tombstone(mem[id])}
  /\ id \in ackTried'
  /\ SameShown(id)

Loaded(id) ==
  /\ ~Serving /\ Serving'
  /\ disk'[id] = Reloaded(disk[id]) /\ mem'[id] = disk'[id]
  /\ id \in shown' <=> id \in shown \/ disk[id].status = "completed"

LoadAbandoned(id) ==
  /\ ~Serving /\ ~Serving'
  /\ disk'[id] \in {disk[id], Reloaded(disk[id])} /\ mem'[id] = mem[id]
  /\ SameShown(id)

Dropped(id) ==
  /\ ~Serving'
  /\ mem'[id] = Absent /\ disk'[id] = disk[id]
  /\ SameShown(id)

ServingKept == Serving' <=> Serving

JobStep(id) ==
  /\ id \in ackTried => id \in ackTried'
  /\ \/ ServingKept /\ (Untouched(id) \/ Recorded(id) \/ Unrecorded(id) \/ MadeVolatile(id)
                        \/ Acknowledged(id))
     \/ Loaded(id) \/ LoadAbandoned(id) \/ Dropped(id)

LEMMA WritableRecords ==
  /\ \A request \in Requests : Writable(Queued(request))
  /\ \A record \in Record :
       /\ \A status \in Pending \cup (Final \ {"completed"}) : Writable(WithStatus(record, status))
       /\ Writable(Completed(record))
       /\ record.status # "absent" =>
            /\ Continues(record, Completed(record))
            /\ \A status \in Pending \cup Terminal : Continues(record, WithStatus(record, status))
BY DEF Writable, Continues, Queued, WithStatus, Completed, Record, Pending, Terminal, Final

\* A save for a job that is not settled records or fails to record it.
LEMMA SaveShape ==
  ASSUME TypeOK, NEW id \in Ids, NEW record \in Record, Writable(record), Continues(mem[id], record),
         Unsettled(mem[id]) /\ (mem[id].status = "absent" => Serving),
         SaveAndInsert(id, record) \/ SaveFails(id, record), shown' = shown,
         NEW job \in Ids
  PROVE  Untouched(job) \/ Recorded(job) \/ Unrecorded(job)
<1>1. CASE job # id
  BY <1>1 DEF SaveAndInsert, SaveFails, Untouched, SameShown, TypeOK
<1>2. CASE job = id
  <2>1. CASE SaveAndInsert(id, record)
    BY <1>2, <2>1 DEF SaveAndInsert, Recorded, TypeOK
  <2>2. CASE SaveFails(id, record)
    BY <1>2, <2>2 DEF SaveFails, Untouched, Unrecorded, SameShown, TypeOK
  <2>. QED
    BY <2>1, <2>2
<1>. QED
  BY <1>1, <1>2

\* The special case of a pending job that is saved with another status.
LEMMA StatusShape ==
  ASSUME TypeOK, NEW id \in Ids, mem[id].status \in Pending,
         NEW status \in Pending \cup (Final \ {"completed"}),
         \/ SaveAndInsert(id, WithStatus(mem[id], status))
         \/ SaveFails(id, WithStatus(mem[id], status)),
         shown' = shown, ackTried' = ackTried, ServingKept,
         NEW job \in Ids
  PROVE  JobStep(job)
<1>0. mem[id] \in Record /\ mem[id].status # "absent" /\ status \in Pending \cup Terminal
  BY DEF TypeOK, Pending, Terminal
<1>1. /\ Writable(WithStatus(mem[id], status)) /\ WithStatus(mem[id], status) \in Record
      /\ Continues(mem[id], WithStatus(mem[id], status))
  BY <1>0, WritableRecords, RecordTypes
<1>2. Unsettled(mem[id]) /\ (mem[id].status = "absent" => Serving)
  BY DEF Unsettled, Pending
<1>3. Untouched(job) \/ Recorded(job) \/ Unrecorded(job)
  BY <1>1, <1>2, SaveShape
<1>. QED
  BY <1>3 DEF JobStep

LEMMA TaskShape ==
  ASSUME TypeOK, NEW id \in Ids, TaskStep(id), NEW job \in Ids
  PROVE  JobStep(job)
<1>1. /\ ackTried' = ackTried
      /\ ServingKept
  BY DEF TaskStep, GateGranted, StartRunning, ReadRequest, Ask, Answer, TimeOut, Cancelled,
         SaveFailure, ReportVolatile, Finish, observedVars, sessionVars, ServingKept, Serving
<1>2. mem[id] \in Record
  BY DEF TypeOK
<1>3. CASE UNCHANGED <<mem, disk, shown>>
  BY <1>1, <1>3 DEF JobStep, Untouched, SameShown
<1>4. CASE StartRunning(id)
  <2>1. shown' = shown /\ "running" \in Pending
    BY <1>4 DEF StartRunning, observedVars, Pending
  <2>. QED
    BY <1>1, <1>3, <1>4, <2>1, StatusShape DEF StartRunning, jobVars
<1>5. CASE Answer(id)
  <2>0. /\ Completed(mem[id]) \in Record /\ Writable(Completed(mem[id]))
        /\ Completed(mem[id]).status = "completed"
        /\ mem[id].status \in Pending => Continues(mem[id], Completed(mem[id]))
    <3>1. mem[id].status \in Pending => mem[id].status # "absent"
      BY DEF Pending
    <3>. QED
      BY <3>1, <1>2, RecordTypes, WritableRecords DEF Completed, Record
  <2>1. CASE SaveAndInsert(id, Completed(mem[id])) /\ shown' = shown \cup {id} /\ mem[id].status \in Pending
    <3>1. CASE job = id
      <4>1. Recorded(job)
        BY <2>0, <2>1, <3>1 DEF SaveAndInsert, Recorded, Unsettled, Pending, TypeOK
      <4>. QED
        BY <1>1, <4>1 DEF JobStep
    <3>2. CASE job # id
      <4>1. Untouched(job)
        BY <2>1, <3>2 DEF SaveAndInsert, Untouched, SameShown, TypeOK
      <4>. QED
        BY <1>1, <4>1 DEF JobStep
    <3>. QED
      BY <3>1, <3>2
  <2>2. CASE SaveFails(id, Completed(mem[id])) /\ shown' = shown /\ mem[id].status \in Pending
    <3>1. Unsettled(mem[id]) /\ (mem[id].status = "absent" => Serving)
      BY <2>2 DEF Unsettled, Pending
    <3>2. Untouched(job) \/ Recorded(job) \/ Unrecorded(job)
      BY <2>0, <2>2, <3>1, SaveShape
    <3>. QED
      BY <1>1, <3>2 DEF JobStep
  <2>. QED
    BY <1>3, <1>5, <2>1, <2>2 DEF Answer, jobVars
<1>6. CASE Cancelled(id)
  <2>1. shown' = shown /\ "cancelled" \in Final \ {"completed"}
    BY <1>6 DEF Cancelled, observedVars, Final
  <2>. QED
    BY <1>1, <1>3, <1>6, <2>1, StatusShape DEF Cancelled, jobVars
<1>7. CASE SaveFailure(id)
  <2>1. shown' = shown /\ "failed" \in Final \ {"completed"}
    BY <1>7 DEF SaveFailure, observedVars, Final
  <2>. QED
    BY <1>1, <1>3, <1>7, <2>1, StatusShape DEF SaveFailure, jobVars
<1>8. CASE ReportVolatile(id)
  <2>1. CASE job = id /\ mem[id].status \in Pending
    <3>1. MadeVolatile(job)
      BY <1>2, <1>8, <2>1 DEF ReportVolatile, MadeVolatile, SameShown, observedVars, TypeOK, Record
    <3>. QED
      BY <1>1, <3>1 DEF JobStep
  <2>2. CASE job # id \/ mem[id].status \notin Pending
    BY <1>1, <1>8, <2>2 DEF ReportVolatile, JobStep, Untouched, SameShown, observedVars, TypeOK
  <2>. QED
    BY <2>1, <2>2
<1>9. CASE GateGranted(id) \/ ReadRequest(id) \/ Ask(id) \/ TimeOut(id) \/ Finish(id)
  BY <1>3, <1>9 DEF GateGranted, ReadRequest, Ask, TimeOut, Finish, jobVars, observedVars
<1>. QED
  BY <1>4, <1>5, <1>6, <1>7, <1>8, <1>9 DEF TaskStep

LEMMA SubmitShape ==
  ASSUME TypeOK, NEW id \in Ids, NEW request \in Requests,
         Submit(id, request) \/ SubmitUnsaved(id, request), NEW job \in Ids
  PROVE  JobStep(job)
<1>1. ackTried' = ackTried /\ shown' = shown /\ ServingKept
  BY DEF Submit, SubmitUnsaved, observedVars, sessionVars, ServingKept, Serving
<1>2. Unsettled(mem[id]) /\ (mem[id].status = "absent" => Serving)
  BY DEF Submit, SubmitUnsaved, Admissible, Unsettled
<1>3. /\ Writable(Queued(request)) /\ Queued(request) \in Record
      /\ Continues(mem[id], Queued(request))
  BY WritableRecords, RecordTypes DEF Submit, SubmitUnsaved, Admissible, Continues, Queued
<1>4. Untouched(job) \/ Recorded(job) \/ Unrecorded(job)
  BY <1>1, <1>2, <1>3, SaveShape DEF Submit, SubmitUnsaved
<1>. QED
  BY <1>1, <1>4 DEF JobStep

LEMMA ChangeShape ==
  ASSUME TypeOK, NEW id \in Ids, Cancel(id) \/ Ack(id), NEW job \in Ids
  PROVE  JobStep(job)
<1>1. shown' = shown /\ ServingKept /\ ackTried \subseteq ackTried'
  BY DEF Cancel, Ack, observedVars, sessionVars, ServingKept, Serving
<1>2. mem[id] \in Record
  BY DEF TypeOK
<1>3. CASE Cancel(id)
  <2>1. ackTried' = ackTried /\ "cancelled" \in Final \ {"completed"}
    BY <1>3 DEF Cancel, observedVars, Final
  <2>. QED
    BY <1>1, <1>3, <2>1, StatusShape DEF Cancel
<1>4. CASE Ack(id)
  <2>1. CASE job = id
    <3>1. id \in ackTried' /\ SameShown(id)
      BY <1>1, <1>4 DEF Ack, SameShown
    <3>2. \/ disk'[id] = Tombstone(mem[id]) /\ mem'[id] \in {mem[id], Tombstone(mem[id])}
          \/ disk'[id] = disk[id] /\ mem'[id] = mem[id]
      BY <1>4 DEF Ack, SaveAndInsert, SaveFails, TypeOK
    <3>. QED
      BY <1>1, <1>4, <2>1, <3>1, <3>2 DEF Ack, JobStep, Acknowledged, Untouched
  <2>2. CASE job # id
    <3>1. disk'[job] = disk[job] /\ mem'[job] = mem[job]
      BY <1>4, <2>2 DEF Ack, SaveAndInsert, SaveFails, TypeOK
    <3>. QED
      BY <1>1, <3>1 DEF JobStep, Untouched, SameShown
  <2>. QED
    BY <2>1, <2>2
<1>. QED
  BY <1>3, <1>4

LEMMA SelectionShape ==
  ASSUME TypeOK,
         \/ \E choice \in Bindings \cup {None} : Select(choice)
         \/ \E done \in SUBSET UnderWay : \E bad \in UnderWay \ done : SelectInterrupted(done, bad)
         \/ \E probe \in probes : ProbeAcquires(probe) \/ ProbeEnds(probe),
         NEW job \in Ids
  PROVE  JobStep(job)
<1>1. ackTried' = ackTried /\ shown' = shown /\ ServingKept
  BY DEF Select, SelectInterrupted, ProbeAcquires, ProbeEnds, observedVars, sessionVars, ServingKept,
         Serving
<1>2. /\ mem[job] \in Record /\ Writable(WithStatus(mem[job], "cancelled"))
      /\ mem[job].status # "absent" => Continues(mem[job], WithStatus(mem[job], "cancelled"))
  BY WritableRecords DEF TypeOK, Terminal, Final
<1>3. job \in UnderWay => Unsettled(mem[job]) /\ mem[job].status # "absent"
  BY DEF UnderWay, Unsettled, Pending
<1>4. ASSUME NEW choice \in Bindings \cup {None}, Select(choice)
      PROVE  JobStep(job)
  BY <1>1, <1>2, <1>3, <1>4 DEF Select, CancelAll, CancelledFiles, JobStep, Untouched, Recorded, SameShown
<1>5. ASSUME NEW done \in SUBSET UnderWay, NEW bad \in UnderWay \ done, SelectInterrupted(done, bad)
      PROVE  JobStep(job)
  <2>1. CASE job \in done
    BY <1>1, <1>2, <1>3, <1>5, <2>1 DEF SelectInterrupted, CancelAll, CancelledFiles, JobStep, Recorded
  <2>2. CASE job = bad
    BY <1>1, <1>2, <1>3, <1>5, <2>2
       DEF SelectInterrupted, CancelAll, CancelledFiles, JobStep, Untouched, Unrecorded, SameShown
  <2>3. CASE job \notin done \cup {bad}
    BY <1>1, <1>5, <2>3 DEF SelectInterrupted, CancelAll, CancelledFiles, JobStep, Untouched, SameShown
  <2>. QED
    BY <2>1, <2>2, <2>3
<1>6. CASE UNCHANGED <<mem, disk>>
  BY <1>1, <1>6 DEF JobStep, Untouched, SameShown
<1>. QED
  BY <1>4, <1>5, <1>6 DEF ProbeAcquires, ProbeEnds, jobVars

LEMMA SessionShape ==
  ASSUME TypeOK,
         \/ Open \/ OpenDisabled \/ Stop \/ CloseSession \/ LeaseReleased \/ Crash
         \/ AsrAcquires \/ AsrReleases \/ ChangeSettings,
         NEW job \in Ids
  PROVE  JobStep(job)
<1>1. CASE Open
  <2>1. Loaded(job)
    BY <1>1 DEF Open, CanOpen, Loaded, Serving, ReloadedFiles
  <2>. QED
    BY <1>1, <2>1 DEF Open, JobStep
<1>2. CASE OpenDisabled
  <2>1. LoadAbandoned(job)
    BY <1>2 DEF OpenDisabled, CanOpen, LoadAbandoned, Serving, ReloadedFiles, observedVars, SameShown
  <2>. QED
    BY <1>2, <2>1 DEF OpenDisabled, JobStep, observedVars
<1>3. CASE CloseSession \/ Crash
  <2>1. Dropped(job)
    BY <1>3 DEF CloseSession, Crash, Dropped, Serving, Nothing, SameShown, observedVars
  <2>. QED
    BY <1>3, <2>1 DEF CloseSession, Crash, JobStep, observedVars
<1>4. CASE Stop \/ LeaseReleased \/ AsrAcquires \/ AsrReleases \/ ChangeSettings
  BY <1>4 DEF Stop, LeaseReleased, AsrAcquires, AsrReleases, ChangeSettings, JobStep, Untouched, SameShown,
              ServingKept, Serving, jobVars, observedVars, sessionVars
<1>. QED
  BY <1>1, <1>2, <1>3, <1>4
-----------------------------------------------------------------------------
(***************************************************************************)
(* The inductive invariant: how the two copies of one job are related. The  *)
(* reported outcome alone is not inductive: one must know that a tombstone  *)
(* on disk is never under a job that may still be written, and that the     *)
(* memory of a closed session is empty.                                     *)
(***************************************************************************)
Durable(id) ==
  /\ ~Serving => mem[id] = Absent
  /\ disk[id].status = "completed" => disk[id].result
  /\ disk[id].status = "acknowledged" => id \in ackTried
  /\ Serving /\ disk[id].status = "acknowledged" =>
       /\ mem[id].status \in Terminal
       /\ mem[id].status \in Final => disk[id] = Tombstone(mem[id])
  /\ mem[id].status \in Terminal /\ ~mem[id].volatile =>
       disk[id] = mem[id] \/ disk[id].status = "acknowledged"
  /\ id \in shown =>
       /\ disk[id].status \in {"completed", "acknowledged"}
       /\ Serving => mem[id].status \in {"completed", "acknowledged"}

IInv == TypeOK /\ \A id \in Ids : Durable(id)

LEMMA DurableInit == Init => \A id \in Ids : Durable(id)
BY DEF Init, Durable, Nothing, Absent, Serving, Terminal, Final

LEMMA TombstoneFacts ==
  \A record \in Record :
    /\ Tombstone(record).status = "acknowledged"
    /\ ~Tombstone(record).volatile
BY DEF Tombstone, Record

LEMMA ReloadedFacts ==
  \A record \in Record :
    /\ Reloaded(record).status \notin Pending
    /\ record.status \notin Pending => Reloaded(record) = record
    /\ record.status \in Pending => Reloaded(record).status = "interrupted"
BY DEF Reloaded, Record, WithStatus, Pending

LEMMA DurableStep ==
  ASSUME TypeOK, TypeOK', NEW id \in Ids, Durable(id), JobStep(id)
  PROVE  Durable(id)'
<1>. USE DEF Final, Terminal, Pending, Absent
<1>0. mem[id] \in Record /\ disk[id] \in Record
  BY DEF TypeOK
<1>1. CASE ServingKept /\ Untouched(id)
  BY <1>1 DEF Durable, ServingKept, Untouched, SameShown, JobStep
<1>2. CASE ServingKept /\ Recorded(id)
  BY <1>2 DEF Durable, ServingKept, Recorded, Writable, Unsettled
<1>3. CASE ServingKept /\ Unrecorded(id)
  BY <1>3 DEF Durable, ServingKept, Unrecorded, Writable, Unsettled, SameShown
<1>4. CASE ServingKept /\ MadeVolatile(id)
  BY <1>4 DEF Durable, ServingKept, MadeVolatile, SameShown, JobStep
<1>5. CASE ServingKept /\ Acknowledged(id)
  BY <1>0, <1>5, TombstoneFacts DEF Durable, ServingKept, Acknowledged, SameShown
<1>6. CASE Loaded(id)
  BY <1>0, <1>6, ReloadedFacts DEF Durable, Loaded, JobStep
<1>7. CASE LoadAbandoned(id)
  BY <1>0, <1>7, ReloadedFacts DEF Durable, LoadAbandoned, SameShown, JobStep
<1>8. CASE Dropped(id)
  BY <1>8 DEF Durable, Dropped, SameShown, JobStep
<1>. QED
  BY <1>1, <1>2, <1>3, <1>4, <1>5, <1>6, <1>7, <1>8 DEF JobStep

LEMMA StepShape ==
  ASSUME TypeOK, [Next]_vars, NEW id \in Ids
  PROVE  JobStep(id)
<1>1. CASE Next
  BY <1>1, TaskShape, SubmitShape, ChangeShape, SelectionShape, SessionShape DEF Next
<1>2. CASE UNCHANGED vars
  BY <1>2 DEF vars, jobVars, sessionVars, observedVars, JobStep, Untouched, SameShown, ServingKept, Serving
<1>. QED
  BY <1>1, <1>2

\* Memory and file of every job stay related as Durable says.
THEOREM Durability == Spec => []IInv
<1>1. Init => IInv
  BY TypeInit, DurableInit DEF IInv
<1>2. IInv /\ [Next]_vars => IInv'
  <2>. SUFFICES ASSUME IInv, [Next]_vars
                PROVE  IInv'
    OBVIOUS
  <2>1. TypeOK'
    BY TypeStep DEF IInv
  <2>2. ASSUME NEW id \in Ids
        PROVE  Durable(id)'
    BY <2>1, <2>2, StepShape, DurableStep DEF IInv
  <2>. QED
    BY <2>1, <2>2 DEF IInv
<1>. QED
  BY <1>1, <1>2, PTL DEF Spec

\* The outcome reported to the phone is on disk unless memory says otherwise.
THEOREM ReportedOutcome == Spec => []ReportedOutcomeIsDurable
<1>1. IInv => ReportedOutcomeIsDurable
  BY DEF IInv, Durable, ReportedOutcomeIsDurable
<1>. QED
  BY <1>1, Durability, PTL

\* A result a phone could read survives until it is acknowledged.
THEOREM ShownResult == Spec => []ShownResultIsKept
<1>1. IInv => ShownResultIsKept
  BY DEF IInv, Durable, ShownResultIsKept, TypeOK
<1>. QED
  BY <1>1, Durability, PTL

\* No step writes over a tombstone, in this session or a later one.
THEOREM TombstoneForever == Spec => TombstoneIsFinal
<1>1. ASSUME IInv, [Next]_vars, NEW id \in Ids, disk[id].status = "acknowledged"
      PROVE  disk'[id] = disk[id]
  <2>0. Durable(id) /\ JobStep(id) /\ disk[id] \in Record
    BY <1>1, StepShape DEF IInv, TypeOK
  <2>1. ~Unsettled(mem[id]) \/ (~Serving /\ mem[id] = Absent)
    BY <1>1, <2>0 DEF Durable, Unsettled, Pending, Terminal, Final
  <2>2. Reloaded(disk[id]) = disk[id]
    BY <1>1, <2>0, ReloadedFacts DEF Pending
  <2>3. CASE Acknowledged(id)
    BY <1>1, <2>0, <2>3 DEF Acknowledged, Durable
  <2>4. ~Recorded(id) /\ ~Unrecorded(id)
    <3>1. mem[id] = Absent => mem[id].status = "absent"
      BY DEF Absent
    <3>. QED
      BY <2>1, <3>1 DEF Recorded, Unrecorded
  <2>5. CASE Untouched(id) \/ MadeVolatile(id) \/ Dropped(id)
    BY <2>5 DEF Untouched, MadeVolatile, Dropped
  <2>6. CASE Loaded(id) \/ LoadAbandoned(id)
    BY <2>2, <2>6 DEF Loaded, LoadAbandoned
  <2>. QED
    BY <2>0, <2>3, <2>4, <2>5, <2>6 DEF JobStep
<1>2. IInv /\ [Next]_vars =>
        [\A id \in Ids : disk[id].status = "acknowledged" => disk'[id] = disk[id]]_vars
  BY <1>1
<1>. QED
  BY <1>2, Durability, PTL DEF Spec, TombstoneIsFinal

-----------------------------------------------------------------------------
(***************************************************************************)
(* Each job is served once. The property is not inductive: that a job is    *)
(* asked for once also rests on what a task has yet to do, on a job that was *)
(* asked for being known to memory and to the disk for ever, and on a        *)
(* cancelled token meaning that the job is already settled.                 *)
(***************************************************************************)
BeforeAsking == {"waiting", "granted", "running", "prepared"}

Tracked(id) ==
  /\ inferences[id] <= 1
  /\ task[id] \in BeforeAsking => inferences[id] = 0
  /\ inferences[id] > 0 => disk[id].status # "absent" /\ (Serving => mem[id].status # "absent")
  /\ task[id] # "none" => Serving /\ mem[id].status # "absent" /\ disk[id].status # "absent"
  /\ id \in active <=> task[id] # "none"
  /\ id \in token => mem[id].status \notin Pending
  /\ session = "open" /\ mem[id].status \in Pending =>
       task[id] \notin {"none", "finishing"} /\ bound[id] = binding /\ binding # None

\* A probe that may still set the health is one of the selected binding.
Probed ==
  /\ health.of = binding
  /\ health.available => binding # None
  /\ \A probe \in probes :
       /\ probe.generation <= generation
       /\ probe.generation = generation => probe.of = binding

SameJob(id) ==
  /\ mem'[id] = mem[id] /\ disk'[id] = disk[id]
  /\ task'[id] = task[id] /\ bound'[id] = bound[id] /\ inferences'[id] = inferences[id]
  /\ id \in active' <=> id \in active
  /\ id \in token' <=> id \in token

LEMMA SameJobTracked ==
  ASSUME NEW id \in Ids, Tracked(id), SameJob(id), session' = session, binding' = binding
  PROVE  Tracked(id)'
BY DEF Tracked, SameJob, Serving

\* A task changes its own job only.
LEMMA OtherTask ==
  ASSUME TypeOK, NEW id \in Ids, TaskStep(id), NEW job \in Ids, job # id
  PROVE  SameJob(job)
<1>1. mem'[job] = mem[job] /\ disk'[job] = disk[job]
  BY DEF TypeOK, TaskStep, GateGranted, StartRunning, ReadRequest, Ask, Answer, TimeOut, Cancelled,
         SaveFailure, ReportVolatile, Finish, SaveAndInsert, SaveFails, jobVars
<1>2. task'[job] = task[job]
  BY DEF TypeOK, TaskStep, GateGranted, StartRunning, ReadRequest, Ask, Answer, TimeOut, Cancelled,
         SaveFailure, ReportVolatile, Finish, Goto, WorkFails
<1>3. inferences'[job] = inferences[job] /\ bound' = bound
  BY DEF TypeOK, TaskStep, GateGranted, StartRunning, ReadRequest, Ask, Answer, TimeOut, Cancelled,
         SaveFailure, ReportVolatile, Finish, observedVars
<1>4. (job \in active' <=> job \in active) /\ (job \in token' <=> job \in token)
  BY DEF TypeOK, TaskStep, GateGranted, StartRunning, ReadRequest, Ask, Answer, TimeOut, Cancelled,
         SaveFailure, ReportVolatile, Finish
<1>. QED
  BY <1>1, <1>2, <1>3, <1>4 DEF SameJob

\* What a save of a pending job may leave behind.
LEMMA SavedStatus ==
  ASSUME TypeOK, NEW id \in Ids, mem[id].status \in Pending, disk[id].status # "absent",
         NEW record \in Record, record.status # "absent",
         SaveAndInsert(id, record) \/ SaveFails(id, record)
  PROVE  /\ SaveAndInsert(id, record) => mem'[id] = record
         /\ SaveFails(id, record) => mem'[id] = mem[id]
         /\ mem'[id].status # "absent" /\ disk'[id].status # "absent"
BY DEF SaveAndInsert, SaveFails, TypeOK, Pending

LEMMA TrackedTask ==
  ASSUME TypeOK, NEW id \in Ids, TaskStep(id), Tracked(id)
  PROVE  Tracked(id)'
<1>. USE DEF BeforeAsking, Pending
<1>0. /\ session' = session /\ binding' = binding /\ bound' = bound /\ (Serving' <=> Serving)
      /\ mem[id] \in Record /\ inferences[id] \in Nat
  BY DEF TypeOK, TaskStep, GateGranted, StartRunning, ReadRequest, Ask, Answer, TimeOut, Cancelled,
         SaveFailure, ReportVolatile, Finish, Serving, sessionVars, selectionVars
<1>1. CASE GateGranted(id)
  BY <1>0, <1>1 DEF GateGranted, Goto, Tracked, TypeOK, jobVars, observedVars
<1>2. CASE StartRunning(id)
  <2>1. /\ active' = active /\ token' = token /\ inferences' = inferences
        /\ task[id] = "granted" /\ task'[id] \in {"running", "failing"}
    BY <1>2 DEF StartRunning, Goto, WorkFails, TypeOK, observedVars
  <2>2. /\ WithStatus(mem[id], "running") \in Record
        /\ WithStatus(mem[id], "running").status = "running"
    BY <1>0, RecordTypes DEF WithStatus, Record
  <2>3. /\ mem'[id].status # "absent" /\ disk'[id].status # "absent"
        /\ mem'[id].status \in Pending => mem[id].status \in Pending
    BY <1>2, <2>1, <2>2, SavedStatus DEF StartRunning, Tracked, jobVars
  <2>. QED
    BY <1>0, <2>1, <2>3 DEF Tracked
<1>3. CASE ReadRequest(id)
  BY <1>0, <1>3 DEF ReadRequest, Goto, WorkFails, Tracked, TypeOK, jobVars, observedVars
<1>4. CASE Ask(id)
  <2>1. /\ active' = active /\ token' = token /\ mem' = mem /\ disk' = disk
        /\ task[id] = "prepared" /\ task'[id] \in {"asking", "failing"}
    BY <1>4 DEF Ask, Goto, WorkFails, TypeOK, jobVars
  <2>2. inferences'[id] \in {0, 1}
    BY <1>0, <1>4, <2>1 DEF Ask, Tracked, TypeOK
  <2>. QED
    BY <1>0, <2>1, <2>2 DEF Tracked
<1>5. CASE Answer(id)
  <2>1. /\ active' = active /\ token' = token /\ inferences' = inferences
        /\ task[id] = "asking" /\ task'[id] \in {"finishing", "failing"}
    BY <1>5 DEF Answer, Goto, WorkFails, TypeOK
  <2>2. /\ Completed(mem[id]) \in Record
        /\ Completed(mem[id]).status = "completed"
    BY <1>0, RecordTypes DEF Completed, Record
  <2>3. /\ mem'[id].status # "absent" /\ disk'[id].status # "absent"
        /\ mem'[id].status \in Pending => mem[id].status \in Pending /\ task'[id] = "failing"
    BY <1>5, <2>1, <2>2, SavedStatus DEF Answer, Goto, WorkFails, TypeOK, Tracked, jobVars
  <2>. QED
    BY <1>0, <2>1, <2>3 DEF Tracked
<1>6. CASE TimeOut(id)
  BY <1>0, <1>6 DEF TimeOut, Working, Goto, WorkFails, Tracked, TypeOK, jobVars, observedVars
<1>7. CASE Cancelled(id)
  <2>1. /\ active' = active /\ token' = token /\ inferences' = inferences
        /\ task[id] # "none" /\ task'[id] = "finishing"
        /\ id \in token \/ session # "open"
    BY <1>7 DEF Cancelled, Working, Goto, TypeOK, observedVars
  <2>2. /\ WithStatus(mem[id], "cancelled") \in Record
        /\ WithStatus(mem[id], "cancelled").status = "cancelled"
    BY <1>0, RecordTypes DEF WithStatus, Record, Terminal, Final
  <2>3. /\ mem'[id].status # "absent" /\ disk'[id].status # "absent"
        /\ mem'[id].status \in Pending => mem[id].status \in Pending
    BY <1>7, <2>1, <2>2, SavedStatus DEF Cancelled, Tracked, jobVars
  <2>. QED
    BY <1>0, <2>1, <2>3 DEF Tracked
<1>8. CASE SaveFailure(id)
  <2>1. /\ active' = active /\ token' = token /\ inferences' = inferences
        /\ task[id] = "failing" /\ task'[id] \in {"finishing", "unsaved"}
    BY <1>8 DEF SaveFailure, Goto, TypeOK, observedVars
  <2>2. /\ WithStatus(mem[id], "failed") \in Record
        /\ WithStatus(mem[id], "failed").status = "failed"
    BY <1>0, RecordTypes DEF WithStatus, Record, Terminal, Final
  <2>3. /\ mem'[id].status # "absent" /\ disk'[id].status # "absent"
        /\ mem'[id].status \in Pending => mem[id].status \in Pending /\ task'[id] = "unsaved"
    BY <1>8, <2>1, <2>2, SavedStatus DEF SaveFailure, Goto, TypeOK, Tracked, jobVars
  <2>. QED
    BY <1>0, <2>1, <2>3 DEF Tracked
<1>9. CASE ReportVolatile(id)
  <2>1. /\ active' = active /\ token' = token /\ inferences' = inferences /\ disk' = disk
        /\ task[id] = "unsaved" /\ task'[id] = "finishing"
    BY <1>9 DEF ReportVolatile, Goto, TypeOK, observedVars
  <2>2. mem'[id].status # "absent" /\ mem'[id].status \notin Pending
    BY <1>0, <1>9, <2>1 DEF ReportVolatile, Tracked, TypeOK, Record
  <2>. QED
    BY <1>0, <2>1, <2>2 DEF Tracked
<1>10. CASE Finish(id)
  BY <1>0, <1>10 DEF Finish, Goto, Tracked, TypeOK, jobVars, observedVars
<1>. QED
  BY <1>1, <1>2, <1>3, <1>4, <1>5, <1>6, <1>7, <1>8, <1>9, <1>10 DEF TaskStep

LEMMA TrackedSubmit ==
  ASSUME TypeOK, NEW id \in Ids, NEW request \in Requests,
         Submit(id, request) \/ SubmitUnsaved(id, request), NEW job \in Ids, Tracked(job)
  PROVE  Tracked(job)'
<1>. USE DEF BeforeAsking, Pending
<1>0. session' = session /\ binding' = binding /\ inferences' = inferences
  BY DEF Submit, SubmitUnsaved, sessionVars, selectionVars, observedVars
<1>1. CASE job # id
  <2>1. SameJob(job)
    BY <1>1 DEF Submit, SubmitUnsaved, SameJob, SaveAndInsert, SaveFails, TypeOK, taskVars, observedVars
  <2>. QED
    BY <1>0, <2>1, SameJobTracked
<1>2. CASE job = id /\ Submit(id, request)
  <2>1. /\ mem'[id].status = "queued" /\ disk'[id].status = "queued"
        /\ task'[id] = "waiting" /\ bound'[id] = binding /\ binding # None
        /\ id \in active' /\ id \notin token' /\ Serving /\ mem[id].status = "absent"
    BY <1>2 DEF Submit, Admissible, SaveAndInsert, Queued, TypeOK
  <2>2. inferences[id] = 0 /\ (Serving' <=> Serving)
    BY <1>0, <1>2, <2>1 DEF Tracked, TypeOK, Serving
  <2>. QED
    BY <1>0, <1>2, <2>1, <2>2 DEF Tracked
<1>3. CASE job = id /\ SubmitUnsaved(id, request)
  <2>1. /\ mem' = mem /\ active' = active /\ token' = token /\ task' = task /\ bound' = bound
        /\ disk'[id] = disk[id] \/ disk'[id].status = "queued"
    BY <1>3 DEF SubmitUnsaved, SaveFails, Queued, TypeOK, taskVars
  <2>. QED
    BY <1>0, <1>3, <2>1 DEF Tracked, Serving
<1>. QED
  BY <1>1, <1>2, <1>3

LEMMA TrackedChange ==
  ASSUME TypeOK, NEW id \in Ids, Cancel(id) \/ Ack(id), NEW job \in Ids, Tracked(job)
  PROVE  Tracked(job)'
<1>. USE DEF BeforeAsking, Pending
<1>0. /\ session' = session /\ binding' = binding /\ inferences' = inferences
      /\ active' = active /\ task' = task /\ bound' = bound
  BY DEF Cancel, Ack, sessionVars, selectionVars, observedVars
<1>1. CASE job # id
  <2>1. SameJob(job)
    BY <1>0, <1>1 DEF Cancel, Ack, SameJob, SaveAndInsert, SaveFails, TypeOK
  <2>. QED
    BY <1>0, <2>1, SameJobTracked
<1>2. CASE job = id
  <2>0. mem[id] \in Record
    BY DEF TypeOK
  <2>1. /\ WithStatus(mem[id], "cancelled").status = "cancelled"
        /\ Tombstone(mem[id]).status = "acknowledged"
    BY <2>0 DEF WithStatus, Tombstone, Record
  <2>2. /\ disk'[id].status # "absent" \/ disk'[id] = disk[id]
        /\ mem'[id].status # "absent" \/ mem'[id] = mem[id]
        /\ mem'[id].status \notin Pending \/ (mem'[id] = mem[id] /\ token' = token)
    BY <2>1 DEF Cancel, Ack, SaveAndInsert, SaveFails, TypeOK
  <2>3. id \in token' => id \in token \/ mem'[id].status \notin Pending
    BY <2>2
  <2>. QED
    BY <1>0, <1>2, <2>2, <2>3 DEF Tracked, Serving
<1>. QED
  BY <1>1, <1>2

LEMMA TrackedSelection ==
  ASSUME TypeOK, Probed,
         \/ \E choice \in Bindings \cup {None} : Select(choice)
         \/ \E done \in SUBSET UnderWay : \E bad \in UnderWay \ done : SelectInterrupted(done, bad)
         \/ \E probe \in probes : ProbeAcquires(probe) \/ ProbeEnds(probe),
         NEW job \in Ids, Tracked(job)
  PROVE  Tracked(job)'
<1>. USE DEF BeforeAsking, Pending
<1>0. mem[job] \in Record
  BY DEF TypeOK
<1>1. WithStatus(mem[job], "cancelled").status = "cancelled"
  BY <1>0 DEF WithStatus, Record
<1>2. ASSUME NEW choice \in Bindings \cup {None}, Select(choice)
      PROVE  Tracked(job)'
  <2>1. /\ session' = session /\ inferences' = inferences /\ active' = active /\ task' = task
        /\ bound' = bound /\ token' = token \cup active
    BY <1>2 DEF Select, sessionVars, observedVars
  <2>2. CASE job \in UnderWay
    <3>1. mem'[job].status = "cancelled" /\ disk'[job].status = "cancelled"
      BY <1>1, <1>2, <2>2 DEF Select, CancelAll, CancelledFiles
    <3>. QED
      BY <2>1, <3>1 DEF Tracked, Serving
  <2>3. CASE job \notin UnderWay
    <3>1. mem'[job] = mem[job] /\ disk'[job] = disk[job]
      BY <1>2, <2>3 DEF Select, CancelAll, CancelledFiles
    <3>2. mem[job].status \in Pending => job \notin active
      BY <2>3 DEF UnderWay
    <3>. QED
      BY <2>1, <3>1, <3>2 DEF Tracked, Serving
  <2>. QED
    BY <2>2, <2>3
<1>3. ASSUME NEW done \in SUBSET UnderWay, NEW bad \in UnderWay \ done, SelectInterrupted(done, bad)
      PROVE  Tracked(job)'
  <2>1. /\ session' = session /\ inferences' = inferences /\ active' = active /\ task' = task
        /\ bound' = bound /\ token' = token \cup done /\ binding' = binding
    BY <1>3 DEF SelectInterrupted, sessionVars, observedVars
  <2>2. CASE job \in done
    <3>1. mem'[job].status = "cancelled" /\ disk'[job].status = "cancelled"
      BY <1>1, <1>3, <2>2 DEF SelectInterrupted, CancelAll, CancelledFiles
    <3>. QED
      BY <2>1, <3>1 DEF Tracked, Serving
  <2>3. CASE job \notin done
    <3>1. mem'[job] = mem[job] /\ (disk'[job] = disk[job] \/ disk'[job].status = "cancelled")
      BY <1>1, <1>3, <2>3 DEF SelectInterrupted, CancelAll, CancelledFiles
    <3>. QED
      BY <2>1, <2>3, <3>1 DEF Tracked, Serving
  <2>. QED
    BY <2>2, <2>3
<1>4. ASSUME NEW probe \in probes, ProbeAcquires(probe) \/ ProbeEnds(probe)
      PROVE  Tracked(job)'
  <2>1. SameJob(job) /\ session' = session /\ binding' = binding
    BY <1>4 DEF ProbeAcquires, ProbeEnds, SameJob, jobVars, taskVars, observedVars, sessionVars, selectionVars
  <2>. QED
    BY <2>1, SameJobTracked
<1>. QED
  BY <1>2, <1>3, <1>4

LEMMA TrackedSession ==
  ASSUME TypeOK,
         \/ Open \/ OpenDisabled \/ Stop \/ CloseSession \/ LeaseReleased \/ Crash
         \/ AsrAcquires \/ AsrReleases \/ ChangeSettings,
         NEW job \in Ids, Durable(job), Tracked(job)
  PROVE  Tracked(job)'
<1>. USE DEF BeforeAsking, Pending
<1>0. mem[job] \in Record /\ disk[job] \in Record
  BY DEF TypeOK
<1>1. /\ Reloaded(disk[job]).status = "absent" <=> disk[job].status = "absent"
      /\ Reloaded(disk[job]).status \notin Pending
      /\ Absent.status = "absent"
  BY <1>0 DEF Reloaded, WithStatus, Record, Absent
<1>2. CASE Open
  <2>1. /\ ~Serving /\ inferences' = inferences /\ task' = task /\ active' = active /\ token' = token
        /\ mem'[job] = Reloaded(disk[job]) /\ disk'[job] = Reloaded(disk[job])
    BY <1>2 DEF Open, CanOpen, Serving, ReloadedFiles, taskVars
  <2>. QED
    BY <1>1, <2>1 DEF Tracked
<1>3. CASE OpenDisabled
  <2>1. /\ ~Serving /\ ~Serving' /\ inferences' = inferences /\ task' = task
        /\ active' = active /\ token' = token /\ mem'[job] = mem[job]
        /\ session' # "open"
        /\ disk'[job].status = "absent" <=> disk[job].status = "absent"
    BY <1>1, <1>3 DEF OpenDisabled, CanOpen, Serving, ReloadedFiles, taskVars, observedVars
  <2>. QED
    BY <2>1 DEF Tracked
<1>4. CASE Stop
  <2>1. SameJob(job) /\ session' # "open" /\ (Serving' <=> Serving)
    BY <1>4 DEF Stop, SameJob, Serving, jobVars, taskVars, observedVars
  <2>. QED
    BY <2>1 DEF Tracked, SameJob
<1>5. CASE CloseSession \/ Crash
  <2>1. /\ session' = "closed" /\ ~Serving' /\ mem'[job] = Absent /\ disk' = disk
        /\ inferences' = inferences
        /\ task'[job] = "none" /\ (job \in active' => job \in active /\ task[job] = "none")
        /\ job \in token' => job \in active'
    BY <1>5 DEF CloseSession, Crash, Serving, Nothing, taskVars, observedVars, TypeOK
  <2>. QED
    BY <1>1, <2>1 DEF Tracked
<1>6. CASE LeaseReleased \/ AsrAcquires \/ AsrReleases \/ ChangeSettings
  <2>1. SameJob(job) /\ session' = session /\ binding' = binding
    BY <1>6 DEF LeaseReleased, AsrAcquires, AsrReleases, ChangeSettings, SameJob, jobVars, taskVars,
                observedVars, sessionVars, selectionVars
  <2>. QED
    BY <2>1, SameJobTracked
<1>. QED
  BY <1>2, <1>3, <1>4, <1>5, <1>6

\* Only the latest selection has a probe that may set the health.
LEMMA ProbedStep ==
  ASSUME TypeOK, Probed, [Next]_vars
  PROVE  Probed'
<1>1. ASSUME NEW choice \in Bindings \cup {None}, Select(choice)
      PROVE  Probed'
  <2>1. /\ health' = Unavailable(choice) /\ binding' = choice /\ generation' = generation + 1
        /\ \A probe \in probes' : probe \in probes \/ probe = [generation |-> generation + 1, of |-> choice]
    BY <1>1 DEF Select
  <2>2. \A probe \in probes : probe.generation \in Nat /\ probe.generation <= generation
    BY DEF Probed, TypeOK
  <2>3. generation \in Nat
    BY DEF TypeOK
  <2>. QED
    BY <2>1, <2>2, <2>3 DEF Probed, Unavailable
<1>2. ASSUME NEW done \in SUBSET UnderWay, NEW bad \in UnderWay \ done, SelectInterrupted(done, bad)
      PROVE  Probed'
  <2>1. binding' = binding /\ health' = health /\ probes' = probes /\ generation' = generation + 1
    BY <1>2 DEF SelectInterrupted
  <2>2. generation \in Nat /\ \A probe \in probes : probe.generation \in Nat
    BY DEF TypeOK
  <2>. QED
    BY <2>1, <2>2 DEF Probed
<1>3. ASSUME NEW probe \in probes, ProbeEnds(probe)
      PROVE  Probed'
  <2>1. probe.of # None
    BY NoneAssumption DEF TypeOK
  <2>2. probe.generation = generation => probe.of = binding
    BY DEF Probed
  <2>3. /\ binding' = binding /\ generation' = generation /\ probes' \subseteq probes
        /\ health'.of = binding /\ (health'.available => binding # None)
    BY <1>3, <2>1, <2>2 DEF ProbeEnds, Probed
  <2>. QED
    BY <2>3 DEF Probed
<1>4. CASE FreshSelection
  BY <1>4 DEF FreshSelection, Probed, Unavailable
<1>5. CASE UNCHANGED selectionVars
  BY <1>5 DEF Probed, selectionVars
<1>6. CASE Next
  <2>1. ASSUME NEW id \in Ids, TaskStep(id)
        PROVE  UNCHANGED selectionVars
    BY <2>1 DEF TaskStep, GateGranted, StartRunning, ReadRequest, Ask, Answer, TimeOut, Cancelled,
                SaveFailure, ReportVolatile, Finish
  <2>2. ASSUME NEW id \in Ids, NEW request \in Requests,
               Submit(id, request) \/ SubmitUnsaved(id, request)
        PROVE  UNCHANGED selectionVars
    BY <2>2 DEF Submit, SubmitUnsaved
  <2>3. ASSUME NEW id \in Ids, Cancel(id) \/ Ack(id)
        PROVE  UNCHANGED selectionVars
    BY <2>3 DEF Cancel, Ack
  <2>4. ASSUME NEW probe \in probes, ProbeAcquires(probe)
        PROVE  UNCHANGED selectionVars
    BY <2>4 DEF ProbeAcquires
  <2>5. CASE Open \/ OpenDisabled \/ CloseSession \/ Crash
    BY <1>4, <2>5 DEF Open, OpenDisabled, CloseSession, Crash
  <2>6. CASE Stop \/ LeaseReleased \/ AsrAcquires \/ AsrReleases \/ ChangeSettings
    BY <1>5, <2>6 DEF Stop, LeaseReleased, AsrAcquires, AsrReleases, ChangeSettings
  <2>. QED
    BY <1>1, <1>2, <1>3, <1>5, <1>6, <2>1, <2>2, <2>3, <2>4, <2>5, <2>6 DEF Next
<1>. QED
  BY <1>5, <1>6 DEF vars

ServedInv == IInv /\ Probed /\ \A id \in Ids : Tracked(id)

\* What each job and each probe is tracked by stays so.
THEOREM Serviced == Spec => []ServedInv
<1>1. Init => ServedInv
  <2>1. Init => Probed
    BY DEF Init, Probed, Unavailable
  <2>2. Init => \A id \in Ids : Tracked(id)
    BY DEF Init, Tracked, Nothing, Absent, Pending, BeforeAsking
  <2>. QED
    BY <2>1, <2>2, TypeInit, DurableInit DEF ServedInv, IInv
<1>2. ServedInv /\ IInv' /\ [Next]_vars => ServedInv'
  <2>. SUFFICES ASSUME ServedInv, IInv', [Next]_vars
                PROVE  ServedInv'
    OBVIOUS
  <2>1. Probed' /\ TypeOK
    BY ProbedStep DEF ServedInv, IInv
  <2>2. ASSUME NEW job \in Ids
        PROVE  Tracked(job)'
    <3>1. Tracked(job) /\ Durable(job) /\ Probed
      BY <2>2 DEF ServedInv, IInv
    <3>2. CASE Next
      <4>1. ASSUME NEW id \in Ids, TaskStep(id)
            PROVE  Tracked(job)'
        <5>1. CASE job = id
          BY <2>1, <3>1, <4>1, <5>1, TrackedTask
        <5>2. CASE job # id
          <6>1. SameJob(job)
            BY <2>1, <4>1, <5>2, OtherTask
          <6>2. session' = session /\ binding' = binding
            BY <4>1 DEF TaskStep, GateGranted, StartRunning, ReadRequest, Ask, Answer, TimeOut, Cancelled,
                        SaveFailure, ReportVolatile, Finish, sessionVars, selectionVars
          <6>. QED
            BY <3>1, <6>1, <6>2, SameJobTracked
        <5>. QED
          BY <5>1, <5>2
      <4>. QED
        BY <2>1, <3>1, <3>2, <4>1, TrackedSubmit, TrackedChange, TrackedSelection, TrackedSession DEF Next
    <3>3. CASE UNCHANGED vars
      <4>1. SameJob(job) /\ session' = session /\ binding' = binding
        BY <3>3 DEF vars, jobVars, taskVars, observedVars, sessionVars, selectionVars, SameJob
      <4>. QED
        BY <3>1, <4>1, SameJobTracked
    <3>. QED
      BY <3>2, <3>3
  <2>. QED
    BY <2>1, <2>2 DEF ServedInv
<1>. QED
  BY <1>1, <1>2, Durability, PTL DEF Spec

\* Every accepted job is asked for at most once, by its own provider, and is
\* never left pending without a task.
THEOREM ServedOnce == Spec => []EachJobIsServedOnce
<1>1. ServedInv => EachJobIsServedOnce
  BY DEF ServedInv, IInv, Tracked, Probed, EachJobIsServedOnce, AtMostOneInference, PendingHasATask,
         PendingBelongsToSelection, AvailableIsSelected
<1>. QED
  BY <1>1, Serviced, PTL

-----------------------------------------------------------------------------
(***************************************************************************)
(* The service implements the contract of AiLedger. What the mapping of a   *)
(* restart needs beside Durable is whose request each copy belongs to.      *)
(***************************************************************************)
WellOwned(record) ==
  IF record.status = "absent" THEN record.digest = None ELSE record.digest \in Requests

Owned(id) ==
  /\ WellOwned(mem[id]) /\ WellOwned(disk[id])
  /\ mem[id].status # "absent" => disk[id].status # "absent" /\ disk[id].digest = mem[id].digest
  /\ mem[id].status = "acknowledged" => disk[id].status = "acknowledged"

LEMMA OwnedStep ==
  ASSUME TypeOK, TypeOK', NEW id \in Ids, Durable(id), Owned(id), JobStep(id)
  PROVE  Owned(id)'
<1>. USE DEF Pending, Terminal, Final
<1>0. mem[id] \in Record /\ disk[id] \in Record
  BY DEF TypeOK
<1>1. CASE Untouched(id)
  BY <1>1 DEF Untouched, Owned, WellOwned
<1>2. CASE Recorded(id)
  BY <1>2 DEF Recorded, Writable, Continues, Owned, WellOwned
<1>3. CASE Unrecorded(id)
  BY <1>3 DEF Unrecorded, Unsettled, Writable, Continues, Owned, WellOwned
<1>4. CASE MadeVolatile(id)
  BY <1>4 DEF MadeVolatile, Owned, WellOwned
<1>5. CASE Acknowledged(id)
  <2>1. Tombstone(mem[id]).status = "acknowledged" /\ Tombstone(mem[id]).digest = mem[id].digest
    BY <1>0 DEF Tombstone, Record
  <2>. QED
    BY <1>5, <2>1 DEF Acknowledged, Owned, WellOwned
<1>6. Reloaded(disk[id]).digest = disk[id].digest
      /\ (Reloaded(disk[id]).status = "absent" <=> disk[id].status = "absent")
      /\ (Reloaded(disk[id]).status = "acknowledged" <=> disk[id].status = "acknowledged")
  BY <1>0 DEF Reloaded, WithStatus, Record
<1>7. CASE Loaded(id)
  BY <1>6, <1>7 DEF Loaded, Owned, WellOwned
<1>8. CASE LoadAbandoned(id)
  BY <1>6, <1>8 DEF LoadAbandoned, Owned, WellOwned
<1>9. CASE Dropped(id)
  BY <1>9 DEF Dropped, Absent, Owned, WellOwned
<1>. QED
  BY <1>1, <1>2, <1>3, <1>4, <1>5, <1>7, <1>8, <1>9 DEF JobStep

LedgerInv == ServedInv /\ \A id \in Ids : Owned(id)

LEMMA LedgerInvariance == Spec => []LedgerInv
<1>1. Init => \A id \in Ids : Owned(id)
  BY DEF Init, Nothing, Absent, Owned, WellOwned
<1>2. LedgerInv /\ ServedInv' /\ [Next]_vars => LedgerInv'
  <2>. SUFFICES ASSUME LedgerInv, ServedInv', [Next]_vars
                PROVE  LedgerInv'
    OBVIOUS
  <2>1. TypeOK /\ TypeOK'
    BY DEF LedgerInv, ServedInv, IInv
  <2>2. ASSUME NEW id \in Ids
        PROVE  Owned(id)'
    BY <2>1, <2>2, StepShape, OwnedStep DEF LedgerInv, ServedInv, IInv
  <2>. QED
    BY <2>2 DEF LedgerInv
<1>. QED
  BY <1>1, <1>2, Serviced, PTL DEF Spec, LedgerInv

Stage(id) == StageOf(View(id))
Owner(id) == View(id).digest

LEMMA StageCases ==
  \A record \in Record :
    /\ record.status = "absent" => StageOf(record) = "absent"
    /\ record.status \in Pending => StageOf(record) = "pending"
    /\ record.status \in Final => StageOf(record) = "settled"
    /\ record.status = "acknowledged" => StageOf(record) = "closed"
<1>. SUFFICES ASSUME NEW record \in Record
              PROVE  /\ record.status = "absent" => StageOf(record) = "absent"
                     /\ record.status \in Pending => StageOf(record) = "pending"
                     /\ record.status \in Final => StageOf(record) = "settled"
                     /\ record.status = "acknowledged" => StageOf(record) = "closed"
  OBVIOUS
<1>1. CASE record.status = "absent"
  BY <1>1 DEF StageOf, Pending, Final
<1>2. CASE record.status \in Pending
  BY <1>2 DEF StageOf, Pending, Final
<1>3. CASE record.status \in Final
  BY <1>3 DEF StageOf, Pending, Final
<1>4. CASE record.status = "acknowledged"
  BY <1>4 DEF StageOf, Pending, Final
<1>. QED
  BY <1>1, <1>2, <1>3, <1>4 DEF Record, Terminal

\* A step that changes neither what the jobs look like nor what was asked.
LEMMA LedgerStutters ==
  ASSUME \A id \in Ids : Stage(id)' = Stage(id) /\ Owner(id)' = Owner(id),
         inferences' = inferences
  PROVE  UNCHANGED Ledger!ledger
BY DEF Stage, Owner, Ledger!ledger

\* A step of a serving session in which the jobs of a set are settled.
LEMMA LedgerSettles ==
  ASSUME TypeOK, TypeOK', Serving, Serving', NEW jobs \in SUBSET Ids, inferences' = inferences,
         \A id \in jobs : /\ mem[id].status \in Pending /\ mem'[id].status \in Final
                          /\ mem'[id].digest = mem[id].digest,
         \A id \in Ids \ jobs : mem'[id] = mem[id]
  PROVE  Ledger!Settle(jobs)
<1>1. \A id \in Ids : mem[id] \in Record /\ mem'[id] \in Record
  BY DEF TypeOK
<1>2. \A id \in Ids : View(id) = mem[id] /\ View(id)' = mem'[id]
  BY DEF View
<1>3. \A id \in jobs : StageOf(View(id)) = "pending" /\ StageOf(View(id))' = "settled"
  <2>. SUFFICES ASSUME NEW id \in jobs
                PROVE  StageOf(mem[id]) = "pending" /\ StageOf(mem'[id]) = "settled"
    BY <1>2
  <2>. QED
    BY <1>1, StageCases
<1>4. \A id \in Ids \ jobs : View(id)' = View(id) /\ StageOf(View(id))' = StageOf(View(id))
  BY <1>2
<1>5. \A id \in Ids : View(id).digest = View(id)'.digest
  BY <1>2
<1>. QED
  BY <1>3, <1>4, <1>5 DEF Ledger!Settle

\* A step of a serving session that saves one pending job.
LEMMA LedgerSaves ==
  ASSUME TypeOK, TypeOK', Serving, Serving', NEW id \in Ids, inferences' = inferences,
         \A job \in Ids \ {id} : mem'[job] = mem[job],
         \/ mem'[id] = mem[id]
         \/ /\ mem[id].status \in Pending /\ mem'[id].status \in Pending \cup Final
            /\ mem'[id].digest = mem[id].digest
  PROVE  Ledger!Next \/ UNCHANGED Ledger!ledger
<1>1. \A job \in Ids : View(job) = mem[job] /\ View(job)' = mem'[job]
  BY DEF View
<1>2. mem[id] \in Record /\ mem'[id] \in Record
  BY DEF TypeOK
<1>3. CASE mem'[id] = mem[id]
  <2>1. \A job \in Ids : Stage(job)' = Stage(job) /\ Owner(job)' = Owner(job)
    BY <1>1, <1>3 DEF Stage, Owner
  <2>. QED
    BY <2>1, LedgerStutters
<1>4. CASE /\ mem[id].status \in Pending /\ mem'[id].status \in Pending
           /\ mem'[id].digest = mem[id].digest
  <2>1. StageOf(mem[id]) = "pending" /\ StageOf(mem'[id]) = "pending"
    BY <1>2, <1>4, StageCases
  <2>2. Stage(id)' = StageOf(mem'[id]) /\ Stage(id) = StageOf(mem[id])
    BY <1>1 DEF Stage
  <2>3. \A job \in Ids \ {id} : Stage(job)' = Stage(job) /\ Owner(job)' = Owner(job)
    BY <1>1 DEF Stage, Owner
  <2>4. Owner(id)' = Owner(id)
    BY <1>1, <1>4 DEF Owner
  <2>5. \A job \in Ids : Stage(job)' = Stage(job) /\ Owner(job)' = Owner(job)
    BY <2>1, <2>2, <2>3, <2>4
  <2>. QED
    BY <2>5, LedgerStutters
<1>5. CASE /\ mem[id].status \in Pending /\ mem'[id].status \in Final
           /\ mem'[id].digest = mem[id].digest
  <2>1. Ledger!Settle({id})
    BY <1>5, LedgerSettles
  <2>. QED
    BY <2>1 DEF Ledger!Next
<1>. QED
  BY <1>3, <1>4, <1>5

LEMMA LedgerTask ==
  ASSUME LedgerInv, TypeOK', NEW id \in Ids, TaskStep(id)
  PROVE  Ledger!Next \/ UNCHANGED Ledger!ledger
<1>. USE DEF Pending, Final
<1>0. TypeOK /\ Tracked(id) /\ mem[id] \in Record
  BY DEF LedgerInv, ServedInv, IInv, TypeOK
<1>1. Serving /\ Serving'
  <2>1. task[id] # "none" /\ session' = session
    BY DEF TaskStep, GateGranted, StartRunning, ReadRequest, Ask, Answer, TimeOut, Cancelled,
           SaveFailure, ReportVolatile, Finish, Working, sessionVars
  <2>. QED
    BY <1>0, <2>1 DEF Tracked, Serving
<1>2. \A job \in Ids \ {id} : mem'[job] = mem[job]
  BY <1>0, OtherTask DEF SameJob
<1>3. CASE Ask(id)
  <2>1. \A job \in Ids : View(job)' = View(job)
    BY <1>1, <1>3 DEF Ask, View, jobVars
  <2>2. CASE inferences' = inferences
    <3>1. \A job \in Ids : Stage(job)' = Stage(job) /\ Owner(job)' = Owner(job)
      BY <2>1 DEF Stage, Owner
    <3>. QED
      BY <2>2, <3>1, LedgerStutters
  <2>3. CASE inferences' = [inferences EXCEPT ![id] = @ + 1]
    <3>1. inferences[id] = 0 /\ View(id) = mem[id] /\ mem[id].status # "absent"
      BY <1>0, <1>1, <1>3 DEF Ask, Tracked, BeforeAsking, View
    <3>2. StageOf(View(id)) # "absent"
      BY <1>0, <3>1, StageCases DEF Record, Terminal
    <3>3. {job \in Ids : inferences[job] > 0}' = {job \in Ids : inferences[job] > 0} \cup {id}
      <4>1. inferences'[id] = 1 /\ \A job \in Ids \ {id} : inferences'[job] = inferences[job]
        BY <1>0, <2>3, <3>1 DEF TypeOK
      <4>. QED
        BY <4>1
    <3>4. /\ [job \in Ids |-> StageOf(View(job))]' = [job \in Ids |-> StageOf(View(job))]
          /\ [job \in Ids |-> View(job).digest]' = [job \in Ids |-> View(job).digest]
      BY <2>1
    <3>5. Ledger!Infer(id)
      BY <3>1, <3>2, <3>3, <3>4 DEF Ledger!Infer
    <3>. QED
      BY <3>5 DEF Ledger!Next
  <2>. QED
    BY <1>3, <2>2, <2>3 DEF Ask
<1>4. CASE ~Ask(id)
  <2>1. inferences' = inferences
    BY <1>4 DEF TaskStep, GateGranted, StartRunning, ReadRequest, Answer, TimeOut, Cancelled,
                SaveFailure, ReportVolatile, Finish, observedVars
  <2>2. \/ mem'[id] = mem[id]
        \/ /\ mem[id].status \in Pending /\ mem'[id].status \in Pending \cup Final
           /\ mem'[id].digest = mem[id].digest
    <3>1. \A status \in Pending \cup Final :
            WithStatus(mem[id], status).status = status /\ WithStatus(mem[id], status).digest = mem[id].digest
      BY <1>0 DEF WithStatus, Record
    <3>2. Completed(mem[id]).status = "completed" /\ Completed(mem[id]).digest = mem[id].digest
      BY <1>0 DEF Completed, Record
    <3>3. CASE GateGranted(id) \/ ReadRequest(id) \/ TimeOut(id) \/ Finish(id)
      BY <3>3 DEF GateGranted, ReadRequest, TimeOut, Finish, jobVars
    <3>4. CASE StartRunning(id)
      BY <1>0, <3>1, <3>4 DEF StartRunning, SaveAndInsert, SaveFails, jobVars, TypeOK
    <3>5. CASE Answer(id)
      BY <1>0, <3>2, <3>5 DEF Answer, SaveAndInsert, SaveFails, jobVars, TypeOK
    <3>6. CASE Cancelled(id)
      BY <1>0, <3>1, <3>6 DEF Cancelled, SaveAndInsert, SaveFails, jobVars, TypeOK
    <3>7. CASE SaveFailure(id)
      BY <1>0, <3>1, <3>7 DEF SaveFailure, SaveAndInsert, SaveFails, jobVars, TypeOK
    <3>8. CASE ReportVolatile(id)
      BY <1>0, <3>8 DEF ReportVolatile, TypeOK, Record
    <3>. QED
      BY <1>4, <3>3, <3>4, <3>5, <3>6, <3>7, <3>8 DEF TaskStep
  <2>. QED
    BY <1>0, <1>1, <1>2, <2>1, <2>2, LedgerSaves
<1>. QED
  BY <1>3, <1>4

LEMMA LedgerSubmit ==
  ASSUME LedgerInv, TypeOK', NEW id \in Ids, NEW request \in Requests,
         Submit(id, request) \/ SubmitUnsaved(id, request)
  PROVE  Ledger!Next \/ UNCHANGED Ledger!ledger
<1>0. TypeOK /\ Serving /\ Serving' /\ inferences' = inferences
  BY DEF LedgerInv, ServedInv, IInv, Submit, SubmitUnsaved, Admissible, Serving, sessionVars, observedVars
<1>1. \A job \in Ids : View(job) = mem[job] /\ View(job)' = mem'[job]
  BY <1>0 DEF View
<1>2. CASE Submit(id, request)
  <2>1. /\ mem[id].status = "absent" /\ mem[id] \in Record
        /\ mem'[id] = Queued(request) /\ \A job \in Ids \ {id} : mem'[job] = mem[job]
    BY <1>0, <1>2 DEF Submit, Admissible, SaveAndInsert, TypeOK
  <2>2. /\ Queued(request) \in Record /\ Queued(request).digest = request
        /\ Queued(request).status = "queued"
    BY RecordTypes DEF Queued
  <2>3. StageOf(View(id)) = "absent" /\ StageOf(View(id))' = "pending"
    <3>1. StageOf(mem[id]) = "absent" /\ StageOf(Queued(request)) = "pending"
      BY <2>1, <2>2, StageCases DEF Pending
    <3>2. View(id) = mem[id] /\ View(id)' = Queued(request)
      BY <1>1, <2>1
    <3>. QED
      BY <3>1, <3>2
  <2>4. \A job \in Ids \ {id} : View(job)' = View(job) /\ StageOf(View(job))' = StageOf(View(job))
    BY <1>1, <2>1
  <2>5. View(id)'.digest = request
    BY <1>1, <2>1, <2>2
  <2>6. Ledger!Admit(id, request)
    BY <1>0, <2>3, <2>4, <2>5 DEF Ledger!Admit
  <2>. QED
    BY <2>6 DEF Ledger!Next
<1>3. CASE SubmitUnsaved(id, request)
  <2>1. \A job \in Ids : Stage(job)' = Stage(job) /\ Owner(job)' = Owner(job)
    BY <1>1, <1>3 DEF SubmitUnsaved, SaveFails, Stage, Owner
  <2>. QED
    BY <1>0, <2>1, LedgerStutters
<1>. QED
  BY <1>2, <1>3

LEMMA LedgerChange ==
  ASSUME LedgerInv, TypeOK', NEW id \in Ids, Cancel(id) \/ Ack(id)
  PROVE  Ledger!Next \/ UNCHANGED Ledger!ledger
<1>0. TypeOK /\ Serving /\ Serving' /\ inferences' = inferences /\ mem[id] \in Record
  BY DEF LedgerInv, ServedInv, IInv, TypeOK, Cancel, Ack, Serving, sessionVars, observedVars
<1>1. \A job \in Ids : View(job) = mem[job] /\ View(job)' = mem'[job]
  BY <1>0 DEF View
<1>2. \A job \in Ids \ {id} : mem'[job] = mem[job]
  BY <1>0 DEF Cancel, Ack, SaveAndInsert, SaveFails, TypeOK
<1>3. CASE Cancel(id)
  <2>1. /\ WithStatus(mem[id], "cancelled").status = "cancelled"
        /\ WithStatus(mem[id], "cancelled").digest = mem[id].digest
    BY <1>0 DEF WithStatus, Record
  <2>2. \/ mem'[id] = mem[id]
        \/ /\ mem[id].status \in Pending /\ mem'[id].status \in Pending \cup Final
           /\ mem'[id].digest = mem[id].digest
    BY <1>0, <1>3, <2>1 DEF Cancel, SaveAndInsert, SaveFails, TypeOK, Final
  <2>. QED
    BY <1>0, <1>2, <2>2, LedgerSaves
<1>4. CASE Ack(id) /\ mem' = mem
  <2>1. \A job \in Ids : Stage(job)' = Stage(job) /\ Owner(job)' = Owner(job)
    BY <1>1, <1>4 DEF Stage, Owner
  <2>. QED
    BY <1>0, <2>1, LedgerStutters
<1>5. CASE Ack(id) /\ mem' # mem
  <2>1. mem[id].status \in Final /\ mem'[id] = Tombstone(mem[id])
    BY <1>0, <1>5 DEF Ack, SaveAndInsert, SaveFails, TypeOK
  <2>2. /\ Tombstone(mem[id]).status = "acknowledged" /\ Tombstone(mem[id]) \in Record
        /\ Tombstone(mem[id]).digest = mem[id].digest
    BY <1>0, RecordTypes DEF Tombstone, Record
  <2>3. StageOf(View(id)) = "settled" /\ StageOf(View(id))' = "closed"
    <3>1. StageOf(mem[id]) = "settled" /\ StageOf(Tombstone(mem[id])) = "closed"
      BY <1>0, <2>1, <2>2, StageCases
    <3>2. View(id) = mem[id] /\ View(id)' = Tombstone(mem[id])
      BY <1>1, <2>1
    <3>. QED
      BY <3>1, <3>2
  <2>4. \A job \in Ids \ {id} : View(job)' = View(job) /\ StageOf(View(job))' = StageOf(View(job))
    BY <1>1, <1>2
  <2>5. \A job \in Ids : View(job)'.digest = View(job).digest
    BY <1>1, <1>2, <2>1, <2>2
  <2>6. Ledger!Close(id)
    BY <1>0, <2>3, <2>4, <2>5 DEF Ledger!Close
  <2>. QED
    BY <2>6 DEF Ledger!Next
<1>. QED
  BY <1>3, <1>4, <1>5

LEMMA LedgerSelection ==
  ASSUME LedgerInv, TypeOK',
         \/ \E choice \in Bindings \cup {None} : Select(choice)
         \/ \E done \in SUBSET UnderWay : \E bad \in UnderWay \ done : SelectInterrupted(done, bad)
         \/ \E probe \in probes : ProbeAcquires(probe) \/ ProbeEnds(probe)
  PROVE  Ledger!Next \/ UNCHANGED Ledger!ledger
<1>0. TypeOK /\ inferences' = inferences /\ session' = session /\ UnderWay \subseteq Ids
  BY DEF LedgerInv, ServedInv, IInv, TypeOK, UnderWay, Select, SelectInterrupted, ProbeAcquires, ProbeEnds,
         sessionVars, observedVars
<1>1. ASSUME NEW jobs \in SUBSET UnderWay, Serving, mem' = CancelAll(jobs)
      PROVE  Ledger!Next \/ UNCHANGED Ledger!ledger
  <2>1. \A id \in Ids : mem[id] \in Record
    BY <1>0 DEF TypeOK
  <2>2. \A id \in jobs : mem[id].status \in Pending
    BY DEF UnderWay
  <2>3. \A id \in jobs : mem'[id].status = "cancelled" /\ mem'[id].digest = mem[id].digest
    BY <1>0, <1>1, <2>1 DEF CancelAll, WithStatus, Record
  <2>4. \A id \in Ids \ jobs : mem'[id] = mem[id]
    BY <1>1 DEF CancelAll
  <2>5. jobs \in SUBSET Ids /\ Serving' /\ "cancelled" \in Final
    BY <1>0, <1>1 DEF Serving, Final
  <2>6. Ledger!Settle(jobs)
    BY <1>0, <1>1, <2>2, <2>3, <2>4, <2>5, LedgerSettles
  <2>. QED
    BY <2>5, <2>6 DEF Ledger!Next
<1>2. ASSUME NEW choice \in Bindings \cup {None}, Select(choice)
      PROVE  Ledger!Next \/ UNCHANGED Ledger!ledger
  BY <1>1, <1>2 DEF Select, Selectable
<1>3. ASSUME NEW done \in SUBSET UnderWay, NEW bad \in UnderWay \ done, SelectInterrupted(done, bad)
      PROVE  Ledger!Next \/ UNCHANGED Ledger!ledger
  BY <1>1, <1>3 DEF SelectInterrupted, Selectable
<1>4. CASE UNCHANGED <<mem, disk>>
  <2>1. \A id \in Ids : Stage(id)' = Stage(id) /\ Owner(id)' = Owner(id)
    BY <1>0, <1>4 DEF Stage, Owner, View, Serving
  <2>. QED
    BY <1>0, <2>1, LedgerStutters
<1>. QED
  BY <1>2, <1>3, <1>4 DEF ProbeAcquires, ProbeEnds, jobVars

\* What becomes of a job when the process or the session is gone: the file
\* tells a restart the same story, or that of a request that was answered
\* with a storage error.
LEMMA LedgerRestarts ==
  ASSUME LedgerInv, LedgerInv', Serving, ~Serving', disk' = disk, inferences' = inferences
  PROVE  Ledger!Restart
<1>. USE DEF Pending, Terminal, Final
<1>1. ASSUME NEW id \in Ids
      PROVE  /\ Stage(id)' \in {"absent", "pending", "settled", "closed"}
             /\ Owner(id)' \in Requests \cup {None}
             /\ \/ Stage(id) = "absent" /\ Stage(id)' = "absent" /\ Owner(id)' = None
                \/ Stage(id) = "absent" /\ Stage(id)' = "settled" /\ Owner(id)' \in Requests
                \/ Stage(id) = "pending" /\ Stage(id)' = "settled" /\ Owner(id)' = Owner(id)
                \/ Stage(id) = "settled" /\ Stage(id)' \in {"settled", "closed"} /\ Owner(id)' = Owner(id)
                \/ Stage(id) = "closed" /\ Stage(id)' = "closed" /\ Owner(id)' = Owner(id)
  <2>1. mem[id] \in Record /\ disk[id] \in Record /\ Durable(id) /\ Owned(id)
    BY DEF LedgerInv, ServedInv, IInv, TypeOK
  <2>2. View(id) = mem[id] /\ View(id)' = Reloaded(disk[id])
    BY DEF View
  <2>3. Reloaded(disk[id]) \in Record /\ Reloaded(disk[id]).digest = disk[id].digest
        /\ Reloaded(disk[id]).status \notin Pending
        /\ (Reloaded(disk[id]).status = "absent" <=> disk[id].status = "absent")
        /\ (Reloaded(disk[id]).status = "acknowledged" <=> disk[id].status = "acknowledged")
    BY <2>1, RecordTypes DEF Reloaded, WithStatus, Record
  <2>4. Owner(id) = mem[id].digest /\ Owner(id)' = disk[id].digest
    BY <2>2, <2>3 DEF Owner
  <2>5. Stage(id) = StageOf(mem[id]) /\ Stage(id)' = StageOf(Reloaded(disk[id]))
    BY <2>2 DEF Stage
  <2>6. /\ disk[id].status = "absent" => Stage(id)' = "absent"
        /\ disk[id].status = "acknowledged" => Stage(id)' = "closed"
        /\ disk[id].status \notin {"absent", "acknowledged"} => Stage(id)' = "settled"
    <3>1. Reloaded(disk[id]).status \in {"absent", "acknowledged"} \cup Final
      BY <2>3 DEF Record
    <3>. QED
      BY <2>3, <2>5, <3>1, StageCases
  <2>7. /\ disk[id].status = "absent" => disk[id].digest = None
        /\ disk[id].status # "absent" => disk[id].digest \in Requests
        /\ mem[id].status # "absent" => disk[id].status # "absent" /\ disk[id].digest = mem[id].digest
        /\ mem[id].status = "acknowledged" => disk[id].status = "acknowledged"
        /\ disk[id].status = "acknowledged" => mem[id].status \in Terminal
    BY <2>1 DEF Owned, WellOwned, Durable
  <2>8. CASE mem[id].status = "absent"
    <3>1. Stage(id) = "absent"
      BY <2>1, <2>5, <2>8, StageCases
    <3>. QED
      BY <2>4, <2>6, <2>7, <2>8, <3>1
  <2>9. CASE mem[id].status \in Pending
    <3>1. Stage(id) = "pending"
      BY <2>1, <2>5, <2>9, StageCases
    <3>. QED
      BY <2>4, <2>6, <2>7, <2>9, <3>1
  <2>10. CASE mem[id].status \in Final
    <3>1. Stage(id) = "settled"
      BY <2>1, <2>5, <2>10, StageCases
    <3>. QED
      BY <2>4, <2>6, <2>7, <2>10, <3>1
  <2>11. CASE mem[id].status = "acknowledged"
    <3>1. Stage(id) = "closed"
      BY <2>1, <2>5, <2>11, StageCases
    <3>. QED
      BY <2>4, <2>6, <2>7, <2>11, <3>1
  <2>. QED
    BY <2>1, <2>8, <2>9, <2>10, <2>11 DEF Record
<1>2. /\ [id \in Ids |-> StageOf(View(id))]' \in [Ids -> Ledger!Stages]
      /\ [id \in Ids |-> View(id).digest]' \in [Ids -> Requests \cup {None}]
  BY <1>1 DEF Ledger!Stages, Stage, Owner
<1>3. \A id \in Ids : Ledger!Recovered(id)
  BY <1>1 DEF Ledger!Recovered, Stage, Owner
<1>. QED
  BY <1>2, <1>3 DEF Ledger!Restart

LEMMA LedgerSession ==
  ASSUME LedgerInv, LedgerInv',
         \/ Open \/ OpenDisabled \/ Stop \/ CloseSession \/ LeaseReleased \/ Crash
         \/ AsrAcquires \/ AsrReleases \/ ChangeSettings
  PROVE  Ledger!Next \/ UNCHANGED Ledger!ledger
<1>0. inferences' = inferences
  BY DEF Open, OpenDisabled, Stop, CloseSession, LeaseReleased, Crash, AsrAcquires, AsrReleases, ChangeSettings,
         observedVars
<1>1. CASE (CloseSession \/ Crash) /\ Serving
  <2>1. disk' = disk /\ ~Serving'
    BY <1>1 DEF CloseSession, Crash, Serving
  <2>. QED
    BY <1>0, <1>1, <2>1, LedgerRestarts DEF Ledger!Next
<1>2. CASE ~((CloseSession \/ Crash) /\ Serving)
  <2>1. ASSUME NEW id \in Ids
        PROVE  View(id)' = View(id)
    <3>0. disk[id] \in Record
      BY DEF LedgerInv, ServedInv, IInv, TypeOK
    <3>1. Reloaded(Reloaded(disk[id])) = Reloaded(disk[id])
      BY <3>0, RecordTypes, ReloadedFacts
    <3>2. CASE Open
      BY <3>1, <3>2 DEF Open, CanOpen, View, Serving, ReloadedFiles
    <3>3. CASE OpenDisabled
      BY <3>1, <3>3 DEF OpenDisabled, CanOpen, View, Serving, ReloadedFiles
    <3>4. CASE CloseSession \/ Crash
      BY <1>2, <3>4 DEF CloseSession, Crash, View, Serving
    <3>5. CASE Stop \/ LeaseReleased \/ AsrAcquires \/ AsrReleases \/ ChangeSettings
      BY <3>5 DEF Stop, LeaseReleased, AsrAcquires, AsrReleases, ChangeSettings, View, Serving, jobVars, sessionVars
    <3>. QED
      BY <3>2, <3>3, <3>4, <3>5
  <2>2. \A id \in Ids : Stage(id)' = Stage(id) /\ Owner(id)' = Owner(id)
    BY <2>1 DEF Stage, Owner
  <2>. QED
    BY <1>0, <2>2, LedgerStutters
<1>. QED
  BY <1>1, <1>2

LEMMA LedgerInit == Init => Ledger!Init
<1>. SUFFICES ASSUME Init
              PROVE  Ledger!Init
  OBVIOUS
<1>1. \A id \in Ids : View(id) = Absent
  BY DEF Init, View, Serving, Nothing, Reloaded, Absent, Pending
<1>2. StageOf(Absent) = "absent" /\ Absent.digest = None
  BY RecordTypes, StageCases DEF Absent
<1>3. {id \in Ids : inferences[id] > 0} = {}
  BY DEF Init
<1>. QED
  BY <1>1, <1>2, <1>3 DEF Ledger!Init

\* The service implements the contract: whatever fails, crashes or restarts,
\* the phone sees the steps of AiLedger and no others.
THEOREM LedgerRefinement == Spec => LedgerSpec
<1>1. LedgerInv /\ LedgerInv' /\ [Next]_vars => [Ledger!Next]_(Ledger!ledger)
  <2>. SUFFICES ASSUME LedgerInv, LedgerInv', [Next]_vars
                PROVE  Ledger!Next \/ UNCHANGED Ledger!ledger
    OBVIOUS
  <2>1. TypeOK'
    BY DEF LedgerInv, ServedInv, IInv
  <2>2. CASE Next
    BY <2>1, <2>2, LedgerTask, LedgerSubmit, LedgerChange, LedgerSelection, LedgerSession DEF Next
  <2>3. CASE UNCHANGED vars
    <3>1. \A id \in Ids : Stage(id)' = Stage(id) /\ Owner(id)' = Owner(id)
      BY <2>3 DEF vars, jobVars, sessionVars, Stage, Owner, View, Serving
    <3>. QED
      BY <2>3, <3>1, LedgerStutters DEF vars, observedVars
  <2>. QED
    BY <2>2, <2>3
<1>. QED
  BY <1>1, LedgerInit, LedgerInvariance, PTL DEF Spec, LedgerSpec, Ledger!Spec

=============================================================================
