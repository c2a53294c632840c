------------------------------ MODULE AiLedger ------------------------------
(***************************************************************************)
(* What the companion AI contract promises the phone about the job it      *)
(* stored under a UUID (docs/companion-ai-v1.md, "State, recovery and      *)
(* acknowledgement"), without memory, disk, tasks or locks:                *)
(*                                                                         *)
(*   - a UUID belongs to one request for ever;                             *)
(*   - a job only moves forward: absent, pending, settled, closed;         *)
(*   - only an acknowledgement closes a job, and a closed job stays closed;*)
(*   - a job is inferred at most once, whatever is replayed or restarted.  *)
(*                                                                         *)
(* The one thing a restart may add is the effect of a request whose answer *)
(* was a storage error: it may turn out to have been recorded after all.   *)
(***************************************************************************)
CONSTANTS
  Ids,      \* job UUIDs
  Requests, \* request digests
  None      \* the digest of an absent job

VARIABLES
  stage,    \* how far each job is
  owner,    \* the request each UUID belongs to
  inferred  \* the jobs whose inference was started

ledger == <<stage, owner, inferred>>

Stages == {"absent", "pending", "settled", "closed"}

TypeOK ==
  /\ stage \in [Ids -> Stages]
  /\ owner \in [Ids -> Requests \cup {None}]
  /\ inferred \subseteq Ids

Init ==
  /\ stage = [id \in Ids |-> "absent"]
  /\ owner = [id \in Ids |-> None]
  /\ inferred = {}

\* A new UUID is admitted for a request.
Admit(id, request) ==
  /\ stage[id] = "absent"
  /\ stage' = [stage EXCEPT ![id] = "pending"]
  /\ owner' = [owner EXCEPT ![id] = request]
  /\ UNCHANGED inferred

\* The one inference of an admitted job is started.
Infer(id) ==
  /\ stage[id] # "absent"
  /\ id \notin inferred
  /\ inferred' = inferred \cup {id}
  /\ UNCHANGED <<stage, owner>>

\* Pending jobs reach an outcome: one of its own, or several at once when
\* the owner deselects the provider.
Settle(jobs) ==
  /\ \A id \in jobs : stage[id] = "pending"
  /\ stage' = [id \in Ids |-> IF id \in jobs THEN "settled" ELSE stage[id]]
  /\ UNCHANGED <<owner, inferred>>

\* The phone acknowledges an outcome.
Close(id) ==
  /\ stage[id] = "settled"
  /\ stage' = [stage EXCEPT ![id] = "closed"]
  /\ UNCHANGED <<owner, inferred>>

\* How one job may look after a restart.
Recovered(id) ==
  \/ stage[id] = "absent" /\ stage'[id] = "absent" /\ owner'[id] = None
  \/ stage[id] = "absent" /\ stage'[id] = "settled" /\ owner'[id] \in Requests
  \/ stage[id] = "pending" /\ stage'[id] = "settled" /\ owner'[id] = owner[id]
  \/ stage[id] = "settled" /\ stage'[id] \in {"settled", "closed"} /\ owner'[id] = owner[id]
  \/ stage[id] = "closed" /\ stage'[id] = "closed" /\ owner'[id] = owner[id]

\* The desktop restarts: nothing pending is resumed, nothing is forgotten.
Restart ==
  /\ stage' \in [Ids -> Stages]
  /\ owner' \in [Ids -> Requests \cup {None}]
  /\ \A id \in Ids : Recovered(id)
  /\ UNCHANGED inferred

Next ==
  \/ \E id \in Ids, request \in Requests : Admit(id, request)
  \/ \E id \in Ids : Infer(id)
  \/ \E jobs \in SUBSET Ids : Settle(jobs)
  \/ \E id \in Ids : Close(id)
  \/ Restart

Spec == Init /\ [][Next]_ledger

=============================================================================
