----------------------- MODULE FileTranscriptionProofs -----------------------
(***************************************************************************)
(* What holds of run_file_transcription for every set of jobs and requests, *)
(* every duration and every number of enhancers.                            *)
(*                                                                         *)
(* The invariant relates, for one job, the record of its run, the blocking  *)
(* task of its save and what the archive holds (Agrees). The functions that *)
(* compute the next record from the last (Update, Ended, ToAi, ...) are     *)
(* described by one lemma each; the steps then need only these.             *)
(*                                                                         *)
(* Both kinds of jobs that run it, those of the desktop and those of the    *)
(* companion server, queue at the heavy-work gate. The lemmas at the end    *)
(* are what their proofs share about it, for any set of clients: the queue  *)
(* never has a client twice, and never the one that holds the permit.       *)
(***************************************************************************)
EXTENDS FileTranscription, Gate, SequenceTheorems, TLAPS

\* The run r, its save and its artifact agree.
Agrees(r, save, artifact) ==
  /\ r.at = "done" <=> r.result # "none"
  /\ save # "none" => r.at \in {"save", "done"}
  /\ r.at = "save" => save # "none"
  /\ save # "ok" => artifact = NoArtifact
  /\ save = "ok" => artifact = [speakers |-> r.speakers, optimized |-> r.optimized]
  /\ save = "running" /\ r.at = "done" => r.result = "cancelled"
  /\ r.result = "ok" => save = "ok"
  /\ r.result = "failed" => save \in {"none", "failed"}
  /\ r.overall = 100 => r.result = "ok"

PipelineInv ==
  /\ PipelineTypeOK
  /\ \A j \in Jobs : Agrees(run[j], saving[j], archive[j])

\* What every part of the function that emits progress does to the record.
Advances(r, u) ==
  /\ u \in Run
  /\ u.result = r.result
  /\ u.overall >= r.overall
  /\ u.overall = 100 => r.overall = 100

\* What a step does, the two action properties included.
GoodStep ==
  /\ PipelineInv'
  /\ \A j \in Jobs : run'[j].overall >= run[j].overall
  /\ \A j \in Jobs :
       run[j].at \in {"diarize", "ai", "persist", "save"} /\ run'[j].result = "failed"
         => saving[j] = "failed"

-----------------------------------------------------------------------------
LEMMA MaxOfTwo ==
  ASSUME NEW a \in Nat, NEW b \in Nat
  PROVE  Max({a, b}) = IF a >= b THEN a ELSE b
<1>1. CASE a >= b
  <2>1. a \in {a, b} /\ \A y \in {a, b} : a >= y
    BY <1>1
  <2>2. \A x \in {a, b} : (\A y \in {a, b} : x >= y) => x = a
    BY <1>1
  <2> QED BY <1>1, <2>1, <2>2 DEF Max
<1>2. CASE ~ (a >= b)
  <2>1. b \in {a, b} /\ \A y \in {a, b} : b >= y
    BY <1>2
  <2>2. \A x \in {a, b} : (\A y \in {a, b} : x >= y) => x = b
    BY <1>2
  <2> QED BY <1>2, <2>1, <2>2 DEF Max
<1> QED BY <1>1, <1>2

LEMMA MinOfTwo ==
  ASSUME NEW a \in Nat, NEW b \in Nat
  PROVE  Min({a, b}) = IF a <= b THEN a ELSE b
<1>1. CASE a <= b
  <2>1. a \in {a, b} /\ \A y \in {a, b} : a <= y
    BY <1>1
  <2>2. \A x \in {a, b} : (\A y \in {a, b} : x <= y) => x = a
    BY <1>1
  <2> QED BY <1>1, <2>1, <2>2 DEF Min
<1>2. CASE ~ (a <= b)
  <2>1. b \in {a, b} /\ \A y \in {a, b} : b <= y
    BY <1>2
  <2>2. \A x \in {a, b} : (\A y \in {a, b} : x <= y) => x = b
    BY <1>2
  <2> QED BY <1>2, <2>1, <2>2 DEF Min
<1> QED BY <1>1, <1>2

LEMMA OverallAtIsNat ==
  ASSUME NEW seconds \in Nat
  PROVE  OverallAt(seconds) \in Nat
<1> DEFINE shown == Min({seconds, Total})
<1>1. Total \in Nat /\ Total > 0
  BY TotalAssumption
<1>2. shown \in Nat
  BY <1>1, MinOfTwo
<1> HIDE DEF shown
<1>3. (80 * shown) \div Total \in Nat
  BY <1>1, <1>2
<1> QED BY <1>3 DEF OverallAt, shown

\* ProgressSnapshot::update: the percentage never falls, and only the event
\* of completion reaches 100.
LEMMA UpdateFacts ==
  ASSUME NEW r \in Run, NEW stage \in Stages, NEW percent \in Nat, NEW seconds \in Nat
  PROVE  LET u == Update(r, stage, percent, seconds) IN
           /\ u \in Run
           /\ u.at = r.at /\ u.result = r.result
           /\ u.speakers = r.speakers /\ u.optimized = r.optimized
           /\ u.overall >= r.overall
           /\ stage # "completed" => Advances(r, u)
<1> DEFINE later == Max({r.seconds, seconds})
           capped == Min({percent, 99})
           higher == Max({r.overall, capped})
<1>1. r.seconds \in Nat /\ r.overall \in 0..100
  BY DEF Run
<1>2. later \in Nat
  BY <1>1, MaxOfTwo
<1>3. capped \in 0..99
  <2>1. capped = IF percent <= 99 THEN percent ELSE 99
    BY MinOfTwo, 99 \in Nat
  <2> QED BY <2>1
<1> HIDE DEF capped
<1>4. /\ higher \in 0..100
      /\ higher >= r.overall
      /\ higher = 100 => r.overall = 100
  <2>1. r.overall \in Nat /\ capped \in Nat
    BY <1>1, <1>3
  <2>2. higher = IF r.overall >= capped THEN r.overall ELSE capped
    BY <2>1, MaxOfTwo
  <2> QED BY <1>1, <1>3, <2>2
<1> HIDE DEF later, higher
<1> DEFINE overall == CASE stage = "completed" -> 100
                        [] stage \in {"cancelled", "failed"} -> r.overall
                        [] OTHER -> higher
<1>5. /\ overall \in 0..100
      /\ overall >= r.overall
      /\ stage # "completed" => (overall = 100 => r.overall = 100)
  BY <1>1, <1>4
<1>6. Update(r, stage, percent, seconds)
        = [r EXCEPT !.stage = stage, !.seconds = later, !.overall = overall]
  BY DEF Update, later, capped, higher
<1> HIDE DEF overall
<1> DEFINE u == [r EXCEPT !.stage = stage, !.seconds = later, !.overall = overall]
<1>7. u \in Run
  BY <1>2, <1>5 DEF Run
<1>8. /\ u.at = r.at /\ u.result = r.result
      /\ u.speakers = r.speakers /\ u.optimized = r.optimized
      /\ u.overall = overall
  BY DEF Run
<1> HIDE DEF u
<1> QED BY <1>5, <1>6, <1>7, <1>8 DEF u, Advances

LEMMA EndedFacts ==
  ASSUME NEW r \in Run, NEW result \in {"ok", "cancelled", "failed"}
  PROVE  LET e == Ended(r, result) IN
           /\ e \in Run
           /\ e.at = "done" /\ e.result = result
           /\ e.speakers = r.speakers /\ e.optimized = r.optimized
           /\ e.overall >= r.overall
           /\ e.overall = 100 => result = "ok" \/ r.overall = 100
<1> DEFINE stage == IF result = "ok" THEN "completed" ELSE result
           u == Update(r, stage, 100, 0)
<1>1. stage \in Stages /\ (stage = "completed" => result = "ok")
  BY DEF Stages
<1> HIDE DEF stage
<1>2. /\ u \in Run
      /\ u.speakers = r.speakers /\ u.optimized = r.optimized
      /\ u.overall >= r.overall
      /\ u.overall = 100 => result = "ok" \/ r.overall = 100
  BY <1>1, UpdateFacts DEF Advances
<1>3. Ended(r, result) = [u EXCEPT !.at = "done", !.result = result]
  BY DEF Ended, stage
<1> HIDE DEF u
<1> DEFINE e == [u EXCEPT !.at = "done", !.result = result]
<1>4. e \in Run
  BY <1>2 DEF Run, Points, Results
<1>5. /\ e.at = "done" /\ e.result = result
      /\ e.speakers = u.speakers /\ e.optimized = u.optimized /\ e.overall = u.overall
  BY <1>2 DEF Run
<1> HIDE DEF e
<1> QED BY <1>2, <1>3, <1>4, <1>5 DEF e

LEMMA AdvancesIsTransitive ==
  ASSUME NEW r \in Run, NEW u \in Run, NEW v \in Run, Advances(r, u), Advances(u, v)
  PROVE  Advances(r, v)
BY DEF Advances, Run

\* The record goes to another point, or notes what it learned.
LEMMA MovesOn ==
  ASSUME NEW r \in Run, NEW u, Advances(r, u), NEW point \in Points
  PROVE  /\ Advances(r, [u EXCEPT !.at = point])
         /\ [u EXCEPT !.at = point].at = point
<1> DEFINE w == [u EXCEPT !.at = point]
<1>1. u \in Run
  BY DEF Advances
<1>2. w \in Run
  BY <1>1 DEF Run
<1>3. w.result = u.result /\ w.overall = u.overall /\ w.at = point
  BY <1>1 DEF Run
<1> HIDE DEF w
<1> QED BY <1>2, <1>3 DEF w, Advances

LEMMA EnhancerChanges ==
  ASSUME NEW r \in Run, NEW u, Advances(r, u), NEW k \in 0..Enhancers
  PROVE  /\ Advances(r, [u EXCEPT !.enhancer = k])
         /\ [u EXCEPT !.enhancer = k].at = u.at
<1> DEFINE w == [u EXCEPT !.enhancer = k]
<1>1. u \in Run
  BY DEF Advances
<1>2. w \in Run
  BY <1>1 DEF Run
<1>3. w.result = u.result /\ w.overall = u.overall /\ w.at = u.at
  BY <1>1 DEF Run
<1> HIDE DEF w
<1> QED BY <1>2, <1>3 DEF w, Advances

LEMMA NotesSpeakers ==
  ASSUME NEW r \in Run, NEW u, Advances(r, u), NEW status \in {"none", "completed", "failed"}
  PROVE  Advances(r, [u EXCEPT !.speakers = status])
<1> DEFINE w == [u EXCEPT !.speakers = status]
<1>1. u \in Run
  BY DEF Advances
<1>2. w \in Run
  BY <1>1 DEF Run
<1>3. w.result = u.result /\ w.overall = u.overall
  BY <1>1 DEF Run
<1> HIDE DEF w
<1> QED BY <1>2, <1>3 DEF w, Advances

LEMMA NotesText ==
  ASSUME NEW r \in Run, NEW u, Advances(r, u), NEW optimized \in BOOLEAN
  PROVE  Advances(r, [u EXCEPT !.optimized = optimized])
<1> DEFINE w == [u EXCEPT !.optimized = optimized]
<1>1. u \in Run
  BY DEF Advances
<1>2. w \in Run
  BY <1>1 DEF Run
<1>3. w.result = u.result /\ w.overall = u.overall
  BY <1>1 DEF Run
<1> HIDE DEF w
<1> QED BY <1>2, <1>3 DEF w, Advances

LEMMA AdvancesItself ==
  ASSUME NEW r \in Run
  PROVE  Advances(r, r)
BY DEF Advances, Run

\* Two events in a row.
LEMMA TwoUpdates ==
  ASSUME NEW r \in Run, NEW first \in Stages \ {"completed"}, NEW second \in Stages \ {"completed"},
         NEW a \in Nat, NEW b \in Nat
  PROVE  Advances(r, Update(Update(r, first, a, 0), second, b, 0))
<1>1. Advances(r, Update(r, first, a, 0))
  BY UpdateFacts
<1>2. Update(r, first, a, 0) \in Run
  BY <1>1 DEF Advances
<1>3. Advances(Update(r, first, a, 0), Update(Update(r, first, a, 0), second, b, 0))
  BY <1>2, UpdateFacts
<1> QED BY <1>1, <1>2, <1>3, AdvancesIsTransitive DEF Advances

LEMMA ToPersistFacts ==
  ASSUME NEW r \in Run
  PROVE  Advances(r, ToPersist(r)) /\ ToPersist(r).at = "persist"
<1> DEFINE u == Update(r, "persisting", 98, 0)
<1>1. Advances(r, u)
  BY UpdateFacts DEF Stages
<1> HIDE DEF u
<1>2. Advances(r, [u EXCEPT !.at = "persist"]) /\ [u EXCEPT !.at = "persist"].at = "persist"
  <2>1. "persist" \in Points
    BY DEF Points
  <2> QED BY <1>1, <2>1, MovesOn
<1> QED BY <1>2 DEF ToPersist, u

LEMMA AfterAiFacts ==
  ASSUME NEW r \in Run
  PROVE  Advances(r, AfterAi(r)) /\ AfterAi(r).at = "persist"
<1> DEFINE u == Update(Update(r, "optimizing", 96, 0), "summarizing", 98, 0)
<1>1. Advances(r, u)
  BY TwoUpdates DEF Stages
<1> HIDE DEF u
<1>2. u \in Run
  BY <1>1 DEF Advances
<1>3. Advances(u, ToPersist(u)) /\ ToPersist(u).at = "persist"
  BY <1>2, ToPersistFacts
<1> QED BY <1>1, <1>2, <1>3, AdvancesIsTransitive DEF AfterAi, u, Advances

LEMMA ToAiFacts ==
  ASSUME NEW r \in Run
  PROVE  Advances(r, ToAi(r)) /\ ToAi(r).at \in {"ai", "persist"}
<1>1. CASE r.request.ai
  <2> DEFINE u == Update(Update(r, "optimizing", 93, 0), "summarizing", 96, 0)
             p == [u EXCEPT !.at = "ai"]
  <2>1. Advances(r, u)
    BY TwoUpdates DEF Stages
  <2> HIDE DEF u
  <2>2. 1 \in 0..Enhancers
    BY EnhancersAssumption
  <2>3. "ai" \in Points
    BY DEF Points
  <2>4. Advances(r, p) /\ p.at = "ai"
    BY <2>1, <2>3, MovesOn
  <2>5. ToAi(r) = [p EXCEPT !.enhancer = 1]
    BY <1>1 DEF ToAi, u
  <2> HIDE DEF p
  <2>6. Advances(r, [p EXCEPT !.enhancer = 1]) /\ [p EXCEPT !.enhancer = 1].at = p.at
    BY <2>2, <2>4, EnhancerChanges
  <2> QED BY <2>4, <2>5, <2>6
<1>2. CASE ~r.request.ai
  BY <1>2, ToPersistFacts DEF ToAi
<1> QED BY <1>1, <1>2

LEMMA AfterDiarizationFacts ==
  ASSUME NEW r \in Run, NEW status \in {"completed", "failed"}
  PROVE  /\ Advances(r, AfterDiarization(r, status))
         /\ AfterDiarization(r, status).at \in {"ai", "persist"}
<1> DEFINE u == Update(r, "diarizing", 93, 0)
           v == [u EXCEPT !.speakers = status]
<1>1. Advances(r, u)
  BY UpdateFacts DEF Stages
<1> HIDE DEF u
<1>2. Advances(r, v)
  BY <1>1, NotesSpeakers
<1> HIDE DEF v
<1>3. v \in Run
  BY <1>2 DEF Advances
<1>4. Advances(v, ToAi(v)) /\ ToAi(v).at \in {"ai", "persist"}
  BY <1>3, ToAiFacts
<1>5. Advances(r, ToAi(v))
  BY <1>2, <1>3, <1>4, AdvancesIsTransitive DEF Advances
<1> QED BY <1>4, <1>5 DEF AfterDiarization, u, v

LEMMA ToDiarizationFacts ==
  ASSUME NEW r \in Run
  PROVE  /\ Advances(r, ToDiarization(r))
         /\ ToDiarization(r).at \in {"diarize", "ai", "persist"}
<1> DEFINE u == Update(r, "diarizing", 85, 0)
<1>1. Advances(r, u)
  BY UpdateFacts DEF Stages
<1> HIDE DEF u
<1>2. u \in Run
  BY <1>1 DEF Advances
<1>3. CASE r.request.speakers = "no"
  BY <1>3, ToAiFacts DEF ToDiarization
<1>4. CASE r.request.speakers = "missing"
  <2>1. ToDiarization(r) = AfterDiarization(u, "failed")
    BY <1>4 DEF ToDiarization, u
  <2>2. /\ Advances(u, AfterDiarization(u, "failed"))
        /\ AfterDiarization(u, "failed").at \in {"ai", "persist"}
    BY <1>2, AfterDiarizationFacts
  <2> QED BY <1>1, <1>2, <2>1, <2>2, AdvancesIsTransitive DEF Advances
<1>5. CASE r.request.speakers \notin {"no", "missing"}
  <2>1. ToDiarization(r) = [u EXCEPT !.at = "diarize"]
    BY <1>5 DEF ToDiarization, u
  <2>2. /\ Advances(r, [u EXCEPT !.at = "diarize"])
        /\ [u EXCEPT !.at = "diarize"].at = "diarize"
    <3>1. "diarize" \in Points
      BY DEF Points
    <3> QED BY <1>1, <3>1, MovesOn
  <2> QED BY <2>1, <2>2
<1> QED BY <1>3, <1>4, <1>5

LEMMA AfterSpeechFacts ==
  ASSUME NEW r \in Run
  PROVE  /\ Advances(r, AfterSpeech(r))
         /\ AfterSpeech(r).at \in {"diarize", "ai", "persist"}
<1> DEFINE u == IF r.request.timed THEN Update(r, "transcribing", 85, Total) ELSE r
<1>1. Advances(r, u)
  <2>1. Advances(r, Update(r, "transcribing", 85, Total))
    BY UpdateFacts, TotalAssumption DEF Stages
  <2> QED BY <2>1, AdvancesItself
<1> HIDE DEF u
<1>2. u \in Run
  BY <1>1 DEF Advances
<1>3. /\ Advances(u, ToDiarization(u))
      /\ ToDiarization(u).at \in {"diarize", "ai", "persist"}
  BY <1>2, ToDiarizationFacts
<1>4. Advances(r, ToDiarization(u))
  BY <1>1, <1>2, <1>3, AdvancesIsTransitive DEF Advances
<1> QED BY <1>3, <1>4 DEF AfterSpeech, u

-----------------------------------------------------------------------------
\* Agreement is kept by a run that goes on before its save begins, by one
\* that stays where it is, and by one that ends.
LEMMA ForwardAgrees ==
  ASSUME NEW r \in Run, NEW save, NEW artifact, NEW u, Agrees(r, save, artifact),
         r.at \in {"prepare", "engine", "diarize", "ai"}, Advances(r, u),
         u.at \in {"prepare", "engine", "diarize", "ai", "persist"}
  PROVE  /\ u \in Run /\ Agrees(u, save, artifact)
         /\ u.overall >= r.overall /\ u.result # "failed"
BY DEF Agrees, Advances, Run

LEMMA StayingAgrees ==
  ASSUME NEW r \in Run, NEW save, NEW artifact, NEW u, Agrees(r, save, artifact), Advances(r, u),
         u.at = r.at, u.speakers = r.speakers, u.optimized = r.optimized
  PROVE  u \in Run /\ Agrees(u, save, artifact)
BY DEF Agrees, Advances, Run

LEMMA EndedAgrees ==
  ASSUME NEW r \in Run, NEW save, NEW artifact, Agrees(r, save, artifact), r.at # "done",
         NEW result \in {"ok", "cancelled", "failed"},
         result = "ok" => save = "ok",
         result = "failed" => save \in {"none", "failed"}
  PROVE  Ended(r, result) \in Run /\ Agrees(Ended(r, result), save, artifact)
<1> DEFINE e == Ended(r, result)
<1>1. /\ e \in Run
      /\ e.at = "done" /\ e.result = result
      /\ e.speakers = r.speakers /\ e.optimized = r.optimized
      /\ e.overall = 100 => result = "ok" \/ r.overall = 100
  BY EndedFacts
<1> HIDE DEF e
<1>2. r.overall # 100
  BY DEF Agrees
<1> QED BY <1>1, <1>2 DEF Agrees, e

\* A step that replaces one record only.
LEMMA OneRunSteps ==
  ASSUME PipelineInv, NEW j \in Jobs, NEW u \in Run, run' = [run EXCEPT ![j] = u],
         Agrees(u, saving[j], archive[j]), u.overall >= run[j].overall,
         run[j].at \in {"diarize", "ai", "persist", "save"} /\ u.result = "failed"
           => saving[j] = "failed",
         UNCHANGED <<saving, archive>>, cancelled' \subseteq Jobs, readers' \subseteq Jobs
  PROVE  GoodStep
<1>1. PipelineTypeOK'
  BY DEF PipelineInv, PipelineTypeOK
<1>2. ASSUME NEW i \in Jobs
      PROVE  /\ Agrees(run'[i], saving'[i], archive'[i])
             /\ run'[i].overall >= run[i].overall
             /\ run[i].at \in {"diarize", "ai", "persist", "save"} /\ run'[i].result = "failed"
                  => saving[i] = "failed"
  <2>1. CASE i = j
    BY <2>1 DEF PipelineInv, PipelineTypeOK
  <2>2. CASE i # j
    <3>1. run'[i] = run[i] /\ run[i] \in Run
      BY <2>2 DEF PipelineInv, PipelineTypeOK
    <3>2. Agrees(run[i], saving[i], archive[i])
      BY DEF PipelineInv
    <3>3. run[i].overall >= run[i].overall
      BY <3>1 DEF Run
    <3>4. run[i].at \in {"diarize", "ai", "persist", "save"} => run[i].result # "failed"
      BY <3>2 DEF Agrees
    <3> QED BY <3>1, <3>2, <3>3, <3>4
  <2> QED BY <2>1, <2>2
<1>3. PipelineInv'
  BY <1>1, <1>2 DEF PipelineInv, Agrees
<1> QED BY <1>2, <1>3 DEF GoodStep

\* A step that leaves every record as it is.
LEMMA OtherSteps ==
  ASSUME PipelineInv, PipelineInv', UNCHANGED run
  PROVE  GoodStep
<1> SUFFICES ASSUME NEW j \in Jobs
             PROVE  /\ run'[j].overall >= run[j].overall
                    /\ run[j].at \in {"diarize", "ai", "persist", "save"} /\ run'[j].result = "failed"
                         => saving[j] = "failed"
  BY DEF GoodStep
<1>1. run[j] \in Run /\ Agrees(run[j], saving[j], archive[j])
  BY DEF PipelineInv, PipelineTypeOK
<1>2. run[j].overall >= run[j].overall
  BY <1>1 DEF Run
<1>3. run[j].at \in {"diarize", "ai", "persist", "save"} => run[j].result # "failed"
  BY <1>1 DEF Agrees
<1> QED BY <1>2, <1>3

LEMMA PipelineInitInv == PipelineInit => PipelineInv
<1> SUFFICES ASSUME PipelineInit PROVE PipelineInv
  OBVIOUS
<1>1. NotStarted \in Run
  BY EnhancersAssumption DEF NotStarted, Run, Points, Stages, Results
<1>2. PipelineTypeOK
  BY <1>1 DEF PipelineInit, PipelineTypeOK
<1>3. \A j \in Jobs : Agrees(run[j], saving[j], archive[j])
  BY DEF PipelineInit, Agrees, NotStarted
<1> QED BY <1>2, <1>3 DEF PipelineInv

-----------------------------------------------------------------------------
\* One lemma per group of actions: the caller's, the ones that go on, the
\* ones that end the run, and those of the save.
LEMMA CallerKeepsInv ==
  ASSUME PipelineInv, NEW j \in Jobs,
         \/ RequestCancel(j)
         \/ \E request \in Requests : Call(j, request)
         \/ \E result \in {"cancelled", "failed"} : CallRefused(j, result)
  PROVE  GoodStep
<1>1. run[j] \in Run /\ Agrees(run[j], saving[j], archive[j])
  BY DEF PipelineInv, PipelineTypeOK
<1>2. CASE RequestCancel(j)
  <2>1. PipelineInv'
    BY <1>2 DEF RequestCancel, PipelineInv, PipelineTypeOK, Agrees
  <2> QED BY <1>2, <2>1, OtherSteps DEF RequestCancel
<1>3. ASSUME NEW request \in Requests, Call(j, request)
      PROVE  GoodStep
  <2> DEFINE r == [run[j] EXCEPT !.at = "prepare", !.request = request]
             u == Update(r, "preparing", 0, 0)
  <2>1. r \in Run
    BY <1>1 DEF Run, Points
  <2>2. Agrees(r, saving[j], archive[j]) /\ r.overall = run[j].overall
    BY <1>1, <1>3 DEF Call, Agrees, Run
  <2>3. run' = [run EXCEPT ![j] = u]
    BY <1>3 DEF Call
  <2> HIDE DEF r
  <2>4. /\ Advances(r, u)
        /\ u.at = r.at /\ u.speakers = r.speakers /\ u.optimized = r.optimized
    BY <2>1, UpdateFacts DEF Stages
  <2> HIDE DEF u
  <2>5. u \in Run /\ Agrees(u, saving[j], archive[j])
    BY <2>1, <2>2, <2>4, StayingAgrees
  <2>6. u.overall >= run[j].overall
    BY <2>2, <2>4 DEF Advances
  <2>7. run[j].at = "idle" /\ UNCHANGED <<cancelled, readers, saving, archive>>
    BY <1>3 DEF Call
  <2>8. cancelled' \subseteq Jobs /\ readers' \subseteq Jobs
    BY <2>7 DEF PipelineInv, PipelineTypeOK
  <2> QED BY <2>3, <2>5, <2>6, <2>7, <2>8, OneRunSteps
<1>4. ASSUME NEW result \in {"cancelled", "failed"}, CallRefused(j, result)
      PROVE  GoodStep
  <2> DEFINE u == [run[j] EXCEPT !.at = "done", !.result = result]
  <2>1. u \in Run
    BY <1>1 DEF Run, Points, Results
  <2>2. Agrees(u, saving[j], archive[j]) /\ u.overall >= run[j].overall
    BY <1>1, <1>4 DEF CallRefused, Agrees, Run
  <2>3. run' = [run EXCEPT ![j] = u]
    BY <1>4 DEF CallRefused
  <2>4. run[j].at = "idle" /\ UNCHANGED <<cancelled, readers, saving, archive>>
    BY <1>4 DEF CallRefused
  <2>5. cancelled' \subseteq Jobs /\ readers' \subseteq Jobs
    BY <2>4 DEF PipelineInv, PipelineTypeOK
  <2> HIDE DEF u
  <2> QED BY <2>1, <2>2, <2>3, <2>4, <2>5, OneRunSteps
<1> QED BY <1>2, <1>3, <1>4

LEMMA GoingOnKeepsInv ==
  ASSUME PipelineInv, NEW j \in Jobs,
         \/ TranscodeReturns(j, TRUE)
         \/ \E seconds \in Nat : Callback(j, seconds)
         \/ EngineReturns(j)
         \/ \E status \in {"completed", "failed"} : DiarizerReturns(j, status)
         \/ \E optimized \in BOOLEAN : EnhancerReturns(j, optimized)
         \/ EnhancerIsUnavailable(j)
         \/ ReadersEnd(j)
  PROVE  GoodStep
<1> DEFINE r == run[j]
<1>1. r \in Run /\ Agrees(r, saving[j], archive[j])
  BY DEF PipelineInv, PipelineTypeOK
<1>2. cancelled \subseteq Jobs /\ readers \subseteq Jobs
  BY DEF PipelineInv, PipelineTypeOK
<1>3. ASSUME NEW u, Advances(r, u), r.at \in {"prepare", "engine", "diarize", "ai"},
             u.at \in {"prepare", "engine", "diarize", "ai", "persist"},
             run' = [run EXCEPT ![j] = u], readers' \subseteq Jobs,
             UNCHANGED <<cancelled, saving, archive>>
      PROVE  GoodStep
  <2>1. /\ u \in Run /\ Agrees(u, saving[j], archive[j])
        /\ u.overall >= r.overall /\ u.result # "failed"
    BY <1>1, <1>3, ForwardAgrees
  <2> QED BY <1>2, <1>3, <2>1, OneRunSteps
<1>4. CASE TranscodeReturns(j, TRUE)
  <2> DEFINE u == Update(Update(r, "preparing", 5, 0), "transcribing", 5, 0)
             v == [u EXCEPT !.at = "engine"]
  <2>1. Advances(r, u)
    BY <1>1, TwoUpdates DEF Stages
  <2>2. run' = [run EXCEPT ![j] = v]
    BY <1>4 DEF TranscodeReturns
  <2> HIDE DEF u
  <2>3. "engine" \in Points
    BY DEF Points
  <2>4. Advances(r, v) /\ v.at = "engine"
    BY <1>1, <2>1, <2>3, MovesOn
  <2> HIDE DEF v
  <2>5. /\ r.at = "prepare" /\ readers' \subseteq Jobs
        /\ UNCHANGED <<cancelled, saving, archive>>
    BY <1>2, <1>4 DEF TranscodeReturns
  <2> QED BY <1>3, <2>2, <2>4, <2>5
<1>5. ASSUME NEW seconds \in Nat, Callback(j, seconds)
      PROVE  GoodStep
  <2> DEFINE percent == IF r.request.timed THEN OverallAt(seconds) ELSE 5
             u == Update(r, "transcribing", percent, seconds)
  <2>1. percent \in Nat
    BY OverallAtIsNat
  <2>2. run' = [run EXCEPT ![j] = u]
    BY <1>5 DEF Callback
  <2> HIDE DEF percent
  <2>3. /\ Advances(r, u)
        /\ u.at = r.at /\ u.speakers = r.speakers /\ u.optimized = r.optimized
    <3>1. "transcribing" \in Stages /\ "transcribing" # "completed"
      BY DEF Stages
    <3> QED BY <1>1, <2>1, <3>1, UpdateFacts
  <2> HIDE DEF u
  <2>4. u \in Run /\ Agrees(u, saving[j], archive[j])
    BY <1>1, <2>3, StayingAgrees
  <2>5. /\ u.overall >= r.overall
        /\ r.at \in {"diarize", "ai", "persist", "save"} => u.result # "failed"
    BY <1>1, <2>3 DEF Advances, Agrees
  <2>6. UNCHANGED <<cancelled, readers, saving, archive>>
    BY <1>5 DEF Callback
  <2> QED BY <1>2, <2>2, <2>4, <2>5, <2>6, OneRunSteps
<1>6. CASE EngineReturns(j)
  <2>1. Advances(r, AfterSpeech(r)) /\ AfterSpeech(r).at \in {"diarize", "ai", "persist"}
    BY <1>1, AfterSpeechFacts
  <2> QED BY <1>2, <1>3, <1>6, <2>1 DEF EngineReturns
<1>7. ASSUME NEW status \in {"completed", "failed"}, DiarizerReturns(j, status)
      PROVE  GoodStep
  <2>1. Advances(r, AfterDiarization(r, status)) /\ AfterDiarization(r, status).at \in {"ai", "persist"}
    BY <1>1, AfterDiarizationFacts
  <2> QED BY <1>2, <1>3, <1>7, <2>1 DEF DiarizerReturns
<1>8. ASSUME NEW optimized \in BOOLEAN, EnhancerReturns(j, optimized)
      PROVE  GoodStep
  <2> DEFINE u == [r EXCEPT !.optimized = optimized]
  <2>1. Advances(r, u)
    BY <1>1, AdvancesItself, NotesText
  <2>2. run' = [run EXCEPT ![j] = AfterAi(u)]
    BY <1>8 DEF EnhancerReturns
  <2> HIDE DEF u
  <2>3. u \in Run
    BY <2>1 DEF Advances
  <2>4. Advances(u, AfterAi(u)) /\ AfterAi(u).at = "persist"
    BY <2>3, AfterAiFacts
  <2>5. Advances(r, AfterAi(u))
    BY <1>1, <2>1, <2>3, <2>4, AdvancesIsTransitive DEF Advances
  <2> QED BY <1>2, <1>3, <1>8, <2>2, <2>4, <2>5 DEF EnhancerReturns
<1>9. CASE EnhancerIsUnavailable(j)
  <2>1. CASE r.enhancer < Enhancers
    <3>1. r.enhancer + 1 \in 0..Enhancers
      BY <1>1, <2>1, EnhancersAssumption DEF Run
    <3> DEFINE u == [r EXCEPT !.enhancer = r.enhancer + 1]
    <3>2. Advances(r, u) /\ u.at = r.at
      BY <1>1, <3>1, AdvancesItself, EnhancerChanges
    <3>3. run' = [run EXCEPT ![j] = u]
      BY <1>9, <2>1 DEF EnhancerIsUnavailable
    <3> HIDE DEF u
    <3> QED BY <1>2, <1>3, <1>9, <3>2, <3>3 DEF EnhancerIsUnavailable
  <2>2. CASE ~ (r.enhancer < Enhancers)
    <3>1. Advances(r, AfterAi(r)) /\ AfterAi(r).at = "persist"
      BY <1>1, AfterAiFacts
    <3>2. run' = [run EXCEPT ![j] = AfterAi(r)]
      BY <1>9, <2>2 DEF EnhancerIsUnavailable
    <3> QED BY <1>2, <1>3, <1>9, <3>1, <3>2 DEF EnhancerIsUnavailable
  <2> QED BY <2>1, <2>2
<1>10. CASE ReadersEnd(j)
  <2>1. PipelineInv'
    BY <1>10 DEF ReadersEnd, PipelineInv, PipelineTypeOK, Agrees
  <2> QED BY <1>10, <2>1, OtherSteps DEF ReadersEnd
<1> QED BY <1>4, <1>5, <1>6, <1>7, <1>8, <1>9, <1>10

LEMMA EndingKeepsInv ==
  ASSUME PipelineInv, NEW j \in Jobs,
         Stopped(j) \/ TranscodeReturns(j, FALSE) \/ EngineFails(j) \/ SaveReturns(j)
  PROVE  GoodStep
<1>1. run[j] \in Run /\ Agrees(run[j], saving[j], archive[j])
  BY DEF PipelineInv, PipelineTypeOK
<1>2. PICK result \in {"ok", "cancelled", "failed"} :
        /\ run' = [run EXCEPT ![j] = Ended(run[j], result)]
        /\ result = "ok" => saving[j] = "ok"
        /\ result = "failed" => saving[j] \in {"none", "failed"}
        /\ run[j].at \in {"diarize", "ai", "persist", "save"} /\ result = "failed"
             => saving[j] = "failed"
  <2>1. CASE Stopped(j)
    BY <2>1 DEF Stopped
  <2>2. CASE TranscodeReturns(j, FALSE) \/ EngineFails(j)
    <3>1. saving[j] = "none" /\ run[j].at \in {"prepare", "engine"}
      BY <1>1, <2>2 DEF TranscodeReturns, EngineFails, Agrees
    <3>2. run' = [run EXCEPT ![j] = Ended(run[j], "failed")]
      BY <2>2 DEF TranscodeReturns, EngineFails
    <3> QED BY <3>1, <3>2
  <2>3. CASE SaveReturns(j)
    BY <2>3 DEF SaveReturns
  <2> QED BY <2>1, <2>2, <2>3
<1> DEFINE e == Ended(run[j], result)
<1>3. run[j].at # "done" /\ UNCHANGED <<cancelled, readers, saving, archive>>
  BY DEF Stopped, TranscodeReturns, EngineFails, SaveReturns
<1>4. e \in Run /\ Agrees(e, saving[j], archive[j])
  BY <1>1, <1>2, <1>3, EndedAgrees
<1>5. e.overall >= run[j].overall /\ e.result = result
  BY <1>1, EndedFacts
<1>6. cancelled' \subseteq Jobs /\ readers' \subseteq Jobs
  BY <1>3 DEF PipelineInv, PipelineTypeOK
<1>7. run' = [run EXCEPT ![j] = e]
  BY <1>2
<1> HIDE DEF e
<1> QED BY <1>2, <1>3, <1>4, <1>5, <1>6, <1>7, OneRunSteps

LEMMA SaveKeepsInv ==
  ASSUME PipelineInv, NEW j \in Jobs,
         SaveBegins(j) \/ \E outcome \in {"ok", "failed"} : Commit(j, outcome)
  PROVE  GoodStep
<1>1. /\ run \in [Jobs -> Run]
      /\ run[j] \in Run /\ Agrees(run[j], saving[j], archive[j])
      /\ saving \in [Jobs -> {"none", "running", "ok", "failed"}]
      /\ archive \in [Jobs -> Artifact \cup {NoArtifact}]
  BY DEF PipelineInv, PipelineTypeOK
<1>2. PipelineTypeOK'
  BY <1>1 DEF SaveBegins, Commit, PipelineInv, PipelineTypeOK, Run, Points, Artifact
<1>3. ASSUME NEW i \in Jobs, i # j
      PROVE  Agrees(run'[i], saving'[i], archive'[i])
  <2>1. run'[i] = run[i] /\ saving'[i] = saving[i] /\ archive'[i] = archive[i]
    BY <1>1, <1>3 DEF SaveBegins, Commit
  <2> QED BY <2>1 DEF PipelineInv
<1>4. Agrees(run'[j], saving'[j], archive'[j])
  <2>1. CASE SaveBegins(j)
    <3>1. /\ run'[j] = [run[j] EXCEPT !.at = "save"]
          /\ saving'[j] = "running" /\ archive'[j] = archive[j]
      BY <1>1, <2>1 DEF SaveBegins
    <3> QED BY <1>1, <2>1, <3>1 DEF SaveBegins, Agrees, Run
  <2>2. ASSUME NEW outcome \in {"ok", "failed"}, Commit(j, outcome)
        PROVE  Agrees(run'[j], saving'[j], archive'[j])
    <3>1. /\ saving[j] = "running" /\ run'[j] = run[j] /\ saving'[j] = outcome
          /\ archive'[j] = IF outcome = "ok"
                           THEN [speakers |-> run[j].speakers, optimized |-> run[j].optimized]
                           ELSE archive[j]
      BY <1>1, <2>2 DEF Commit
    <3> QED BY <1>1, <3>1 DEF Agrees
  <2> QED BY <2>1, <2>2
<1>5. PipelineInv'
  BY <1>2, <1>3, <1>4 DEF PipelineInv, Agrees
<1>6. ASSUME NEW i \in Jobs
      PROVE  /\ run'[i].overall >= run[i].overall
             /\ run'[i].result = run[i].result
  <2>1. run[i] \in Run
    BY <1>1
  <2>2. run'[i] = run[i] \/ run'[i] = [run[i] EXCEPT !.at = "save"]
    BY <1>1 DEF SaveBegins, Commit
  <2> QED BY <2>1, <2>2 DEF Run
<1>7. \A i \in Jobs : run[i].at \in {"diarize", "ai", "persist", "save"} => run[i].result # "failed"
  BY DEF PipelineInv, Agrees
<1> QED BY <1>5, <1>6, <1>7 DEF GoodStep

LEMMA PipelineStepKeepsInv ==
  ASSUME PipelineInv, NEW j \in Jobs, PipelineStep(j)
  PROVE  GoodStep
<1>1. CASE Stopped(j)
  BY <1>1, EndingKeepsInv
<1>2. CASE \E seconds \in 1..(Total + 1) : Callback(j, seconds)
  <2>1. \A seconds \in 1..(Total + 1) : seconds \in Nat
    BY TotalAssumption
  <2> QED BY <1>2, <2>1, GoingOnKeepsInv
<1>3. CASE \E success \in BOOLEAN : TranscodeReturns(j, success)
  <2>1. CASE TranscodeReturns(j, TRUE)
    BY <2>1, GoingOnKeepsInv
  <2>2. CASE TranscodeReturns(j, FALSE)
    BY <2>2, EndingKeepsInv
  <2> QED BY <1>3, <2>1, <2>2
<1>4. CASE EngineReturns(j)
  BY <1>4, GoingOnKeepsInv
<1>5. CASE EngineFails(j)
  BY <1>5, EndingKeepsInv
<1>6. CASE \E status \in {"completed", "failed"} : DiarizerReturns(j, status)
  BY <1>6, GoingOnKeepsInv
<1>7. CASE \E optimized \in BOOLEAN : EnhancerReturns(j, optimized)
  BY <1>7, GoingOnKeepsInv
<1>8. CASE EnhancerIsUnavailable(j)
  BY <1>8, GoingOnKeepsInv
<1>9. CASE SaveBegins(j)
  BY <1>9, SaveKeepsInv
<1>10. CASE \E outcome \in {"ok", "failed"} : Commit(j, outcome)
  BY <1>10, SaveKeepsInv
<1>11. CASE SaveReturns(j)
  BY <1>11, EndingKeepsInv
<1>12. CASE ReadersEnd(j)
  BY <1>12, GoingOnKeepsInv
<1> QED BY <1>1, <1>2, <1>3, <1>4, <1>5, <1>6, <1>7, <1>8, <1>9, <1>10, <1>11, <1>12
        DEF PipelineStep, Waits

\* A run that has not begun, or that has ended, stays so whatever step the
\* pipeline takes, and so does every other run.
LEMMA IdleAndDoneStay ==
  ASSUME PipelineInv, NEW j \in Jobs, PipelineStep(j), NEW i \in Jobs,
         run[i].at \in {"idle", "done"}
  PROVE  run'[i].at = run[i].at /\ run'[i].result = run[i].result
<1>1. run \in [Jobs -> Run] /\ run[i] \in Run
  BY DEF PipelineInv, PipelineTypeOK
<1>2. CASE \E seconds \in 1..(Total + 1) : Callback(j, seconds)
  <2>1. PICK seconds \in 1..(Total + 1) : Callback(j, seconds)
    BY <1>2
  <2> DEFINE percent == IF run[j].request.timed THEN OverallAt(seconds) ELSE 5
             u == Update(run[j], "transcribing", percent, seconds)
  <2>2. seconds \in Nat /\ percent \in Nat
    BY TotalAssumption, OverallAtIsNat
  <2>3. run' = [run EXCEPT ![j] = u]
    BY <2>1 DEF Callback
  <2> HIDE DEF percent
  <2>4. u.at = run[j].at /\ u.result = run[j].result
    <3>1. run[j] \in Run /\ "transcribing" \in Stages
      BY <1>1 DEF Stages
    <3> QED BY <2>2, <3>1, UpdateFacts
  <2> HIDE DEF u
  <2> QED BY <1>1, <2>3, <2>4
<1>3. CASE Stopped(j) \/ Waits(j)
  <2>1. run'[i] = run[i]
    BY <1>1, <1>3 DEF Stopped, Waits, TranscodeReturns, EngineReturns, EngineFails, DiarizerReturns,
       EnhancerReturns, EnhancerIsUnavailable, SaveBegins, Commit, SaveReturns, ReadersEnd
  <2> QED BY <2>1
<1> QED BY <1>2, <1>3 DEF PipelineStep

LEMMA EveryStepIsGood ==
  ASSUME PipelineInv, [PipelineNext]_pipelineVars
  PROVE  GoodStep
<1>1. CASE PipelineNext
  BY <1>1, CallerKeepsInv, PipelineStepKeepsInv DEF PipelineNext
<1>2. CASE UNCHANGED pipelineVars
  <2>1. PipelineInv'
    BY <1>2 DEF PipelineInv, PipelineTypeOK, Agrees, pipelineVars
  <2> QED BY <1>2, <2>1, OtherSteps DEF pipelineVars
<1> QED BY <1>1, <1>2

\* The invariant holds of every behaviour of the pipeline.
THEOREM PipelineInvariant == PipelineSpec => []PipelineInv
<1>1. PipelineInit => PipelineInv
  BY PipelineInitInv
<1>2. PipelineInv /\ [PipelineNext]_pipelineVars => PipelineInv'
  BY EveryStepIsGood DEF GoodStep
<1> QED BY <1>1, <1>2, PTL DEF PipelineSpec

\* The types of the five variables of run_file_transcription.
THEOREM PipelineTypeCorrect == PipelineSpec => []PipelineTypeOK
<1>1. PipelineInv => PipelineTypeOK
  BY DEF PipelineInv
<1> QED BY <1>1, PipelineInvariant, PTL

\* What the caller of run_file_transcription is told is what the archive
\* holds: an outcome "ok" only with the artifact of this run, "failed" with
\* none and no save that may still commit.
THEOREM OutcomeIsTrue == PipelineSpec => []OutcomeTellsArchive
<1>1. PipelineInv => OutcomeTellsArchive
  BY DEF PipelineInv, OutcomeTellsArchive, Agrees
<1> QED BY <1>1, PipelineInvariant, PTL

\* ProgressSnapshot::update: 100 per cent only for what is in the archive.
THEOREM HundredIsTrue == PipelineSpec => []HundredIsArchived
<1>1. PipelineInv => HundredIsArchived
  <2> SUFFICES ASSUME PipelineInv, NEW j \in Jobs, run[j].overall = 100
               PROVE  archive[j] # NoArtifact
    BY DEF HundredIsArchived
  <2>1. run[j] \in Run /\ Agrees(run[j], saving[j], archive[j])
    BY DEF PipelineInv, PipelineTypeOK
  <2>2. archive[j] = [speakers |-> run[j].speakers, optimized |-> run[j].optimized]
    BY <2>1 DEF Agrees
  <2>3. archive[j].speakers # "absent"
    BY <2>1, <2>2 DEF Run
  <2>4. NoArtifact.speakers = "absent"
    BY DEF NoArtifact
  <2> QED BY <2>3, <2>4
<1> QED BY <1>1, PipelineInvariant, PTL

\* Both together, as the runs check them.
THEOREM ArchiveIsTold == PipelineSpec => []ArchiveIsToldTruly
BY PipelineTypeCorrect, OutcomeIsTrue, HundredIsTrue, PTL DEF ArchiveIsToldTruly

\* The percentage shown to the user never goes down, whatever callbacks the
\* detached readers of an engine make and whenever.
THEOREM NeverFalls == PipelineSpec => PercentNeverFalls
<1>1. PipelineInv /\ [PipelineNext]_pipelineVars
        => [\A j \in Jobs : run'[j].overall >= run[j].overall]_pipelineVars
  BY EveryStepIsGood DEF GoodStep
<1> QED BY <1>1, PipelineInvariant, PTL DEF PipelineSpec, PercentNeverFalls

\* Once there is a transcript, only a save that failed fails the run.
THEOREM Survives == PipelineSpec => TranscriptSurvives
<1>1. PipelineInv /\ [PipelineNext]_pipelineVars
        => [\A j \in Jobs :
              run[j].at \in {"diarize", "ai", "persist", "save"} /\ run'[j].result = "failed"
                => saving[j] = "failed"]_pipelineVars
  BY EveryStepIsGood DEF GoodStep
<1> QED BY <1>1, PipelineInvariant, PTL DEF PipelineSpec, TranscriptSurvives

------------------------------------------------------------------------------
(* The heavy-work gate. *)

\* The gate: a queue of clients, each in it once and none of them the holder.
Orderly(Clients, queue, owner) ==
  /\ queue \in Seq(Clients)
  /\ \A i, k \in 1..Len(queue) : queue[i] = queue[k] => i = k
  /\ \A i \in 1..Len(queue) : queue[i] # owner

\* The elements of the queue q are among those of the queue r.
FromQueue(q, r) == \A i \in 1..Len(q) : \E k \in 1..Len(r) : q[i] = r[k]

LEMMA WaitFacts ==
  ASSUME NEW Clients, Free \notin Clients, NEW c \in Clients, Orderly(Clients, waiters, holder), c # holder,
         \A i \in 1..Len(waiters) : waiters[i] # c, Wait(c)
  PROVE  /\ Orderly(Clients, waiters', holder') /\ holder' = holder
         /\ \A i \in 1..Len(waiters') :
              waiters'[i] = c \/ \E k \in 1..Len(waiters) : waiters'[i] = waiters[k]
<1>1. /\ waiters' \in Seq(Clients) /\ Len(waiters') = Len(waiters) + 1 /\ Len(waiters) \in Nat
      /\ \A i \in 1..Len(waiters) : waiters'[i] = waiters[i]
      /\ waiters'[Len(waiters) + 1] = c
  BY AppendProperties, LenProperties DEF Wait, Orderly
<1>2. \A i \in 1..Len(waiters') : i \in 1..Len(waiters) \/ i = Len(waiters) + 1
  BY <1>1
<1> QED BY <1>1, <1>2 DEF Wait, Orderly

LEMMA PassOnFacts ==
  ASSUME NEW Clients, Free \notin Clients, Orderly(Clients, waiters, holder), PassOn
  PROVE  /\ Orderly(Clients, waiters', holder') /\ holder' \in Clients \cup {Free}
         /\ holder' # Free => \E i \in 1..Len(waiters) : holder' = waiters[i]
         /\ FromQueue(waiters', waiters)
<1>1. CASE waiters = <<>>
  BY <1>1, EmptySeq DEF PassOn, Orderly, FromQueue
<1>2. CASE waiters # <<>>
  <2>1. /\ waiters \in Seq(Clients) /\ Len(waiters) \in Nat \ {0}
    BY <1>2, EmptySeq DEF Orderly
  <2>2. /\ Tail(waiters) \in Seq(Clients) /\ Len(Tail(waiters)) = Len(waiters) - 1
        /\ \A i \in 1..Len(Tail(waiters)) : Tail(waiters)[i] = waiters[i + 1]
        /\ Head(waiters) \in Clients
    BY <1>2, <2>1, HeadTailProperties
  <2>3. Head(waiters) = waiters[1]
    BY <2>1
  <2>4. holder' = Head(waiters) /\ waiters' = Tail(waiters)
    BY <1>2 DEF PassOn
  <2>5. \A i \in 1..Len(waiters') :
          i + 1 \in 1..Len(waiters) /\ waiters'[i] = waiters[i + 1] /\ i + 1 # 1
    BY <2>1, <2>2, <2>4
  <2>6. 1 \in 1..Len(waiters)
    BY <2>1
  <2>7. \A i \in 1..Len(waiters') : waiters'[i] # holder'
    BY <2>3, <2>4, <2>5, <2>6 DEF Orderly
  <2>8. \A i, k \in 1..Len(waiters') : waiters'[i] = waiters'[k] => i = k
    <3> SUFFICES ASSUME NEW i \in 1..Len(waiters'), NEW k \in 1..Len(waiters'),
                        waiters'[i] = waiters'[k]
                 PROVE  i = k
      OBVIOUS
    <3>1. waiters[i + 1] = waiters[k + 1]
      BY <2>5
    <3>2. i + 1 = k + 1
      BY <2>5, <3>1 DEF Orderly
    <3> QED BY <2>1, <2>2, <2>4, <3>2
  <2>9. FromQueue(waiters', waiters)
    BY <2>5 DEF FromQueue
  <2>10. \E i \in 1..Len(waiters) : holder' = waiters[i]
    BY <2>3, <2>4, <2>6
  <2> QED BY <2>2, <2>4, <2>7, <2>8, <2>9, <2>10 DEF Orderly
<1> QED BY <1>1, <1>2

LEMMA RemoveAtFacts ==
  ASSUME NEW S, NEW s \in Seq(S), NEW n \in 1..Len(s)
  PROVE  /\ RemoveAt(s, n) \in Seq(S) /\ Len(RemoveAt(s, n)) = Len(s) - 1
         /\ \A i \in 1..(Len(s) - 1) : RemoveAt(s, n)[i] = IF i < n THEN s[i] ELSE s[i + 1]
<1> DEFINE front == SubSeq(s, 1, n - 1)
           back == SubSeq(s, n + 1, Len(s))
<1>1. Len(s) \in Nat /\ \A i \in 1..Len(s) : s[i] \in S
  BY LenProperties, ElementOfSeq
<1>2. /\ front \in Seq(S) /\ Len(front) = n - 1
      /\ \A i \in 1..(n - 1) : front[i] = s[i]
  <2>1. \A i \in 1..(n - 1) : s[i] \in S
    BY <1>1
  <2>2. /\ front \in Seq(S)
        /\ Len(front) = IF 1 <= n - 1 THEN n - 1 - 1 + 1 ELSE 0
        /\ \A i \in 1..(n - 1 - 1 + 1) : front[i] = s[1 + i - 1]
    BY <1>1, <2>1, SubSeqProperties
  <2> QED BY <1>1, <2>2
<1>3. /\ back \in Seq(S) /\ Len(back) = Len(s) - n
      /\ \A i \in 1..(Len(s) - n) : back[i] = s[n + i]
  <2>1. \A i \in (n + 1)..Len(s) : s[i] \in S
    BY <1>1
  <2>2. /\ back \in Seq(S)
        /\ Len(back) = IF n + 1 <= Len(s) THEN Len(s) - (n + 1) + 1 ELSE 0
        /\ \A i \in 1..(Len(s) - (n + 1) + 1) : back[i] = s[n + 1 + i - 1]
    BY <1>1, <2>1, SubSeqProperties
  <2> QED BY <1>1, <2>2
<1>4. RemoveAt(s, n) = front \o back
  BY DEF RemoveAt
<1> HIDE DEF front, back
<1>5. /\ front \o back \in Seq(S) /\ Len(front \o back) = Len(front) + Len(back)
      /\ \A i \in 1..(Len(front) + Len(back)) :
           (front \o back)[i] = IF i <= Len(front) THEN front[i] ELSE back[i - Len(front)]
  BY <1>2, <1>3, ConcatProperties
<1>6. Len(front) + Len(back) = Len(s) - 1
  BY <1>1, <1>2, <1>3
<1>7. ASSUME NEW i \in 1..(Len(s) - 1)
      PROVE  (front \o back)[i] = IF i < n THEN s[i] ELSE s[i + 1]
  <2>1. CASE i < n
    <3>1. i \in 1..(n - 1) /\ i <= Len(front) /\ i \in 1..(Len(front) + Len(back))
      BY <1>1, <1>2, <1>6, <2>1
    <3>2. (front \o back)[i] = front[i]
      BY <1>5, <3>1
    <3>3. front[i] = s[i]
      BY <1>2, <3>1
    <3> QED BY <2>1, <3>2, <3>3
  <2>2. CASE ~ (i < n)
    <3>1. i - (n - 1) \in 1..(Len(s) - n) /\ ~ (i <= n - 1)
      BY <1>1, <2>2
    <3>2. n + (i - (n - 1)) = i + 1
      BY <1>1
    <3>3. (front \o back)[i] = back[i - (n - 1)]
      BY <1>2, <1>5, <1>6, <3>1
    <3>4. back[i - (n - 1)] = s[n + (i - (n - 1))]
      BY <1>3, <3>1
    <3> QED BY <2>2, <3>2, <3>3, <3>4
  <2> QED BY <2>1, <2>2
<1> QED BY <1>4, <1>5, <1>6, <1>7

LEMMA AbandonFacts ==
  ASSUME NEW Clients, Free \notin Clients, NEW c \in Clients, Orderly(Clients, waiters, holder), Abandon(c), holder \in Clients \cup {Free}
  PROVE  /\ Orderly(Clients, waiters', holder') /\ holder' \in Clients \cup {Free}
         /\ holder' # holder =>
              holder = c /\ (holder' # Free => \E i \in 1..Len(waiters) : holder' = waiters[i])
         /\ FromQueue(waiters', waiters)
         /\ holder' # c /\ \A i \in 1..Len(waiters') : waiters'[i] # c
<1>1. CASE holder = c /\ PassOn
  <2>1. /\ Orderly(Clients, waiters', holder') /\ holder' \in Clients \cup {Free}
        /\ holder' # Free => \E i \in 1..Len(waiters) : holder' = waiters[i]
        /\ FromQueue(waiters', waiters)
    BY <1>1, PassOnFacts
  <2>2. holder' # c
    BY <1>1, <2>1 DEF Orderly
  <2>3. \A i \in 1..Len(waiters') : waiters'[i] # c
    BY <1>1, <2>1 DEF Orderly, FromQueue
  <2> QED BY <1>1, <2>1, <2>2, <2>3
<1>2. ASSUME NEW n \in DOMAIN waiters, waiters[n] = c, waiters' = RemoveAt(waiters, n),
             UNCHANGED holder
      PROVE  /\ Orderly(Clients, waiters', holder') /\ FromQueue(waiters', waiters)
             /\ holder' # c /\ \A i \in 1..Len(waiters') : waiters'[i] # c
  <2>1. n \in 1..Len(waiters) /\ waiters \in Seq(Clients) /\ Len(waiters) \in Nat
    BY LenProperties DEF Orderly
  <2>2. /\ waiters' \in Seq(Clients) /\ Len(waiters') = Len(waiters) - 1
        /\ \A i \in 1..(Len(waiters) - 1) :
             waiters'[i] = IF i < n THEN waiters[i] ELSE waiters[i + 1]
    BY <1>2, <2>1, RemoveAtFacts
  <2> DEFINE old(i) == IF i < n THEN i ELSE i + 1
  <2>3. \A i \in 1..Len(waiters') :
          old(i) \in 1..Len(waiters) /\ waiters'[i] = waiters[old(i)] /\ old(i) # n
    BY <2>1, <2>2
  <2>4. \A i, k \in 1..Len(waiters') : old(i) = old(k) => i = k
    BY <2>1, <2>2
  <2> HIDE DEF old
  <2>5. \A i, k \in 1..Len(waiters') : waiters'[i] = waiters'[k] => i = k
    BY <2>3, <2>4 DEF Orderly
  <2>6. \A i \in 1..Len(waiters') : waiters'[i] # c /\ waiters'[i] # holder'
    BY <1>2, <2>1, <2>3 DEF Orderly
  <2>7. holder' # c
    BY <1>2, <2>1 DEF Orderly
  <2> QED BY <2>2, <2>3, <2>5, <2>6, <2>7 DEF Orderly, FromQueue
<1> QED BY <1>1, <1>2 DEF Abandon

\* The gate after a client gave the permit back, or left the queue.
GateMoves(Clients, c) ==
  /\ Orderly(Clients, waiters', holder') /\ holder' \in Clients \cup {Free}
  /\ holder' # holder =>
       holder = c /\ (holder' # Free => \E i \in 1..Len(waiters) : holder' = waiters[i])
  /\ FromQueue(waiters', waiters)
  /\ holder' # c /\ \A i \in 1..Len(waiters') : waiters'[i] # c

LEMMA ReleaseMovesGate ==
  ASSUME NEW Clients, Free \notin Clients, NEW c \in Clients,
         Orderly(Clients, waiters, holder), Release(c)
  PROVE  GateMoves(Clients, c)
<1>1. Orderly(Clients, waiters, holder) /\ holder = c /\ PassOn
  BY DEF Release
<1>2. /\ Orderly(Clients, waiters', holder') /\ holder' \in Clients \cup {Free}
      /\ holder' # Free => \E i \in 1..Len(waiters) : holder' = waiters[i]
      /\ FromQueue(waiters', waiters)
  BY <1>1, PassOnFacts
<1>3. holder' # c /\ \A i \in 1..Len(waiters') : waiters'[i] # c
  BY <1>1, <1>2 DEF Orderly, FromQueue
<1> QED BY <1>1, <1>2, <1>3 DEF GateMoves

LEMMA AbandonMovesGate ==
  ASSUME NEW Clients, Free \notin Clients, NEW c \in Clients,
         Orderly(Clients, waiters, holder), holder \in Clients \cup {Free}, Abandon(c)
  PROVE  GateMoves(Clients, c)
BY AbandonFacts DEF GateMoves
==============================================================================
