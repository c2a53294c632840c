---------------------------- MODULE ParakeetLong -----------------------------
(***************************************************************************)
(* ParakeetCppEngine::run_long_file_transcription                           *)
(* (adapters/parakeet_cpp.rs): a recording longer than 15 seconds goes      *)
(* window by window through a batch worker that answers with one row per    *)
(* window. A row that is valid is committed for good. When the worker runs  *)
(* out of memory, or finds no words where there is speech, the rest is      *)
(* planned again with smaller windows; the window without words is tried    *)
(* once by itself before that. When all window sizes are used up and the    *)
(* compute device is automatic, the CPU gets one attempt.                   *)
(*                                                                         *)
(* The worker is external: it may find words in a voiced window or not, run *)
(* into the memory limit, or break in any other way between two rows.       *)
(***************************************************************************)
EXTENDS Naturals, Sequences, SequencesExt, FiniteSetsExt

CONSTANTS
  AudioEnd,     \* the end of the recording, in units of the smallest window
  WindowSizes   \* the sizes of the windows tried in turn, in the same unit

ASSUME ParakeetAssumption ==
  /\ AudioEnd \in Nat \ {0}
  /\ WindowSizes \in Seq(Nat \ {0}) /\ WindowSizes # <<>>

VARIABLES
  parakeet,  \* the job: see Parakeet
  rows       \* the committed rows, in the order of their commit

parakeetVars == <<parakeet, rows>>

-----------------------------------------------------------------------------
Window == {w \in (0..AudioEnd) \X (0..AudioEnd) : w[1] < w[2]}
Row == [window : Window, words : BOOLEAN]
RowErrors == {"none", "memory", "wordless", "other", "incomplete"}

\* `plan` are the windows of the worker under way that have no row yet, `tried`
\* the windows that were tried by themselves, `error` is last_error. `timed` is
\* whether the caller knew the length of the recording.
Parakeet ==
  [at : {"worker", "done", "failed"}, as : {"windows", "alone", "cpu"}, device : {"auto", "fixed"},
   timed : BOOLEAN, voiced : SUBSET (0..(AudioEnd - 1)), attempt : 1..Len(WindowSizes),
   plan : Seq(Window), tried : SUBSET Window, error : RowErrors]

Voiced(p, w) == \E t \in p.voiced : w[1] <= t /\ t < w[2]

\* The end of the audio that is committed: resume_from_seconds.
ResumeAt(committed) == IF committed = <<>> THEN 0 ELSE Last(committed).window[2]
Covered(committed) == ResumeAt(committed) = AudioEnd

\* prepare_long_file_chunks_from_offset: from `start` to the end, each window
\* but the last at most `size` long and ending in the quietest place there. The
\* last one begins as soon as what is left is not longer than that.
Begin(start, ends, i) == IF i = 1 THEN start ELSE ends[i - 1]
EndsFrom(start, size) ==
  {ends \in UNION {[1..n -> (start + 1)..AudioEnd] : n \in 1..(AudioEnd - start)} :
     /\ ends[Len(ends)] = AudioEnd
     /\ \A i \in DOMAIN ends :
          /\ Begin(start, ends, i) < ends[i] /\ ends[i] <= Begin(start, ends, i) + size
          /\ i = Len(ends) <=> AudioEnd <= Begin(start, ends, i) + size}
WindowsFrom(start, size) ==
  {[i \in DOMAIN ends |-> <<Begin(start, ends, i), ends[i]>>] : ends \in EndsFrom(start, size)}

ParakeetInit ==
  /\ rows = <<>>
  /\ \E device \in {"auto", "fixed"}, timed \in BOOLEAN, voiced \in SUBSET (0..(AudioEnd - 1)),
        plan \in WindowsFrom(0, WindowSizes[1]) :
       parakeet = [at |-> "worker", as |-> "windows", device |-> device, timed |-> timed,
                   voiced |-> voiced, attempt |-> 1, plan |-> plan, tried |-> {},
                   error |-> "none"]

-----------------------------------------------------------------------------
Retryable(error) == error \in {"memory", "wordless"}

ParakeetFails(p) == parakeet' = [p EXCEPT !.at = "failed"]

\* The end of the function: the rows are merged. A merge without words or
\* without the whole recording is an error.
Merges(p, committed) ==
  IF Covered(committed) /\ \E i \in DOMAIN committed : committed[i].words
    THEN parakeet' = [p EXCEPT !.at = "done"]
    ELSE ParakeetFails(p)

\* What follows the loop over the window sizes: the attempt on the CPU.
AfterTheSizes(p, committed) ==
  CASE ~(p.device = "auto" /\ Retryable(p.error)) -> Merges(p, committed)
    [] p.device = "auto" /\ Retryable(p.error) /\ p.timed /\ Covered(committed) ->
         Merges(p, committed)
    [] p.device = "auto" /\ Retryable(p.error) /\ ~p.timed /\ Covered(committed) ->
         ParakeetFails(p)
    [] OTHER ->
         \E plan \in WindowsFrom(ResumeAt(committed), 1) :
           parakeet' = [p EXCEPT !.as = "cpu", !.plan = plan]

\* Mutant: the smaller windows begin after the window that failed.
NextSizeAfterFailed(p, committed) ==
  IF p.attempt = Len(WindowSizes) \/ Covered(committed) \/ p.plan = <<>>
    THEN AfterTheSizes(p, committed)
    ELSE \E plan \in WindowsFrom(p.plan[1][2] % AudioEnd, WindowSizes[p.attempt + 1]) :
           parakeet' = [p EXCEPT !.as = "windows", !.attempt = @ + 1, !.plan = plan]

\* The next turn of the loop. Planning from the end of the recording is an
\* error, which only a caller that knows the length avoids.
NextSize(p, committed) ==
  CASE p.attempt = Len(WindowSizes) -> AfterTheSizes(p, committed)
    [] p.attempt < Len(WindowSizes) /\ Covered(committed) ->
         IF p.timed THEN AfterTheSizes(p, committed) ELSE ParakeetFails(p)
    [] OTHER ->
         \E plan \in WindowsFrom(ResumeAt(committed), WindowSizes[p.attempt + 1]) :
           parakeet' = [p EXCEPT !.as = "windows", !.attempt = @ + 1, !.plan = plan]

\* An attempt with windows, or the window tried by itself, ends with an error.
AttemptFails(p, error, committed) ==
  IF Retryable(error)
    THEN NextSize([p EXCEPT !.error = error], committed)
    ELSE ParakeetFails([p EXCEPT !.error = error])

\* A worker ends with an error: for the CPU attempt it is the end.
WorkerFails(p, error, committed) ==
  IF p.as = "cpu" THEN ParakeetFails([p EXCEPT !.error = error]) ELSE AttemptFails(p, error, committed)

-----------------------------------------------------------------------------
\* The commit window is checked for speech, not the whole clip.
RowIsValid(p, w, words) == words \/ ~Voiced(p, w)

\* The worker's next row is validated and committed.
RowArrives(words) ==
  /\ parakeet.at = "worker" /\ parakeet.plan # <<>>
  /\ RowIsValid(parakeet, Head(parakeet.plan), words)
  /\ rows' = Append(rows, [window |-> Head(parakeet.plan), words |-> words])
  /\ parakeet' = [parakeet EXCEPT !.plan = Tail(@)]

\* A row without words for a window with speech ends the worker. The window is
\* tried by itself unless it was before.
WordlessRow ==
  LET w == Head(parakeet.plan)
  IN  /\ parakeet.at = "worker" /\ parakeet.plan # <<>>
      /\ ~RowIsValid(parakeet, w, FALSE)
      /\ IF parakeet.as = "windows" /\ w \notin parakeet.tried
           THEN parakeet' = [parakeet EXCEPT !.as = "alone", !.plan = <<w>>,
                                             !.tried = @ \cup {w}]
           ELSE WorkerFails(parakeet, "wordless", rows)
      /\ UNCHANGED rows

\* The worker reaches its memory limit, or breaks, at any point. Its rows up to
\* there are committed.
WorkerBreaks(error) ==
  /\ parakeet.at = "worker"
  /\ WorkerFails(parakeet, error, rows)
  /\ UNCHANGED rows

\* The worker has answered for all windows and exits well.
WorkerEnds ==
  /\ parakeet.at = "worker" /\ parakeet.plan = <<>>
  /\ IF parakeet.as = "alone"
       THEN NextSize([parakeet EXCEPT !.error = "none"], rows)
       ELSE Merges(parakeet, rows)
  /\ UNCHANGED rows

ParakeetNext ==
  \/ \E words \in BOOLEAN : RowArrives(words)
  \/ WordlessRow
  \/ \E error \in {"memory", "other"} : WorkerBreaks(error)
  \/ WorkerEnds

ParakeetSpec == ParakeetInit /\ [][ParakeetNext]_parakeetVars

-----------------------------------------------------------------------------
\* The type of the job.
ParakeetTypeOK ==
  /\ parakeet.at \in {"worker", "done", "failed"} /\ parakeet.as \in {"windows", "alone", "cpu"}
  /\ parakeet.attempt \in 1..Len(WindowSizes) /\ parakeet.tried \subseteq Window
  /\ parakeet.error \in RowErrors
  /\ Range(rows) \subseteq Row /\ Range(parakeet.plan) \subseteq Window

\* The committed rows tile the recording from its beginning: through every
\* retry, with other windows or on the other backend, no second of audio is
\* committed twice and none is skipped (resume_from_seconds and
\* append_completed_chunks).
RowsTile ==
  \A i \in DOMAIN rows : rows[i].window[1] = (IF i = 1 THEN 0 ELSE rows[i - 1].window[2])

\* What is under way is what follows the committed rows.
WorkerIsAhead ==
  parakeet.at = "worker" /\ parakeet.plan # <<>> => Head(parakeet.plan)[1] = ResumeAt(rows)

\* "Never return or persist that truncated transcript": a job that is done has
\* a row for the whole recording, and words wherever there is speech.
DoneIsHeard ==
  parakeet.at = "done"
    => Covered(rows) /\ \A i \in DOMAIN rows : Voiced(parakeet, rows[i].window) => rows[i].words

\* The rows a Parakeet worker confirms tile the recording from its start, the
\* next worker begins where they end, and a job that ends well has heard it
\* all (run_long_file_transcription).
ParakeetHearsSpeechOnce == ParakeetTypeOK /\ RowsTile /\ WorkerIsAhead /\ DoneIsHeard

\* "Retry exactly that window once with the same backend before moving to the
\* smaller-window plan": a job whose last error was repaired goes on, it does
\* not fail with the rest of the recording untouched.
RepairedJobGoesOn ==
  parakeet.at = "failed" /\ parakeet.error = "none" => Covered(rows)
=============================================================================
