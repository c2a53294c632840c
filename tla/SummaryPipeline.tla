--------------------------- MODULE SummaryPipeline ---------------------------
(***************************************************************************)
(* run_summary_pipeline (crates/application/src/summary_pipeline.rs): a     *)
(* transcript becomes a summary by one prompt with all of it, by one with   *)
(* an excerpt, or by a note for each chunk and a synthesis of the notes.    *)
(* Which of them depends on the size of the prompts and on the provider; a  *)
(* prompt that is too long for the model after all is followed by the next  *)
(* smaller way. Notes are kept in a cache that all requests of the program  *)
(* share, so that a request that failed asks only for what it lacks.        *)
(*                                                                         *)
(* The provider is external: it answers each prompt with text, with nothing,*)
(* with an error that says the prompt is too long, or with another error.   *)
(***************************************************************************)
EXTENDS Naturals, FiniteSets

CONSTANTS
  Summaries,  \* requests for a summary
  Texts,      \* transcripts
  Modes,      \* what is asked for: the mode with its instructions
  ChunkLimit, \* the most chunks a transcript has
  InFlight,   \* summary_chunk_concurrency_limit
  CacheMax,   \* SUMMARY_CACHE_MAX_ENTRIES
  NotePrompts,      \* the prompts for one note, each shorter than the one before
  SynthesisPrompts  \* the prompts for the synthesis, SUMMARY_SYNTHESIS_BUDGETS

ASSUME SummaryAssumption ==
  /\ ChunkLimit \in Nat \ {0} /\ InFlight \in Nat \ {0} /\ CacheMax \in Nat \ {0}
  /\ NotePrompts \in Nat \ {0} /\ SynthesisPrompts \in Nat \ {0, 1}

VARIABLES
  summary,   \* each request: see Summary
  noteCache  \* summary_chunk_note_cache: keys with their notes

summaryVars == <<summary, noteCache>>

-----------------------------------------------------------------------------
Strategies == {"full", "compact", "chunks"}
ChunkNumbers == 1..ChunkLimit
Answers == {"text", "empty", "overflow", "error"}
\* ask_with_overflow_fallback goes on alike after no text and after "too long".
AskAnswers == Answers \ {"empty"}

Note == [text : Texts, mode : Modes, chunk : ChunkNumbers]
NoNote == [chunk |-> 0]

\* `count` is the number of chunks, `excerpt` whether the transcript is longer
\* than its excerpt; `left` counts the prompts left to the ask under way, `asks`
\* those left for each chunk. `shown` is how many of the notes, from the first
\* on, the prompt of the synthesis holds, the last of them perhaps in part.
\* `tried` is "chunks" once the transcript is taken by chunks, `why` is the error.
Summary ==
  [at : {"idle", "full", "compact", "again", "chunks", "synthesis", "done", "failed"},
   text : Texts, mode : Modes, count : ChunkNumbers, excerpt : BOOLEAN,
   left : 0..SynthesisPrompts, asks : [ChunkNumbers -> 0..NotePrompts],
   ended : [ChunkNumbers -> {"no", "noted", "overflow", "error"}],
   notes : [ChunkNumbers -> Note \cup {NoNote}], shown : 0..ChunkLimit,
   tried : {"direct", "chunks"}, why : {"none", "overflow", "error"}]

SummaryInit ==
  /\ summary \in [Summaries ->
       [at : {"idle"}, text : Texts, mode : Modes, count : ChunkNumbers, excerpt : BOOLEAN,
        left : {0}, asks : [ChunkNumbers -> {0}], ended : [ChunkNumbers -> {"no"}],
        notes : [ChunkNumbers -> {NoNote}], shown : {0}, tried : {"direct"}, why : {"none"}]]
  \* A transcript has as many chunks, whoever asks.
  /\ \A r, s \in Summaries : summary[r].text = summary[s].text
       => summary[r].count = summary[s].count /\ summary[r].excerpt = summary[s].excerpt
  /\ noteCache = {}

-----------------------------------------------------------------------------
\* Mutant: the mode is left out of the key.
CacheKeyByText(request, i) == <<request.text, i>>
CacheKey(request, i) == <<request.text, request.mode, i>>

Returns(request, result) ==
  [request EXCEPT !.at = result, !.left = 0, !.asks = [i \in ChunkNumbers |-> 0],
                  !.ended = [i \in ChunkNumbers |-> "no"],
                  !.notes = [i \in ChunkNumbers |-> NoNote], !.shown = 0]
Fails(request, why) == [Returns(request, "failed") EXCEPT !.why = why]
Done(request) == Returns(request, "done")
\* Without a smaller way, the same prompt once more, or two.
Again(request, prompts) == [request EXCEPT !.at = "again", !.left = prompts]

\* synthesize_from_chunks begins; a single chunk is asked for directly.
ToChunks(request) ==
  IF request.count = 1
    THEN [Again(request, 1) EXCEPT !.tried = "chunks"]
    ELSE [request EXCEPT !.at = "chunks", !.tried = "chunks"]
ToCompact(request) == [request EXCEPT !.at = "compact"]

\* choose_summary_strategy: the sizes of the prompts against the budget, and
\* what the provider prefers.
MayChoose(request, strategy, single) ==
  /\ strategy = "compact" => request.excerpt
  /\ request.count > 1 /\ ~single => strategy = "chunks"

SummaryBegins(r, strategy, single) ==
  /\ summary[r].at = "idle" /\ MayChoose(summary[r], strategy, single)
  /\ summary' = [summary EXCEPT ![r] =
       CASE strategy = "full" -> [@ EXCEPT !.at = "full"]
         [] strategy = "compact" -> ToCompact(@)
         [] OTHER -> ToChunks(@)]
  /\ UNCHANGED noteCache

\* What follows the answer to the prompt with an excerpt.
AfterCompact(request, answer) ==
  CASE answer = "text" -> Done(request)
    [] answer = "empty" /\ request.count = 1 -> Again(request, 1)
    [] answer \in {"empty", "overflow"} /\ request.count > 1 -> ToChunks(request)
    [] OTHER -> Fails(request, answer)

\* What follows the answer to the prompt with the whole transcript.
AfterFull(request, answer) ==
  CASE answer = "text" -> Done(request)
    [] answer = "empty" /\ request.count = 1 -> Again(request, 2)
    [] answer = "overflow" /\ request.excerpt -> ToCompact(request)
    [] answer = "overflow" /\ ~request.excerpt /\ request.count = 1 -> Again(request, 1)
    [] answer \in {"empty", "overflow"} /\ request.count > 1
         /\ ~(answer = "overflow" /\ request.excerpt) -> ToChunks(request)
    [] OTHER -> Fails(request, answer)

DirectAnswer(r, answer) ==
  /\ summary[r].at \in {"full", "compact"}
  /\ summary' = [summary EXCEPT ![r] =
       IF @.at = "full" THEN AfterFull(@, answer) ELSE AfterCompact(@, answer)]
  /\ UNCHANGED noteCache

\* The merged notes are clipped to a number of characters, smaller for each
\* prompt of the synthesis: one more prompt holds no more of them than the last.
ClippedAgain(request) == IF request.at = "again" THEN {0} ELSE 1..request.shown

\* ask_with_overflow_fallback: a prompt that is too long is followed by the
\* next one; the last answer ends the request, with a synthesis or without.
AskAnswer(r, answer) ==
  /\ summary[r].at \in {"again", "synthesis"}
  /\ \E clipped \in ClippedAgain(summary[r]) :
       summary' = [summary EXCEPT ![r] =
         CASE answer = "text" -> Done(@)
           [] answer = "overflow" /\ @.left > 1 ->
                [@ EXCEPT !.left = summary[r].left - 1, !.shown = clipped]
           [] OTHER -> Fails(@, answer)]
  /\ UNCHANGED noteCache

-----------------------------------------------------------------------------
\* The chunks before the first one that has not ended.
Yielded(request) ==
  Cardinality({i \in 1..request.count : \A k \in 1..i : request.ended[k] # "no"})

\* `buffered` takes chunks in order, InFlight beyond those it has yielded. A
\* note in the cache is used as it is.
ChunkStarts(r, i) ==
  LET request == summary[r]
      cached == {entry \in noteCache : entry[1] = CacheKey(request, i)}
  IN  /\ request.at = "chunks" /\ i \in 1..request.count
      /\ request.asks[i] = 0 /\ request.ended[i] = "no"
      /\ i <= Yielded(request) + InFlight
      /\ summary' = [summary EXCEPT ![r] =
           IF cached = {} THEN [@ EXCEPT !.asks[i] = NotePrompts]
           ELSE [@ EXCEPT !.ended[i] = "noted", !.notes[i] = (CHOOSE e \in cached : TRUE)[2]]]
      /\ UNCHANGED noteCache

\* A note enters the cache, which is emptied when it is full.
Cached(entry) ==
  IF Cardinality(noteCache) >= CacheMax THEN {entry}
  ELSE {e \in noteCache : e[1] # entry[1]} \cup {entry}

ChunkAnswer(r, i, answer) ==
  LET request == summary[r]
      note == [text |-> request.text, mode |-> request.mode, chunk |-> i]
  IN  /\ request.at = "chunks" /\ i \in 1..request.count
      /\ request.asks[i] > 0 /\ request.ended[i] = "no"
      /\ summary' = [summary EXCEPT ![r] =
           CASE answer = "text" -> [@ EXCEPT !.ended[i] = "noted", !.notes[i] = note]
             [] answer = "overflow" /\ @.asks[i] > 1 -> [@ EXCEPT !.asks[i] = request.asks[i] - 1]
             [] OTHER -> [@ EXCEPT !.ended[i] = answer]]
      /\ noteCache' = IF answer = "text" THEN Cached(<<CacheKey(request, i), note>>) ELSE noteCache

FailedChunks(request) == {i \in 1..request.count : request.ended[i] \in {"overflow", "error"}}

\* All chunks have ended, also after one of them failed; the first error by
\* order of the chunks is the request's. The notes are merged in the order of
\* the chunks, and the first prompt of the synthesis is clipped too: how many
\* notes it holds depends on their lengths.
ChunksEnd(r) ==
  /\ summary[r].at = "chunks" /\ Yielded(summary[r]) = summary[r].count
  /\ \E clipped \in 1..summary[r].count :
     summary' = [summary EXCEPT ![r] =
       IF FailedChunks(@) = {}
         THEN [@ EXCEPT !.at = "synthesis", !.left = SynthesisPrompts, !.shown = clipped]
         ELSE Fails(@, @.ended[CHOOSE i \in FailedChunks(@) : \A k \in FailedChunks(@) : i <= k])]
  /\ UNCHANGED noteCache

SummaryNext ==
  \E r \in Summaries :
    \/ \E strategy \in Strategies, single \in BOOLEAN : SummaryBegins(r, strategy, single)
    \/ \E answer \in Answers : DirectAnswer(r, answer)
    \/ \E answer \in AskAnswers : AskAnswer(r, answer)
    \/ \E i \in ChunkNumbers : ChunkStarts(r, i)
    \/ \E i \in ChunkNumbers, answer \in AskAnswers : ChunkAnswer(r, i, answer)
    \/ ChunksEnd(r)

SummarySpec == SummaryInit /\ [][SummaryNext]_summaryVars

-----------------------------------------------------------------------------
\* What a prompt of the synthesis holds: a first part of the notes, the rest
\* being cut off (build_summary_synthesis_prompt on truncate_chars).
PromptNotes(request) == [i \in 1..request.shown |-> request.notes[i]]

\* Each prompt of a synthesis holds notes on the first chunks, in their order and
\* without a gap, and each was written for this transcript and these instructions,
\* whatever other requests left in the shared cache (build_summary_cache_key, and
\* the collect into one Result). That it holds the notes on every chunk is not
\* said: the clipping drops the last ones of a long transcript.
NotesAreOwn ==
  \A r \in Summaries :
    summary[r].at = "synthesis" =>
      /\ summary[r].shown \in 1..summary[r].count
      /\ PromptNotes(summary[r]) = [i \in 1..summary[r].shown |->
           [text |-> summary[r].text, mode |-> summary[r].mode, chunk |-> i]]

\* A summary fails because of its length only after the chunks were tried, or
\* when there is but one chunk.
LengthIsNoExcuse ==
  \A r \in Summaries :
    summary[r].at = "failed" /\ summary[r].why = "overflow"
      => summary[r].count = 1 \/ summary[r].tried = "chunks"

\* A summary from notes is made of those on its own text alone, in its own mode
\* and from the first chunk on, and a text that is too long alone is no reason to
\* give none (run_summary_pipeline).
SummaryIsOfItsText == NotesAreOwn /\ LengthIsNoExcuse
=============================================================================
