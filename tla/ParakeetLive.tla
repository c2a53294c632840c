---------------------------- MODULE ParakeetLive -----------------------------
(***************************************************************************)
(* The Parakeet live engine (parakeet_realtime.rs): a capture thread that  *)
(* feeds a streaming decoder, and a recorder thread that writes the WAV    *)
(* and hands copies of the audio to the capture thread through a bounded   *)
(* queue.  Every start makes an engine of its own, named by its job.  A    *)
(* chunk of audio is a number; the text decoded from it has the same name. *)
(***************************************************************************)
EXTENDS Integers, Sequences, FiniteSets

CONSTANTS
    Engines,       \* an engine is named by the job that started it
    MaxChunks,     \* bound: chunks of audio one session captures
    QueueSize,     \* capacity of the inference queue (8 in the code)
    MaxBacklog,    \* PARAKEET_LIVE_MAX_BACKLOG_SECONDS, in chunks
    RestartAfter   \* PARAKEET_LIVE_NO_DELTA_RESTART_SECONDS, in chunks

ASSUME ParakeetAssumption ==
    /\ MaxChunks \in Nat /\ QueueSize \in Nat \ {0}
    /\ MaxBacklog \in Nat /\ RestartAfter \in Nat \ {0}

VARIABLE parakeet   \* silent: chunks that gave no text, silence or a pause

Chunks == 1 .. MaxChunks
Seeded == 0   \* the text of an artifact the session resumes

NewEngine ==
    [worker |-> "none", running |-> FALSE, paused |-> FALSE,
     shutdown |-> FALSE, owned |-> FALSE, error |-> "none",
     recorded |-> 0, wav |-> "none", queue |-> <<>>, full |-> FALSE,
     fed |-> 0, silent |-> {}, degraded |-> FALSE, quiet |-> 0,
     current |-> {}, transcript |-> {}, stream |-> "closed"]

ParakeetErrors == {"none", "failed", "degraded"}

ParakeetTypeOK ==
    parakeet \in [Engines ->
        [worker : {"none", "loading", "capturing", "finishing", "ended"},
         running : BOOLEAN, paused : BOOLEAN, shutdown : BOOLEAN,
         owned : BOOLEAN, error : ParakeetErrors,
         recorded : 0 .. MaxChunks, wav : {"none", "open", "whole", "torn"},
         queue : UNION {[1 .. n -> Chunks] : n \in 0 .. QueueSize},
         full : BOOLEAN, fed : 0 .. MaxChunks, silent : SUBSET Chunks,
         degraded : BOOLEAN, quiet : 0 .. RestartAfter,
         current : SUBSET Chunks, transcript : SUBSET (Chunks \cup {Seeded}),
         stream : {"closed", "open", "freed", "freed twice"}]]

-----------------------------------------------------------------------------
(* Operators of one engine record. *)

\* Start: the worker thread exists, the state is still locked and unchanged.
SpawnWorker(p) == [p EXCEPT !.worker = "loading"]

\* Start returns Ok: the shared buffers are the fresh ones of this worker.
Started(p) ==
    [p EXCEPT !.worker = "capturing", !.running = TRUE, !.paused = FALSE,
              !.owned = TRUE, !.transcript = {}, !.wav = "open",
              !.stream = "open"]

\* LivePreviewGate::allow_feed: everything captured counts, what a pause
\* kept from the decoder included.
AllowFeed(p) == ~p.degraded /\ p.recorded - p.fed <= MaxBacklog

FinishSegment(p) ==
    [p EXCEPT !.transcript = p.transcript \cup p.current, !.current = {}]

\* push_delta of a chunk; an end of utterance or a language marker closes
\* the segment.
PushDelta(p, chunk, text, eou) ==
    LET heard == [p EXCEPT !.fed = @ + 1,
                           !.current = IF text THEN @ \cup {chunk} ELSE @,
                           !.silent = IF text THEN @ ELSE @ \cup {chunk},
                           !.quiet = IF text THEN 0 ELSE @ + 1]
    IN IF eou THEN FinishSegment(heard) ELSE heard

\* The capture thread ends with an error: the recorder is joined first, so
\* the WAV is whole unless the recorder is what failed.
EndWith(p, error) ==
    [p EXCEPT !.worker = "ended", !.error = error, !.queue = <<>>,
              !.wav = IF @ = "open" THEN "whole" ELSE @,
              !.stream = IF @ = "freed" THEN "freed twice" ELSE "freed"]

\* stop collects what the worker left, or its error.
Collected(p) == [p EXCEPT !.running = FALSE, !.paused = FALSE]

-----------------------------------------------------------------------------
(* Steps of the two threads of engine e. *)

Become(e, p) == parakeet' = [parakeet EXCEPT ![e] = p]

\* The recorder writes a chunk; a full queue never costs a sample.
Record(e) ==
    LET p == parakeet[e] IN
    /\ p.worker = "capturing" /\ p.wav = "open"
    /\ p.recorded < MaxChunks
    /\ Become(e, [p EXCEPT !.recorded = @ + 1,
                           !.queue = IF Len(@) < QueueSize
                                     THEN Append(@, p.recorded + 1) ELSE @,
                           !.full = @ \/ Len(p.queue) = QueueSize])

RecorderFails(e) ==
    /\ parakeet[e].worker \in {"capturing", "finishing"}
    /\ parakeet[e].wav = "open"
    /\ Become(e, [parakeet[e] EXCEPT !.wav = "torn"])

\* One pass of the capture loop over a chunk: degraded by a full queue or by
\* the gate, silent while paused, else decoded.
Consume(e, text, eou) ==
    LET p == [parakeet[e] EXCEPT !.degraded = @ \/ parakeet[e].full] IN
    /\ p.worker = "capturing" /\ ~p.shutdown /\ p.wav = "open"
    /\ p.queue # <<>>
    /\ LET rest == [p EXCEPT !.queue = Tail(@)]
           next == IF p.paused
                   THEN [rest EXCEPT !.silent = @ \cup {Head(p.queue)}]
                   ELSE IF AllowFeed(p)
                        THEN PushDelta(rest, Head(p.queue), text, eou)
                        ELSE [rest EXCEPT !.degraded = TRUE]
       IN /\ next.quiet < RestartAfter
          /\ Become(e, next)

\* The check after a decoded chunk sees what was recorded during the decoding.
FallsBehind(e) ==
    /\ parakeet[e].worker = "capturing" /\ ~parakeet[e].paused
    /\ parakeet[e].fed > 0 /\ parakeet[e].recorded - parakeet[e].fed > MaxBacklog
    /\ ~parakeet[e].degraded
    /\ Become(e, [parakeet[e] EXCEPT !.degraded = TRUE])

\* After a long time without text the decoder's stream is freed and begun
\* again; that may fail, with the old stream already freed.
RestartStream(e) ==
    LET p == parakeet[e] IN
    /\ p.worker = "capturing" /\ ~p.shutdown /\ p.queue # <<>>
    /\ ~p.paused /\ AllowFeed(p) /\ ~p.full
    /\ p.quiet + 1 = RestartAfter
    /\ LET fed == PushDelta([p EXCEPT !.queue = Tail(@)], Head(p.queue),
                            FALSE, FALSE)
       IN \/ Become(e, [FinishSegment(fed) EXCEPT !.quiet = 0])
          \/ Become(e, EndWith([FinishSegment(fed) EXCEPT !.quiet = 0,
                                                          !.stream = "freed"],
                               "failed"))

FeedFails(e) ==
    LET p == parakeet[e] IN
    /\ p.worker = "capturing" /\ ~p.shutdown /\ p.queue # <<>>
    /\ ~p.paused /\ AllowFeed(p) /\ ~p.full
    /\ Become(e, EndWith(p, "failed"))

SeesRecorderError(e) ==
    /\ parakeet[e].worker = "capturing" /\ ~parakeet[e].shutdown
    /\ parakeet[e].wav = "torn"
    /\ Become(e, EndWith(parakeet[e], "failed"))

\* Shutdown: the microphone is closed, the recorder writes its tail.
BreaksOut(e) ==
    /\ parakeet[e].worker = "capturing"
    /\ parakeet[e].shutdown
    /\ Become(e, [parakeet[e] EXCEPT !.worker = "finishing"])

\* Mutant: what the recorder could not queue is forgotten at the end.
FinishesUndegraded(e) ==
    LET p == parakeet[e]
        left == {p.queue[i] : i \in DOMAIN p.queue}
    IN
    /\ p.worker = "finishing"
    /\ Become(e, EndWith(FinishSegment([p EXCEPT !.current = @ \cup left,
                                                !.fed = @ + Cardinality(left)]),
                         IF p.wav = "torn" THEN "failed"
                         ELSE IF p.degraded THEN "degraded" ELSE "none"))

\* What is left in the queue is decoded, paused or not, the stream finalized
\* and the last segment closed; a degraded session ends as an error.
Finishes(e) ==
    LET p    == [parakeet[e] EXCEPT !.degraded = @ \/ parakeet[e].full]
        left == {p.queue[i] : i \in DOMAIN p.queue}
        done == FinishSegment(
                    IF p.degraded THEN p
                    ELSE [p EXCEPT !.current = @ \cup left,
                                   !.fed = @ + Cardinality(left)])
    IN
    /\ p.worker = "finishing"
    /\ \/ p.wav = "torn" /\ Become(e, EndWith(p, "failed"))
       \/ p.wav = "open" /\ p.degraded /\ Become(e, EndWith(done, "degraded"))
       \/ p.wav = "open" /\ ~p.degraded /\ Become(e, EndWith(done, "none"))
       \/ p.wav = "open" /\ Become(e, EndWith(p, "failed"))

ParakeetNext ==
    \E e \in Engines :
        \/ Record(e)
        \/ RecorderFails(e)
        \/ \E text, eou \in BOOLEAN : (eou => text) /\ Consume(e, text, eou)
        \/ FallsBehind(e)
        \/ RestartStream(e)
        \/ FeedFails(e)
        \/ SeesRecorderError(e)
        \/ BreaksOut(e)
        \/ Finishes(e)
=============================================================================
