----------------------------- MODULE TextSamples ------------------------------
(***************************************************************************)
(* The inputs on which the operators of AudioPlans and Transcripts are      *)
(* checked. A sample is a recording or a text, and nothing happens to it.   *)
(***************************************************************************)
EXTENDS AudioPlans, Transcripts

VARIABLES
  sample   \* a record whose `of` names the operator it is a sample for

-----------------------------------------------------------------------------
\* A recording of nine frames, cut into two Whisper chunks that overlap, and
\* three utterances in it. The second chunk may hear them `late` frames late,
\* and each chunk may name a language or none.
Rising == {q \in [1..3 -> 0..7] : q[1] < q[2] /\ q[2] < q[3]}
SpokenSamples ==
  [of : {"chunks"}, starts : Rising, spans : [1..3 -> 2..3], cut : 3..5, late : 0..1,
   named : [1..2 -> {NoLanguage, "it", "en"}]]
Utterance(s, i) == <<s.starts[i], s.starts[i] + s.spans[i]>>
\* They follow each other within the recording.
FollowEachOther(s, end) ==
  \A i \in 1..3 : Utterance(s, i)[2] <= IF i = 3 THEN end ELSE s.starts[i + 1]
ChunkRange(s, c) == IF c = 1 THEN <<0, 5>> ELSE <<s.cut - 2, 9>>

\* What whisper-cli writes for chunk `c`: the utterances of which it holds all,
\* and what it makes of one at its edge.
ChunkArtifact(s, c) ==
  LET range == ChunkRange(s, c)
      by == IF c = 2 THEN s.late ELSE 0
      all == [i \in 1..3 |->
        LET whole == range[1] <= Utterance(s, i)[1] /\ Utterance(s, i)[2] <= range[2]
            none == Utterance(s, i)[2] <= range[1] \/ range[2] <= Utterance(s, i)[1]
            start == Max({Utterance(s, i)[1], range[1]}) - range[1] + by
        IN  [text |-> CASE whole -> <<i>> [] none -> <<>> [] OTHER -> <<10 * c + i>>,
             start |-> start, end |-> Min({Utterance(s, i)[2], range[2]}) - range[1] + by,
             language |-> s.named[c], words |-> <<>>]]
  IN  SelectSeq(all, LAMBDA u : u.text # <<>>)

Composed(s) ==
  ComposedBatch([c \in 1..2 |-> ChunkArtifact(s, c)], [c \in 1..2 |-> ChunkRange(s, c)[1]])

-----------------------------------------------------------------------------
\* A recording of eight frames in the windows of a Parakeet plan, words in it,
\* and the words each window does not find. Later windows may hear a frame late.
WindowSamples ==
  [of : {"windows"}, starts : Rising, spans : [1..3 -> 1..2],
   say : {<<1, 2, 1>>, <<1, 1, 2>>}, edges : {<<0, 4, 8>>, <<0, 3, 6, 8>>},
   deaf : 1..3, missed : {{}, {1}, {2}, {3}}, late : 0..WordTolerance]
SpokenWord(s, i) ==
  [say |-> s.say[i], start |-> Utterance(s, i)[1], end |-> Utterance(s, i)[2]]

Clip(s, k) == ClipFor(<<s.edges[k], s.edges[k + 1]>>, Last(s.edges))
Clips(s) == 1..(Len(s.edges) - 1)
Late(s, k) == IF k = 1 THEN 0 ELSE s.late
Hears(s, k, i) ==
  /\ Touches(SpokenWord(s, i), <<Clip(s, k).decode[1] + 1, Clip(s, k).decode[2] - 1>>, 0)
  /\ ~(k = s.deaf /\ i \in s.missed)
\* The worker's row for window `k`, in the time of its clip.
WorkerRow(s, k) ==
  LET from == Clip(s, k).decode[1]
      heard == SelectSeq(<<1, 2, 3>>, LAMBDA i : Hears(s, k, i))
      words == [n \in DOMAIN heard |->
        LET w == SpokenWord(s, heard[n])
        IN  [w EXCEPT !.start = @ - from + Late(s, k), !.end = @ - from + Late(s, k)]]
  IN  << [text |-> [n \in DOMAIN words |-> words[n].say], words |-> words, language |-> "it",
          start |-> NoTime, end |-> NoTime] >>
Merged(s) == MergedWindows([k \in Clips(s) |-> Committed(WorkerRow(s, k), Clip(s, k))])

-----------------------------------------------------------------------------
\* Lists of segments as an engine may return them.
SomeTexts == {<<1>>, <<1, 2>>}
SomeTimes == {<<NoTime, NoTime>>, <<0, 2>>, <<1, NoTime>>, <<3, 1>>, <<5, 6>>}
SomeSegments == {[text |-> text, start |-> time[1], end |-> time[2], language |-> language,
                  words |-> << [say |-> 1, start |-> time[2], end |-> time[1]] >>] :
                   text \in SomeTexts, time \in SomeTimes, language \in {NoLanguage, "it", "en"}}
SegmentSamples == [of : {"segments"}, list : [1..3 -> SomeSegments]]

\* Texts, and lengths of words for the chunks of a summary.
Characters == {"a", " ", ".", "nl"}
TextsUpTo(n) == UNION {[1..k -> Characters] : k \in 1..n}
PlainSamples == [of : {"text"}, text : TextsUpTo(6)]
LengthSamples ==
  [of : {"lengths"}, lengths : UNION {[1..k -> 1..3] : k \in 1..5}, target : 1..6, overlap : 0..3]

-----------------------------------------------------------------------------
\* Recordings to be cut up, by what is loud and by level.
LoudSamples == [of : {"loud"}, loud : [1..12 -> BOOLEAN]]
LevelSamples ==
  [of : {"levels"}, levels : [1..11 -> 0..1], target : {2, 4, 6}, resume : {0, 1, 3, 10}]

SampleInit ==
  \/ sample \in LoudSamples
  \/ sample \in LevelSamples
  \/ sample \in {s \in SpokenSamples : FollowEachOther(s, 9)}
  \/ sample \in {s \in WindowSamples : FollowEachOther(s, 8)}
  \/ sample \in SegmentSamples
  \/ sample \in PlainSamples
  \/ sample \in LengthSamples

-----------------------------------------------------------------------------
\* The chunks that Whisper is given hold all that is loud, wherever the pauses
\* are (write_whisper_chunks).
SpeechIsCovered == sample.of = "loud" => CoversSpeech(sample.loud)

\* No chunk is longer than the longest utterance by more than the search for a
\* quiet cut allows, and the chunks come in order (split_long_range). That it is
\* no longer than the thirty seconds of the model is not said: it may be.
ChunksFitTheModel == sample.of = "loud" => ChunksFit(sample.loud)

\* From every place where an attempt may resume, with every size of window, the
\* planned windows pass the validation that follows (prepare_long_file_chunks).
PlansAreValid ==
  sample.of = "levels" => PlansValidly(sample.levels, sample.target, sample.resume)

\* The plans of both engines: no speech is left out, no Whisper chunk exceeds
\* the longest utterance by more than the search for a cut allows, and the
\* Parakeet windows pass the check the worker applies.
PlansCoverSpeech == SpeechIsCovered /\ ChunksFitTheModel /\ PlansAreValid

\* Whether chunk `c` holds all of utterance `i`.
HoldsWhole(s, c, i) ==
  \E k \in DOMAIN ChunkArtifact(s, c) : ChunkArtifact(s, c)[k].text = <<i>>

\* Every utterance that a Whisper chunk holds whole is in the transcript in its
\* order and, whether one chunk or two heard it, exactly once, but for one that
\* two chunks heard in different languages: the copies of that one both stay. The
\* timeline does not run backwards (compose_batch_output and
\* normalize_transcript_segments).
UtterancesOnceInOrder ==
  sample.of = "chunks" =>
    LET out == Normalized(Composed(sample), 9)
        disputed == Conflicting(sample.named[1], sample.named[2])
        Copies(i) ==
          LET holders == {c \in 1..2 : HoldsWhole(sample, c, i)}
          IN  CASE holders = {} -> <<>>
                [] holders = {1, 2} /\ disputed -> <<i, i>>
                [] OTHER -> <<i>>
    IN  /\ SelectSeq(WordsOf(out), LAMBDA w : w < 10) = Copies(1) \o Copies(2) \o Copies(3)
        /\ \A i \in 2..Len(out) : out[i - 1].end <= out[i].start

\* A word that some window reports within its own part of the recording is in
\* the transcript, and as often as it was said ("Lossless merge"), when its
\* repetitions are further apart than the tolerance within which the same word
\* is taken for a second copy of the first: of a word said twice at once the
\* merge keeps one, also when a single window reports both.
CommittedWordsOnce ==
  sample.of = "windows" =>
    LET words == [i \in 1..3 |-> SpokenWord(sample, i)]
        Said(say) == {i \in 1..3 : words[i].say = say /\
          \E k \in Clips(sample) : Hears(sample, k, i) /\
            Touches([words[i] EXCEPT !.start = @ + Late(sample, k), !.end = @ + Late(sample, k)],
                    Clip(sample, k).commit, CommitTolerance)}
        apart == \A i, j \in 1..3 : i < j /\ words[i].say = words[j].say =>
                   words[i].end + sample.late + WordTolerance < words[j].start
        out == WordsOf(Normalized(Merged(sample), 8))
    IN  apart => \A say \in 1..2 :
          Len(SelectSeq(out, LAMBDA w : w = say)) = Cardinality(Said(say))

\* "Persist a non-overlapping timeline without changing text or segment order":
\* what is left of the list after its repetitions keeps its words, and each word
\* its language, and time does not run backwards.
TimelineKeepsText ==
  sample.of = "segments" =>
    LET out == Normalized(sample.list, 9)
    IN  /\ WordsWithLanguage(out) = WordsWithLanguage(Sanitized(sample.list))
        /\ \A i \in DOMAIN out :
             /\ out[i].start <= out[i].end
             /\ i > 1 => out[i - 1].end <= out[i].start

\* A text without times loses nothing but white space, and no segment exceeds
\* the limit by more than the one letter that follows a space (split_plain_text).
SplitKeepsText ==
  sample.of = "text" =>
    LET Ink(text) == SelectSeq(text, LAMBDA c : ~IsSpace(c))
        segments == SplitText(sample.text)
    IN  /\ Ink(FlattenSeq(segments)) = Ink(sample.text)
        /\ \A i \in DOMAIN segments : Len(segments[i]) \in 1..(SplitChars + 1)

\* The chunks of a summary hold every word, in order; each begins after
\* the one before it, and only a single long word exceeds the limit.
ChunksHoldText ==
  sample.of = "lengths" =>
    LET chunks == TextChunks(sample.lengths, 1, sample.target, sample.overlap)
    IN  /\ chunks[1][1] = 1 /\ Last(chunks)[2] = Len(sample.lengths) + 1
        /\ \A i \in DOMAIN chunks :
             /\ \/ CharsOf(sample.lengths, chunks[i][1], chunks[i][2]) <= sample.target
                \/ chunks[i][2] = chunks[i][1] + 1
             /\ i > 1 => /\ chunks[i][1] > chunks[i - 1][1] /\ chunks[i][1] <= chunks[i - 1][2]
                         /\ chunks[i][2] >= chunks[i - 1][2]

\* From the words an engine returns to the segments and chunks the rest of
\* the program reads, every utterance is kept once and in its order.
WordsAreKeptOnce ==
    UtterancesOnceInOrder /\ CommittedWordsOnce /\ TimelineKeepsText /\ SplitKeepsText /\ ChunksHoldText
=============================================================================
