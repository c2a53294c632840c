----------------------------- MODULE Transcripts ------------------------------
(***************************************************************************)
(* How the texts of the parts of a recording become one transcript: the     *)
(* merge of Whisper's overlapping chunks (adapters/whisper_cpp.rs), the     *)
(* merge of Parakeet's windows (adapters/parakeet_cpp.rs), the segments     *)
(* both of them end in (adapters/transcript_segmentation.rs and             *)
(* crates/domain/src/transcript_cleanup.rs), and the chunks a text is cut   *)
(* into for a summary (crates/application/src/summary_pipeline.rs).         *)
(*                                                                         *)
(* A text is a sequence of words, a word a number: its case, its spelling   *)
(* and its length in letters are left out, so that the limits in letters    *)
(* are limits in words. Times are in frames; speakers are left out.         *)
(***************************************************************************)
EXTENDS Integers, Sequences, SequencesExt, FiniteSetsExt

CONSTANTS
  MinDuplicateWords, \* what is long enough to be taken for a repetition
  DuplicateGap,      \* MAX_DUPLICATE_GAP_SECONDS
  GapBreak,          \* GAP_BREAK_SECONDS
  SegmentWords,      \* MAX_TIMED_SEGMENT_CHARS
  SegmentTime,       \* MAX_TIMED_SEGMENT_DURATION_SECONDS
  WordTolerance,     \* WORD_DUPLICATE_TOLERANCE_SECONDS
  CommitTolerance,   \* OVERLAP_DEDUPE_TOLERANCE_SECONDS
  SplitChars,        \* MAX_UNTIMED_SEGMENT_CHARS
  SplitWords,        \* MAX_UNTIMED_SEGMENT_WORDS
  FewWords,          \* MIN_UNTIMED_SEGMENT_WORDS
  SentenceWords,     \* MIN_TERMINAL_SEGMENT_WORDS
  TailWords          \* the words of a segment that is not a short tail

ASSUME TranscriptAssumption ==
  /\ {MinDuplicateWords, DuplicateGap, GapBreak, SegmentWords, SegmentTime, WordTolerance,
      CommitTolerance, SplitChars, SplitWords, FewWords, SentenceWords, TailWords} \subseteq Nat
  /\ FewWords <= SplitWords /\ SplitWords > 1 /\ SplitChars > 1

\* A time that is not known, a language that is not known.
NoTime == -1
NoLanguage == "und"

Known(time) == time # NoTime
OrElse(time, other) == IF Known(time) THEN time ELSE other
Later(a, b) == IF a >= b THEN a ELSE b
TimedWords(words, by) == [i \in DOMAIN words |->
  [words[i] EXCEPT !.start = @ + by, !.end = @ + by]]

\* offset_segments and offset_transcription_output.
Moved(segment, by) ==
  [segment EXCEPT !.start = IF Known(@) THEN @ + by ELSE @, !.end = IF Known(@) THEN @ + by ELSE @,
                  !.words = TimedWords(@, by)]

\* The words of a list of segments, each with the language of its segment.
WordsWithLanguage(segments) ==
  FlattenSeq([i \in DOMAIN segments |->
    [k \in DOMAIN segments[i].text |-> <<segments[i].text[k], segments[i].language>>]])
WordsOf(segments) == FlattenSeq([i \in DOMAIN segments |-> segments[i].text])

-----------------------------------------------------------------------------
(* Segments: normalize_transcript_segments. *)

IsSubstantive(text) == Len(text) >= MinDuplicateWords
Conflicting(a, b) == a # NoLanguage /\ b # NoLanguage /\ a # b

\* should_collapse_segment_pair.
Repeats(left, right) ==
  /\ left.text = right.text /\ IsSubstantive(left.text)
  /\ ~Conflicting(left.language, right.language)
  /\ Known(left.end) /\ Known(right.start) => right.start <= left.end + DuplicateGap

\* collapse_consecutive_repeated_segments: the first of them stays, longer.
Collapse(segments) ==
  LET Next(acc, s) ==
        IF acc = <<>> \/ ~Repeats(Last(acc), s) THEN Append(acc, s)
        ELSE Append(Front(acc), [Last(acc) EXCEPT !.end = Later(@, s.end),
               !.start = OrElse(@, s.start),
               !.language = IF @ = NoLanguage THEN s.language ELSE @])
  IN  FoldLeft(Next, <<>>, segments)

\* sanitize_segments: empty segments go, an end before its start is moved to it.
Sanitized(segments) ==
  LET Ordered(s) == IF Known(s.start) /\ Known(s.end) /\ s.end < s.start
                    THEN [s EXCEPT !.end = s.start] ELSE s
      kept == SelectSeq(segments, LAMBDA s : s.text # <<>>)
  IN  Collapse([i \in DOMAIN kept |-> Ordered(kept[i])])

\* should_break_before_next, its punctuation left out.
BreaksBefore(current, next) ==
  \/ current.language # next.language
  \/ Len(current.text) + Len(next.text) > SegmentWords
  \/ Known(current.start) /\ Known(current.end) /\ current.end - current.start >= SegmentTime
  \/ Known(current.end) /\ Known(next.start) /\ next.start - current.end > GapBreak

\* merge_two_segments and merge_timed_segments.
Joined(left, right) ==
  [left EXCEPT !.text = @ \o right.text, !.start = OrElse(@, right.start),
               !.end = OrElse(right.end, @), !.words = @ \o right.words]
MergedSegments(segments) ==
  LET Next(acc, s) ==
        IF acc = <<>> \/ BreaksBefore(Last(acc), s) THEN Append(acc, s)
        ELSE Append(Front(acc), Joined(Last(acc), s))
  IN  FoldLeft(Next, <<>>, segments)

\* One step of clamp_timeline_monotonic: nothing begins before the cursor.
InPlace(item, cursor) ==
  LET start == Later(OrElse(item.start, cursor), cursor)
  IN  [item EXCEPT !.start = start, !.end = Later(OrElse(@, start), start)]

ClampedWords(words, from) ==
  FoldLeft(LAMBDA acc, w : Append(acc, InPlace(w, IF acc = <<>> THEN from ELSE Last(acc).end)),
           <<>>, words)
Clamped(segments) ==
  LET Next(acc, s) ==
        LET placed == InPlace(s, IF acc = <<>> THEN 0 ELSE Last(acc).end)
        IN  Append(acc, [placed EXCEPT !.words = ClampedWords(@, placed.start)])
  IN  FoldLeft(Next, <<>>, segments)

\* infer_timings_for_language_marked_segments: the time is shared out by words.
Inferred(segments, total) ==
  LET words == Len(WordsOf(segments))
      Share(i) == IF i = Len(segments) THEN total
                  ELSE (total * Len(WordsOf(SubSeq(segments, 1, i)))) \div words
  IN  [i \in DOMAIN segments |->
        [segments[i] EXCEPT !.start = IF i = 1 THEN 0 ELSE Share(i - 1), !.end = Share(i)]]

\* The two ways that keep the segments of the model: with a time somewhere, or
\* with a language somewhere. The third one is SplitText.
Normalized(segments, total) ==
  LET clean == Sanitized(segments)
  IN  IF \E i \in DOMAIN clean : Known(clean[i].start) \/ Known(clean[i].end)
        THEN Clamped(MergedSegments(clean))
        ELSE Inferred(clean, total)

-----------------------------------------------------------------------------
(* Whisper: compose_batch_output. *)

Overlapping(a, b) == a.start < b.end /\ b.start < a.end

IsCopy(previous, s) ==
  /\ previous.text = s.text /\ Overlapping(previous, s)
  /\ ~Conflicting(previous.language, s.language)

\* deduplicate_overlapping_segments: the last three are compared.
Deduplicated(segments) ==
  LET Next(acc, s) ==
        LET copies == {i \in Later(Len(acc) - 2, 1)..Len(acc) : IsCopy(acc[i], s)}
        IN  IF copies = {} THEN Append(acc, s)
            ELSE [acc EXCEPT ![Max(copies)].language = IF @ = NoLanguage THEN s.language ELSE @]
  IN  FoldLeft(Next, <<>>, SortSeq(segments, LAMBDA a, b : a.start < b.start))

\* clamp_segment_timestamps_monotonic: a segment that begins too early moves.
ShiftedForward(segments) ==
  LET Next(acc, s) ==
        LET ends == {acc[i].end : i \in DOMAIN acc}
            cursor == IF acc = <<>> THEN 0 ELSE Max(ends)
        IN  Append(acc, IF s.start < cursor THEN Moved(s, cursor - s.start) ELSE s)
  IN  FoldLeft(Next, <<>>, segments)

\* The text field of the output: minimize_transcript_repetitions drops a line
\* that repeats the line before it. No line of a batch is empty.
Minimized(lines) ==
  FoldLeft(LAMBDA acc, line : IF acc # <<>> /\ IsSubstantive(line) /\ Last(acc) = line
                              THEN acc ELSE Append(acc, line), <<>>, lines)

\* The artifacts of the chunks, each moved to the beginning of its chunk.
ComposedBatch(artifacts, starts) ==
  LET moved == FlattenSeq([c \in DOMAIN artifacts |->
                 [i \in DOMAIN artifacts[c] |-> Moved(artifacts[c][i], starts[c])]])
  IN  ShiftedForward(Deduplicated(moved))

-----------------------------------------------------------------------------
(* Parakeet: the rows of the worker. *)

Touches(item, range, tolerance) ==
  item.end >= range[1] - tolerance /\ item.start <= range[2] + tolerance

FromWords(segment, words) ==
  [segment EXCEPT !.words = words, !.text = [i \in DOMAIN words |-> words[i].say],
                  !.start = IF words = <<>> THEN @ ELSE words[1].start,
                  !.end = IF words = <<>> THEN @ ELSE Last(words).end]

\* filter_transcription_to_commit_window: the context of a window goes.
InCommitWindow(segments, commit) ==
  LET Kept(s) == FromWords(s, SelectSeq(s.words, LAMBDA w : Touches(w, commit, CommitTolerance)))
      all == [i \in DOMAIN segments |-> Kept(segments[i])]
  IN  SelectSeq(all, LAMBDA s : s.words # <<>>)

\* Mutant: a word is a duplicate when it begins before the end of what is
\* committed, the rule the comment calls the old `committed_until` cutoff.
IsBeforeCommitted(word, language, keys) == \E k \in keys : word.start < k.end

\* A word already committed: the same text at about the same time.
IsCommitted(word, language, keys) ==
  \E k \in keys :
    /\ k.say = word.say /\ ~Conflicting(k.language, language)
    /\ word.start <= k.end + WordTolerance /\ word.end >= k.start - WordTolerance

\* merge_chunk_transcriptions_snapshot.
MergedWindows(outputs) ==
  LET Key(w, language) == [say |-> w.say, start |-> w.start, end |-> w.end, language |-> language]
      Next(acc, s) ==
        LET Word(a, w) ==
              IF IsCommitted(w, s.language, a.keys) THEN a
              ELSE [keys |-> a.keys \cup {Key(w, s.language)}, words |-> Append(a.words, w)]
            fresh == FoldLeft(Word, [keys |-> acc.keys, words |-> <<>>], s.words)
        IN  [keys |-> fresh.keys,
             segments |-> IF fresh.words = <<>> THEN acc.segments
                          ELSE Append(acc.segments, FromWords(s, fresh.words))]
  IN  FoldLeft(Next, [keys |-> {}, segments |-> <<>>], FlattenSeq(outputs)).segments

\* What a worker's row becomes, `clip` as in AudioPlans.
Committed(row, clip) ==
  InCommitWindow([i \in DOMAIN row |-> Moved(row[i], clip.decode[1])], clip.commit)

-----------------------------------------------------------------------------
(* A text without times: split_plain_text. A character is a letter, a space, *)
(* a full stop or the end of a line.                                         *)

IsSpace(c) == c \in {" ", "nl"}
Trimmed(text) ==
  LET ink == {i \in DOMAIN text : ~IsSpace(text[i])}
  IN  IF ink = {} THEN <<>> ELSE SubSeq(text, Min(ink), Max(ink))
WordCount(text) ==
  Cardinality({i \in DOMAIN text : ~IsSpace(text[i]) /\ (i = 1 \/ IsSpace(text[i - 1]))})
EndsSentence(text) == text # <<>> /\ Last(text) = "."

\* collapse_whitespace.
Squeezed(text) ==
  FoldLeft(LAMBDA acc, c : IF IsSpace(c) /\ Last(acc) = " " THEN acc ELSE Append(acc, c),
           <<>>, Trimmed(text))

\* flush_segment.
Flushed(acc) ==
  IF Trimmed(acc.current) = <<>> THEN acc.segments ELSE Append(acc.segments, Squeezed(acc.current))

SplitAt(acc, c) ==
  LET flush == [segments |-> Flushed(acc), current |-> <<>>]
      longer == [acc EXCEPT !.current = Append(@, c)]
      text == Trimmed(longer.current)
      full == \/ EndsSentence(text) /\ WordCount(text) >= SentenceWords
              \/ WordCount(text) >= SplitWords \/ Len(text) >= SplitChars
  IN  CASE c = "nl" /\ Trimmed(acc.current) = <<>> -> [acc EXCEPT !.current = <<>>]
        [] c = "nl" /\ Trimmed(acc.current) # <<>> ->
             IF WordCount(acc.current) >= FewWords \/ EndsSentence(Trimmed(acc.current)) THEN flush
             ELSE [acc EXCEPT !.current = IF IsSpace(Last(@)) THEN @ ELSE Append(@, " ")]
        [] c # "nl" /\ text # <<>> /\ full ->
             [segments |-> Flushed(longer), current |-> <<>>]
        [] OTHER -> longer

\* merge_short_tail_segments, its limit on the letters of the tail left out.
TailsMerged(segments) ==
  LET Next(acc, s) ==
        IF /\ acc # <<>> /\ WordCount(s) < TailWords /\ ~EndsSentence(s)
           /\ Len(Last(acc)) + 1 + Len(s) <= SplitChars
          THEN Append(Front(acc), Last(acc) \o <<" ">> \o s)
          ELSE Append(acc, s)
  IN  FoldLeft(Next, <<>>, segments)

SplitText(text) ==
  TailsMerged(Flushed(FoldLeft(SplitAt, [segments |-> <<>>, current |-> <<>>], text)))

-----------------------------------------------------------------------------
(* The chunks of a summary: chunk_text_by_target_chars. `lengths` are the    *)
(* lengths of the words, a chunk is its first word and the one beyond.       *)

CharsOf(lengths, start, end) ==
  FoldLeft(LAMBDA a, i : a + lengths[i] + (IF i = start THEN 0 ELSE 1), 0,
           [k \in 1..(end - start) |-> start + k - 1])
ChunkEnd(lengths, start, target) ==
  Max({start + 1} \cup {e \in (start + 1)..(Len(lengths) + 1) : CharsOf(lengths, start, e) <= target})

NextStart(start, end, overlap) == IF end - overlap <= start THEN end ELSE end - overlap

RECURSIVE TextChunks(_, _, _, _)
TextChunks(lengths, start, target, overlap) ==
  LET end == ChunkEnd(lengths, start, target)
  IN  << <<start, end>> >> \o
        IF end > Len(lengths) THEN <<>>
        ELSE TextChunks(lengths, NextStart(start, end, overlap), target, overlap)
=============================================================================
