----------------------------- MODULE AudioPlans ------------------------------
(***************************************************************************)
(* How a recording is cut up before it is transcribed: the chunks that      *)
(* WhisperCppEngine gives to whisper-cli and the windows that               *)
(* ParakeetCppEngine gives to its batch worker. Time is counted in frames;  *)
(* a range is a pair of frames, the second one beyond its end. A recording  *)
(* is the sequence of the levels of its frames, of which the Whisper plan   *)
(* sees only whether they are above the threshold.                          *)
(***************************************************************************)
EXTENDS Integers, Sequences, SequencesExt, FiniteSetsExt

CONSTANTS
  SilenceSplit, MinUtterance, AggregateTarget, MaxUtterance, Margin, ChunkOverlap, Second,
  MinCommit, HardMaxDecode, Context, TailPad, SnapRadius

ASSUME PlanAssumption ==
  /\ {SilenceSplit, MinUtterance, AggregateTarget, MaxUtterance, Margin, ChunkOverlap, Second,
      MinCommit, HardMaxDecode, Context, TailPad, SnapRadius} \subseteq Nat
  /\ SilenceSplit > 0 /\ MinCommit > 0
  \* What the constants of whisper_cpp.rs and parakeet_cpp.rs satisfy.
  /\ AggregateTarget + 2 * Margin <= MaxUtterance
  /\ Second <= MaxUtterance \div 4 /\ ChunkOverlap + 1 < MaxUtterance - Second
  /\ MinCommit + 2 * Context <= HardMaxDecode

Span(range) == range[2] - range[1]
Within(t, range) == range[1] <= t /\ t < range[2]

-----------------------------------------------------------------------------
(* Whisper *)

\* speech_ranges: speech goes on over less than SilenceSplit quiet frames; the
\* last range goes on to the end of the recording.
SpeechRanges(loud) ==
  LET none == [start |-> -1, lastLoud |-> 0, quiet |-> 0, ranges |-> <<>>]
      Frame(acc, t) ==
        CASE loud[t + 1] -> [acc EXCEPT !.start = IF @ = -1 THEN t ELSE @,
                                        !.lastLoud = t, !.quiet = 0]
          [] ~loud[t + 1] /\ acc.start # -1 /\ acc.quiet + 1 >= SilenceSplit ->
               [none EXCEPT !.ranges = Append(acc.ranges, <<acc.start, acc.lastLoud + 1>>)]
          [] ~loud[t + 1] /\ acc.start # -1 /\ acc.quiet + 1 < SilenceSplit ->
               [acc EXCEPT !.quiet = @ + 1]
          [] OTHER -> acc
      all == FoldLeft(Frame, none, [i \in 1..Len(loud) |-> i - 1])
  IN  IF all.start = -1 THEN all.ranges ELSE Append(all.ranges, <<all.start, Len(loud)>>)

\* merge_short_speech_ranges: a short utterance joins the one before it, the
\* first one the one after it.
RECURSIVE MergeShortFrom(_, _)
MergeShortFrom(ranges, i) ==
  CASE i > Len(ranges) -> ranges
    [] i <= Len(ranges) /\ Span(ranges[i]) >= MinUtterance -> MergeShortFrom(ranges, i + 1)
    [] i <= Len(ranges) /\ Span(ranges[i]) < MinUtterance /\ i > 1 ->
         MergeShortFrom(RemoveAt([ranges EXCEPT ![i - 1] = <<@[1], ranges[i][2]>>], i), i - 1)
    [] i = 1 /\ Len(ranges) > 1 /\ Span(ranges[i]) < MinUtterance ->
         MergeShortFrom(Tail([ranges EXCEPT ![2] = <<ranges[1][1], @[2]>>]), 1)
    [] OTHER -> ranges
MergeShort(ranges) == IF Len(ranges) < 2 THEN ranges ELSE MergeShortFrom(ranges, 1)

\* aggregate_speech_ranges: neighbours share a window while its span allows.
AggregateRanges(ranges) ==
  LET Next(acc, range) ==
        IF acc # <<>> /\ range[2] - Last(acc)[1] <= AggregateTarget
          THEN Append(Front(acc), <<Last(acc)[1], range[2]>>)
          ELSE Append(acc, range)
  IN  FoldLeft(Next, <<>>, ranges)

\* How far from the end of a full window the quiet frame may be.
CutWindow == Min({Second, MaxUtterance \div 4})

\* The quietest frame near the end of a full window, the first of them.
CutIn(loud, cursor, end) ==
  LET target == cursor + MaxUtterance
      candidates == Max({target - CutWindow, cursor + 1})..Min({target + CutWindow, end - 1})
      quiet == {t \in candidates : ~loud[t + 1]}
  IN  CASE candidates = {} -> target
        [] candidates # {} /\ quiet # {} -> Min(quiet)
        [] OTHER -> Min(candidates)

\* Mutant: the next part begins after the cut instead of before it.
NextPart(cut) == cut + ChunkOverlap
\* The parts of a long range overlap, for the decoder's context.
PartAfter(cut) == cut - ChunkOverlap

\* split_long_range.
RECURSIVE SplitLong(_, _, _)
SplitLong(loud, start, end) ==
  IF end - start <= MaxUtterance
    THEN IF start < end THEN << <<start, end>> >> ELSE <<>>
    ELSE LET cut == CutIn(loud, start, end)
         IN  << <<start, cut>> >> \o SplitLong(loud, PartAfter(cut), end)

\* write_whisper_chunks: the whole recording when nothing is loud, otherwise the
\* windows with their margins, the long ones split.
WhisperPlan(loud) ==
  LET speech == SpeechRanges(loud)
      base == IF speech = <<>> THEN << <<0, Len(loud)>> >>
              ELSE AggregateRanges(MergeShort(speech))
      WithMargin(range) == <<Max({range[1] - Margin, 0}), Min({range[2] + Margin, Len(loud)})>>
  IN  FlattenSeq([i \in 1..Len(base) |->
        LET range == WithMargin(base[i]) IN SplitLong(loud, range[1], range[2])])

-----------------------------------------------------------------------------
(* Parakeet *)

\* quietest_boundary: the quietest frame in from..to, the nearest to `ideal`.
QuietestBoundary(levels, ideal, from, to) ==
  LET last == Len(levels) - 1
      lo == Min({from, last})
      hi == Min({to, last})
      quietest == {t \in lo..hi : \A u \in lo..hi : levels[t + 1] <= levels[u + 1]}
      Far(t) == IF t < ideal THEN ideal - t ELSE t - ideal
  IN  IF lo >= hi THEN lo ELSE CHOOSE t \in quietest : \A u \in quietest :
                                  Far(t) < Far(u) \/ (Far(t) = Far(u) /\ t <= u)

MaxCommit == Max({HardMaxDecode - 2 * Context, MinCommit})

\* The end of the window that begins at `cursor`: searched backwards only, so
\* that the window does not grow, and not below the smallest window.
BoundaryAfter(levels, cursor, target) ==
  LET ideal == cursor + target
      least == Min({cursor + MinCommit, Len(levels)})
  IN  QuietestBoundary(levels, ideal, Min({Max({ideal - SnapRadius, least}), Len(levels)}),
                       Min({ideal, cursor + MaxCommit, Len(levels)}))

RECURSIVE Boundaries(_, _, _)
Boundaries(levels, cursor, target) ==
  IF Len(levels) - cursor <= target
    THEN <<cursor, Len(levels)>>
    ELSE <<cursor>> \o Boundaries(levels, BoundaryAfter(levels, cursor, target), target)

\* The clip for one window: context on both sides as far as the budget goes,
\* then silence after the end of the recording.
ClipFor(commit, total) ==
  LET budget == HardMaxDecode - Span(commit)
      left == Min({Context, commit[1], budget})
      right == Min({Context, total - commit[2], budget - left})
      pad == IF commit[2] = total THEN Min({TailPad, budget - left - right}) ELSE 0
  IN  [commit |-> commit, decode |-> <<commit[1] - left, commit[2] + right + pad>>]

\* prepare_long_file_chunks_from_offset.
ParakeetPlan(levels, target, resume) ==
  LET size == Min({Max({target, MinCommit}), MaxCommit})
      edges == Boundaries(levels, resume, size)
  IN  [i \in 1..(Len(edges) - 1) |-> ClipFor(<<edges[i], edges[i + 1]>>, Len(levels))]

\* validate_audio_chunks_from_start: what the planner and the manifest check.
ValidClip(clip) ==
  /\ clip.decode[1] >= 0 /\ Span(clip.commit) > 0
  /\ clip.decode[1] <= clip.commit[1] /\ clip.commit[2] <= clip.decode[2]
  /\ Span(clip.decode) <= HardMaxDecode
ValidPlan(plan, start, end) ==
  /\ plan # <<>>
  /\ \A i \in DOMAIN plan :
       /\ ValidClip(plan[i])
       /\ i > 1 => plan[i - 1].decode[1] <= plan[i].decode[1]
       /\ plan[i].commit[1] = IF i = 1 THEN start ELSE plan[i - 1].commit[2]
  /\ Last(plan).commit[2] = end

-----------------------------------------------------------------------------
\* The chunks hold all that is loud, wherever the pauses are.
CoversSpeech(loud) ==
  LET plan == WhisperPlan(loud)
  IN  \A t \in 0..(Len(loud) - 1) : loud[t + 1] => \E i \in DOMAIN plan : Within(t, plan[i])

\* No chunk exceeds the longest utterance by more than the search for a quiet
\* cut allows, which goes beyond the end of a full window as well as before it,
\* and the chunks come in order of their beginnings.
ChunksFit(loud) ==
  LET plan == WhisperPlan(loud)
  IN  /\ \A i \in DOMAIN plan : 0 < Span(plan[i]) /\ Span(plan[i]) <= MaxUtterance + CutWindow
      /\ \A i \in 1..(Len(plan) - 1) : plan[i][1] < plan[i + 1][1]

\* From every place where an attempt may resume, and for every window size, the
\* plan passes the validation that follows it.
PlansValidly(levels, target, resume) ==
  ValidPlan(ParakeetPlan(levels, target, resume), resume, Len(levels))
=============================================================================
