-------------------------- MODULE LiveSessionsProofs --------------------------
(***************************************************************************)
(* Live sessions for any number of ids, utterances and chunks, and for all *)
(* sizes of the queue and the backlog: OneSessionAtATime and               *)
(* SavedSpeechIsTrue.                                                      *)
(*                                                                         *)
(* The invariant has a part for each actor. StreamIsTrue and EngineIsTrue  *)
(* follow one engine: what it has heard and not lost. CaptureIsKnown and   *)
(* FinaliserIsKnown follow the commands: whose engine is alive, and what   *)
(* the one open stop has taken. KeptIsTrue is about the texts that are     *)
(* saved or about to be; their words are older than any session to come,   *)
(* which is what lets a session begin from one of them.                    *)
(***************************************************************************)
EXTENDS LiveSessions, SequenceTheorems, FiniteSetTheorems, TLAPS

Ids == Jobs \cup {0}

-----------------------------------------------------------------------------
(* What the engines are. *)

Stream ==
  [session : Ids, proc : {"none", "alive", "ok", "crashed"}, owned : BOOLEAN, readers : 0..2,
   running : BOOLEAN, paused : BOOLEAN, stopping : BOOLEAN,
   startup : {"none", "waiting", "ready", "failed"}, error : WhisperErrors,
   lines : Seq(Words), preview : Words \cup {NoWord}, segments : SUBSET Words,
   said : 0..MaxWords, broken : BOOLEAN, reloaded : BOOLEAN]

\* A failure is noted, or the engine still owns the child that failed.
FailureIsNoted(w) ==
  w.broken /\ ~w.reloaded => w.error # "none" \/ (w.owned /\ w.proc = "crashed")

\* The lines: no word twice; what this session said has its segment, and is at
\* most what it has said so far, the last of that only as the last line.
LinesAreTrue(w) ==
  /\ \A i, k \in 1..Len(w.lines) : w.lines[i] = w.lines[k] => i = k
  /\ ~w.reloaded =>
       \A i \in 1..Len(w.lines) : w.lines[i][1] = w.session => w.lines[i] \in w.segments
  /\ w.proc # "none" => w.session # 0 /\
       \A i \in 1..Len(w.lines) : w.lines[i][1] = w.session =>
         w.lines[i][2] <= w.said /\ (w.lines[i][2] = w.said => i = Len(w.lines))

\* A preview that has become a line is the last one.
PreviewIsNew(w) == \A i \in 1..Len(w.lines) : w.lines[i] = w.preview => i = Len(w.lines)

\* No word is of a session after u.
WordsUpTo(w, u) ==
  /\ w.session <= u /\ w.preview[1] <= u
  /\ \A i \in 1..Len(w.lines) : w.lines[i][1] <= u

StreamIsTrue(w, u) ==
  w \in Stream /\ FailureIsNoted(w) /\ LinesAreTrue(w) /\ PreviewIsNew(w) /\ WordsUpTo(w, u)

Queues == UNION {[1 .. n -> Chunks] : n \in 0 .. QueueSize}

Worker ==
  [worker : {"none", "loading", "capturing", "finishing", "ended"},
   running : BOOLEAN, paused : BOOLEAN, shutdown : BOOLEAN,
   owned : BOOLEAN, error : ParakeetErrors,
   recorded : 0 .. MaxChunks, wav : {"none", "open", "whole", "torn"},
   queue : Queues, full : BOOLEAN, fed : 0 .. MaxChunks, silent : SUBSET Chunks,
   degraded : BOOLEAN, quiet : 0 .. RestartAfter,
   current : SUBSET Chunks, transcript : SUBSET (Chunks \cup {Seeded}),
   stream : {"closed", "open", "freed", "freed twice"}]

Elements(q) == {q[i] : i \in 1..Len(q)}

\* Every chunk that was recorded is silent, in the text, or still to be decoded,
\* unless the engine knows that it lost one.
EngineIsTrue(p) ==
  /\ p \in Worker
  /\ p.worker # "ended" => p.error = "none" /\ p.fed + Len(p.queue) <= p.recorded
  /\ p.worker \in {"none", "loading"} => p.recorded = 0
  /\ p.worker = "finishing" => p.shutdown
  /\ p.worker \in {"capturing", "finishing"} /\ ~p.degraded /\ ~p.full =>
       1..p.recorded \subseteq p.silent \cup p.transcript \cup p.current \cup Elements(p.queue)
  /\ p.worker = "ended" /\ p.error = "none" =>
       1..p.recorded \subseteq p.silent \cup p.transcript

-----------------------------------------------------------------------------
(* What the commands know. *)

Text ==
  [job : Jobs, session : Ids, lines : Seq(Words), segments : SUBSET Words,
   chunks : SUBSET (Chunks \cup {Seeded}), heard : SUBSET Chunks,
   broken : BOOLEAN, reloaded : BOOLEAN]

Tasks ==
  [pc : {"none", "stopping", "waiting", "saving"} \cup TaskEnds, save : BOOLEAN,
   kind : {"whisper", "parakeet"}, engine : Ids, text : SUBSET Text]

CommandsFit ==
  /\ active \in Ids /\ kind \in {"whisper", "parakeet"} /\ current \in Ids /\ starting \in Ids
  /\ stops \in SUBSET Jobs /\ task \in [Jobs -> Tasks] /\ artifacts \in SUBSET Text
  /\ used \in Ids /\ active <= used /\ current <= used
  /\ \A e \in Engines : e > used => parakeet[e].worker = "none"

Live == {"loading", "capturing", "finishing"}

\* What a start knows of its worker: one that was told to stop before it listened
\* has heard nothing.
StartIsTrue(p) ==
  /\ p.worker = "capturing" => p.running
  /\ p.shutdown =>
       /\ p.worker \in {"loading", "ended"}
       /\ p.error = "none" /\ p.recorded = 0 /\ p.fed + Len(p.queue) <= p.recorded

CaptureIsKnown ==
  /\ NoStrayCapture
  /\ starting # 0 => active = starting /\ stops = {}
  /\ starting # 0 /\ kind = "parakeet" =>
       current = starting /\ StartIsTrue(parakeet[starting])

Open(j) == task[j].pc \in {"stopping", "waiting", "saving"}

FinaliserIsKnown ==
  /\ \A j \in Jobs : j \in stops <=> Open(j)
  /\ \A j, k \in stops : j = k
  /\ \A j \in Jobs :
       /\ task[j].text # {} => task[j].pc = "saving"
       /\ Open(j) => active \in {0, j} /\ task[j].kind = kind
       /\ task[j].pc \in {"stopping", "waiting"} /\ task[j].kind = "parakeet" =>
            task[j].engine = current /\ current # 0
       /\ task[j].pc = "waiting" /\ task[j].kind = "whisper" => ~whisper.owned

Kept == artifacts \cup UNION {task[j].text : j \in Jobs}

TextIsTrue(a) ==
  /\ a.heard \subseteq a.chunks
  /\ a.broken => a.reloaded
  /\ \A i, k \in 1..Len(a.lines) : a.lines[i] = a.lines[k] => i = k
  /\ ~a.reloaded =>
       \A i \in 1..Len(a.lines) : a.lines[i][1] = a.session => a.lines[i] \in a.segments

\* Older than the session that is captured, and than all to come.
TextIsOld(a) ==
  \A i \in 1..Len(a.lines) :
    a.lines[i][1] <= used /\ (whisper.proc # "none" => a.lines[i][1] # whisper.session)

KeptIsTrue == \A a \in Kept : TextIsTrue(a) /\ TextIsOld(a)

LiveInv ==
  /\ StreamIsTrue(whisper, used)
  /\ parakeet \in [Engines -> Worker] /\ \A e \in Engines : EngineIsTrue(parakeet[e])
  /\ CommandsFit /\ CaptureIsKnown /\ FinaliserIsKnown /\ KeptIsTrue

-----------------------------------------------------------------------------
(* The Whisper engine. *)

LEMMA IdsAreNumbers == Ids \subseteq Nat /\ 0 \in Ids /\ Jobs \subseteq Nat /\ 0 \notin Jobs
BY WhisperAssumption DEF Ids

\* The words of a stream as numbers.
LEMMA WordFacts ==
  ASSUME NEW w \in Stream
  PROVE  /\ Len(w.lines) \in Nat /\ w.said \in Nat /\ w.session \in Nat
         /\ \A i \in 1..Len(w.lines) :
              w.lines[i] \in Words /\ w.lines[i] # NoWord
              /\ w.lines[i][1] \in Nat /\ w.lines[i][2] \in Nat
         /\ w.preview[1] \in Nat /\ w.preview[2] \in Nat
<1>1. w.lines \in Seq(Words) /\ w.said \in 0..MaxWords /\ w.session \in Ids
      /\ w.preview \in Words \cup {NoWord}
  BY DEF Stream
<1>2. \A word \in Words : word[1] \in Nat /\ word[2] \in Nat /\ word # NoWord
  <2> TAKE word \in Words
  <2>1. word[1] \in Jobs /\ word[2] \in 1..MaxWords BY DEF Words
  <2>2. word[2] \in Nat
    <3>1. MaxWords \in Nat BY WhisperAssumption
    <3> QED BY <2>1, <3>1
  <2>3. word[1] \in Nat /\ word[1] # 0 BY <2>1, IdsAreNumbers
  <2>4. NoWord[1] = 0 BY DEF NoWord
  <2> QED BY <2>2, <2>3, <2>4
<1>3. \A i \in 1..Len(w.lines) : w.lines[i] \in Words BY <1>1, ElementOfSeq
<1>4. w.preview[1] \in Nat /\ w.preview[2] \in Nat BY <1>1, <1>2 DEF NoWord
<1>5. Len(w.lines) \in Nat BY <1>1, LenProperties
<1>6. w.said \in Nat /\ w.session \in Nat
  <2>1. MaxWords \in Nat BY WhisperAssumption
  <2>2. w.said \in Nat BY <1>1, <2>1
  <2>3. w.session \in Nat BY <1>1, IdsAreNumbers
  <2> QED BY <2>2, <2>3
<1> QED BY <1>2, <1>3, <1>4, <1>5, <1>6

\* A step that leaves the text alone and does not bring a child back.
LEMMA SameText ==
  ASSUME NEW u, NEW w, StreamIsTrue(w, u), NEW v \in Stream, FailureIsNoted(v),
         v.lines = w.lines, v.preview = w.preview, v.segments = w.segments,
         v.session = w.session, v.said = w.said, v.reloaded = w.reloaded,
         v.proc # "none" => w.proc # "none"
  PROVE  StreamIsTrue(v, u)
<1>1. LinesAreTrue(v) BY DEF StreamIsTrue, LinesAreTrue
<1>2. PreviewIsNew(v) BY DEF StreamIsTrue, PreviewIsNew
<1>3. WordsUpTo(v, u) BY DEF StreamIsTrue, WordsUpTo
<1> QED BY <1>1, <1>2, <1>3 DEF StreamIsTrue

\* An exit that is observed is noted.
LEMMA ObserveFacts ==
  ASSUME NEW w \in Stream
  PROVE  LET v == ObserveExit(w)
         IN  /\ v \in Stream
             /\ v.lines = w.lines /\ v.preview = w.preview /\ v.segments = w.segments
             /\ v.session = w.session /\ v.said = w.said /\ v.reloaded = w.reloaded
             /\ v.proc = w.proc /\ v.owned = w.owned /\ v.broken = w.broken
             /\ w.error # "none" => v.error # "none"
             /\ w.owned /\ w.proc = "crashed" => v.error # "none"
<1> DEFINE v == ObserveExit(w)
<1>1. CASE w.owned /\ w.proc = "ok"
  <2>1. v = [w EXCEPT !.running = FALSE, !.paused = FALSE]
    BY <1>1 DEF ObserveExit, MarkExit
  <2> QED BY <1>1, <2>1 DEF Stream
<1>2. CASE w.owned /\ w.proc = "crashed" /\ w.error # "none"
  BY <1>2 DEF ObserveExit, MarkExit
<1>3. CASE w.owned /\ w.proc = "crashed" /\ w.error = "none"
  <2>1. v = [w EXCEPT !.error = "crash", !.running = FALSE, !.paused = FALSE]
    BY <1>3 DEF ObserveExit, MarkExit
  <2> HIDE DEF v
  <2>2. v \in Stream BY <2>1 DEF Stream, WhisperErrors
  <2>3. /\ v.lines = w.lines /\ v.preview = w.preview /\ v.segments = w.segments
        /\ v.session = w.session /\ v.said = w.said /\ v.reloaded = w.reloaded
        /\ v.proc = w.proc /\ v.owned = w.owned /\ v.broken = w.broken /\ v.error = "crash"
    BY <2>1 DEF Stream
  <2> QED BY <2>2, <2>3 DEF v
<1>4. CASE ~(w.owned /\ w.proc \in {"ok", "crashed"})
  BY <1>4 DEF ObserveExit
<1> QED BY <1>1, <1>2, <1>3, <1>4

LEMMA TakeFacts ==
  ASSUME NEW u, NEW w, StreamIsTrue(w, u)
  PROVE  LET v == TakeChild(w)
         IN  /\ StreamIsTrue(v, u) /\ ~v.owned
             /\ v.session = w.session /\ v.proc = w.proc
<1> DEFINE o == ObserveExit(w)
           v == TakeChild(w)
<1>1. w \in Stream /\ FailureIsNoted(w) BY DEF StreamIsTrue
<1>2. /\ o \in Stream
      /\ o.lines = w.lines /\ o.preview = w.preview /\ o.segments = w.segments
      /\ o.session = w.session /\ o.said = w.said /\ o.reloaded = w.reloaded
      /\ o.proc = w.proc /\ o.owned = w.owned /\ o.broken = w.broken
      /\ w.error # "none" => o.error # "none"
      /\ w.owned /\ w.proc = "crashed" => o.error # "none"
  BY <1>1, ObserveFacts
<1>3. v = [o EXCEPT !.stopping = TRUE, !.owned = FALSE] BY DEF TakeChild
<1> HIDE DEF o, v
<1>4. /\ v \in Stream /\ ~v.owned
      /\ v.lines = o.lines /\ v.preview = o.preview /\ v.segments = o.segments
      /\ v.session = o.session /\ v.said = o.said /\ v.reloaded = o.reloaded
      /\ v.proc = o.proc /\ v.broken = o.broken /\ v.error = o.error
  BY <1>2, <1>3 DEF Stream
<1>5. FailureIsNoted(v) BY <1>1, <1>2, <1>4 DEF FailureIsNoted
<1>6. StreamIsTrue(v, u)
  <2>1. v.lines = w.lines /\ v.preview = w.preview /\ v.segments = w.segments
        /\ v.session = w.session /\ v.said = w.said /\ v.reloaded = w.reloaded /\ v.proc = w.proc
    BY <1>2, <1>4
  <2> QED BY <1>4, <1>5, <2>1, SameText
<1> QED BY <1>2, <1>4, <1>6 DEF v

\* A word of this session that is not in the lines becomes the last of them.
LEMMA CommitFacts ==
  ASSUME NEW u \in Nat, NEW w, StreamIsTrue(w, u), NEW word \in Words, word[1] <= u,
         \A i \in 1..Len(w.lines) : w.lines[i] # word,
         w.proc # "none" => w.session # 0 /\
           \A i \in 1..Len(w.lines) : w.lines[i][1] = w.session => w.lines[i][2] < w.said,
         w.proc # "none" /\ word[1] = w.session => word[2] <= w.said
  PROVE  LET v == CommitLine(w, word)
         IN  /\ StreamIsTrue(v, u)
             /\ v.session = w.session /\ v.proc = w.proc /\ v.owned = w.owned
             /\ v.error = w.error
             /\ v.broken = w.broken /\ v.reloaded = w.reloaded
             /\ v.preview = NoWord /\ v.said = w.said
<1> DEFINE v == CommitLine(w, word)
           n == Len(w.lines)
<1>1. /\ w \in Stream /\ FailureIsNoted(w) /\ LinesAreTrue(w) /\ WordsUpTo(w, u)
      /\ w.lines \in Seq(Words) /\ w.segments \in SUBSET Words
  BY DEF StreamIsTrue, Stream
<1>2. v = [w EXCEPT !.lines = Append(w.lines, word), !.preview = NoWord,
                    !.segments = w.segments \cup {word}]
  BY DEF CommitLine
<1>3. Append(w.lines, word) \in Seq(Words) BY <1>1, AppendProperties
<1> HIDE DEF v
<1>4. /\ v \in Stream /\ v.lines = Append(w.lines, word) /\ v.preview = NoWord
      /\ v.segments = w.segments \cup {word}
      /\ v.session = w.session /\ v.proc = w.proc /\ v.owned = w.owned /\ v.error = w.error
      /\ v.broken = w.broken /\ v.reloaded = w.reloaded /\ v.said = w.said
  BY <1>1, <1>2, <1>3 DEF Stream
<1>5. n \in Nat BY <1>1, LenProperties
<1>6. /\ Len(v.lines) = n + 1 /\ v.lines[n + 1] = word
      /\ \A i \in 1..n : v.lines[i] = w.lines[i]
  BY <1>1, <1>4, AppendProperties
<1>7. \A i \in 1..(n + 1) : i \in 1..n \/ i = n + 1 BY <1>5
<1>8. FailureIsNoted(v) BY <1>1, <1>4 DEF FailureIsNoted
<1>9. LinesAreTrue(v)
  <2>1. \A i, k \in 1..Len(v.lines) : v.lines[i] = v.lines[k] => i = k
    <3> SUFFICES ASSUME NEW i \in 1..(n + 1), NEW k \in 1..(n + 1), v.lines[i] = v.lines[k]
                 PROVE  i = k
      BY <1>6
    <3> QED BY <1>1, <1>6, <1>7 DEF LinesAreTrue
  <2>2. ~v.reloaded =>
          \A i \in 1..Len(v.lines) : v.lines[i][1] = v.session => v.lines[i] \in v.segments
    <3> SUFFICES ASSUME ~v.reloaded, NEW i \in 1..(n + 1), v.lines[i][1] = v.session
                 PROVE  v.lines[i] \in v.segments
      BY <1>6
    <3>1. CASE i = n + 1 BY <1>4, <1>6, <3>1
    <3>2. CASE i \in 1..n BY <1>1, <1>4, <1>6, <3>2 DEF LinesAreTrue
    <3> QED BY <1>7, <3>1, <3>2
  <2>3. v.proc # "none" => v.session # 0 /\
          \A i \in 1..Len(v.lines) : v.lines[i][1] = v.session =>
            v.lines[i][2] <= v.said /\ (v.lines[i][2] = v.said => i = Len(v.lines))
    <3> SUFFICES ASSUME w.proc # "none"
                 PROVE  v.session # 0 /\
                   \A i \in 1..(n + 1) : v.lines[i][1] = w.session =>
                     v.lines[i][2] <= w.said /\ (v.lines[i][2] = w.said => i = n + 1)
      BY <1>4, <1>6
    <3>1. v.session # 0 BY <1>4
    <3>2. ASSUME NEW i \in 1..(n + 1), v.lines[i][1] = w.session
          PROVE  v.lines[i][2] <= w.said /\ (v.lines[i][2] = w.said => i = n + 1)
      <4>1. CASE i = n + 1 BY <1>6, <3>2, <4>1
      <4>2. CASE i \in 1..n
        <5>1. v.lines[i] = w.lines[i] /\ w.lines[i][2] < w.said BY <1>6, <3>2, <4>2
        <5>2. w.lines[i][2] \in Nat /\ w.said \in Nat BY <1>1, <4>2, WordFacts
        <5> QED BY <5>1, <5>2
      <4> QED BY <1>7, <4>1, <4>2
    <3> QED BY <3>1, <3>2
  <2> QED BY <2>1, <2>2, <2>3 DEF LinesAreTrue
<1>10. PreviewIsNew(v)
  <2>1. \A i \in 1..Len(v.lines) : v.lines[i] # NoWord BY <1>4, WordFacts
  <2> QED BY <1>4, <2>1 DEF PreviewIsNew
<1>11. WordsUpTo(v, u)
  <2>1. v.session <= u /\ v.preview[1] <= u BY <1>1, <1>4 DEF WordsUpTo, NoWord
  <2>2. ASSUME NEW i \in 1..(n + 1) PROVE v.lines[i][1] <= u
    BY <1>1, <1>6, <1>7 DEF WordsUpTo
  <2> QED BY <1>6, <2>1, <2>2 DEF WordsUpTo
<1> QED BY <1>4, <1>8, <1>9, <1>10, <1>11 DEF StreamIsTrue, v

\* At the end of a session the preview becomes a line, unless it is the last.
LEMMA FlushFacts ==
  ASSUME NEW u \in Nat, NEW w, StreamIsTrue(w, u), w.proc = "none"
  PROVE  LET v == FlushPreview(w)
         IN  /\ StreamIsTrue(v, u)
             /\ v.session = w.session /\ v.proc = "none" /\ v.owned = w.owned /\ v.error = w.error
             /\ v.broken = w.broken /\ v.reloaded = w.reloaded
<1>1. w \in Stream /\ PreviewIsNew(w) /\ WordsUpTo(w, u) BY DEF StreamIsTrue
<1>2. CASE w.preview = NoWord BY <1>2 DEF FlushPreview
<1>3. CASE w.preview # NoWord /\ w.lines # <<>> /\ w.lines[Len(w.lines)] = w.preview
  <2> DEFINE v == [w EXCEPT !.preview = NoWord]
  <2>1. FlushPreview(w) = v BY <1>3 DEF FlushPreview
  <2>2. /\ v \in Stream /\ v.preview = NoWord /\ v.lines = w.lines /\ v.segments = w.segments
        /\ v.session = w.session /\ v.said = w.said /\ v.reloaded = w.reloaded
        /\ v.proc = w.proc /\ v.owned = w.owned /\ v.error = w.error /\ v.broken = w.broken
    BY <1>1 DEF Stream
  <2> HIDE DEF v
  <2>3. FailureIsNoted(v) BY <2>2 DEF StreamIsTrue, FailureIsNoted
  <2>4. LinesAreTrue(v) BY <2>2 DEF StreamIsTrue, LinesAreTrue
  <2>5. PreviewIsNew(v) BY <2>2, WordFacts DEF PreviewIsNew
  <2>6. WordsUpTo(v, u) BY <1>1, <2>2 DEF WordsUpTo, NoWord
  <2> QED BY <2>1, <2>2, <2>3, <2>4, <2>5, <2>6 DEF StreamIsTrue
<1>4. CASE w.preview # NoWord /\ ~(w.lines # <<>> /\ w.lines[Len(w.lines)] = w.preview)
  <2>1. FlushPreview(w) = CommitLine(w, w.preview) BY <1>4 DEF FlushPreview
  <2>2. w.preview \in Words /\ w.preview[1] <= u /\ w.lines \in Seq(Words)
    BY <1>1, <1>4 DEF Stream, WordsUpTo
  <2>3. \A i \in 1..Len(w.lines) : w.lines[i] # w.preview
    <3> SUFFICES ASSUME NEW i \in 1..Len(w.lines), w.lines[i] = w.preview PROVE FALSE
      OBVIOUS
    <3>1. i = Len(w.lines) BY <1>1 DEF PreviewIsNew
    <3>2. w.lines # <<>> BY <2>2, EmptySeq
    <3> QED BY <1>4, <3>1, <3>2
  <2> QED BY <2>1, <2>2, <2>3, CommitFacts
<1> QED BY <1>2, <1>3, <1>4

LEMMA CollectFacts ==
  ASSUME NEW u \in Nat, NEW w, StreamIsTrue(w, u), ~w.owned
  PROVE  LET v == CollectStream(w)
         IN  /\ StreamIsTrue(v, u) /\ v.session = w.session /\ v.proc = "none" /\ ~v.owned
             /\ v.error = w.error /\ v.broken = w.broken /\ v.reloaded = w.reloaded
             /\ v.broken /\ ~v.reloaded => v.error # "none"
<1> DEFINE d == [w EXCEPT !.proc = "none", !.owned = FALSE, !.readers = 0, !.running = FALSE,
                          !.paused = FALSE, !.stopping = FALSE, !.startup = "none", !.said = 0]
<1>1. w \in Stream /\ FailureIsNoted(w) /\ 0 \in 0..MaxWords
  BY WhisperAssumption DEF StreamIsTrue
<1>2. CollectStream(w) = FlushPreview(d) BY DEF CollectStream
<1>8. d \in Stream
  <2>1. 0 \in 0..2 OBVIOUS
  <2> QED BY <1>1, <2>1 DEF Stream
<1>9. /\ d.proc = "none" /\ ~d.owned
      /\ d.lines = w.lines /\ d.preview = w.preview /\ d.segments = w.segments
      /\ d.session = w.session /\ d.reloaded = w.reloaded /\ d.error = w.error
      /\ d.broken = w.broken
  BY <1>1 DEF Stream
<1> HIDE DEF d
<1>3. /\ d \in Stream /\ d.proc = "none" /\ ~d.owned
      /\ d.lines = w.lines /\ d.preview = w.preview /\ d.segments = w.segments
      /\ d.session = w.session /\ d.reloaded = w.reloaded /\ d.error = w.error
      /\ d.broken = w.broken
  BY <1>8, <1>9
<1>4. StreamIsTrue(d, u)
  <2>1. FailureIsNoted(d) BY <1>1, <1>3 DEF FailureIsNoted
  <2>2. LinesAreTrue(d) BY <1>3 DEF StreamIsTrue, LinesAreTrue
  <2>3. PreviewIsNew(d) BY <1>3 DEF StreamIsTrue, PreviewIsNew
  <2>4. WordsUpTo(d, u) BY <1>3 DEF StreamIsTrue, WordsUpTo
  <2> QED BY <1>3, <2>1, <2>2, <2>3, <2>4 DEF StreamIsTrue
<1>5. LET v == FlushPreview(d)
      IN  /\ StreamIsTrue(v, u) /\ v.session = d.session /\ v.proc = "none"
          /\ v.owned = d.owned /\ v.error = d.error /\ v.broken = d.broken
          /\ v.reloaded = d.reloaded
  BY <1>3, <1>4, FlushFacts
<1> QED BY <1>1, <1>2, <1>3, <1>5 DEF FailureIsNoted

\* A buffer takes the lines of a text that was saved.
LEMMA SeedFacts ==
  ASSUME NEW u \in Nat, NEW w, StreamIsTrue(w, u), NEW text \in Seq(Words),
         \A i, k \in 1..Len(text) : text[i] = text[k] => i = k,
         \A i \in 1..Len(text) : text[i][1] <= u,
         w.proc # "none" => \A i \in 1..Len(text) : text[i][1] # w.session
  PROVE  LET v == [SeedBuffer(w, text) EXCEPT !.reloaded = TRUE]
         IN  /\ StreamIsTrue(v, u)
             /\ v.session = w.session /\ v.proc = w.proc /\ v.owned = w.owned
<1> DEFINE v == [SeedBuffer(w, text) EXCEPT !.reloaded = TRUE]
<1>1. w \in Stream BY DEF StreamIsTrue
<1>2. v = [w EXCEPT !.lines = text, !.preview = NoWord, !.segments = {},
                    !.error = "none", !.stopping = FALSE, !.reloaded = TRUE]
  BY <1>1 DEF SeedBuffer, Stream
<1> HIDE DEF v
<1>3. /\ v \in Stream /\ v.lines = text /\ v.preview = NoWord /\ v.reloaded
      /\ v.session = w.session /\ v.proc = w.proc /\ v.owned = w.owned
  BY <1>1, <1>2 DEF Stream, WhisperErrors
<1>4. FailureIsNoted(v) BY <1>3 DEF FailureIsNoted
<1>5. LinesAreTrue(v)
  <2>1. w.proc # "none" => w.session # 0 BY DEF StreamIsTrue, LinesAreTrue
  <2> QED BY <1>3, <2>1 DEF LinesAreTrue
<1>6. PreviewIsNew(v) BY <1>3, WordFacts DEF PreviewIsNew
<1>7. WordsUpTo(v, u) BY <1>3 DEF StreamIsTrue, WordsUpTo, NoWord
<1> QED BY <1>3, <1>4, <1>5, <1>6, <1>7 DEF StreamIsTrue, v

\* The engine before a session: nothing, or the lines of a text that was saved.
Prepared(text) == IF text = <<>> THEN ResetBuffer(IdleStream) ELSE SeedBuffer(IdleStream, text)

LEMMA PreparedFacts ==
  ASSUME NEW u \in Nat, NEW text \in Seq(Words),
         \A i, k \in 1..Len(text) : text[i] = text[k] => i = k,
         \A i \in 1..Len(text) : text[i][1] <= u
  PROVE  LET w == Prepared(text)
         IN  StreamIsTrue(w, u) /\ w.proc = "none" /\ w.lines = text /\ w.preview = NoWord
<1> DEFINE w == Prepared(text)
<1>1. /\ IdleStream \in Stream /\ IdleStream.session = 0 /\ IdleStream.proc = "none"
      /\ ~IdleStream.broken
  <2>1. <<>> \in Seq(Words) /\ 0 \in 0..MaxWords /\ 0 \in 0..2 /\ 0 \in Ids
    BY WhisperAssumption, IdsAreNumbers
  <2> QED BY <2>1 DEF IdleStream, Stream, WhisperErrors
<1>2. /\ w \in Stream /\ w.lines = text /\ w.preview = NoWord /\ w.session = 0
      /\ w.proc = "none" /\ ~w.broken
  <2> DEFINE idle == IdleStream
  <2>1. idle \in Stream /\ idle.session = 0 /\ idle.proc = "none" /\ ~idle.broken BY <1>1
  <2> DEFINE reset == [idle EXCEPT !.lines = text, !.preview = NoWord, !.segments = {},
                                    !.error = "none"]
             seeded == [idle EXCEPT !.lines = text, !.preview = NoWord, !.segments = {},
                                    !.error = "none", !.stopping = FALSE]
  <2>2. w = reset \/ w = seeded BY DEF Prepared, ResetBuffer, SeedBuffer
  <2> HIDE DEF idle, w
  <2>6. reset \in Stream BY <2>1 DEF Stream, WhisperErrors
  <2>7. seeded \in Stream BY <2>1 DEF Stream, WhisperErrors
  <2>3. w \in Stream
    <3> HIDE DEF reset, seeded
    <3> QED BY <2>2, <2>6, <2>7
  <2>4. w.lines = text /\ w.preview = NoWord BY <2>1, <2>2 DEF Stream
  <2>5. w.session = 0 /\ w.proc = "none" /\ ~w.broken BY <2>1, <2>2 DEF Stream
  <2> QED BY <2>3, <2>4, <2>5
<1> HIDE DEF w
<1>3. FailureIsNoted(w) BY <1>2 DEF FailureIsNoted
<1>4. LinesAreTrue(w)
  <2>1. \A i \in 1..Len(text) : text[i][1] # 0
    <3> TAKE i \in 1..Len(text)
    <3>1. text[i] \in Words BY ElementOfSeq
    <3>2. text[i][1] \in Jobs BY <3>1 DEF Words
    <3> QED BY <3>2, IdsAreNumbers
  <2> QED BY <1>2, <2>1 DEF LinesAreTrue
<1>5. PreviewIsNew(w) BY <1>2, WordFacts DEF PreviewIsNew
<1>6. WordsUpTo(w, u) BY <1>2 DEF WordsUpTo, NoWord
<1> QED BY <1>2, <1>3, <1>4, <1>5, <1>6 DEF StreamIsTrue, w

\* A session of a new id begins from it.
LEMMA SpawnFacts ==
  ASSUME NEW u \in Nat, NEW w, StreamIsTrue(w, u), w.preview = NoWord,
         NEW job \in Jobs, job = u + 1
  PROVE  LET v == SpawnStream(w, job)
         IN  StreamIsTrue(v, job) /\ v.session = job /\ v.proc = "alive"
<1> DEFINE v == SpawnStream(w, job)
<1>1. w \in Stream /\ job \in Ids /\ job \in Nat /\ job # 0 /\ 0 \in 0..MaxWords /\ 2 \in 0..2
  BY WhisperAssumption, IdsAreNumbers DEF StreamIsTrue, Ids
<1>2. /\ v \in Stream /\ v.lines = w.lines /\ v.preview = NoWord /\ v.session = job
      /\ v.proc = "alive" /\ ~v.broken
  <2>1. v \in Stream
    <3>1. /\ "alive" \in {"none", "alive", "ok", "crashed"} /\ TRUE \in BOOLEAN /\ FALSE \in BOOLEAN
          /\ "waiting" \in {"none", "waiting", "ready", "failed"}
          /\ "none" \in WhisperErrors /\ {} \in SUBSET Words
      BY DEF WhisperErrors
    <3> DEFINE half == [w EXCEPT !.session = job, !.proc = "alive", !.owned = TRUE, !.readers = 2,
                                 !.running = TRUE, !.paused = FALSE]
    <3>2. half \in Stream BY <1>1, <3>1 DEF Stream
    <3> DEFINE more == [half EXCEPT !.stopping = FALSE, !.startup = "waiting", !.error = "none"]
    <3> HIDE DEF v, half
    <3>3. more \in Stream BY <3>1, <3>2 DEF Stream
    <3>4. v = [more EXCEPT !.segments = {}, !.said = 0, !.broken = FALSE, !.reloaded = FALSE]
      BY DEF SpawnStream, v, half
    <3> HIDE DEF more
    <3> QED BY <1>1, <3>1, <3>3, <3>4 DEF Stream
  <2>2. v.lines = w.lines /\ v.preview = w.preview BY <1>1 DEF SpawnStream, Stream
  <2>3. v.session = job /\ v.proc = "alive" /\ ~v.broken BY <1>1 DEF SpawnStream, Stream
  <2> HIDE DEF v
  <2> QED BY <2>1, <2>2, <2>3
<1> HIDE DEF v
<1>3. \A i \in 1..Len(w.lines) : w.lines[i][1] # job /\ w.lines[i][1] <= job
  <2> TAKE i \in 1..Len(w.lines)
  <2>1. w.lines[i][1] <= u BY DEF StreamIsTrue, WordsUpTo
  <2>2. w.lines[i][1] \in Nat BY <1>1, WordFacts
  <2> QED BY <2>1, <2>2
<1>4. FailureIsNoted(v) BY <1>2 DEF FailureIsNoted
<1>5. LinesAreTrue(v)
  <2>1. \A i, k \in 1..Len(w.lines) : w.lines[i] = w.lines[k] => i = k
    BY DEF StreamIsTrue, LinesAreTrue
  <2> QED BY <1>1, <1>2, <1>3, <2>1 DEF LinesAreTrue
<1>6. PreviewIsNew(v) BY <1>2, WordFacts DEF PreviewIsNew
<1>7. WordsUpTo(v, job)
  <2>1. NoWord[1] <= job BY <1>1 DEF NoWord
  <2> QED BY <1>1, <1>2, <1>3, <2>1 DEF WordsUpTo
<1> QED BY <1>2, <1>4, <1>5, <1>6, <1>7 DEF StreamIsTrue, v

-----------------------------------------------------------------------------
(* The child process and the readers. *)

LEMMA StartupFacts ==
  ASSUME NEW w \in Stream, NEW how \in {"ready", "failed"}
  PROVE  LET v == CompleteStartup(w, how)
         IN  /\ v \in Stream
             /\ v.lines = w.lines /\ v.preview = w.preview /\ v.segments = w.segments
             /\ v.session = w.session /\ v.said = w.said /\ v.reloaded = w.reloaded
             /\ v.proc = w.proc /\ v.owned = w.owned /\ v.broken = w.broken
             /\ v.error = w.error /\ v.paused = w.paused
<1>1. CASE w.startup = "waiting"
  <2>1. CompleteStartup(w, how) = [w EXCEPT !.startup = how] BY <1>1 DEF CompleteStartup
  <2> QED BY <2>1 DEF Stream
<1>2. CASE w.startup # "waiting" BY <1>2 DEF CompleteStartup
<1> QED BY <1>1, <1>2

\* What a step of the child or of a reader leaves alone.
StreamGoesOn(v, w) ==
  /\ v.session = w.session /\ v.owned = w.owned
  /\ v.proc = "none" <=> w.proc = "none"
  /\ v.proc = "alive" => w.proc = "alive"

LEMMA SignalKeeps ==
  ASSUME NEW u \in Nat, StreamIsTrue(whisper, u),
         ChildExits \/ ReadStartMarker \/ ReadFatalStartup \/ ReadBacklog
  PROVE  StreamIsTrue(whisper', u) /\ StreamGoesOn(whisper', whisper)
<1>1. whisper \in Stream /\ FailureIsNoted(whisper) BY DEF StreamIsTrue
<1> DEFINE Told(v) ==
             /\ v.lines = whisper.lines /\ v.preview = whisper.preview
             /\ v.segments = whisper.segments /\ v.session = whisper.session
             /\ v.said = whisper.said /\ v.reloaded = whisper.reloaded
             /\ v.owned = whisper.owned
<1>2. CASE ChildExits
  <2>1. PICK how \in {"ok", "crashed"} :
          /\ whisper' = [whisper EXCEPT !.proc = how,
                           !.broken = whisper.broken \/ (how = "crashed" /\ whisper.owned)]
          /\ whisper.proc = "alive"
    BY <1>2 DEF ChildExits
  <2> DEFINE broken == whisper.broken \/ (how = "crashed" /\ whisper.owned)
  <2>2. broken \in BOOLEAN /\ whisper' = [whisper EXCEPT !.proc = how, !.broken = broken]
    BY <1>1, <2>1 DEF Stream
  <2>5. broken <=> whisper.broken \/ (how = "crashed" /\ whisper.owned) OBVIOUS
  <2> HIDE DEF broken
  <2>6. whisper' \in Stream BY <1>1, <2>2 DEF Stream
  <2>7. Told(whisper') BY <1>1, <2>2 DEF Stream
  <2>8. whisper'.proc = how /\ whisper'.error = whisper.error /\ whisper'.broken = broken
    BY <1>1, <2>2 DEF Stream
  <2>3. /\ whisper' \in Stream /\ Told(whisper') /\ whisper'.proc = how
        /\ whisper'.error = whisper.error /\ whisper'.broken = broken
    BY <2>6, <2>7, <2>8
  <2>4. FailureIsNoted(whisper') BY <1>1, <2>1, <2>3, <2>5 DEF FailureIsNoted
  <2> QED BY <2>1, <2>3, <2>4, SameText DEF StreamGoesOn
<1>3. CASE ReadStartMarker
  <2>1. whisper' = CompleteStartup(whisper, "ready") BY <1>3 DEF ReadStartMarker
  <2>2. /\ whisper' \in Stream /\ Told(whisper') /\ whisper'.proc = whisper.proc
        /\ whisper'.error = whisper.error /\ whisper'.broken = whisper.broken
    BY <1>1, <2>1, StartupFacts
  <2>3. FailureIsNoted(whisper') BY <1>1, <2>2 DEF FailureIsNoted
  <2> QED BY <2>2, <2>3, SameText DEF StreamGoesOn
<1>4. CASE ReadFatalStartup
  <2> DEFINE w == [whisper EXCEPT !.error = "startup", !.running = FALSE, !.paused = FALSE]
  <2>1. whisper' = CompleteStartup(w, "failed") BY <1>4 DEF ReadFatalStartup
  <2>2. /\ w \in Stream /\ Told(w) /\ w.proc = whisper.proc /\ w.error = "startup"
    BY <1>1 DEF Stream, WhisperErrors
  <2> HIDE DEF w
  <2>3. /\ whisper' \in Stream /\ Told(whisper') /\ whisper'.proc = whisper.proc
        /\ whisper'.error # "none"
    BY <2>1, <2>2, StartupFacts
  <2>4. FailureIsNoted(whisper') BY <2>3 DEF FailureIsNoted
  <2> QED BY <2>3, <2>4, SameText DEF StreamGoesOn
<1>5. CASE ReadBacklog
  <2>1. whisper' = [whisper EXCEPT !.error = "backlog", !.running = FALSE, !.paused = FALSE,
                                   !.broken = TRUE]
    BY <1>5 DEF ReadBacklog
  <2>2. /\ whisper' \in Stream /\ Told(whisper') /\ whisper'.proc = whisper.proc
        /\ whisper'.error = "backlog"
    BY <1>1, <2>1 DEF Stream, WhisperErrors
  <2>3. FailureIsNoted(whisper') BY <2>2 DEF FailureIsNoted
  <2> QED BY <2>2, <2>3, SameText DEF StreamGoesOn
<1> QED BY <1>2, <1>3, <1>4, <1>5

LEMMA EndKeeps ==
  ASSUME NEW u \in Nat, StreamIsTrue(whisper, u), ReaderEnds
  PROVE  StreamIsTrue(whisper', u) /\ StreamGoesOn(whisper', whisper)
<1>1. /\ whisper \in Stream /\ FailureIsNoted(whisper)
      /\ whisper.readers \in 1..2 /\ whisper.proc \in {"ok", "crashed"}
  BY DEF StreamIsTrue, ReaderEnds, Stream
<1> DEFINE Told(v) ==
             /\ v.lines = whisper.lines /\ v.preview = whisper.preview
             /\ v.segments = whisper.segments /\ v.session = whisper.session
             /\ v.said = whisper.said /\ v.reloaded = whisper.reloaded
             /\ v.owned = whisper.owned /\ v.proc = whisper.proc /\ v.broken = whisper.broken
             /\ whisper.error # "none" => v.error # "none"
           seen == IF whisper.running /\ ~whisper.stopping /\ whisper.owned
                      /\ whisper.proc = "crashed"
                   THEN MarkExit(whisper) ELSE whisper
<1>2. whisper' \in Stream /\ Told(whisper')
  <2>1. CASE whisper.readers # 1
    <3>1. whisper' = [whisper EXCEPT !.readers = whisper.readers - 1]
      BY <2>1 DEF ReaderEnds
    <3>2. whisper.readers - 1 \in 0..2 BY <1>1
    <3> QED BY <1>1, <3>1, <3>2 DEF Stream
  <2>2. CASE whisper.readers = 1
    <3> DEFINE last == [seen EXCEPT !.readers = 0, !.running = FALSE, !.paused = FALSE]
    <3>1. whisper' = CompleteStartup(last, "failed") BY <2>2 DEF ReaderEnds
    <3>2. seen \in Stream /\ Told(seen)
      <4>1. CASE whisper.running /\ ~whisper.stopping /\ whisper.owned
                 /\ whisper.proc = "crashed"
        <5>1. seen = ObserveExit(whisper) BY <4>1 DEF ObserveExit
        <5> QED BY <1>1, <5>1, ObserveFacts
      <4>2. CASE ~(whisper.running /\ ~whisper.stopping /\ whisper.owned
                   /\ whisper.proc = "crashed")
        BY <1>1, <4>2
      <4> QED BY <4>1, <4>2
    <3> HIDE DEF seen
    <3>3. 0 \in 0..2 OBVIOUS
    <3>4. last \in Stream BY <3>2, <3>3 DEF Stream
    <3>5. Told(last) BY <3>2 DEF Stream
    <3> HIDE DEF last
    <3> QED BY <3>1, <3>4, <3>5, StartupFacts
  <2> QED BY <2>1, <2>2
<1>3. FailureIsNoted(whisper') BY <1>1, <1>2 DEF FailureIsNoted
<1> QED BY <1>2, <1>3, SameText DEF StreamGoesOn

LEMMA PreviewKeeps ==
  ASSUME NEW u \in Nat, StreamIsTrue(whisper, u), ReadPreview
  PROVE  StreamIsTrue(whisper', u) /\ StreamGoesOn(whisper', whisper)
<1> DEFINE w == CompleteStartup(whisper, "ready")
<1>1. /\ whisper \in Stream /\ FailureIsNoted(whisper) /\ LinesAreTrue(whisper)
      /\ WordsUpTo(whisper, u) /\ whisper.proc # "none"
  BY DEF StreamIsTrue, ReadPreview, ReadsRecord
<1>2. /\ w \in Stream
      /\ w.lines = whisper.lines /\ w.preview = whisper.preview
      /\ w.segments = whisper.segments /\ w.session = whisper.session
      /\ w.said = whisper.said /\ w.reloaded = whisper.reloaded
      /\ w.proc = whisper.proc /\ w.owned = whisper.owned /\ w.broken = whisper.broken
      /\ w.error = whisper.error
  BY <1>1, StartupFacts
<1>3. PICK n \in {whisper.said, whisper.said + 1} \cap (1 .. MaxWords) :
        whisper' = IF w.paused THEN w ELSE [w EXCEPT !.preview = <<w.session, n>>]
  BY DEF ReadPreview
<1> HIDE DEF w
<1>4. StreamIsTrue(w, u)
  <2>1. FailureIsNoted(w) BY <1>1, <1>2 DEF FailureIsNoted
  <2> QED BY <1>2, <2>1, SameText
<1>5. CASE w.paused BY <1>2, <1>3, <1>4, <1>5 DEF StreamGoesOn
<1>6. CASE ~w.paused
  <2> DEFINE word == <<w.session, n>>
             v == [w EXCEPT !.preview = word]
  <2>1. word \in Words
    <3>1. w.session \in Jobs BY <1>1, <1>2 DEF LinesAreTrue, Stream, Ids
    <3> QED BY <3>1 DEF Words
  <2>2. whisper' = v BY <1>3, <1>6
  <2>3. /\ v \in Stream /\ v.preview = word
        /\ v.lines = w.lines /\ v.segments = w.segments /\ v.session = w.session
        /\ v.said = w.said /\ v.reloaded = w.reloaded /\ v.proc = w.proc /\ v.owned = w.owned
        /\ v.broken = w.broken /\ v.error = w.error
    BY <1>2, <2>1 DEF Stream
  <2> HIDE DEF v
  <2>4. FailureIsNoted(v) BY <1>4, <2>3 DEF StreamIsTrue, FailureIsNoted
  <2>5. LinesAreTrue(v) BY <1>4, <2>3 DEF StreamIsTrue, LinesAreTrue
  <2>6. PreviewIsNew(v)
    <3> SUFFICES ASSUME NEW i \in 1..Len(w.lines), w.lines[i] = word PROVE i = Len(w.lines)
      BY <2>3 DEF PreviewIsNew
    <3>1. word[1] = w.session /\ word[2] = n OBVIOUS
    <3>2. n <= whisper.said /\ (n = whisper.said => i = Len(w.lines))
      BY <1>1, <1>2, <3>1 DEF LinesAreTrue
    <3>3. whisper.said \in Nat BY <1>1, WordFacts
    <3> QED BY <3>2, <3>3
  <2>7. WordsUpTo(v, u)
    <3>1. word[1] <= u BY <1>1, <1>2 DEF WordsUpTo
    <3> QED BY <1>1, <1>2, <2>3, <3>1 DEF WordsUpTo
  <2> QED BY <1>2, <2>2, <2>3, <2>4, <2>5, <2>6, <2>7 DEF StreamIsTrue, StreamGoesOn
<1> QED BY <1>5, <1>6

LEMMA FinalKeeps ==
  ASSUME NEW u \in Nat, StreamIsTrue(whisper, u), ReadFinal
  PROVE  StreamIsTrue(whisper', u) /\ StreamGoesOn(whisper', whisper)
<1> DEFINE d == CompleteStartup(whisper, "ready")
           w == [d EXCEPT !.said = d.said + 1]
           word == <<w.session, w.said>>
<1>1. /\ whisper \in Stream /\ FailureIsNoted(whisper) /\ LinesAreTrue(whisper)
      /\ WordsUpTo(whisper, u) /\ whisper.proc # "none" /\ whisper.said < MaxWords
  BY DEF StreamIsTrue, ReadFinal, ReadsRecord
<1>2. /\ d \in Stream
      /\ d.lines = whisper.lines /\ d.preview = whisper.preview
      /\ d.segments = whisper.segments /\ d.session = whisper.session
      /\ d.said = whisper.said /\ d.reloaded = whisper.reloaded
      /\ d.proc = whisper.proc /\ d.owned = whisper.owned /\ d.broken = whisper.broken
      /\ d.error = whisper.error
  BY <1>1, StartupFacts
<1>3. whisper' = IF w.paused THEN w ELSE CommitLine(w, word) BY DEF ReadFinal
<1>4. whisper.said \in Nat /\ MaxWords \in Nat BY <1>1, WordFacts, WhisperAssumption
<1>5. w.said = whisper.said + 1 /\ w.said \in 1..MaxWords
  <2>1. w.said = d.said + 1 BY <1>2 DEF Stream
  <2> HIDE DEF w, d
  <2> QED BY <1>1, <1>2, <1>4, <2>1
<1>6. /\ w \in Stream
      /\ w.lines = d.lines /\ w.preview = d.preview /\ w.segments = d.segments
      /\ w.session = d.session /\ w.reloaded = d.reloaded /\ w.proc = d.proc
      /\ w.owned = d.owned /\ w.broken = d.broken /\ w.error = d.error
  <2>1. d.said + 1 \in 0..MaxWords BY <1>1, <1>2, <1>4
  <2> HIDE DEF d
  <2> QED BY <1>2, <2>1 DEF Stream
<1> HIDE DEF d, w
<1>7. \A i \in 1..Len(w.lines) : w.lines[i][1] = w.session => w.lines[i][2] < w.said
  <2> SUFFICES ASSUME NEW i \in 1..Len(whisper.lines), whisper.lines[i][1] = whisper.session
               PROVE  whisper.lines[i][2] < whisper.said + 1
    BY <1>2, <1>5, <1>6
  <2>1. whisper.lines[i][2] <= whisper.said BY <1>1 DEF LinesAreTrue
  <2>2. whisper.lines[i][2] \in Nat BY <1>1, WordFacts
  <2> QED BY <1>4, <2>1, <2>2
<1>8. StreamIsTrue(w, u)
  <2>1. FailureIsNoted(w) BY <1>1, <1>2, <1>6 DEF FailureIsNoted
  <2>2. LinesAreTrue(w)
    <3>1. \A i \in 1..Len(w.lines) : w.lines[i][1] = w.session =>
            w.lines[i][2] <= w.said /\ w.lines[i][2] # w.said
      <4> SUFFICES ASSUME NEW i \in 1..Len(w.lines), w.lines[i][1] = w.session
                   PROVE  w.lines[i][2] <= w.said /\ w.lines[i][2] # w.said
        OBVIOUS
      <4>1. w.lines[i][2] < w.said BY <1>7
      <4>2. w.lines[i][2] \in Nat /\ w.said \in Nat BY <1>6, WordFacts
      <4> QED BY <4>1, <4>2
    <3> QED BY <1>1, <1>2, <1>6, <3>1 DEF LinesAreTrue
  <2>3. PreviewIsNew(w) BY <1>2, <1>6 DEF StreamIsTrue, PreviewIsNew
  <2>4. WordsUpTo(w, u) BY <1>1, <1>2, <1>6 DEF WordsUpTo
  <2> QED BY <1>6, <2>1, <2>2, <2>3, <2>4 DEF StreamIsTrue
<1>9. CASE w.paused BY <1>2, <1>3, <1>6, <1>8, <1>9 DEF StreamGoesOn
<1>10. CASE ~w.paused
  <2>1. w.session \in Jobs /\ w.session # 0
    BY <1>1, <1>2, <1>6 DEF LinesAreTrue, Stream, Ids
  <2>2. word \in Words BY <1>5, <2>1 DEF Words
  <2>3. word[1] = w.session /\ word[2] = w.said /\ word[2] <= w.said
    BY <1>5, <1>4
  <2>4. word[1] <= u BY <1>1, <1>2, <1>6 DEF WordsUpTo
  <2> HIDE DEF word
  <2>5. \A i \in 1..Len(w.lines) : w.lines[i] # word
    <3> SUFFICES ASSUME NEW i \in 1..Len(w.lines), w.lines[i] = word PROVE FALSE
      OBVIOUS
    <3>1. w.lines[i][2] < w.said BY <1>7, <2>3
    <3>2. w.said \in Nat BY <1>6, WordFacts
    <3> QED BY <2>3, <3>1, <3>2
  <2>6. LET v == CommitLine(w, word)
        IN  StreamIsTrue(v, u) /\ v.session = w.session /\ v.proc = w.proc /\ v.owned = w.owned
    BY <1>7, <1>8, <2>1, <2>2, <2>3, <2>4, <2>5, CommitFacts
  <2> QED BY <1>2, <1>3, <1>6, <1>10, <2>6 DEF StreamGoesOn
<1> QED BY <1>9, <1>10

LEMMA ReaderKeeps ==
  ASSUME NEW u \in Nat, StreamIsTrue(whisper, u), WhisperNext
  PROVE  StreamIsTrue(whisper', u) /\ StreamGoesOn(whisper', whisper)
BY SignalKeeps, EndKeeps, PreviewKeeps, FinalKeeps DEF WhisperNext
-----------------------------------------------------------------------------
(* The Parakeet engine. *)

LEMMA QueueIsSequence ==
  ASSUME NEW q \in Queues
  PROVE  q \in Seq(Chunks) /\ Len(q) \in 0..QueueSize /\ DOMAIN q = 1..Len(q)
<1>1. PICK n \in 0..QueueSize : q \in [1..n -> Chunks] BY DEF Queues
<1>2. QueueSize \in Nat BY ParakeetAssumption
<1>3. n \in Nat BY <1>1, <1>2
<1>4. q \in Seq(Chunks) /\ Len(q) = n BY <1>1, <1>3
<1> QED BY <1>4, LenProperties

LEMMA SequenceIsQueue ==
  ASSUME NEW q \in Seq(Chunks), NEW n \in 0..QueueSize, Len(q) = n
  PROVE  q \in Queues
<1>1. q \in [1..n -> Chunks] BY LenProperties
<1> QED BY <1>1 DEF Queues

LEMMA EmptyQueue == <<>> \in Queues /\ Len(<<>>) = 0
<1>1. QueueSize \in Nat BY ParakeetAssumption
<1>2. 0 \in 0..QueueSize BY <1>1
<1> DEFINE q == <<>>
<1>3. q \in Seq(Chunks) /\ Len(q) = 0 BY EmptySeq
<1> HIDE DEF q
<1>4. q \in Queues BY <1>2, <1>3, SequenceIsQueue
<1> QED BY <1>3, <1>4 DEF q

\* Taking the first chunk loses nothing but that chunk.
LEMMA TailOfQueue ==
  ASSUME NEW q \in Queues, q # <<>>
  PROVE  /\ Head(q) \in Chunks /\ Tail(q) \in Queues
         /\ Len(q) \in Nat /\ Len(Tail(q)) = Len(q) - 1
         /\ Elements(q) \subseteq Elements(Tail(q)) \cup {Head(q)}
<1>1. q \in Seq(Chunks) /\ Len(q) \in 0..QueueSize BY QueueIsSequence
<1>2. /\ Head(q) \in Chunks /\ Tail(q) \in Seq(Chunks) /\ Len(Tail(q)) = Len(q) - 1
      /\ \A i \in 1..Len(Tail(q)) : Tail(q)[i] = q[i + 1]
  BY <1>1, HeadTailProperties
<1>3. QueueSize \in Nat BY ParakeetAssumption
<1>4. Tail(q) \in Queues
  <2> DEFINE t == Tail(q)
  <2>1. t \in Seq(Chunks) /\ Len(t) = Len(q) - 1 BY <1>2
  <2>2. Len(t) \in Nat BY <2>1, LenProperties
  <2> HIDE DEF t
  <2>3. Len(t) \in 0..QueueSize BY <1>1, <1>3, <2>1, <2>2
  <2>4. t \in Queues BY <2>1, <2>3, SequenceIsQueue
  <2> QED BY <2>4 DEF t
<1>5. ASSUME NEW i \in 1..Len(q) PROVE q[i] \in Elements(Tail(q)) \cup {Head(q)}
  <2>1. CASE i = 1 BY <2>1
  <2>2. CASE i # 1
    <3>1. i - 1 \in 1..Len(Tail(q)) /\ i = (i - 1) + 1 BY <1>1, <1>2, <1>3, <2>2
    <3>2. Tail(q)[i - 1] = q[i] BY <1>2, <3>1
    <3> QED BY <3>1, <3>2 DEF Elements
  <2> QED BY <2>1, <2>2
<1> QED BY <1>1, <1>2, <1>3, <1>4, <1>5 DEF Elements

LEMMA AppendToQueue ==
  ASSUME NEW q \in Queues, Len(q) < QueueSize, NEW c \in Chunks
  PROVE  /\ Append(q, c) \in Queues /\ Len(Append(q, c)) = Len(q) + 1
         /\ Elements(q) \cup {c} \subseteq Elements(Append(q, c))
<1>1. q \in Seq(Chunks) /\ Len(q) \in 0..QueueSize BY QueueIsSequence
<1>2. /\ Append(q, c) \in Seq(Chunks) /\ Len(Append(q, c)) = Len(q) + 1
      /\ \A i \in 1..Len(q) : Append(q, c)[i] = q[i]
      /\ Append(q, c)[Len(q) + 1] = c
  BY <1>1, AppendProperties
<1>3. QueueSize \in Nat BY ParakeetAssumption
<1>4. Append(q, c) \in Queues
  <2> DEFINE t == Append(q, c)
  <2>1. t \in Seq(Chunks) /\ Len(t) = Len(q) + 1 BY <1>2
  <2> HIDE DEF t
  <2>2. Len(t) \in 0..QueueSize BY <1>1, <1>3, <2>1
  <2>3. t \in Queues BY <2>1, <2>2, SequenceIsQueue
  <2> QED BY <2>3 DEF t
<1>5. Len(q) + 1 \in 1..Len(Append(q, c)) /\ 1..Len(q) \subseteq 1..Len(Append(q, c))
  BY <1>1, <1>2, <1>3
<1> QED BY <1>2, <1>4, <1>5 DEF Elements

\* No more different chunks are queued than the queue is long.
LEMMA FewElements ==
  ASSUME NEW q \in Queues
  PROVE  Elements(q) \subseteq Chunks /\ Cardinality(Elements(q)) \in 0..Len(q)
<1>1. q \in Seq(Chunks) /\ Len(q) \in Nat /\ q \in [1..Len(q) -> Chunks]
  BY QueueIsSequence, LenProperties
<1>2. Elements(q) \subseteq Chunks BY <1>1 DEF Elements
<1>3. IsFiniteSet(1..Len(q)) /\ Cardinality(1..Len(q)) = Len(q) BY <1>1, FS_Interval
<1>4. q \in [1..Len(q) -> Elements(q)] BY <1>1 DEF Elements
<1>5. q \in Surjection(1..Len(q), Elements(q)) BY <1>4 DEF Surjection, Elements
<1>6. IsFiniteSet(Elements(q)) /\ Cardinality(Elements(q)) <= Cardinality(1..Len(q))
  BY <1>3, <1>5, FS_Surjection
<1>7. Cardinality(Elements(q)) \in Nat BY <1>6, FS_CardinalityType
<1> QED BY <1>1, <1>2, <1>3, <1>6, <1>7
\* What a step of the two threads leaves alone.
WorkerGoesOn(v, p) ==
  /\ p.worker \in {"capturing", "finishing"}
  /\ v.worker \in {"capturing", "finishing", "ended"}
  /\ v.shutdown = p.shutdown
  /\ v.worker = "capturing" => p.worker = "capturing" /\ v.running = p.running

EngineGoesOn(e) == \E v : Become(e, v) /\ EngineIsTrue(v) /\ WorkerGoesOn(v, parakeet[e])

LEMMA EndFacts ==
  ASSUME NEW p \in Worker, NEW error \in ParakeetErrors,
         error = "none" => 1..p.recorded \subseteq p.silent \cup p.transcript
  PROVE  LET v == EndWith(p, error)
         IN  EngineIsTrue(v) /\ v.worker = "ended" /\ v.shutdown = p.shutdown
<1> DEFINE v == EndWith(p, error)
           wav == IF p.wav = "open" THEN "whole" ELSE p.wav
           stream == IF p.stream = "freed" THEN "freed twice" ELSE "freed"
           q == <<>>
<1>1. v = [p EXCEPT !.worker = "ended", !.error = error, !.queue = q, !.wav = wav,
                    !.stream = stream]
  BY DEF EndWith, Worker
<1>2. q \in Queues BY EmptyQueue
<1>3. wav \in {"none", "open", "whole", "torn"} BY DEF Worker
<1>4. stream \in {"closed", "open", "freed", "freed twice"} BY DEF Worker
<1> HIDE DEF v, wav, stream, q
<1>5. v \in Worker BY <1>1, <1>2, <1>3, <1>4 DEF Worker
<1>6. /\ v.worker = "ended" /\ v.error = error /\ v.recorded = p.recorded
      /\ v.silent = p.silent /\ v.transcript = p.transcript /\ v.shutdown = p.shutdown
  BY <1>1 DEF Worker
<1>7. EngineIsTrue(v) BY <1>5, <1>6 DEF EngineIsTrue
<1> QED BY <1>6, <1>7 DEF v

LEMMA RecordKeeps ==
  ASSUME NEW e \in Engines, EngineIsTrue(parakeet[e]), Record(e)
  PROVE  EngineGoesOn(e)
<1> DEFINE p == parakeet[e]
           queue == IF Len(p.queue) < QueueSize THEN Append(p.queue, p.recorded + 1) ELSE p.queue
           full == p.full \/ Len(p.queue) = QueueSize
           v == [p EXCEPT !.recorded = p.recorded + 1, !.queue = queue, !.full = full]
<1>1. Become(e, v) BY DEF Record
<1>2. /\ p \in Worker /\ p.worker = "capturing" /\ p.recorded < MaxChunks
      /\ p.error = "none" /\ p.fed + Len(p.queue) <= p.recorded
      /\ ~p.degraded /\ ~p.full =>
           1..p.recorded \subseteq p.silent \cup p.transcript \cup p.current
                                   \cup Elements(p.queue)
  BY DEF Record, EngineIsTrue
<1>3. MaxChunks \in Nat /\ QueueSize \in Nat BY ParakeetAssumption
<1>4. p.recorded \in 0..MaxChunks /\ p.queue \in Queues /\ p.fed \in 0..MaxChunks
      /\ p.full \in BOOLEAN
  BY <1>2 DEF Worker
<1>5. Len(p.queue) \in 0..QueueSize BY <1>4, QueueIsSequence
<1>6. p.recorded + 1 \in Chunks /\ p.recorded + 1 \in 0..MaxChunks
  BY <1>2, <1>3, <1>4 DEF Chunks
<1>7. /\ queue \in Queues /\ Len(queue) <= Len(p.queue) + 1
      /\ ~full => Elements(p.queue) \cup {p.recorded + 1} \subseteq Elements(queue)
  <2>1. CASE Len(p.queue) < QueueSize
    <3>1. queue = Append(p.queue, p.recorded + 1) BY <2>1
    <3> HIDE DEF queue
    <3> QED BY <1>4, <1>5, <1>6, <2>1, <3>1, AppendToQueue
  <2>2. CASE ~(Len(p.queue) < QueueSize)
    <3>1. queue = p.queue /\ full BY <1>3, <1>5, <2>2
    <3> HIDE DEF queue, full
    <3> QED BY <1>4, <1>5, <3>1
  <2> QED BY <2>1, <2>2
<1>8. full \in BOOLEAN /\ (~full => ~p.full) BY <1>4
<1> HIDE DEF queue, full
<1>9. v \in Worker BY <1>2, <1>6, <1>7, <1>8 DEF Worker
<1>10. /\ v.worker = "capturing" /\ v.error = p.error /\ v.recorded = p.recorded + 1
       /\ v.fed = p.fed /\ v.queue = queue /\ v.full = full /\ v.degraded = p.degraded
       /\ v.silent = p.silent /\ v.transcript = p.transcript /\ v.current = p.current
       /\ v.shutdown = p.shutdown /\ v.running = p.running
  BY <1>2 DEF Worker
<1> HIDE DEF v
<1>11. Len(queue) \in Nat /\ v.fed + Len(v.queue) <= v.recorded
  <2>1. Len(queue) \in 0..QueueSize BY <1>7, QueueIsSequence
  <2>2. Len(queue) \in Nat /\ Len(p.queue) \in Nat /\ p.fed \in Nat /\ p.recorded \in Nat
    BY <1>3, <1>4, <1>5, <2>1
  <2>4. p.fed + Len(p.queue) <= p.recorded /\ Len(queue) <= Len(p.queue) + 1 BY <1>2, <1>7
  <2>3. p.fed + Len(queue) <= p.recorded + 1 BY <2>2, <2>4
  <2> QED BY <1>10, <2>2, <2>3
<1>12. ~v.degraded /\ ~v.full =>
         1..v.recorded \subseteq v.silent \cup v.transcript \cup v.current \cup Elements(v.queue)
  <2> SUFFICES ASSUME ~v.degraded, ~v.full, NEW c \in 1..(p.recorded + 1)
               PROVE  c \in v.silent \cup v.transcript \cup v.current \cup Elements(v.queue)
    BY <1>10
  <2>1. c \in 1..p.recorded \/ c = p.recorded + 1 BY <1>3, <1>4
  <2> QED BY <1>2, <1>7, <1>8, <1>10, <2>1
<1>13. EngineIsTrue(v) BY <1>2, <1>9, <1>10, <1>11, <1>12 DEF EngineIsTrue
<1> QED BY <1>1, <1>2, <1>10, <1>13 DEF EngineGoesOn, WorkerGoesOn

\* The recorder fails, or the loop notes that it is late or that it must end.
LEMMA SignalsKeep ==
  ASSUME NEW e \in Engines, EngineIsTrue(parakeet[e]),
         RecorderFails(e) \/ FallsBehind(e) \/ BreaksOut(e)
  PROVE  EngineGoesOn(e)
<1> DEFINE p == parakeet[e]
<1>1. p \in Worker /\ p.worker \in {"capturing", "finishing"}
      /\ (p.worker = "finishing" => p.shutdown)
  BY DEF EngineIsTrue, RecorderFails, FallsBehind, BreaksOut
<1>2. PICK v : /\ Become(e, v) /\ v \in Worker
               /\ v.worker \in {"capturing", "finishing"} /\ v.error = p.error
               /\ v.recorded = p.recorded /\ v.fed = p.fed /\ v.queue = p.queue
               /\ v.full = p.full /\ (~v.degraded => ~p.degraded)
               /\ v.silent = p.silent /\ v.transcript = p.transcript /\ v.current = p.current
               /\ v.shutdown = p.shutdown /\ v.running = p.running
               /\ v.worker = "capturing" => p.worker = "capturing"
               /\ v.worker = "finishing" => v.shutdown
  <2>1. CASE RecorderFails(e)
    <3> DEFINE v == [p EXCEPT !.wav = "torn"]
    <3>1. Become(e, v) BY <2>1 DEF RecorderFails
    <3>2. /\ v \in Worker
          /\ v.worker = p.worker /\ v.error = p.error
          /\ v.recorded = p.recorded /\ v.fed = p.fed /\ v.queue = p.queue
          /\ v.full = p.full /\ v.degraded = p.degraded
          /\ v.silent = p.silent /\ v.transcript = p.transcript /\ v.current = p.current
          /\ v.shutdown = p.shutdown /\ v.running = p.running
      BY <1>1 DEF Worker
    <3> HIDE DEF v
    <3> QED BY <1>1, <3>1, <3>2
  <2>2. CASE FallsBehind(e)
    <3> DEFINE v == [p EXCEPT !.degraded = TRUE]
    <3>1. Become(e, v) BY <2>2 DEF FallsBehind
    <3>2. /\ v \in Worker
          /\ v.worker = p.worker /\ v.error = p.error
          /\ v.recorded = p.recorded /\ v.fed = p.fed /\ v.queue = p.queue
          /\ v.full = p.full /\ v.degraded
          /\ v.silent = p.silent /\ v.transcript = p.transcript /\ v.current = p.current
          /\ v.shutdown = p.shutdown /\ v.running = p.running
      BY <1>1 DEF Worker
    <3> HIDE DEF v
    <3> QED BY <1>1, <3>1, <3>2
  <2>3. CASE BreaksOut(e)
    <3> DEFINE v == [p EXCEPT !.worker = "finishing"]
    <3>1. Become(e, v) /\ p.shutdown BY <2>3 DEF BreaksOut
    <3>2. /\ v \in Worker
          /\ v.worker = "finishing" /\ v.error = p.error
          /\ v.recorded = p.recorded /\ v.fed = p.fed /\ v.queue = p.queue
          /\ v.full = p.full /\ v.degraded = p.degraded
          /\ v.silent = p.silent /\ v.transcript = p.transcript /\ v.current = p.current
          /\ v.shutdown = p.shutdown /\ v.running = p.running
      BY <1>1 DEF Worker
    <3> HIDE DEF v
    <3> QED BY <1>1, <3>1, <3>2
  <2> QED BY <2>1, <2>2, <2>3
<1>3. EngineIsTrue(v) BY <1>1, <1>2 DEF EngineIsTrue
<1> QED BY <1>1, <1>2, <1>3 DEF EngineGoesOn, WorkerGoesOn
LEMMA SegmentFacts ==
  ASSUME NEW p \in Worker
  PROVE  LET v == FinishSegment(p)
         IN  /\ v \in Worker /\ v.current = {} /\ v.transcript = p.transcript \cup p.current
             /\ v.worker = p.worker /\ v.error = p.error /\ v.recorded = p.recorded
             /\ v.fed = p.fed /\ v.queue = p.queue /\ v.full = p.full
             /\ v.degraded = p.degraded /\ v.silent = p.silent /\ v.quiet = p.quiet
             /\ v.shutdown = p.shutdown /\ v.running = p.running
<1> DEFINE v == FinishSegment(p)
           all == p.transcript \cup p.current
<1>1. v = [p EXCEPT !.transcript = all, !.current = {}] BY DEF FinishSegment
<1>2. all \in SUBSET (Chunks \cup {Seeded}) BY DEF Worker
<1> HIDE DEF v, all
<1>3. v \in Worker BY <1>1, <1>2 DEF Worker
<1> QED BY <1>1, <1>3 DEF Worker, v, all

\* A decoded chunk is silent or in the text.
LEMMA PushFacts ==
  ASSUME NEW p \in Worker, NEW chunk \in Chunks, NEW text \in BOOLEAN, NEW eou \in BOOLEAN,
         p.fed < MaxChunks
  PROVE  LET v == PushDelta(p, chunk, text, eou)
         IN  /\ v.quiet <= RestartAfter => v \in Worker
             /\ v.quiet = IF text THEN 0 ELSE p.quiet + 1
             /\ v.fed = p.fed + 1
             /\ v.worker = p.worker /\ v.error = p.error /\ v.recorded = p.recorded
             /\ v.queue = p.queue /\ v.full = p.full /\ v.degraded = p.degraded
             /\ v.shutdown = p.shutdown /\ v.running = p.running
             /\ p.silent \cup p.transcript \cup p.current \cup {chunk}
                  \subseteq v.silent \cup v.transcript \cup v.current
<1> DEFINE v == PushDelta(p, chunk, text, eou)
           spoken == IF text THEN p.current \cup {chunk} ELSE p.current
           silent == IF text THEN p.silent ELSE p.silent \cup {chunk}
           quiet == IF text THEN 0 ELSE p.quiet + 1
           heard == [p EXCEPT !.fed = p.fed + 1, !.current = spoken, !.silent = silent,
                              !.quiet = quiet]
<1>1. v = IF eou THEN FinishSegment(heard) ELSE heard BY DEF PushDelta
<1>2. MaxChunks \in Nat /\ RestartAfter \in Nat BY ParakeetAssumption
<1>3. p.fed \in 0..MaxChunks /\ p.quiet \in 0..RestartAfter /\ p.current \in SUBSET Chunks
      /\ p.silent \in SUBSET Chunks
  BY DEF Worker
<1>4. p.fed + 1 \in 0..MaxChunks BY <1>2, <1>3
<1>5. spoken \in SUBSET Chunks /\ silent \in SUBSET Chunks
      /\ p.silent \cup p.current \cup {chunk} \subseteq silent \cup spoken
  BY <1>3
<1>6. quiet \in Nat BY <1>2, <1>3
<1>7. quiet <= RestartAfter => quiet \in 0..RestartAfter BY <1>2, <1>6
<1>8. quiet = IF text THEN 0 ELSE p.quiet + 1 OBVIOUS
<1> HIDE DEF spoken, silent, quiet, v
<1>9. quiet <= RestartAfter => heard \in Worker BY <1>4, <1>5, <1>7 DEF Worker
<1>10. /\ heard.quiet = quiet /\ heard.fed = p.fed + 1 /\ heard.current = spoken
       /\ heard.silent = silent /\ heard.transcript = p.transcript
       /\ heard.worker = p.worker /\ heard.error = p.error /\ heard.recorded = p.recorded
       /\ heard.queue = p.queue /\ heard.full = p.full /\ heard.degraded = p.degraded
       /\ heard.shutdown = p.shutdown /\ heard.running = p.running
  BY DEF Worker
<1>11. /\ FinishSegment(heard).transcript = heard.transcript \cup heard.current
       /\ FinishSegment(heard).quiet = heard.quiet /\ FinishSegment(heard).fed = heard.fed
       /\ FinishSegment(heard).silent = heard.silent
       /\ FinishSegment(heard).worker = heard.worker /\ FinishSegment(heard).error = heard.error
       /\ FinishSegment(heard).recorded = heard.recorded
       /\ FinishSegment(heard).queue = heard.queue /\ FinishSegment(heard).full = heard.full
       /\ FinishSegment(heard).degraded = heard.degraded
       /\ FinishSegment(heard).shutdown = heard.shutdown
       /\ FinishSegment(heard).running = heard.running
  BY DEF FinishSegment, Worker
<1> HIDE DEF heard
<1>12. CASE eou
  <2>1. v = FinishSegment(heard) BY <1>1, <1>12
  <2>2. v.quiet <= RestartAfter => v \in Worker BY <1>9, <1>10, <1>11, <2>1, SegmentFacts
  <2>3. p.silent \cup p.transcript \cup p.current \cup {chunk}
          \subseteq v.silent \cup v.transcript \cup v.current
    BY <1>5, <1>10, <1>11, <2>1
  <2> QED BY <1>8, <1>10, <1>11, <2>1, <2>2, <2>3 DEF v
<1>13. CASE ~eou
  <2>1. v = heard BY <1>1, <1>13
  <2>2. p.silent \cup p.transcript \cup p.current \cup {chunk}
          \subseteq v.silent \cup v.transcript \cup v.current
    BY <1>5, <1>10, <2>1
  <2> QED BY <1>8, <1>9, <1>10, <2>1, <2>2 DEF v
<1> QED BY <1>12, <1>13

\* The engine with its first chunk taken.
Rest(p) == [p EXCEPT !.queue = Tail(p.queue)]

LEMMA RestFacts ==
  ASSUME NEW p \in Worker, p.queue # <<>>, p.fed + Len(p.queue) <= p.recorded
  PROVE  /\ Head(p.queue) \in Chunks /\ p.fed < MaxChunks
         /\ Elements(p.queue) \subseteq Elements(Tail(p.queue)) \cup {Head(p.queue)}
         /\ Len(Tail(p.queue)) \in Nat /\ p.fed \in Nat /\ p.recorded \in Nat
         /\ p.fed + 1 + Len(Tail(p.queue)) <= p.recorded
         /\ Rest(p) \in Worker /\ Rest(p).queue = Tail(p.queue)
         /\ Rest(p).worker = p.worker /\ Rest(p).error = p.error
         /\ Rest(p).recorded = p.recorded /\ Rest(p).fed = p.fed /\ Rest(p).quiet = p.quiet
         /\ Rest(p).full = p.full /\ Rest(p).degraded = p.degraded
         /\ Rest(p).silent = p.silent /\ Rest(p).transcript = p.transcript
         /\ Rest(p).current = p.current
         /\ Rest(p).shutdown = p.shutdown /\ Rest(p).running = p.running
<1>1. p.queue \in Queues /\ p.fed \in 0..MaxChunks /\ p.recorded \in 0..MaxChunks BY DEF Worker
<1>2. MaxChunks \in Nat BY ParakeetAssumption
<1> DEFINE q == p.queue
           t == Tail(q)
<1>3. /\ Head(q) \in Chunks /\ t \in Queues
      /\ Len(q) \in Nat /\ Len(t) = Len(q) - 1
      /\ Elements(q) \subseteq Elements(t) \cup {Head(q)}
  BY <1>1, TailOfQueue
<1>4. Len(t) \in Nat BY <1>3, QueueIsSequence, ParakeetAssumption
<1>5. Rest(p) = [p EXCEPT !.queue = t] BY DEF Rest
<1> HIDE DEF t, q
<1>6. Rest(p) \in Worker BY <1>3, <1>5 DEF Worker
<1>7. /\ Rest(p).queue = t
      /\ Rest(p).worker = p.worker /\ Rest(p).error = p.error
      /\ Rest(p).recorded = p.recorded /\ Rest(p).fed = p.fed /\ Rest(p).quiet = p.quiet
      /\ Rest(p).full = p.full /\ Rest(p).degraded = p.degraded
      /\ Rest(p).silent = p.silent /\ Rest(p).transcript = p.transcript
      /\ Rest(p).current = p.current
      /\ Rest(p).shutdown = p.shutdown /\ Rest(p).running = p.running
  BY <1>5 DEF Worker
<1>8. p.fed + Len(q) <= p.recorded BY DEF q
<1>9. p.fed + 1 + Len(t) <= p.recorded /\ p.fed < MaxChunks
  BY <1>1, <1>2, <1>3, <1>4, <1>8
<1> QED BY <1>1, <1>2, <1>3, <1>4, <1>6, <1>7, <1>9 DEF t, q
\* An engine that knows of the samples a full queue cost.
Noting(p) == [p EXCEPT !.degraded = p.degraded \/ p.full]

LEMMA NotingFacts ==
  ASSUME NEW p \in Worker
  PROVE  /\ Noting(p) \in Worker /\ Noting(p).degraded = (p.degraded \/ p.full)
         /\ Noting(p).worker = p.worker /\ Noting(p).error = p.error
         /\ Noting(p).recorded = p.recorded /\ Noting(p).fed = p.fed
         /\ Noting(p).quiet = p.quiet /\ Noting(p).queue = p.queue /\ Noting(p).wav = p.wav
         /\ Noting(p).full = p.full /\ Noting(p).paused = p.paused
         /\ Noting(p).silent = p.silent /\ Noting(p).transcript = p.transcript
         /\ Noting(p).current = p.current
         /\ Noting(p).shutdown = p.shutdown /\ Noting(p).running = p.running
<1> DEFINE d == p.degraded \/ p.full
<1>1. d \in BOOLEAN BY DEF Worker
<1>2. Noting(p) = [p EXCEPT !.degraded = d] BY DEF Noting
<1> HIDE DEF d
<1>3. Noting(p) \in Worker BY <1>1, <1>2 DEF Worker
<1>4. /\ Noting(p).degraded = d
      /\ Noting(p).worker = p.worker /\ Noting(p).error = p.error
      /\ Noting(p).recorded = p.recorded /\ Noting(p).fed = p.fed
      /\ Noting(p).quiet = p.quiet /\ Noting(p).queue = p.queue /\ Noting(p).wav = p.wav
      /\ Noting(p).full = p.full /\ Noting(p).paused = p.paused
      /\ Noting(p).silent = p.silent /\ Noting(p).transcript = p.transcript
      /\ Noting(p).current = p.current
      /\ Noting(p).shutdown = p.shutdown /\ Noting(p).running = p.running
  BY <1>2 DEF Worker
<1> QED BY <1>3, <1>4 DEF d

\* One pass of the loop over the first chunk: it is silent, decoded or lost,
\* and a lost one is noted.
LEMMA ConsumeKeeps ==
  ASSUME NEW e \in Engines, EngineIsTrue(parakeet[e]),
         NEW text \in BOOLEAN, NEW eou \in BOOLEAN, Consume(e, text, eou)
  PROVE  EngineGoesOn(e)
<1> DEFINE c == parakeet[e]
           p == Noting(c)
           head == Head(p.queue)
           hushed == [Rest(p) EXCEPT !.silent = Rest(p).silent \cup {head}]
           lost == [Rest(p) EXCEPT !.degraded = TRUE]
           next == IF p.paused THEN hushed
                   ELSE IF AllowFeed(p) THEN PushDelta(Rest(p), head, text, eou) ELSE lost
<1>1. p = [c EXCEPT !.degraded = c.degraded \/ c.full] BY DEF Noting
<1>2. /\ p.worker = "capturing" /\ p.queue # <<>>
      /\ Become(e, next) /\ next.quiet < RestartAfter
  BY <1>1 DEF Consume, Rest
<1>3. /\ c \in Worker
      /\ c.worker # "ended" => c.error = "none" /\ c.fed + Len(c.queue) <= c.recorded
      /\ c.worker \in {"capturing", "finishing"} /\ ~c.degraded /\ ~c.full =>
           1..c.recorded \subseteq c.silent \cup c.transcript \cup c.current
                                   \cup Elements(c.queue)
  BY DEF EngineIsTrue
<1>4. /\ p \in Worker /\ p.degraded = (c.degraded \/ c.full)
      /\ p.worker = c.worker /\ p.error = c.error /\ p.recorded = c.recorded /\ p.fed = c.fed
      /\ p.quiet = c.quiet /\ p.queue = c.queue /\ p.full = c.full
      /\ p.silent = c.silent /\ p.transcript = c.transcript /\ p.current = c.current
      /\ p.shutdown = c.shutdown /\ p.running = c.running
  BY <1>3, NotingFacts
<1> HIDE DEF p
<1>5. /\ p.fed + Len(p.queue) <= p.recorded /\ p.error = "none"
      /\ ~p.degraded => 1..p.recorded \subseteq p.silent \cup p.transcript \cup p.current
                                                \cup Elements(p.queue)
  BY <1>2, <1>3, <1>4
<1> DEFINE r == Rest(p)
<1>6. /\ head \in Chunks /\ p.fed < MaxChunks
      /\ Elements(p.queue) \subseteq Elements(r.queue) \cup {head}
      /\ Len(r.queue) \in Nat /\ p.fed \in Nat /\ p.recorded \in Nat
      /\ p.fed + 1 + Len(r.queue) <= p.recorded
      /\ r \in Worker
      /\ r.worker = p.worker /\ r.error = p.error
      /\ r.recorded = p.recorded /\ r.fed = p.fed /\ r.quiet = p.quiet
      /\ r.full = p.full /\ r.degraded = p.degraded
      /\ r.silent = p.silent /\ r.transcript = p.transcript /\ r.current = p.current
      /\ r.shutdown = p.shutdown /\ r.running = p.running
  BY <1>2, <1>4, <1>5, RestFacts
<1> HIDE DEF r, head
<1>7. /\ next \in Worker /\ next.worker = "capturing" /\ next.error = "none"
      /\ next.recorded = p.recorded /\ next.fed \in {p.fed, p.fed + 1}
      /\ next.queue = r.queue
      /\ next.shutdown = p.shutdown /\ next.running = p.running
      /\ ~next.degraded => ~p.degraded
           /\ p.silent \cup p.transcript \cup p.current \cup {head}
                \subseteq next.silent \cup next.transcript \cup next.current
  <2>1. CASE p.paused
    <3> DEFINE s == r.silent \cup {head}
    <3>1. next = [r EXCEPT !.silent = s] BY <2>1 DEF r
    <3>2. s \in SUBSET Chunks /\ r.silent \cup {head} \subseteq s
      <4>1. r.silent \in SUBSET Chunks BY <1>6 DEF Worker
      <4> QED BY <1>6, <4>1
    <3> HIDE DEF next, s
    <3>3. next \in Worker BY <1>6, <3>1, <3>2 DEF Worker
    <3>4. /\ next.worker = r.worker /\ next.error = r.error /\ next.recorded = r.recorded
          /\ next.fed = r.fed /\ next.queue = r.queue /\ next.degraded = r.degraded
          /\ next.shutdown = r.shutdown /\ next.running = r.running
          /\ next.silent = s /\ next.transcript = r.transcript /\ next.current = r.current
      BY <1>6, <3>1 DEF Worker
    <3> QED BY <1>2, <1>5, <1>6, <3>2, <3>3, <3>4
  <2>2. CASE ~p.paused /\ AllowFeed(p)
    <3>1. next = PushDelta(r, head, text, eou) BY <2>2 DEF r
    <3>2. /\ next.quiet <= RestartAfter => next \in Worker
          /\ next.quiet = IF text THEN 0 ELSE r.quiet + 1
          /\ next.fed = r.fed + 1
          /\ next.worker = r.worker /\ next.error = r.error /\ next.recorded = r.recorded
          /\ next.queue = r.queue /\ next.degraded = r.degraded
          /\ next.shutdown = r.shutdown /\ next.running = r.running
          /\ r.silent \cup r.transcript \cup r.current \cup {head}
               \subseteq next.silent \cup next.transcript \cup next.current
      <4>1. r.fed < MaxChunks BY <1>6
      <4> HIDE DEF next
      <4> QED BY <1>6, <3>1, <4>1, PushFacts
    <3> HIDE DEF next
    <3>3. next \in Worker
      <4>3. r.quiet \in 0..RestartAfter BY <1>6 DEF Worker
      <4>1. r.quiet \in Nat /\ RestartAfter \in Nat BY <4>3, ParakeetAssumption
      <4>2. next.quiet \in Nat BY <3>2, <4>1
      <4> QED BY <1>2, <3>2, <4>1, <4>2
    <3> QED BY <1>2, <1>5, <1>6, <3>2, <3>3
  <2>3. CASE ~p.paused /\ ~AllowFeed(p)
    <3>1. next = [r EXCEPT !.degraded = TRUE] BY <2>3 DEF r
    <3> HIDE DEF next
    <3>2. /\ next \in Worker
          /\ next.worker = r.worker /\ next.error = r.error /\ next.recorded = r.recorded
          /\ next.fed = r.fed /\ next.queue = r.queue /\ next.degraded
          /\ next.shutdown = r.shutdown /\ next.running = r.running
      BY <1>6, <3>1 DEF Worker
    <3> QED BY <1>2, <1>5, <1>6, <3>2
  <2> QED BY <2>1, <2>2, <2>3
<1> HIDE DEF next
<1>8. next.fed + Len(next.queue) <= next.recorded BY <1>6, <1>7
<1>9. ~next.degraded =>
        1..next.recorded \subseteq next.silent \cup next.transcript \cup next.current
                                   \cup Elements(next.queue)
  BY <1>5, <1>6, <1>7
<1>10. EngineIsTrue(next) BY <1>7, <1>8, <1>9 DEF EngineIsTrue
<1>11. WorkerGoesOn(next, c) BY <1>2, <1>4, <1>7 DEF WorkerGoesOn
<1> QED BY <1>2, <1>10, <1>11 DEF EngineGoesOn

\* The stream is begun again, with the segment closed, or the engine ends.
LEMMA RestartKeeps ==
  ASSUME NEW e \in Engines, EngineIsTrue(parakeet[e]), RestartStream(e)
  PROVE  EngineGoesOn(e)
<1> DEFINE p == parakeet[e]
           r == Rest(p)
           head == Head(p.queue)
           fed == PushDelta(r, head, FALSE, FALSE)
           closed == FinishSegment(fed)
           again == [closed EXCEPT !.quiet = 0]
           freed == [closed EXCEPT !.quiet = 0, !.stream = "freed"]
<1>1. /\ p.worker = "capturing" /\ p.queue # <<>> /\ p.quiet + 1 = RestartAfter
      /\ ~p.degraded /\ ~p.full
      /\ Become(e, again) \/ Become(e, EndWith(freed, "failed"))
  BY DEF RestartStream, Rest, AllowFeed
<1>2. /\ p \in Worker /\ p.error = "none" /\ p.fed + Len(p.queue) <= p.recorded
      /\ 1..p.recorded \subseteq p.silent \cup p.transcript \cup p.current
                                 \cup Elements(p.queue)
  BY <1>1 DEF EngineIsTrue
<1>3. /\ head \in Chunks /\ p.fed < MaxChunks
      /\ Elements(p.queue) \subseteq Elements(r.queue) \cup {head}
      /\ Len(r.queue) \in Nat /\ p.fed \in Nat /\ p.recorded \in Nat
      /\ p.fed + 1 + Len(r.queue) <= p.recorded
      /\ r \in Worker
      /\ r.worker = p.worker /\ r.error = p.error
      /\ r.recorded = p.recorded /\ r.fed = p.fed /\ r.quiet = p.quiet
      /\ r.full = p.full /\ r.degraded = p.degraded
      /\ r.silent = p.silent /\ r.transcript = p.transcript /\ r.current = p.current
      /\ r.shutdown = p.shutdown /\ r.running = p.running
  BY <1>1, <1>2, RestFacts
<1> HIDE DEF r, head
<1>4. /\ fed.quiet <= RestartAfter => fed \in Worker
      /\ fed.quiet = r.quiet + 1
      /\ fed.fed = r.fed + 1
      /\ fed.worker = r.worker /\ fed.error = r.error /\ fed.recorded = r.recorded
      /\ fed.queue = r.queue
      /\ fed.shutdown = r.shutdown /\ fed.running = r.running
      /\ r.silent \cup r.transcript \cup r.current \cup {head}
           \subseteq fed.silent \cup fed.transcript \cup fed.current
  <2>1. r.fed < MaxChunks BY <1>3
  <2> DEFINE no == FALSE
  <2>2. no \in BOOLEAN /\ ~no OBVIOUS
  <2>3. fed = PushDelta(r, head, no, no) OBVIOUS
  <2> HIDE DEF fed, no
  <2> QED BY <1>3, <2>1, <2>2, <2>3, PushFacts
<1> HIDE DEF fed
<1>5. fed \in Worker
  <2>1. RestartAfter \in Nat BY ParakeetAssumption
  <2> QED BY <1>1, <1>3, <1>4, <2>1
<1>6. /\ closed \in Worker /\ closed.current = {}
      /\ closed.transcript = fed.transcript \cup fed.current
      /\ closed.worker = fed.worker /\ closed.error = fed.error
      /\ closed.recorded = fed.recorded
      /\ closed.fed = fed.fed /\ closed.queue = fed.queue /\ closed.silent = fed.silent
      /\ closed.shutdown = fed.shutdown /\ closed.running = fed.running
  BY <1>5, SegmentFacts
<1> HIDE DEF closed
<1>7. RestartAfter \in Nat /\ 0 \in 0..RestartAfter BY ParakeetAssumption
<1>8. CASE Become(e, again)
  <2>1. again \in Worker BY <1>6, <1>7 DEF Worker
  <2>7. /\ again.worker = closed.worker /\ again.error = closed.error
        /\ again.recorded = closed.recorded /\ again.fed = closed.fed
        /\ again.queue = closed.queue /\ again.silent = closed.silent
        /\ again.transcript = closed.transcript
        /\ again.shutdown = closed.shutdown /\ again.running = closed.running
    BY <1>6 DEF Worker
  <2> HIDE DEF again
  <2>2. /\ again.worker = "capturing" /\ again.error = "none" /\ again.recorded = p.recorded
        /\ again.fed = p.fed + 1 /\ again.queue = r.queue
        /\ again.silent = fed.silent /\ again.transcript = fed.transcript \cup fed.current
        /\ again.shutdown = p.shutdown /\ again.running = p.running
    BY <1>1, <1>2, <1>3, <1>4, <1>6, <2>7
  <2>3. 1..again.recorded \subseteq again.silent \cup again.transcript \cup again.current
                                    \cup Elements(again.queue)
    BY <1>2, <1>3, <1>4, <2>2
  <2>4. again.fed + Len(again.queue) <= again.recorded BY <1>3, <2>2
  <2>5. EngineIsTrue(again) BY <2>1, <2>2, <2>3, <2>4 DEF EngineIsTrue
  <2>6. WorkerGoesOn(again, p) BY <1>1, <2>2 DEF WorkerGoesOn
  <2> QED BY <1>8, <2>5, <2>6 DEF EngineGoesOn
<1>9. CASE Become(e, EndWith(freed, "failed"))
  <2>1. freed \in Worker BY <1>6, <1>7 DEF Worker
  <2>2. freed.shutdown = p.shutdown BY <1>3, <1>4, <1>6 DEF Worker
  <2> HIDE DEF freed
  <2> DEFINE v == EndWith(freed, "failed")
  <2>3. EngineIsTrue(v) /\ v.worker = "ended" /\ v.shutdown = freed.shutdown
    BY <2>1, EndFacts DEF ParakeetErrors
  <2> HIDE DEF v
  <2>4. WorkerGoesOn(v, p) BY <1>1, <2>2, <2>3 DEF WorkerGoesOn
  <2> QED BY <1>9, <2>3, <2>4 DEF EngineGoesOn, v
<1> QED BY <1>1, <1>8, <1>9

LEMMA FailureKeeps ==
  ASSUME NEW e \in Engines, EngineIsTrue(parakeet[e]), FeedFails(e) \/ SeesRecorderError(e)
  PROVE  EngineGoesOn(e)
<1> DEFINE p == parakeet[e]
           v == EndWith(p, "failed")
<1>1. p \in Worker /\ p.worker = "capturing" /\ Become(e, v)
  BY DEF EngineIsTrue, FeedFails, SeesRecorderError
<1>2. EngineIsTrue(v) /\ v.worker = "ended" /\ v.shutdown = p.shutdown
  BY <1>1, EndFacts DEF ParakeetErrors
<1> HIDE DEF v
<1>3. WorkerGoesOn(v, p) BY <1>1, <1>2 DEF WorkerGoesOn
<1> QED BY <1>1, <1>2, <1>3 DEF EngineGoesOn

\* At the end what is queued is decoded, unless something was lost before.
LEMMA FinishKeeps ==
  ASSUME NEW e \in Engines, EngineIsTrue(parakeet[e]), Finishes(e)
  PROVE  EngineGoesOn(e)
<1> DEFINE c == parakeet[e]
           p == Noting(c)
           left == {p.queue[i] : i \in DOMAIN p.queue}
           decoded == [p EXCEPT !.current = p.current \cup left,
                                !.fed = p.fed + Cardinality(left)]
           last == IF p.degraded THEN p ELSE decoded
           done == FinishSegment(last)
<1>1. p = [c EXCEPT !.degraded = c.degraded \/ c.full] BY DEF Noting
<1>2. /\ p.worker = "finishing"
      /\ \/ Become(e, EndWith(p, "failed"))
         \/ p.degraded /\ Become(e, EndWith(done, "degraded"))
         \/ ~p.degraded /\ Become(e, EndWith(done, "none"))
  BY <1>1 DEF Finishes
<1>3. /\ c \in Worker
      /\ c.worker # "ended" => c.error = "none" /\ c.fed + Len(c.queue) <= c.recorded
      /\ c.worker \in {"capturing", "finishing"} /\ ~c.degraded /\ ~c.full =>
           1..c.recorded \subseteq c.silent \cup c.transcript \cup c.current
                                   \cup Elements(c.queue)
  BY DEF EngineIsTrue
<1>4. /\ p \in Worker /\ p.degraded = (c.degraded \/ c.full)
      /\ p.worker = c.worker /\ p.recorded = c.recorded /\ p.fed = c.fed /\ p.queue = c.queue
      /\ p.silent = c.silent /\ p.transcript = c.transcript /\ p.current = c.current
      /\ p.shutdown = c.shutdown
  BY <1>3, NotingFacts
<1> HIDE DEF p
<1>5. /\ p.fed + Len(p.queue) <= p.recorded
      /\ ~p.degraded => 1..p.recorded \subseteq p.silent \cup p.transcript \cup p.current
                                                \cup Elements(p.queue)
  BY <1>2, <1>3, <1>4
<1>6. p.queue \in Queues /\ p.fed \in 0..MaxChunks /\ p.recorded \in 0..MaxChunks
      /\ p.current \in SUBSET Chunks
  BY <1>4 DEF Worker
<1>7. MaxChunks \in Nat /\ QueueSize \in Nat BY ParakeetAssumption
<1>8. left = Elements(p.queue) BY <1>6, QueueIsSequence DEF Elements
<1>9. left \subseteq Chunks /\ Cardinality(left) \in 0..Len(p.queue)
      /\ Len(p.queue) \in 0..QueueSize
  BY <1>6, <1>8, FewElements, QueueIsSequence
<1> HIDE DEF left
<1>10. p.fed + Cardinality(left) \in 0..MaxChunks BY <1>5, <1>6, <1>7, <1>9
<1>11. p.current \cup left \in SUBSET Chunks BY <1>6, <1>9
<1>12. /\ decoded \in Worker /\ decoded.current = p.current \cup left
       /\ decoded.transcript = p.transcript /\ decoded.silent = p.silent
       /\ decoded.recorded = p.recorded /\ decoded.shutdown = p.shutdown
  <2> DEFINE all == p.current \cup left
             fed == p.fed + Cardinality(left)
  <2>1. all \in SUBSET Chunks /\ fed \in 0..MaxChunks BY <1>10, <1>11
  <2>2. decoded = [p EXCEPT !.current = all, !.fed = fed] OBVIOUS
  <2> HIDE DEF all, fed, decoded
  <2>3. decoded \in Worker BY <1>4, <2>1, <2>2 DEF Worker
  <2>4. /\ decoded.current = all
        /\ decoded.transcript = p.transcript /\ decoded.silent = p.silent
        /\ decoded.recorded = p.recorded /\ decoded.shutdown = p.shutdown
    BY <1>4, <2>2 DEF Worker
  <2> QED BY <2>3, <2>4 DEF all
<1> HIDE DEF decoded
<1>13. last \in Worker /\ last.shutdown = p.shutdown BY <1>4, <1>12
<1>14. /\ done \in Worker /\ done.transcript = last.transcript \cup last.current
       /\ done.silent = last.silent /\ done.recorded = last.recorded
       /\ done.shutdown = last.shutdown
  <2> HIDE DEF last
  <2> QED BY <1>13, SegmentFacts
<1>15. ~p.degraded => 1..done.recorded \subseteq done.silent \cup done.transcript
  BY <1>5, <1>8, <1>12, <1>14
<1> HIDE DEF last, done
<1>16. CASE Become(e, EndWith(p, "failed"))
  <2> DEFINE v == EndWith(p, "failed")
  <2>1. EngineIsTrue(v) /\ v.worker = "ended" /\ v.shutdown = c.shutdown
    BY <1>4, EndFacts DEF ParakeetErrors
  <2> HIDE DEF v
  <2>2. WorkerGoesOn(v, c) BY <1>2, <1>4, <2>1 DEF WorkerGoesOn
  <2> QED BY <1>16, <2>1, <2>2 DEF EngineGoesOn, v
<1>17. CASE Become(e, EndWith(done, "degraded"))
  <2> DEFINE v == EndWith(done, "degraded")
  <2>1. EngineIsTrue(v) /\ v.worker = "ended" /\ v.shutdown = done.shutdown
    BY <1>14, EndFacts DEF ParakeetErrors
  <2> HIDE DEF v
  <2>2. WorkerGoesOn(v, c) BY <1>2, <1>4, <1>13, <1>14, <2>1 DEF WorkerGoesOn
  <2> QED BY <1>17, <2>1, <2>2 DEF EngineGoesOn, v
<1>18. CASE ~p.degraded /\ Become(e, EndWith(done, "none"))
  <2> DEFINE v == EndWith(done, "none")
  <2>1. EngineIsTrue(v) /\ v.worker = "ended" /\ v.shutdown = done.shutdown
    BY <1>14, <1>15, <1>18, EndFacts DEF ParakeetErrors
  <2> HIDE DEF v
  <2>2. WorkerGoesOn(v, c) BY <1>2, <1>4, <1>13, <1>14, <2>1 DEF WorkerGoesOn
  <2> QED BY <1>18, <2>1, <2>2 DEF EngineGoesOn, v
<1> QED BY <1>2, <1>16, <1>17, <1>18

LEMMA ThreadsKeep ==
  ASSUME \A e \in Engines : EngineIsTrue(parakeet[e]), ParakeetNext
  PROVE  \E e \in Engines : EngineGoesOn(e)
BY RecordKeeps, SignalsKeep, ConsumeKeeps, RestartKeeps, FailureKeeps, FinishKeeps
   DEF ParakeetNext
-----------------------------------------------------------------------------
(* The commands: what their proofs have in common. *)

LEMMA Numbers ==
  ASSUME CommandsFit
  PROVE  /\ used \in Nat /\ active \in Nat /\ current \in Nat /\ starting \in Nat
         /\ Engines = Jobs /\ 0 \notin Jobs /\ Ids = Jobs \cup {0}
         /\ \A j \in Jobs : j \in Nat /\ j \in Ids
BY IdsAreNumbers, EnginesAreJobs DEF CommandsFit, Ids

\* Nobody captures while no session is active.
LEMMA NobodyHears ==
  ASSUME LiveInv, active = 0
  PROVE  whisper.proc # "alive" /\ \A e \in Engines : parakeet[e].worker \notin Live
<1>1. whisper.proc # "alive"
  BY DEF LiveInv, StreamIsTrue, LinesAreTrue, CaptureIsKnown, NoStrayCapture
<1>2. ASSUME NEW e \in Engines PROVE parakeet[e].worker \notin Live
  BY Numbers DEF LiveInv, CaptureIsKnown, NoStrayCapture, Live
<1> QED BY <1>1, <1>2

\* What was true of a stream stays true of it when ids are made.
LEMMA StreamLater ==
  ASSUME NEW u \in Nat, NEW v \in Nat, u <= v, NEW w, StreamIsTrue(w, u)
  PROVE  StreamIsTrue(w, v)
<1>1. w \in Stream /\ WordsUpTo(w, u) BY DEF StreamIsTrue
<1>2. WordsUpTo(w, v)
  <2>1. w.session <= v /\ w.preview[1] <= v BY <1>1, WordFacts DEF WordsUpTo
  <2>2. ASSUME NEW i \in 1..Len(w.lines) PROVE w.lines[i][1] <= v
    BY <1>1, WordFacts DEF WordsUpTo
  <2> QED BY <2>1, <2>2 DEF WordsUpTo
<1> QED BY <1>2 DEF StreamIsTrue

LEMMA KeptIsText ==
  ASSUME CommandsFit, NEW a \in Kept
  PROVE  /\ a \in Text /\ a.lines \in Seq(Words)
         /\ \A i \in 1..Len(a.lines) : a.lines[i][1] \in Nat
<1>1. a \in Text BY DEF CommandsFit, Kept, Tasks
<1>2. a.lines \in Seq(Words) BY <1>1 DEF Text
<1>3. ASSUME NEW i \in 1..Len(a.lines) PROVE a.lines[i][1] \in Nat
  <2>1. a.lines[i] \in Words BY <1>2, ElementOfSeq
  <2>2. a.lines[i][1] \in Jobs BY <2>1 DEF Words
  <2> QED BY <2>2, IdsAreNumbers
<1> QED BY <1>1, <1>2, <1>3

\* The kept texts stay old: no text is added, and a session that is captured
\* is the one of before or a new one.
LEMMA TextStays ==
  ASSUME CommandsFit, KeptIsTrue, NEW a \in Kept, used' \in Nat, used <= used',
         whisper'.proc # "none" =>
           (whisper.proc # "none" /\ whisper'.session = whisper.session)
           \/ (whisper'.session \in Nat /\ whisper'.session > used)
  PROVE  TextIsTrue(a) /\ TextIsOld(a)'
<1>1. TextIsTrue(a) /\ TextIsOld(a) BY DEF KeptIsTrue
<1>2. ASSUME NEW i \in 1..Len(a.lines)
      PROVE  /\ a.lines[i][1] <= used'
             /\ whisper'.proc # "none" => a.lines[i][1] # whisper'.session
  <2>1. a.lines[i][1] \in Nat /\ used \in Nat BY KeptIsText, Numbers
  <2>2. a.lines[i][1] <= used /\ (whisper.proc # "none" => a.lines[i][1] # whisper.session)
    BY <1>1 DEF TextIsOld
  <2> QED BY <2>1, <2>2
<1> QED BY <1>1, <1>2 DEF TextIsOld

LEMMA KeptStays ==
  ASSUME CommandsFit, KeptIsTrue, Kept' \subseteq Kept, used' \in Nat, used <= used',
         whisper'.proc # "none" =>
           (whisper.proc # "none" /\ whisper'.session = whisper.session)
           \/ (whisper'.session \in Nat /\ whisper'.session > used)
  PROVE  KeptIsTrue'
<1> SUFFICES ASSUME NEW a \in Kept PROVE TextIsTrue(a) /\ TextIsOld(a)' BY DEF KeptIsTrue
<1> QED BY TextStays

LEMMA NothingOpen ==
  ASSUME stops' = {}, \A j \in Jobs : ~Open(j)' /\ task'[j].text = {}
  PROVE  FinaliserIsKnown'
BY DEF FinaliserIsKnown, Open

\* Before a start no task is open.
LEMMA Quiet ==
  ASSUME LiveInv, stops = {}
  PROVE  \A j \in Jobs : ~Open(j) /\ task[j].text = {}
BY DEF LiveInv, FinaliserIsKnown, Open

\* The open task and its command.
LEMMA OpenFacts ==
  ASSUME LiveInv, NEW j \in Jobs, Open(j)
  PROVE  /\ stops = {j} /\ starting = 0 /\ active \in {0, j} /\ task[j].kind = kind
         /\ task[j] \in Tasks
         /\ \A k \in Jobs : k # j => ~Open(k) /\ task[k].text = {}
<1>1. j \in stops /\ stops \in SUBSET Jobs BY DEF LiveInv, FinaliserIsKnown, CommandsFit
<1>2. stops = {j} BY <1>1 DEF LiveInv, FinaliserIsKnown
<1>3. starting = 0 BY <1>2 DEF LiveInv, CaptureIsKnown
<1>4. active \in {0, j} /\ task[j].kind = kind BY DEF LiveInv, FinaliserIsKnown
<1>5. task[j] \in Tasks BY DEF LiveInv, CommandsFit
<1>6. \A k \in Jobs : k # j => ~Open(k) /\ task[k].text = {}
  BY <1>2 DEF LiveInv, FinaliserIsKnown, Open
<1> QED BY <1>2, <1>3, <1>4, <1>5, <1>6

\* A task that ends leaves nothing open and keeps no text.
LEMMA EndTaskFacts ==
  ASSUME LiveInv, NEW j \in Jobs, Open(j), NEW how \in TaskEnds, EndTask(j, how)
  PROVE  /\ task' \in [Jobs -> Tasks] /\ stops' = {} /\ FinaliserIsKnown'
         /\ \A k \in Jobs : task'[k].text = {}
<1> DEFINE t == [task[j] EXCEPT !.pc = how, !.text = {}]
<1>1. /\ stops = {j} /\ task[j] \in Tasks
      /\ \A k \in Jobs : k # j => ~Open(k) /\ task[k].text = {}
  BY OpenFacts
<1>2. task \in [Jobs -> Tasks] BY DEF LiveInv, CommandsFit
<1>3. task' = [task EXCEPT ![j] = t] /\ stops' = stops \ {j} BY <1>2 DEF EndTask
<1>4. t \in Tasks /\ t.pc = how /\ t.text = {} BY <1>1 DEF Tasks, TaskEnds
<1> HIDE DEF t
<1>5. task' \in [Jobs -> Tasks] /\ task'[j] = t /\ \A k \in Jobs : k # j => task'[k] = task[k]
  BY <1>2, <1>3, <1>4
<1>6. stops' = {} BY <1>1, <1>3
<1>7. ASSUME NEW k \in Jobs PROVE ~Open(k)' /\ task'[k].text = {}
  <2>1. CASE k = j BY <1>4, <1>5, <2>1 DEF Open, TaskEnds
  <2>2. CASE k # j BY <1>1, <1>5, <2>2 DEF Open
  <2> QED BY <2>1, <2>2
<1>8. FinaliserIsKnown' BY <1>6, <1>7, NothingOpen
<1> QED BY <1>5, <1>6, <1>7, <1>8

EnginesAreTrue ==
  parakeet \in [Engines -> Worker] /\ \A e \in Engines : EngineIsTrue(parakeet[e])

LEMMA BecomeFacts ==
  ASSUME EnginesAreTrue, NEW e \in Engines, NEW v, EngineIsTrue(v), Become(e, v)
  PROVE  EnginesAreTrue' /\ parakeet'[e] = v
         /\ \A f \in Engines : f # e => parakeet'[f] = parakeet[f]
<1>1. v \in Worker BY DEF EngineIsTrue
<1>2. parakeet' = [parakeet EXCEPT ![e] = v] BY DEF Become
<1>3. /\ parakeet' \in [Engines -> Worker] /\ parakeet'[e] = v
      /\ \A f \in Engines : f # e => parakeet'[f] = parakeet[f]
  BY <1>1, <1>2 DEF EnginesAreTrue
<1>4. ASSUME NEW f \in Engines PROVE EngineIsTrue(parakeet'[f])
  <2>1. CASE f = e BY <1>3, <2>1
  <2>2. CASE f # e BY <1>3, <2>2 DEF EnginesAreTrue
  <2> QED BY <2>1, <2>2
<1> QED BY <1>3, <1>4 DEF EnginesAreTrue
-----------------------------------------------------------------------------
(* Starting a session. *)

\* A session begins from nothing or from the lines of an artifact.
LEMMA ResumableFacts ==
  ASSUME LiveInv, NEW text \in Resumable
  PROVE  LET w == Prepared(text)
         IN  StreamIsTrue(w, used) /\ w.proc = "none" /\ w.preview = NoWord
<1>1. CommandsFit /\ KeptIsTrue BY DEF LiveInv
<1>2. used \in Nat BY <1>1, Numbers
<1>3. /\ text \in Seq(Words)
      /\ \A i, k \in 1..Len(text) : text[i] = text[k] => i = k
      /\ \A i \in 1..Len(text) : text[i][1] <= used
  <2>1. CASE text = <<>>
    <3>1. text \in Seq(Words) /\ Len(text) = 0 BY <2>1, EmptySeq
    <3>2. \A i \in 1..Len(text) : FALSE BY <3>1
    <3> QED BY <3>1, <3>2
  <2>2. CASE text # <<>>
    <3>1. PICK a \in artifacts : text = a.lines BY <2>2 DEF Resumable
    <3>2. a \in Kept BY DEF Kept
    <3>3. TextIsTrue(a) /\ TextIsOld(a) /\ a.lines \in Seq(Words)
      BY <1>1, <3>2, KeptIsText DEF KeptIsTrue
    <3> QED BY <3>1, <3>3 DEF TextIsTrue, TextIsOld
  <2> QED BY <2>1, <2>2
<1> HIDE DEF LiveInv
<1> QED BY <1>2, <1>3, PreparedFacts

LEMMA StartWhisperKeeps ==
  ASSUME LiveInv, StartWhisper
  PROVE  LiveInv'
<1>1. /\ StreamIsTrue(whisper, used) /\ EnginesAreTrue
      /\ CommandsFit /\ FinaliserIsKnown /\ KeptIsTrue
  BY DEF LiveInv, EnginesAreTrue
<1>2. /\ starting = 0 /\ stops = {} /\ active = 0 /\ used + 1 \in Jobs
      /\ used' = used + 1 /\ active' = used + 1 /\ starting' = used + 1
      /\ kind' = "whisper" /\ current' = 0
      /\ UNCHANGED <<parakeet, stops, task, artifacts>>
  BY DEF StartWhisper, StartAllowed, CanMakeId, Fresh
<1>3. PICK text \in Resumable : whisper' = SpawnStream(Prepared(text), used + 1)
  BY DEF StartWhisper, Fresh, Prepared
<1>4. used \in Nat /\ used' \in Jobs /\ used' \in Ids /\ used' > used /\ used' \in Nat
  BY <1>1, <1>2, Numbers
<1>5. StreamIsTrue(whisper', used') /\ whisper'.session = used' /\ whisper'.proc = "alive"
  <2> DEFINE w == Prepared(text)
             job == used + 1
  <2>1. StreamIsTrue(w, used) /\ w.preview = NoWord BY ResumableFacts
  <2>2. whisper' = SpawnStream(w, job) /\ job \in Jobs /\ job = used + 1 BY <1>2, <1>3
  <2> HIDE DEF w, job
  <2>3. StreamIsTrue(SpawnStream(w, job), job) /\ SpawnStream(w, job).session = job
        /\ SpawnStream(w, job).proc = "alive"
    BY <1>4, <2>1, <2>2, SpawnFacts
  <2> QED BY <1>2, <2>2, <2>3
<1>6. EnginesAreTrue' BY <1>1, <1>2 DEF EnginesAreTrue
<1>7. CommandsFit'
  <2>1. \A e \in Engines : e > used' => parakeet'[e].worker = "none"
    <3> SUFFICES ASSUME NEW e \in Engines, e > used' PROVE e > used
      BY <1>1, <1>2 DEF CommandsFit
    <3>1. e \in Nat BY <1>1, Numbers
    <3> QED BY <1>4, <3>1
  <2>2. 0 \in Ids /\ 0 <= used' BY <1>4 DEF Ids
  <2> QED BY <1>1, <1>2, <1>4, <2>1, <2>2 DEF CommandsFit
<1>8. CaptureIsKnown'
  <2>1. \A e \in Engines : parakeet'[e].worker \notin Live BY <1>2, NobodyHears
  <2> QED BY <1>2, <1>5, <2>1 DEF CaptureIsKnown, NoStrayCapture, Live
<1>9. FinaliserIsKnown'
  <2>1. \A j \in Jobs : ~Open(j)' /\ task'[j].text = {} BY <1>2, Quiet DEF Open
  <2> QED BY <1>2, <2>1, NothingOpen
<1>10. KeptIsTrue'
  <2>1. Kept' = Kept BY <1>2 DEF Kept
  <2> QED BY <1>1, <1>4, <1>5, <2>1, KeptStays
<1> QED BY <1>5, <1>6, <1>7, <1>8, <1>9, <1>10 DEF LiveInv, EnginesAreTrue

LEMMA StartWhisperFailsKeeps ==
  ASSUME LiveInv, StartWhisperFails
  PROVE  LiveInv'
<1>1. /\ StreamIsTrue(whisper, used) /\ EnginesAreTrue
      /\ CommandsFit /\ FinaliserIsKnown /\ KeptIsTrue
  BY DEF LiveInv, EnginesAreTrue
<1>2. /\ starting = 0 /\ stops = {} /\ active = 0 /\ used + 1 \in Jobs
      /\ used' = used + 1 /\ kind' = "whisper" /\ current' \in {current, 0}
      /\ UNCHANGED <<parakeet, active, starting, stops, task, artifacts>>
  BY DEF StartWhisperFails, StartAllowed, CanMakeId, Fresh
<1>3. used \in Nat /\ current \in Nat /\ used' \in Ids /\ used' > used /\ used' \in Nat
  BY <1>1, <1>2, Numbers
<1>4. StreamIsTrue(whisper', used') /\ (whisper'.proc # "none" => whisper' = whisper)
  <2>1. CASE whisper' = whisper BY <1>1, <1>3, <2>1, StreamLater
  <2>2. CASE \E text \in Resumable : whisper' = Prepared(text)
    <3>1. PICK text \in Resumable : whisper' = Prepared(text) BY <2>2
    <3>2. StreamIsTrue(whisper', used) /\ whisper'.proc = "none" BY <3>1, ResumableFacts
    <3> QED BY <1>3, <3>2, StreamLater
  <2> QED BY <2>1, <2>2 DEF StartWhisperFails, Prepared
<1>5. EnginesAreTrue' BY <1>1, <1>2 DEF EnginesAreTrue
<1>6. CommandsFit'
  <2>1. \A e \in Engines : e > used' => parakeet'[e].worker = "none"
    <3> SUFFICES ASSUME NEW e \in Engines, e > used' PROVE e > used
      BY <1>1, <1>2 DEF CommandsFit
    <3>1. e \in Nat BY <1>1, Numbers
    <3> QED BY <1>3, <3>1
  <2>2. current' \in Ids /\ current' <= used'
    <3>1. current \in Ids /\ current <= used /\ 0 \in Ids BY <1>1 DEF CommandsFit, Ids
    <3> QED BY <1>2, <1>3, <3>1
  <2>3. active' \in Ids /\ active' <= used' BY <1>1, <1>2, <1>3 DEF CommandsFit
  <2> QED BY <1>1, <1>2, <1>3, <2>1, <2>2, <2>3 DEF CommandsFit
<1>7. CaptureIsKnown'
  <2>1. whisper.proc # "alive" /\ \A e \in Engines : parakeet'[e].worker \notin Live
    BY <1>2, NobodyHears
  <2>2. whisper'.proc # "alive" BY <1>4, <2>1
  <2> QED BY <1>2, <2>1, <2>2 DEF CaptureIsKnown, NoStrayCapture, Live
<1>8. FinaliserIsKnown'
  <2>1. \A j \in Jobs : ~Open(j)' /\ task'[j].text = {} BY <1>2, Quiet DEF Open
  <2> QED BY <1>2, <2>1, NothingOpen
<1>9. KeptIsTrue'
  <2>1. Kept' = Kept BY <1>2 DEF Kept
  <2> QED BY <1>1, <1>3, <1>4, <2>1, KeptStays
<1> QED BY <1>4, <1>5, <1>6, <1>7, <1>8, <1>9 DEF LiveInv, EnginesAreTrue

LEMMA NewEngineFacts == EngineIsTrue(NewEngine) /\ NewEngine.worker = "none"
<1> DEFINE q == <<>>
<1>1. q \in Queues /\ Len(q) = 0 BY EmptyQueue
<1>2. 0 \in 0..MaxChunks /\ 0 \in 0..RestartAfter BY ParakeetAssumption
<1>3. NewEngine.queue = q BY DEF NewEngine
<1>4. NewEngine \in Worker
  <2> HIDE DEF q
  <2>1. NewEngine = [worker |-> "none", running |-> FALSE, paused |-> FALSE,
           shutdown |-> FALSE, owned |-> FALSE, error |-> "none",
           recorded |-> 0, wav |-> "none", queue |-> q, full |-> FALSE,
           fed |-> 0, silent |-> {}, degraded |-> FALSE, quiet |-> 0,
           current |-> {}, transcript |-> {}, stream |-> "closed"]
    BY DEF NewEngine, q
  <2> QED BY <1>1, <1>2, <2>1 DEF Worker, ParakeetErrors
<1>5. NewEngine.worker = "none" /\ NewEngine.error = "none" /\ NewEngine.recorded = 0
      /\ NewEngine.fed = 0
  BY DEF NewEngine
<1> HIDE DEF q
<1> QED BY <1>1, <1>3, <1>4, <1>5 DEF EngineIsTrue

\* The engine of a start: a worker that loads the model.
LEMMA SpawnedFacts ==
  ASSUME NEW seed \in {{}, {Seeded}}
  PROVE  LET v == SpawnWorker([NewEngine EXCEPT !.transcript = seed])
         IN  EngineIsTrue(v) /\ v.worker = "loading" /\ ~v.shutdown
<1> DEFINE n == NewEngine
           v == SpawnWorker([n EXCEPT !.transcript = seed])
<1>1. EngineIsTrue(n) /\ n.worker = "none" /\ ~n.shutdown BY NewEngineFacts DEF NewEngine
<1> HIDE DEF n
<1>2. n \in Worker /\ n.error = "none" /\ n.fed + Len(n.queue) <= n.recorded /\ n.recorded = 0
  BY <1>1 DEF EngineIsTrue
<1>3. seed \in SUBSET (Chunks \cup {Seeded}) OBVIOUS
<1>4. v = [n EXCEPT !.transcript = seed, !.worker = "loading"] BY <1>2 DEF SpawnWorker, Worker
<1> HIDE DEF v
<1>5. v \in Worker BY <1>2, <1>3, <1>4 DEF Worker
<1>6. /\ v.worker = "loading" /\ v.shutdown = n.shutdown /\ v.error = n.error
      /\ v.recorded = n.recorded /\ v.fed = n.fed /\ v.queue = n.queue
  BY <1>2, <1>4 DEF Worker
<1>7. EngineIsTrue(v) BY <1>2, <1>5, <1>6 DEF EngineIsTrue
<1> QED BY <1>1, <1>6, <1>7 DEF v, n

LEMMA StartParakeetKeeps ==
  ASSUME LiveInv, StartParakeet
  PROVE  LiveInv'
<1>1. /\ StreamIsTrue(whisper, used) /\ EnginesAreTrue
      /\ CommandsFit /\ FinaliserIsKnown /\ KeptIsTrue
  BY DEF LiveInv, EnginesAreTrue
<1> DEFINE job == used + 1
<1>2. /\ starting = 0 /\ stops = {} /\ active = 0 /\ job \in Jobs
      /\ used' = job /\ active' = job /\ starting' = job /\ kind' = "parakeet" /\ current' = job
      /\ UNCHANGED <<whisper, stops, task, artifacts>>
  BY DEF StartParakeet, StartAllowed, CanMakeId, Fresh
<1>3. PICK seed \in {{}, {Seeded}} :
        Become(job, SpawnWorker([NewEngine EXCEPT !.transcript = seed]))
  BY DEF StartParakeet, Fresh
<1>4. used \in Nat /\ job \in Ids /\ job > used /\ job \in Nat /\ job \in Engines /\ job # 0
  BY <1>1, <1>2, Numbers
<1> HIDE DEF job
<1> DEFINE v == SpawnWorker([NewEngine EXCEPT !.transcript = seed])
<1>5. EngineIsTrue(v) /\ v.worker = "loading" /\ ~v.shutdown BY SpawnedFacts
<1> HIDE DEF v
<1>6. EnginesAreTrue' /\ parakeet'[job] = v
      /\ \A e \in Engines : e # job => parakeet'[e] = parakeet[e]
  BY <1>1, <1>3, <1>4, <1>5, BecomeFacts DEF v
<1>7. StreamIsTrue(whisper', used') BY <1>1, <1>2, <1>4, StreamLater
<1>8. CommandsFit'
  <2>1. \A e \in Engines : e > used' => parakeet'[e].worker = "none"
    <3> SUFFICES ASSUME NEW e \in Engines, e > job PROVE parakeet'[e].worker = "none"
      BY <1>2
    <3>1. e \in Nat BY <1>1, Numbers
    <3>2. e > used /\ e # job BY <1>4, <3>1
    <3> QED BY <1>1, <1>6, <3>2 DEF CommandsFit
  <2>2. active' <= used' /\ current' <= used' BY <1>2, <1>4
  <2> QED BY <1>1, <1>2, <1>4, <2>1, <2>2 DEF CommandsFit
<1>9. CaptureIsKnown'
  <2>1. whisper.proc # "alive" /\ \A e \in Engines : parakeet[e].worker \notin Live
    BY <1>2, NobodyHears
  <2>2. \A e \in Engines : parakeet'[e].worker \in Live => e = job BY <1>6, <2>1
  <2> QED
    BY <1>2, <1>5, <1>6, <2>1, <2>2 DEF CaptureIsKnown, NoStrayCapture, Live, StartIsTrue
<1>10. FinaliserIsKnown'
  <2>1. \A j \in Jobs : ~Open(j)' /\ task'[j].text = {} BY <1>2, Quiet DEF Open
  <2> QED BY <1>2, <2>1, NothingOpen
<1>11. KeptIsTrue'
  <2>1. Kept' = Kept BY <1>2 DEF Kept
  <2> QED BY <1>1, <1>2, <1>4, <2>1, KeptStays
<1> QED BY <1>6, <1>7, <1>8, <1>9, <1>10, <1>11 DEF LiveInv, EnginesAreTrue

LEMMA StartParakeetFailsKeeps ==
  ASSUME LiveInv, StartParakeetFails
  PROVE  LiveInv'
<1>1. /\ StreamIsTrue(whisper, used) /\ EnginesAreTrue
      /\ CommandsFit /\ FinaliserIsKnown /\ KeptIsTrue
  BY DEF LiveInv, EnginesAreTrue
<1>2. /\ starting = 0 /\ stops = {} /\ active = 0 /\ used + 1 \in Jobs
      /\ used' = used + 1 /\ kind' = "parakeet" /\ current' \in {current, used + 1}
      /\ UNCHANGED <<whisper, parakeet, active, starting, stops, task, artifacts>>
  BY DEF StartParakeetFails, StartAllowed, CanMakeId, Fresh
<1>3. used \in Nat /\ current \in Nat /\ used' \in Ids /\ used' > used /\ used' \in Nat
  BY <1>1, <1>2, Numbers
<1>4. StreamIsTrue(whisper', used') BY <1>1, <1>2, <1>3, StreamLater
<1>5. EnginesAreTrue' BY <1>1, <1>2 DEF EnginesAreTrue
<1>6. CommandsFit'
  <2>1. \A e \in Engines : e > used' => parakeet'[e].worker = "none"
    <3> SUFFICES ASSUME NEW e \in Engines, e > used' PROVE e > used
      BY <1>1, <1>2 DEF CommandsFit
    <3>1. e \in Nat BY <1>1, Numbers
    <3> QED BY <1>3, <3>1
  <2>2. current' \in Ids /\ current' <= used'
    <3>1. current \in Ids /\ current <= used BY <1>1 DEF CommandsFit
    <3> QED BY <1>2, <1>3, <3>1
  <2>3. active' \in Ids /\ active' <= used' BY <1>1, <1>2, <1>3 DEF CommandsFit
  <2> QED BY <1>1, <1>2, <1>3, <2>1, <2>2, <2>3 DEF CommandsFit
<1>7. CaptureIsKnown'
  <2>1. whisper'.proc # "alive" /\ \A e \in Engines : parakeet'[e].worker \notin Live
    BY <1>2, NobodyHears
  <2> QED BY <1>2, <2>1 DEF CaptureIsKnown, NoStrayCapture, Live
<1>8. FinaliserIsKnown'
  <2>1. \A j \in Jobs : ~Open(j)' /\ task'[j].text = {} BY <1>2, Quiet DEF Open
  <2> QED BY <1>2, <2>1, NothingOpen
<1>9. KeptIsTrue'
  <2>1. Kept' = Kept BY <1>2 DEF Kept
  <2> QED BY <1>1, <1>2, <1>3, <2>1, KeptStays
<1> QED BY <1>4, <1>5, <1>6, <1>7, <1>8, <1>9 DEF LiveInv, EnginesAreTrue
-----------------------------------------------------------------------------
(* Steps of one engine under the commands. *)

LEMMA StreamStep ==
  ASSUME LiveInv, StreamIsTrue(whisper', used), UNCHANGED <<parakeet, commands>>,
         whisper'.session = whisper.session, whisper'.owned => whisper.owned,
         whisper'.proc # "none" => whisper.proc # "none",
         whisper'.proc = "alive" => whisper.proc = "alive"
  PROVE  LiveInv'
<1>1. EnginesAreTrue /\ CommandsFit /\ CaptureIsKnown /\ FinaliserIsKnown /\ KeptIsTrue
  BY DEF LiveInv, EnginesAreTrue
<1>2. /\ parakeet' = parakeet /\ active' = active /\ kind' = kind /\ current' = current
      /\ starting' = starting /\ stops' = stops /\ task' = task /\ artifacts' = artifacts
      /\ used' = used
  BY DEF commands
<1>3. EnginesAreTrue' BY <1>1, <1>2 DEF EnginesAreTrue
<1>4. CommandsFit' BY <1>1, <1>2 DEF CommandsFit
<1>5. CaptureIsKnown' BY <1>1, <1>2 DEF CaptureIsKnown, NoStrayCapture
<1>6. FinaliserIsKnown' BY <1>1, <1>2 DEF FinaliserIsKnown, Open
<1>7. KeptIsTrue'
  <2>1. Kept' = Kept BY <1>2 DEF Kept
  <2>2. used \in Nat BY <1>1, Numbers
  <2> QED BY <1>1, <1>2, <2>1, <2>2, KeptStays
<1>8. StreamIsTrue(whisper', used') BY <1>2
<1> QED BY <1>3, <1>4, <1>5, <1>6, <1>7, <1>8 DEF LiveInv, EnginesAreTrue

LEMMA EngineStep ==
  ASSUME LiveInv, NEW e \in Engines, NEW v, EngineIsTrue(v), Become(e, v),
         UNCHANGED <<whisper, commands>>,
         v.worker # "none" => parakeet[e].worker # "none",
         v.worker \in Live => parakeet[e].worker \in Live,
         starting = e /\ kind = "parakeet" => StartIsTrue(v)
  PROVE  LiveInv'
<1>1. /\ StreamIsTrue(whisper, used) /\ EnginesAreTrue
      /\ CommandsFit /\ CaptureIsKnown /\ FinaliserIsKnown /\ KeptIsTrue
  BY DEF LiveInv, EnginesAreTrue
<1>2. /\ whisper' = whisper /\ active' = active /\ kind' = kind /\ current' = current
      /\ starting' = starting /\ stops' = stops /\ task' = task /\ artifacts' = artifacts
      /\ used' = used
  BY DEF commands
<1>3. EnginesAreTrue' /\ parakeet'[e] = v
      /\ \A f \in Engines : f # e => parakeet'[f] = parakeet[f]
  BY <1>1, BecomeFacts
<1>4. CommandsFit'
  <2>1. \A f \in Engines : f > used => parakeet'[f].worker = "none"
    BY <1>1, <1>3 DEF CommandsFit
  <2> QED BY <1>1, <1>2, <2>1 DEF CommandsFit
<1>5. CaptureIsKnown'
  <2>1. \A f \in Engines : parakeet'[f].worker \in Live => parakeet[f].worker \in Live
    BY <1>3
  <2>2. NoStrayCapture' BY <1>1, <1>2, <2>1 DEF CaptureIsKnown, NoStrayCapture, Live
  <2>3. starting # 0 /\ kind = "parakeet" =>
          current = starting /\ StartIsTrue(parakeet'[starting])
    <3> SUFFICES ASSUME starting # 0, kind = "parakeet"
                 PROVE  current = starting /\ StartIsTrue(parakeet'[starting])
      OBVIOUS
    <3>1. starting \in Engines BY <1>1, Numbers DEF CommandsFit
    <3>2. CASE starting = e BY <1>1, <1>3, <3>2 DEF CaptureIsKnown
    <3>3. CASE starting # e BY <1>1, <1>3, <3>1, <3>3 DEF CaptureIsKnown
    <3> QED BY <3>2, <3>3
  <2> QED BY <1>1, <1>2, <2>2, <2>3 DEF CaptureIsKnown
<1>6. FinaliserIsKnown' BY <1>1, <1>2 DEF FinaliserIsKnown, Open
<1>7. KeptIsTrue'
  <2>1. Kept' = Kept BY <1>2 DEF Kept
  <2>2. used \in Nat BY <1>1, Numbers
  <2> QED BY <1>1, <1>2, <2>1, <2>2, KeptStays
<1>8. StreamIsTrue(whisper', used') BY <1>1, <1>2
<1> QED BY <1>3, <1>4, <1>5, <1>6, <1>7, <1>8 DEF LiveInv, EnginesAreTrue

LEMMA EnginesKeep ==
  ASSUME LiveInv, Engine
  PROVE  LiveInv'
<1>1. CommandsFit /\ EnginesAreTrue /\ StreamIsTrue(whisper, used) /\ CaptureIsKnown
  BY DEF LiveInv, EnginesAreTrue
<1>2. CASE WhisperNext /\ UNCHANGED <<parakeet, commands>>
  <2>1. used \in Nat BY <1>1, Numbers
  <2>2. StreamIsTrue(whisper', used) /\ StreamGoesOn(whisper', whisper)
    BY <1>1, <1>2, <2>1, ReaderKeeps
  <2> QED BY <1>2, <2>2, StreamStep DEF StreamGoesOn
<1>3. CASE ParakeetNext /\ UNCHANGED <<whisper, commands>>
  <2>1. PICK e \in Engines : EngineGoesOn(e) BY <1>1, <1>3, ThreadsKeep DEF EnginesAreTrue
  <2>2. PICK v : Become(e, v) /\ EngineIsTrue(v) /\ WorkerGoesOn(v, parakeet[e])
    BY <2>1 DEF EngineGoesOn
  <2>3. /\ v.worker # "none" => parakeet[e].worker # "none"
        /\ v.worker \in Live => parakeet[e].worker \in Live
    BY <2>2 DEF WorkerGoesOn, Live
  <2>4. starting = e /\ kind = "parakeet" => StartIsTrue(v)
    <3>1. e # 0 BY <1>1, Numbers
    <3> QED BY <1>1, <2>2, <3>1 DEF WorkerGoesOn, CaptureIsKnown, StartIsTrue
  <2> QED BY <1>3, <2>2, <2>3, <2>4, EngineStep
<1> QED BY <1>2, <1>3 DEF Engine

LEMMA PauseKeeps ==
  ASSUME LiveInv, NEW p \in BOOLEAN, SetPaused(p)
  PROVE  LiveInv'
<1>1. CommandsFit /\ EnginesAreTrue /\ StreamIsTrue(whisper, used) /\ CaptureIsKnown
  BY DEF LiveInv, EnginesAreTrue
<1>2. CASE whisper' = [whisper EXCEPT !.paused = p] /\ UNCHANGED <<parakeet, commands>>
  <2>1. whisper \in Stream /\ FailureIsNoted(whisper) BY <1>1 DEF StreamIsTrue
  <2>2. /\ whisper' \in Stream
        /\ whisper'.lines = whisper.lines /\ whisper'.preview = whisper.preview
        /\ whisper'.segments = whisper.segments /\ whisper'.session = whisper.session
        /\ whisper'.said = whisper.said /\ whisper'.reloaded = whisper.reloaded
        /\ whisper'.proc = whisper.proc /\ whisper'.owned = whisper.owned
        /\ whisper'.broken = whisper.broken /\ whisper'.error = whisper.error
    BY <1>2, <2>1 DEF Stream
  <2>3. FailureIsNoted(whisper') BY <2>1, <2>2 DEF FailureIsNoted
  <2>4. StreamIsTrue(whisper', used) BY <1>1, <2>2, <2>3, SameText
  <2> QED BY <1>2, <2>2, <2>4, StreamStep
<1>3. CASE /\ current # 0 /\ Become(current, [parakeet[current] EXCEPT !.paused = p])
           /\ UNCHANGED <<whisper, commands>>
  <2> DEFINE q == parakeet[current]
             v == [q EXCEPT !.paused = p]
  <2>1. current \in Engines BY <1>1, <1>3, Numbers DEF CommandsFit
  <2>2. EngineIsTrue(q) /\ q \in Worker BY <1>1, <2>1 DEF EnginesAreTrue, EngineIsTrue
  <2>3. /\ v \in Worker /\ v.worker = q.worker /\ v.error = q.error /\ v.fed = q.fed
        /\ v.queue = q.queue /\ v.recorded = q.recorded /\ v.shutdown = q.shutdown
        /\ v.degraded = q.degraded /\ v.full = q.full /\ v.silent = q.silent
        /\ v.transcript = q.transcript /\ v.current = q.current /\ v.running = q.running
    BY <2>2 DEF Worker
  <2>4. Become(current, v) BY <1>3
  <2> HIDE DEF v
  <2>5. EngineIsTrue(v) BY <2>2, <2>3 DEF EngineIsTrue
  <2>6. starting = current /\ kind = "parakeet" => StartIsTrue(v)
    BY <1>1, <1>3, <2>3 DEF CaptureIsKnown, StartIsTrue
  <2> QED BY <1>3, <2>1, <2>3, <2>4, <2>5, <2>6, EngineStep
<1> QED BY <1>2, <1>3 DEF SetPaused

LEMMA LoadKeeps ==
  ASSUME LiveInv, LoadSession
  PROVE  LiveInv'
<1>1. CommandsFit /\ KeptIsTrue /\ StreamIsTrue(whisper, used) BY DEF LiveInv
<1>2. UNCHANGED <<parakeet, commands>> BY DEF LoadSession, commands
<1>3. PICK a \in artifacts :
        whisper' = [SeedBuffer(whisper, a.lines) EXCEPT !.reloaded = TRUE]
  BY DEF LoadSession
<1>4. a \in Kept BY DEF Kept
<1>5. TextIsTrue(a) /\ TextIsOld(a) /\ a.lines \in Seq(Words) /\ used \in Nat
  BY <1>1, <1>4, KeptIsText, Numbers DEF KeptIsTrue
<1> DEFINE text == a.lines
<1>6. /\ text \in Seq(Words)
      /\ \A i, k \in 1..Len(text) : text[i] = text[k] => i = k
      /\ \A i \in 1..Len(text) : text[i][1] <= used
      /\ whisper.proc # "none" => \A i \in 1..Len(text) : text[i][1] # whisper.session
  BY <1>5 DEF TextIsTrue, TextIsOld
<1>7. whisper' = [SeedBuffer(whisper, text) EXCEPT !.reloaded = TRUE] BY <1>3
<1> HIDE DEF text
<1>8. /\ StreamIsTrue(whisper', used)
      /\ whisper'.session = whisper.session /\ whisper'.proc = whisper.proc
      /\ whisper'.owned = whisper.owned
  BY <1>1, <1>5, <1>6, <1>7, SeedFacts
<1> QED BY <1>2, <1>8, StreamStep
-----------------------------------------------------------------------------
(* A start proceeds, under the guard. *)

LEMMA StartingFacts ==
  ASSUME LiveInv, starting # 0
  PROVE  /\ active = starting /\ stops = {} /\ starting \in Engines
         /\ kind = "parakeet" => /\ current = starting /\ StartIsTrue(parakeet[starting])
                                 /\ whisper.proc # "alive"
         /\ kind = "whisper" => \A e \in Engines : parakeet[e].worker \notin Live
         /\ \A j \in Jobs : ~Open(j) /\ task[j].text = {}
<1>1. CommandsFit /\ CaptureIsKnown BY DEF LiveInv
<1>2. active = starting /\ stops = {} BY <1>1 DEF CaptureIsKnown
<1>3. starting \in Engines BY <1>1, Numbers DEF CommandsFit
<1>4. kind = "parakeet" => /\ current = starting /\ StartIsTrue(parakeet[starting])
                           /\ whisper.proc # "alive"
  BY <1>1 DEF CaptureIsKnown, NoStrayCapture
<1>5. kind = "whisper" => \A e \in Engines : parakeet[e].worker \notin Live
  BY <1>1 DEF CaptureIsKnown, NoStrayCapture, Live
<1> QED BY <1>2, <1>3, <1>4, <1>5, Quiet

\* The end of a start lets go of the guard; with no session active any more
\* nobody captures.
LEMMA StartEnds ==
  ASSUME LiveInv, starting # 0, starting' = 0, active' \in {active, 0},
         UNCHANGED <<kind, current, stops, task, artifacts, used>>,
         StreamIsTrue(whisper', used), EnginesAreTrue',
         whisper'.session = whisper.session,
         whisper'.proc # "none" => whisper.proc # "none",
         whisper'.proc = "alive" => whisper.proc = "alive" /\ active' = active,
         \A e \in Engines : /\ parakeet[e].worker = "none" => parakeet'[e].worker = "none"
                            /\ parakeet'[e].worker \in Live =>
                                 parakeet[e].worker \in Live /\ active' = active
  PROVE  LiveInv'
<1>1. CommandsFit /\ CaptureIsKnown /\ KeptIsTrue BY DEF LiveInv
<1>2. stops = {} /\ \A j \in Jobs : ~Open(j) /\ task[j].text = {} BY StartingFacts
<1>3. used \in Nat BY <1>1, Numbers
<1>4. CommandsFit'
  <2>1. 0 \in Ids /\ 0 <= used BY <1>3 DEF Ids
  <2>2. active' \in Ids /\ active' <= used BY <1>1, <2>1 DEF CommandsFit
  <2>3. \A e \in Engines : e > used => parakeet'[e].worker = "none" BY <1>1 DEF CommandsFit
  <2> QED BY <1>1, <2>1, <2>2, <2>3 DEF CommandsFit
<1>5. CaptureIsKnown' BY <1>1, <1>2 DEF CaptureIsKnown, NoStrayCapture, Live
<1>6. FinaliserIsKnown'
  <2>1. \A j \in Jobs : ~Open(j)' /\ task'[j].text = {} BY <1>2 DEF Open
  <2> QED BY <1>2, <2>1, NothingOpen
<1>7. KeptIsTrue'
  <2>1. Kept' = Kept BY DEF Kept
  <2> QED BY <1>1, <1>3, <2>1, KeptStays
<1> QED BY <1>4, <1>5, <1>6, <1>7 DEF LiveInv, EnginesAreTrue

LEMMA ParakeetStartsKeeps ==
  ASSUME LiveInv, ParakeetStarts
  PROVE  LiveInv'
<1> DEFINE p == parakeet[starting]
           v == Started(p)
<1>1. /\ starting # 0 /\ kind = "parakeet" /\ p.worker = "loading" /\ ~p.shutdown
      /\ Become(starting, v) /\ UNCHANGED <<whisper, commands>>
  BY DEF ParakeetStarts, StartLoads
<1>2. starting \in Engines BY <1>1, StartingFacts
<1>3. p \in Worker /\ p.error = "none" /\ p.fed + Len(p.queue) <= p.recorded /\ p.recorded = 0
  BY <1>1, <1>2 DEF LiveInv, EngineIsTrue
<1>4. v = [p EXCEPT !.worker = "capturing", !.running = TRUE, !.paused = FALSE, !.owned = TRUE,
                    !.transcript = {}, !.wav = "open", !.stream = "open"]
  BY DEF Started
<1> HIDE DEF v
<1>5. v \in Worker
  <2>1. {} \in SUBSET (Chunks \cup {Seeded}) OBVIOUS
  <2>2. p \in Worker BY <1>3
  <2> QED BY <1>4, <2>1, <2>2 DEF Worker
<1>6. /\ v.worker = "capturing" /\ v.running /\ v.shutdown = p.shutdown /\ v.error = p.error
      /\ v.fed = p.fed /\ v.queue = p.queue /\ v.recorded = p.recorded
  BY <1>3, <1>4 DEF Worker
<1>7. EngineIsTrue(v) BY <1>3, <1>5, <1>6 DEF EngineIsTrue
<1>8. p.worker \in Live BY <1>1 DEF Live
<1>9. p.worker # "none" BY <1>1
<1>10. StartIsTrue(v) BY <1>1, <1>6 DEF StartIsTrue
<1> QED BY <1>1, <1>2, <1>6, <1>7, <1>8, <1>9, <1>10, EngineStep

LEMMA ParakeetStartTimesOutKeeps ==
  ASSUME LiveInv, ParakeetStartTimesOut
  PROVE  LiveInv'
<1> DEFINE p == parakeet[starting]
           v == [p EXCEPT !.shutdown = TRUE]
<1>1. /\ starting # 0 /\ kind = "parakeet" /\ p.worker = "loading"
      /\ Become(starting, v) /\ UNCHANGED <<whisper, commands>>
  BY DEF ParakeetStartTimesOut, StartLoads
<1>2. starting \in Engines BY <1>1, StartingFacts
<1>3. p \in Worker /\ p.error = "none" /\ p.fed + Len(p.queue) <= p.recorded /\ p.recorded = 0
  BY <1>1, <1>2 DEF LiveInv, EngineIsTrue
<1>4. /\ v \in Worker /\ v.worker = "loading" /\ v.error = p.error
      /\ v.fed = p.fed /\ v.queue = p.queue /\ v.recorded = p.recorded
  BY <1>1, <1>3 DEF Worker
<1> HIDE DEF v
<1>5. EngineIsTrue(v) BY <1>3, <1>4 DEF EngineIsTrue
<1>6. StartIsTrue(v) BY <1>3, <1>4 DEF StartIsTrue
<1>7. p.worker \in Live /\ p.worker # "none" BY <1>1 DEF Live
<1> QED BY <1>1, <1>2, <1>5, <1>6, <1>7, EngineStep

\* The worker of a start that has timed out ends, with nothing recorded.
LEMMA LoadReturnsKeeps ==
  ASSUME LiveInv, LoadReturns
  PROVE  LiveInv'
<1> DEFINE p == parakeet[starting]
           v == [p EXCEPT !.worker = "ended"]
<1>1. /\ starting # 0 /\ kind = "parakeet" /\ p.worker = "loading" /\ p.shutdown
      /\ Become(starting, v) /\ UNCHANGED <<whisper, commands>>
  BY DEF LoadReturns, LoadHangs, StartLoads
<1>2. starting \in Engines BY <1>1, StartingFacts
<1>3. p \in Worker /\ p.error = "none" /\ p.fed + Len(p.queue) <= p.recorded /\ p.recorded = 0
  BY <1>1, <1>2 DEF LiveInv, EngineIsTrue
<1>4. /\ v \in Worker /\ v.worker = "ended" /\ v.error = p.error
      /\ v.fed = p.fed /\ v.queue = p.queue /\ v.recorded = p.recorded
  BY <1>3 DEF Worker
<1> HIDE DEF v
<1>5. EngineIsTrue(v) BY <1>3, <1>4 DEF EngineIsTrue
<1>6. StartIsTrue(v) BY <1>3, <1>4 DEF StartIsTrue
<1>7. v.worker \notin Live /\ p.worker # "none" BY <1>1, <1>4 DEF Live
<1> QED BY <1>1, <1>2, <1>5, <1>6, <1>7, EngineStep

\* The start of the Parakeet engine is given up: its worker is gone.
LEMMA WorkerGivenUp ==
  ASSUME LiveInv, starting # 0, kind = "parakeet", NEW v, EngineIsTrue(v),
         v.worker = "none", Become(starting, v), starting' = 0, active' = 0,
         UNCHANGED <<whisper, kind, current, stops, task, artifacts, used>>
  PROVE  LiveInv'
<1>1. starting \in Engines /\ current = starting /\ whisper.proc # "alive"
  BY StartingFacts
<1>2. EnginesAreTrue /\ CaptureIsKnown /\ StreamIsTrue(whisper, used)
  BY DEF LiveInv, EnginesAreTrue
<1>3. EnginesAreTrue' /\ parakeet'[starting] = v
      /\ \A e \in Engines : e # starting => parakeet'[e] = parakeet[e]
  BY <1>1, <1>2, BecomeFacts
<1>4. \A e \in Engines : /\ parakeet[e].worker = "none" => parakeet'[e].worker = "none"
                         /\ parakeet'[e].worker \notin Live
  <2> TAKE e \in Engines
  <2>1. CASE e = starting BY <1>3, <2>1 DEF Live
  <2>2. CASE e # starting
    BY <1>1, <1>2, <1>3, <2>2 DEF CaptureIsKnown, NoStrayCapture, Live
  <2> QED BY <2>1, <2>2
<1> QED BY <1>1, <1>2, <1>3, <1>4, StartEnds

LEMMA ParakeetStartFailsKeeps ==
  ASSUME LiveInv, ParakeetStartFails
  PROVE  LiveInv'
<1> DEFINE p == parakeet[starting]
           v == [p EXCEPT !.worker = "none"]
<1>1. /\ starting # 0 /\ kind = "parakeet" /\ p.worker = "loading"
      /\ Become(starting, v) /\ starting' = 0 /\ active' = 0
      /\ UNCHANGED <<whisper, kind, current, stops, task, artifacts, used>>
  BY DEF ParakeetStartFails, StartLoads
<1>2. starting \in Engines BY <1>1, StartingFacts
<1>3. p \in Worker /\ p.error = "none" /\ p.fed + Len(p.queue) <= p.recorded /\ p.recorded = 0
  BY <1>1, <1>2 DEF LiveInv, EngineIsTrue
<1>4. /\ v \in Worker /\ v.worker = "none" /\ v.error = p.error
      /\ v.fed = p.fed /\ v.queue = p.queue /\ v.recorded = p.recorded
  BY <1>3 DEF Worker
<1> HIDE DEF v
<1>5. EngineIsTrue(v) BY <1>3, <1>4 DEF EngineIsTrue
<1> QED BY <1>1, <1>4, <1>5, WorkerGivenUp

LEMMA ParakeetJoinedKeeps ==
  ASSUME LiveInv, ParakeetJoined
  PROVE  LiveInv'
<1> DEFINE p == parakeet[starting]
           v == [p EXCEPT !.worker = "none", !.shutdown = FALSE]
<1>1. /\ starting # 0 /\ kind = "parakeet" /\ p.shutdown
      /\ Become(starting, v) /\ starting' = 0 /\ active' = 0
      /\ UNCHANGED <<whisper, kind, current, stops, task, artifacts, used>>
  BY DEF ParakeetJoined
<1>2. starting \in Engines /\ StartIsTrue(p) BY <1>1, StartingFacts
<1>3. p \in Worker BY <1>2 DEF LiveInv, EngineIsTrue
<1>4. /\ v \in Worker /\ v.worker = "none" /\ v.error = p.error
      /\ v.fed = p.fed /\ v.queue = p.queue /\ v.recorded = p.recorded
  BY <1>3 DEF Worker
<1> HIDE DEF v
<1>5. EngineIsTrue(v) BY <1>1, <1>2, <1>4 DEF EngineIsTrue, StartIsTrue
<1> QED BY <1>1, <1>4, <1>5, WorkerGivenUp

\* The start of the Whisper engine is given up: its child is taken and killed.
LEMMA GivenUp ==
  ASSUME NEW u \in Nat, NEW w, StreamIsTrue(w, u)
  PROVE  LET v == CollectStream(TakeChild(w))
         IN  StreamIsTrue(v, u) /\ v.session = w.session /\ v.proc = "none"
<1> DEFINE t == TakeChild(w)
<1>1. StreamIsTrue(t, u) /\ ~t.owned /\ t.session = w.session BY TakeFacts
<1> HIDE DEF t
<1>2. LET v == CollectStream(t)
      IN  StreamIsTrue(v, u) /\ v.session = t.session /\ v.proc = "none"
  BY <1>1, CollectFacts
<1> QED BY <1>1, <1>2 DEF t

LEMMA StartReturnsKeeps ==
  ASSUME LiveInv, StartReturns
  PROVE  LiveInv'
<1>1. CommandsFit /\ EnginesAreTrue /\ StreamIsTrue(whisper, used) /\ CaptureIsKnown
  BY DEF LiveInv, EnginesAreTrue
<1>2. /\ starting # 0 /\ starting' = 0
      /\ UNCHANGED <<kind, current, stops, task, artifacts, used>>
  BY DEF StartReturns
<1>3. used \in Nat BY <1>1, Numbers
<1>4. CASE kind = "whisper"
  <2> DEFINE w == ObserveExit(whisper)
  <2>1. /\ UNCHANGED parakeet
        /\ \/ whisper' = w /\ active' = active
           \/ whisper' = CollectStream(TakeChild(w)) /\ active' = 0
    BY <1>4 DEF StartReturns
  <2>2. whisper \in Stream /\ FailureIsNoted(whisper) BY <1>1 DEF StreamIsTrue
  <2>3. /\ w \in Stream
        /\ w.lines = whisper.lines /\ w.preview = whisper.preview
        /\ w.segments = whisper.segments /\ w.session = whisper.session
        /\ w.said = whisper.said /\ w.reloaded = whisper.reloaded
        /\ w.proc = whisper.proc /\ w.owned = whisper.owned /\ w.broken = whisper.broken
        /\ whisper.error # "none" => w.error # "none"
    BY <2>2, ObserveFacts
  <2> HIDE DEF w
  <2>4. FailureIsNoted(w) BY <2>2, <2>3 DEF FailureIsNoted
  <2>5. StreamIsTrue(w, used) BY <1>1, <2>3, <2>4, SameText
  <2>6. \A e \in Engines : parakeet[e].worker \notin Live BY <1>2, <1>4, StartingFacts
  <2>7. EnginesAreTrue' BY <1>1, <2>1 DEF EnginesAreTrue
  <2>8. CASE whisper' = w /\ active' = active
    BY <1>2, <2>1, <2>3, <2>5, <2>6, <2>7, <2>8, StartEnds
  <2>9. CASE whisper' = CollectStream(TakeChild(w)) /\ active' = 0
    <3>1. StreamIsTrue(whisper', used) /\ whisper'.session = whisper.session
          /\ whisper'.proc = "none"
      BY <1>3, <2>3, <2>5, <2>9, GivenUp
    <3> QED BY <1>2, <2>1, <2>6, <2>7, <2>9, <3>1, StartEnds
  <2> QED BY <2>1, <2>8, <2>9
<1>5. CASE kind = "parakeet"
  <2>1. /\ parakeet[current].worker # "loading" /\ ~parakeet[current].shutdown
        /\ active' = IF parakeet[current].running /\ parakeet[current].error = "none"
                     THEN active ELSE 0
        /\ UNCHANGED <<whisper, parakeet>>
    BY <1>5 DEF StartReturns
  <2>2. /\ starting \in Engines /\ current = starting /\ whisper.proc # "alive"
        /\ parakeet[starting].worker = "capturing" => parakeet[starting].running
    BY <1>2, <1>5, StartingFacts DEF StartIsTrue
  <2>3. EngineIsTrue(parakeet[starting]) BY <1>1, <2>2 DEF EnginesAreTrue
  <2>4. \A e \in Engines : parakeet[e].worker \in Live => active' = active
    <3> SUFFICES ASSUME NEW e \in Engines, parakeet[e].worker \in Live
                 PROVE  active' = active
      OBVIOUS
    <3>1. e = starting BY <1>1, <2>2 DEF CaptureIsKnown, NoStrayCapture, Live
    <3>2. parakeet[starting].worker \in {"capturing", "finishing"}
      BY <2>1, <2>2, <3>1 DEF Live
    <3>3. parakeet[starting].running /\ parakeet[starting].error = "none"
      BY <2>1, <2>2, <2>3, <3>2 DEF EngineIsTrue
    <3> QED BY <2>1, <2>2, <3>3
  <2>5. EnginesAreTrue' BY <1>1, <2>1 DEF EnginesAreTrue
  <2>6. active' \in {active, 0} BY <2>1
  <2> QED BY <1>1, <1>2, <2>1, <2>2, <2>4, <2>5, <2>6, StartEnds
<1> QED BY <1>1, <1>4, <1>5 DEF CommandsFit

LEMMA WhisperStartFailsKeeps ==
  ASSUME LiveInv, WhisperStartFails
  PROVE  LiveInv'
<1>1. CommandsFit /\ EnginesAreTrue /\ StreamIsTrue(whisper, used)
  BY DEF LiveInv, EnginesAreTrue
<1> DEFINE w == IF whisper.startup = "waiting"
                THEN [whisper EXCEPT !.error = "startup"] ELSE whisper
<1>2. /\ starting # 0 /\ kind = "whisper" /\ starting' = 0 /\ active' = 0
      /\ whisper' = CollectStream(TakeChild(w))
      /\ UNCHANGED <<parakeet, kind, current, stops, task, artifacts, used>>
  BY DEF WhisperStartFails
<1>3. used \in Nat BY <1>1, Numbers
<1>4. StreamIsTrue(w, used) /\ w.session = whisper.session
  <2>1. CASE whisper.startup = "waiting"
    <3>1. whisper \in Stream BY <1>1 DEF StreamIsTrue
    <3>2. w = [whisper EXCEPT !.error = "startup"] BY <2>1
    <3> HIDE DEF w
    <3>3. /\ w \in Stream
          /\ w.lines = whisper.lines /\ w.preview = whisper.preview
          /\ w.segments = whisper.segments /\ w.session = whisper.session
          /\ w.said = whisper.said /\ w.reloaded = whisper.reloaded
          /\ w.proc = whisper.proc /\ w.error = "startup"
      BY <3>1, <3>2 DEF Stream, WhisperErrors
    <3>4. FailureIsNoted(w) BY <3>3 DEF FailureIsNoted
    <3> QED BY <1>1, <3>3, <3>4, SameText
  <2>2. CASE whisper.startup # "waiting" BY <1>1, <2>2
  <2> QED BY <2>1, <2>2
<1> HIDE DEF w
<1>5. StreamIsTrue(whisper', used) /\ whisper'.session = whisper.session
      /\ whisper'.proc = "none"
  BY <1>2, <1>3, <1>4, GivenUp
<1>6. \A e \in Engines : parakeet[e].worker \notin Live BY <1>2, StartingFacts
<1>7. EnginesAreTrue' BY <1>1, <1>2 DEF EnginesAreTrue
<1> QED BY <1>2, <1>5, <1>6, <1>7, StartEnds
-----------------------------------------------------------------------------
(* Stopping a session. *)

LEMMA StopKeeps ==
  ASSUME LiveInv, NEW save \in BOOLEAN, Stop(save)
  PROVE  LiveInv'
<1>1. /\ StreamIsTrue(whisper, used) /\ EnginesAreTrue
      /\ CommandsFit /\ CaptureIsKnown /\ FinaliserIsKnown /\ KeptIsTrue
  BY DEF LiveInv, EnginesAreTrue
<1> DEFINE job == IF active # 0 THEN active ELSE used + 1
           t == [pc |-> "stopping", save |-> save, kind |-> kind,
                 engine |-> IF kind = "parakeet" THEN current ELSE 0, text |-> {}]
<1>2. /\ starting = 0 /\ stops = {} /\ (active # 0 \/ used + 1 \in Jobs)
      /\ (kind = "parakeet" => current # 0)
      /\ used' = (IF active # 0 THEN used ELSE used + 1)
      /\ stops' = stops \cup {job} /\ task' = [task EXCEPT ![job] = t]
      /\ UNCHANGED <<whisper, parakeet, active, kind, current, starting, artifacts>>
  BY DEF Stop, CanMakeId, Fresh
<1>3. job \in Jobs /\ active \in {0, job} BY <1>1, <1>2 DEF CommandsFit, Ids
<1>4. used \in Nat /\ used' \in Nat /\ used' \in Ids /\ used <= used'
  BY <1>1, <1>2, Numbers DEF CommandsFit
<1>5. /\ t \in Tasks /\ t.pc = "stopping" /\ t.kind = kind /\ t.text = {}
      /\ kind = "parakeet" => t.engine = current
  <2>1. current \in Ids /\ 0 \in Ids /\ kind \in {"whisper", "parakeet"}
    BY <1>1 DEF CommandsFit, Ids
  <2> QED BY <2>1 DEF Tasks
<1> HIDE DEF job, t
<1>6. /\ task' \in [Jobs -> Tasks] /\ task'[job] = t
      /\ \A k \in Jobs : k # job => task'[k] = task[k]
  <2>1. task \in [Jobs -> Tasks] BY <1>1 DEF CommandsFit
  <2> QED BY <1>2, <1>3, <1>5, <2>1
<1>7. \A k \in Jobs : ~Open(k) /\ task[k].text = {} BY <1>2, Quiet
<1>8. stops' = {job} BY <1>2
<1>9. StreamIsTrue(whisper', used') BY <1>1, <1>2, <1>4, StreamLater
<1>10. EnginesAreTrue' BY <1>1, <1>2 DEF EnginesAreTrue
<1>11. CommandsFit'
  <2>1. \A e \in Engines : e > used' => parakeet'[e].worker = "none"
    <3> SUFFICES ASSUME NEW e \in Engines, e > used' PROVE e > used
      BY <1>1, <1>2 DEF CommandsFit
    <3>1. e \in Nat BY <1>1, Numbers
    <3> QED BY <1>4, <3>1
  <2>2. active <= used' /\ current <= used'
    <3>1. active \in Nat /\ current \in Nat /\ active <= used /\ current <= used
      BY <1>1, Numbers DEF CommandsFit
    <3> QED BY <1>4, <3>1
  <2>3. stops' \in SUBSET Jobs BY <1>3, <1>8
  <2> QED BY <1>1, <1>2, <1>4, <1>6, <2>1, <2>2, <2>3 DEF CommandsFit
<1>12. CaptureIsKnown' BY <1>1, <1>2 DEF CaptureIsKnown, NoStrayCapture
<1>13. FinaliserIsKnown'
  <2>1. ASSUME NEW k \in Jobs
        PROVE  /\ k \in stops' <=> Open(k)'
               /\ task'[k].text # {} => task'[k].pc = "saving"
               /\ Open(k)' => active' \in {0, k} /\ task'[k].kind = kind'
               /\ task'[k].pc \in {"stopping", "waiting"} /\ task'[k].kind = "parakeet" =>
                    task'[k].engine = current' /\ current' # 0
               /\ task'[k].pc = "waiting" /\ task'[k].kind = "whisper" => ~whisper'.owned
    <3>1. CASE k = job BY <1>2, <1>3, <1>5, <1>6, <1>8, <3>1 DEF Open
    <3>2. CASE k # job BY <1>6, <1>7, <1>8, <3>2 DEF Open
    <3> QED BY <3>1, <3>2
  <2>2. \A j, k \in stops' : j = k BY <1>8
  <2> QED BY <2>1, <2>2 DEF FinaliserIsKnown
<1>14. KeptIsTrue'
  <2>1. \A k \in Jobs : task'[k].text = {}
    <3> TAKE k \in Jobs
    <3>1. CASE k = job BY <1>5, <1>6, <3>1
    <3>2. CASE k # job BY <1>6, <1>7, <3>2
    <3> QED BY <3>1, <3>2
  <2>2. Kept' \subseteq Kept BY <1>2, <2>1 DEF Kept
  <2> QED BY <1>1, <1>2, <1>4, <2>2, KeptStays
<1> QED BY <1>9, <1>10, <1>11, <1>12, <1>13, <1>14 DEF LiveInv, EnginesAreTrue

\* The one open task goes on to t.
LEMMA TaskGoesOn ==
  ASSUME LiveInv, NEW j \in Jobs, Open(j), NEW t \in Tasks,
         task' = [task EXCEPT ![j] = t], stops' = stops, active' \in {active, 0},
         kind' = kind, t.kind = kind, t.pc \in {"stopping", "waiting", "saving"},
         t.text # {} => t.pc = "saving",
         t.pc \in {"stopping", "waiting"} /\ kind = "parakeet" =>
           t.engine = current' /\ current' # 0,
         t.pc = "waiting" /\ kind = "whisper" => ~whisper'.owned
  PROVE  /\ task' \in [Jobs -> Tasks] /\ FinaliserIsKnown'
         /\ \A k \in Jobs : task'[k].text = IF k = j THEN t.text ELSE {}
<1>1. /\ stops = {j} /\ active \in {0, j}
      /\ \A k \in Jobs : k # j => ~Open(k) /\ task[k].text = {}
  BY OpenFacts
<1>2. task \in [Jobs -> Tasks] BY DEF LiveInv, CommandsFit
<1>3. task' \in [Jobs -> Tasks] /\ task'[j] = t /\ \A k \in Jobs : k # j => task'[k] = task[k]
  BY <1>2
<1>4. ASSUME NEW k \in Jobs
      PROVE  /\ k \in stops' <=> Open(k)'
             /\ task'[k].text # {} => task'[k].pc = "saving"
             /\ Open(k)' => active' \in {0, k} /\ task'[k].kind = kind'
             /\ task'[k].pc \in {"stopping", "waiting"} /\ task'[k].kind = "parakeet" =>
                  task'[k].engine = current' /\ current' # 0
             /\ task'[k].pc = "waiting" /\ task'[k].kind = "whisper" => ~whisper'.owned
             /\ task'[k].text = IF k = j THEN t.text ELSE {}
  <2>1. CASE k = j BY <1>1, <1>3, <2>1 DEF Open
  <2>2. CASE k # j BY <1>1, <1>3, <2>2 DEF Open
  <2> QED BY <2>1, <2>2
<1>5. \A i, k \in stops' : i = k BY <1>1
<1>6. FinaliserIsKnown' BY <1>4, <1>5 DEF FinaliserIsKnown
<1> QED BY <1>3, <1>4, <1>6

LEMMA StopBeginsKeeps ==
  ASSUME LiveInv, NEW j \in Jobs, StopBegins(j)
  PROVE  LiveInv'
<1>1. /\ StreamIsTrue(whisper, used) /\ EnginesAreTrue
      /\ CommandsFit /\ CaptureIsKnown /\ FinaliserIsKnown /\ KeptIsTrue
  BY DEF LiveInv, EnginesAreTrue
<1> DEFINE t == [task[j] EXCEPT !.pc = "waiting"]
           e == task[j].engine
           p == parakeet[e]
           v == [p EXCEPT !.shutdown = TRUE, !.owned = FALSE]
<1>2. task \in [Jobs -> Tasks] BY <1>1 DEF CommandsFit
<1>3. /\ task[j].pc = "stopping" /\ task' = [task EXCEPT ![j] = t]
      /\ UNCHANGED <<active, kind, current, starting, stops, artifacts, used>>
  BY <1>2 DEF StopBegins
<1>4. \/ task[j].kind = "whisper" /\ whisper' = TakeChild(whisper) /\ parakeet' = parakeet
      \/ task[j].kind # "whisper" /\ Become(e, v) /\ whisper' = whisper
  BY DEF StopBegins
<1>5. Open(j) BY <1>3 DEF Open
<1>6. starting = 0 /\ task[j].kind = kind /\ task[j] \in Tasks BY <1>5, OpenFacts
<1>7. /\ t \in Tasks /\ t.pc = "waiting" /\ t.kind = kind /\ t.engine = e
      /\ t.text = task[j].text
  BY <1>6 DEF Tasks
<1>8. t.text = {} BY <1>1, <1>3, <1>7 DEF FinaliserIsKnown
<1>9. kind = "parakeet" => e = current /\ current # 0
  BY <1>1, <1>3, <1>6 DEF FinaliserIsKnown
<1>10. used \in Nat BY <1>1, Numbers
<1> HIDE DEF t
<1>11. /\ StreamIsTrue(whisper', used') /\ EnginesAreTrue'
       /\ whisper'.session = whisper.session /\ whisper'.proc = whisper.proc
       /\ kind = "whisper" => ~whisper'.owned
       /\ \A f \in Engines : parakeet'[f].worker = parakeet[f].worker
  <2>1. CASE kind = "whisper"
    <3>1. whisper' = TakeChild(whisper) /\ parakeet' = parakeet BY <1>4, <1>6, <2>1
    <3>2. StreamIsTrue(whisper', used) /\ ~whisper'.owned
          /\ whisper'.session = whisper.session /\ whisper'.proc = whisper.proc
      BY <1>1, <1>10, <3>1, TakeFacts
    <3> QED BY <1>1, <1>3, <3>1, <3>2 DEF EnginesAreTrue
  <2>2. CASE kind = "parakeet"
    <3>1. Become(e, v) /\ whisper' = whisper BY <1>4, <1>6, <2>2
    <3>2. e \in Engines BY <1>1, <1>9, <2>2, Numbers DEF CommandsFit
    <3>3. EngineIsTrue(p) /\ p \in Worker BY <1>1, <3>2 DEF EnginesAreTrue, EngineIsTrue
    <3>4. /\ v \in Worker /\ v.worker = p.worker /\ v.error = p.error /\ v.fed = p.fed
          /\ v.queue = p.queue /\ v.recorded = p.recorded /\ v.shutdown
          /\ v.degraded = p.degraded /\ v.full = p.full /\ v.silent = p.silent
          /\ v.transcript = p.transcript /\ v.current = p.current
      BY <3>3 DEF Worker
    <3> HIDE DEF v, e
    <3>5. EngineIsTrue(v) BY <3>3, <3>4 DEF EngineIsTrue
    <3>6. EnginesAreTrue' /\ parakeet'[e] = v
          /\ \A f \in Engines : f # e => parakeet'[f] = parakeet[f]
      BY <1>1, <3>1, <3>2, <3>5, BecomeFacts
    <3>7. \A f \in Engines : parakeet'[f].worker = parakeet[f].worker
      <4> TAKE f \in Engines
      <4>1. CASE f = e BY <3>4, <3>6, <4>1
      <4>2. CASE f # e BY <3>6, <4>2
      <4> QED BY <4>1, <4>2
    <3> QED BY <1>1, <1>3, <2>2, <3>1, <3>6, <3>7
  <2> QED BY <1>1, <2>1, <2>2 DEF CommandsFit
<1>12. /\ task' \in [Jobs -> Tasks] /\ FinaliserIsKnown'
       /\ \A k \in Jobs : task'[k].text = IF k = j THEN t.text ELSE {}
  <2>1. /\ stops' = stops /\ active' \in {active, 0} /\ kind' = kind
        /\ t.pc \in {"stopping", "waiting", "saving"} /\ (t.text # {} => t.pc = "saving")
        /\ t.pc \in {"stopping", "waiting"} /\ kind = "parakeet" =>
             t.engine = current' /\ current' # 0
        /\ t.pc = "waiting" /\ kind = "whisper" => ~whisper'.owned
    BY <1>3, <1>7, <1>8, <1>9, <1>11
  <2> HIDE DEF LiveInv, e
  <2> QED BY <1>3, <1>5, <1>7, <2>1, TaskGoesOn
<1>13. CommandsFit' BY <1>1, <1>3, <1>11, <1>12 DEF CommandsFit
<1>14. CaptureIsKnown'
  BY <1>1, <1>3, <1>6, <1>11 DEF CaptureIsKnown, NoStrayCapture
<1>15. KeptIsTrue'
  <2>1. \A k \in Jobs : task'[k].text = {} BY <1>8, <1>12
  <2>2. Kept' \subseteq Kept BY <1>3, <2>1 DEF Kept
  <2> QED BY <1>1, <1>3, <1>10, <1>11, <2>2, KeptStays
<1> QED BY <1>11, <1>12, <1>13, <1>14, <1>15 DEF LiveInv, EnginesAreTrue

LEMMA SaveKeeps ==
  ASSUME LiveInv, NEW j \in Jobs, Save(j)
  PROVE  LiveInv'
<1>1. /\ StreamIsTrue(whisper, used) /\ EnginesAreTrue
      /\ CommandsFit /\ CaptureIsKnown /\ FinaliserIsKnown /\ KeptIsTrue
  BY DEF LiveInv, EnginesAreTrue
<1>2. /\ task[j].pc = "saving"
      /\ UNCHANGED <<whisper, parakeet, active, kind, current, starting, used>>
      /\ \/ EndTask(j, "saved") /\ artifacts' = artifacts \cup task[j].text
         \/ EndTask(j, "failed") /\ UNCHANGED artifacts
  BY DEF Save
<1>3. Open(j) BY <1>2 DEF Open
<1>4. starting = 0 /\ task[j] \in Tasks BY <1>3, OpenFacts
<1>5. /\ task' \in [Jobs -> Tasks] /\ stops' = {} /\ FinaliserIsKnown'
      /\ \A k \in Jobs : task'[k].text = {}
  <2>1. PICK how \in {"saved", "failed"} : EndTask(j, how) BY <1>2
  <2>2. how \in TaskEnds BY DEF TaskEnds
  <2> QED BY <1>3, <2>1, <2>2, EndTaskFacts
<1>6. used \in Nat BY <1>1, Numbers
<1>7. task[j].text \in SUBSET Text BY <1>4 DEF Tasks
<1>8. artifacts' \in SUBSET Text BY <1>1, <1>2, <1>7 DEF CommandsFit
<1>9. CommandsFit' BY <1>1, <1>2, <1>5, <1>8 DEF CommandsFit
<1>10. CaptureIsKnown' BY <1>1, <1>2, <1>4 DEF CaptureIsKnown, NoStrayCapture
<1>11. KeptIsTrue'
  <2>1. Kept' \subseteq Kept BY <1>2, <1>5 DEF Kept
  <2> QED BY <1>1, <1>2, <1>6, <2>1, KeptStays
<1>12. StreamIsTrue(whisper', used') /\ EnginesAreTrue' BY <1>1, <1>2 DEF EnginesAreTrue
<1> QED BY <1>5, <1>9, <1>10, <1>11, <1>12 DEF LiveInv, EnginesAreTrue

LEMMA TimesOutKeeps ==
  ASSUME LiveInv, NEW j \in Jobs, ParakeetTimesOut(j)
  PROVE  LiveInv'
<1>1. /\ StreamIsTrue(whisper, used) /\ EnginesAreTrue
      /\ CommandsFit /\ CaptureIsKnown /\ FinaliserIsKnown /\ KeptIsTrue
  BY DEF LiveInv, EnginesAreTrue
<1> DEFINE e == task[j].engine
           p == parakeet[e]
           v == [p EXCEPT !.owned = TRUE, !.running = FALSE]
<1>2. /\ task[j].pc = "waiting" /\ task[j].kind = "parakeet"
      /\ Become(e, v) /\ EndTask(j, "failed") /\ current' \in {e, current} /\ active' = active
      /\ UNCHANGED <<whisper, kind, starting, artifacts, used>>
  BY DEF ParakeetTimesOut, RetainFailed
<1>3. Open(j) BY <1>2 DEF Open
<1>4. starting = 0 BY <1>3, OpenFacts
<1>5. e = current /\ current # 0 BY <1>1, <1>2 DEF FinaliserIsKnown
<1>6. e \in Engines /\ used \in Nat BY <1>1, <1>5, Numbers DEF CommandsFit
<1>7. /\ task' \in [Jobs -> Tasks] /\ stops' = {} /\ FinaliserIsKnown'
      /\ \A k \in Jobs : task'[k].text = {}
  BY <1>2, <1>3, EndTaskFacts DEF TaskEnds
<1>8. EngineIsTrue(p) /\ p \in Worker BY <1>1, <1>6 DEF EnginesAreTrue, EngineIsTrue
<1>9. /\ v \in Worker /\ v.worker = p.worker /\ v.error = p.error /\ v.fed = p.fed
      /\ v.queue = p.queue /\ v.recorded = p.recorded /\ v.shutdown = p.shutdown
      /\ v.degraded = p.degraded /\ v.full = p.full /\ v.silent = p.silent
      /\ v.transcript = p.transcript /\ v.current = p.current
  BY <1>8 DEF Worker
<1> HIDE DEF v, e
<1>10. EngineIsTrue(v) BY <1>8, <1>9 DEF EngineIsTrue
<1>11. EnginesAreTrue' /\ parakeet'[e] = v
       /\ \A f \in Engines : f # e => parakeet'[f] = parakeet[f]
  BY <1>1, <1>2, <1>6, <1>10, BecomeFacts
<1>12. \A f \in Engines : parakeet'[f].worker = parakeet[f].worker
  <2> TAKE f \in Engines
  <2>1. CASE f = e BY <1>9, <1>11, <2>1
  <2>2. CASE f # e BY <1>11, <2>2
  <2> QED BY <2>1, <2>2
<1>13. current' = current BY <1>2, <1>5
<1>14. CommandsFit' BY <1>1, <1>2, <1>7, <1>12, <1>13 DEF CommandsFit
<1>15. CaptureIsKnown'
  BY <1>1, <1>2, <1>4, <1>12, <1>13 DEF CaptureIsKnown, NoStrayCapture
<1>16. KeptIsTrue'
  <2>1. Kept' \subseteq Kept BY <1>2, <1>7 DEF Kept
  <2> QED BY <1>1, <1>2, <1>6, <2>1, KeptStays
<1>17. StreamIsTrue(whisper', used') BY <1>1, <1>2
<1> QED BY <1>7, <1>11, <1>14, <1>15, <1>16, <1>17 DEF LiveInv, EnginesAreTrue
\* What a stop keeps is the text of its task, until it is saved.
LEMMA KeepFacts ==
  ASSUME LiveInv, NEW j \in Jobs, task[j].pc = "waiting", NEW text \in Text, Keep(j, text),
         active' \in {active, 0}, kind' = kind
  PROVE  /\ task' \in [Jobs -> Tasks] /\ stops' \in SUBSET Jobs /\ FinaliserIsKnown'
         /\ \A k \in Jobs : task'[k].text \subseteq {text}
<1>1. Open(j) BY DEF Open
<1>2. task[j].kind = kind /\ task[j] \in Tasks /\ stops = {j} BY <1>1, OpenFacts
<1>3. CASE EndTask(j, "discarded")
  <2>1. /\ task' \in [Jobs -> Tasks] /\ stops' = {} /\ FinaliserIsKnown'
        /\ \A k \in Jobs : task'[k].text = {}
    BY <1>1, <1>3, EndTaskFacts DEF TaskEnds
  <2> QED BY <2>1
<1>4. CASE /\ task' = [task EXCEPT ![j].pc = "saving", ![j].text = {text}]
           /\ UNCHANGED stops
  <2> DEFINE t == [task[j] EXCEPT !.pc = "saving", !.text = {text}]
  <2>1. task \in [Jobs -> Tasks] BY DEF LiveInv, CommandsFit
  <2>2. task' = [task EXCEPT ![j] = t] BY <1>4, <2>1
  <2>3. t \in Tasks /\ t.pc = "saving" /\ t.kind = kind /\ t.text = {text}
    BY <1>2 DEF Tasks
  <2> HIDE DEF t, LiveInv
  <2>4. /\ task' \in [Jobs -> Tasks] /\ FinaliserIsKnown'
        /\ \A k \in Jobs : task'[k].text = IF k = j THEN t.text ELSE {}
    BY <1>1, <1>4, <2>2, <2>3, TaskGoesOn
  <2>5. \A k \in Jobs : task'[k].text \subseteq {text} BY <2>3, <2>4
  <2> QED BY <1>2, <1>4, <2>4, <2>5
<1> QED BY <1>3, <1>4 DEF Keep

\* The engine of the open task is quiet, and its text, if it is kept, is true.
LEMMA CollectedKeeps ==
  ASSUME LiveInv, NEW j \in Jobs, task[j].pc = "waiting",
         StreamIsTrue(whisper', used), EnginesAreTrue',
         UNCHANGED <<kind, starting, artifacts, used>>,
         active' \in {active, 0}, current' \in {current, 0},
         whisper'.session = whisper.session,
         whisper'.proc # "none" => whisper.proc # "none",
         whisper'.proc # "alive",
         \A e \in Engines : /\ parakeet[e].worker = "none" => parakeet'[e].worker = "none"
                            /\ parakeet'[e].worker \notin Live,
         EndTask(j, "failed")
         \/ \E text \in Text : Keep(j, text) /\ TextIsTrue(text) /\ TextIsOld(text)'
  PROVE  LiveInv'
<1>1. CommandsFit /\ CaptureIsKnown /\ FinaliserIsKnown /\ KeptIsTrue BY DEF LiveInv
<1>2. Open(j) BY DEF Open
<1>3. starting = 0 BY <1>2, OpenFacts
<1>4. used \in Nat BY <1>1, Numbers
<1>5. /\ task' \in [Jobs -> Tasks] /\ stops' \in SUBSET Jobs /\ FinaliserIsKnown'
      /\ \A k \in Jobs : \A a \in task'[k].text : TextIsTrue(a) /\ TextIsOld(a)'
  <2>1. CASE EndTask(j, "failed")
    <3>1. /\ task' \in [Jobs -> Tasks] /\ stops' = {} /\ FinaliserIsKnown'
          /\ \A k \in Jobs : task'[k].text = {}
      BY <1>2, <2>1, EndTaskFacts DEF TaskEnds
    <3> QED BY <3>1
  <2>2. CASE \E text \in Text : Keep(j, text) /\ TextIsTrue(text) /\ TextIsOld(text)'
    <3>1. PICK text \in Text : Keep(j, text) /\ TextIsTrue(text) /\ TextIsOld(text)' BY <2>2
    <3>2. /\ task' \in [Jobs -> Tasks] /\ stops' \in SUBSET Jobs /\ FinaliserIsKnown'
          /\ \A k \in Jobs : task'[k].text \subseteq {text}
      BY <3>1, KeepFacts
    <3> QED BY <3>1, <3>2
  <2> QED BY <2>1, <2>2
<1>6. CommandsFit'
  <2>1. 0 \in Ids /\ 0 <= used BY <1>4 DEF Ids
  <2>2. active' \in Ids /\ active' <= used /\ current' \in Ids /\ current' <= used
    BY <1>1, <2>1 DEF CommandsFit
  <2>3. \A e \in Engines : e > used => parakeet'[e].worker = "none" BY <1>1 DEF CommandsFit
  <2> QED BY <1>1, <1>5, <2>2, <2>3 DEF CommandsFit
<1>7. CaptureIsKnown' BY <1>3 DEF CaptureIsKnown, NoStrayCapture, Live
<1>8. KeptIsTrue'
  <2> SUFFICES ASSUME NEW a \in Kept' PROVE TextIsTrue(a) /\ TextIsOld(a)'
    BY DEF KeptIsTrue
  <2>1. CASE a \in artifacts
    <3>1. a \in Kept BY <2>1 DEF Kept
    <3> QED BY <1>1, <1>4, <3>1, TextStays
  <2>2. CASE \E k \in Jobs : a \in task'[k].text BY <1>5, <2>2
  <2> QED BY <2>1, <2>2 DEF Kept
<1> QED BY <1>5, <1>6, <1>7, <1>8 DEF LiveInv, EnginesAreTrue

LEMMA WhisperCollectedKeeps ==
  ASSUME LiveInv, NEW j \in Jobs, WhisperCollected(j)
  PROVE  LiveInv'
<1>1. /\ StreamIsTrue(whisper, used) /\ EnginesAreTrue
      /\ CommandsFit /\ CaptureIsKnown /\ FinaliserIsKnown
  BY DEF LiveInv, EnginesAreTrue
<1> DEFINE w == CollectStream(whisper)
           text == [job |-> j, session |-> w.session, lines |-> w.lines,
                    segments |-> w.segments, chunks |-> {}, heard |-> {},
                    broken |-> w.broken, reloaded |-> w.reloaded]
<1>2. /\ task[j].pc = "waiting" /\ task[j].kind = "whisper" /\ whisper' = w
      /\ ClearCompleted(j)
      /\ IF w.error # "none" THEN EndTask(j, "failed") ELSE Keep(j, text)
      /\ UNCHANGED <<parakeet, kind, starting, artifacts, used>>
  BY DEF WhisperCollected
<1>3. active' \in {active, 0} /\ current' \in {current, 0} BY <1>2 DEF ClearCompleted
<1>4. kind = "whisper" /\ ~whisper.owned
  <2>1. Open(j) BY <1>2 DEF Open
  <2>2. task[j].kind = kind BY <2>1, OpenFacts
  <2> QED BY <1>1, <1>2, <2>2 DEF FinaliserIsKnown
<1>5. used \in Nat BY <1>1, Numbers
<1>6. /\ StreamIsTrue(w, used) /\ w.session = whisper.session /\ w.proc = "none"
      /\ w.broken /\ ~w.reloaded => w.error # "none"
  BY <1>1, <1>4, <1>5, CollectFacts
<1> HIDE DEF w
<1>7. \A e \in Engines : /\ parakeet[e].worker = "none" => parakeet'[e].worker = "none"
                         /\ parakeet'[e].worker \notin Live
  BY <1>1, <1>2, <1>4 DEF CaptureIsKnown, NoStrayCapture, Live
<1>8. EnginesAreTrue' BY <1>1, <1>2 DEF EnginesAreTrue
<1>9. EndTask(j, "failed")
      \/ \E a \in Text : Keep(j, a) /\ TextIsTrue(a) /\ TextIsOld(a)'
  <2>1. CASE w.error # "none" BY <1>2, <2>1
  <2>2. CASE w.error = "none"
    <3>1. w \in Stream /\ LinesAreTrue(w) /\ WordsUpTo(w, used) BY <1>6 DEF StreamIsTrue
    <3>2. text \in Text BY <3>1 DEF Text, Stream
    <3>3. TextIsTrue(text) BY <1>6, <2>2, <3>1 DEF TextIsTrue, LinesAreTrue
    <3>4. PICK a \in Text : a = text BY <3>2
    <3>5. a.lines = w.lines BY <3>4
    <3>6. TextIsOld(a)' BY <1>2, <1>6, <3>1, <3>5 DEF TextIsOld, WordsUpTo
    <3> HIDE DEF text
    <3> QED BY <1>2, <2>2, <3>3, <3>4, <3>6
  <2> QED BY <2>1, <2>2
<1> HIDE DEF LiveInv
<1> QED BY <1>2, <1>3, <1>6, <1>7, <1>8, <1>9, CollectedKeeps

LEMMA ParakeetCollectedKeeps ==
  ASSUME LiveInv, NEW j \in Jobs, ParakeetCollected(j)
  PROVE  LiveInv'
<1>1. /\ StreamIsTrue(whisper, used) /\ EnginesAreTrue
      /\ CommandsFit /\ CaptureIsKnown /\ FinaliserIsKnown
  BY DEF LiveInv, EnginesAreTrue
<1> DEFINE e == task[j].engine
           p == parakeet[e]
           v == Collected(p)
           heard == (1..p.recorded) \ p.silent
           none == <<>>
           text == [job |-> j, session |-> e, lines |-> none,
                    segments |-> {}, chunks |-> p.transcript, heard |-> heard,
                    broken |-> FALSE, reloaded |-> FALSE]
<1>2. /\ task[j].pc = "waiting" /\ task[j].kind = "parakeet" /\ p.worker \in {"none", "ended"}
      /\ \/ p.error # "none" /\ Become(e, v) /\ RetainFailed(j) /\ EndTask(j, "failed")
         \/ p.error = "none" /\ Become(e, NewEngine) /\ ClearCompleted(j) /\ Keep(j, text)
      /\ UNCHANGED <<whisper, kind, starting, artifacts, used>>
  BY DEF ParakeetCollected
<1>3. e = current /\ current # 0 BY <1>1, <1>2 DEF FinaliserIsKnown
<1>4. active' \in {active, 0} /\ current' \in {current, 0}
  BY <1>2, <1>3 DEF ClearCompleted, RetainFailed
<1>5. kind = "parakeet"
  <2>1. Open(j) BY <1>2 DEF Open
  <2> QED BY <1>2, <2>1, OpenFacts
<1>6. e \in Engines /\ e \in Ids /\ used \in Nat BY <1>1, <1>3, Numbers DEF CommandsFit
<1>7. EngineIsTrue(p) /\ p \in Worker BY <1>1, <1>6 DEF EnginesAreTrue, EngineIsTrue
<1>8. /\ v \in Worker /\ v.worker = p.worker /\ v.error = p.error /\ v.fed = p.fed
      /\ v.queue = p.queue /\ v.recorded = p.recorded /\ v.shutdown = p.shutdown
      /\ v.degraded = p.degraded /\ v.full = p.full /\ v.silent = p.silent
      /\ v.transcript = p.transcript /\ v.current = p.current
  BY <1>7 DEF Collected, Worker
<1> HIDE DEF v, e
<1>9. EngineIsTrue(v) BY <1>7, <1>8 DEF EngineIsTrue
<1>10. /\ EnginesAreTrue' /\ \A f \in Engines : f # e => parakeet'[f] = parakeet[f]
       /\ parakeet'[e].worker \in {"none", "ended"}
       /\ p.worker = "none" => parakeet'[e].worker = "none"
  <2>1. CASE Become(e, v)
    <3>1. EnginesAreTrue' /\ parakeet'[e] = v
          /\ \A f \in Engines : f # e => parakeet'[f] = parakeet[f]
      BY <1>1, <1>6, <1>9, <2>1, BecomeFacts
    <3> QED BY <1>2, <1>8, <3>1
  <2>2. CASE Become(e, NewEngine)
    <3>1. EnginesAreTrue' /\ parakeet'[e] = NewEngine
          /\ \A f \in Engines : f # e => parakeet'[f] = parakeet[f]
      BY <1>1, <1>6, <2>2, NewEngineFacts, BecomeFacts
    <3> QED BY <3>1, NewEngineFacts
  <2> QED BY <1>2, <2>1, <2>2
<1>11. \A f \in Engines : /\ parakeet[f].worker = "none" => parakeet'[f].worker = "none"
                          /\ parakeet'[f].worker \notin Live
  <2> TAKE f \in Engines
  <2>1. CASE f = e BY <1>10, <2>1 DEF Live
  <2>2. CASE f # e
    BY <1>1, <1>3, <1>10, <2>2 DEF CaptureIsKnown, NoStrayCapture, Live
  <2> QED BY <2>1, <2>2
<1>12. whisper.proc # "alive" BY <1>1, <1>5 DEF CaptureIsKnown, NoStrayCapture
<1>13. EndTask(j, "failed")
       \/ \E a \in Text : Keep(j, a) /\ TextIsTrue(a) /\ TextIsOld(a)'
  <2>1. CASE p.error # "none" BY <1>2, <2>1
  <2>2. CASE p.error = "none"
    <3>1. none \in Seq(Words) /\ Len(none) = 0 BY EmptySeq
    <3>2. \A i \in 1..Len(none) : FALSE BY <3>1
    <3>3. heard \subseteq p.transcript /\ heard \subseteq Chunks
      <4>1. p.recorded \in 0..MaxChunks /\ MaxChunks \in Nat
        BY <1>7, ParakeetAssumption DEF Worker
      <4>2. 1..p.recorded \subseteq Chunks BY <4>1 DEF Chunks
      <4>3. CASE p.worker = "ended" BY <1>7, <2>2, <4>2, <4>3 DEF EngineIsTrue
      <4>4. CASE p.worker = "none"
        <5>1. p.recorded = 0 BY <1>7, <4>4 DEF EngineIsTrue
        <5>2. 1..p.recorded = {} BY <5>1
        <5> QED BY <5>2
      <4> QED BY <1>2, <4>3, <4>4
    <3>4. p.transcript \in SUBSET (Chunks \cup {Seeded}) BY <1>7 DEF Worker
    <3> HIDE DEF none, heard
    <3>5. text \in Text BY <1>6, <3>1, <3>3, <3>4 DEF Text
    <3>6. text.lines = none /\ text.heard = heard /\ text.chunks = p.transcript
          /\ ~text.broken
      OBVIOUS
    <3>7. Keep(j, text) BY <1>2, <2>2
    <3> HIDE DEF text
    <3>8. PICK a \in Text : a = text BY <3>5
    <3>9. a.lines = none BY <3>6, <3>8
    <3>10. TextIsTrue(a) BY <3>2, <3>3, <3>6, <3>8 DEF TextIsTrue
    <3>11. TextIsOld(a)'
      <4>1. \A i \in 1..Len(a.lines) : FALSE BY <3>2, <3>9
      <4> QED BY <4>1 DEF TextIsOld
    <3> QED BY <3>7, <3>8, <3>10, <3>11
  <2> QED BY <2>1, <2>2
<1> HIDE DEF LiveInv
<1> QED BY <1>1, <1>2, <1>4, <1>10, <1>11, <1>12, <1>13, CollectedKeeps

-----------------------------------------------------------------------------
(* The theorems. *)

LEMMA StartsTrue ==
  ASSUME Init
  PROVE  LiveInv
<1>1. 0 \in Ids /\ 0 \in Nat BY DEF Ids
<1> DEFINE text == <<>>
<1>2. text \in Seq(Words) /\ \A i \in 1..Len(text) : FALSE BY EmptySeq
<1>3. StreamIsTrue(whisper, used)
  <2>1. Prepared(text) = IdleStream BY DEF Prepared, ResetBuffer, IdleStream
  <2>2. whisper = Prepared(text) /\ used = 0 BY <2>1 DEF Init
  <2> HIDE DEF text
  <2>3. StreamIsTrue(Prepared(text), 0) BY <1>1, <1>2, PreparedFacts
  <2> QED BY <2>2, <2>3
<1>4. EnginesAreTrue
  <2>1. NewEngine \in Worker BY NewEngineFacts DEF EngineIsTrue
  <2> QED BY <2>1, NewEngineFacts DEF Init, EnginesAreTrue
<1>5. NoTask \in Tasks /\ NoTask.pc = "none" /\ NoTask.text = {}
  BY <1>1 DEF NoTask, Tasks
<1>6. task \in [Jobs -> Tasks] /\ \A j \in Jobs : task[j] = NoTask BY <1>5 DEF Init
<1>7. CommandsFit
  <2>1. \A e \in Engines : parakeet[e].worker = "none" BY NewEngineFacts DEF Init
  <2> QED BY <1>1, <1>6, <2>1 DEF Init, CommandsFit
<1>8. CaptureIsKnown
  <2>1. \A e \in Engines : parakeet[e].worker = "none" BY NewEngineFacts DEF Init
  <2>2. whisper.proc = "none" BY DEF Init, IdleStream
  <2> QED BY <2>1, <2>2 DEF Init, CaptureIsKnown, NoStrayCapture
<1>9. FinaliserIsKnown BY <1>5, <1>6 DEF Init, FinaliserIsKnown, Open
<1>10. KeptIsTrue
  <2>1. Kept = {} BY <1>5, <1>6 DEF Init, Kept
  <2> QED BY <2>1 DEF KeptIsTrue
<1> QED BY <1>3, <1>4, <1>7, <1>8, <1>9, <1>10 DEF LiveInv, EnginesAreTrue

LEMMA LiveStep ==
  ASSUME LiveInv, [Next]_vars
  PROVE  LiveInv'
<1>1. CASE UNCHANGED vars
  <2>1. /\ whisper' = whisper /\ parakeet' = parakeet /\ active' = active /\ kind' = kind
        /\ current' = current /\ starting' = starting /\ stops' = stops /\ task' = task
        /\ artifacts' = artifacts /\ used' = used
    BY <1>1 DEF vars, commands
  <2>2. CommandsFit' BY <2>1 DEF LiveInv, CommandsFit
  <2>3. CaptureIsKnown' BY <2>1 DEF LiveInv, CaptureIsKnown, NoStrayCapture
  <2>4. FinaliserIsKnown' BY <2>1 DEF LiveInv, FinaliserIsKnown, Open
  <2>5. KeptIsTrue' BY <2>1 DEF LiveInv, KeptIsTrue, Kept, TextIsOld
  <2> QED BY <2>1, <2>2, <2>3, <2>4, <2>5 DEF LiveInv
<1>2. CASE StartWhisper BY <1>2, StartWhisperKeeps
<1>3. CASE StartWhisperFails BY <1>3, StartWhisperFailsKeeps
<1>4. CASE StartParakeet BY <1>4, StartParakeetKeeps
<1>5. CASE StartParakeetFails BY <1>5, StartParakeetFailsKeeps
<1>6. CASE StartProceeds
  BY <1>6, ParakeetStartsKeeps, ParakeetStartFailsKeeps, ParakeetStartTimesOutKeeps,
     ParakeetJoinedKeeps, StartReturnsKeeps, WhisperStartFailsKeeps
     DEF StartProceeds
<1>7. CASE Pause \/ Resume BY <1>7, PauseKeeps DEF Pause, Resume
<1>8. CASE LoadSession BY <1>8, LoadKeeps
<1>9. CASE \E save \in BOOLEAN : Stop(save) BY <1>9, StopKeeps
<1>10. CASE \E j \in Jobs : Task(j)
  BY <1>10, StopBeginsKeeps, WhisperCollectedKeeps, ParakeetCollectedKeeps, TimesOutKeeps,
     SaveKeeps
     DEF Task
<1>11. CASE Engine BY <1>11, EnginesKeep
<1>12. CASE LoadReturns BY <1>12, LoadReturnsKeeps
<1> QED
  BY <1>1, <1>2, <1>3, <1>4, <1>5, <1>6, <1>7, <1>8, <1>9, <1>10, <1>11, <1>12 DEF Next

\* What one session has heard is true of its engine, and what the commands
\* know of the sessions is true, after every step.
THEOREM LiveInvariant == Spec => []LiveInv
<1>1. Init => LiveInv BY StartsTrue
<1>2. LiveInv /\ [Next]_vars => LiveInv' BY LiveStep
<1> QED BY <1>1, <1>2, PTL DEF Spec

LEMMA TypesFollow ==
  ASSUME LiveInv
  PROVE  TypeOK
<1>1. WhisperTypeOK
  <2>1. whisper \in Stream BY DEF LiveInv, StreamIsTrue
  <2>2. whisper.lines \in Seq(Words) BY <2>1 DEF Stream
  <2>3. \A i \in DOMAIN whisper.lines : whisper.lines[i] \in Words
    BY <2>2, LenProperties, ElementOfSeq
  <2> QED BY <2>1, <2>3 DEF WhisperTypeOK, Stream, Ids
<1>2. ParakeetTypeOK BY DEF LiveInv, ParakeetTypeOK, Worker, Queues
<1>3. CommandsFit /\ FinaliserIsKnown BY DEF LiveInv
<1>4. Engines = Jobs BY EnginesAreJobs
<1>5. [j \in Jobs |-> [task[j] EXCEPT !.text = 0]] \in
        [Jobs -> [pc : {"none", "stopping", "waiting", "saving"} \cup TaskEnds,
                  save : BOOLEAN, kind : {"whisper", "parakeet"},
                  engine : Engines \cup {0}, text : {0}]]
  <2> SUFFICES ASSUME NEW j \in Jobs
               PROVE  [task[j] EXCEPT !.text = 0] \in
                        [pc : {"none", "stopping", "waiting", "saving"} \cup TaskEnds,
                         save : BOOLEAN, kind : {"whisper", "parakeet"},
                         engine : Engines \cup {0}, text : {0}]
    OBVIOUS
  <2>1. task[j] \in Tasks BY <1>3 DEF CommandsFit
  <2> QED BY <1>4, <2>1 DEF Tasks, Ids
<1>6. \A a \in artifacts : a.job \in Jobs BY <1>3 DEF CommandsFit, Text
<1> QED BY <1>1, <1>2, <1>3, <1>4, <1>5, <1>6 DEF TypeOK, CommandsFit, FinaliserIsKnown, Ids

\* One session at a time has the microphone and one stop finalises, whatever
\* starts, stops and failures come.
THEOREM OneSession == Spec => []OneSessionAtATime
<1>1. ASSUME LiveInv PROVE OneSessionAtATime
  <2>1. TypeOK BY <1>1, TypesFollow
  <2>2. NoStrayCapture BY <1>1 DEF LiveInv, CaptureIsKnown
  <2>3. OneFinaliser
    <3> DEFINE open == {j \in Jobs : task[j].pc \notin {"none"} \cup TaskEnds}
    <3>1. stops = open
      <4>1. \A j \in Jobs : Open(j) <=> j \in open
        <5> TAKE j \in Jobs
        <5>1. task[j].pc \in {"none", "stopping", "waiting", "saving"} \cup TaskEnds
          BY <1>1 DEF LiveInv, CommandsFit, Tasks
        <5> QED BY <5>1 DEF Open, TaskEnds
      <4>2. stops \in SUBSET Jobs BY <1>1 DEF LiveInv, CommandsFit
      <4> QED BY <1>1, <4>1, <4>2 DEF LiveInv, FinaliserIsKnown
    <3>2. Cardinality(stops) <= 1
      <4>1. CASE stops = {} BY <4>1, FS_EmptySet
      <4>2. CASE stops # {}
        <5>1. PICK j \in stops : TRUE BY <4>2
        <5>2. stops = {j} BY <1>1, <5>1 DEF LiveInv, FinaliserIsKnown
        <5> QED BY <5>2, FS_Singleton
      <4> QED BY <4>1, <4>2
    <3>3. starting # 0 => stops = {} BY <1>1 DEF LiveInv, CaptureIsKnown
    <3> QED BY <3>1, <3>2, <3>3 DEF OneFinaliser
  <2> QED BY <2>1, <2>2, <2>3 DEF OneSessionAtATime
<1> QED BY <1>1, LiveInvariant, PTL

\* What a session saves is what was heard: all of it when the engine was well,
\* nothing of a broken engine, and lines and segments that agree.
THEOREM SavedIsHeard == Spec => []SavedSpeechIsTrue
<1>1. ASSUME LiveInv PROVE SavedSpeechIsTrue
  <2>1. ASSUME NEW a \in artifacts
        PROVE  /\ TextIsTrue(a) /\ DOMAIN a.lines = 1..Len(a.lines)
    <3>1. a \in Kept BY DEF Kept
    <3>2. a.lines \in Seq(Words) BY <1>1, <3>1, KeptIsText DEF LiveInv
    <3> QED BY <1>1, <3>1, <3>2, LenProperties DEF LiveInv, KeptIsTrue
  <2>2. SavedTextIsWhole BY <2>1 DEF SavedTextIsWhole, TextIsTrue
  <2>3. BrokenIsNotSaved BY <2>1 DEF BrokenIsNotSaved, TextIsTrue
  <2>4. LinesMatchSegments BY <2>1 DEF LinesMatchSegments, TextIsTrue
  <2> QED BY <2>2, <2>3, <2>4 DEF SavedSpeechIsTrue
<1> QED BY <1>1, LiveInvariant, PTL
==============================================================================
