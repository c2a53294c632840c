CONSTANTS
  j1 = j1
  r1 = r1
  r2 = r2
  Jobs = {j1}
  Requests <- EveryRequest
  Total = 4
  Enhancers = 2
  ChunkCount = 5
  PerProcess = 3
  AudioEnd = 4
  WindowSizes <- Sizes
  Summaries = {r1, r2}
  Texts = {1, 2}
  Modes = {1, 2}
  ChunkLimit = 3
  InFlight = 1
  CacheMax = 2
  NotePrompts = 2
  SynthesisPrompts = 2
  SilenceSplit = 2
  MinUtterance = 2
  AggregateTarget = 6
  MaxUtterance = 8
  Margin = 1
  ChunkOverlap = 1
  Second = 1
  MinCommit = 2
  HardMaxDecode = 9
  Context = 1
  TailPad = 1
  SnapRadius = 4
  MinDuplicateWords = 2
  DuplicateGap = 1
  GapBreak = 1
  SegmentWords = 3
  SegmentTime = 4
  WordTolerance = 1
  CommitTolerance = 0
  SplitChars = 4
  SplitWords = 3
  FewWords = 2
  SentenceWords = 2
  TailWords = 2
SPECIFICATION Spec
INVARIANTS
  ArchiveIsToldTruly
  WhisperHearsSpeechOnce
  ParakeetHearsSpeechOnce
  SummaryIsOfItsText
  PlansCoverSpeech
  WordsAreKeptOnce
PROPERTIES
  PercentNeverFalls
  TranscriptSurvives
  CancelEndsRun
CHECK_DEADLOCK FALSE
