CONSTANTS
    Jobs = {1, 2}
    Engines = {1, 2}
    MaxWords = 1
    MaxChunks = 2
    QueueSize = 1
    MaxBacklog = 1
    RestartAfter = 2
SPECIFICATION Spec
INVARIANTS
  OneSessionAtATime
  SavedSpeechIsTrue
PROPERTIES
  LiveCommandsAreAnswered
CHECK_DEADLOCK FALSE
