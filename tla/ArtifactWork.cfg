\* One artifact, saved or migrated from an old database, with the groups of
\* commands of MCArtifactWork working on it at the same time.
CONSTANTS
    Artifacts = {"a"}
    Legacy = {"a"}
    Editors = {"e1", "e2"}
    Runs = {"r1", "r2"}
    Cancels = {"c1"}
    Turns = {"t1", "t2", "t3"}
    Writers = {"e1", "e2", "r1", "r2", "c1"}
    Values = {"first", "e1", "e2", "r1", "r2", "running", "completed", "failed", "cancelled"}
    None = None
    Scenes <- Groups
SPECIFICATION Spec
INVARIANTS
  StoreLosesNothing
  LateWorkIsAccountedFor
  AnswerFollowsQuestion
PROPERTIES
  RunsEnd
CHECK_DEADLOCK FALSE
