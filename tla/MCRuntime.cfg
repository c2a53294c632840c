SPECIFICATION Spec
CONSTANTS
    None = None
    Absent = Absent
    MaxInstalls = 2
    Originals <- MCOriginals
    Trees <- MCTrees
    MaxBackups = 2
    Models = {"base", "live"}
    Encoders = {"enc"}
    Pinned = {"live"}
    MaxAttempts = 2
    Callers = {"transcription", "automation", "ai", "provider", "prompts", "whole", "snapshot", "factory"}
    Services = {"svc", "extra"}
    Google = {"svc"}
    Stored <- MCStored
    Texts = {"default", "old", "older", "outdated", "new", "whole", "fixed", "v2", "v3", "none", "apple", "gemini", "builtin", "custom"}
    Releases <- MCReleases
    Directories <- MCDirectories
    MaxDamages = 1
    Machines <- MCMachines
    Selections <- MCSelections
    MaxMoves = 1
    MaxProbes = 1
INVARIANTS
  InstallIsAllOrNothing
  RepairKeepsRuntime
  RetryInstalls
  AcceptedSettingsStay
  SecretsAreKept
  UpgradeKeepsProbed
  StartIsAsTold
PROPERTIES
  SlotIsFreed
CHECK_DEADLOCK FALSE
