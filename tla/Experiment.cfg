SPECIFICATION FairSpec
CONSTANTS
  PromptCount = 2
  Scripts = {"none", "qps", "mixed"}
  Points = 2
  MaxScripts = 2
  MaxFaults = 1
INVARIANTS
  FilesAreWhole
  ExitTellsTheTruth
  MeasuredOnOwnServer
  
  NoServerLeftBehind
PROPERTIES
  ScriptEnds
