SPECIFICATION Spec
CONSTANTS
  Servers <- MCServers
  Tools <- MCTools
  OwnTools <- MCOwnTools
  Names <- MCNames
  Batches = {1, 2}
  Files <- MCFiles
  Envs <- MCEnvs
  Wishes <- MCWishes
  Turns <- MCTurns
  MaxAnswers = 2
INVARIANTS
  LoadedIsUsable
  VocabularyKept
  SameOnEveryWire
  CallReachesItsHost
