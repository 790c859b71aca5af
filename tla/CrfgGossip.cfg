CONSTANTS
  MaxRound <- MCMaxRound
  MaxSetId <- MCMaxSetId
  MaxGc <- MCMaxGc
  Msgs <- MCMsgs
  LocalSets <- MCLocalSets
SPECIFICATION Spec
INVARIANT TypeOK
PROPERTY LiveWindowKept
PROPERTY GossipExpiryIsFinal
