SPECIFICATION ParsingSpec
CONSTANTS
  SizeT = 64
  MaxTyped = 6
  Chars = {"a", "b", "c", "x", "1", "o", "t", "k", "i", "+", "-", "sp", ":", "#", "comma", "cr", "lf"}
  Kinds <- MCKinds
  Tried <- MCTried
  Alpha = {"a", "b", "c", "x", "o", "t", "k", "i"}
  Digits = {"1"}
INVARIANTS
  StreamIsCutAnywhere
  LinesAreTakenApart
  KickedIsSecondWord
  TargetIsFirstWord
  OperatorsAreRecognised
  TopicChannelIsFirstWord
  JoinPairsKeys
  PartLeavesListed
  NamesAsksEachWord
  ModesAreRead
  UserModesAreRead
