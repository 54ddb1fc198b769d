\* Two requests on their threads; pages of any split, three at most; a grid
\* side of four pixels at most in tiles of two.
CONSTANTS
  Fetches = {f1, f2}
  Cases <- MCCases
  Answers <- MCAnswers
  PinnedRun <- MCPinnedRun
  NoTrack = NoTrack
  Products = {"p1", "p2"}
  MaxPages = 3
  Cloudy = 20
  MinObserved = 50
  Extreme = 99
  Lookups <- MCLookups
  Failed = Failed
  NoScene = NoScene
  MaxSide = 2
  MaxMosaic = 4
SPECIFICATION FairSpec
INVARIANTS PairIsSound AnswerMatchesPair
PROPERTY LockIsFreed
