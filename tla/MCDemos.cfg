\* Every program; arrays of two bytes of two bits; two flips and one test.
SPECIFICATION FairSpec
CONSTANTS
  Width = 2
  Length = 2
  Flips = 2
  Tests = 1
  Samples <- TwoSamples
INVARIANTS
  CleanVerdictsAreDocumented
  
  FilesInOrder
  VerifyMacDecides
  CountIsDistance
PROPERTY EveryDemoEnds
CHECK_DEADLOCK FALSE
