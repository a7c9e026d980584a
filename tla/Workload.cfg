SPECIFICATION Spec
CONSTANTS
  Releases <- SomeReleases
  HECount = 6
  KnownCollisions = {"search"}
  KnownPairs <- Pairs
  KnownBuggy = {2}
  Torn = Torn
  Missing = Missing
  MaxBuilds = 2
  HandWritten <- SomeSpecs
  GenTTLs = {0}
  DefaultTTL = 60
  Text <- AnyText
INVARIANTS TypeOK SplitIsClean SplitIgnoresLineOrder VerifiedHeldoutIsSound EveryCaseIsRun
CHECK_DEADLOCK FALSE
