SPECIFICATION Spec
CONSTANTS
  Repos <- SomeRepos
  RustPrimary <- RustOnly
  Rankings <- SomeRankings
  Published <- SomePublished
  Flaky = {"a"}
  Subcrates <- Members
  PerPage = 2
  MaxPages = 2
  CorpusSizes <- SomeCorpora
  Thresholds = {34, 50}
  CoverageThresholds = {50, 75}
  Shipped <- SomeShipped
  LastDay = 2
  MaxRuns = 2
  Missing = Missing
  Torn = Torn
  ShortGoMods <- GoMods
INVARIANTS TypeOK GoRequirementsRead OneVotePerRepo SelectionIsExact CoverageIsMinimal Traceable 
CHECK_DEADLOCK FALSE
