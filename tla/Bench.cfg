SPECIFICATION FairSpec
CONSTANTS
  Workers = {w1, w2}
  N = 3
  Expectations = {"", "pass", "fail", "FAIL"}
  Unset = Unset
INVARIANTS OneWriterPerSlot SummarySeesAll SummaryBalances
PROPERTIES BenchEnds
CHECK_DEADLOCK FALSE
