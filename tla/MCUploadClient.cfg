SPECIFICATION FairSpec
CONSTANTS
  Calls <- MCCalls
  NoCall = NoCall
  MaxExpiries = 1
  MaxRuns = 2
  PartCount = 3
  MULTIPART_CONCURRENCY = 2
CHECK_DEADLOCK FALSE
INVARIANTS FormTruthful GivenUpIsCancelled NoSelfReplay
PROPERTY RunEnds
