SPECIFICATION FairSpec
CONSTANTS
  RetentionRuns = {a1, a2}
  RetryRuns = {b1}
  AllowCrash = TRUE
CHECK_DEADLOCK FALSE
INVARIANTS DeletionRecordIsTrue
PROPERTIES NotDeletedEarly ExpiredSourceGoes
