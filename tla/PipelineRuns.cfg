CONSTANTS
  upload = upload
  u1 = u1
  u2 = u2
  NoPipeline = NoPipeline
  Pipelines <- OneUpload
  FileUploads <- OneUpload
  Users <- TwoUsers
  MaxRuns = 2
  MaxFaults = 1
SPECIFICATION FairSpec
INVARIANT OutcomeKept
PROPERTIES StuckRunsHeal PendingServed
CHECK_DEADLOCK FALSE
