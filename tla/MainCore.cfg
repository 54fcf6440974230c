SPECIFICATION MainCoreSpec
CONSTANTS
  Jobs <- AllJobs
  Events <- AllEvents
  Programs <- AllPrograms
  MaxIssue = 6
  MaySleep = TRUE
INVARIANTS EventsFresh AwaitedDone NoLostEvent DemuxTypeOK NothingDropped
PROPERTIES WaitEnds InOrder AllAnswered
CHECK_DEADLOCK FALSE
