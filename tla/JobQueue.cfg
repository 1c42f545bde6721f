SPECIFICATION FairSpec
CONSTANTS
  i1 = i1  i2 = i2  wi1 = wi1  wi2 = wi2
  NoJob = NoJob
  Jobs <- ImageJobs
  Workers <- ImagePool
  JobType <- ImageJobType
  WorkerType <- ImageWorkerType
  MaxBoots = 2
  MaxFaults = 1
CHECK_DEADLOCK FALSE
INVARIANTS JobsAccounted NoSleepThroughWork
PROPERTIES OnlyLateQueuedReopens ImplementsLifecycle QueuedJobIsHandled
