\* Two jobs, two workers, crashes and database errors, and the workers' fairness.
SPECIFICATION FairSpec
CONSTANTS
  j1 = j1
  j2 = j2
  w1 = w1
  w2 = w2
  Job <- MCJobs
  Worker <- MCWorkers
  MaxAttempts = 2
  NumDelays = 1
  ClaimLimit = 2
  Faults <- AllFaults
INVARIANTS
  AttemptLogUnique
  HonestVerdict
  StrandedOnlyByFault
PROPERTIES
  ImplementsLifecycle
  SendsAsAgreed
  EveryJobSettles
CHECK_DEADLOCK FALSE
