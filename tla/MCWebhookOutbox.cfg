CONSTANTS
  MaxId = 2
  MaxFlight = 2
  MaxFaults = 2
  BatchLimit = 1
  MaxAttempts = 3
  Lease = 2
  BackoffBase = 1
  BackoffMax = 3
  Deadline = 1
  Retention = 1
SPECIFICATION Spec
INVARIANTS DeliveredOnce OutcomeIsTrue
PROPERTIES Lifecycle EventuallyFinalized
