CONSTANTS
  x1 = x1
  x2 = x2
  Workers = {w1, w2}
  Outbox = {x1}
  Reminders = {x2}
  DueIn <- MCDueIn
  Lease = 1
  MaxAttempts = 2
  BatchSize = 1
  MaxStall = 2
  MaxCrashes = 1
SPECIFICATION Spec
INVARIANT ExhaustedNeverClaimed
