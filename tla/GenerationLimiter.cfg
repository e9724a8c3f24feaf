\* Three callers share one permit; every second immediate grant must let the
\* ordinary lane have its turn.
SPECIFICATION FairLimiterSpec
CONSTANTS
  t1 = t1
  t2 = t2
  t3 = t3
  Caller = {t1, t2, t3}
  Capacity = 1
  MaxImmediate = 1
  Calls <- MixedCalls
INVARIANTS CountersAreExact BoundedBypass
PROPERTIES EveryWaiterIsServed
