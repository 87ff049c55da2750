SPECIFICATION FairSpec
CONSTANTS
  Buckets = {b1}
  Keys = {k1, k2}
  Values = {v1, v2}
  Requests = {r1, r2}
  Ops = {"put", "delete", "create_bucket", "delete_bucket"}
  Serialised = {"put", "delete", "create_bucket", "delete_bucket"}
  MaxRetries = 1
  Failures = {"unsent", "unheard"}
  Crashes = 1
  NONE = NONE
  ABSENT = ABSENT
  MANGLED = MANGLED
INVARIANTS SyncTypeOK PendingIsExact NoEventUncounted Converged BucketsConverged
PROPERTIES EffortFalls Drains
CHECK_DEADLOCK FALSE
