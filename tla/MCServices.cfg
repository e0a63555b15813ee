CONSTANTS
  Launches = {s1, s2, s3}
  Persistent = {s1, s2}
  Owners = {o1}
  MaxTerminals = 1
  Terminations = {"cancelled"}
  Limits = {"wall", "cpu"}
  MaxFrames = 2
  Readers = {r1}
  MaxObjects = 2
  Writers = {w1, w2}
  WriteKinds = {"create", "create-or-replace", "reserve", "enroll", "atomic"}
  MaxForeign = 1
  Watchers = {v1, v2}
  MaxQueued = 1
  Hosts = {h1, h2}
  Jobs = {j1, j2}
  Delays = {0, 1, 2}
  Intervals = {1, 2}
  Tags = {t1, t2}
  TimeoutMax = 3
  Horizon = 4
  Providers = {q1, q2}
  Profiles = {p1, p2}
  Roots = {e1, e2}
  MaxEnrollments = 1
SPECIFICATION Spec
VIEW Moving
INVARIANTS ServicesTypeOK NoProcessUnattended SupervisedRun CompletionTruthful RunsWhereValidated ConservativeRollback WatchersEnd AceAccounted ConfigurationAgrees
PROPERTIES FiresOnce NothingBehindRevocation
CHECK_DEADLOCK FALSE
