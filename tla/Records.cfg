SPECIFICATION MCSpec
CONSTANTS
  Goods = {g1, g2, g3, g4}
  Sales = {o1, o2, o4}
  Malformed = {g4, o4}
  Syncs = {s1, s2}
  PageSize = 2
  MaxPages = 2
  MaxRuns = 3
  MaxEdits = 2
  MaxFailures = 1
  named = named
  nameless = nameless
  Msgs <- MCMsgs
  Nameless <- MCNameless
  Matches <- MCMatches
  Rules = {1, 2}
  Made = {2}
  Own = {1}
  Workers = {w1, w2}
  CliWorker = w2
  Cli = cli
  Nobody = nobody
  NoRule = none
  MaxPerHour = 2
  MaxTries = 1
  MaxRows = 2
  MaxCopies = 2
  MaxChanges = 1
  Commands = {c1, c2}
  Daemon = d
  NoHolder = noHolder
  Anonymous = {2}
  Devices = {1, 2}
  NoDevice = noDevice
  MaxLogins = 3
INVARIANTS SnapshotIsComplete FewAreAdmitted RepliesAreLogged LogsAreTrue OutboundIsKept StoredTogether
PROPERTIES LoneSyncMirrors RecoveryIsEarned
CHECK_DEADLOCK FALSE
