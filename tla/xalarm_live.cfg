SPECIFICATION FairSpec
CONSTANTS
  a = a  b = b  c = c
  f1 = f1  f2 = f2  f3 = f3
  oom = oom  panic = panic
  Clients = {a, b, c}
  Wants <- WantsDef
  Silent = {c}
  Events = {oom, panic}
  Critical = {panic}
  Fds = {f1, f2, f3}
  MaxConn = 2
  NoClient = NoClient
  SwitchFails = FALSE
  Unloads = TRUE
  SentryStops = FALSE
  Restarts = FALSE
CHECK_DEADLOCK FALSE
INVARIANT OffWhenUnused
PROPERTY ClosedAreDropped
