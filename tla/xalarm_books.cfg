SPECIFICATION Spec
CONSTANTS
  a = a  b = b  c = c
  f1 = f1  f2 = f2  f3 = f3
  oom = oom  panic = panic
  Clients = {a, b, c}
  Wants <- WantsDef
  Silent = {}
  Events = {oom, panic}
  Critical = {panic}
  Fds = {f1, f2, f3}
  MaxConn = 2
  NoClient = NoClient
  SwitchFails = TRUE
  Unloads = TRUE
  SentryStops = TRUE
  Restarts = TRUE
SYMMETRY Alike
CHECK_DEADLOCK FALSE
INVARIANTS TypeOK Accounted Bounded
PROPERTY SubscriberServed
