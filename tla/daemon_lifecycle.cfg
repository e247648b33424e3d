SPECIFICATION Spec
CONSTANTS
  p1 = p1  p2 = p2  p3 = p3
  a = a  b = b  q = q
  o = o
  p = p
  Oneshot = {}
  Period = {p}
  HasPre = {p}
  HasPost = {p}
  HasEnv = {p}
  Cmds = {a, b, q}
  Plain = {a, b}
  NoCmd = NoCmd
  Conf <- ConfReload
  Pids = {p1, p2, p3}
  None = None
  PidReuse = TRUE
  EarlyExit = TRUE
  RunFails = TRUE
  MayStop = TRUE
SYMMETRY PidSymmetry
CHECK_DEADLOCK FALSE
PROPERTIES PreparedBeforeStart ConflictRefused
