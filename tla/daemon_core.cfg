SPECIFICATION Spec
CONSTANTS
  p1 = p1  p2 = p2  p3 = p3
  a = a  b = b  q = q
  o = o
  p = p
  Oneshot = {o}
  Period = {p}
  HasPre = {}
  HasPost = {}
  HasEnv = {}
  Cmds = {a}
  Plain = {a}
  NoCmd = NoCmd
  Conf <- ConfDefault
  Pids = {p1, p2, p3}
  None = None
  PidReuse = TRUE
  EarlyExit = TRUE
  RunFails = FALSE
  MayStop = TRUE
SYMMETRY PidSymmetry
CHECK_DEADLOCK FALSE
INVARIANTS TypeOK Tracked
PROPERTY SupervisedSpec
