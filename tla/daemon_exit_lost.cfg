SPECIFICATION Spec
CONSTANTS
  p1 = p1  p2 = p2  p3 = p3
  a = a  b = b  q = q
  o = o
  p = p
  Oneshot = {}
  Period = {p}
  HasPre = {}
  HasPost = {}
  HasEnv = {}
  Cmds = {a}
  Plain = {a}
  NoCmd = NoCmd
  Conf <- ConfDefault
  Pids = {p1, p2}
  None = None
  PidReuse = FALSE
  EarlyExit = TRUE
  RunFails = FALSE
  MayStop = FALSE
CHECK_DEADLOCK FALSE
INVARIANT RunningIsRunning
