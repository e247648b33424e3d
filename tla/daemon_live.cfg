SPECIFICATION FairSpec
CONSTANTS
  p1 = p1  p2 = p2  p3 = p3
  a = a  b = b  q = q
  o = o
  p = p
  Oneshot = {}
  Period = {p}
  HasPre = {p}
  HasPost = {p}
  HasEnv = {}
  Cmds = {a}
  Plain = {a}
  NoCmd = NoCmd
  Conf <- ConfEnable
  Pids = {p1, p2, p3}
  None = None
  PidReuse = FALSE
  EarlyExit = TRUE
  RunFails = FALSE
  MayStop = TRUE
CHECK_DEADLOCK FALSE
PROPERTIES MainLoopLives WaitingRuns ShutdownEnds StopSticks
