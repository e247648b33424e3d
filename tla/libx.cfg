SPECIFICATION FairSpec
CONSTANTS
  h1 = h1  f1 = f1  f2 = f2
  oom = oom  panic = panic  down = down
  Ids = {oom, down}
  Down = down
  Handles = {h1}
  Fds = {f1, f2}
  Callback = Callback  App = App  Free = Free
  Upgrades = TRUE
  MaxInbox = 1
INVARIANTS CallbackSafe Owned
PROPERTIES WantedDelivered UnRegisterReturns
CHECK_DEADLOCK FALSE
