SPECIFICATION FairSpec
CONSTANTS
  row = row  cell = cell  cached = cached  noise = noise
  p1 = p1  p2 = p2  p3 = p3  v1 = v1  d1 = d1  d2 = d2
  Requests = {row, cell, cached, noise}
  Kind <- KindDef
  PagesOf <- PagesDef
  VarOf <- VarDef
  Pages = {p1, p2, p3}
  Vars = {v1}
  NoVar = NoVar
  Devices = {d1, d2}
  HbmDevices = {d1}
  Home <- HomeDef
  NoDevice = NoDevice
  Threshold = 8
  Digits = 1
  MaxVar = 20
  MaxOthers = 1
  MaxEvents = 3
  MaxFaults = 2
  Idle = Idle
CHECK_DEADLOCK FALSE
INVARIANTS Honest Isolation EfiKept
PROPERTIES Cared EventRead
