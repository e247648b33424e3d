SPECIFICATION FairSpec
CONSTANTS
  e1 = e1  e2 = e2
  slow = slow  raid = raid
  Events = {e1, e2}
  Lists <- ListsDef
  Code <- CodeDef
  BlockCode = slow
  Configs <- ConfigsDef
  Bad = Bad
  Types = {nvme}
  nvme = nvme
  PageSize = 1
  MaxChanges = 2
  MaxFaults = 1
CHECK_DEADLOCK FALSE
INVARIANTS Complete BlockIo OrderlyEnd
PROPERTIES Ends Reported
