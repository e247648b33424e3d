SPECIFICATION Spec
CONSTANTS
  r1 = r1  r2 = r2
  ai_block_io = ai_block_io  avg_block_io = avg_block_io
  Reporters = {r1, r2}
  Tasks = {ai_block_io, avg_block_io}
  ClearTimes <- ClearTimesDef
  NoSource = NoSource
  PlainTexts = TRUE
  NoAlarm = NoAlarm
  MaxNow = 5
  MaxAlarms = 4
SYMMETRY ReportersAlike
CHECK_DEADLOCK FALSE
INVARIANTS Complete Cleared
