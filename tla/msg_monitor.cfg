SPECIFICATION FairSpec
CONSTANTS
  reboot = reboot  oom = oom  corrected = corrected
  Order <- OrderDef
  Kind <- KindDef
  NoMsg = NoMsg
  Down = Down
  MaxAnswers <- AnswersDef
  MaxTroubles = 1
  MaxFaults = 1
CHECK_DEADLOCK FALSE
INVARIANTS BmcTruth
PROPERTIES Bridged EndsTogether Recovered Answered
