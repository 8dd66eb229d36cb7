SPECIFICATION Spec
CONSTANTS
  RmsWindowFrames = 1
  SpeechOnsetFrames = 2
  SilenceHangoverFrames = 1
  PreRollFrames = 2
  MaxFrames = 6
  MaxTexts = 3
  MaxRetries = 1
CHECK_DEADLOCK FALSE
INVARIANTS TypeOK UtterancesWhole CancelledTextsSilent 
 
