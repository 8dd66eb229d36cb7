SPECIFICATION Spec
CONSTANTS
  Threads = {"ui", "starter", "capture", "loop", "asr"}
  ReadersPass = TRUE
  MaxFrames = 1
  MaxMessages = 1
CHECK_DEADLOCK FALSE
INVARIANTS NothingAfterDestroy MutedStaysSilent
 
