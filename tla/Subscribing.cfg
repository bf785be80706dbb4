SPECIFICATION Spec
CONSTANTS
  Text <- MCText
  Handle <- MCHandle
  Source <- MCSource
  strip <- MCStrip
  lower <- MCLower
  MaxRequests = 2
INVARIANTS SilenceIsSubscribed
CHECK_DEADLOCK FALSE
