SPECIFICATION Spec
CONSTANTS
  SEQ = 8
  ISNs = {3, 6}
  PEER_ISN = 6
  RXBUF = 3
  SLOTS = 2
  RETRIES = 1
  ANSWER = 3
  HEADER = 1
  BUF = 3
  MaxRequests = 1
  MaxFrames = 5
INVARIANTS StreamPrefix AckedIsReceived Resendable
PROPERTIES CallsReturn
CHECK_DEADLOCK FALSE
