SPECIFICATION FairSpec
CONSTANTS
  msg1 = msg1
  msg2 = msg2
  ev1 = ev1
  Consumer = {c1}
  Message = {msg1, msg2}
  Event = {ev1}
  EventOf <- TwoCopies
  Relevant = {msg1, msg2}
  MaxMessages = 2
  MaxAttempts = 3
  MaxRestarts = 0
  MaxAckErrors = 1
  NoMessage = NoMessage
PROPERTIES EveryMessageSettles
CHECK_DEADLOCK FALSE
