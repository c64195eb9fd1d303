SPECIFICATION FairSpec
CONSTANTS
  a = a  d = d  x = x  y = y  c1 = c1  c2 = c2  c3 = c3
  None = None
  Accepting <- Callers
  Dialed <- Callees
  Strangers <- OneStranger
  Enrolling = TRUE
  Streams <- TwoStreams
  MaxContacts = 1
  MaxAttempts = 2
  AttemptWindow = 1
  ReservationLife = 1
  RetryInterval = 1
  MaxTime = 1
PROPERTIES NobodyIsForgotten
