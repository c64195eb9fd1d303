SPECIFICATION FairSpec
CONSTANTS
  Dialers = {d1, d2}
  Secrets = {s1, s2}
  Attempts = {a1, a2}
  d1 = d1
  d2 = d2
  s1 = s1
  s2 = s2
  a1 = a1
  a2 = a2
  Nothing = Nothing
PROPERTIES JoinEnds
INVARIANTS JoinTypeOK OutcomeIsTrue
CHECK_DEADLOCK FALSE
