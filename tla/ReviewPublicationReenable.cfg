\* One report, the publication switched off and on, and no failure at all.
SPECIFICATION UndisturbedSpec
CONSTANTS
  h1 = h1
  h2 = h2
  Analyses = {1}
  Positions = {h1}
  Start = h1
  HeadOf <- MCHead
  RecoveryLimit = 0
  MaxClaims = 3
  MaxComments = 1
  MaxEvents = 2
CHECK_DEADLOCK FALSE
PROPERTIES
  ReenabledIsPublished
