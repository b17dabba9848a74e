\* Two reports of one head, a recovery, a move of the pull request or a change
\* of the setting, lost answers and stray requests.
SPECIFICATION Spec
CONSTANTS
  h1 = h1
  h2 = h2
  Analyses = {1, 2}
  Positions = {h1, h2}
  Start = h1
  HeadOf <- MCHead
  RecoveryLimit = 1
  MaxClaims = 3
  MaxComments = 2
  MaxEvents = 1
CHECK_DEADLOCK FALSE
INVARIANTS
  TypeOK
  OneComment
  PublishedIsShown
PROPERTIES
  NewestStays
