\* One run, one instruction, three model calls, one loss.
SPECIFICATION FairSpec
CONSTANTS
  Runs = {r1}
  Instructions = {i1}
  Plans <- ShortPlans
  MaxModelCalls = 3
  LeaseTTL = 1
  MaxWaits = 1
  MaxLosses = 1
INVARIANTS
  TypeOK
  MessageMatchesRun
  QuestionIsAsked
  CompletedHeardAll
PROPERTIES
  EndingsHold
  EveryRunEnds
CHECK_DEADLOCK FALSE
