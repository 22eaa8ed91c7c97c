SPECIFICATION TalkFairSpec
CONSTANTS
  Buttons = {2}
  c1 = c1
  c2 = c2
  Clients = {c1, c2}
  Constants <- MCConstants
  MaxRounds <- MCRounds
INVARIANTS ActedInOrder AnsweredInOrder
PROPERTIES Answered
CHECK_DEADLOCK FALSE
