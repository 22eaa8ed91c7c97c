SPECIFICATION TalkFairSpec
CONSTANTS
  Buttons = {2, 3}
  c1 = c1
  c2 = c2
  Clients = {c1}
  Constants <- MCConstants
  MaxRounds <- OneRounds
INVARIANTS TuneInOrder
CHECK_DEADLOCK FALSE
