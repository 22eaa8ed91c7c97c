SPECIFICATION Spec
CONSTANTS
  Motors = 2
  Word = 9
  Reload = 2
  Step = 2
  MaxDuty = 3
  Duties = {0, 2, 3}
  Latency = 1
  TickPeriod = 14
  TickTime = 1
INVARIANTS PulseFollowsDuty PulseBounded
