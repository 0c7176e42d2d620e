SPECIFICATION UserDataSpec
CONSTANTS
  loop = loop
  other = other
  Polls = {loop, other}
  MaxReminders = 2
  Horizon = 1
  Period = 1
  SnoozeTime = 1
  KeepCompleted = 1
  MaxEdits = 1
  MaxStops = 1
  n1 = n1
  d1 = d1
  c1 = c1
  v1 = v1
  v2 = v2
  Items = {n1, d1, c1, v1, v2}
  KindOf <- MCKindOf
  NoItem = NoItem
  MaxChanges = 3
INVARIANTS
  NotifiedOnce
  
PROPERTIES
  
  DueIsServed
CHECK_DEADLOCK FALSE
