SPECIFICATION Spec
CONSTANTS
  a = a
  b = b
  Sessions = {s1, s2}
  Keys = {a, b}
  Pages <- TwoPages
  Workers = 1
  MaxVisits = 2
  MaxErrors = 1
  MaxDrops = 1
INVARIANTS OneOwner LoggedToAsker FailureVisible
PROPERTY EveryCallSettles
CHECK_DEADLOCK FALSE
