CONSTANTS
  s1 = s1
  u1 = u1  u2 = u2  u3 = u3
  Servers <- MCServers
  Users <- MCUsers
  Unlocked = Unlocked
  Never <- MCNever
  Timeout = 10
  Period = 5
  Delay = 2
  DTimeout = 3
  Horizon = 15
SPECIFICATION Spec
SYMMETRY MCSymmetry
INVARIANTS BeatingStaysListed
PROPERTIES NoGhost
