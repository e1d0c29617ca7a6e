CONSTANTS
  n1 = n1  n2 = n2
  p1 = p1  p2 = p2  p3 = p3
  scores = scores  Tom = Tom  Jack = Jack  Sam = Sam
  Procs <- MCProcs
  Home <- MCHome
  Group <- MCGroup
  Key <- MCKey
  Owner <- MCOwner
  Groups <- MCGroups
SPECIFICATION Spec
INVARIANTS PeersAskWell
