CONSTANTS
  a = a  b = b  c = c  d = d
  Nodes <- MCNodes
  Virtual <- MCVirtual
  Place <- MCPlace
  Top = 8
  None = None
  MaxTwice = 2
SPECIFICATION Spec
INVARIANTS OwnerIsNearest
PROPERTIES MinimalMoves
