CONSTANTS
  k1 = k1  k2 = k2  k3 = k3
  empty = empty  small = small  large = large
  Keys <- MCKeys
  Values <- MCValues
  Budgets <- MCBudgets
  KeyLen <- MCKeyLen
  ValueLen <- MCValueLen
  Missing = Missing
SPECIFICATION Spec
INVARIANTS WithinBudget RecentlyUsed Coherent
PROPERTIES LoopIsTrim
