CONSTANTS
  p1 = p1  p2 = p2  p3 = p3
  k1 = k1  k2 = k2
  ok = ok  failed = failed
  Procs <- MCProcs
  Keys <- MCKeys
  Results <- MCResults
  NoKey = NoKey
  NoResult = NoResult
  MaxFlights = 3
SPECIFICATION FairSpec
INVARIANTS TypeOK OneFnPerKey SameResult MapMatchesLeaders
PROPERTIES WaiterReturns
