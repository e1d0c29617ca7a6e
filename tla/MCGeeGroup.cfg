CONSTANTS
  p1 = p1  p2 = p2
  near = near  far = far
  Procs <- MCProcs
  Keys <- MCKeys
  Remote <- MCRemote
  Results <- MCResults
  NoKey = NoKey
  NoResult = NoResult
  Missing = Missing
  Failed = Failed
  MaxFlights = 3
  MaxVersion = 2
  MaxBytes = 3
  KeyLen <- MCKeyLen
  ValueLen <- MCValueLen
SPECIFICATION GroupSpec
INVARIANTS GroupTypeOK HitsAreCurrent
PROPERTIES MonotonicReads
