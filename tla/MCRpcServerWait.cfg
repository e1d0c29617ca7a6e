CONSTANTS
  r1 = r1  r2 = r2  r3 = r3
  Loop = Loop
  Free = Free
  NoReq = NoReq
  Reqs <- MCReqs
SPECIFICATION Spec
INVARIANTS WaitCoversMethods
