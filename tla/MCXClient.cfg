CONSTANTS
  a1 = a1  a2 = a2  t1 = t1  t2 = t2  t3 = t3
  Addrs <- MCAddrs
  Tasks <- MCTasks
  Cast <- MCCast
  Target <- MCTarget
  NoTask = NoTask
  MaxConns = 3
SPECIFICATION FairSpec
INVARIANTS TypeOK NoConnLeak BroadcastOutcome
PROPERTIES BroadcastReturns
