SPECIFICATION FairSpec
CONSTANTS
  init = init  add1 = add1  add2 = add2  del1 = del1  val1 = val1  mut1 = mut1
  Calls = {init, add1, val1, mut1}
  Runtimes = {r1, r2}
  Failures = {"create", "throw", "loop"}
  MethodOf <- MCMethodOf
  Declared <- CountPods
  Defined <- NoUpdateHook
  Updates <- MCUpdates
  NoRuntime = NoRuntime
  Nobody = Nobody
CHECK_DEADLOCK FALSE
INVARIANTS TypeOK PoolConsistent CommittedOnly SyncedAlone
PROPERTIES EveryCallReturns
