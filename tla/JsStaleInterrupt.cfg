SPECIFICATION Spec
CONSTANTS
  init = init  add1 = add1  add2 = add2  del1 = del1  val1 = val1  mut1 = mut1
  Calls = {init, add1, val1}
  Runtimes = {r1, r2}
  Failures = {"loop"}
  MethodOf <- MCMethodOf
  Declared <- CountPods
  Defined <- AllMethods
  Updates <- MCUpdates
  NoRuntime = NoRuntime
  Nobody = Nobody
CHECK_DEADLOCK FALSE
INVARIANT InterruptsAreOwn
