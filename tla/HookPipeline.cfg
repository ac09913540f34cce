SPECIFICATION Spec
CONSTANTS
  a = a
  b = b
  c = c
  d = d
  e = e
  default = default
  prod = prod
  NoNamespace = NoNamespace
  Admissions = {a, b, c, d, e}
  AdmNamespaceOf <- MCAdmNamespaceOf
  NameOrder <- MCNameOrder
  Failures = {"request", "decode", "list", "throw", "patch"}
CHECK_DEADLOCK FALSE
INVARIANTS TypeOK ExecutionOrder  PatchTellsAll
