SPECIFICATION Spec
CONSTANTS
  limit = limit
  tag = tag
  pod1 = pod1
  pod2 = pod2
  deploy = deploy
  pods = pods
  deployments = deployments
  default = default
  prod = prod
  NoNamespace = NoNamespace
  Nobody = Nobody
  NoResource = NoResource
  NoEvent = NoEvent
  Main = Main
  ClusterCrd = ClusterCrd
  NamespaceCrd = NamespaceCrd
  ResourceOf <- MCResourceOf
  NamespaceOf <- MCNamespaceOf
  AdmNamespaceOf <- MCAdmNamespaceOf
  Unlistable = {}
  Admissions = {limit}
  Objects = {pod1}
  Resources = {pods, deployments}
  KindsOf <- Moving
  MaxAdmVersion = 3
  MaxVersion = 1
  MaxAdmRelists = 1
  MaxRelists = 0
  Failures = {"discovery", "compile", "init", "created", "event"}
CHECK_DEADLOCK FALSE
INVARIANTS NoSupersededCode HooksInTurn SettledConverges
PROPERTY EnforcementSpec
