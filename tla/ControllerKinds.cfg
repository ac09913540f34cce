SPECIFICATION FairSpec
CONSTANTS
  limit = limit
  tag = tag
  pod1 = pod1
  pod2 = pod2
  deploy = deploy
  pods = pods
  deployments = deployments
  default = default
  prod = prod
  NoNamespace = NoNamespace
  Nobody = Nobody
  NoResource = NoResource
  NoEvent = NoEvent
  Main = Main
  ClusterCrd = ClusterCrd
  NamespaceCrd = NamespaceCrd
  ResourceOf <- MCResourceOf
  NamespaceOf <- MCNamespaceOf
  AdmNamespaceOf <- MCAdmNamespaceOf
  Unlistable = {}
  Admissions = {limit}
  Objects = {pod1}
  Resources = {pods, deployments}
  KindsOf <- PodsAndDeployments
  MaxAdmVersion = 1
  MaxVersion = 1
  MaxAdmRelists = 0
  MaxRelists = 0
  Failures = {}
CHECK_DEADLOCK FALSE
PROPERTY AdmissionsConverge
