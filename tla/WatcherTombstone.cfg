SPECIFICATION FairSpec
CONSTANTS
  pod1 = pod1
  pod2 = pod2
  deploy = deploy
  pods = pods
  deployments = deployments
  default = default
  prod = prod
  NoNamespace = NoNamespace
  Nobody = Nobody
  NoResource = NoResource
  NoEvent = NoEvent
  Objects = {pod1}
  Resources = {pods}
  ResourceOf <- MCResourceOf
  NamespaceOf <- MCNamespaceOf
  Threads = {t1}
  MaxVersion = 2
  MaxRelists = 1
  Unlistable = {}
PROPERTY DeletionsArrive
