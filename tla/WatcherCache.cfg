SPECIFICATION FairSpec
CONSTANTS
  pod1 = pod1
  pod2 = pod2
  deploy = deploy
  pods = pods
  deployments = deployments
  default = default
  prod = prod
  NoNamespace = NoNamespace
  Nobody = Nobody
  NoResource = NoResource
  NoEvent = NoEvent
  Objects = {pod1, deploy}
  Resources = {pods, deployments}
  ResourceOf <- MCResourceOf
  NamespaceOf <- MCNamespaceOf
  Threads = {t1, t2}
  MaxVersion = 2
  MaxRelists = 1
  Unlistable = {}
CHECK_DEADLOCK FALSE
INVARIANTS TypeOK CacheFollowsInformer
PROPERTIES CacheStableUnderLock CacheConverges
