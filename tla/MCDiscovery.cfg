SPECIFICATION MCSpec
CONSTANTS
  pod = pod
  route = route
  podDiscovery = podDiscovery
  routeDiscovery = routeDiscovery
  Kinds = {pod, route}
  Dynamic = {route}
  Subscribers = {podDiscovery, routeDiscovery}
  TypesOf <- MCTypesOf
  Order <- MCOrder
  MaxVersion = 1
  MaxBacklog = 1
  setA = setA
  setB = setB
  setC = setC
  nginxA = nginxA
  nginxB = nginxB
  Namespaces = {1, 2}
  Names = {1}
  Classes = {"x", "y"}
  Home = 1
  MaxParents = 2
  Sets <- MCSets
  Owners <- MCOwners
  Listings <- MCListings
  ClassNames <- MCClassNames
  ControllerNames <- MCControllerNames
  Ingresses <- MCIngresses
  Pods <- MCPods
  PodVersions <- MCPodVersions
  ClassVersions <- MCClassVersions
  Configs <- MCConfigs
  MaxChanges = 1
INVARIANTS
  NoMissedChange
  ReadersSeeTheServer
  TargetsAgree
  NewestReplicaSetIsTarget
  EnvoyRoutesAreTargets
  TargetIsStable
  ServedByItsController
  ValidationIsEarned
PROPERTIES
  ChangesArrive
  StartupCompletesUnderLoad
