--------------------------- MODULE TargetDiscovery ---------------------------
(***************************************************************************)
(* What leads from the cluster to a target and on to an attack on it: what *)
(* the stores keep (Stores), the targets that are made of routes (Routes), *)
(* of replica sets (ReplicaSets) and of ingresses (IngressTargets), and    *)
(* the look at the NGINX controllers' pods before NGINX delays anything    *)
(* (NginxValidation).  They read the stores at different times and know    *)
(* nothing of each other; a behaviour is one of the part named by which,   *)
(* the other parts' variables stay as they are.                            *)
(***************************************************************************)
EXTENDS Naturals

CONSTANTS Namespaces, Names, Classes,
          Home, MaxParents,                          \* Routes
          Sets, Owners, Listings,                    \* ReplicaSets
          ClassNames, ControllerNames, Ingresses,    \* IngressTargets
          Pods, PodVersions, ClassVersions, Configs, \* NginxValidation
          MaxChanges                                 \* bound on the changes in the last two

VARIABLES which,
          field, disabled, server, delivered, kept,
          envoyClasses, gatewayClass, parentRefs,
          present, listing, todo, owner, left, single, grouped, resettled,
          class, ingress, filtered, running, target, served, moved,
          ingressClass, nginxPod, config, validation, texts,
          changes

keptVars    == << field, disabled, server, delivered, kept >>
routeVars   == << envoyClasses, gatewayClass, parentRefs >>
setVars     == << present, listing, todo, owner, left, single, grouped, resettled >>
ingressVars == << class, ingress, filtered, running, target, served, moved >>
nginxVars   == << ingressClass, nginxPod, config, validation, texts >>
discoveryVars ==
  << which, keptVars, routeVars, setVars, ingressVars, nginxVars, changes >>

Kept    == INSTANCE Stores WITH store <- kept
Route   == INSTANCE Routes
Grouped == INSTANCE ReplicaSets WITH Workloads <- Owners, filtered <- single, moved <- resettled
Targets == INSTANCE IngressTargets WITH Classes <- ClassNames, Controllers <- ControllerNames
Nginx   == INSTANCE NginxValidation

ASSUME TargetDiscoveryAssumption ==
  /\ Route!RoutesAssumption /\ Grouped!ReplicaSetsAssumption
  /\ Targets!IngressTargetsAssumption /\ Nginx!ValidationAssumption

-----------------------------------------------------------------------------
No == 0      \* the value of a variable that no part uses

NoField   == field = No /\ disabled = No /\ server = No /\ delivered = No /\ kept = No
NoRoute   == envoyClasses = No /\ gatewayClass = No /\ parentRefs = No
NoSets    ==
  /\ present = No /\ listing = No /\ todo = No /\ owner = No
  /\ left = No /\ single = No /\ grouped = No /\ resettled = No
NoIngress ==
  /\ class = No /\ ingress = No /\ filtered = No /\ running = No /\ target = No
  /\ served = No /\ moved = No
NoNginx   ==
  /\ ingressClass = No /\ nginxPod = No /\ config = No /\ validation = No /\ texts = No

DiscoveryInit ==
  \/ /\ which = "stores" /\ Kept!Init
     /\ NoRoute /\ NoSets /\ NoIngress /\ NoNginx /\ changes = No
  \/ /\ which = "routes" /\ Route!Init
     /\ NoField /\ NoSets /\ NoIngress /\ NoNginx /\ changes = No
  \/ /\ which = "replicasets" /\ Grouped!Init
     /\ NoField /\ NoRoute /\ NoIngress /\ NoNginx /\ changes = No
  \/ /\ which = "ingresses" /\ Targets!Init
     /\ NoField /\ NoRoute /\ NoSets /\ NoNginx
  \/ /\ which = "nginx" /\ Nginx!Init
     /\ NoField /\ NoRoute /\ NoSets /\ NoIngress

OnlyKept ==
  /\ which = "stores"
  /\ UNCHANGED << which, routeVars, setVars, ingressVars, nginxVars, changes >>
OnlyRoute ==
  /\ which = "routes"
  /\ UNCHANGED << which, keptVars, setVars, ingressVars, nginxVars, changes >>
OnlySets ==
  /\ which = "replicasets"
  /\ UNCHANGED << which, keptVars, routeVars, ingressVars, nginxVars, changes >>
OnlyTargets ==
  which = "ingresses" /\ UNCHANGED << which, keptVars, routeVars, setVars, nginxVars >>
OnlyNginx ==
  which = "nginx" /\ UNCHANGED << which, keptVars, routeVars, setVars, ingressVars >>

DiscoveryNext ==
  \/ OnlyKept    /\ Kept!Next
  \/ OnlyRoute   /\ Route!Next
  \/ OnlySets    /\ Grouped!Next
  \/ OnlyTargets /\ Targets!Next
  \/ OnlyNginx   /\ Nginx!Next

DiscoverySpec == DiscoveryInit /\ [][DiscoveryNext]_discoveryVars

-----------------------------------------------------------------------------
(* Properties; each is the one of its module, for the part that runs.      *)

(* Whoever reads a store finds what the cluster had, the known exceptions  *)
(* apart.                                                                  *)
ReadersSeeTheServer == which = "stores" => Kept!ReadersSeeTheServer

(* The routes that are targets are those with a gateway of Envoy's.        *)
EnvoyRoutesAreTargets == which = "routes" => Route!EnvoyRoutesAreTargets

(* The order of its references never changes a route's target.             *)
TargetIsStable == which = "routes" => Route!TargetIsStable

(* Of the replica sets of a workload the newest is a target.               *)
NewestReplicaSetIsTarget == which = "replicasets" => Grouped!NewestReplicaSetIsTarget

(* An ingress is offered to the attacks of the controller that serves it.  *)
ServedByItsController == which = "ingresses" => Targets!ServedByItsController

(* An NGINX delay is let through, or refused, for what the pods load.      *)
ValidationIsEarned == which = "nginx" => Nginx!ValidationIsEarned
=============================================================================
