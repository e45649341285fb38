--------------------------- MODULE IngressTargets ---------------------------
(***************************************************************************)
(* The ingresses that the discoveries for HAProxy and for NGINX offer as   *)
(* targets (src/extingress), from the ingresses and the ingress classes in *)
(* the informers' stores (src/client/client.go).                           *)
(*                                                                         *)
(* A discovery reads the classes twice, to choose the ingresses and to     *)
(* name the controller of each, and the informers deliver meanwhile.       *)
(***************************************************************************)
EXTENDS Naturals

CONSTANTS Classes,     \* names of ingress classes, "nginx" may be one
          Controllers, \* what a class may have for its controller
          Ingresses,   \* versions of the ingress: [name, annotation, excluded]
          MaxChanges   \* bound on the changes of the stores

Discoveries == {"haproxy", "nginx"}

ControllersOf(d) ==
  IF d = "haproxy" THEN {"haproxy.org/ingress-controller/haproxy"}
  ELSE {"k8s.io/ingress-nginx", "nginx.org/ingress-controller"}

IngressTargetsAssumption == MaxChanges \in Nat

VARIABLES
  class,     \* [Classes -> [controller, default]], or NotThere
  ingress,   \* what the store has of the ingress
  filtered,  \* [Discoveries -> none, or the ingress, in a set: what a run has chosen]
  running,   \* discoveries that have chosen, and not yet made the target
  target,    \* [Discoveries -> the target made of the ingress, in a set]
  served,    \* history: [Discoveries -> controllers the class of what it has chosen had]
  moved,     \* history: discoveries under which the stores have changed
  changes    \* number of changes of the stores

vars == << class, ingress, filtered, running, target, served, moved, changes >>

None     == "none"
NotThere == [controller |-> None, default |-> FALSE]
Versions == [controller : Controllers, default : BOOLEAN] \cup {NotThere}

-----------------------------------------------------------------------------
getIngressClassesForControllers(controllers) ==
  {c \in Classes : class[c].controller \in controllers}

hasDefaultClass(d) ==
  \E c \in getIngressClassesForControllers(ControllersOf(d)) : class[c].default

(* The classic name "nginx" is always one of NGINX's.                      *)
IngressClasses(d) ==
  getIngressClassesForControllers(ControllersOf(d)) \cup (IF d = "nginx" THEN {"nginx"} ELSE {})

GetIngressControllerByClassName(name) ==
  IF name \in Classes THEN class[name].controller ELSE None

getIngressClassName(i) == IF i.name # None THEN i.name ELSE i.annotation

ControllerOf(i) == GetIngressControllerByClassName(getIngressClassName(i))

(* Mutant: with a default class, ingresses of unknown classes are taken.   *)
isUsingClassOrDefault(d, name) == name \in IngressClasses(d) \/ hasDefaultClass(d)

isUsingClass(d, name) ==
  IF name # None THEN name \in IngressClasses(d) ELSE hasDefaultClass(d)

-----------------------------------------------------------------------------
Init ==
  /\ class \in [Classes -> Versions]
  /\ ingress \in Ingresses
  /\ filtered = [d \in Discoveries |-> {}]
  /\ running = {}
  /\ target = [d \in Discoveries |-> {}]
  /\ served = [d \in Discoveries |-> {}]
  /\ moved = {} /\ changes = 0

(* DiscoverTargets: at first it chooses the ingresses, ...                 *)
Filter(d) ==
  /\ d \notin running
  /\ running' = running \cup {d}
  /\ moved' = moved \ {d}
  /\ filtered' = [filtered EXCEPT ![d] =
       {i \in {ingress} : ~i.excluded /\ isUsingClass(d, getIngressClassName(i))}]
  /\ served' = [served EXCEPT ![d] = {ControllerOf(i) : i \in filtered'[d]}]
  /\ UNCHANGED << class, ingress, target, changes >>

(* ... and then makes the targets of them, with the controller of the      *)
(* class.                                                                  *)
MakeTargets(d) ==
  /\ d \in running
  /\ running' = running \ {d}
  /\ filtered' = [filtered EXCEPT ![d] = {}]
  /\ target' = [target EXCEPT ![d] =
       {[class      |-> getIngressClassName(i),
         controller |-> ControllerOf(i)] : i \in filtered[d]}]
  /\ UNCHANGED << class, ingress, served, moved, changes >>

(* The informers deliver a class or the ingress (external).                *)
Change ==
  /\ changes < MaxChanges
  /\ changes' = changes + 1
  /\ moved' = Discoveries
  /\ UNCHANGED << filtered, running, target >>

ClassChanges ==
  /\ \E c \in Classes, v \in Versions : class' = [class EXCEPT ![c] = v]
  /\ served' = [d \in Discoveries |-> served[d] \cup {ControllerOf(i)' : i \in filtered[d]}]
  /\ UNCHANGED ingress
  /\ Change

IngressChanges ==
  /\ ingress' \in Ingresses
  /\ UNCHANGED << class, served >>
  /\ Change

Next == ClassChanges \/ IngressChanges \/ \E d \in Discoveries : Filter(d) \/ MakeTargets(d)

Spec == Init /\ [][Next]_vars

-----------------------------------------------------------------------------
(* Properties                                                              *)

Settled(d) == d \notin moved /\ d \notin running

(* A target is offered to the attacks of the controller that serves it:    *)
(* while the discovery ran, its class had a controller of the discovery's  *)
(* at some time, and the controller it names at some time; if the stores   *)
(* did not change meanwhile, the two are one, and no ingress is a target   *)
(* of both discoveries.  The exceptions are the classic name "nginx",      *)
(* whoever serves it, and several default classes.                         *)
ServedByItsController ==
  /\ \A d \in Discoveries \ running : \A t \in target[d] :
       t.class \notin {None, "nginx"} =>
         /\ t.class \in Classes
         /\ t.controller \in served[d]
         /\ served[d] \cap ControllersOf(d) # {}
         /\ Settled(d) => t.controller \in ControllersOf(d)
  /\ (\A d \in Discoveries : Settled(d) /\ target[d] # {}) =>
       \/ getIngressClassName(ingress) = "nginx"
       \/ /\ getIngressClassName(ingress) = None
          /\ \E b, c \in Classes : b # c /\ class[b].default /\ class[c].default
=============================================================================
