------------------------ MODULE TargetDiscoveryProofs ------------------------
(***************************************************************************)
(* Proofs about TargetDiscovery, for any routes, replica sets, ingresses,  *)
(* pods and configurations.  A behaviour runs one of the parts, each of    *)
(* which has an inductive invariant of its own; IInv puts them side by     *)
(* side.                                                                   *)
(***************************************************************************)
EXTENDS TargetDiscovery, Integers, Sequences, FiniteSetTheorems, TLAPS

-----------------------------------------------------------------------------
(* The targets.  A discovery under which the stores have not changed has   *)
(* chosen the ingress that is there, because of a class that is there, and *)
(* then has made its target of these.                                      *)
Name   == Targets!getIngressClassName(ingress)
Chosen(d) == Targets!isUsingClass(d, Name)

FilterIsCurrent(d) ==
  d \in running => \A i \in filtered[d] : i = ingress /\ Chosen(d)

TargetIsCurrent(d) ==
  d \notin running =>
    \A t \in target[d] :
      /\ Chosen(d)
      /\ t = [class |-> Name, controller |-> Targets!GetIngressControllerByClassName(Name)]

TargetsInv ==
  /\ filtered \in [Targets!Discoveries -> SUBSET Ingresses] /\ ingress \in Ingresses
  /\ DOMAIN target = Targets!Discoveries /\ DOMAIN served = Targets!Discoveries
  /\ class \in [ClassNames -> Targets!Versions]
  /\ \A d \in Targets!Discoveries : d \notin moved => FilterIsCurrent(d) /\ TargetIsCurrent(d)

LEMMA TargetsInit == Targets!Init => TargetsInv
BY DEF Targets!Init, TargetsInv, FilterIsCurrent, TargetIsCurrent

(* What a discovery chooses by depends on the stores alone.                *)
LEMMA ChosenStays ==
  ASSUME UNCHANGED << class, ingress >>
  PROVE  /\ Name' = Name
         /\ \A d : Chosen(d)' = Chosen(d)
         /\ Targets!GetIngressControllerByClassName(Name)'
              = Targets!GetIngressControllerByClassName(Name)
BY DEF Name, Chosen, Targets!isUsingClass, Targets!IngressClasses, Targets!hasDefaultClass,
       Targets!getIngressClassesForControllers, Targets!getIngressClassName,
       Targets!GetIngressControllerByClassName

LEMMA TargetsStep == TargetsInv /\ [Targets!Next]_Targets!vars => TargetsInv'
<1>. SUFFICES ASSUME TargetsInv, [Targets!Next]_Targets!vars PROVE TargetsInv'
  OBVIOUS
<1>1. CASE Targets!ClassChanges \/ Targets!IngressChanges
  <2>1. moved' = Targets!Discoveries /\ UNCHANGED << filtered, target >>
    BY <1>1 DEF Targets!ClassChanges, Targets!IngressChanges, Targets!Change
  <2>2. /\ ingress' \in Ingresses /\ class' \in [ClassNames -> Targets!Versions]
        /\ DOMAIN served' = Targets!Discoveries
    BY <1>1 DEF TargetsInv, Targets!ClassChanges, Targets!IngressChanges
  <2>. QED
    BY <2>1, <2>2 DEF TargetsInv
<1>2. ASSUME NEW d \in Targets!Discoveries, Targets!Filter(d)
      PROVE  TargetsInv'
  <2>1. /\ UNCHANGED << class, ingress, target >>
        /\ running' = running \cup {d} /\ moved' = moved \ {d} /\ d \notin running
        /\ filtered' = [filtered EXCEPT ![d] = {i \in {ingress} : ~i.excluded /\ Chosen(d)}]
        /\ DOMAIN served' = DOMAIN served
    <3>1. {i \in {ingress} : ~i.excluded /\ Targets!isUsingClass(d, Targets!getIngressClassName(i))}
            = {i \in {ingress} : ~i.excluded /\ Chosen(d)}
      BY DEF Chosen, Name
    <3>. QED
      BY <1>2, <3>1 DEF Targets!Filter
  <2>2. /\ filtered' \in [Targets!Discoveries -> SUBSET Ingresses]
        /\ filtered'[d] = {i \in {ingress} : ~i.excluded /\ Chosen(d)}
        /\ \A e \in Targets!Discoveries \ {d} : filtered'[e] = filtered[e]
    BY <2>1 DEF TargetsInv
  <2>3. ASSUME NEW e \in Targets!Discoveries, e \notin moved'
        PROVE  FilterIsCurrent(e)' /\ TargetIsCurrent(e)'
    BY <2>1, <2>2, <2>3, ChosenStays DEF TargetsInv, FilterIsCurrent, TargetIsCurrent
  <2>. QED
    BY <2>1, <2>2, <2>3 DEF TargetsInv
<1>3. ASSUME NEW d \in Targets!Discoveries, Targets!MakeTargets(d)
      PROVE  TargetsInv'
  <2>1. /\ UNCHANGED << class, ingress, served, moved >>
        /\ running' = running \ {d} /\ d \in running
        /\ filtered' = [filtered EXCEPT ![d] = {}]
    BY <1>3 DEF Targets!MakeTargets
  <2>2. /\ DOMAIN target' = Targets!Discoveries
        /\ \A e \in Targets!Discoveries \ {d} : target'[e] = target[e]
        /\ target'[d] =
             {[class      |-> Targets!getIngressClassName(i),
               controller |-> Targets!ControllerOf(i)] : i \in filtered[d]}
    BY <1>3 DEF Targets!MakeTargets, TargetsInv
  <2>3. ASSUME d \notin moved, NEW t \in target'[d]
        PROVE  /\ Chosen(d)
               /\ t = [class |-> Name,
                       controller |-> Targets!GetIngressControllerByClassName(Name)]
    BY <2>1, <2>2, <2>3 DEF TargetsInv, FilterIsCurrent, Name, Targets!ControllerOf
  <2>4. ASSUME NEW e \in Targets!Discoveries, e \notin moved'
        PROVE  FilterIsCurrent(e)' /\ TargetIsCurrent(e)'
    BY <2>1, <2>2, <2>3, <2>4, ChosenStays DEF TargetsInv, FilterIsCurrent, TargetIsCurrent
  <2>. QED
    BY <2>1, <2>2, <2>4 DEF TargetsInv
<1>4. CASE UNCHANGED Targets!vars
  BY <1>4, ChosenStays DEF Targets!vars, TargetsInv, FilterIsCurrent, TargetIsCurrent
<1>. QED
  BY <1>1, <1>2, <1>3, <1>4 DEF Targets!Next

(* Whatever moved meanwhile: the class of what a discovery has chosen had  *)
(* a controller of the discovery's, and the one it has now, during the run.*)
ByItsClass(d, name) ==
  name \notin {"none", "nginx"} =>
    name \in ClassNames /\ served[d] \cap Targets!ControllersOf(d) # {}

ServedInv ==
  \A d \in Targets!Discoveries :
    /\ \A i \in filtered[d] :
         /\ Targets!ControllerOf(i) \in served[d]
         /\ ByItsClass(d, Targets!getIngressClassName(i))
    /\ d \notin running =>
         \A t \in target[d] : t.controller \in served[d] /\ ByItsClass(d, t.class)

LEMMA ServedInit == Targets!Init => ServedInv
BY DEF Targets!Init, ServedInv

(* A class of the discovery's has a controller of the discovery's.         *)
LEMMA ClassOfDiscovery ==
  ASSUME NEW d \in Targets!Discoveries, NEW name, name \notin {"none", "nginx"},
         Targets!isUsingClass(d, name)
  PROVE  /\ name \in ClassNames
         /\ Targets!GetIngressControllerByClassName(name) \in Targets!ControllersOf(d)
BY DEF Targets!isUsingClass, Targets!IngressClasses, Targets!None,
       Targets!getIngressClassesForControllers, Targets!GetIngressControllerByClassName

LEMMA ServedStep == TargetsInv /\ ServedInv /\ [Targets!Next]_Targets!vars => ServedInv'
<1>. SUFFICES ASSUME TargetsInv, ServedInv, [Targets!Next]_Targets!vars PROVE ServedInv'
  OBVIOUS
<1>0. \A i : Targets!getIngressClassName(i)' = Targets!getIngressClassName(i)
  BY DEF Targets!getIngressClassName
<1>. USE DEF ServedInv, ByItsClass
<1>1. CASE Targets!ClassChanges
  <2>1. /\ UNCHANGED << filtered, running, target >>
        /\ \A d \in Targets!Discoveries :
             served'[d] = served[d] \cup {Targets!ControllerOf(i)' : i \in filtered[d]}
    BY <1>1 DEF Targets!ClassChanges, Targets!Change
  <2>. QED
    BY <1>0, <2>1
<1>2. CASE Targets!IngressChanges \/ UNCHANGED Targets!vars
  <2>1. UNCHANGED << class, filtered, running, target, served >>
    BY <1>2 DEF Targets!IngressChanges, Targets!Change, Targets!vars
  <2>2. \A i : Targets!ControllerOf(i)' = Targets!ControllerOf(i)
    BY <1>0, <2>1 DEF Targets!ControllerOf, Targets!GetIngressControllerByClassName
  <2>. QED
    BY <1>0, <2>1, <2>2
<1>3. ASSUME NEW d \in Targets!Discoveries, Targets!Filter(d)
      PROVE  ServedInv'
  <2>. DEFINE chosen == {i \in {ingress} : /\ ~i.excluded
                                           /\ Targets!isUsingClass(d, Targets!getIngressClassName(i))}
              controllers == {Targets!ControllerOf(i) : i \in filtered'[d]}
  <2>1. /\ UNCHANGED << class, target >> /\ running' = running \cup {d}
        /\ filtered' = [filtered EXCEPT ![d] = chosen]
        /\ served' = [served EXCEPT ![d] = controllers]
    BY <1>3 DEF Targets!Filter
  <2>2. \A i : Targets!ControllerOf(i)' = Targets!ControllerOf(i)
    BY <1>0, <2>1 DEF Targets!ControllerOf, Targets!GetIngressControllerByClassName
  <2>3. /\ filtered'[d] = chosen /\ served'[d] = controllers
        /\ \A e \in Targets!Discoveries \ {d} : filtered'[e] = filtered[e] /\ served'[e] = served[e]
    BY <2>1 DEF TargetsInv
  <2>4. ASSUME NEW i \in chosen
        PROVE  /\ Targets!ControllerOf(i) \in served'[d]
               /\ ByItsClass(d, Targets!getIngressClassName(i))'
    BY <1>0, <2>1, <2>3, ClassOfDiscovery DEF Targets!ControllerOf, Targets!ControllersOf
  <2>. QED
    BY <1>0, <2>1, <2>2, <2>3, <2>4
<1>4. ASSUME NEW d \in Targets!Discoveries, Targets!MakeTargets(d)
      PROVE  ServedInv'
  <2>1. /\ UNCHANGED << class, served >> /\ running' = running \ {d}
        /\ filtered' = [filtered EXCEPT ![d] = {}]
    BY <1>4 DEF Targets!MakeTargets
  <2>2. \A i : Targets!ControllerOf(i)' = Targets!ControllerOf(i)
    BY <1>0, <2>1 DEF Targets!ControllerOf, Targets!GetIngressControllerByClassName
  <2>3. /\ filtered'[d] = {}
        /\ \A e \in Targets!Discoveries \ {d} : filtered'[e] = filtered[e] /\ target'[e] = target[e]
        /\ target'[d] = {[class |-> Targets!getIngressClassName(i),
                          controller |-> Targets!ControllerOf(i)] : i \in filtered[d]}
    BY <1>4 DEF Targets!MakeTargets, TargetsInv
  <2>. QED
    BY <1>0, <2>1, <2>2, <2>3
<1>. QED
  BY <1>1, <1>2, <1>3, <1>4 DEF Targets!Next

(* So has the class by which it has chosen what is there now.              *)
LEMMA ChosenByClass ==
  ASSUME NEW d \in Targets!Discoveries, Chosen(d), Name \notin {"none", "nginx"}
  PROVE  /\ Name \in ClassNames
         /\ class[Name].controller \in Targets!ControllersOf(d)
BY ClassOfDiscovery DEF Chosen, Targets!GetIngressControllerByClassName

(* Without a class the ingress belongs to a default class.                 *)
LEMMA ChosenByDefault ==
  ASSUME NEW d \in Targets!Discoveries, Chosen(d), Name = "none"
  PROVE  \E c \in ClassNames : class[c].controller \in Targets!ControllersOf(d) /\ class[c].default
BY DEF Chosen, Targets!isUsingClass, Targets!hasDefaultClass, Targets!None,
       Targets!getIngressClassesForControllers

LEMMA NoCommonController ==
  Targets!ControllersOf("haproxy") \cap Targets!ControllersOf("nginx") = {}
BY DEF Targets!ControllersOf

LEMMA TargetsAreServed ==
  ASSUME TargetsInv, ServedInv
  PROVE  Targets!ServedByItsController
<1>. USE DEF Targets!Settled, Targets!None
<1>1. ASSUME NEW d \in Targets!Discoveries, Targets!Settled(d), NEW t \in target[d],
             t.class \notin {"none", "nginx"}
      PROVE  t.controller \in Targets!ControllersOf(d)
  <2>1. /\ Chosen(d)
        /\ t = [class |-> Name, controller |-> Targets!GetIngressControllerByClassName(Name)]
    BY <1>1 DEF TargetsInv, TargetIsCurrent
  <2>2. Name \in ClassNames /\ class[Name].controller \in Targets!ControllersOf(d)
    BY <1>1, <2>1, ChosenByClass
  <2>. QED
    BY <2>1, <2>2 DEF Targets!GetIngressControllerByClassName
<1>0. ASSUME NEW d \in Targets!Discoveries \ running, NEW t \in target[d],
             t.class \notin {"none", "nginx"}
      PROVE  /\ t.class \in ClassNames /\ t.controller \in served[d]
             /\ served[d] \cap Targets!ControllersOf(d) # {}
  BY <1>0 DEF ServedInv, ByItsClass
<1>2. ASSUME \A d \in Targets!Discoveries : Targets!Settled(d) /\ target[d] # {},
             Name # "nginx"
      PROVE  Name = "none" /\ \E a, b \in ClassNames : a # b /\ class[a].default /\ class[b].default
  <2>1. {"haproxy", "nginx"} = Targets!Discoveries
    BY DEF Targets!Discoveries
  <2>2. Chosen("haproxy") /\ Chosen("nginx")
    BY <1>2, <2>1 DEF TargetsInv, TargetIsCurrent
  <2>3. Name = "none"
    BY <1>2, <2>1, <2>2, ChosenByClass, NoCommonController
  <2>4. PICK a \in ClassNames :
          class[a].controller \in Targets!ControllersOf("haproxy") /\ class[a].default
    BY <2>1, <2>2, <2>3, ChosenByDefault
  <2>5. PICK b \in ClassNames :
          class[b].controller \in Targets!ControllersOf("nginx") /\ class[b].default
    BY <2>1, <2>2, <2>3, ChosenByDefault
  <2>6. a # b
    BY <2>4, <2>5, NoCommonController
  <2>. QED
    BY <2>3, <2>4, <2>5, <2>6
<1>. QED
  BY <1>0, <1>1, <1>2 DEF Targets!ServedByItsController, Name

-----------------------------------------------------------------------------
(* The NGINX controllers.  What the store has of a pod is what the server  *)
(* has, but for the images.                                                *)
LEMMA StoredPod ==
  ASSUME nginxPod \in [Pods -> PodVersions], NEW p \in Pods
  PROVE  /\ Nginx!Stored(p).namespace = nginxPod[p].namespace
         /\ Nginx!Stored(p).labels = nginxPod[p].labels
         /\ Nginx!Stored(p).running = nginxPod[p].running
         /\ Nginx!Stored(p).image = "none"
<1>1. nginxPod[p] \in [namespace : STRING, labels : SUBSET STRING, args : Seq(STRING),
                       image : STRING, running : BOOLEAN]
  BY TargetDiscoveryAssumption DEF Nginx!ValidationAssumption
<1>. QED
  BY <1>1 DEF Nginx!Stored

(* The lookups find controllers of the class only: the images, by which a  *)
(* pod of another class could pass, are not there.                         *)
LEMMA FoundAreControllers ==
  ASSUME nginxPod \in [Pods -> PodVersions]
  PROVE  Nginx!nginxPods \subseteq Nginx!Controllers
<1>1. ASSUME NEW namespace, NEW selectors, NEW p,
             p \in Nginx!findPodsWithLabelSelectors(namespace, selectors)
      PROVE  /\ p \in Pods /\ nginxPod[p].running /\ nginxPod[p].namespace = namespace
             /\ Nginx!podServesIngressClass(p)
  <2>1. PICK selector : p \in Nginx!Serving(namespace, selector)
    BY <1>1 DEF Nginx!findPodsWithLabelSelectors
  <2>2. /\ p \in Pods /\ Nginx!Stored(p).running /\ Nginx!Stored(p).namespace = namespace
        /\ Nginx!podServesIngressClass(p) \/ Nginx!isNginxControllerPod(p)
    BY <2>1 DEF Nginx!Serving, Nginx!Selected
  <2>. QED
    BY <2>2, StoredPod DEF Nginx!isNginxControllerPod
<1>. QED
  BY <1>1 DEF Nginx!nginxPods, Nginx!Controllers

(* When the lookups find nothing, none of their selectors has anything.    *)
LEMMA NoneServes ==
  ASSUME NEW namespace, NEW selectors,
         selectors \in {Nginx!OperatorSelectors, Nginx!HelmSelectors},
         Nginx!findPodsWithLabelSelectors(namespace, selectors) = {}
  PROVE  \A selector \in {{"app"}, {"name"}, {"instance"}} :
           Nginx!Serving(namespace, selector) = {}
<1>1. ASSUME NEW i \in DOMAIN selectors,
             \A k \in 1 .. i - 1 : Nginx!Serving(namespace, selectors[k]) = {}
      PROVE  Nginx!Serving(namespace, selectors[i]) = {}
  BY <1>1 DEF Nginx!findPodsWithLabelSelectors
<1>2. CASE selectors = Nginx!OperatorSelectors
  <2>1. /\ selectors[1] = {"app"} /\ selectors[2] = {"name"} /\ selectors[3] = {"instance"}
        /\ DOMAIN selectors = 1 .. 3
    BY <1>2 DEF Nginx!OperatorSelectors
  <2>2. Nginx!Serving(namespace, selectors[1]) = {}
    BY <1>1, <2>1
  <2>3. Nginx!Serving(namespace, selectors[2]) = {}
    BY <1>1, <2>1, <2>2
  <2>4. Nginx!Serving(namespace, selectors[3]) = {}
    BY <1>1, <2>1, <2>2, <2>3
  <2>. QED
    BY <2>1, <2>2, <2>3, <2>4
<1>3. CASE selectors = Nginx!HelmSelectors
  <2>1. /\ selectors[1] = {"instance"} /\ selectors[3] = {"name"} /\ selectors[4] = {"app"}
        /\ DOMAIN selectors = 1 .. 4
    BY <1>3 DEF Nginx!HelmSelectors
  <2>2. Nginx!Serving(namespace, selectors[1]) = {}
    BY <1>1, <2>1
  <2>3. Nginx!Serving(namespace, selectors[2]) = {}
    BY <1>1, <2>1, <2>2
  <2>4. Nginx!Serving(namespace, selectors[3]) = {}
    BY <1>1, <2>1, <2>2, <2>3
  <2>5. Nginx!Serving(namespace, selectors[4]) = {}
    BY <1>1, <2>1, <2>2, <2>3, <2>4
  <2>. QED
    BY <2>1, <2>2, <2>4, <2>5
<1>. QED
  BY <1>2, <1>3

LEMMA RefusedHasNone ==
  ASSUME nginxPod \in [Pods -> PodVersions],
         Nginx!nginxPods = {}, NEW p \in Nginx!Controllers
  PROVE  nginxPod[p].labels \cap {"app", "name", "instance"} = {}
<1>1. /\ Nginx!findPodsWithLabelSelectors(ingressClass.operator, Nginx!OperatorSelectors) = {}
      /\ Nginx!findPodsWithLabelSelectors(ingressClass.helm, Nginx!HelmSelectors) = {}
  BY DEF Nginx!nginxPods
<1>2. /\ p \in Pods /\ Nginx!Stored(p).running /\ Nginx!podServesIngressClass(p)
      /\ Nginx!Stored(p).namespace \in {ingressClass.operator, ingressClass.helm}
      /\ Nginx!Stored(p).labels = nginxPod[p].labels
  BY StoredPod DEF Nginx!Controllers
<1>3. ASSUME NEW selector \in {{"app"}, {"name"}, {"instance"}}
      PROVE  ~(selector \subseteq nginxPod[p].labels)
  <2>1. /\ Nginx!Serving(ingressClass.operator, selector) = {}
        /\ Nginx!Serving(ingressClass.helm, selector) = {}
    BY <1>1, NoneServes
  <2>. QED
    BY <1>2, <2>1 DEF Nginx!Serving, Nginx!Selected
<1>. QED
  BY <1>3

(* While the pods are checked, what is left are controllers that were      *)
(* found, those of which a text always decided for the module are still to *)
(* come, and the paths of the pod at hand that were tried could not be     *)
(* read.                                                                   *)
TextsAreSeen ==
  /\ texts \in [DOMAIN texts -> [1 .. Nginx!ConfigPaths -> SUBSET Nginx!Contents]]
  /\ \A p \in DOMAIN texts : \A i \in 1 .. Nginx!ConfigPaths : config[p][i] \in texts[p][i]

Tried ==
  /\ validation.path \in 0 .. Nginx!ConfigPaths - 1
  /\ validation.pod = {} => validation.path = 0
  /\ \A p \in validation.pod : \A i \in 1 .. validation.path : "fails" \in texts[p][i]

WhileChecking ==
  /\ validation.todo \subseteq Nginx!Controllers \cap DOMAIN texts /\ DOMAIN texts \subseteq Pods
  /\ validation.pod \subseteq validation.todo
  /\ \A p \in DOMAIN texts : \A i \in 1 .. Nginx!ConfigPaths :
       Nginx!AlwaysLoads(p, i) => p \in validation.todo
  /\ TextsAreSeen /\ Tried

Validations ==
  [state : {"idle", "checking", "passed", "failed", "refused"},
   todo : SUBSET Pods, pod : SUBSET Pods, path : Nat]

NginxInv ==
  /\ nginxPod \in [Pods -> PodVersions] /\ config \in [Pods -> Configs]
  /\ validation \in Validations
  /\ validation.state = "checking" => WhileChecking
  /\ Nginx!ValidationIsEarned

LEMMA AtIsValidation ==
  ASSUME NEW pods \in SUBSET Pods, NEW state \in {"idle", "checking", "failed", "refused"}
  PROVE  /\ Nginx!At(state, pods) \in Validations
         /\ Nginx!At(state, pods).state = state /\ Nginx!At(state, pods).todo = pods
         /\ Nginx!At(state, pods).pod = {} /\ Nginx!At(state, pods).path = 0
BY DEF Nginx!At, Validations

LEMMA NginxInit == Nginx!Init => NginxInv
<1>1. Nginx!At("idle", {}) \in Validations /\ Nginx!At("idle", {}).state = "idle"
  BY AtIsValidation
<1>. QED
  BY <1>1 DEF Nginx!Init, NginxInv, Nginx!ValidationIsEarned

(* Who is a controller of the class does not change during a validation.   *)
LEMMA ControllersStay ==
  ASSUME UNCHANGED << ingressClass, nginxPod >>
  PROVE  Nginx!Controllers' = Nginx!Controllers
BY DEF Nginx!Controllers, Nginx!podServesIngressClass, Nginx!Stored

(* One exec: what has been tried of the pod that is asked.                 *)
LEMMA AskedIsTried ==
  ASSUME NginxInv, validation.state = "checking", NEW p \in Nginx!Asked
  PROVE  /\ p \in validation.todo /\ p \in DOMAIN texts /\ p \in Nginx!Controllers
         /\ validation.path + 1 \in 1 .. Nginx!ConfigPaths
         /\ \A i \in 1 .. validation.path : "fails" \in texts[p][i]
         /\ Nginx!Output(p) \in texts[p][validation.path + 1]
<1>1. WhileChecking
  BY DEF NginxInv
<1>2. /\ p \in validation.todo /\ p \in DOMAIN texts /\ p \in Nginx!Controllers
      /\ p \in validation.pod \/ validation.pod = {}
  BY <1>1 DEF WhileChecking, Nginx!Asked
<1>3. validation.path + 1 \in 1 .. Nginx!ConfigPaths
  BY <1>1 DEF WhileChecking, Tried, Nginx!ConfigPaths
<1>4. \A i \in 1 .. validation.path : "fails" \in texts[p][i]
  BY <1>1, <1>2 DEF WhileChecking, Tried
<1>. QED
  BY <1>1, <1>2, <1>3, <1>4 DEF WhileChecking, TextsAreSeen, Nginx!Output

(* A pod in which nothing is found had no text that always decided for the *)
(* module.                                                                 *)
LEMMA UnfitNeverLoaded ==
  ASSUME NginxInv, validation.state = "checking", NEW p \in Nginx!Asked, Nginx!Unfit(p),
         NEW i \in 1 .. Nginx!ConfigPaths
  PROVE  ~Nginx!AlwaysLoads(p, i)
<1>. SUFFICES ASSUME Nginx!AlwaysLoads(p, i) PROVE FALSE
  OBVIOUS
<1>. DEFINE path == validation.path
<1>1. /\ path \in 0 .. Nginx!ConfigPaths - 1 /\ path \in Nat
      /\ Nginx!Output(p) \in texts[p][path + 1]
      /\ \A j \in 1 .. path : "fails" \in texts[p][j]
  BY AskedIsTried DEF NginxInv, WhileChecking, Tried, Nginx!ConfigPaths
<1>2. /\ texts[p][i] = {"module"}
      /\ \A j \in 1 .. i - 1 : texts[p][j] = {"fails"}
  BY DEF Nginx!AlwaysLoads
<1>3. ~(i <= path)
  BY <1>1, <1>2
<1>4. i # path + 1
  BY <1>1, <1>2 DEF Nginx!Unfit
<1>5. path + 1 \in 1 .. i - 1
  BY <1>1, <1>3, <1>4
<1>6. Nginx!Output(p) = "fails"
  BY <1>1, <1>2, <1>5
<1>7. path + 1 = Nginx!ConfigPaths
  BY <1>6 DEF Nginx!Unfit
<1>. QED
  BY <1>5, <1>7 DEF Nginx!ConfigPaths

LEMMA NginxFind == NginxInv /\ Nginx!Find => NginxInv'
<1>. SUFFICES ASSUME NginxInv, Nginx!Find PROVE NginxInv'
  OBVIOUS
<1>. DEFINE pods == IF ingressClass.controller \in Nginx!NginxControllers THEN Nginx!nginxPods
                    ELSE {}
<1>1. /\ validation' = Nginx!At(IF pods = {} THEN "refused" ELSE "checking", pods)
      /\ texts' = [p \in pods |-> [i \in 1 .. Nginx!ConfigPaths |-> {config[p][i]}]]
      /\ UNCHANGED << ingressClass, nginxPod, config >>
  BY DEF Nginx!Find
<1>2. Nginx!Controllers' = Nginx!Controllers
  BY <1>1, ControllersStay
<1>3. pods \subseteq Nginx!Controllers /\ pods \subseteq Pods
  BY FoundAreControllers DEF NginxInv, Nginx!Controllers
<1>4. TextsAreSeen'
  <2>1. \A p \in pods : \A i \in 1 .. Nginx!ConfigPaths : config[p][i] \in Nginx!Contents
    BY <1>3, TargetDiscoveryAssumption DEF NginxInv, Nginx!ValidationAssumption
  <2>. QED
    BY <1>1, <2>1 DEF TextsAreSeen
<1>. DEFINE state == IF pods = {} THEN "refused" ELSE "checking"
<1>a. /\ validation' \in Validations /\ validation'.state = state /\ validation'.todo = pods
      /\ validation'.pod = {} /\ validation'.path = 0
  BY <1>1, <1>3, AtIsValidation
<1>5. WhileChecking'
  BY <1>1, <1>2, <1>3, <1>4, <1>a DEF WhileChecking, Tried, Nginx!ConfigPaths
<1>6. ASSUME pods = {}, ingressClass.controller \in Nginx!NginxControllers,
             NEW p \in Nginx!Controllers
      PROVE  nginxPod[p].labels \cap {"app", "name", "instance"} = {}
  BY <1>6, RefusedHasNone DEF NginxInv
<1>7. Nginx!ValidationIsEarned'
  BY <1>1, <1>2, <1>6, <1>a DEF Nginx!ValidationIsEarned
<1>. QED
  BY <1>1, <1>5, <1>7, <1>a DEF NginxInv

LEMMA NginxCheck == NginxInv /\ Nginx!Check => NginxInv'
<1>. SUFFICES ASSUME NginxInv, Nginx!Check PROVE NginxInv'
  OBVIOUS
<1>0. validation \in Validations /\ config \in [Pods -> Configs]
  BY DEF NginxInv
<1>1. /\ validation.state = "checking" /\ WhileChecking
      /\ UNCHANGED << ingressClass, nginxPod, config, texts >>
  BY DEF Nginx!Check, NginxInv
<1>2. /\ Nginx!Controllers' = Nginx!Controllers /\ (TextsAreSeen' <=> TextsAreSeen)
      /\ \A p, i : Nginx!AlwaysLoads(p, i)' <=> Nginx!AlwaysLoads(p, i)
      /\ \A p, i : Nginx!MayLoad(p, i)' <=> Nginx!MayLoad(p, i)
  BY <1>1, ControllersStay DEF TextsAreSeen, Nginx!AlwaysLoads, Nginx!MayLoad
<1>3. PICK p \in Nginx!Asked : Nginx!Pass(p) \/ Nginx!NextPath(p) \/ Nginx!NextPod(p)
  BY DEF Nginx!Check
<1>4. /\ p \in validation.todo /\ p \in DOMAIN texts /\ p \in Nginx!Controllers /\ p \in Pods
      /\ validation.path + 1 \in 1 .. Nginx!ConfigPaths /\ validation.path \in Nat
      /\ \A i \in 1 .. validation.path : "fails" \in texts[p][i]
      /\ Nginx!Output(p) \in texts[p][validation.path + 1]
  BY <1>1, AskedIsTried DEF NginxInv, Validations
<1>5. CASE Nginx!Pass(p)
  <2>1. validation' = [validation EXCEPT !.state = "passed"] /\ Nginx!Output(p) = "module"
    BY <1>5 DEF Nginx!Pass
  <2>2. Nginx!MayLoad(p, validation.path + 1)
    BY <1>4, <2>1 DEF Nginx!MayLoad
  <2>3. validation' \in Validations /\ validation'.state = "passed"
    BY <1>0, <2>1 DEF Validations
  <2>4. Nginx!ValidationIsEarned'
    BY <1>1, <1>2, <1>4, <2>2, <2>3 DEF Nginx!ValidationIsEarned
  <2>. QED
    BY <1>1, <2>3, <2>4 DEF NginxInv
<1>6. CASE Nginx!NextPath(p)
  <2>1. /\ validation' = [validation EXCEPT !.pod = {p}, !.path = validation.path + 1]
        /\ Nginx!Output(p) = "fails" /\ validation.path + 1 < Nginx!ConfigPaths
    BY <1>6 DEF Nginx!NextPath
  <2>2. /\ validation' \in Validations /\ validation'.state = "checking"
        /\ validation'.todo = validation.todo /\ validation'.pod = {p}
        /\ validation'.path = validation.path + 1
    <3>. DEFINE next == validation.path + 1
    <3>1. next \in Nat /\ {p} \in SUBSET Pods
      BY <1>4
    <3>2. validation' = [validation EXCEPT !.pod = {p}, !.path = next]
      BY <2>1
    <3>. HIDE DEF next
    <3>3. /\ validation' \in Validations /\ validation'.state = validation.state
          /\ validation'.todo = validation.todo /\ validation'.pod = {p}
          /\ validation'.path = next
      BY <1>0, <3>1, <3>2 DEF Validations
    <3>. QED
      BY <1>1, <3>3 DEF next
  <2>3. \A i \in 1 .. validation.path + 1 : "fails" \in texts[p][i]
    BY <1>4, <2>1
  <2>4. Tried'
    BY <1>1, <1>4, <2>1, <2>2, <2>3 DEF Tried, Nginx!ConfigPaths
  <2>5. WhileChecking'
    BY <1>1, <1>2, <1>4, <2>2, <2>4 DEF WhileChecking
  <2>6. Nginx!ValidationIsEarned'
    BY <2>2 DEF Nginx!ValidationIsEarned
  <2>. QED
    BY <1>1, <2>2, <2>5, <2>6 DEF NginxInv
<1>7. CASE Nginx!NextPod(p)
  <2>. DEFINE others == validation.todo \ {p}
  <2>1. /\ validation' = Nginx!At(IF others = {} THEN "failed" ELSE "checking", others)
        /\ Nginx!Unfit(p)
    BY <1>7 DEF Nginx!NextPod
  <2>2. /\ validation'.state = (IF others = {} THEN "failed" ELSE "checking")
        /\ validation'.todo = others /\ validation'.pod = {} /\ validation'.path = 0
        /\ validation' \in Validations
    BY <1>1, <1>4, <2>1, AtIsValidation DEF WhileChecking, Nginx!Controllers
  <2>3. \A q \in DOMAIN texts : \A i \in 1 .. Nginx!ConfigPaths :
          Nginx!AlwaysLoads(q, i) => q \in others
    BY <1>1, <2>1, UnfitNeverLoaded DEF WhileChecking
  <2>4. Tried'
    BY <2>2 DEF Tried, Nginx!ConfigPaths
  <2>5. WhileChecking'
    BY <1>1, <1>2, <2>2, <2>3, <2>4 DEF WhileChecking
  <2>6. Nginx!ValidationIsEarned'
    BY <1>1, <1>2, <2>2, <2>3 DEF Nginx!ValidationIsEarned
  <2>. QED
    BY <1>1, <2>2, <2>5, <2>6 DEF NginxInv
<1>. QED
  BY <1>3, <1>5, <1>6, <1>7

LEMMA NginxReconfigure ==
  ASSUME NginxInv, NEW p \in Pods, Nginx!Reconfigure(p)
  PROVE  NginxInv'
<1>1. PICK c \in Configs :
        /\ config' = [config EXCEPT ![p] = c]
        /\ texts' = [q \in DOMAIN texts |->
                       IF q = p THEN [i \in 1 .. Nginx!ConfigPaths |-> texts[p][i] \cup {c[i]}]
                       ELSE texts[q]]
  BY DEF Nginx!Reconfigure
<1>2. /\ WhileChecking /\ validation.state = "checking"
      /\ UNCHANGED << ingressClass, nginxPod, validation >>
  BY DEF Nginx!Reconfigure, NginxInv
<1>3. Nginx!Controllers' = Nginx!Controllers
  BY <1>2, ControllersStay
<1>4. /\ config' \in [Pods -> Configs] /\ config'[p] = c
      /\ \A q \in Pods \ {p} : config'[q] = config[q]
      /\ \A i \in 1 .. Nginx!ConfigPaths : c[i] \in Nginx!Contents
  BY <1>1, TargetDiscoveryAssumption DEF NginxInv, Nginx!ValidationAssumption
<1>5. /\ texts \in [DOMAIN texts -> [1 .. Nginx!ConfigPaths -> SUBSET Nginx!Contents]]
      /\ DOMAIN texts \subseteq Pods
      /\ \A q \in DOMAIN texts : \A i \in 1 .. Nginx!ConfigPaths : config[q][i] \in texts[q][i]
  BY <1>2 DEF WhileChecking, TextsAreSeen
<1>6. /\ DOMAIN texts' = DOMAIN texts
      /\ texts' \in [DOMAIN texts -> [1 .. Nginx!ConfigPaths -> SUBSET Nginx!Contents]]
      /\ \A q \in DOMAIN texts : \A i \in 1 .. Nginx!ConfigPaths :
           texts'[q][i] = texts[q][i] \cup (IF q = p THEN {c[i]} ELSE {})
  <2>. DEFINE Texts == [1 .. Nginx!ConfigPaths -> SUBSET Nginx!Contents]
              seen == [i \in 1 .. Nginx!ConfigPaths |-> texts[p][i] \cup {c[i]}]
  <2>1. p \in DOMAIN texts => seen \in Texts
    BY <1>4, <1>5
  <2>2. \A q \in DOMAIN texts : texts[q] \in Texts
    BY <1>5
  <2>3. texts' = [q \in DOMAIN texts |-> IF q = p THEN seen ELSE texts[q]]
    BY <1>1
  <2>4. texts' \in [DOMAIN texts -> Texts]
    <3>. HIDE DEF Texts, seen
    <3>. QED
      BY <2>1, <2>2, <2>3
  <2>5. ASSUME NEW q \in DOMAIN texts, NEW i \in 1 .. Nginx!ConfigPaths
        PROVE  texts'[q][i] = texts[q][i] \cup (IF q = p THEN {c[i]} ELSE {})
    <3>1. CASE q = p
      BY <2>3, <3>1
    <3>2. CASE q # p
      BY <2>3, <3>2
    <3>. QED
      BY <3>1, <3>2
  <2>. QED
    BY <2>3, <2>4, <2>5
<1>7. TextsAreSeen'
  BY <1>4, <1>5, <1>6 DEF TextsAreSeen
<1>8. Tried'
  <2>1. /\ validation.pod \subseteq DOMAIN texts
        /\ \A i \in 1 .. validation.path : i \in 1 .. Nginx!ConfigPaths
    BY <1>2 DEF WhileChecking, Tried, Nginx!ConfigPaths
  <2>. QED
    BY <1>2, <1>6, <2>1 DEF WhileChecking, Tried
<1>9. ASSUME NEW q \in DOMAIN texts, NEW i \in 1 .. Nginx!ConfigPaths, Nginx!AlwaysLoads(q, i)'
      PROVE  Nginx!AlwaysLoads(q, i)
  <2>1. /\ texts'[q][i] = {"module"}
        /\ \A j \in 1 .. i - 1 : j \in 1 .. Nginx!ConfigPaths /\ texts'[q][j] = {"fails"}
    BY <1>9 DEF Nginx!AlwaysLoads, Nginx!ConfigPaths
  <2>2. \A j \in 1 .. Nginx!ConfigPaths : texts[q][j] # {} /\ texts[q][j] \subseteq texts'[q][j]
    BY <1>5, <1>6
  <2>. QED
    BY <2>1, <2>2 DEF Nginx!AlwaysLoads
<1>10. WhileChecking'
  BY <1>2, <1>3, <1>5, <1>6, <1>7, <1>8, <1>9 DEF WhileChecking
<1>11. Nginx!ValidationIsEarned'
  BY <1>2 DEF Nginx!ValidationIsEarned
<1>. QED
  BY <1>2, <1>4, <1>10, <1>11 DEF NginxInv

LEMMA NginxStep == NginxInv /\ [Nginx!Next]_Nginx!vars => NginxInv'
<1>. SUFFICES ASSUME NginxInv, [Nginx!Next]_Nginx!vars PROVE NginxInv'
  OBVIOUS
<1>1. CASE Nginx!Again
  <2>1. validation' = Nginx!At("idle", {}) /\ UNCHANGED << nginxPod, config >>
    BY <1>1 DEF Nginx!Again
  <2>2. validation' \in Validations /\ validation'.state = "idle"
    BY <2>1, AtIsValidation
  <2>. QED
    BY <2>1, <2>2 DEF NginxInv, Nginx!ValidationIsEarned
<1>2. CASE UNCHANGED Nginx!vars
  <2>1. UNCHANGED << ingressClass, nginxPod, config, validation, texts >>
    BY <1>2 DEF Nginx!vars
  <2>2. /\ Nginx!Controllers' = Nginx!Controllers
        /\ \A p, i : Nginx!AlwaysLoads(p, i)' <=> Nginx!AlwaysLoads(p, i)
        /\ \A p, i : Nginx!MayLoad(p, i)' <=> Nginx!MayLoad(p, i)
    BY <2>1, ControllersStay DEF Nginx!AlwaysLoads, Nginx!MayLoad
  <2>. QED
    BY <2>1, <2>2 DEF NginxInv, WhileChecking, TextsAreSeen, Tried, Nginx!ValidationIsEarned
<1>. QED
  BY <1>1, <1>2, NginxFind, NginxCheck, NginxReconfigure DEF Nginx!Next

-----------------------------------------------------------------------------
(* The replica sets.  While targets are made, the workloads they name are  *)
(* those that are in the stores; if none came or went meanwhile, replica   *)
(* sets of one workload name it all, or all do not.                        *)
Version == [owner : Owners \cup {Grouped!NoWorkload}, excluded : BOOLEAN, revision : Nat]

SetsTypeOK ==
  /\ listing \in [Sets -> Version]
  /\ owner \in [Sets -> Owners \cup {Grouped!NoWorkload}]
  /\ todo \subseteq left /\ left \subseteq Grouped!Listed
  /\ grouped \in [Grouped!Keys -> Sets \cup {Grouped!NoSet}]
  /\ resettled \in BOOLEAN

OwnersAreNamed ==
  /\ \A rs \in Sets : owner[rs] \in {listing[rs].owner, Grouped!NoWorkload}
  /\ ~resettled =>
       /\ todo # {} => \A rs \in Grouped!Listed \ todo :
            owner[rs] = IF listing[rs].owner \in present THEN listing[rs].owner
                        ELSE Grouped!NoWorkload
       /\ \A s, t \in Grouped!Listed \ todo :
            listing[s].owner = listing[t].owner => owner[s] = owner[t]

(* Grouping begins when all targets are made; of the ones that have been   *)
(* looked at, each group has the newest.                                   *)
InGroup(rs, k) ==
  /\ owner[rs] # Grouped!NoWorkload /\ Grouped!Revision(rs) # 0
  /\ Grouped!key(owner[rs]) = k

GroupsHaveNewest ==
  /\ todo # {} => left = Grouped!Listed
  /\ single \subseteq Grouped!Listed \ left
  /\ \A rs \in single : owner[rs] = Grouped!NoWorkload \/ Grouped!Revision(rs) = 0
  /\ \A k \in Grouped!Keys : grouped[k] # Grouped!NoSet =>
       grouped[k] \in Grouped!Listed \ left /\ InGroup(grouped[k], k)
  /\ \A rs \in (Grouped!Listed \ left) \ single :
       /\ InGroup(rs, Grouped!key(owner[rs]))
       /\ grouped[Grouped!key(owner[rs])] # Grouped!NoSet
       /\ Grouped!Revision(grouped[Grouped!key(owner[rs])]) >= Grouped!Revision(rs)

SetsInv == SetsTypeOK /\ OwnersAreNamed /\ GroupsHaveNewest

LEMMA SetsInit == Grouped!Init => SetsInv
<1>. SUFFICES ASSUME Grouped!Init PROVE SetsInv
  OBVIOUS
<1>1. /\ listing = [rs \in Sets |-> Grouped!Absent] /\ todo = {} /\ left = {}
      /\ owner = [rs \in Sets |-> Grouped!NoWorkload] /\ single = {}
      /\ grouped = [k \in Grouped!Keys |-> Grouped!NoSet] /\ resettled = FALSE
  BY DEF Grouped!Init, Grouped!NoGroups
<1>2. Grouped!Absent \in Version
  BY DEF Grouped!Absent, Version
<1>3. Grouped!Listed = {}
  BY <1>1 DEF Grouped!Listed, Grouped!Absent
<1>4. SetsTypeOK
  BY <1>1, <1>2, <1>3 DEF SetsTypeOK
<1>5. OwnersAreNamed
  BY <1>1, <1>3 DEF OwnersAreNamed
<1>6. GroupsHaveNewest
  BY <1>1, <1>3 DEF GroupsHaveNewest
<1>. QED
  BY <1>4, <1>5, <1>6 DEF SetsInv

(* Every workload has a key of its own.                                    *)
LEMMA KeyIsUnique ==
  ASSUME NEW v \in Owners, NEW w \in Owners, Grouped!key(v) = Grouped!key(w)
  PROVE  v = w
<1>1. Owners \subseteq [name : STRING, type : STRING, namespace : STRING]
  BY TargetDiscoveryAssumption DEF Grouped!ReplicaSetsAssumption
<1>2. v.name = w.name /\ v.type = w.type /\ v.namespace = w.namespace
  BY DEF Grouped!key
<1>. QED
  BY <1>1, <1>2

LEMMA SetsDiscover == SetsInv /\ Grouped!DiscoverTargets => SetsInv'
<1>. SUFFICES ASSUME SetsInv, Grouped!DiscoverTargets PROVE SetsInv'
  OBVIOUS
<1>1. /\ listing' \in Listings /\ todo' = Grouped!Listed' /\ left' = Grouped!Listed'
      /\ owner' = [rs \in Sets |-> Grouped!NoWorkload] /\ single' = {}
      /\ grouped' = [k \in Grouped!Keys |-> Grouped!NoSet] /\ resettled' = FALSE
  BY DEF Grouped!DiscoverTargets, Grouped!NoGroups
<1>2. listing' \in [Sets -> Version]
  BY <1>1, TargetDiscoveryAssumption DEF Grouped!ReplicaSetsAssumption, Version
<1>3. SetsTypeOK'
  BY <1>1, <1>2 DEF SetsTypeOK, Grouped!Keys, Grouped!key
<1>4. OwnersAreNamed'
  BY <1>1 DEF OwnersAreNamed, Grouped!Listed
<1>5. GroupsHaveNewest'
  BY <1>1 DEF GroupsHaveNewest, Grouped!Keys, Grouped!key
<1>. QED
  BY <1>3, <1>4, <1>5 DEF SetsInv

(* The listing stays until the next discovery.                             *)
LEMMA ListingStays ==
  ASSUME UNCHANGED listing
  PROVE  /\ Grouped!Listed' = Grouped!Listed
         /\ \A rs : Grouped!Revision(rs)' = Grouped!Revision(rs)
BY DEF Grouped!Listed, Grouped!Revision

LEMMA SetsMake ==
  ASSUME SetsInv, NEW rs \in Sets, Grouped!MakeTarget(rs)
  PROVE  SetsInv'
<1>. DEFINE named == IF listing[rs].owner \in present THEN listing[rs].owner
                     ELSE Grouped!NoWorkload
<1>1. /\ rs \in todo /\ todo' = todo \ {rs} /\ owner' = [owner EXCEPT ![rs] = named]
      /\ UNCHANGED << present, listing, left, single, grouped, resettled >>
  BY DEF Grouped!MakeTarget
<1>2. /\ Grouped!Listed' = Grouped!Listed
      /\ \A r : Grouped!Revision(r)' = Grouped!Revision(r)
  BY <1>1, ListingStays
<1>3. listing[rs].owner \in Owners \cup {Grouped!NoWorkload} /\ rs \in Grouped!Listed
  BY <1>1 DEF SetsInv, SetsTypeOK, Version
<1>4. /\ owner' \in [Sets -> Owners \cup {Grouped!NoWorkload}]
      /\ owner'[rs] = named /\ \A r \in Sets \ {rs} : owner'[r] = owner[r]
  BY <1>1, <1>3 DEF SetsInv, SetsTypeOK
<1>5. SetsTypeOK'
  BY <1>1, <1>2, <1>4 DEF SetsInv, SetsTypeOK, Grouped!Keys, Grouped!key
<1>6. Grouped!Listed \subseteq Sets /\ todo \subseteq Grouped!Listed
  BY DEF Grouped!Listed, SetsInv, SetsTypeOK
<1>7. OwnersAreNamed'
  <2>1. \A r \in Sets : owner'[r] \in {listing[r].owner, Grouped!NoWorkload}
    BY <1>4 DEF SetsInv, OwnersAreNamed
  <2>2. ASSUME ~resettled, NEW r \in Grouped!Listed \ todo'
        PROVE  owner'[r] = IF listing[r].owner \in present THEN listing[r].owner
                           ELSE Grouped!NoWorkload
    BY <1>1, <1>4, <1>6, <2>2 DEF SetsInv, OwnersAreNamed
  <2>3. ASSUME ~resettled, NEW s \in Grouped!Listed \ todo', NEW t \in Grouped!Listed \ todo',
               listing[s].owner = listing[t].owner
        PROVE  owner'[s] = owner'[t]
    BY <2>2, <2>3
  <2>. QED
    BY <1>1, <1>2, <2>1, <2>2, <2>3 DEF OwnersAreNamed
<1>8. GroupsHaveNewest'
  <2>1. left = Grouped!Listed
    BY <1>1 DEF SetsInv, GroupsHaveNewest
  <2>2. single = {} /\ \A k \in Grouped!Keys : grouped[k] = Grouped!NoSet
    BY <2>1 DEF SetsInv, GroupsHaveNewest
  <2>. QED
    BY <1>1, <1>2, <2>1, <2>2 DEF GroupsHaveNewest, Grouped!Keys, Grouped!key
<1>. QED
  BY <1>5, <1>7, <1>8 DEF SetsInv

LEMMA SetsGroup ==
  ASSUME SetsInv, NEW rs \in Sets, Grouped!Group(rs)
  PROVE  SetsInv'
<1>. DEFINE k == Grouped!key(owner[rs])
            alone == owner[rs] = Grouped!NoWorkload \/ Grouped!Revision(rs) = 0
<1>1. /\ todo = {} /\ rs \in left /\ left' = left \ {rs}
      /\ UNCHANGED << present, listing, todo, owner, resettled >>
  BY DEF Grouped!Group
<1>2. /\ Grouped!Listed' = Grouped!Listed
      /\ \A r : Grouped!Revision(r)' = Grouped!Revision(r)
      /\ \A r, j : InGroup(r, j)' <=> InGroup(r, j)
  BY <1>1, ListingStays DEF InGroup, Grouped!key
<1>3. /\ listing \in [Sets -> Version] /\ left \subseteq Grouped!Listed /\ Grouped!Listed \subseteq Sets
      /\ \A r \in Sets : Grouped!Revision(r) \in Nat
      /\ owner \in [Sets -> Owners \cup {Grouped!NoWorkload}]
      /\ grouped \in [Grouped!Keys -> Sets \cup {Grouped!NoSet}] /\ Grouped!NoSet \notin Sets
  BY TargetDiscoveryAssumption
     DEF SetsInv, SetsTypeOK, Grouped!Listed, Grouped!Revision, Version,
         Grouped!ReplicaSetsAssumption
<1>4. OwnersAreNamed'
  BY <1>1, <1>2 DEF SetsInv, OwnersAreNamed
<1>5. CASE alone
  <2>1. single' = single \cup {rs} /\ UNCHANGED grouped
    BY <1>5 DEF Grouped!Group
  <2>2. SetsTypeOK'
    BY <1>1, <1>2, <1>3, <2>1 DEF SetsInv, SetsTypeOK, Grouped!Keys, Grouped!key
  <2>3. GroupsHaveNewest'
    BY <1>1, <1>2, <1>3, <1>5, <2>1 DEF SetsInv, GroupsHaveNewest, Grouped!Keys, Grouped!key
  <2>. QED
    BY <1>4, <2>2, <2>3 DEF SetsInv
<1>6. CASE ~alone
  <2>. DEFINE best == IF grouped[k] = Grouped!NoSet THEN rs
                      ELSE IF Grouped!Revision(rs) > Grouped!Revision(grouped[k]) THEN rs
                      ELSE grouped[k]
  <2>1. grouped' = [grouped EXCEPT ![k] = best] /\ UNCHANGED single
    BY <1>6 DEF Grouped!Group
  <2>2. k \in Grouped!Keys /\ InGroup(rs, k)
    BY <1>3, <1>6 DEF Grouped!Keys, InGroup
  <2>3. /\ best \in Grouped!Listed \ left' /\ InGroup(best, k) /\ best # Grouped!NoSet
        /\ Grouped!Revision(best) >= Grouped!Revision(rs)
        /\ grouped[k] # Grouped!NoSet => Grouped!Revision(best) >= Grouped!Revision(grouped[k])
    BY <1>1, <1>3, <2>2 DEF SetsInv, GroupsHaveNewest
  <2>4. /\ grouped' \in [Grouped!Keys -> Sets \cup {Grouped!NoSet}]
        /\ grouped'[k] = best /\ \A j \in Grouped!Keys \ {k} : grouped'[j] = grouped[j]
    BY <1>3, <2>1, <2>2, <2>3
  <2>5. SetsTypeOK'
    BY <1>1, <1>2, <1>3, <2>4 DEF SetsInv, SetsTypeOK, Grouped!Keys, Grouped!key
  <2>6. ASSUME NEW j \in Grouped!Keys, grouped'[j] # Grouped!NoSet
        PROVE  grouped'[j] \in Grouped!Listed \ left' /\ InGroup(grouped'[j], j)
    BY <1>1, <2>3, <2>4, <2>6 DEF SetsInv, GroupsHaveNewest
  <2>7. ASSUME NEW r \in (Grouped!Listed \ left') \ single'
        PROVE  /\ InGroup(r, Grouped!key(owner[r]))
               /\ grouped'[Grouped!key(owner[r])] # Grouped!NoSet
               /\ Grouped!Revision(grouped'[Grouped!key(owner[r])]) >= Grouped!Revision(r)
    <3>1. CASE r = rs
      BY <2>2, <2>3, <2>4, <3>1
    <3>2. CASE r # rs
      <4>1. r \in (Grouped!Listed \ left) \ single
        BY <1>1, <2>1, <3>2
      <4>2. /\ InGroup(r, Grouped!key(owner[r])) /\ owner[r] \in Owners
            /\ grouped[Grouped!key(owner[r])] # Grouped!NoSet
            /\ Grouped!Revision(grouped[Grouped!key(owner[r])]) >= Grouped!Revision(r)
        BY <1>3, <4>1 DEF SetsInv, GroupsHaveNewest, InGroup
      <4>3. Grouped!key(owner[r]) \in Grouped!Keys
        BY <4>2 DEF Grouped!Keys
      <4>4. CASE Grouped!key(owner[r]) # k
        BY <2>4, <4>2, <4>3, <4>4
      <4>5. CASE Grouped!key(owner[r]) = k
        <5>1. /\ Grouped!Revision(r) \in Nat /\ Grouped!Revision(best) \in Nat
              /\ Grouped!Revision(grouped[k]) \in Nat
          BY <1>3, <2>2, <2>3, <4>1, <4>2, <4>5
        <5>. QED
          BY <2>3, <2>4, <4>2, <4>5, <5>1
      <4>. QED
        BY <4>4, <4>5
    <3>. QED
      BY <3>1, <3>2
  <2>8. GroupsHaveNewest'
    <3>1. Grouped!Keys' = Grouped!Keys /\ \A r : Grouped!key(owner[r])' = Grouped!key(owner[r])
      BY <1>1 DEF Grouped!Keys, Grouped!key
    <3>2. single' \subseteq Grouped!Listed \ left'
      BY <1>1, <2>1 DEF SetsInv, GroupsHaveNewest
    <3>. QED
      BY <1>1, <1>2, <2>1, <2>6, <2>7, <3>1, <3>2 DEF SetsInv, GroupsHaveNewest
  <2>. QED
    BY <1>4, <2>5, <2>8 DEF SetsInv
<1>. QED
  BY <1>5, <1>6

LEMMA SetsStep == SetsInv /\ [Grouped!Next]_Grouped!vars => SetsInv'
<1>. SUFFICES ASSUME SetsInv, [Grouped!Next]_Grouped!vars PROVE SetsInv'
  OBVIOUS
<1>1. CASE Grouped!WorkloadChanges \/ UNCHANGED Grouped!vars
  <2>1. /\ UNCHANGED << listing, todo, owner, left, single, grouped >>
        /\ \/ resettled' = (resettled \/ todo # {})
           \/ UNCHANGED << present, resettled >>
    BY <1>1 DEF Grouped!WorkloadChanges, Grouped!vars
  <2>2. /\ Grouped!Listed' = Grouped!Listed
        /\ \A r : Grouped!Revision(r)' = Grouped!Revision(r)
        /\ \A r, j : InGroup(r, j)' <=> InGroup(r, j)
        /\ \A r : Grouped!key(owner[r])' = Grouped!key(owner[r])
        /\ Grouped!Keys' = Grouped!Keys
    BY <2>1, ListingStays DEF InGroup, Grouped!Keys, Grouped!key
  <2>3. SetsTypeOK'
    BY <2>1, <2>2 DEF SetsInv, SetsTypeOK
  <2>4. OwnersAreNamed'
    <3>1. \A rs \in Sets : owner'[rs] \in {listing'[rs].owner, Grouped!NoWorkload}
      BY <2>1 DEF SetsInv, OwnersAreNamed
    <3>2. ASSUME ~resettled'
          PROVE  ~resettled /\ (todo = {} \/ UNCHANGED present)
      <4>1. CASE resettled' = (resettled \/ todo # {})
        BY <3>2, <4>1, Zenon
      <4>2. CASE UNCHANGED << present, resettled >>
        BY <3>2, <4>2, Zenon
      <4>. QED
        BY <2>1, <4>1, <4>2
    <3>3. ASSUME ~resettled', todo' # {}
          PROVE  \A rs \in Grouped!Listed' \ todo' :
                   owner'[rs] = IF listing'[rs].owner \in present' THEN listing'[rs].owner
                                ELSE Grouped!NoWorkload
      BY <2>1, <2>2, <3>2, <3>3 DEF SetsInv, OwnersAreNamed
    <3>4. ASSUME ~resettled'
          PROVE  \A s, t \in Grouped!Listed' \ todo' :
                   listing'[s].owner = listing'[t].owner => owner'[s] = owner'[t]
      BY <2>1, <2>2, <3>2, <3>4 DEF SetsInv, OwnersAreNamed
    <3>. QED
      BY <3>1, <3>3, <3>4 DEF OwnersAreNamed
  <2>5. GroupsHaveNewest'
    BY <2>1, <2>2 DEF SetsInv, GroupsHaveNewest
  <2>. QED
    BY <2>3, <2>4, <2>5 DEF SetsInv
<1>. QED
  BY <1>1, SetsDiscover, SetsMake, SetsGroup DEF Grouped!Next

LEMMA NewestIsTarget ==
  ASSUME SetsInv
  PROVE  Grouped!NewestReplicaSetIsTarget
<1>. SUFFICES ASSUME todo = {}, left = {}
              PROVE  /\ Grouped!Targets \subseteq Grouped!Listed
                     /\ \A rs \in Grouped!Listed \ Grouped!Targets :
                          \E t \in Grouped!Targets :
                            /\ Grouped!Siblings(rs, t)
                            /\ Grouped!Revision(t) >= Grouped!Revision(rs)
                     /\ \A s, t \in Grouped!Targets :
                          s # t /\ Grouped!Siblings(s, t) /\ owner[s] # Grouped!NoWorkload
                          => owner[t] = Grouped!NoWorkload /\ resettled
  BY DEF Grouped!NewestReplicaSetIsTarget, Grouped!Over
<1>0. Grouped!Listed \subseteq Sets /\ Grouped!NoWorkload \notin Owners
  BY TargetDiscoveryAssumption DEF Grouped!Listed, Grouped!ReplicaSetsAssumption
<1>1. Grouped!Targets \subseteq Grouped!Listed
  BY DEF Grouped!Targets, SetsInv, GroupsHaveNewest
(* A target of a group is the group's only one.                            *)
<1>2. ASSUME NEW t \in Grouped!Targets, owner[t] # Grouped!NoWorkload, Grouped!Revision(t) # 0
      PROVE  /\ owner[t] \in Owners /\ owner[t] = listing[t].owner
             /\ t = grouped[Grouped!key(owner[t])]
  <2>1. owner[t] \in Owners /\ owner[t] = listing[t].owner
    BY <1>0, <1>1, <1>2 DEF SetsInv, SetsTypeOK, OwnersAreNamed
  <2>2. t \notin single
    BY <1>2 DEF SetsInv, GroupsHaveNewest
  <2>3. PICK k \in Grouped!Keys : t = grouped[k] /\ t # Grouped!NoSet
    BY <2>2 DEF Grouped!Targets
  <2>4. Grouped!key(owner[t]) = k
    BY <2>3 DEF SetsInv, GroupsHaveNewest, InGroup
  <2>. QED
    BY <2>1, <2>3, <2>4
<1>3. ASSUME NEW rs \in Grouped!Listed \ Grouped!Targets
      PROVE  \E t \in Grouped!Targets :
               Grouped!Siblings(rs, t) /\ Grouped!Revision(t) >= Grouped!Revision(rs)
  <2>. DEFINE k == Grouped!key(owner[rs])
              t == grouped[k]
  <2>1. /\ InGroup(rs, k) /\ t # Grouped!NoSet
        /\ Grouped!Revision(t) >= Grouped!Revision(rs)
    BY <1>3 DEF SetsInv, GroupsHaveNewest, Grouped!Targets
  <2>2. owner[rs] \in Owners /\ owner[rs] = listing[rs].owner
    BY <1>0, <1>3, <2>1 DEF InGroup, SetsInv, SetsTypeOK, OwnersAreNamed
  <2>3. k \in Grouped!Keys
    BY <2>2 DEF Grouped!Keys
  <2>4. t \in Grouped!Targets /\ InGroup(t, k)
    BY <2>1, <2>3 DEF Grouped!Targets, SetsInv, GroupsHaveNewest
  <2>5. owner[t] \in Owners /\ owner[t] = listing[t].owner
    BY <1>2, <2>4 DEF InGroup
  <2>6. owner[t] = owner[rs]
    BY <2>2, <2>4, <2>5, KeyIsUnique DEF InGroup
  <2>7. Grouped!Siblings(rs, t)
    BY <1>0, <2>1, <2>2, <2>4, <2>5, <2>6 DEF Grouped!Siblings, InGroup
  <2>. QED
    BY <2>1, <2>4, <2>7
<1>4. ASSUME NEW s \in Grouped!Targets, NEW t \in Grouped!Targets,
             s # t, Grouped!Siblings(s, t), owner[s] # Grouped!NoWorkload
      PROVE  owner[t] = Grouped!NoWorkload /\ resettled
  <2>1. owner[s] = listing[s].owner /\ s = grouped[Grouped!key(owner[s])]
    BY <1>2, <1>4 DEF Grouped!Siblings
  <2>2. owner[t] = Grouped!NoWorkload
    <3>1. SUFFICES ASSUME owner[t] # Grouped!NoWorkload PROVE FALSE
      OBVIOUS
    <3>2. owner[t] = listing[t].owner /\ t = grouped[Grouped!key(owner[t])]
      BY <1>2, <1>4, <3>1 DEF Grouped!Siblings
    <3>. QED
      BY <1>4, <2>1, <3>2 DEF Grouped!Siblings
  <2>3. resettled
    BY <1>1, <1>4, <2>2 DEF SetsInv, SetsTypeOK, OwnersAreNamed, Grouped!Siblings
  <2>. QED
    BY <2>2, <2>3
<1>. QED
  BY <1>1, <1>3, <1>4

-----------------------------------------------------------------------------
(* The routes.  First the sort: the number of gateways before a gateway is *)
(* the place it gets, so every place is taken once.                        *)
Rank(S, g) == Cardinality({h \in S : Route!Before(h, g)})

LEMMA RanksGrow ==
  ASSUME NEW S, IsFiniteSet(S), S \subseteq Nat \X Nat,
         NEW g \in S, NEW h \in S, Route!Before(g, h)
  PROVE  Rank(S, g) < Rank(S, h)
<1>. DEFINE below(x) == {y \in S : Route!Before(y, x)}
<1>1. below(g) \subseteq below(h)
  BY DEF Route!Before
<1>2. g \in below(h) /\ g \notin below(g)
  BY DEF Route!Before
<1>3. IsFiniteSet(below(h)) /\ IsFiniteSet(below(g))
  BY FS_Subset
<1>4. /\ Cardinality(below(g)) <= Cardinality(below(h))
      /\ Cardinality(below(g)) # Cardinality(below(h))
  BY <1>1, <1>2, <1>3, FS_Subset
<1>5. Cardinality(below(g)) \in Nat /\ Cardinality(below(h)) \in Nat
  BY <1>3, FS_CardinalityType
<1>. QED
  BY <1>4, <1>5 DEF Rank

LEMMA RankIsBelowSize ==
  ASSUME NEW S, IsFiniteSet(S), S \subseteq Nat \X Nat, NEW g \in S
  PROVE  Rank(S, g) \in 0 .. Cardinality(S) - 1
<1>. DEFINE below == {y \in S : Route!Before(y, g)}
<1>1. below \subseteq S /\ g \notin below
  BY DEF Route!Before
<1>2. /\ Cardinality(below) <= Cardinality(S) /\ Cardinality(below) # Cardinality(S)
      /\ IsFiniteSet(below)
  BY <1>1, FS_Subset
<1>3. Cardinality(below) \in Nat /\ Cardinality(S) \in Nat
  BY <1>2, FS_CardinalityType
<1>. QED
  BY <1>2, <1>3 DEF Rank

LEMMA EveryRankIsTaken ==
  ASSUME NEW S, IsFiniteSet(S), S \subseteq Nat \X Nat, NEW n \in 0 .. Cardinality(S) - 1
  PROVE  \E g \in S : Rank(S, g) = n
<1>. DEFINE T == 0 .. Cardinality(S) - 1
            f == [g \in S |-> Rank(S, g)]
<1>1. Cardinality(S) \in Nat
  BY FS_CardinalityType
<1>2. IsFiniteSet(T) /\ Cardinality(T) = Cardinality(S)
  BY <1>1, FS_Interval
<1>3. f \in [S -> T]
  BY RankIsBelowSize
<1>4. ASSUME NEW g \in S, NEW h \in S, Rank(S, g) = Rank(S, h) PROVE g = h
  <2>1. Route!Before(g, h) \/ Route!Before(h, g) \/ g = h
    BY DEF Route!Before
  <2>2. Rank(S, g) \in Nat /\ Rank(S, h) \in Nat
    BY RankIsBelowSize
  <2>. QED
    BY <1>4, <2>1, <2>2, RanksGrow
<1>5. f \in Injection(S, T)
  BY <1>3, <1>4 DEF Injection, IsInjective
<1>6. f \in Surjection(S, T)
  BY <1>2, <1>5, FS_Injection
<1>. QED
  BY <1>6 DEF Surjection

(* The sorted gateways are those of the set, each at one place.            *)
LEMMA SortKeepsAll ==
  ASSUME NEW S, IsFiniteSet(S), S \subseteq Nat \X Nat
  PROVE  /\ DOMAIN Route!sortAndCompact(S) = 1 .. Cardinality(S)
         /\ \A i \in 1 .. Cardinality(S) : Route!sortAndCompact(S)[i] \in S
         /\ \A g \in S : \E i \in 1 .. Cardinality(S) : Route!sortAndCompact(S)[i] = g
<1>. DEFINE sorted == Route!sortAndCompact(S)
<1>0. Cardinality(S) \in Nat
  BY FS_CardinalityType
<1>1. sorted = [i \in 1 .. Cardinality(S) |-> CHOOSE g \in S : Rank(S, g) = i - 1]
  BY DEF Route!sortAndCompact, Rank, Cardinality, Route!Cardinality
<1>2. ASSUME NEW i \in 1 .. Cardinality(S)
      PROVE  sorted[i] \in S /\ Rank(S, sorted[i]) = i - 1
  <2>1. \E g \in S : Rank(S, g) = i - 1
    BY <1>0, EveryRankIsTaken
  <2>. QED
    BY <1>1, <2>1
<1>3. ASSUME NEW g \in S
      PROVE  \E i \in 1 .. Cardinality(S) : sorted[i] = g
  <2>1. Rank(S, g) \in 0 .. Cardinality(S) - 1
    BY RankIsBelowSize
  <2>2. PICK i \in 1 .. Cardinality(S) : i - 1 = Rank(S, g)
    BY <1>0, <2>1
  <2>3. sorted[i] \in S /\ Rank(S, sorted[i]) = Rank(S, g)
    BY <1>2, <2>2
  <2>4. ~Route!Before(g, sorted[i]) /\ ~Route!Before(sorted[i], g)
    <3>1. Rank(S, g) \in Nat
      BY <2>1
    <3>. QED
      BY <2>3, <3>1, RanksGrow
  <2>5. sorted[i] = g
    BY <2>3, <2>4 DEF Route!Before
  <2>. QED
    BY <2>5
<1>. QED
  BY <1>1, <1>2, <1>3

(* The gateways that a route's references mean are found, and no others.   *)
RouteInv == parentRefs \in Seq(Route!Refs)

Attached ==
  {g \in Route!Gateways : /\ gatewayClass[g] \in envoyClasses
                          /\ \E i \in DOMAIN parentRefs : Route!Means(parentRefs[i], g)}

LEMMA ParsedIsMeant ==
  ASSUME NEW ref \in Route!Refs, NEW g \in Route!Gateways
  PROVE  g \in Route!parseGatewayParentRef(ref) <=> Route!Means(ref, g)
<1>1. PICK a \in Namespaces, b \in Names : g = << a, b >>
  BY DEF Route!Gateways
<1>2. ref.kind \in {"", "Gateway", "Service"}
  BY DEF Route!Refs, Route!ParentKinds
<1>3. a # 0
  BY TargetDiscoveryAssumption DEF Route!RoutesAssumption
<1>4. CASE ref.kind = "Service"
  BY <1>4 DEF Route!parseGatewayParentRef, Route!Means
<1>5. CASE ref.kind # "Service"
  <2>. DEFINE namespace == IF ref.namespace = 0 THEN Home ELSE ref.namespace
  <2>1. g \in Route!parseGatewayParentRef(ref) <=> a = namespace /\ b = ref.name
    BY <1>1, <1>2, <1>5 DEF Route!parseGatewayParentRef, Route!Unset
  <2>2. Route!Means(ref, g) <=> b = ref.name /\ a = namespace
    BY <1>1, <1>3, <1>5 DEF Route!Means, Route!Unset
  <2>. QED
    BY <2>1, <2>2
<1>. QED
  BY <1>4, <1>5

LEMMA MatchingIsAttached ==
  ASSUME RouteInv
  PROVE  Route!matching(parentRefs) = Attached
<1>1. \A i \in DOMAIN parentRefs : parentRefs[i] \in Route!Refs
  BY DEF RouteInv
<1>2. ASSUME NEW g \in Route!Gateways
      PROVE  (\E i \in DOMAIN parentRefs : g \in Route!parseGatewayParentRef(parentRefs[i]))
               <=> \E i \in DOMAIN parentRefs : Route!Means(parentRefs[i], g)
  BY <1>1, ParsedIsMeant
<1>. QED
  BY <1>2 DEF Route!matching, Attached

LEMMA AttachedIsFinite ==
  ASSUME RouteInv
  PROVE  IsFiniteSet(Attached) /\ Attached \subseteq Nat \X Nat
<1>. DEFINE gateway(ref) ==
              << IF ref.namespace = Route!Unset THEN Home ELSE ref.namespace, ref.name >>
            f == [i \in DOMAIN parentRefs |-> gateway(parentRefs[i])]
            T == {f[i] : i \in DOMAIN parentRefs}
<1>1. IsFiniteSet(DOMAIN parentRefs)
  <2>1. DOMAIN parentRefs = 1 .. Len(parentRefs) /\ Len(parentRefs) \in Nat
    BY DEF RouteInv
  <2>. QED
    BY <2>1, FS_Interval
<1>2. f \in Surjection(DOMAIN parentRefs, T)
  BY DEF Surjection
<1>3. IsFiniteSet(T)
  BY <1>1, <1>2, FS_Surjection
<1>4. Attached \subseteq T
  <2>1. ASSUME NEW g \in Attached PROVE g \in T
    <3>1. g \in Route!matching(parentRefs)
      BY MatchingIsAttached
    <3>2. PICK i \in DOMAIN parentRefs : g \in Route!parseGatewayParentRef(parentRefs[i])
      BY <3>1 DEF Route!matching
    <3>3. g = f[i]
      BY <3>2 DEF Route!parseGatewayParentRef
    <3>. QED
      BY <3>3
  <2>. QED
    BY <2>1
<1>5. Attached \subseteq Nat \X Nat
  BY TargetDiscoveryAssumption DEF Attached, Route!Gateways, Route!RoutesAssumption
<1>. QED
  BY <1>3, <1>4, <1>5, FS_Subset

LEMMA TargetListsAttached ==
  ASSUME RouteInv
  PROVE  Route!EnvoyRoutesAreTargets
<1>. DEFINE gateways == Route!sortAndCompact(Attached)
            n == Cardinality(Attached)
            targets == Route!DiscoverTargets(parentRefs)
<1>0. IsFiniteSet(Attached) /\ Attached \subseteq Nat \X Nat /\ n \in Nat
  BY AttachedIsFinite, FS_CardinalityType
<1>1. /\ DOMAIN gateways = 1 .. n
      /\ \A i \in 1 .. n : gateways[i] \in Attached
      /\ \A g \in Attached : \E i \in 1 .. n : gateways[i] = g
  BY <1>0, SortKeepsAll
<1>2. n = 0 <=> Attached = {}
  BY <1>0, FS_EmptySet
<1>3. gateways = << >> <=> Attached = {}
  BY <1>0, <1>1, <1>2
<1>4. envoyClasses = {} => Attached = {}
  BY DEF Attached
<1>5. targets = IF Attached = {} THEN {}
                ELSE {[gateway   |-> [i \in 1 .. n |-> gateways[i][2]],
                       namespace |-> [i \in 1 .. n |-> gateways[i][1]],
                       class     |-> gatewayClass[gateways[1]]]}
  BY <1>1, <1>3, <1>4, MatchingIsAttached
     DEF Route!DiscoverTargets, Route!resolveEnvoyGateways
<1>6. ASSUME NEW t \in targets
      PROVE  /\ Len(t.gateway) = n
             /\ {<< t.namespace[i], t.gateway[i] >> : i \in DOMAIN t.gateway} = Attached
             /\ \E g \in Attached : t.class = gatewayClass[g]
  <2>1. /\ t.gateway = [i \in 1 .. n |-> gateways[i][2]]
        /\ t.namespace = [i \in 1 .. n |-> gateways[i][1]]
        /\ t.class = gatewayClass[gateways[1]] /\ n # 0
    <3>1. Attached # {}
      BY <1>5, <1>6
    <3>2. t = [gateway   |-> [i \in 1 .. n |-> gateways[i][2]],
               namespace |-> [i \in 1 .. n |-> gateways[i][1]],
               class     |-> gatewayClass[gateways[1]]]
      BY <1>5, <1>6, <3>1
    <3>. QED
      BY <1>2, <3>1, <3>2
  <2>2. Len(t.gateway) = n /\ DOMAIN t.gateway = 1 .. n
    BY <1>0, <2>1
  <2>3. \A i \in 1 .. n : << t.namespace[i], t.gateway[i] >> = gateways[i]
    BY <1>0, <1>1, <2>1
  <2>4. gateways[1] \in Attached
    BY <1>0, <1>1, <2>1
  <2>5. {<< t.namespace[i], t.gateway[i] >> : i \in DOMAIN t.gateway}
          = {gateways[i] : i \in 1 .. n}
    BY <2>2, <2>3
  <2>6. {gateways[i] : i \in 1 .. n} = Attached
    BY <1>1
  <2>. QED
    BY <2>1, <2>2, <2>4, <2>5, <2>6
<1>7. Route!Cardinality(Attached) = n
  BY DEF Route!Cardinality, Cardinality
<1>8. targets = {} <=> Attached = {}
  BY <1>5
<1>. QED
  BY <1>6, <1>7, <1>8 DEF Route!EnvoyRoutesAreTargets, Attached

(* Only which references there are decides on the target.                  *)
LEMMA SameReferencesSameTarget ==
  ASSUME NEW refs, NEW others,
         \A i \in DOMAIN refs : \E j \in DOMAIN others : refs[i] = others[j],
         \A j \in DOMAIN others : \E i \in DOMAIN refs : others[j] = refs[i]
  PROVE  Route!DiscoverTargets(refs) = Route!DiscoverTargets(others)
<1>1. ASSUME NEW g
      PROVE  (\E i \in DOMAIN refs : g \in Route!parseGatewayParentRef(refs[i]))
               <=> \E j \in DOMAIN others : g \in Route!parseGatewayParentRef(others[j])
  OBVIOUS
<1>2. Route!matching(refs) = Route!matching(others)
  BY <1>1 DEF Route!matching
<1>. QED
  BY <1>2 DEF Route!DiscoverTargets, Route!resolveEnvoyGateways

LEMMA OrderIsIgnored ==
  ASSUME RouteInv
  PROVE  Route!TargetIsStable
<1>. SUFFICES ASSUME NEW i \in DOMAIN parentRefs, NEW j \in DOMAIN parentRefs
              PROVE  /\ Route!DiscoverTargets([parentRefs EXCEPT ![i] = parentRefs[j],
                                                                 ![j] = parentRefs[i]])
                          = Route!DiscoverTargets(parentRefs)
                     /\ Route!DiscoverTargets(Append(parentRefs, parentRefs[i]))
                          = Route!DiscoverTargets(parentRefs)
  BY DEF Route!TargetIsStable
<1>. DEFINE swapped == [parentRefs EXCEPT ![i] = parentRefs[j], ![j] = parentRefs[i]]
            longer  == Append(parentRefs, parentRefs[i])
<1>0. parentRefs \in Seq(Route!Refs) /\ DOMAIN parentRefs = 1 .. Len(parentRefs)
      /\ Len(parentRefs) \in Nat
  BY DEF RouteInv
<1>1. /\ DOMAIN swapped = DOMAIN parentRefs
      /\ swapped[j] = parentRefs[i] /\ swapped[i] = parentRefs[j]
      /\ \A k \in DOMAIN parentRefs \ {i, j} : swapped[k] = parentRefs[k]
  BY <1>0
<1>2. /\ \A k \in DOMAIN swapped : \E l \in DOMAIN parentRefs : swapped[k] = parentRefs[l]
      /\ \A l \in DOMAIN parentRefs : \E k \in DOMAIN swapped : parentRefs[l] = swapped[k]
  BY <1>1
<1>3. /\ DOMAIN longer = 1 .. Len(parentRefs) + 1
      /\ longer[Len(parentRefs) + 1] = parentRefs[i]
      /\ \A k \in DOMAIN parentRefs : longer[k] = parentRefs[k]
  BY <1>0
<1>4. /\ \A k \in DOMAIN longer : \E l \in DOMAIN parentRefs : longer[k] = parentRefs[l]
      /\ \A l \in DOMAIN parentRefs : \E k \in DOMAIN longer : parentRefs[l] = longer[k]
  BY <1>0, <1>3
<1>5. Route!DiscoverTargets(swapped) = Route!DiscoverTargets(parentRefs)
  <2>. HIDE DEF swapped
  <2>. QED
    BY <1>2, SameReferencesSameTarget
<1>6. Route!DiscoverTargets(longer) = Route!DiscoverTargets(parentRefs)
  <2>. HIDE DEF longer
  <2>. QED
    BY <1>4, SameReferencesSameTarget
<1>. QED
  BY <1>5, <1>6

LEMMA RouteStep == RouteInv /\ [Route!Next]_Route!vars => RouteInv'
<1>. SUFFICES ASSUME RouteInv, [Route!Next]_Route!vars PROVE RouteInv'
  OBVIOUS
<1>1. \/ UNCHANGED parentRefs
      \/ \E ref \in Route!Refs : parentRefs' = Append(parentRefs, ref)
  BY DEF Route!Next, Route!vars, Route!ClassChanges, Route!GatewayChanges, Route!RouteChanges
<1>2. Route!Refs' = Route!Refs
  BY DEF Route!Refs, Route!ParentKinds, Route!Unset
<1>. QED
  BY <1>1, <1>2 DEF RouteInv

-----------------------------------------------------------------------------
(* The stores.  What is read, but for the fields that are forgotten, is    *)
(* kept by the transformer of its kind; the scoring writes nothing of it.  *)
KeptInv ==
  /\ kept = (IF field \in Kept!Kept THEN delivered ELSE Kept!Unset)
     \/ (field \in Kept!Stamped /\ kept = Kept!Written)

KeptOf(kind) ==
  CASE kind = "DaemonSet"   -> Kept!transformDaemonSet
    [] kind = "Deployment"  -> Kept!transformDeployment
    [] kind = "Pod"         -> Kept!transformPod
    [] kind = "Namespace"   -> Kept!transformNamespace
    [] kind = "Service"     -> Kept!transformService
    [] kind = "Event"       -> Kept!transformEvents
    [] kind = "Node"        -> Kept!transformNodes
    [] kind = "PodDisruptionBudget" -> Kept!transformPDB
    [] kind = "Ingress"     -> Kept!transformIngress
    [] kind = "IngressClass" -> Kept!transformIngressClass
    [] kind = "HorizontalPodAutoscaler" -> Kept!transformHPA
    [] kind = "StatefulSet" -> Kept!transformStatefulSet
    [] kind = "ReplicaSet"  -> Kept!transformReplicaSet
    [] OTHER -> {}

LEMMA KeptByKind ==
  ASSUME NEW kind
  PROVE  KeptOf(kind) \subseteq Kept!Kept
BY DEF KeptOf, Kept!Kept

(* What the discoveries read, kind by kind.                                *)
LEMMA DiscoveriesRead ==
  \A f \in Kept!Discoveries :
         \/ f \in [kind : {"Pod", "Deployment", "StatefulSet", "DaemonSet", "Ingress", "Namespace",
                           "Node"}, name : {"labels"}]
         \/ f \in Kept!Of("Pod", {"ownerReferences", "nodeName", "containerStatuses", "phase"})
         \/ f \in [kind : {"Deployment", "StatefulSet", "DaemonSet"}, name : {"spec"}]
         \/ f \in Kept!Of("ReplicaSet", {"ownerReferences"})
         \/ /\ ~disabled
            /\ f \in Kept!Of("ReplicaSet", {"labels", "annotations.revision", "spec"})
         \/ f \in Kept!Of("Service", {"selector"})
         \/ f \in Kept!Of("Node", {"addresses"})
         \/ f \in Kept!Of("HorizontalPodAutoscaler", {"scaleTargetRef", "minReplicas"})
         \/ f \in Kept!Of("PodDisruptionBudget", {"selector"})
         \/ f \in Kept!Of("Ingress", {"ingressClassName", "annotations.class", "rules"})
         \/ f \in Kept!Of("IngressClass", {"controller", "annotations.default"})
BY DEF Kept!Discoveries

LEMMA DiscoveriesAreKept == Kept!Discoveries \subseteq Kept!Kept
<1>. SUFFICES ASSUME NEW f \in Kept!Discoveries PROVE f \in KeptOf(f.kind)
  BY KeptByKind
<1>. USE DEF Kept!Of, Kept!Meta
<1>1. CASE f \in [kind : {"Pod", "Deployment", "StatefulSet", "DaemonSet", "Ingress", "Namespace", "Node"},
                  name : {"labels"}]
  BY <1>1 DEF KeptOf, Kept!transformPod, Kept!transformDeployment, Kept!transformStatefulSet,
              Kept!transformDaemonSet, Kept!transformIngress, Kept!transformNamespace,
              Kept!transformNodes
<1>2. CASE f \in Kept!Of("Pod", {"ownerReferences", "nodeName", "containerStatuses", "phase"})
  BY <1>2 DEF KeptOf, Kept!transformPod
<1>3. CASE f \in [kind : {"Deployment", "StatefulSet", "DaemonSet"}, name : {"spec"}]
  BY <1>3 DEF KeptOf, Kept!transformDeployment, Kept!transformStatefulSet, Kept!transformDaemonSet
<1>4. CASE \/ f \in Kept!Of("ReplicaSet", {"ownerReferences"})
           \/ /\ ~disabled
              /\ f \in Kept!Of("ReplicaSet", {"labels", "annotations.revision", "spec"})
  BY <1>4 DEF KeptOf, Kept!transformReplicaSet
<1>5. CASE f \in Kept!Of("Service", {"selector"})
  BY <1>5 DEF KeptOf, Kept!transformService
<1>6. CASE f \in Kept!Of("Node", {"addresses"})
  BY <1>6 DEF KeptOf, Kept!transformNodes
<1>7. CASE f \in Kept!Of("HorizontalPodAutoscaler", {"scaleTargetRef", "minReplicas"})
  BY <1>7 DEF KeptOf, Kept!transformHPA
<1>8. CASE f \in Kept!Of("PodDisruptionBudget", {"selector"})
  BY <1>8 DEF KeptOf, Kept!transformPDB
<1>9. CASE f \in Kept!Of("Ingress", {"ingressClassName", "annotations.class", "rules"})
  BY <1>9 DEF KeptOf, Kept!transformIngress
<1>10. CASE f \in Kept!Of("IngressClass", {"controller", "annotations.default"})
  BY <1>10 DEF KeptOf, Kept!transformIngressClass
<1>. QED
  BY <1>1, <1>2, <1>3, <1>4, <1>5, <1>6, <1>7, <1>8, <1>9, <1>10, DiscoveriesRead

LEMMA ActionsAreKept == Kept!Actions \subseteq Kept!Kept
<1>. SUFFICES ASSUME NEW f \in Kept!Actions PROVE f \in KeptOf(f.kind)
  BY KeptByKind
<1>. USE DEF Kept!Of, Kept!Meta
<1>1. CASE f \in Kept!Of("Deployment", {"spec", "readyReplicas"})
  BY <1>1 DEF KeptOf, Kept!transformDeployment
<1>2. CASE f \in Kept!Of("StatefulSet", {"spec", "readyReplicas"})
  BY <1>2 DEF KeptOf, Kept!transformStatefulSet
<1>3. CASE f \in Kept!Of("DaemonSet", {"desiredNumberScheduled", "numberReady"})
  BY <1>3 DEF KeptOf, Kept!transformDaemonSet
<1>4. CASE ~disabled /\ f \in Kept!Of("ReplicaSet", {"spec", "readyReplicas"})
  BY <1>4 DEF KeptOf, Kept!transformReplicaSet
<1>5. CASE f \in Kept!Of("Pod", {"hostPID", "containerStatuses"})
  BY <1>5 DEF KeptOf, Kept!transformPod
<1>6. CASE f \in Kept!Of("Node", {"conditions"})
  BY <1>6 DEF KeptOf, Kept!transformNodes
<1>7. CASE f \in Kept!Of("Event", {"lastTimestamp", "reason"})
  BY <1>7 DEF KeptOf, Kept!transformEvents
<1>. QED
  BY <1>1, <1>2, <1>3, <1>4, <1>5, <1>6, <1>7 DEF Kept!Actions

LEMMA ValidationIsKept == Kept!ModuleValidation \ Kept!Forgotten \subseteq Kept!Kept
<1>. SUFFICES ASSUME NEW f \in Kept!ModuleValidation \ Kept!Forgotten
              PROVE  f \in KeptOf(f.kind)
  BY KeptByKind
<1>. USE DEF Kept!Of, Kept!Meta
<1>1. CASE f \in Kept!Of("IngressClass", {"controller", "annotations.operator",
                                          "annotations.releaseNamespace", "annotations.releaseName"})
  BY <1>1 DEF KeptOf, Kept!transformIngressClass
<1>2. CASE f \in Kept!Of("Pod", {"labels", "phase", "container.name", "container.args",
                                 "container.image"})
  BY <1>2 DEF KeptOf, Kept!transformPod, Kept!Forgotten
<1>. QED
  BY <1>1, <1>2 DEF Kept!ModuleValidation

LEMMA MetricsAreKept == Kept!PodCountMetrics \ Kept!Forgotten \subseteq Kept!Kept
<1>. SUFFICES ASSUME NEW f \in Kept!PodCountMetrics \ Kept!Forgotten
              PROVE  f \in KeptOf(f.kind)
  BY KeptByKind
<1>. USE DEF Kept!Of, Kept!Meta
<1>1. f.kind \in {"Deployment", "StatefulSet"}
      /\ f.name \in {"spec", "replicas", "readyReplicas", "availableReplicas"}
      /\ f = [kind |-> f.kind, name |-> f.name]
  BY DEF Kept!PodCountMetrics
<1>2. CASE f.kind = "Deployment"
  BY <1>1, <1>2 DEF KeptOf, Kept!transformDeployment
<1>3. CASE f.kind = "StatefulSet"
  BY <1>1, <1>3 DEF KeptOf, Kept!transformStatefulSet, Kept!Forgotten
<1>. QED
  BY <1>1, <1>2, <1>3

LEMMA NothingReadIsStamped == Kept!Readers \cap Kept!Stamped = {}
<1>. SUFFICES ASSUME NEW f \in Kept!Readers PROVE f.name \notin {"typeMeta", "template.namespace"}
  BY DEF Kept!Stamped, Kept!Of
<1>. USE DEF Kept!Of
<1>1. CASE f \in Kept!Discoveries
  <2>1. \/ f.name \in {"labels", "ownerReferences", "nodeName", "containerStatuses", "phase"}
        \/ f.name \in {"annotations.revision", "spec", "selector", "addresses", "scaleTargetRef"}
        \/ f.name \in {"minReplicas", "ingressClassName", "annotations.class", "rules",
                       "controller", "annotations.default"}
    <3>1. CASE \/ f \in [kind : {"Pod", "Deployment", "StatefulSet", "DaemonSet", "Ingress",
                                 "Namespace", "Node"}, name : {"labels"}]
               \/ f \in [kind : {"Deployment", "StatefulSet", "DaemonSet"}, name : {"spec"}]
      BY <3>1
    <3>2. CASE \/ f \in Kept!Of("Pod", {"ownerReferences", "nodeName", "containerStatuses", "phase"})
               \/ f \in Kept!Of("ReplicaSet", {"ownerReferences"})
               \/ f \in Kept!Of("ReplicaSet", {"labels", "annotations.revision", "spec"})
      BY <3>2
    <3>3. CASE \/ f \in Kept!Of("Service", {"selector"}) \/ f \in Kept!Of("Node", {"addresses"})
               \/ f \in Kept!Of("HorizontalPodAutoscaler", {"scaleTargetRef", "minReplicas"})
               \/ f \in Kept!Of("PodDisruptionBudget", {"selector"})
      BY <3>3
    <3>4. CASE \/ f \in Kept!Of("Ingress", {"ingressClassName", "annotations.class", "rules"})
               \/ f \in Kept!Of("IngressClass", {"controller", "annotations.default"})
      BY <3>4
    <3>. QED
      BY <1>1, <3>1, <3>2, <3>3, <3>4, DiscoveriesRead
  <2>. QED
    BY <2>1
<1>2. CASE f \in Kept!Actions
  BY <1>2 DEF Kept!Actions
<1>3. CASE f \in Kept!ModuleValidation
  BY <1>3 DEF Kept!ModuleValidation
<1>4. CASE f \in Kept!PodCountMetrics
  BY <1>4 DEF Kept!PodCountMetrics
<1>. QED
  BY <1>1, <1>2, <1>3, <1>4 DEF Kept!Readers

LEMMA ReadersFindWhatCame ==
  ASSUME KeptInv
  PROVE  Kept!ReadersSeeTheServer
<1>1. ASSUME field \in Kept!Readers \ Kept!Forgotten
      PROVE  field \in Kept!Kept /\ field \notin Kept!Stamped
  <2>1. field \in Kept!Kept
    BY <1>1, DiscoveriesAreKept, ActionsAreKept, ValidationIsKept, MetricsAreKept DEF Kept!Readers
  <2>2. field \notin Kept!Stamped
    BY <1>1, NothingReadIsStamped
  <2>. QED
    BY <2>1, <2>2
<1>. QED
  BY <1>1 DEF KeptInv, Kept!ReadersSeeTheServer

(* What is kept depends on nothing but the configuration.                  *)
LEMMA KeptStays ==
  ASSUME UNCHANGED disabled
  PROVE  Kept!Kept' = Kept!Kept /\ Kept!Stamped' = Kept!Stamped
BY DEF Kept!Kept, Kept!Stamped, Kept!transformReplicaSet, Kept!Of, Kept!Meta,
       Kept!transformDaemonSet, Kept!transformDeployment, Kept!transformPod,
       Kept!transformNamespace, Kept!transformService, Kept!transformEvents,
       Kept!transformNodes, Kept!transformPDB, Kept!transformIngress,
       Kept!transformIngressClass, Kept!transformHPA, Kept!transformStatefulSet

LEMMA KeptStep == KeptInv /\ [Kept!Next]_Kept!vars => KeptInv'
<1>. SUFFICES ASSUME KeptInv, [Kept!Next]_Kept!vars PROVE KeptInv'
  OBVIOUS
<1>1. UNCHANGED << field, disabled >>
  BY DEF Kept!Next, Kept!Change, Kept!Deliver, Kept!Score, Kept!vars
<1>2. Kept!Kept' = Kept!Kept /\ Kept!Stamped' = Kept!Stamped
  BY <1>1, KeptStays
<1>3. \/ UNCHANGED << delivered, kept >>
      \/ kept' = IF field \in Kept!Kept THEN delivered' ELSE Kept!Unset
      \/ field \in Kept!Stamped /\ kept' = Kept!Written
  BY DEF Kept!Next, Kept!Change, Kept!Deliver, Kept!Score, Kept!vars
<1>. QED
  BY <1>1, <1>2, <1>3 DEF KeptInv, Kept!Unset, Kept!Written

-----------------------------------------------------------------------------
(* The parts, side by side.                                                *)
IInv ==
  /\ which = "stores" => KeptInv
  /\ which = "routes" => RouteInv
  /\ which = "replicasets" => SetsInv
  /\ which = "ingresses" => TargetsInv /\ ServedInv
  /\ which = "nginx" => NginxInv

LEMMA InitIInv == DiscoveryInit => IInv
<1>1. Kept!Init => KeptInv
  BY DEF Kept!Init, KeptInv
<1>2. Route!Init => RouteInv
  BY DEF Route!Init, RouteInv
<1>. QED
  BY <1>1, <1>2, SetsInit, TargetsInit, ServedInit, NginxInit DEF DiscoveryInit, IInv

LEMMA NextIInv == IInv /\ [DiscoveryNext]_discoveryVars => IInv'
<1>. SUFFICES ASSUME IInv, [DiscoveryNext]_discoveryVars PROVE IInv'
  OBVIOUS
<1>. USE DEF DiscoveryNext, OnlyKept, OnlyRoute, OnlySets, OnlyTargets, OnlyNginx, discoveryVars
<1>1. which' = which
  OBVIOUS
<1>2. CASE which = "stores"
  <2>1. [Kept!Next]_Kept!vars
    BY <1>2 DEF keptVars, Kept!vars
  <2>. QED
    BY <1>1, <1>2, <2>1, KeptStep DEF IInv
<1>3. CASE which = "routes"
  <2>1. [Route!Next]_Route!vars
    BY <1>3 DEF routeVars, Route!vars
  <2>. QED
    BY <1>1, <1>3, <2>1, RouteStep DEF IInv
<1>4. CASE which = "replicasets"
  <2>1. [Grouped!Next]_Grouped!vars
    BY <1>4 DEF setVars, Grouped!vars
  <2>. QED
    BY <1>1, <1>4, <2>1, SetsStep DEF IInv
<1>5. CASE which = "ingresses"
  <2>1. [Targets!Next]_Targets!vars
    BY <1>5 DEF ingressVars, Targets!vars
  <2>. QED
    BY <1>1, <1>5, <2>1, TargetsStep, ServedStep DEF IInv
<1>6. CASE which = "nginx"
  <2>1. [Nginx!Next]_Nginx!vars
    BY <1>6 DEF nginxVars, Nginx!vars
  <2>. QED
    BY <1>1, <1>6, <2>1, NginxStep DEF IInv
<1>. QED
  BY <1>1, <1>2, <1>3, <1>4, <1>5, <1>6 DEF IInv

(* Whatever the configuration and the field: a reader of a store finds the *)
(* value that came from the API server, but for two fields of stateful     *)
(* sets and the images of pods.                                            *)
THEOREM ReadersAreServed == DiscoverySpec => []ReadersSeeTheServer
<1>1. IInv => ReadersSeeTheServer
  BY ReadersFindWhatCame DEF IInv, ReadersSeeTheServer
<1>. QED
  BY <1>1, InitIInv, NextIInv, PTL DEF DiscoverySpec

(* For any number of classes, gateways and references, a route is a target *)
(* if and only if it is attached to a gateway of an Envoy class, and the   *)
(* target lists each of these gateways once, next to its namespace.        *)
THEOREM AttachedRoutesAreTargets == DiscoverySpec => []EnvoyRoutesAreTargets
<1>1. IInv => EnvoyRoutesAreTargets
  BY TargetListsAttached DEF IInv, EnvoyRoutesAreTargets
<1>. QED
  BY <1>1, InitIInv, NextIInv, PTL DEF DiscoverySpec

(* References that change places or come again make the same target.       *)
THEOREM OrderNeverMatters == DiscoverySpec => []TargetIsStable
<1>1. IInv => TargetIsStable
  BY OrderIsIgnored DEF IInv, TargetIsStable
<1>. QED
  BY <1>1, InitIInv, NextIInv, PTL DEF DiscoverySpec

(* For any replica sets and workloads, in whatever order they are looked   *)
(* at and while workloads come and go: a replica set gives way only to one *)
(* of its workload that is as new, and no workload has two targets that    *)
(* name it.                                                                *)
THEOREM OnlyNewestIsTarget == DiscoverySpec => []NewestReplicaSetIsTarget
<1>1. IInv => NewestReplicaSetIsTarget
  BY NewestIsTarget DEF IInv, NewestReplicaSetIsTarget
<1>. QED
  BY <1>1, InitIInv, NextIInv, PTL DEF DiscoverySpec

(* For any classes and changes of them: the class of a target that a       *)
(* discovery has made had a controller of the discovery's, and the one the *)
(* target names, while it ran.  If the stores stood still meanwhile, the   *)
(* two are one, and no ingress is a target of both discoveries unless its  *)
(* class has the classic name or two classes claim to be the default.      *)
THEOREM ControllerServesTarget == DiscoverySpec => []ServedByItsController
<1>1. IInv => ServedByItsController
  BY TargetsAreServed DEF IInv, ServedByItsController
<1>. QED
  BY <1>1, InitIInv, NextIInv, PTL DEF DiscoverySpec

(* A delay is let through only if a running controller of the class had    *)
(* the module during the validation.  It fails only if none of the         *)
(* controllers that were found had the module all the time, and for want   *)
(* of pods only if no controller has one of the labels that are looked for.*)
THEOREM OutcomeIsEarned == DiscoverySpec => []ValidationIsEarned
<1>1. IInv => ValidationIsEarned
  BY DEF IInv, NginxInv, ValidationIsEarned
<1>. QED
  BY <1>1, InitIInv, NextIInv, PTL DEF DiscoverySpec
=============================================================================
