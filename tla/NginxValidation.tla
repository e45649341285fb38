--------------------------- MODULE NginxValidation ---------------------------
(***************************************************************************)
(* What Prepare of the NGINX delay looks up before it delays anything:     *)
(* does a controller of the ingress' class load the sleep module?          *)
(* (src/extingress/nginx_sb_module_validation.go)                          *)
(*                                                                         *)
(* The class and its pods come from the informers' stores, in which a pod  *)
(* has lost the images of its containers.  The configuration of the pods   *)
(* is then read with one exec after the other, of one path of one pod      *)
(* each; any of them may fail, and the configuration may change between    *)
(* any two.                                                                *)
(***************************************************************************)
EXTENDS Integers, Sequences

CONSTANTS Pods,        \* in the namespaces the class' annotations name
          PodVersions, \* [namespace, labels, args, image, running], on the server
          ClassVersions, \* [controller, operator, helm], or NoIngressClass
          Configs,     \* [1 .. ConfigPaths -> Contents]
          MaxChanges   \* bound on the changes of the pods' configuration

NginxControllers == {"k8s.io/ingress-nginx", "nginx.org/ingress-controller"}

(* An annotation that is missing, or has no "/", names no namespace.       *)
NoIngressClass == [controller |-> "none", operator |-> "none", helm |-> "none"]

(* What "cat" makes of a path: an error, or a text.                        *)
Contents == {"fails", "empty", "plain", "module"}

ConfigPaths == 3

ValidationAssumption ==
  /\ MaxChanges \in Nat
  /\ Configs \subseteq [1 .. ConfigPaths -> Contents]
  /\ PodVersions \subseteq [namespace : STRING, labels : SUBSET STRING, args : Seq(STRING),
                            image : STRING, running : BOOLEAN]

VARIABLES
  ingressClass, \* the target's ingress class, as the store has it
  nginxPod,     \* [Pods -> what the server has of the pod]
  config,       \* [Pods -> what "cat" makes of each of the paths]
  validation,   \* [state, todo, pod, path]: the pods that are left to check; the one
                \* at hand, in a set, and how many of its paths could not be read
  changes,      \* number of changes of the configuration
  texts         \* history: [pods that were found -> what each path had since then]

vars == << ingressClass, nginxPod, config, validation, changes, texts >>

-----------------------------------------------------------------------------
(* transformPod keeps labels, names and arguments, not the images.         *)
Stored(p) == [nginxPod[p] EXCEPT !.image = "none"]

(* PodsByLabelSelector                                                     *)
Selected(namespace, selector) ==
  {p \in Pods : /\ Stored(p).running /\ Stored(p).namespace = namespace
                /\ selector \subseteq Stored(p).labels}

(* "-ingress-class=mine", or "-ingress-class" followed by "mine"           *)
podServesIngressClass(p) ==
  \E i \in DOMAIN Stored(p).args :
    \/ Stored(p).args[i] = "flag=mine"
    \/ /\ Stored(p).args[i] = "flag"
       /\ i < Len(Stored(p).args) /\ Stored(p).args[i + 1] = "mine"

isNginxControllerPod(p) == Stored(p).image = "nginx"

Serving(namespace, selector) ==
  {p \in Selected(namespace, selector) : podServesIngressClass(p) \/ isNginxControllerPod(p)}

(* The pods of the first selector that has any that serve the class.       *)
findPodsWithLabelSelectors(namespace, selectors) ==
  UNION {Serving(namespace, selectors[i]) :
           i \in {j \in DOMAIN selectors :
                   \A k \in 1 .. j - 1 : Serving(namespace, selectors[k]) = {}}}

(* The labels that have the deployment's, or the release's, name.          *)
OperatorSelectors == << {"app"}, {"name"}, {"instance"} >>
HelmSelectors == << {"instance"}, {"name", "component"}, {"name"}, {"app"} >>

(* operator and helm are the namespaces the annotations name; helm's is    *)
(* looked at if operator's leads nowhere.                                  *)
nginxPods ==
  LET operator == findPodsWithLabelSelectors(ingressClass.operator, OperatorSelectors)
  IN  IF operator # {} THEN operator
      ELSE findPodsWithLabelSelectors(ingressClass.helm, HelmSelectors)

(* Nothing has been read of the next pod.                                  *)
At(state, pods) == [state |-> state, todo |-> pods, pod |-> {}, path |-> 0]

Init ==
  /\ ingressClass \in ClassVersions
  /\ nginxPod \in [Pods -> PodVersions]
  /\ config \in [Pods -> Configs]
  /\ validation = At("idle", {})
  /\ changes = 0
  /\ texts = << >>

(* The stores are read at once; a class that is unknown or another         *)
(* controller's, or without annotations or pods, is refused.               *)
Find ==
  /\ validation.state = "idle"
  /\ LET pods == IF ingressClass.controller \in NginxControllers THEN nginxPods ELSE {}
     IN  /\ validation' = At(IF pods = {} THEN "refused" ELSE "checking", pods)
         /\ texts' = [p \in pods |-> [i \in 1 .. ConfigPaths |-> {config[p][i]}]]
  /\ UNCHANGED << ingressClass, nginxPod, config, changes >>

(* The pod at hand, or any that is left: a store lists them in no order.   *)
Asked == IF validation.pod = {} THEN validation.todo ELSE validation.pod

(* What "cat" makes of the next path of the pod.                           *)
Output(p) == config[p][validation.path + 1]

(* The first path that can be read decides; one pod is enough.             *)
Pass(p) ==
  /\ Output(p) = "module"
  /\ validation' = [validation EXCEPT !.state = "passed"]

NextPath(p) ==
  /\ Output(p) = "fails" /\ validation.path + 1 < ConfigPaths
  /\ validation' = [validation EXCEPT !.pod = {p}, !.path = validation.path + 1]

(* The module is missing, the text is empty or there is none.              *)
Unfit(p) ==
  \/ Output(p) \in {"plain", "empty"}
  \/ Output(p) = "fails" /\ validation.path + 1 = ConfigPaths

(* Mutant: a configuration that cannot be read ends the validation.        *)
GiveUp(p) ==
  /\ Unfit(p)
  /\ LET left == validation.todo \ {p}
     IN  validation' = At(IF left = {} \/ Output(p) # "plain" THEN "failed" ELSE "checking", left)

NextPod(p) ==
  /\ Unfit(p)
  /\ LET left == validation.todo \ {p}
     IN  validation' = At(IF left = {} THEN "failed" ELSE "checking", left)

(* One exec.                                                               *)
Check ==
  /\ validation.state = "checking"
  /\ \E p \in Asked : Pass(p) \/ NextPath(p) \/ NextPod(p)
  /\ UNCHANGED << ingressClass, nginxPod, config, changes, texts >>

(* A pod is configured anew, or stops or starts to answer (external).      *)
Reconfigure(p) ==
  /\ changes < MaxChanges /\ validation.state = "checking"
  /\ \E c \in Configs \ {config[p]} :
       /\ config' = [config EXCEPT ![p] = c]
       /\ texts' = [q \in DOMAIN texts |->
                      IF q = p THEN [i \in 1 .. ConfigPaths |-> texts[p][i] \cup {c[i]}]
                      ELSE texts[q]]
  /\ changes' = changes + 1
  /\ UNCHANGED << ingressClass, nginxPod, validation >>

(* The next execution is prepared.                                         *)
Again ==
  /\ validation.state \in {"passed", "failed", "refused"}
  /\ validation' = At("idle", {})
  /\ texts' = << >>
  /\ UNCHANGED << ingressClass, nginxPod, config, changes >>

Next == Find \/ Check \/ Again \/ \E p \in Pods : Reconfigure(p)

Spec == Init /\ [][Next]_vars

-----------------------------------------------------------------------------
(* Properties                                                              *)

(* A controller of the class, wherever it is labelled.                     *)
Controllers ==
  {p \in Pods : /\ nginxPod[p].running
                /\ nginxPod[p].namespace \in {ingressClass.operator, ingressClass.helm}
                /\ podServesIngressClass(p)}

(* The first path of the pod that can be read sometimes, or always, was i, *)
(* and had the module sometimes, or always.                                *)
MayLoad(p, i)     == "module" \in texts[p][i] /\ \A j \in 1 .. i - 1 : "fails" \in texts[p][j]
AlwaysLoads(p, i) == texts[p][i] = {"module"} /\ \A j \in 1 .. i - 1 : texts[p][j] = {"fails"}

(* The attack is let through only if a running controller of the class had *)
(* the module at a path, and could not be read at those before it, while   *)
(* the pods were checked, if not all at once.  It is kept away only if of  *)
(* none of the pods that were found the text that decides had the module   *)
(* all the time, however many execs into others fail; and no pod is found  *)
(* only if there is none with a label that is looked for.                  *)
ValidationIsEarned ==
  /\ validation.state = "passed" =>
       \E p \in Controllers \cap DOMAIN texts : \E i \in 1 .. ConfigPaths : MayLoad(p, i)
  /\ validation.state = "failed" =>
       \A p \in DOMAIN texts : \A i \in 1 .. ConfigPaths : ~AlwaysLoads(p, i)
  /\ validation.state = "refused" /\ ingressClass.controller \in NginxControllers
       => \A p \in Controllers : nginxPod[p].labels \cap {"app", "name", "instance"} = {}
=============================================================================
