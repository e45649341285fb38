----------------------------- MODULE MCDiscovery -----------------------------
(***************************************************************************)
(* What leads from the cluster to the targets, checked side by side: a     *)
(* behaviour is one of the part named by which - the hub that notifies the *)
(* discoveries, what the stores keep, the targets that are made of         *)
(* workloads, replica sets, routes and ingresses, and the check of the     *)
(* NGINX controllers.  The other parts' variables stay as they are.        *)
(***************************************************************************)
EXTENDS NotificationHub, TargetDiscovery, FiniteSets, TLC

CONSTANTS pod, route, podDiscovery, routeDiscovery, \* the hub
          setA, setB, setC,                         \* replica sets
          nginxA, nginxB                            \* NGINX controllers

MCTypesOf == [s \in Subscribers |-> IF s = podDiscovery THEN {pod} ELSE {pod, route}]
MCOrder   == << routeDiscovery, podDiscovery >>

VARIABLE listed

all == << vars, listed, discoveryVars >>

-----------------------------------------------------------------------------
(* Workloads: two pods, two replica sets of a deployment or of a rollout,  *)
(* a stateful set, and what was there under the same names before.         *)

Named(kind, name)   == [kind |-> kind, name |-> name]
Ref(kind, name, id) == [kind |-> kind, name |-> name, uid |-> id]
Plain ==
  [uid |-> 1, owners |-> << >>, excluded |-> FALSE, labels |-> {}, running |-> FALSE,
   ids |-> {}, node |-> "none"]
Running(owners, labels, ids) ==
  [Plain EXCEPT !.owners = owners, !.labels = labels, !.ids = ids, !.running = TRUE, !.node = "n"]

WorkloadVersions ==
  (Named("pod", "p") :>
     {Running(<< Ref("replicaset", "a", 1) >>, {"app"}, {"c"}),
      Running(<< Ref("job", "j", 1), Ref("replicaset", "b", 1) >>, {"app"}, {"c"}),
      Running(<< Ref("statefulset", "s", 1) >>, {}, {"c"}),
      [Running(<< Ref("replicaset", "a", 1) >>, {}, {}) EXCEPT !.running = FALSE],
      [Running(<< Ref("statefulset", "s", 1) >>, {}, {"c"}) EXCEPT !.excluded = TRUE]})
  @@ (Named("pod", "q") :>
     {Running(<< Ref("replicaset", "a", 1) >>, {"app"}, {"e"}),
      Running(<< Ref("statefulset", "s", 2) >>, {}, {"e"})})
  @@ (Named("replicaset", "a") :>
     {[Plain EXCEPT !.owners = << o >>] : o \in {Ref("deployment", "d", 1), Ref("rollout", "r", 1)}})
  @@ (Named("replicaset", "b") :>
     {[Plain EXCEPT !.owners = << Ref("deployment", "d", u) >>] : u \in {1, 2}})
  @@ (Named("deployment", "d")  :> {[Plain EXCEPT !.uid = u] : u \in {1, 2}})
  @@ (Named("statefulset", "s") :> {Plain})
  @@ (Named("rollout", "r")     :> {[Plain EXCEPT !.labels = {"app"}]})

Workloads == INSTANCE Workloads
               WITH store <- listed, Objects <- DOMAIN WorkloadVersions, Versions <- WorkloadVersions,
                    Services <- [s \in {"svc"} |-> {"app"}], MaxPodCount <- 1, ArgoEnabled <- TRUE

-----------------------------------------------------------------------------
(* Replica sets: two of one deployment or of none, and one of a deployment *)
(* with its name in another namespace.                                     *)

Deployment(namespace) == [name |-> "d", type |-> "deployment", namespace |-> namespace]
Here  == Deployment("here")
There == Deployment("there")
None  == [name |-> "", type |-> "", namespace |-> ""]

MCSets     == {setA, setB, setC}
MCOwners   == {Here, There}
MCVersions == [owner : {Here}, excluded : {FALSE}, revision : 0 .. 2]
                \cup {[owner |-> None, excluded |-> FALSE, revision |-> 1]}
MCListings ==
  {[s \in MCSets |-> CASE s = setA -> a [] s = setB -> b [] s = setC -> c] :
     a \in MCVersions, b \in MCVersions,
     c \in [owner : {There}, excluded : BOOLEAN, revision : {1}]}

-----------------------------------------------------------------------------
(* Ingresses, and the controllers of NGINX.                                *)

IngressOf(name, annotation, excluded) ==
  [name |-> name, annotation |-> annotation, excluded |-> excluded]

MCClassNames      == {"nginx", "x"}
MCControllerNames == {"haproxy.org/ingress-controller/haproxy", "k8s.io/ingress-nginx"}
MCIngresses ==
  {IngressOf("x", "none", FALSE), IngressOf("none", "x", FALSE), IngressOf("nginx", "x", FALSE),
   IngressOf("none", "none", FALSE), IngressOf("x", "nginx", TRUE)}

ControllerPod(namespace, labels, args, image, up) ==
  [namespace |-> namespace, labels |-> labels, args |-> args, image |-> image, running |-> up]
ClassOf(controller, operator, helm) ==
  [controller |-> controller, operator |-> operator, helm |-> helm]

MCPods        == {nginxA, nginxB}
MCPodVersions ==
  {ControllerPod("op", {"app"}, << "flag=mine" >>, "nginx", TRUE),
   ControllerPod("op", {"instance"}, << "flag", "mine" >>, "other", TRUE),
   ControllerPod("helm", {"name", "component"}, << "flag=mine" >>, "nginx", TRUE),
   ControllerPod("helm", {"name"}, << "flag=other" >>, "nginx", TRUE),
   ControllerPod("helm", {"app"}, << "flag=mine" >>, "nginx", FALSE)}
MCClassVersions ==
  {ClassOf("none", "none", "none"), ClassOf("haproxy.org/ingress-controller/haproxy", "op", "helm"),
   ClassOf("k8s.io/ingress-nginx", "none", "helm"),
   ClassOf("nginx.org/ingress-controller", "op", "helm")}
MCConfigs ==
  {<< "fails", "fails", "fails" >>, << "plain", "module", "fails" >>,
   << "fails", "fails", "module" >>, << "empty", "module", "module" >>}

ASSUME DiscoveryAssumption == Workloads!WorkloadsAssumption

-----------------------------------------------------------------------------
NoDiscovery ==
  NoField /\ NoRoute /\ NoSets /\ NoIngress /\ NoNginx /\ changes = No

(* The hub's variables stay in Init when it does not run.                  *)
MCInit ==
  /\ Init
  /\ \/ which = "hub" /\ listed = No /\ NoDiscovery
     \/ which = "workloads" /\ Workloads!Init /\ NoDiscovery
     \/ DiscoveryInit /\ listed = No

OnlyHub       == which = "hub" /\ UNCHANGED << listed, discoveryVars >>
OnlyWorkloads == which = "workloads" /\ UNCHANGED << vars, discoveryVars >>
OnlyDiscovery == UNCHANGED << vars, listed >>

MCNext ==
  \/ OnlyHub       /\ Next
  \/ OnlyWorkloads /\ Workloads!Next
  \/ OnlyDiscovery /\ DiscoveryNext

(* The fairness of the hub.                                                *)
MCFairness ==
  /\ \A k \in Kinds :
       /\ SF_all(OnlyHub /\ Lock(k)) /\ WF_all(OnlyHub /\ Send(k)) /\ WF_all(OnlyHub /\ Unlock(k))
       /\ SF_all(OnlyHub /\ Resync(k))
  /\ SF_all(OnlyHub /\ Notify) /\ WF_all(OnlyHub /\ Go) /\ WF_all(OnlyHub /\ Cache)
  /\ \A s \in Subscribers : WF_all(OnlyHub /\ Trigger(s)) /\ WF_all(OnlyHub /\ Refresh(s))

MCSpec == MCInit /\ [][MCNext]_all /\ MCFairness

-----------------------------------------------------------------------------
(* Properties; each is the one of its module, for the part that runs.      *)

(* Every change of a kind reaches the discoveries that name the kind.      *)
Seen(s, k)    == which = "hub" /\ view[s][k] >= MaxVersion
Changed(s, k) == which = "hub" /\ k \in TypesOf[s] /\ store[k] >= MaxVersion

ChangesArrive == \A s \in Subscribers, k \in Kinds : Changed(s, k) ~> Seen(s, k)

(* main sets all discoveries up, whatever the informers deliver meanwhile. *)
StartupCompletesUnderLoad == <>(which = "hub" => started = Len(Order))

(* The targets of pods, workloads, containers and nodes name each other.   *)
TargetsAgree == which = "workloads" => Workloads!TargetsAgree
=============================================================================
