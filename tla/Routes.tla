------------------------------- MODULE Routes -------------------------------
(***************************************************************************)
(* The HTTP routes that the discovery offers to the Envoy Gateway attacks  *)
(* (src/extenvoygateway/httproute_discovery.go): those that are attached   *)
(* to a gateway whose class is Envoy Gateway's.                            *)
(*                                                                         *)
(* Names and namespaces are numbers, which have an order.  A reference to  *)
(* a parent may leave out its kind and its namespace, may name another     *)
(* kind than a gateway, and may come several times.                        *)
(***************************************************************************)
EXTENDS Integers, Sequences, FiniteSets

CONSTANTS Namespaces, Names,   \* numbers
          Classes,             \* names of gateway classes
          Home,                \* the namespace of the route
          MaxParents           \* bound on the references of the route

RoutesAssumption ==
  Namespaces \subseteq Nat \ {0} /\ Names \subseteq Nat \ {0} /\ Home \in Namespaces

VARIABLES
  envoyClasses,  \* classes whose controllerName is Envoy Gateway's
  gatewayClass,  \* [<< namespace, name >> -> class name, or NoClass for no gateway]
  parentRefs     \* spec.parentRefs of the route

vars == << envoyClasses, gatewayClass, parentRefs >>

NoClass  == "none"
Unset    == 0
Gateways == Namespaces \X Names
ParentKinds    == {"", "Gateway", "Service"}
Refs     == [kind : ParentKinds, namespace : Namespaces \cup {Unset}, name : Names]

-----------------------------------------------------------------------------
(* Mutant: the namespace has to be there.                                  *)
parseQualifiedRef(ref) ==
  IF ref.kind \in {"", "Gateway"} /\ ref.namespace # Unset
  THEN {<< ref.namespace, ref.name >>} ELSE {}

(* The gateway of a reference, or none.                                    *)
parseGatewayParentRef(ref) ==
  IF ref.kind \in {"", "Gateway"}
  THEN {<< IF ref.namespace = Unset THEN Home ELSE ref.namespace, ref.name >>}
  ELSE {}

matching(refs) ==
  {g \in UNION {parseGatewayParentRef(refs[i]) : i \in DOMAIN refs} :
     g \in Gateways /\ gatewayClass[g] \in envoyClasses}

Before(g, h) == g[1] < h[1] \/ (g[1] = h[1] /\ g[2] < h[2])

(* Every gateway once, behind those that come before it; they stay aligned *)
(* with their namespaces.                                                  *)
sortAndCompact(gateways) ==
  [i \in 1 .. Cardinality(gateways) |->
     CHOOSE g \in gateways : Cardinality({h \in gateways : Before(h, g)}) = i - 1]

(* Mutant: in the order of the references.                                 *)
compactOnly(refs) ==
  LET gateways == matching(refs)
      first(g) == CHOOSE i \in DOMAIN refs :
                    /\ g \in parseGatewayParentRef(refs[i])
                    /\ \A j \in 1 .. i - 1 : g \notin parseGatewayParentRef(refs[j])
  IN  [i \in 1 .. Cardinality(gateways) |->
         CHOOSE g \in gateways : Cardinality({h \in gateways : first(h) < first(g)}) = i - 1]

resolveEnvoyGateways(refs) == sortAndCompact(matching(refs))

(* A target, or none; without an Envoy class routes are not looked at.     *)
DiscoverTargets(refs) ==
  LET gateways == resolveEnvoyGateways(refs)
  IN  IF envoyClasses = {} \/ gateways = << >> THEN {}
      ELSE {[gateway   |-> [i \in DOMAIN gateways |-> gateways[i][2]],
             namespace |-> [i \in DOMAIN gateways |-> gateways[i][1]],
             class     |-> gatewayClass[gateways[1]]]}

-----------------------------------------------------------------------------
Init ==
  /\ envoyClasses = {}
  /\ gatewayClass = [g \in Gateways |-> NoClass]
  /\ parentRefs = << >>

(* The informers deliver classes, gateways and the route (external).       *)
ClassChanges ==
  /\ \E c \in Classes : envoyClasses' = IF c \in envoyClasses THEN envoyClasses \ {c}
                                        ELSE envoyClasses \cup {c}
  /\ UNCHANGED << gatewayClass, parentRefs >>

GatewayChanges ==
  /\ \E g \in Gateways, c \in Classes \cup {NoClass} :
       gatewayClass' = [gatewayClass EXCEPT ![g] = c]
  /\ UNCHANGED << envoyClasses, parentRefs >>

RouteChanges ==
  /\ Len(parentRefs) < MaxParents
  /\ \E ref \in Refs : parentRefs' = Append(parentRefs, ref)
  /\ UNCHANGED << envoyClasses, gatewayClass >>

Next == ClassChanges \/ GatewayChanges \/ RouteChanges

Spec == Init /\ [][Next]_vars

-----------------------------------------------------------------------------
(* Properties                                                              *)

(* The gateway a reference means by the Gateway API: a kind that is left   *)
(* out is a gateway, a namespace that is left out is the route's.          *)
Means(ref, g) ==
  /\ ref.kind # "Service" /\ ref.name = g[2]
  /\ g[1] = Home \/ ref.namespace # Unset
  /\ ref.namespace # Unset => ref.namespace = g[1]

(* A route is a target if and only if one of its parents is a gateway of   *)
(* an Envoy class; the target lists each such gateway once, next to its    *)
(* namespace.                                                              *)
EnvoyRoutesAreTargets ==
  LET attached == {g \in Gateways : /\ gatewayClass[g] \in envoyClasses
                                    /\ \E i \in DOMAIN parentRefs : Means(parentRefs[i], g)}
      targets  == DiscoverTargets(parentRefs)
  IN  /\ targets = {} <=> attached = {}
      /\ \A t \in targets :
           /\ Len(t.gateway) = Cardinality(attached)
           /\ {<< t.namespace[i], t.gateway[i] >> : i \in DOMAIN t.gateway} = attached
           /\ \E g \in attached : t.class = gatewayClass[g]

(* "stable across discovery cycles" (httproute_discovery.go:166): the      *)
(* target is the same whatever the order of the references and however     *)
(* often one comes.                                                        *)
TargetIsStable ==
  \A i, j \in DOMAIN parentRefs :
    LET swapped == [parentRefs EXCEPT ![i] = parentRefs[j], ![j] = parentRefs[i]]
    IN  /\ DiscoverTargets(swapped) = DiscoverTargets(parentRefs)
        /\ DiscoverTargets(Append(parentRefs, parentRefs[i])) = DiscoverTargets(parentRefs)
=============================================================================
