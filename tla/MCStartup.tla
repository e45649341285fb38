----------------------------- MODULE MCStartup -----------------------------
(* What can be configured and refused in the model-checked instances.      *)
EXTENDS Startup

\* Two of the switches, the namespace filter and the memory statistics.
MCConfigs ==
  [disabled : SUBSET {"argo", "envoy"}, namespaced : BOOLEAN, memoryStats : BOOLEAN]

\* The optional permissions that decide about informers, in all combinations.
Deciding == {"namespaces/read", "ingresses/read", "ingressclasses/read",
             "httproutes/read", "rollouts/read"}

\* Everything but some of these, everything but one permission (a required
\* one included), and nothing that is optional.
MCGrants ==
  {Permissions \ refused : refused \in SUBSET Deciding}
    \cup {Permissions \ {p} : p \in Permissions}
    \cup {Required}

\* One configuration and two grants show what ends the process.
SmallConfigs == [disabled : {{}}, namespaced : BOOLEAN, memoryStats : BOOLEAN]
SmallGrants  == {Permissions, Permissions \ {"ingresses/read"}, Permissions \ {"nodes/read"}}
=============================================================================
