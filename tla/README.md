# A formal model of extension-kubernetes

TLA+ modules that model the parts of the Steadybit Kubernetes extension whose
behaviour is hard to test, TLC configurations that check them on small
instances, and TLAPS proofs for every instance. Paths are relative to `src/`.

## 1. The system

The extension is one Go process next to a Kubernetes cluster. The Steadybit
platform calls it over HTTP:

* **actions** (attacks and checks) have the handlers `Prepare`, `Start`,
  `Status` and `Stop`. The platform keeps the action's state between the calls
  and hands it to the next one; a call that fails leaves the state as it was.
  Handlers of different executions run in goroutines side by side.
* **discoveries** report targets. Each is cached and refreshed when the
  cluster changes.

Both read the cluster through informers (caches that lag behind the API server)
and change it through the API server, directly or with `kubectl` processes.

### Inventory

| Component | State it keeps | Operations | What is hard | What makes it correct |
|---|---|---|---|---|
| Annotation editing (`client/client.go`) | text of an annotation | prepend a block, remove a block | any order of additions and removals, blank lines | only the block's own lines go, the other blocks stay whole |
| Ingress traffic attacks (`extingress`) | annotations on the API server, handlers' copies | Prepare, Start (read-modify-write loop, then the controller's events), Stop (loop) | concurrent writers, conflicts, lost answers, restarts, checks in Prepare used in Start | no lost update, no block left after Stop, delay and block never together, loops end |
| Kubectl actions (`extcommon/action_kubectl.go` with providers in `extdeployment`, `extnode`, `extpod`) | platform's action state, in-memory command states, processes | Prepare, Start, Status, Stop with precondition and rollback | kill against a request under way, restart, stale cache, rollback that fails or is repeated | the target is restored, success is real, ends are reported |
| Scale variants (`extstatefulset`, `extreplicaset`, `extargorollout`) | as above | options providers | as above | as above |
| Pod count check (`extcommon/pod_count_check.go`) | deadline, initial count, remembered violation, last metrics | Prepare, Start, Status | counts change between calls, verdict at the deadline, metrics left out | the verdict agrees with what the calls saw |
| Node count check (`extnode/node_count_check.go`) | deadline, initial count | Prepare, Start, Status | a count that overshoots between two calls | the verdict is that of the first call that saw the condition, or of the deadline |
| Rollout check and restarts (`extdeployment`, `extargorollout`) | deadline, whether to wait | Prepare, Start, Status through `kubectl rollout` or a patch | a controller that has not seen the change yet, other writers | a restart that has waited is over when its change is rolled out |
| Pod count metrics (`extdeployment/pod_count_metrics.go`) | last counts sent | Prepare, Start, Status | unchanged counts are left out | the widget shows the present counts |
| Events log (`extevents/events.go`) | offset in time | Prepare, Start, Status, Stop | an informer that lags, lost answers, seconds against nanoseconds | each event is sent, and not again and again |
| Crash loop attack (`extpod/attack_cause_crashloop.go`) | pod and container names | Prepare, Start, Status | kills decided on a stale container status | the container is killed again after each restart |
| Envoy Gateway attacks (`extenvoygateway`) | policies on the API server | Prepare, Start (list, then create), Stop | list and create are two requests | an attack that runs takes effect, Stop is final |
| Change notification (`client.doNotify`, `Notify`, `extcommon/kubeclient_notifications.go`, `main.go`) | list of channels under a mutex | doNotify, Notify, forwarding goroutine | unbuffered sends under a mutex, startup while events arrive | no change is missed, nobody blocks for ever |
| Startup and registration (`main.go`, `client/permissions.go`, `client.CreateClient`) | outcome of the permission review, informers, registered parts | review, CreateClient, wait for the caches, Register, the parts' lookups | three places decide, for each configuration and set of permissions, what exists and who reads it | nothing registered reads a store that was not made or has not synced; missing optional permissions do not keep the extension from starting |
| Stores (`client/transformers.go`) | the objects of the informers, without the fields the transformers drop | transform, read, score | who needs which field is spread over the extension; the scoring writes into the stores | readers find what the cluster had |
| Workload discoveries (`extdeployment`, `extstatefulset`, `extdaemonset`, `extreplicaset`, `extpod`, `extcontainer`, `extnode`, `extargorollout`, `client/owners.go`) | none (stores of informers) | lookups by name, UID and label | stores of different ages, objects made again, listing order | the targets name each other |
| Ingress and route discoveries (`extingress`, `extenvoygateway`) | none (stores of informers) | match classes, resolve gateways | defaults, duplicates, stores that change in between | a target belongs to the controller that serves it; the same target for the same input |
| NGINX module validation (`extingress/nginx_sb_module_validation.go`) | none | find the controllers' pods, read their configuration | pods without images, execs that fail | the verdict is right about at least one pod |
| Advice, scores, attributes, configuration | none of their own | pure functions | wording | left out, see section 7 |

Interactions: `main` creates the client (informers), subscribes the discoveries
to it one after the other and registers the actions. The actions of different
executions meet on the API server only: on the annotations of one ingress, on
one deployment or node, on the policies of one route. The informers' caches
connect the writes of one action to what the next `Prepare` reads. A change of
an informer also triggers the discoveries, which read the stores and make the
targets that the platform hands to the next `Prepare`.

## 2. Modules

| Module | Models |
|---|---|
| `AnnotationText` | a text as the sequence of its lines; `PrependBlock`, `RemoveAnnotationBlock`, and what users may turn a text into |
| `AnnotationEdits` | one annotation that reaches every text the attacks and users can write |
| `AbstractIngress` | what the traffic attacks promise: each step adds one block, cuts one block or is a user's, atomically |
| `IngressTraffic` | the four traffic attacks with the loops of `UpdateIngressAnnotation` and `RemoveIngressAnnotationBlock`; refines `AbstractIngress` |
| `AbstractAttack` | what an attack with a rollback promises: it finds the target untouched, changes it at most once, and leaves it restored |
| `KubectlAction` | the background kubectl action with the four scale, the set image, taint, drain and delete providers; implements `AbstractAttack` where nothing disturbs it |
| `PodCountCheck`, `NodeCountCheck`, `PodCountMetrics` | the actions that compare or report counts |
| `RolloutActions` | the rollout check and the two rollout restarts |
| `K8sEvents` | the events log |
| `CrashLoop` | the crash loop attack |
| `EnvoyAttack` | the attacks through BackendTrafficPolicies |
| `NotificationHub` | from an informer's event to a refreshed discovery, and `main`'s startup |
| `Startup` | permission review, informers, registration, and what the registered parts look up |
| `Stores` | which fields survive the way into a store, who reads them, who writes them |
| `Workloads` | lookups of pods, services and owners, and the targets made with them |
| `ReplicaSets` | which replica sets become targets, while workloads come and go |
| `IngressTargets`, `Routes` | which ingresses and routes become targets |
| `NginxValidation` | the search for controllers that load the sleep module |
| `TargetDiscovery` | `Stores`, `Routes`, `ReplicaSets`, `IngressTargets` and `NginxValidation` side by side: the variable `which`, chosen in `Init`, names the one that a behaviour runs, the others' variables stay as they are |
| `PolledActions` | the six actions that the platform polls (from `PodCountCheck` to `CrashLoop` above) side by side, in the same way |
| `MCAnnotations`, `MCIngressTraffic`, `MCKubectlAction`, `MCActions`, `MCEnvoyAttack`, `MCStartup` | instances for TLC |
| `MCDiscovery` | an instance that runs the hub, `Workloads` and `TargetDiscovery` side by side, in the same way |
| `AnnotationTextProofs`, `IngressTrafficProofs`, `KubectlActionProofs`, `PolledActionsProofs`, `EnvoyAttackProofs`, `NotificationHubProofs`, `TargetDiscoveryProofs`, `StartupProofs` | lemmas and theorems |

Every module with a protocol has a type invariant `TypeOK`. It documents the
state and is what most proofs start from; the runs check it only as a part of
`IInv`.

Operators whose comment starts with `Mutant` are faulty variants of the
definition below them. They are not part of the model: replacing the definition
by the variant makes TLC refute the property it belongs to, which shows that
the property depends on the code.

### AnnotationText, AnnotationEdits, IngressTraffic

A text is a sequence of lines; all directives that a builder emits for an
execution are one *rule* line between the begin and the end marker. The
properties read a text through `LinesOf(text, owners)`, the lines of some owners,
each with its rank among them, so that two texts agree in it exactly when these
lines are the same in the same order. A handler
(`<<"start", e>>` or `<<"stop", e>>`) has a program counter, the loop's attempt
count and its copy of the annotations. One action is one request to the API
server with the local code after it:

| Action | Code |
|---|---|
| `Prepare`, `PrepareFails` | `Prepare` of `nginxAction` and `haProxyAction`, a fresh read and the conflict checks |
| `StartFetch`, `StopFetch`, `StopFetchNothing` | `IngressByNamespaceAndName(..., true)` |
| `StartUpdate`, `StopUpdate` | the `Update` that succeeds |
| `StartUpdateUnanswered` | the `Update` takes effect, the client sees an error |
| `Conflict` | `IsConflict`: next attempt, or give up after `MaxRetries` |
| `RequestFails` | any other error; also an ingress that is gone |
| `StartSucceeds`, `StartFails` | `checkIngressEvents`; NGINX's look at the text that was written |
| `UserEdit`, `UnrelatedWrite`, `DeleteOrCreate`, `Crash` | the world |

The API server compares resource versions. Only equality with the present one
matters, so the model keeps `current`, the handlers whose copy has the present
version; each write empties it.

### KubectlAction

A kubectl command is a pair: the values it `expects` in the attacked field and
the value it `writes` (`kubectl scale --current-replicas=n` expects `n`; a
rollback expects anything; `taint` expects the taint not to be there). The
process, its request to the API server (`inflight`) and the platform's copy of
the state are separate, so that a kill, a crash or a lost answer can fall
between any two of them. `setting` is chosen in `Init` and says which attack it
is and what may happen around it; it makes the assumption of each property
explicit. Taint and drain set the field to a value and back. For `AbstractAttack`,
an execution is *armed* while its Start, its process or its request can still
change the target (`MayChange`), and *spent* afterwards, until its Stop is done.
`NoEffectAfterStop` leaves out the deletion of a pod: it has no rollback, and
Stop kills its kubectl without waiting for the request, which the API server
may still accept.

### PodCountCheck

`Start` and `Status` are one step each: they read the cache and decide. Time is
a counter that advances between the calls. `seen` remembers what each call saw,
for the properties.

### NodeCountCheck, PodCountMetrics, RolloutActions

The same clock and calls. `RolloutActions` counts the changes of the pod
template as generations; the controller first observes a generation and later
has rolled it out, and `kubectl rollout status` compares the three. The patch of
an Argo rollout carries the time in whole seconds, so a second restart within
the second changes nothing.

### K8sEvents

A call is two steps, its look at the clock and its look at the store, with
events between them. The platform keeps the offset only when it gets the
answer. A tick is a fraction of a second; an event carries the second.
`overtaken` collects the events that came into the store when the offset was
past their second already: those, and no others, are never sent.

### CrashLoop

A call takes the containers to kill from the store, which lags, and then sends
one signal after the other to the pod that has the name now. A `kubectl exec`
that fails is repeated through a shell; it may have killed its container all
the same. `call.todo` are the places of the containers the handler has still to
kill; it takes the first.

### EnvoyAttack

A policy is a name with a target, a route and a section or `Whole`. `older[n]`
are the policies created before `n`, which win over it. `StartCheck` and
`StartCreate` are the two requests of `Start`.

### NotificationHub

Each informer has a store with a version per kind of resource and a queue of
events. `Lock`, `Send`, `Unlock` are `doNotify`; `Send` needs the receiving
goroutine to be at its receive. `Notify`, `Go`, `Cache` are what `main` does
for each discovery. The consumer of the refresh triggers is the discovery kit
and external: it takes a trigger whenever there is one. A kind of resource is
assumed to have objects whenever the resync timer fires; of a kind that has none
a resync delivers nothing.

### Startup

`config` and `granted` are chosen in `Init`. The actions follow `main`:
`checkPermissions`, `CreateClient` (which informers are made), `WaitForCacheSync`,
`Register` for one group of discoveries and actions after the other, `Listen`.
`SyncTyped` and `SyncDynamic` are the informers' goroutines. A permission stands
for the verbs that are always asked for together, a *part* for a discovery or
an action (the abort and delay attacks of Envoy are one part, and so are the
two discoveries and the two attacks of HAProxy and NGINX that read the same).
`Lookups(part)` are the stores a part reads without asking whether they
are there; `lookup` remembers the last one. Labels are taken to be inherited
from pods, nodes and namespaces, the setting with the most lookups. Group
`deployment` and others are registered whatever is granted, so only the
switches that decide about informers are varied in the run; the proof is for
all.

### Stores

A behaviour follows one field of one object from the cluster to the store. The
operators named after the transformers say what is kept, `Readers` who reads
what. `Forgotten` names the fields that are read although they are dropped.

### Workloads

`store` is what all informers have, in any mixture of versions; deliveries come
in any order. `OwnerReferences` follows names, `PodsByOwnerUid` and
`PodsOwnedByDeployment` follow UIDs, rollouts' pods follow labels. Pods that do
not run are neither targets nor looked up. The target
operators keep the references from one target to another and leave out the
rest.

### ReplicaSets

The discovery of replica sets, whose result depends on what happens while it
runs. `DiscoverTargets` takes the replica sets from the lister, `MakeTarget`
looks up the workload of one, `Group` is the body of the loop in
`onlyHighestRevision`; both loops take the replica sets in any order, and
`WorkloadChanges` comes between any two steps. `owner` is the workload that a
target names. When its workload was missing for a moment, a replica set is in
no group and remains a target of its own; `NewestReplicaSetIsTarget` says when
that may happen.

### IngressTargets, Routes, NginxValidation

An ingress discovery reads the classes twice (`Filter`, `MakeTargets`) with
deliveries in between. `Routes` makes the target of one route from any classes,
gateways and parent references. `sortAndCompact` makes a sequence of a set of
gateways, each at the place that the number of those before it gives, which
is what sorting and compacting leaves. `served` remembers which controllers the
class of the chosen ingress had while the discovery ran: a class that moved
between the two reads may leave a target that names another's controller until
the next discovery, and `ServedByItsController` says how far off it can be.
`NginxValidation` reads the stores once (`Find`)
and then the configuration, with one exec for each path of a pod (`Check`), the
pods in any order, since a store lists them in none; a pod in the store has
lost its images, so `isNginxControllerPod` never holds. `Reconfigure` comes
between any two execs, so what is read of a pod need not be one configuration
of it; `texts` remembers what each path had, for `ValidationIsEarned`. The looks
for the module's file decide about the wording of the error only and are left
out.

## 3. Runs

| Run | Instance | Shows |
|---|---|---|
| `annotations` | texts up to 7 lines of 2 executions and 2 users; 2 HAProxy blocks for one path without lines of users, Stop may overlap Start | `RemovalKeepsTheRest`, `RemovalUndoesPrepend`, `PreparedPathIsFree`, `HandlersReturn` |
| `ingress` | NGINX, a delay and a block on one key, 1 user line, 2 attempts; the Stop of the block may overlap its Start | `IInv`, `BlocksWhole`, `StoppedMeansGone`, `NoInterference`, `NoLostUpdate`, refinement (`Refines`) |
| `kubectl` | 2 executions, 10 settings for the 8 attacks | `Restored`, `SuccessIsReal`, `NoEffectAfterStop`, `UnstartedNotRolledBack`, `EndIsReported` |
| `drain_skipped` | drain, a `kubectl get` may fail | violates `Restored` |
| `signalled` | delete pod, kubectl may die from a signal | violates `EndIsReported` |
| `actions` | pod counts 0..2 in all 28 configurations; 3 nodes; 3 generations; 2 deployments; 2 events, 2 ticks a second; 2 containers, 2 pods of one name | `VerdictIsEarned`, `WidgetIsCurrent`, `ReachesVerdict`, `WaitedMeansRolledOut`, `MeetsOnlyLaterRollouts`, `MissesOnlyOvertaken`, `SentAtMostTwice`, `HitsWhatWasPrepared`, `KeepsCrashing` |
| `events_lost` | 2 events, an informer without lag | violates `LastMessagesSent` |
| `envoy` | a whole-route and a section attack, 1 user policy, 2 sections | `NotShadowed`, `BothRunOnlyByRace`, `StoppedMeansGone` |
| `startup` | 2 groups disabled or not, namespace filter, memory statistics; 52 sets of granted permissions | `NoMissingStore`, `SyncedBeforeUse`, `StartsUp` |
| `memory_stats` | namespace filter, memory statistics; 3 sets of permissions | violates `KeepsRunning` |
| `discovery` | hub: 2 kinds, 2 discoveries; every field that is kept, read or written; 2 pods, 2 replica sets, a deployment, a stateful set, a rollout and their predecessors; 2 namespaces, 2 gateway classes, 2 parents; 3 replica sets of 2 deployments; 2 ingress classes, 5 ingresses; 2 controllers with 5 kinds of pods | `NoMissedChange`, `ChangesArrive`, `StartupCompletesUnderLoad`, `ReadersSeeTheServer`, `TargetsAgree`, `NewestReplicaSetIsTarget`, `EnvoyRoutesAreTargets`, `TargetIsStable`, `ServedByItsController`, `ValidationIsEarned` |
| `stripped` | every field | violates `PodCountMetricsAreReal` |

**Bounds.** Two executions are enough for every property that relates two
actors; a third would meet either of them in the same way, since executions
meet only through the text, the field or the set of policies. `MaxRetries = 2`
has a first attempt, a retry and giving up; ten attempts repeat the middle
case. A text of seven lines holds two blocks with a user line or an empty line
anywhere. Three values of the attacked field are the original one and two
others. In `actions` the ticks of the checks are before, at and after the deadline.
`MaxVersion` and `MaxBacklog` bound only what the environment does.

Five ticks of the events log are three seconds, one of them of a call and its
events. Three generations are what was there, the action's own change and
somebody else's. In `discovery` a store holds one or two objects of each kind:
a target is made of one workload, its pods and the objects that could be
mistaken for its own, and `MaxPodCount = 1` makes the second pod one too many.
Three replica sets are two of one deployment or of none and one of its
namesake in another namespace; with revisions missing, equal or different they
have every way to share a group. Two parent references have every order and can be equal; gateways have one name
in two namespaces. Two pods of a controller are one that answers and one that
does not, and one change of its configuration falls between any two execs.

In `startup`, the five optional permissions that decide about informers are
refused in all combinations, and every permission on its own.

**Deadlock** is checked in `annotations`, `ingress` and `discovery`, where
something can always happen. The other actions end, and so does a process that
lacks a required permission, so their runs allow it.

### Five disagreements with the documentation

* `drain_skipped`: `action_kubectl.go:230` reads every failure of
  `kubectl get node` as "nothing to roll back". A request that fails leaves the
  node cordoned while Stop reports success; the description promises that "The
  node will be uncordoned after the action."
* `signalled`: `ProcessState.ExitCode()` is -1 before the end of the process and
  also after an end by a signal. `Status` takes both for "still running". The
  comment at `action_kubectl.go:26` says that an action without a duration "is
  stopped after the command has completed".
* `memory_stats`: `PrintMemoryUsage` (`client/client.go:183`) reads the stores of
  all informers, also of those that are not made under a namespace filter or
  without an optional permission; the nil informer ends the process. The
  permission review logs "Permission missing, but not required. Some features
  may not work" (`client/permissions.go:146`).
* `events_lost`: a call of the events log remembers its exact time
  (`extevents/events.go:138`), but `lastTimestamp` has whole seconds and
  `filterEvents` (`client/client.go:864`) wants it to be later. An event that
  happens after a call, in the same second, is never sent, not even by Stop,
  which should "send the last messages before exiting" (`CHANGELOG.md:405`).
* `stripped`: `transformStatefulSet` (`client/transformers.go:109`) keeps of the
  status only `ReadyReplicas`; the pod count check of a stateful set reports
  `Replicas` and `AvailableReplicas` from the store, which are always 0
  (`CHANGELOG.md:49` announces these metrics).

Further observations without a run: NGINX's `checkNginxRuleConflicts` looks for
`location` directives and never finds the `if` conditions that the attacks
write; two delays that are both prepared before either starts both start; the
old replica count is taken from the informer's cache, and the rollback, unlike
the command, has no `--current-replicas` guard, so a lagging cache
(`freshCache = FALSE`) makes Stop write a count that is out of date; `Start` of
the pod count check drops a condition that is already fulfilled, so "at least
once" does not count it; `Start` of an Envoy attack whose policy exists passes
the conflict check and fails with AlreadyExists; Stop of a pod deletion kills
kubectl, and the pod may be deleted afterwards; `transformPod` drops the images,
so `isNginxControllerPod` never holds and the fallback of
`nginx_sb_module_validation.go:197` ("accept any NGINX pods in the right
namespace") is never taken; NGINX targets of a default class, or of the classic
name "nginx" without a class, cannot be validated, so their delay is always
refused; the target of an Argo rollout overwrites the `k8s.label` attributes
that it has from its namespace (`rollout_discovery.go:142`); the scoring writes
type and namespace into objects shared with the stores.

## 4. Fairness

* `IngressTraffic`: weak fairness on the steps of a started handler. Its
  goroutine runs, and every request ends within the client's timeout
  (`client.go:1398`). Calls, users and crashes are not fair.
* `KubectlAction`: weak fairness on kubectl with the API server, on `Status`,
  which the platform polls, and on the steps of a Stop that was called. Nothing
  makes the platform call Stop.
* `PolledActions`: time passes (but the clock of the events log owes nothing), the
  platform polls and its calls return, and the informer and the workload's
  controller do their work. Nothing makes the platform end an attack. A
  behaviour runs one of the modules, so one fairness condition serves all.
* `MCDiscovery`, for `NotificationHub`: weak fairness on running goroutines; strong fairness on
  taking the mutex (`Lock`, `Notify`), since a Go mutex is handed over in order
  once a waiter has waited for a millisecond; strong fairness on the resync
  timer, whose tick finds room in the queue again and again.

* `Startup`: weak fairness on `main` and on the typed informers that may list.
  The dynamic informers get none: their resources may never be installed.

## 5. Proofs

TLAPS checks the following for all values of the constants that satisfy the
`ASSUME`s of the modules.

`AnnotationTextProofs`, about the operators on texts of any length
* `RemovalIsExact`: `RemoveAnnotationBlock` takes a whole block and keeps the
  rest. `MarkersOfBlock` shows that the first begin and end markers found are
  those of the block, `RemovalIsCut` that the result is the text without a
  stretch of lines that are the execution's or empty, and `CutOutLinesOf` that
  such a cut leaves the other owners' lines and their ranks (a bijection
  between the places before and after it, `MatchedLines`). `PrependBlockLinesOf`
  says the same of an addition.
* `RemovalIsUndo`: a removal takes back the addition before it.
* `TheRestIsKept`, `PrependIsUndone`: `EditsSpec => []RemovalKeepsTheRest`,
  `EditsSpec => []RemovalUndoesPrepend`. The inductive invariant `EditsInv` says
  that an execution with a line in the text has a whole block there; one lemma
  for each kind of edit (`LineOnTopKeeps`, `LineTakenOutKeeps` and so on) shows
  that it does not tear a block.

`IngressTrafficProofs`
* `Invariance`: `Spec => []IInv` with `IInv == TypeOK /\ CurrentCopies /\
  AppliedOnce`. `CurrentCopies` (a handler that could update now holds what the
  server has) is not inductive without types, and the refinement needs
  `AppliedOnce` (a Start that has written its block never loops again, even
  when the answer was lost).
* `Refinement`: `Spec => Refines`. A `StartUpdate` writes `PrependBlock` of its
  *copy*; by `CurrentCopies` that is `PrependBlock` of what the server has, by
  `AppliedOnce` it is the first time, so it is `Apply(e)` of `AbstractIngress`.
  `StopUpdate` is `Cut(e)` in the same way; every other step of a handler
  leaves the ingress alone.
* `BlocksStayWhole` (`BlocksWhole`) follows from the abstract steps: `BlocksStep`
  needs of a concrete step only which of `Apply`, `Cut` and the others' edits it
  is, and the lemmas on texts.
* `NothingIsLost` (`NoLostUpdate`): on whole blocks both abstract steps keep
  `LinesOf` everybody else.
* `StoppedIsGone` (`StoppedMeansGone`), for every execution that the platform
  does not stop while it still starts, whatever it does to those in `MayOverlap`:
  the invariant adds `NoOverlap`, that no Start of such an execution is in its loop
  once Stop was called, so only it could put a block back and does not.
* `DelayAndBlockKeptApart` (`NoInterference`), for NGINX, whose actions alone
  look at what they have written. The invariant is `LaterIsCaught`: of a delay
  and a block in one text at least one has failed or holds a copy that shows
  both and will fail. It is established by the second writer, whose copy is the
  text with the first one's block in it, and nothing but the failure ends it.
* `PreparedFindsRules` (`PreparedPathIsFree`): a block in the text is whole, so its
  rule is there for the check of `Prepare` to find.

`EnvoyAttackProofs`
* `TypeCorrect`.
* `RunningIsEffective`: `Spec => []NotShadowed`. The inductive invariant adds
  `CheckStands` (while Start is between its list and its create, a conflicting
  policy must have come since) and that a policy is not older than itself.
* `BothRunByRace` (`BothRunOnlyByRace`): a consequence of the same invariant,
  since two policies of executions conflict in both directions.
* `StopIsFinal`: if the platform does not call Stop while Start runs, the
  policy is gone for good after a successful Stop.

`NotificationHubProofs`
* `TypeCorrect`.
* `NothingIsMissed`: `Spec => []NoMissedChange`. The invariant `HubInv` adds to
  it what it needs: the mutex is held only for an event that is at the head of
  its queue (`HeldForAnEvent`), a kind is `silent` only through a tombstone
  (`SilentByTombstone`), and a discovery has targets only after it was
  subscribed (`CachedAfterNotify`).

`KubectlActionProofs`
* `TypeCorrect`, `DeletedMeansGone` (`SuccessIsReal`),
  `OnlyStartedIsRolledBack` (`UnstartedNotRolledBack`) and `StopIsFinal`
  (`NoEffectAfterStop`), for every setting and any number of executions. The
  invariant `KubectlInv` relates for each execution the phase the platform knows
  to the process, the registry and the requests (`Consistent`, `HasOptions`), says
  that a stopped execution with a rollback has no request under way
  (`NothingLeft`), and that the answer of an accepted deletion means the pod is
  gone (`DeletedIsGone`).
* `TargetIsRestored` (`Restored`). The invariant `RestoreInv`, for an undisturbed
  setting: at most one execution is active, it was prepared on the original
  value, and a value that is not the original one belongs to an active execution
  that was started. The theorem assumes `PreconditionsAnswer`: no setting of the
  drain attack loses answers. Without it `Restored` is false, which is what the
  run `drain_skipped` shows.
* `AttacksAreOrderly` (`ImplementsAttack`): under the same assumption, in an
  undisturbed setting and but for the deletion of pods, `KubectlAction`
  implements `AbstractAttack`. It says more than `Restored`: nothing changes the
  target between the restoration and the end. `AttackStep` shows for each action
  that it is an abstract step or a stutter; a restart may disarm the execution
  under way, and `StopRollback` is `Restore` because the kill came first and the
  request is over. `AttackInv`, an invariant of the abstract specification
  (`AttackStays`), gives `Change` its untouched target. No run has this
  formula, as TLC takes no specification behind an implication; on the instance
  of `kubectl` it confirms
  `[][Reversible => [Attack!Next]_<< value, attacks >>]_vars`.

`PolledActionsProofs`. A behaviour runs one action, so the invariant is one per
action under `which`.
* `VerdictFollowsCalls` (`VerdictIsEarned`) for the three checks. `PodsInv` adds
  `Remembers`: while it runs, a check of all the time has its deviation flag set
  exactly when a call saw a violation, and one that fails early has not. `NodesInv`:
  no call before the last saw the condition or came late. `RolloutsInv`: no call
  before the last saw the rollout complete.
* `WaitedRestartIsOver`, `RestartMeetsLaterRollouts`: `RolloutsInv` orders what is
  rolled out, observed and asked for.
* `OnlyOvertakenMissed`, `NoThirdSending`: `EventsInv`. `Pending` says that an event
  in the store that nothing has overtaken was sent or is still after the
  offset; `SentBefore`, that one sent once is before the offset of the call under
  way, and one sent twice before the platform's own. `NothingToCome` and `Stored`
  tie both to the clock and the store.
* `OnlyPreparedIsHit`: `CrashInv`. The store may lag but never shows another
  `hostPID` for the same pod (`StoreLags`), so a pod with `hostPID` came after
  the prepared one (`PreparedIsPlain`).
* `WidgetKeepsUp` (`WidgetIsCurrent`): `MetricsInv` and `PodsInv` say that the widget
  shows what was sent last, so counts are left out only when it has them.

`TargetDiscoveryProofs`. A behaviour runs one part, so the invariant is one per part
under `which`.
* `OnlyNewestIsTarget` (`NewestReplicaSetIsTarget`), for any number of replica sets and
  workloads in any order. `SetsInv` says of the targets made so far that each
  names its own workload or none and that, as long as no workload changed, two
  of one workload name the same (`OwnersAreNamed`); and of the grouping, that the
  entry of a key is the newest of those looked at that belong there, and that
  an empty one has none (`GroupsHaveNewest`). `KeyIsUnique` is why two workloads
  never share an entry.
* `AttachedRoutesAreTargets` (`EnvoyRoutesAreTargets`), for any finite references. The
  state needs no more than types (`RouteInv`); the work is in `sortAndCompact`. The
  *rank* of a gateway is the number of those before it. Since `Before` is a total
  order, ranks differ (`RanksGrow`), are below the size (`RankIsBelowSize`), and
  so each is taken (`EveryRankIsTaken`, by counting): the sequence lists the set
  without repetition (`SortKeepsAll`). `MatchingIsAttached` ties the set to what the
  references mean.
* `OrderNeverMatters` (`TargetIsStable`): references that are the same as a set make
  the same target (`SameReferencesSameTarget`).
* `ReadersAreServed` (`ReadersSeeTheServer`): every field that somebody reads, the
  forgotten ones apart, is kept by its transformer and never stamped by the
  scoring; so `KeptInv`, that a kept field is what the informer delivered unless
  it was stamped, gives the property, in both configurations.
* `ControllerServesTarget` (`ServedByItsController`): if the stores stood still since
  the filter ran, what it has let through is the present ingress, because of a
  present class, and so is what the target was made of (`TargetsInv`). Whatever
  moved, `ServedInv` keeps of everything chosen that its class had a controller of
  the discovery's and the one it has now during the run.
* `OutcomeIsEarned` (`ValidationIsEarned`): while the pods are checked
  (`WhileChecking`), those left to check are controllers, one whose deciding text
  always had the module is among them, and the paths tried of the pod at hand have
  failed (`Tried`). `UnfitNeverLoaded` is why a pod that is given up is none of the
  second kind: of what it is read at, one text is not what it would always be.

`StartupProofs`
* `StoresAreThere`: `Spec => []NoMissingStore`. The inductive invariant says that
  the client stays as `CreateClient` made it and serves every registered part;
  `PartsAreServed` shows for each group that its conditions in `main` imply
  those under which the stores are made.
* `CachesAreFull`: `Spec => []SyncedBeforeUse`, since `main` registers nothing
  before what it waits for has synced, and only dynamic informers are not
  waited for.

**Model-checked only**
* All liveness: `HandlersReturn`, `EndIsReported`, `ReachesVerdict`, `KeepsCrashing`,
  `ChangesArrive`, `StartupCompletesUnderLoad`, `StartsUp`. The prover does not
  handle fairness.
* `TargetsAgree`: `Workloads` resolves owners with a `RECURSIVE` operator, as the code
  does, which the prover cannot reason about.

## 6. Plan

Done: the annotation texts and traffic attacks with their refinement, the
kubectl actions with theirs, all polled actions, the Envoy attacks, the hub, the startup,
the stores and the discoveries; proofs for all safety properties but the one
named above.

What a next step could be: owner references without recursion, with the
assumption that a pod has one owner of each kind, so that `TargetsAgree` can be
proved.

## 7. Not modelled

* Wording: the directives, messages, attributes and descriptions.
* A request that takes effect after the client has given up on it, except in
  `KubectlAction` (`lateRequests`), where no property about the restored value
  could hold.
* Two `Stop` calls of one execution at the same time; markers that a user has
  damaged.
* The informers' internals (list and watch); the discovery kit's throttling,
  which only delays a refresh.
* `StopNotify`, which nothing calls.
* The precedence of policies for a section over those for the whole route: the
  code treats the two as conflicting.
* Attributes of targets other than references to other targets: labels, images,
  resources, probes, the flags for autoscalers and disruption budgets, and the
  scores, which a library computes.
* `findNginxControllerNamespace`, `hasNginxControllerPodsForIngressClass` and
  `hasNginxControllerPods`, which only tests call.
* Advice, the cluster discovery, configuration parsing, logging, charts and
  tests: constants, pure functions or I/O.
