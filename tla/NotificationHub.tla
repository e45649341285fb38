--------------------------- MODULE NotificationHub ---------------------------
(***************************************************************************)
(* How a change in the cluster refreshes the discoveries.                  *)
(*                                                                         *)
(* An informer keeps its store and queues an event for every change; a     *)
(* goroutine of it calls doNotify (src/client) for one event after the     *)
(* other.  doNotify holds the handlers' mutex while it sends the event to  *)
(* every subscriber over an unbuffered channel.  A subscriber's goroutine  *)
(* (src/extcommon) filters and triggers the discovery over another one.    *)
(* main subscribes one discovery after the other while the informers       *)
(* already deliver, so it competes for the mutex.                          *)
(***************************************************************************)
EXTENDS Integers, Sequences

CONSTANTS Kinds,      \* resource kinds with an informer
          Dynamic,    \* those among them that come as unstructured objects
          Subscribers,\* the discoveries
          TypesOf,    \* [Subscribers -> SUBSET Kinds], what each one names
          Order,      \* the order in which main subscribes them
          MaxVersion, \* bound on the changes of a kind
          MaxBacklog  \* bound on an informer's queue of events

Nobody == "nobody"

ASSUME HubAssumption ==
  /\ Dynamic \subseteq Kinds /\ Nobody \notin Kinds
  /\ TypesOf \in [Subscribers -> SUBSET Kinds]
  /\ Order \in Seq(Subscribers)
  /\ \A i, j \in 1 .. Len(Order) : Order[i] = Order[j] => i = j   \* each is made once
  /\ MaxVersion \in Nat /\ MaxBacklog \in Nat \ {0}

VARIABLES
  store,    \* [k -> version of what the informer's store holds]
  backlog,  \* [k -> events the informer has yet to hand to doNotify]
  holder,   \* who holds the handlers' mutex: a kind's informer, or Nobody
  l,        \* the subscribers' channels, in order
  next,     \* how many channels the holder has sent its event to
  started,  \* discoveries main is done with
  main,     \* what main does next for the discovery after those
  worker,   \* [s -> state of triggerNotificationsForType]
  refresh,  \* [s -> state of the cached discovery]
  view,     \* [s -> the versions its targets were made from]
  silent    \* history: kinds whose last queued event is a tombstone

informers == << store, backlog, silent >>
hub       == << holder, l, next >>
startup   == << started, main >>
vars      == << informers, hub, startup, worker, refresh, view >>

(* A deletion the watch has missed is delivered as a tombstone.            *)
Events == {"object", "tombstone"}

Init ==
  /\ store = [k \in Kinds |-> 0]
  /\ backlog = [k \in Kinds |-> << "object" >>]   \* the initial list
  /\ holder = Nobody /\ next = 0
  /\ l = << >>
  /\ started = 0 /\ main = "notify"
  /\ worker = [s \in Subscribers |-> "none"]
  /\ refresh = [s \in Subscribers |-> "none"]
  /\ view = [s \in Subscribers |-> [k \in Kinds |-> -1]]
  /\ silent = {}

-----------------------------------------------------------------------------
(* Informers                                                               *)

(* One or more objects of the kind are added, updated or deleted.          *)
Change(k) ==
  /\ store[k] < MaxVersion
  /\ Len(backlog[k]) < MaxBacklog
  /\ store' = [store EXCEPT ![k] = @ + 1]
  /\ \E event \in Events :
       /\ backlog' = [backlog EXCEPT ![k] = Append(@, event)]
       /\ silent' = IF event = "tombstone" THEN silent \cup {k} ELSE silent \ {k}
  /\ UNCHANGED << hub, startup, worker, refresh, view >>

(* DiscoveryInformerResync: the objects in the store are delivered again.  *)
(* The kind is taken to have objects: of one that has lost its last object *)
(* a resync delivers nothing.                                              *)
Resync(k) ==
  /\ Len(backlog[k]) < MaxBacklog
  /\ backlog' = [backlog EXCEPT ![k] = Append(@, "object")]
  /\ silent' = silent \ {k}
  /\ UNCHANGED << store, hub, startup, worker, refresh, view >>

-----------------------------------------------------------------------------
(* doNotify                                                                *)

Lock(k) ==
  /\ holder = Nobody
  /\ backlog[k] # << >>
  /\ holder' = k
  /\ next' = 0
  /\ UNCHANGED << informers, l, startup, worker, refresh, view >>

(* triggerNotificationsForType: an unstructured object is matched by its   *)
(* GVK alone, whatever types the subscriber has named, and the GVKs of all *)
(* dynamic informers trigger.  The type of a tombstone is never named.     *)
Forwards(s, k, event) == event # "tombstone" /\ (k \in Dynamic \/ k \in TypesOf[s])

Receive(s, k) ==
  worker' = IF Forwards(s, k, Head(backlog[k]))
            THEN [worker EXCEPT ![s] = "sending"] ELSE worker

Send(k) ==
  /\ holder = k /\ next < Len(l)
  /\ LET s == l[next + 1]
     IN  worker[s] = "receiving" /\ Receive(s, k)
  /\ next' = next + 1
  /\ UNCHANGED << informers, holder, l, startup, refresh, view >>

Unlock(k) ==
  /\ holder = k /\ next = Len(l)
  /\ holder' = Nobody
  /\ next' = 0
  /\ backlog' = [backlog EXCEPT ![k] = Tail(@)]
  /\ UNCHANGED << store, silent, l, startup, worker, refresh, view >>

-----------------------------------------------------------------------------
(* main: NewXDiscovery for one discovery after the other                   *)

Subject == Order[started + 1]

(* Mutant: the channel is not put on the list.                             *)
NotifyForgotten ==
  /\ main = "notify" /\ started < Len(Order)
  /\ holder = Nobody
  /\ main' = "go"
  /\ UNCHANGED << informers, hub, started, worker, refresh, view >>

(* TriggerOnKubernetesResourceChange, Notify: needs the mutex.             *)
Notify ==
  /\ main = "notify" /\ started < Len(Order)
  /\ holder = Nobody
  /\ l' = Append(l, Subject)
  /\ main' = "go"
  /\ UNCHANGED << informers, holder, next, started, worker, refresh, view >>

(* Mutant: nobody receives from the channel.                               *)
GoForgotten ==
  /\ main = "go"
  /\ main' = "cache"
  /\ UNCHANGED << informers, hub, started, worker, refresh, view >>

(* TriggerOnKubernetesResourceChange, its goroutine.                       *)
Go ==
  /\ main = "go"
  /\ worker' = [worker EXCEPT ![Subject] = "receiving"]
  /\ main' = "cache"
  /\ UNCHANGED << informers, hub, started, refresh, view >>

(* Mutant: no refresh now.                                                 *)
CacheWithoutNow ==
  /\ main = "cache"
  /\ refresh' = [refresh EXCEPT ![Subject] = "fresh"]
  /\ main' = "notify"
  /\ started' = started + 1
  /\ UNCHANGED << informers, hub, worker, view >>

(* NewCachedTargetDiscovery, with a first refresh now and with a consumer  *)
(* of the triggers.                                                        *)
Cache ==
  /\ main = "cache"
  /\ refresh' = [refresh EXCEPT ![Subject] = "due"]
  /\ main' = "notify"
  /\ started' = started + 1
  /\ UNCHANGED << informers, hub, worker, view >>

-----------------------------------------------------------------------------
(* The cached discovery (external): it takes triggers all the time, also   *)
(* while it is throttled, and then reads the informers' stores.            *)

Trigger(s) ==
  /\ worker[s] = "sending" /\ refresh[s] # "none"
  /\ worker' = [worker EXCEPT ![s] = "receiving"]
  /\ refresh' = [refresh EXCEPT ![s] = "due"]
  /\ UNCHANGED << informers, hub, startup, view >>

Refresh(s) ==
  /\ refresh[s] = "due"
  /\ refresh' = [refresh EXCEPT ![s] = "fresh"]
  /\ view' = [view EXCEPT ![s] = store]
  /\ UNCHANGED << informers, hub, startup, worker >>

Informer(k) == Lock(k) \/ Send(k) \/ Unlock(k)
Main        == Notify \/ Go \/ Cache

Next ==
  \/ \E k \in Kinds : Change(k) \/ Resync(k) \/ Informer(k)
  \/ Main
  \/ \E s \in Subscribers : Trigger(s) \/ Refresh(s)

(* The goroutines run.  Who waits for the mutex gets it even if others     *)
(* take it again and again: a Go mutex is handed over in order once        *)
(* somebody has waited for a millisecond.  The resync timer keeps firing.  *)
Fairness ==
  /\ \A k \in Kinds :
       /\ SF_vars(Lock(k)) /\ WF_vars(Send(k)) /\ WF_vars(Unlock(k))
       /\ SF_vars(Resync(k))
  /\ SF_vars(Notify) /\ WF_vars(Go) /\ WF_vars(Cache)
  /\ \A s \in Subscribers : WF_vars(Trigger(s)) /\ WF_vars(Refresh(s))

Spec     == Init /\ [][Next]_vars
FairSpec == Spec /\ Fairness

-----------------------------------------------------------------------------
(* Properties                                                              *)

(* The versions and the queues have no bound here: theirs are the          *)
(* environment's.                                                          *)
TypeOK ==
  /\ store \in [Kinds -> Int]
  /\ backlog \in [Kinds -> Seq(Events)]
  /\ holder \in Kinds \cup {Nobody}
  /\ l \in Seq(Subscribers)
  /\ next \in 0 .. Len(l)
  /\ started \in 0 .. Len(Order) /\ main \in {"notify", "go", "cache"}
  /\ worker \in [Subscribers -> {"none", "receiving", "sending"}]
  /\ refresh \in [Subscribers -> {"none", "due", "fresh"}]
  /\ view \in [Subscribers -> [Kinds -> Int]]
  /\ silent \subseteq Kinds

(* The last event of the informer has yet to be sent to the subscriber.    *)
StillToBeSent(k, s) ==
  /\ backlog[k] # << >>
  /\ holder = k /\ Len(backlog[k]) = 1 => \E i \in next + 1 .. Len(l) : l[i] = s

(* No change is missed: a discovery whose targets are older than the store *)
(* has a refresh ahead of it, wherever the news is on its way, and also    *)
(* when the change came while the discovery was being set up.  A change    *)
(* the informer reports with a tombstone is the exception.                 *)
NoMissedChange ==
  \A s \in Subscribers : \A k \in TypesOf[s] \ silent :
    refresh[s] = "fresh" /\ worker[s] = "receiving" /\ view[s][k] # store[k]
      => StillToBeSent(k, s)
=============================================================================
