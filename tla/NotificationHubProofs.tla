------------------------ MODULE NotificationHubProofs ------------------------
(***************************************************************************)
(* No change of a resource is forgotten on its way to the targets: for any *)
(* number of kinds of resources and of discoveries, in any order, and for  *)
(* any bounds on queues and versions.                                      *)
(***************************************************************************)
EXTENDS NotificationHub, TLAPS

(* doNotify has an event to send as long as it holds the mutex.            *)
HeldForAnEvent == \A k \in Kinds : holder = k => backlog[k] # << >>

(* A kind is silent if and only if its last event is a tombstone.          *)
SilentByTombstone ==
  \A k \in Kinds :
    backlog[k] # << >> => (k \in silent <=> backlog[k][Len(backlog[k])] = "tombstone")

IsOnList(s) == \E i \in 1 .. Len(l) : l[i] = s

(* Discoveries are on the list before they are cached, and those that are  *)
(* cached are those main is done with.                                     *)
CachedAfterNotify ==
  /\ \A s \in Subscribers :
       refresh[s] # "none" => IsOnList(s) /\ \E i \in 1 .. started : Order[i] = s
  /\ main \in {"go", "cache"} => started < Len(Order) /\ IsOnList(Order[started + 1])

(* The inductive invariant.                                                *)
HubInv ==
  TypeOK /\ HeldForAnEvent /\ SilentByTombstone /\ CachedAfterNotify /\ NoMissedChange

-----------------------------------------------------------------------------
(* Sequences                                                               *)

(* What Append does to a queue.                                            *)
LEMMA AppendFacts ==
  ASSUME NEW S, NEW q \in Seq(S), NEW e \in S
  PROVE  /\ Append(q, e) \in Seq(S)
         /\ Len(Append(q, e)) = Len(q) + 1
         /\ Append(q, e) # << >>
         /\ Append(q, e)[Len(q) + 1] = e
         /\ \A i \in 1 .. Len(q) : Append(q, e)[i] = q[i]
  OBVIOUS

(* A queue is empty if and only if its length is 0.                        *)
LEMMA LenFacts ==
  ASSUME NEW S, NEW q \in Seq(S)
  PROVE  Len(q) \in Nat /\ (q # << >> <=> Len(q) # 0)
  OBVIOUS

(* What Tail does to a queue that is not empty.                            *)
LEMMA TailFacts ==
  ASSUME NEW S, NEW q \in Seq(S), q # << >>
  PROVE  /\ Tail(q) \in Seq(S)
         /\ Len(q) \in Nat \ {0}
         /\ Len(Tail(q)) = Len(q) - 1
         /\ Tail(q) # << >> <=> Len(q) # 1
         /\ \A i \in 1 .. Len(q) - 1 : Tail(q)[i] = q[i + 1]
<1>1. Len(q) \in Nat \ {0}
  BY LenFacts
<1>2. /\ Tail(q) \in Seq(S) /\ Len(Tail(q)) = Len(q) - 1
      /\ \A i \in 1 .. Len(q) - 1 : Tail(q)[i] = q[i + 1]
  BY <1>1
<1>3. Tail(q) # << >> <=> Len(Tail(q)) # 0
  BY <1>2, LenFacts
<1> QED BY <1>1, <1>2, <1>3

-----------------------------------------------------------------------------
(* The steps, one lemma for each.                                          *)

(* An informer queues an event, with a new version or without.             *)
LEMMA QueueStep ==
  ASSUME HubInv, NEW k \in Kinds, NEW event \in Events,
         store' \in [Kinds -> Int],
         \A j \in Kinds \ {k} : store'[j] = store[j],
         backlog' = [backlog EXCEPT ![k] = Append(@, event)],
         silent' = IF event = "tombstone" THEN silent \cup {k} ELSE silent \ {k},
         UNCHANGED << hub, startup, worker, refresh, view >>
  PROVE  HubInv'
<1> USE HubAssumption
<1>u. UNCHANGED << holder, l, next, started, main, worker, refresh, view >>
  BY DEF hub, startup
<1>q. /\ backlog[k] \in Seq(Events) /\ backlog' \in [Kinds -> Seq(Events)]
      /\ backlog'[k] = Append(backlog[k], event)
      /\ \A j \in Kinds \ {k} : backlog'[j] = backlog[j]
  BY AppendFacts DEF HubInv, TypeOK
<1>l. /\ backlog'[k] # << >> /\ Len(backlog'[k]) = Len(backlog[k]) + 1
      /\ backlog'[k][Len(backlog'[k])] = event
  BY <1>q, AppendFacts
<1>s. /\ silent' \subseteq Kinds
      /\ k \in silent' <=> event = "tombstone"
      /\ \A j \in Kinds \ {k} : j \in silent' <=> j \in silent
  BY DEF HubInv, TypeOK
<1>1. TypeOK'
  BY <1>u, <1>q, <1>s DEF HubInv, TypeOK
<1>2. HeldForAnEvent'
  BY <1>u, <1>q, <1>l DEF HubInv, HeldForAnEvent
<1>3. SilentByTombstone'
  BY <1>q, <1>l, <1>s DEF HubInv, SilentByTombstone
<1>4. CachedAfterNotify'
  BY <1>u DEF HubInv, CachedAfterNotify, IsOnList
<1>5. NoMissedChange'
  <2> SUFFICES ASSUME NEW s \in Subscribers, NEW j \in TypesOf[s], j \notin silent',
                      refresh[s] = "fresh", worker[s] = "receiving", view[s][j] # store'[j]
               PROVE  StillToBeSent(j, s)'
    BY <1>u DEF NoMissedChange
  <2>0. j \in Kinds
    OBVIOUS
  <2>1. CASE j = k
    <3>1. holder = k => Len(backlog'[k]) # 1
      BY <1>q, <1>l, LenFacts DEF HubInv, HeldForAnEvent
    <3> QED BY <2>1, <3>1, <1>u, <1>l DEF StillToBeSent
  <2>2. CASE j # k
    <3>1. StillToBeSent(j, s)
      BY <2>0, <2>2, <1>s DEF HubInv, NoMissedChange
    <3> QED BY <2>0, <2>2, <3>1, <1>u, <1>q DEF StillToBeSent
  <2> QED BY <2>1, <2>2
<1> QED BY <1>1, <1>2, <1>3, <1>4, <1>5 DEF HubInv

(* Changes and resyncs of the informers.                                   *)
LEMMA InformersQueue ==
  ASSUME HubInv, NEW k \in Kinds, Change(k) \/ Resync(k)
  PROVE  HubInv'
<1>1. CASE Change(k)
  <2>1. store' \in [Kinds -> Int] /\ \A j \in Kinds \ {k} : store'[j] = store[j]
    BY <1>1 DEF Change, HubInv, TypeOK
  <2> QED BY <1>1, <2>1, QueueStep DEF Change
<1>2. CASE Resync(k)
  <2>1. store' \in [Kinds -> Int] /\ \A j \in Kinds \ {k} : store'[j] = store[j]
    BY <1>2 DEF Resync, HubInv, TypeOK
  <2> QED BY <1>2, <2>1, QueueStep DEF Resync, Events
<1> QED BY <1>1, <1>2

(* doNotify takes the mutex.                                               *)
LEMMA LockStep ==
  ASSUME HubInv, NEW k \in Kinds, Lock(k)
  PROVE  HubInv'
<1> USE HubAssumption DEF HubInv
<1>u. /\ holder' = k /\ next' = 0 /\ backlog[k] # << >> /\ holder = Nobody
      /\ UNCHANGED << store, backlog, silent, l, started, main, worker, refresh, view >>
  BY DEF Lock, informers, startup
<1>1. TypeOK'
  BY <1>u, LenFacts DEF TypeOK
<1>2. HeldForAnEvent' /\ SilentByTombstone' /\ CachedAfterNotify'
  BY <1>u DEF HeldForAnEvent, SilentByTombstone, CachedAfterNotify, IsOnList
<1>3. NoMissedChange'
  <2> SUFFICES ASSUME NEW s \in Subscribers, NEW j \in TypesOf[s], j \notin silent,
                      refresh[s] = "fresh", worker[s] = "receiving", view[s][j] # store[j]
               PROVE  StillToBeSent(j, s)'
    BY <1>u DEF NoMissedChange
  <2>1. StillToBeSent(j, s)
    BY DEF NoMissedChange
  <2>2. IsOnList(s)
    BY DEF CachedAfterNotify
  <2> QED BY <1>u, <2>1, <2>2 DEF StillToBeSent, IsOnList
<1> QED BY <1>1, <1>2, <1>3

(* doNotify sends its event to the next channel.                           *)
LEMMA SendStep ==
  ASSUME HubInv, NEW k \in Kinds, Send(k)
  PROVE  HubInv'
<1> USE HubAssumption DEF HubInv
<1> DEFINE r == l[next + 1]
<1>u. /\ holder = k /\ next < Len(l) /\ next' = next + 1
      /\ worker[r] = "receiving" /\ Receive(r, k)
      /\ UNCHANGED << store, backlog, silent, holder, l, started, main, refresh, view >>
  BY DEF Send, informers, startup
<1>n. next \in Nat /\ Len(l) \in Nat /\ r \in Subscribers
  BY <1>u, LenFacts DEF TypeOK
<1>w. /\ worker' \in [Subscribers -> {"none", "receiving", "sending"}]
      /\ \A s \in Subscribers : worker'[s] = "receiving" => worker[s] = "receiving"
      /\ Forwards(r, k, Head(backlog[k])) => worker'[r] = "sending"
  BY <1>u, <1>n DEF Receive, TypeOK
<1>1. TypeOK'
  BY <1>u, <1>n, <1>w DEF TypeOK
<1>2. HeldForAnEvent' /\ SilentByTombstone' /\ CachedAfterNotify'
  BY <1>u DEF HeldForAnEvent, SilentByTombstone, CachedAfterNotify, IsOnList
<1>3. NoMissedChange'
  <2> SUFFICES ASSUME NEW s \in Subscribers, NEW j \in TypesOf[s], j \notin silent,
                      refresh[s] = "fresh", worker'[s] = "receiving", view[s][j] # store[j]
               PROVE  StillToBeSent(j, s)'
    BY <1>u DEF NoMissedChange
  <2>1. StillToBeSent(j, s)
    BY <1>w DEF NoMissedChange
  <2>2. CASE j = k /\ Len(backlog[k]) = 1
    <3>1. PICK i \in next + 1 .. Len(l) : l[i] = s
      BY <2>1, <2>2, <1>u DEF StillToBeSent
    <3>2. backlog[k] \in Seq(Events) /\ backlog[k] # << >>
      BY <2>1, <2>2 DEF StillToBeSent, TypeOK
    <3>3. backlog[k][1] # "tombstone"
      BY <2>2, <3>2 DEF SilentByTombstone
    <3>4. Head(backlog[k]) # "tombstone"
      BY <3>2, <3>3
    <3>5. s # r
      BY <2>2, <3>4, <1>w DEF Forwards
    <3>6. i \in next' + 1 .. Len(l')
      BY <3>1, <3>5, <1>u, <1>n
    <3> QED BY <3>1, <3>6, <2>1, <1>u DEF StillToBeSent
  <2>3. CASE ~(j = k /\ Len(backlog[k]) = 1)
    BY <2>1, <2>3, <1>u DEF StillToBeSent
  <2> QED BY <2>2, <2>3
<1> QED BY <1>1, <1>2, <1>3

(* doNotify is done with an event and gives the mutex back.                *)
LEMMA UnlockStep ==
  ASSUME HubInv, NEW k \in Kinds, Unlock(k)
  PROVE  HubInv'
<1> USE HubAssumption DEF HubInv
<1>u. /\ holder = k /\ holder' = Nobody /\ next = Len(l) /\ next' = 0
      /\ backlog' = [backlog EXCEPT ![k] = Tail(@)]
      /\ UNCHANGED << store, silent, l, started, main, worker, refresh, view >>
  BY DEF Unlock, startup
<1>q. backlog[k] \in Seq(Events) /\ backlog[k] # << >>
  BY <1>u DEF TypeOK, HeldForAnEvent
<1>t. /\ backlog' \in [Kinds -> Seq(Events)]
      /\ backlog'[k] = Tail(backlog[k])
      /\ \A j \in Kinds \ {k} : backlog'[j] = backlog[j]
  BY <1>u, <1>q, TailFacts DEF TypeOK
<1>1. TypeOK'
  BY <1>u, <1>t, LenFacts DEF TypeOK
<1>2. HeldForAnEvent' /\ CachedAfterNotify'
  BY <1>u DEF HeldForAnEvent, CachedAfterNotify, IsOnList
<1>3. SilentByTombstone'
  <2> SUFFICES ASSUME NEW j \in Kinds, backlog'[j] # << >>
               PROVE  j \in silent <=> backlog'[j][Len(backlog'[j])] = "tombstone"
    BY <1>u DEF SilentByTombstone
  <2>1. CASE j = k
    <3>1. /\ Len(backlog[k]) \in Nat /\ Len(backlog[k]) > 1
          /\ Len(backlog'[k]) = Len(backlog[k]) - 1
          /\ backlog'[k][Len(backlog'[k])] = backlog[k][Len(backlog[k])]
      BY <2>1, <1>q, <1>t, TailFacts
    <3> QED BY <2>1, <3>1, <1>q DEF SilentByTombstone
  <2>2. CASE j # k
    BY <2>2, <1>t DEF SilentByTombstone
  <2> QED BY <2>1, <2>2
<1>4. NoMissedChange'
  <2> SUFFICES ASSUME NEW s \in Subscribers, NEW j \in TypesOf[s], j \notin silent,
                      refresh[s] = "fresh", worker[s] = "receiving", view[s][j] # store[j]
               PROVE  StillToBeSent(j, s)'
    BY <1>u DEF NoMissedChange
  <2>1. StillToBeSent(j, s) /\ j \in Kinds
    BY DEF NoMissedChange
  <2>2. CASE j = k
    <3>1. Len(l) \in Nat
      BY LenFacts DEF TypeOK
    <3>2. Len(backlog[k]) # 1
      BY <2>1, <2>2, <3>1, <1>u DEF StillToBeSent
    <3>3. backlog'[k] # << >>
      BY <3>2, <1>q, <1>t, TailFacts
    <3> QED BY <2>2, <3>3, <1>u DEF StillToBeSent
  <2>3. CASE j # k
    BY <2>1, <2>3, <1>u, <1>t DEF StillToBeSent
  <2> QED BY <2>2, <2>3
<1> QED BY <1>1, <1>2, <1>3, <1>4

(* main puts a discovery's channel on the list.                            *)
LEMMA NotifyStep ==
  ASSUME HubInv, Notify
  PROVE  HubInv'
<1> USE HubAssumption DEF HubInv
<1>u. /\ holder = Nobody /\ l' = Append(l, Subject) /\ main' = "go" /\ started < Len(Order)
      /\ UNCHANGED << store, backlog, silent, holder, next, started, worker, refresh, view >>
  BY DEF Notify, informers
<1>s. Subject \in Subscribers /\ Subject = Order[started + 1]
  BY <1>u, LenFacts DEF Subject, TypeOK
<1>l. /\ l' \in Seq(Subscribers) /\ Len(l') = Len(l) + 1 /\ Len(l) \in Nat
      /\ l'[Len(l')] = Subject
      /\ \A i \in 1 .. Len(l) : l'[i] = l[i]
  BY <1>u, <1>s, AppendFacts, LenFacts DEF TypeOK
<1>i. IsOnList(Subject)' /\ \A s \in Subscribers : IsOnList(s) => IsOnList(s)'
  BY <1>l, <1>u, <1>s DEF IsOnList, Subject
<1>1. TypeOK'
  BY <1>u, <1>l DEF TypeOK
<1>2. HeldForAnEvent' /\ SilentByTombstone'
  BY <1>u DEF HeldForAnEvent, SilentByTombstone
<1>3. CachedAfterNotify'
  BY <1>u, <1>s, <1>i DEF CachedAfterNotify, IsOnList
<1>4. NoMissedChange'
  BY <1>u DEF NoMissedChange, StillToBeSent
<1> QED BY <1>1, <1>2, <1>3, <1>4

(* A discovery that main has not cached yet has no refresh.                *)
LEMMA SubjectIsNew ==
  ASSUME HubInv, main \in {"go", "cache"}
  PROVE  /\ started < Len(Order) /\ started \in Nat
         /\ Subject = Order[started + 1] /\ Subject \in Subscribers
         /\ refresh[Subject] = "none" /\ IsOnList(Subject)
<1> USE HubAssumption DEF HubInv
<1>1. /\ started < Len(Order) /\ started \in Nat /\ Len(Order) \in Nat
      /\ IsOnList(Order[started + 1])
  BY LenFacts DEF CachedAfterNotify, TypeOK
<1>2. Subject = Order[started + 1] /\ Subject \in Subscribers
  BY <1>1 DEF Subject
<1>3. \A i \in 1 .. started : Order[i] # Subject
  BY <1>1, <1>2
<1>4. refresh[Subject] = "none"
  BY <1>2, <1>3 DEF CachedAfterNotify
<1> QED BY <1>1, <1>2, <1>4

(* main starts a discovery's goroutine.                                    *)
LEMMA GoStep ==
  ASSUME HubInv, Go
  PROVE  HubInv'
<1>n. /\ started < Len(Order) /\ started \in Nat
      /\ Subject = Order[started + 1] /\ Subject \in Subscribers
      /\ refresh[Subject] = "none" /\ IsOnList(Subject)
  BY SubjectIsNew DEF Go
<1> USE DEF HubInv
<1>u. /\ worker' = [worker EXCEPT ![Subject] = "receiving"] /\ main = "go" /\ main' = "cache"
      /\ UNCHANGED << store, backlog, silent, holder, l, next, started, refresh, view >>
  BY DEF Go, informers, hub
<1>1. TypeOK'
  BY <1>u, <1>n DEF TypeOK
<1>2. HeldForAnEvent' /\ SilentByTombstone' /\ CachedAfterNotify'
  BY <1>u, <1>n DEF HeldForAnEvent, SilentByTombstone, CachedAfterNotify, IsOnList
<1>3. \A s \in Subscribers : refresh[s] = "fresh" => worker'[s] = worker[s]
  BY <1>u, <1>n DEF TypeOK
<1>4. NoMissedChange'
  BY <1>u, <1>3 DEF NoMissedChange, StillToBeSent
<1> QED BY <1>1, <1>2, <1>4

(* main caches a discovery, which is then due for its first refresh.       *)
LEMMA CacheStep ==
  ASSUME HubInv, Cache
  PROVE  HubInv'
<1>n. /\ started < Len(Order) /\ started \in Nat
      /\ Subject = Order[started + 1] /\ Subject \in Subscribers
      /\ refresh[Subject] = "none" /\ IsOnList(Subject)
  BY SubjectIsNew DEF Cache
<1> USE DEF HubInv
<1>u. /\ refresh' = [refresh EXCEPT ![Subject] = "due"]
      /\ main' = "notify" /\ started' = started + 1
      /\ UNCHANGED << store, backlog, silent, holder, l, next, worker, view >>
  BY DEF Cache, informers, hub
<1>r. /\ refresh' \in [Subscribers -> {"none", "due", "fresh"}]
      /\ refresh'[Subject] = "due"
      /\ \A s \in Subscribers \ {Subject} : refresh'[s] = refresh[s]
  BY <1>u, <1>n DEF TypeOK
<1>1. TypeOK'
  BY <1>u, <1>n, <1>r, LenFacts, HubAssumption DEF TypeOK
<1>2. HeldForAnEvent' /\ SilentByTombstone'
  BY <1>u DEF HeldForAnEvent, SilentByTombstone
<1>3. CachedAfterNotify'
  <2> SUFFICES ASSUME NEW s \in Subscribers, refresh'[s] # "none"
               PROVE  IsOnList(s)' /\ \E i \in 1 .. started' : Order[i] = s
    BY <1>u DEF CachedAfterNotify
  <2>1. CASE s = Subject
    <3>1. started + 1 \in 1 .. started'
      BY <1>u, <1>n
    <3> QED BY <2>1, <3>1, <1>u, <1>n DEF IsOnList
  <2>2. CASE s # Subject
    <3>1. IsOnList(s) /\ \E i \in 1 .. started : Order[i] = s
      BY <2>2, <1>r DEF CachedAfterNotify
    <3> QED BY <3>1, <1>u, <1>n DEF IsOnList
  <2> QED BY <2>1, <2>2
<1>4. NoMissedChange'
  <2>1. \A s \in Subscribers : refresh'[s] = "fresh" => refresh[s] = "fresh"
    BY <1>r
  <2> QED BY <2>1, <1>u DEF NoMissedChange, StillToBeSent
<1> QED BY <1>1, <1>2, <1>3, <1>4

(* A trigger makes a discovery due; a refresh brings it up to date.        *)
LEMMA DiscoveryStep ==
  ASSUME HubInv, NEW s \in Subscribers, Trigger(s) \/ Refresh(s)
  PROVE  HubInv'
<1> USE DEF HubInv
<1>u. UNCHANGED << store, backlog, silent, holder, l, next, started, main >>
  BY DEF Trigger, Refresh, informers, hub, startup
<1>2. HeldForAnEvent' /\ SilentByTombstone'
  BY <1>u DEF HeldForAnEvent, SilentByTombstone
<1>3. CASE Trigger(s)
  <2>1. /\ worker' = [worker EXCEPT ![s] = "receiving"] /\ refresh[s] # "none"
        /\ refresh' = [refresh EXCEPT ![s] = "due"] /\ view' = view
    BY <1>3 DEF Trigger
  <2>2. TypeOK'
    BY <1>u, <2>1 DEF TypeOK
  <2>3. \A r \in Subscribers : /\ refresh'[r] # "none" => refresh[r] # "none"
                               /\ refresh'[r] = "fresh" => refresh[r] = "fresh" /\ worker'[r] = worker[r]
    BY <2>1 DEF TypeOK
  <2>4. CachedAfterNotify'
    BY <1>u, <2>3 DEF CachedAfterNotify, IsOnList
  <2>5. NoMissedChange'
    BY <1>u, <2>1, <2>3 DEF NoMissedChange, StillToBeSent
  <2> QED BY <1>2, <2>2, <2>4, <2>5
<1>4. CASE Refresh(s)
  <2>1. /\ refresh[s] = "due" /\ refresh' = [refresh EXCEPT ![s] = "fresh"]
        /\ view' = [view EXCEPT ![s] = store] /\ worker' = worker
    BY <1>4 DEF Refresh
  <2>2. TypeOK'
    BY <1>u, <2>1 DEF TypeOK
  <2>3. /\ view'[s] = store
        /\ \A r \in Subscribers : refresh'[r] # "none" => refresh[r] # "none"
        /\ \A r \in Subscribers \ {s} : refresh'[r] = refresh[r] /\ view'[r] = view[r]
    BY <2>1 DEF TypeOK
  <2>4. CachedAfterNotify'
    BY <1>u, <2>3 DEF CachedAfterNotify, IsOnList
  <2>5. NoMissedChange'
    BY <1>u, <2>1, <2>3 DEF NoMissedChange, StillToBeSent
  <2> QED BY <1>2, <2>2, <2>4, <2>5
<1> QED BY <1>3, <1>4

-----------------------------------------------------------------------------
(* The invariant holds at first and is kept by every step.                 *)
LEMMA HubInvHolds == Spec => []HubInv
<1>1. Init => HubInv
  <2> SUFFICES ASSUME Init PROVE HubInv
    OBVIOUS
  <2> USE HubAssumption DEF Init
  <2>0. << "object" >> \in Seq(Events)
    BY DEF Events
  <2>q. \A k \in Kinds : backlog[k] = << "object" >> /\ backlog[k] \in Seq(Events)
    BY <2>0
  <2>1. TypeOK
    BY <2>q, LenFacts DEF TypeOK, Events
  <2>2. HeldForAnEvent /\ SilentByTombstone
    BY <2>q DEF HeldForAnEvent, SilentByTombstone
  <2>3. CachedAfterNotify /\ NoMissedChange
    BY DEF CachedAfterNotify, NoMissedChange
  <2> QED BY <2>1, <2>2, <2>3 DEF HubInv
<1>2. HubInv /\ [Next]_vars => HubInv'
  <2> SUFFICES ASSUME HubInv, [Next]_vars PROVE HubInv'
    OBVIOUS
  <2>1. ASSUME NEW k \in Kinds, Change(k) \/ Resync(k) PROVE HubInv'
    BY <2>1, InformersQueue
  <2>2. ASSUME NEW k \in Kinds, Informer(k) PROVE HubInv'
    BY <2>2, LockStep, SendStep, UnlockStep DEF Informer
  <2>3. CASE Main
    BY <2>3, NotifyStep, GoStep, CacheStep DEF Main
  <2>4. ASSUME NEW s \in Subscribers, Trigger(s) \/ Refresh(s) PROVE HubInv'
    BY <2>4, DiscoveryStep
  <2>5. CASE UNCHANGED vars
    <3>1. UNCHANGED << store, backlog, silent, holder, l, next, started, main, worker, refresh, view >>
      BY <2>5 DEF vars, informers, hub, startup
    <3>2. TypeOK' /\ HeldForAnEvent' /\ SilentByTombstone'
      BY <3>1 DEF HubInv, TypeOK, HeldForAnEvent, SilentByTombstone
    <3>3. CachedAfterNotify' /\ NoMissedChange'
      BY <3>1 DEF HubInv, CachedAfterNotify, IsOnList, NoMissedChange, StillToBeSent
    <3> QED BY <3>2, <3>3 DEF HubInv
  <2> QED BY <2>1, <2>2, <2>3, <2>4, <2>5 DEF Next
<1> QED BY <1>1, <1>2, PTL DEF Spec

(* The types of the hub's variables.                                       *)
THEOREM TypeCorrect == Spec => []TypeOK
BY HubInvHolds, PTL DEF HubInv

(* doNotify, the forwarding goroutines and main's order of subscribing and *)
(* caching lose no change: a discovery with targets older than the store   *)
(* has a trigger or a refresh ahead of it, unless the informer has         *)
(* reported the change with a tombstone.                                   *)
THEOREM NothingIsMissed == Spec => []NoMissedChange
BY HubInvHolds, PTL DEF HubInv
=============================================================================
