----------------------------- MODULE K8sEvents -----------------------------
(***************************************************************************)
(* The action that sends Kubernetes events to the platform                 *)
(* (src/extevents/events.go).  Every call sends the events of the          *)
(* informer's store that are later than the offset of the call before; the *)
(* platform keeps the offset, and only when it gets the answer.            *)
(*                                                                         *)
(* The clock counts ticks, several of them a second; a tick is a span of   *)
(* time in which calls and events happen one after the other.  An event    *)
(* carries the second it happened in (metav1.Time), so it is never later   *)
(* than a look at the clock in the same second.  It comes into the store   *)
(* at once or later.                                                       *)
(***************************************************************************)
EXTENDS Integers

CONSTANTS Events,
          Second,      \* ticks of a second
          Durations,   \* configured durations, in ticks; 0 is none
          MaxTime,     \* bound on the clock
          Lag          \* the informer may lag behind the API server

EventsAssumption ==
  Second \in Nat \ {0} /\ Durations \subseteq Nat /\ MaxTime \in Nat /\ Lag \in BOOLEAN

VARIABLES
  now,
  phase,            \* "new", "prepared", "running", "completed" or "stopped"
  duration,         \* from the configuration
  lastTimestamp,    \* [e -> second of the event, in ticks]; Unset before
  store,            \* events in the informer's store
  lastEventOffset, endOffset,  \* K8sEventsState; Unset for no end
  call,             \* [kind, offset]: a handler between its look at the clock
                    \*   and its look at the store
  sent,             \* [e -> how often the platform was sent the event]
  overtaken,        \* history: events that came into the store when the offset
                    \*   was past their second already
  since             \* history: the time of Prepare, then of Start

world == << now, lastTimestamp, store, overtaken >>
vars  == << world, phase, duration, lastEventOffset, endOffset, call, sent, since >>

Unset  == -1
NoCall == [kind |-> "none", offset |-> Unset]

-----------------------------------------------------------------------------
Init ==
  /\ now = 0 /\ phase = "new" /\ duration \in Durations
  /\ lastTimestamp = [e \in Events |-> Unset] /\ store = {}
  /\ lastEventOffset = Unset /\ endOffset = Unset
  /\ call = NoCall
  /\ sent = [e \in Events |-> 0]
  /\ overtaken = {} /\ since = Unset

Prepare ==
  /\ phase = "new"
  /\ phase' = "prepared"
  /\ lastEventOffset' = now /\ since' = now
  /\ endOffset' = IF duration = 0 THEN Unset ELSE now + duration
  /\ UNCHANGED << world, duration, call, sent >>

Start ==
  /\ phase = "prepared"
  /\ phase' = "running"
  /\ lastEventOffset' = now /\ since' = now
  /\ UNCHANGED << world, duration, endOffset, call, sent >>

(* Past its end the action sends nothing any more.                         *)
StatusCompletes ==
  /\ phase = "running" /\ call = NoCall
  /\ endOffset # Unset /\ now > endOffset
  /\ phase' = "completed"
  /\ UNCHANGED << world, duration, lastEventOffset, endOffset, call, sent, since >>

StatusCall ==
  /\ phase = "running" /\ call = NoCall
  /\ ~(endOffset # Unset /\ now > endOffset)
  /\ call' = [kind |-> "status", offset |-> now]
  /\ UNCHANGED << world, phase, duration, lastEventOffset, endOffset, sent, since >>

StopCall ==
  /\ phase \in {"prepared", "running", "completed"} /\ call = NoCall
  /\ call' = [kind |-> "stop", offset |-> now]
  /\ UNCHANGED << world, phase, duration, lastEventOffset, endOffset, sent, since >>

filterEvents == {e \in store : lastTimestamp[e] > lastEventOffset}

(* Mutants: the offset stays where it was; Stop sends nothing.             *)
AnswerWithoutOffset ==
  /\ call # NoCall
  /\ sent' = [e \in Events |-> sent[e] + (IF e \in filterEvents THEN 1 ELSE 0)]
  /\ phase' = IF call.kind = "stop" THEN "stopped" ELSE phase
  /\ call' = NoCall
  /\ UNCHANGED << world, duration, lastEventOffset, endOffset, since >>
AnswerWithoutLastMessages ==
  /\ call # NoCall
  /\ sent' = [e \in Events |->
       sent[e] + (IF e \in filterEvents /\ call.kind # "stop" THEN 1 ELSE 0)]
  /\ lastEventOffset' = call.offset
  /\ phase' = IF call.kind = "stop" THEN "stopped" ELSE phase
  /\ call' = NoCall
  /\ UNCHANGED << world, duration, endOffset, since >>

(* getMessages, from the look at the store to the platform's answer.       *)
Answer ==
  /\ call # NoCall
  /\ sent' = [e \in Events |-> sent[e] + (IF e \in filterEvents THEN 1 ELSE 0)]
  /\ lastEventOffset' = call.offset
  /\ phase' = IF call.kind = "stop" THEN "stopped" ELSE phase
  /\ call' = NoCall
  /\ UNCHANGED << world, duration, endOffset, since >>

(* The answer is lost, and with it messages and offset; the platform calls *)
(* again.                                                                  *)
AnswerLost ==
  /\ call # NoCall
  /\ call' = NoCall
  /\ UNCHANGED << world, phase, duration, lastEventOffset, endOffset, sent, since >>

-----------------------------------------------------------------------------
(* The API server and the informer (external).                             *)

Arrives(e, second) ==
  /\ store' = store \cup {e}
  /\ overtaken' = IF second <= lastEventOffset THEN overtaken \cup {e} ELSE overtaken

Happens(e) ==
  /\ lastTimestamp[e] = Unset
  /\ phase # "stopped"
  /\ LET second == (now \div Second) * Second
     IN  /\ lastTimestamp' = [lastTimestamp EXCEPT ![e] = second]
         /\ \/ Arrives(e, second)
            \/ Lag /\ UNCHANGED << store, overtaken >>
  /\ UNCHANGED << now, phase, duration, lastEventOffset, endOffset, call, sent, since >>

Deliver(e) ==
  /\ lastTimestamp[e] # Unset /\ e \notin store
  /\ phase # "stopped"
  /\ Arrives(e, lastTimestamp[e])
  /\ UNCHANGED << now, lastTimestamp, phase, duration, lastEventOffset, endOffset,
                  call, sent, since >>

Tick ==
  /\ now < MaxTime /\ phase # "stopped"
  /\ now' = now + 1
  /\ UNCHANGED << lastTimestamp, store, overtaken, phase, duration, lastEventOffset,
                  endOffset, call, sent, since >>

Next ==
  \/ Prepare \/ Start \/ StatusCompletes \/ StatusCall \/ StopCall \/ Answer \/ AnswerLost
  \/ \E e \in Events : Happens(e) \/ Deliver(e)
  \/ Tick

Spec == Init /\ [][Next]_vars

-----------------------------------------------------------------------------
(* Properties                                                              *)

TypeOK ==
  /\ now \in 0 .. MaxTime
  /\ phase \in {"new", "prepared", "running", "completed", "stopped"}
  /\ duration \in Durations
  /\ lastTimestamp \in [Events -> 0 .. MaxTime \cup {Unset}]
  /\ store \subseteq Events /\ overtaken \subseteq store
  /\ lastEventOffset \in 0 .. MaxTime \cup {Unset} /\ endOffset \in Nat \cup {Unset}
  /\ call \in [kind : {"none", "status", "stop"}, offset : 0 .. MaxTime \cup {Unset}]
  /\ sent \in [Events -> Nat]
  /\ since \in 0 .. MaxTime \cup {Unset}

Since(e) == lastTimestamp[e] > since

(* What has happened since Start and was in the store when the last call   *)
(* looked has been sent, except for events that came after a call which    *)
(* was past their second already: lost answers, repeated calls and the end *)
(* of the duration lose nothing.                                           *)
MissesOnlyOvertaken ==
  phase = "stopped" => \A e \in store \ overtaken : Since(e) => sent[e] >= 1

(* An event is sent again only by the call after the one it slipped into,  *)
(* between its look at the clock and its look at the store.                *)
SentAtMostTwice == \A e \in Events : sent[e] <= 2

(* "send the last messages before exiting" (CHANGELOG.md:405): what has    *)
(* happened after the second of Start and is in the store at the last call *)
(* has been sent.                                                          *)
LastMessagesSent ==
  phase = "stopped" => \A e \in store : Since(e) => sent[e] >= 1
=============================================================================
