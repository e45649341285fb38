--------------------------- MODULE IngressTraffic ---------------------------
(***************************************************************************)
(* The HAProxy and NGINX block and delay attacks of src/extingress on one  *)
(* ingress, with the optimistic read-modify-write loops of src/client.     *)
(*                                                                         *)
(* An execution is one prepared attack.  Its Start and its Stop run in     *)
(* goroutines of the extension, next to those of other executions and next *)
(* to anybody else who edits the ingress; each is a handler with a program *)
(* counter, an attempt count and a local copy of the annotations.  The API *)
(* server accepts an update only from a copy of the current resource       *)
(* version; a version is never compared for anything else, so the model    *)
(* keeps just the set of handlers whose copy is of the current one.        *)
(***************************************************************************)
EXTENDS AnnotationText

CONSTANTS Keys,       \* annotation keys in use
          KeyOf,      \* [Executions -> Keys], getNginxAnnotationKey
          Kind,       \* [Executions \cup UserTexts -> {"block", "delay", "other"}]
          PathOf,     \* [Executions \cup UserTexts -> a path pattern, << >> for none]
          Controller, \* "haproxy" or "nginx"
          MaxRetries, \* attempts of an update loop (10 in the code)
          MayOverlap  \* executions whose Stop may be called while Start still runs

ASSUME IngressAssumption ==
  /\ KeyOf \in [Executions -> Keys]
  /\ Kind \in [Executions \cup UserTexts -> {"block", "delay", "other"}]
  /\ DOMAIN PathOf = Executions \cup UserTexts
  /\ \A x \in DOMAIN PathOf : Len(PathOf[x]) \in Nat
  /\ Controller \in {"haproxy", "nginx"}
  /\ MaxRetries \in Nat \ {0}
  /\ MayOverlap \subseteq Executions

VARIABLES exists,   \* the ingress is there
          ann,      \* annotation text by key, on the API server
          applied,  \* history: executions whose block has reached the server
          pc,       \* where each handler stands
          attempt,  \* the loop counter of each handler
          copy,     \* the annotations a handler has fetched
          current   \* handlers whose copy has the current resource version

server == << exists, ann, applied >>
local  == << pc, attempt, copy, current >>
vars   == << exists, ann, applied, pc, attempt, copy, current >>

StartOf(e) == << "start", e >>
StopOf(e)  == << "stop", e >>
Handlers   == {"start", "stop"} \X Executions

NoText  == [k \in Keys |-> << >>]
InLoop  == {"fetch", "update", "events"}
PcValue == InLoop \cup {"idle", "rejected", "prepared", "running", "stopped", "error"}

Init ==
  /\ exists = TRUE
  /\ ann = NoText
  /\ applied = {}
  /\ pc = [h \in Handlers |-> "idle"]
  /\ attempt = [h \in Handlers |-> 0]
  /\ copy = [h \in Handlers |-> NoText]
  /\ current = {}

-----------------------------------------------------------------------------
(* Prepare                                                                 *)

(* Mutant: the rules of other executions are not looked at.                *)
PathTakenByUser(line, e) ==
  line.kind = "user" /\ IsPrefix(PathOf[e], PathOf[line.by])

(* A line that already carries a rule for the path: HAProxy looks for      *)
(* "path_reg <path>", a prefix match, in any line; NGINX looks for a       *)
(* location of that path, which only users write.                          *)
PathTaken(line, e) ==
  /\ line.kind \in (IF Controller = "haproxy" THEN {"rule", "user"} ELSE {"user"})
  /\ IsPrefix(PathOf[e], PathOf[line.by])

checkRuleConflicts(text, e) ==
  PathOf[e] # << >> /\ \E line \in ToSet(text) : PathTaken(line, e)

(* A delay refuses a text with a delay directive in it.                    *)
checkExisting(text, e) ==
  /\ Kind[e] = "delay"
  /\ \E line \in ToSet(text) : line.kind \in {"rule", "user"} /\ Kind[line.by] = "delay"

(* The text is read from the API server, not from the informer's cache.    *)
Prepare(e) ==
  /\ pc[StartOf(e)] = "idle"
  /\ exists
  /\ ~checkRuleConflicts(ann[KeyOf[e]], e)
  /\ ~checkExisting(ann[KeyOf[e]], e)
  /\ pc' = [pc EXCEPT ![StartOf(e)] = "prepared"]
  /\ UNCHANGED << server, attempt, copy, current >>

(* The checks may refuse, and so may the request matcher, the module       *)
(* validation of the NGINX delay or the API server.                        *)
PrepareFails(e) ==
  /\ pc[StartOf(e)] = "idle"
  /\ pc' = [pc EXCEPT ![StartOf(e)] = "rejected"]
  /\ UNCHANGED << server, attempt, copy, current >>

-----------------------------------------------------------------------------
(* The update loops.  A handler that leaves its loop drops its locals.     *)

Enter(h) ==
  /\ pc' = [pc EXCEPT ![h] = "fetch"]
  /\ UNCHANGED << server, attempt, copy, current >>

Leave(h, outcome) ==
  /\ pc' = [pc EXCEPT ![h] = outcome]
  /\ attempt' = [attempt EXCEPT ![h] = 0]
  /\ copy' = [copy EXCEPT ![h] = NoText]

(* Mutant: a retry gets the new version but not the new annotations.       *)
FetchVersion(h) ==
  /\ exists
  /\ pc' = [pc EXCEPT ![h] = "update"]
  /\ copy' = IF attempt[h] = 0 THEN [copy EXCEPT ![h] = ann] ELSE copy
  /\ current' = current \cup {h}
  /\ UNCHANGED << server, attempt >>

(* IngressByNamespaceAndName with forceUpdate.                             *)
Fetch(h) ==
  /\ exists
  /\ pc' = [pc EXCEPT ![h] = "update"]
  /\ copy' = [copy EXCEPT ![h] = ann]
  /\ current' = current \cup {h}
  /\ UNCHANGED << server, attempt >>

(* The ingress is gone, or the request to the API server fails.            *)
RequestFails(h) ==
  /\ pc[h] \in {"fetch", "update"}
  /\ Leave(h, "error")
  /\ current' = current \ {h}
  /\ UNCHANGED server

(* Mutants: never giving up; giving up without an error.                   *)
ConflictForever(h) ==
  /\ pc[h] = "update" /\ exists /\ h \notin current
  /\ pc' = [pc EXCEPT ![h] = "fetch"]
  /\ copy' = [copy EXCEPT ![h] = NoText]
  /\ UNCHANGED << server, attempt, current >>

ConflictQuietly(h) ==
  /\ pc[h] = "update" /\ exists /\ h \notin current
  /\ IF attempt[h] + 1 < MaxRetries
     THEN /\ pc' = [pc EXCEPT ![h] = "fetch"]
          /\ attempt' = [attempt EXCEPT ![h] = @ + 1]
          /\ copy' = [copy EXCEPT ![h] = NoText]
     ELSE Leave(h, IF h[1] = "stop" THEN "stopped" ELSE "error")
  /\ UNCHANGED << server, current >>

(* Another writer came first: once more from the top, if attempts are left.*)
Conflict(h) ==
  /\ pc[h] = "update"
  /\ exists
  /\ h \notin current
  /\ IF attempt[h] + 1 < MaxRetries
     THEN /\ pc' = [pc EXCEPT ![h] = "fetch"]
          /\ attempt' = [attempt EXCEPT ![h] = @ + 1]
          /\ copy' = [copy EXCEPT ![h] = NoText]
     ELSE Leave(h, "error")
  /\ UNCHANGED << server, current >>

(* Mutant: the version is not compared.                                    *)
WriteUnchecked(h, newValue, e) ==
  /\ exists
  /\ ann' = [copy[h] EXCEPT ![KeyOf[e]] = newValue]
  /\ current' = {}
  /\ UNCHANGED exists

(* The server takes the copy with its one changed text.                    *)
Write(h, newValue, e) ==
  /\ exists
  /\ h \in current
  /\ ann' = [copy[h] EXCEPT ![KeyOf[e]] = newValue]
  /\ current' = {}
  /\ UNCHANGED exists

-----------------------------------------------------------------------------
(* Start: UpdateIngressAnnotation, then what the NGINX action looks at.    *)

StartCall(e) ==
  /\ pc[StartOf(e)] = "prepared"
  /\ pc[StopOf(e)] = "idle"
  /\ Enter(StartOf(e))

StartFetch(e) == pc[StartOf(e)] = "fetch" /\ Fetch(StartOf(e))

(* Mutant: the block goes below what is there.                             *)
AppendedValue(e) == copy[StartOf(e)][KeyOf[e]] \o Block(e)

NewStartValue(e) == PrependBlock(copy[StartOf(e)][KeyOf[e]], e)

(* The handler keeps the text it wrote; it is the value the loop returns.  *)
StartUpdate(e) ==
  /\ pc[StartOf(e)] = "update"
  /\ Write(StartOf(e), NewStartValue(e), e)
  /\ applied' = applied \cup {e}
  /\ pc' = [pc EXCEPT ![StartOf(e)] = "events"]
  /\ copy' = [copy EXCEPT ![StartOf(e)] = ann']
  /\ UNCHANGED attempt

(* Mutant: any error of the update is tried again.                         *)
StartUpdateRetried(e) ==
  /\ pc[StartOf(e)] = "update"
  /\ Write(StartOf(e), NewStartValue(e), e)
  /\ applied' = applied \cup {e}
  /\ pc' = [pc EXCEPT ![StartOf(e)] = "fetch"]
  /\ UNCHANGED << attempt, copy >>

(* The update takes effect but its answer is lost.                         *)
StartUpdateUnanswered(e) ==
  /\ pc[StartOf(e)] = "update"
  /\ Write(StartOf(e), NewStartValue(e), e)
  /\ applied' = applied \cup {e}
  /\ Leave(StartOf(e), "error")

HasMarker(text, kind) ==
  \E line \in ToSet(text) : line.kind = "begin" /\ Kind[line.by] = kind

(* Mutant: the text that was written is not looked at.                     *)
StartSucceedsUnchecked(e) ==
  /\ pc[StartOf(e)] = "events"
  /\ Leave(StartOf(e), "running")
  /\ UNCHANGED << server, current >>

(* No event rejects the ingress.  The NGINX actions also refuse a text     *)
(* that has both a delay and a block in it.                                *)
StartSucceeds(e) ==
  /\ pc[StartOf(e)] = "events"
  /\ LET final == copy[StartOf(e)][KeyOf[e]]
     IN  ~(Controller = "nginx" /\ HasMarker(final, "delay") /\ HasMarker(final, "block"))
  /\ Leave(StartOf(e), "running")
  /\ UNCHANGED << server, current >>

(* An event rejects the configuration, or both actions are active.  The    *)
(* block stays in the annotation: taking it out is left to Stop.           *)
StartFails(e) ==
  /\ pc[StartOf(e)] = "events"
  /\ Leave(StartOf(e), "error")
  /\ UNCHANGED << server, current >>

-----------------------------------------------------------------------------
(* Stop: RemoveIngressAnnotationBlock.                                     *)

(* The platform stops whatever was prepared, and again when it wants to.   *)
StopCall(e) ==
  /\ \/ pc[StartOf(e)] \in {"prepared", "running", "error"}
     \/ e \in MayOverlap /\ pc[StartOf(e)] \in InLoop
  /\ pc[StopOf(e)] \in {"idle", "error", "stopped"}
  /\ Enter(StopOf(e))

NewStopValue(e) == RemoveAnnotationBlock(copy[StopOf(e)][KeyOf[e]], e)

(* There is nothing to remove in the text that was fetched.                *)
StopFetchNothing(e) ==
  /\ pc[StopOf(e)] = "fetch"
  /\ exists
  /\ RemoveAnnotationBlock(ann[KeyOf[e]], e) = ann[KeyOf[e]]
  /\ Leave(StopOf(e), "stopped")
  /\ UNCHANGED << server, current >>

StopFetch(e) ==
  /\ pc[StopOf(e)] = "fetch"
  /\ RemoveAnnotationBlock(ann[KeyOf[e]], e) # ann[KeyOf[e]]
  /\ Fetch(StopOf(e))

StopUpdate(e) ==
  /\ pc[StopOf(e)] = "update"
  /\ Write(StopOf(e), NewStopValue(e), e)
  /\ \/ Leave(StopOf(e), "stopped")
     \/ Leave(StopOf(e), "error")   \* the answer is lost
  /\ UNCHANGED applied

-----------------------------------------------------------------------------
(* Everything else that happens to the ingress and to the extension.       *)

(* Somebody edits the text under a key.                                    *)
UserEdit ==
  /\ exists
  /\ \E k \in Keys : \E text \in UserEdits(ann[k]) : ann' = [ann EXCEPT ![k] = text]
  /\ current' = {}
  /\ UNCHANGED << exists, applied, pc, attempt, copy >>

(* Any other write of the ingress: its spec, its status, other metadata.   *)
UnrelatedWrite ==
  /\ exists
  /\ current' = {}
  /\ UNCHANGED << server, pc, attempt, copy >>

DeleteOrCreate ==
  /\ exists' = ~exists
  /\ ann' = NoText
  /\ current' = {}
  /\ UNCHANGED << applied, pc, attempt, copy >>

(* The extension goes down: its goroutines end, the platform's calls fail. *)
Crash ==
  /\ \E h \in Handlers : pc[h] \in InLoop
  /\ pc' = [h \in Handlers |-> IF pc[h] \in InLoop THEN "error" ELSE pc[h]]
  /\ attempt' = [h \in Handlers |-> 0]
  /\ copy' = [h \in Handlers |-> NoText]
  /\ current' = {}
  /\ UNCHANGED server

Environment == UserEdit \/ UnrelatedWrite \/ DeleteOrCreate

StartStep(e) ==
  \/ StartFetch(e) \/ StartUpdate(e) \/ StartUpdateUnanswered(e)
  \/ StartSucceeds(e) \/ StartFails(e)
  \/ RequestFails(StartOf(e)) \/ Conflict(StartOf(e))

StopStep(e) ==
  \/ StopFetchNothing(e) \/ StopFetch(e) \/ StopUpdate(e)
  \/ RequestFails(StopOf(e)) \/ Conflict(StopOf(e))

Call(e) == Prepare(e) \/ PrepareFails(e) \/ StartCall(e) \/ StopCall(e)

Next ==
  \/ \E e \in Executions : Call(e) \/ StartStep(e) \/ StopStep(e)
  \/ Environment
  \/ Crash

(* The goroutine of a handler keeps running, and every request it waits    *)
(* for is answered within the client's timeout.  Nobody has to call the    *)
(* actions, and the environment may interfere forever.                     *)
Fairness ==
  \A e \in Executions : WF_vars(StartStep(e)) /\ WF_vars(StopStep(e))

Spec     == Init /\ [][Next]_vars
FairSpec == Spec /\ Fairness
-----------------------------------------------------------------------------
(* Properties                                                              *)

TypeOK ==
  /\ exists \in BOOLEAN
  /\ ann \in [Keys -> Text]
  /\ applied \subseteq Executions
  /\ pc \in [Handlers -> PcValue]
  /\ attempt \in [Handlers -> 0 .. MaxRetries - 1]
  /\ copy \in [Handlers -> [Keys -> Text]]
  /\ current \subseteq Handlers

(* Optimistic concurrency: a handler that could update now holds exactly   *)
(* what the server has, for every key and not just its own (an update      *)
(* sends the whole ingress).                                               *)
CurrentCopies ==
  \A h \in current : exists /\ pc[h] = "update" /\ copy[h] = ann

(* A block reaches the server only in a Start that never loops again: not  *)
(* a second time, even when the answer to the first update was lost.       *)
AppliedOnce ==
  \A e \in applied : pc[StartOf(e)] \in {"events", "running", "error"}

(* The inductive invariant of the refinement: types, a copy that could be  *)
(* written is what the server has, and no block is written twice.          *)
IInv == TypeOK /\ CurrentCopies /\ AppliedOnce

(* A block sits in the annotation in one piece, under its execution's own  *)
(* key and not twice, and only if that execution's Start wrote it.         *)
BlocksWhole ==
  \A k \in Keys, e \in Executions :
    HasLineOf(ann[k], e)
      => k = KeyOf[e] /\ e \in applied /\ HasWholeBlock(ann[k], e)

(* No update is lost: whatever the handlers of an execution do, the lines  *)
(* of users and of every other execution stay what they are, in their      *)
(* order, whoever wrote them between this handler's read and its write.    *)
NoLostUpdate ==
  [][\A e \in Executions : StartStep(e) \/ StopStep(e) =>
       \A k \in Keys :
         LET others == (Executions \cup UserTexts) \ {e}
         IN  LinesOf(ann'[k], others) = LinesOf(ann[k], others)]_vars

(* Once an execution's Stop has succeeded, no later step of anybody brings *)
(* its block back.  It rests on the platform not stopping what still       *)
(* starts, whatever it does to other executions, and it covers a Start     *)
(* that failed after its update took effect.                               *)
StoppedMeansGone ==
  \A e \in Executions \ MayOverlap : pc[StopOf(e)] = "stopped" =>
    \A k \in Keys : ~HasLineOf(ann[k], e)

(* A delay and a block that both started successfully are never both in    *)
(* the text of one key, though each was prepared when the other was not    *)
(* there: the later writer sees the earlier one's block in what it wrote   *)
(* (nginxAction.Start, "they would interfere with each other").            *)
NoInterference ==
  \A d, b \in Executions :
    /\ Kind[d] = "delay" /\ Kind[b] = "block" /\ KeyOf[d] = KeyOf[b]
    /\ pc[StartOf(d)] = "running" /\ pc[StartOf(b)] = "running"
    => ~(HasLineOf(ann[KeyOf[d]], d) /\ HasLineOf(ann[KeyOf[b]], b))

(* However long others keep writing the ingress, Start and Stop return:    *)
(* the loops give up after MaxRetries attempts.                            *)
HandlersReturn ==
  \A h \in Handlers : pc[h] \in InLoop ~> pc[h] \notin InLoop

(* The attacks implement the abstract ingress.                             *)
Abstract == INSTANCE AbstractIngress
              WITH NoValue <- << >>, Added <- PrependBlock,
                   Removed <- RemoveAnnotationBlock, Edits <- UserEdits
Refines  == Abstract!Spec

(* An execution is not prepared while the rule of another one for its path *)
(* is in the text: HAProxy's check finds the rules the attacks write       *)
(* (checkHAProxyRuleConflicts).  The NGINX check does not, it looks for    *)
(* location directives.                                                    *)
PreparedPathIsFree ==
  [][\A e, f \in Executions :
       /\ Controller = "haproxy"
       /\ e # f /\ KeyOf[e] = KeyOf[f]
       /\ PathOf[e] # << >> /\ PathOf[e] = PathOf[f]
       /\ pc[StartOf(e)] = "idle" /\ pc'[StartOf(e)] = "prepared"
       => ~HasLineOf(ann[KeyOf[f]], f)]_vars
=============================================================================
