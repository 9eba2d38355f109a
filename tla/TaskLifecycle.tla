---------------------------- MODULE TaskLifecycle ----------------------------
(***************************************************************************)
(* What the publish engine promises about one publish request, whatever    *)
(* threads, queues and indexes it uses to keep the promise:                *)
(*                                                                         *)
(*   - a request is run at most once, and only after it was accepted;      *)
(*   - a request is refused only if a request for the same object was      *)
(*     accepted before it;                                                 *)
(*   - a refused or failed request is never run.                           *)
(*                                                                         *)
(* PublishEngine implements this specification (PublishEngine!Lifecycle).  *)
(***************************************************************************)
CONSTANTS
  Requests,      \* calls of publish(publishObject, callBack)
  Objects        \* ids of publish objects: site, channel, document, page

VARIABLES
  objectId,      \* the object each request publishes
  phase          \* how far each request got

lifecycleVars == <<objectId, phase>>

Phases == {"new", "refused", "failed", "pending", "running", "finished"}

LifecycleTypeOK ==
  /\ objectId \in [Requests -> Objects]
  /\ phase \in [Requests -> Phases]

LifecycleInit ==
  /\ objectId \in [Requests -> Objects]
  /\ phase = [r \in Requests |-> "new"]

Move(r, from, to) ==
  /\ phase[r] \in from
  /\ phase' = [phase EXCEPT ![r] = to]
  /\ UNCHANGED objectId

\* The request was put in a queue and waits for a dispatcher.
Accept(r) == Move(r, {"new"}, "pending")

\* Another request for the same object already got through.
Refuse(r) ==
  /\ \E q \in Requests \ {r} :
        objectId[q] = objectId[r] /\ phase[q] \in {"pending", "running", "finished"}
  /\ Move(r, {"new"}, "refused")

\* publish() threw an exception.
Fail(r) == Move(r, {"new"}, "failed")

\* A synchronous request runs at once, a queued one when it is taken.
Start(r) == Move(r, {"new", "pending"}, "running")

Finish(r) == Move(r, {"running"}, "finished")

LifecycleNext ==
  \E r \in Requests :
    \/ Accept(r)
    \/ Refuse(r)
    \/ Fail(r)
    \/ Start(r)
    \/ Finish(r)

LifecycleSpec == LifecycleInit /\ [][LifecycleNext]_lifecycleVars
==============================================================================
