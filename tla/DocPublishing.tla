---------------------------- MODULE DocPublishing ----------------------------
(***************************************************************************)
(* The status of a document while it is published: the publish requests    *)
(* that mark it as being published and give it its final status, and the   *)
(* operators who restore documents that an interrupted publication left    *)
(* marked.                                                                 *)
(*                                                                         *)
(* All of them work on two tables: td_cms_document.status and              *)
(* td_cms_doc_publishing, which keeps the status a document had before.    *)
(* The publish engine is represented by what it promises about a request,  *)
(* TaskLifecycle; Objects are the documents.                               *)
(***************************************************************************)
EXTENDS Naturals, TaskLifecycle

CONSTANTS
  Operators,     \* users of the page that lists documents being published
  MaxCrashes,    \* bound: how often the server stops
  None           \* no row

\* The statuses that matter here; a document is published from any of the first
\* three.
FirstStatuses == {"PREPUBLISH", "PUBLISHED", "WITHDRAWPUBLISHED"}
Status == FirstStatuses \union {"NEW", "PUBLISHING"}

ASSUME DocAssumption ==
  /\ MaxCrashes \in Nat
  /\ None \notin Status
  /\ None \notin Objects

VARIABLES
  docStatus,     \* td_cms_document.status
  oldStatus,     \* td_cms_doc_publishing.old_status, None without a row
  context,       \* how far a request's ContentContextImpl is; "closed" once
                 \* HTMLDistribute.after has run
  preStatus,     \* preStatus of that context
  step,          \* where an operator is in a recovery
  listed,        \* documents on the operator's page when it was loaded
  target,        \* document the operator restores
  restored,      \* status the operator read for it
  crashes,       \* how often the server stopped
  first,         \* history: status of each document at the start
  completed,     \* history: documents with a completed run
  touched,       \* history: documents an operator started to restore
  faulted        \* history: documents a statement failed for, and the rest of
                 \* its transaction did not

tableVars    == <<docStatus, oldStatus>>
requestVars  == <<objectId, phase, context, preStatus>>
operatorVars == <<step, listed, target, restored>>
docHistory   == <<first, completed, touched, faulted>>
docVars == <<tableVars, requestVars, operatorVars, crashes, docHistory>>

DocTypeOK ==
  /\ LifecycleTypeOK
  /\ docStatus \in [Objects -> Status]
  /\ oldStatus \in [Objects -> Status \union {None}]
  /\ context \in [Requests -> {"none", "read", "built", "closed"}]
  /\ preStatus \in [Requests -> Status \union {None}]
  /\ step \in [Operators -> {"idle", "set", "delete", "deleteAll"}]
  /\ listed \in [Operators -> SUBSET Objects]
  /\ target \in [Operators -> Objects \union {None}]
  /\ restored \in [Operators -> Status \union {None}]
  /\ crashes \in 0..MaxCrashes
  /\ first \in [Objects -> FirstStatuses]
  /\ completed \subseteq Objects
  /\ touched \subseteq Objects
  /\ faulted \subseteq Objects

DocInit ==
  /\ LifecycleInit
  /\ first \in [Objects -> FirstStatuses]
  /\ docStatus = first
  /\ oldStatus = [d \in Objects |-> None]
  /\ context = [r \in Requests |-> "none"]
  /\ preStatus = [r \in Requests |-> None]
  /\ step = [op \in Operators |-> "idle"]
  /\ listed = [op \in Operators |-> {}]
  /\ target = [op \in Operators |-> None]
  /\ restored = [op \in Operators |-> None]
  /\ crashes = 0
  /\ completed = {}
  /\ touched = {}
  /\ faulted = {}
------------------------------------------------------------------------------
(* A publish request: its context is built when it is submitted *)

\* The context loads the document ...
ReadStatus(r) ==
  /\ phase[r] = "new"
  /\ context[r] = "none"
  /\ context' = [context EXCEPT ![r] = "read"]
  /\ preStatus' = [preStatus EXCEPT ![r] = docStatus[objectId[r]]]
  /\ UNCHANGED <<tableVars, objectId, phase, operatorVars, crashes, docHistory>>

\* Mutant: the status to store is taken from the table after the update.
MarkPublishingStoresNew(r) ==
  LET d == objectId[r] IN
  /\ phase[r] = "new"
  /\ context[r] = "read"
  /\ context' = [context EXCEPT ![r] = "built"]
  /\ docStatus' = [docStatus EXCEPT ![d] = "PUBLISHING"]
  /\ oldStatus' = IF oldStatus[d] = None
                  THEN [oldStatus EXCEPT ![d] = docStatus'[d]]
                  ELSE oldStatus
  /\ UNCHANGED <<objectId, phase, preStatus, operatorVars, crashes, docHistory>>

\* ... and marks it, in the transaction checkContext commits; the status the
\* context read is stored unless there is a row already.  The constructor
\* swallows the errors of both statements: when the update fails nothing is
\* stored either, and the context is built all the same.
MarkPublishing(r) ==
  LET d == objectId[r] IN
  /\ phase[r] = "new"
  /\ context[r] = "read"
  /\ context' = [context EXCEPT ![r] = "built"]
  /\ \E marked, stored \in BOOLEAN :
       /\ docStatus' = IF marked THEN [docStatus EXCEPT ![d] = "PUBLISHING"] ELSE docStatus
       /\ oldStatus' = IF marked /\ stored /\ oldStatus[d] = None
                       THEN [oldStatus EXCEPT ![d] = preStatus[r]]
                       ELSE oldStatus
       /\ faulted' = IF marked /\ stored THEN faulted ELSE faulted \union {d}
  /\ UNCHANGED <<objectId, phase, preStatus, operatorVars, crashes, first,
                 completed, touched>>

\* The transaction fails and is rolled back: publish() throws.
ContextFails(r) ==
  /\ context[r] = "read"
  /\ Fail(r)
  /\ UNCHANGED <<tableVars, context, preStatus, operatorVars, crashes, docHistory>>

\* The engine queues the request, ignores it, fails or runs it.
EngineTakes(r) ==
  /\ context[r] = "built"
  /\ Accept(r) \/ Refuse(r) \/ Fail(r) \/ Start(r)
  /\ UNCHANGED <<tableVars, context, preStatus, operatorVars, crashes, docHistory>>

\* Mutant: the document is published whatever came of the run.
AfterUnconditionally(r) ==
  LET d == objectId[r] IN
  /\ phase[r] = "running"
  /\ context[r] = "built"
  /\ context' = [context EXCEPT ![r] = "closed"]
  /\ docStatus' = [docStatus EXCEPT ![d] = "PUBLISHED"]
  /\ oldStatus' = [oldStatus EXCEPT ![d] = None]
  /\ \E complete \in BOOLEAN :
       completed' = IF complete THEN completed \union {d} ELSE completed
  /\ UNCHANGED <<objectId, phase, preStatus, operatorVars, crashes, first,
                 touched, faulted>>

\* Mutant: the row is deleted only when the run was not completed.
AfterKeepsRow(r) ==
  LET d == objectId[r] IN
  /\ phase[r] = "running"
  /\ context[r] = "built"
  /\ context' = [context EXCEPT ![r] = "closed"]
  /\ \/ /\ docStatus' = [docStatus EXCEPT ![d] = "PUBLISHED"]
        /\ completed' = completed \union {d}
        /\ UNCHANGED oldStatus
     \/ /\ docStatus' = [docStatus EXCEPT ![d] = preStatus[r]]
        /\ oldStatus' = [oldStatus EXCEPT ![d] = None]
        /\ UNCHANGED completed
  /\ UNCHANGED <<objectId, phase, preStatus, operatorVars, crashes, first,
                 touched, faulted>>

\* HTMLDistribute.after, one transaction: the document is published when the
\* run was completed, and gets back the status its context read when not; then
\* the row is deleted.  An error of either statement is noted in the monitor,
\* and the other is executed and committed.
After(r) ==
  LET d == objectId[r] IN
  /\ phase[r] = "running"
  /\ context[r] = "built"
  /\ context' = [context EXCEPT ![r] = "closed"]
  /\ \E complete, updated, deleted \in BOOLEAN :
       /\ docStatus' = IF updated
                       THEN [docStatus EXCEPT ![d] =
                              IF complete THEN "PUBLISHED" ELSE preStatus[r]]
                       ELSE docStatus
       /\ oldStatus' = IF deleted THEN [oldStatus EXCEPT ![d] = None] ELSE oldStatus
       /\ completed' = IF complete THEN completed \union {d} ELSE completed
       /\ faulted' = IF updated /\ deleted THEN faulted ELSE faulted \union {d}
  /\ UNCHANGED <<objectId, phase, preStatus, operatorVars, crashes, first, touched>>

\* The transaction of after() is rolled back; the run goes on.
AfterFails(r) ==
  /\ phase[r] = "running"
  /\ context[r] = "built"
  /\ context' = [context EXCEPT ![r] = "closed"]
  /\ UNCHANGED <<tableVars, objectId, phase, preStatus, operatorVars, crashes,
                 docHistory>>

\* The run ends, without after() when publish() was aborted by an exception.
EndOfRun(r) ==
  /\ Finish(r)
  /\ UNCHANGED <<tableVars, context, preStatus, operatorVars, crashes, docHistory>>

\* The server stops and starts again: requests and recoveries are gone, the
\* tables stay.
Crash ==
  /\ crashes < MaxCrashes
  /\ crashes' = crashes + 1
  /\ phase' = [r \in Requests |->
       IF context[r] # "none" /\ phase[r] \in {"new", "pending", "running"}
       THEN "failed" ELSE phase[r]]
  /\ step' = [op \in Operators |-> "idle"]
  /\ UNCHANGED <<tableVars, objectId, context, preStatus, listed, target,
                 restored, docHistory>>
------------------------------------------------------------------------------
(* The operators: the list of documents being published, and its buttons *)

\* The page lists the documents that have a row.
ListPublishing(op) ==
  /\ step[op] = "idle"
  /\ listed' = [listed EXCEPT ![op] = {d \in Objects : oldStatus[d] # None}]
  /\ UNCHANGED <<tableVars, requestVars, step, target, restored, crashes, docHistory>>

\* isRealPublishing(docId)
IsRealPublishing(d) == FALSE

\* Mutant: a document without a row is not told apart.
RecoverDocAnyRow(op, d) ==
  /\ step[op] = "idle"
  /\ d \in listed[op]
  /\ step' = [step EXCEPT ![op] = "set"]
  /\ target' = [target EXCEPT ![op] = d]
  /\ restored' = [restored EXCEPT ![op] = oldStatus[d]]
  /\ touched' = touched \union {d}
  /\ UNCHANGED <<tableVars, requestVars, listed, crashes, first, completed, faulted>>

\* recoverPublishingDoc: the old status is read, NEW without a row, ...
RecoverDoc(op, d) ==
  /\ step[op] = "idle"
  /\ d \in listed[op]
  /\ ~IsRealPublishing(d)
  /\ step' = [step EXCEPT ![op] = "set"]
  /\ target' = [target EXCEPT ![op] = d]
  /\ restored' = [restored EXCEPT ![op] =
                    IF oldStatus[d] = None THEN "NEW" ELSE oldStatus[d]]
  /\ touched' = touched \union {d}
  /\ UNCHANGED <<tableVars, requestVars, listed, crashes, first, completed, faulted>>

\* ... then set, whatever the status is by then, ...
SetOldStatus(op) ==
  /\ step[op] = "set"
  /\ step' = [step EXCEPT ![op] = "delete"]
  /\ docStatus' = [docStatus EXCEPT ![target[op]] = restored[op]]
  /\ UNCHANGED <<oldStatus, requestVars, listed, target, restored, crashes, docHistory>>

\* ... and the row is deleted: three statements, no transaction.
DeleteOldStatus(op) ==
  /\ step[op] = "delete"
  /\ step' = [step EXCEPT ![op] = "idle"]
  /\ oldStatus' = [oldStatus EXCEPT ![target[op]] = None]
  /\ UNCHANGED <<docStatus, requestVars, listed, target, restored, crashes, docHistory>>

\* recoverAllPublishingDoc: one statement restores every document with a row,
\* another deletes all rows.
RecoverAll(op) ==
  /\ step[op] = "idle"
  /\ step' = [step EXCEPT ![op] = "deleteAll"]
  /\ docStatus' = [d \in Objects |->
                     IF oldStatus[d] = None THEN docStatus[d] ELSE oldStatus[d]]
  /\ touched' = touched \union {d \in Objects : oldStatus[d] # None}
  /\ UNCHANGED <<oldStatus, requestVars, listed, target, restored, crashes,
                 first, completed, faulted>>

DeleteAllOldStatus(op) ==
  /\ step[op] = "deleteAll"
  /\ step' = [step EXCEPT ![op] = "idle"]
  /\ oldStatus' = [d \in Objects |-> None]
  /\ touched' = touched \union {d \in Objects : oldStatus[d] # None}
  /\ UNCHANGED <<docStatus, requestVars, listed, target, restored, crashes,
                 first, completed, faulted>>
\* A statement of a recovery fails: its exception ends the recovery, and what
\* was done before stays done.
RecoveryFails(op) ==
  /\ step[op] # "idle"
  /\ step' = [step EXCEPT ![op] = "idle"]
  /\ faulted' = faulted \union
       (IF step[op] = "deleteAll" THEN {d \in Objects : oldStatus[d] # None} ELSE {target[op]})
  /\ UNCHANGED <<tableVars, requestVars, listed, target, restored, crashes,
                 first, completed, touched>>
------------------------------------------------------------------------------
DocNext ==
  \/ \E r \in Requests :
       \/ ReadStatus(r)
       \/ MarkPublishing(r)
       \/ ContextFails(r)
       \/ EngineTakes(r)
       \/ After(r)
       \/ AfterFails(r)
       \/ EndOfRun(r)
  \/ \E op \in Operators :
       \/ ListPublishing(op)
       \/ \E d \in Objects : RecoverDoc(op, d)
       \/ SetOldStatus(op)
       \/ DeleteOldStatus(op)
       \/ RecoverAll(op)
       \/ DeleteAllOldStatus(op)
       \/ RecoveryFails(op)
  \/ Crash

DocSpec == DocInit /\ [][DocNext]_docVars
------------------------------------------------------------------------------
(* Properties *)

\* However failed runs, stale rows and operators restore statuses, a document is
\* shown as published only if a run of it was completed, or it was published at
\* the start.
PublishedIsTrue ==
  \A d \in Objects :
    docStatus[d] = "PUBLISHED" => d \in completed \/ first[d] = "PUBLISHED"

\* While the server runs and no statement fails, a document with a row in
\* td_cms_doc_publishing is being published or an operator is about to delete
\* the row: no order of publications and recoveries leaves a row behind, which
\* storeOldStatus would keep in place of the status of a later publication.
RowMeansPublishing ==
  \A d \in Objects :
    crashes = 0 /\ d \notin faulted /\ oldStatus[d] # None /\ docStatus[d] # "PUBLISHING" =>
      \E op \in Operators :
        \/ step[op] = "delete" /\ target[op] = d
        \/ step[op] = "deleteAll"

Alone(r) == \A q \in Requests \ {r} : objectId[q] # objectId[r]

\* A document that one request publishes, and no operator touches, is always in
\* its first status or published without a row, or marked with its first status
\* in the row: crashes, aborted runs and rolled back transactions included.  Only
\* the failure of a single statement, whose error is swallowed, can break this.
AloneIsRecoverable ==
  \A r \in Requests :
    LET d == objectId[r] IN
    Alone(r) /\ d \notin touched \union faulted =>
      \/ docStatus[d] \in {first[d], "PUBLISHED"} /\ oldStatus[d] = None
      \/ docStatus[d] = "PUBLISHING" /\ oldStatus[d] = first[d]
==============================================================================
