----------------------------- MODULE DocWorkflow -----------------------------
(* The editorial workflow of one document, as DocumentManagerImpl and the    *)
(* pages of cms/docManage run it: sent for audit, audited or rejected,       *)
(* reworked, submitted for publishing, published, withdrawn, archived and    *)
(* recycled.  Its status and its tasks are rows of three tables.  A page     *)
(* offers a user an operation; the handler of that page issues its SQL       *)
(* statements one by one, each committed on its own, so the statements of    *)
(* two requests interleave and one that throws drops the rest of its         *)
(* request.  A request is therefore a program: the statements still to run.  *)
EXTENDS Naturals, Sequences, FiniteSets

CONSTANTS
  Users,            \* the people who deliver, audit and publish
  Requests,         \* the web requests that can be in progress at once
  NoUser,           \* performer -1: getPreSubmitterId found nobody
  OtherPerformers,  \* users with a valid detail in a task of another document
  Groups,           \* the sets of auditors or publishers a dialog may return
  Flow,             \* the transitions of the document's flow, <<source, target>>
  NeedsPublishing,  \* FALSE for the doctypes that are published by being audited
  MaxTasks,         \* bound: tasks created in a behaviour
  MaxFaults         \* bound: statements that throw

Status == {"NEW", "UNAUDIT", "AUDITED", "ROLLBACK", "PUBLISHED",
           "WITHDRAWPUBLISHED", "ARCHIVED", "PUBLISHING", "PREPUBLISH"}

ASSUME WorkflowAssumption ==
  /\ NoUser \notin Users
  /\ OtherPerformers \subseteq Users
  /\ Groups \subseteq (SUBSET Users) \ {{}}
  /\ Flow \subseteq Status \X (Status \union {"RECYCLED"})
  /\ NeedsPublishing \in BOOLEAN
  /\ MaxTasks \in Nat
  /\ MaxFaults \in Nat

VARIABLES
  status,    \* td_cms_document.status
  deleted,   \* td_cms_document.isdeleted
  task,      \* td_cms_doc_task: the rows of the document, by task_id
  detail,    \* td_cms_doc_task_detail: the rows, by <<task_id, performer>>
  created,   \* the last task_id handed out by getNextPrimaryKey
  web,       \* the requests in progress
  faults     \* history: the statements that threw so far

docVars == <<status, deleted>>
tables == <<status, deleted, task, detail>>
vars == <<status, deleted, task, detail, created, web, faults>>

Idle == [user |-> NoUser, task |-> 0, made |-> 0, executer |-> NoUser,
         read |-> "none", todo |-> <<>>]

Init ==
  /\ status = "NEW"
  /\ deleted = FALSE
  /\ task = <<>>
  /\ detail = <<>>
  /\ created = 0
  /\ web = [r \in Requests |-> Idle]
  /\ faults = 0
------------------------------------------------------------------------------
(* The tables.  complete_time and after_status are written together: after   *)
(* is "none" while both are null.                                            *)

Row(f, k, v) == [x \in DOMAIN f \union {k} |-> IF x = k THEN v ELSE f[x]]
Without(f, S) == [x \in DOMAIN f \ S |-> f[x]]

DetailsOf(t) == {k \in DOMAIN detail : k[1] = t}
Done(t) == \E k \in DetailsOf(t) : detail[k].after # "none"

\* valid = 1 and complete_time is null: what the to-do lists show
IsOpen(k) == detail[k].valid /\ detail[k].after = "none"

\* A row of u's list of documents to audit, to rework or to publish
Listed(u, t, pre) ==
  /\ ~deleted
  /\ status = pre
  /\ t \in DOMAIN task
  /\ task[t].pre = pre
  /\ <<t, u>> \in DOMAIN detail
  /\ IsOpen(<<t, u>>)

\* The tasks hasTask finds: it reads complete_time, and never valid
Held(u, pre) ==
  {t \in DOMAIN task : task[t].pre = pre /\ <<t, u>> \in DOMAIN detail /\ ~Done(t)}

CanTransition(dest) == <<status, dest>> \in Flow

Answer(f, t, u, s) ==
  [k \in DOMAIN f |->
     IF k[1] = t /\ f[k].valid
     THEN IF k[2] = u THEN [f[k] EXCEPT !.after = s] ELSE [f[k] EXCEPT !.valid = FALSE]
     ELSE f[k]]
------------------------------------------------------------------------------
(* The statements of a request, and the methods as sequences of statements *)

Check(dest, skip) == [do |-> "check", dest |-> dest, skip |-> skip]
FindTask(pre) == [do |-> "findTask", pre |-> pre]
FindExecuter == [do |-> "findExecuter"]
ReadStatus == [do |-> "readStatus"]
SetStatus(s) == [do |-> "setStatus", dest |-> s]
InsertTask(pre, linked) == [do |-> "insertTask", pre |-> pre, linked |-> linked]
InsertDetails(S) == [do |-> "insertDetails", performers |-> S]
InsertRework == [do |-> "insertRework"]
InsertExecuter == [do |-> "insertExecuter"]
Complete(s) == [do |-> "complete", after |-> s]
Invalidate == [do |-> "invalidate"]
PickDelivery == [do |-> "pickDelivery"]
DeleteDetails == [do |-> "deleteDetails"]
DeleteTask == [do |-> "deleteTask"]
EndPublish == [do |-> "endPublish"]
Garbage == [do |-> "garbage"]
Recover == [do |-> "recover"]

\* if (canTransition(docid, dest) >= 0) { ... }
Guarded(dest, body) == <<Check(dest, Len(body))>> \o body

completeOneTask(s) == <<Complete(s), Invalidate>>

\* The previous task is the request's; for a new document it is 0, and the
\* last two statements, which the code then leaves out, change nothing.
deliverDoc(auditors) ==
  <<SetStatus("UNAUDIT"), InsertTask("UNAUDIT", TRUE), InsertDetails(auditors)>>
    \o completeOneTask("UNAUDIT")

withdrawDeliver == <<SetStatus("NEW"), PickDelivery, DeleteDetails, DeleteTask>>

\* Mutant: rejecting a document leaves no rework task behind.
auditWithoutRework(verdict) == <<SetStatus(verdict)>> \o completeOneTask(verdict)

audit(verdict) ==
  <<SetStatus(verdict)>> \o completeOneTask(verdict)
    \o IF verdict = "ROLLBACK" THEN <<InsertTask("ROLLBACK", TRUE), InsertRework>>
       ELSE <<>>

subPublishDoc(publishers, linked) ==
  <<SetStatus("PREPUBLISH"), InsertTask("PREPUBLISH", linked), InsertDetails(publishers)>>

toPubWithdraw ==
  completeOneTask("ROLLBACK")
    \o <<SetStatus("ROLLBACK"), InsertTask("ROLLBACK", TRUE), InsertExecuter>>

publishDocument == <<ReadStatus, SetStatus("PUBLISHING"), EndPublish>>
------------------------------------------------------------------------------
(* The pages: what a user is offered, and the program of the handler *)

Submit(r, u, t, program) ==
  /\ web[r] = Idle
  /\ web' = [web EXCEPT ![r] = [Idle EXCEPT !.user = u, !.task = t, !.todo = program]]
  /\ UNCHANGED <<tables, created, faults>>

\* The buttons above the document list check the status, not the task, when
\* the dialog is opened; its handler looks for a rework task of the user
\* and checks nothing.
SendForAudit(r, u) ==
  /\ ~deleted
  /\ CanTransition("UNAUDIT")
  /\ \E auditors \in Groups :
       Submit(r, u, 0, <<FindTask("ROLLBACK")>> \o deliverDoc(auditors))

SubmitForPublish(r, u) ==
  /\ ~deleted
  /\ CanTransition("PREPUBLISH")
  /\ \E publishers \in Groups : Submit(r, u, 0, subPublishDoc(publishers, FALSE))

\* From the list of documents to rework
Resend(r, u, t) ==
  /\ Listed(u, t, "ROLLBACK")
  /\ \E auditors \in Groups : Submit(r, u, t, Guarded("UNAUDIT", deliverDoc(auditors)))

\* auditDocHandle.jsp: a document that needs no publishing is published by it
AuditHandler(verdict) ==
  Guarded(verdict,
    audit(verdict) \o IF verdict = "AUDITED" /\ ~NeedsPublishing
                      THEN <<SetStatus("PUBLISHED")>> ELSE <<>>)

\* From the list of documents to audit, which hands the task on ...
AuditListed(r, u, t) ==
  /\ Listed(u, t, "UNAUDIT")
  /\ \E verdict \in {"AUDITED", "ROLLBACK"} : Submit(r, u, t, AuditHandler(verdict))

\* ... and from the menu of the document list, which does not: getDocOpers
\* offers it to who has a task, and the handler looks for the task again.
AuditFromMenu(r, u) ==
  /\ ~deleted
  /\ CanTransition("AUDITED")
  /\ Held(u, "UNAUDIT") # {}
  /\ \E verdict \in {"AUDITED", "ROLLBACK"} :
       Submit(r, u, 0, <<FindTask("UNAUDIT")>> \o AuditHandler(verdict))

\* Audited and sent on to further auditors
AuditAndSend(r, u, t) ==
  /\ Listed(u, t, "UNAUDIT")
  /\ \E auditors \in Groups :
       Submit(r, u, t, Guarded("AUDITED", audit("AUDITED"))
                         \o Guarded("UNAUDIT", deliverDoc(auditors)))

\* Audited and submitted for publishing
AuditAndSubmit(r, u, t) ==
  /\ Listed(u, t, "UNAUDIT")
  /\ \E publishers \in Groups :
       Submit(r, u, t,
         Guarded("AUDITED",
           audit("AUDITED") \o Guarded("PREPUBLISH", subPublishDoc(publishers, TRUE))))

\* Audited and published at once
AuditAndPublish(r, u, t) ==
  /\ Listed(u, t, "UNAUDIT")
  /\ Submit(r, u, t, Guarded("AUDITED", audit("AUDITED")
                                          \o Guarded("PUBLISHED", publishDocument)))

WithdrawDelivery(r, u) ==
  /\ ~deleted
  /\ CanTransition("NEW")
  /\ Submit(r, u, 0, Guarded("NEW", withdrawDeliver))

\* From the list of documents to publish: sent back to be reworked.  The
\* handler checks no status.
WithdrawFromPublishing(r, u, t) ==
  /\ Listed(u, t, "PREPUBLISH")
  /\ Submit(r, u, t, <<FindExecuter>> \o toPubWithdraw)

Publish(r, u) ==
  /\ ~deleted
  /\ CanTransition("PUBLISHED")
  /\ Submit(r, u, 0, Guarded("PUBLISHED", publishDocument))

\* The batch of the list of documents to publish: its handler computes the
\* transitions and ignores them.
PublishListed(r, u, t) ==
  /\ Listed(u, t, "PREPUBLISH")
  /\ Submit(r, u, 0, publishDocument)

WithdrawPublished(r, u) ==
  /\ ~deleted
  /\ CanTransition("WITHDRAWPUBLISHED")
  /\ Submit(r, u, 0, Guarded("WITHDRAWPUBLISHED", <<SetStatus("WITHDRAWPUBLISHED")>>))

\* The handler computes the transition and ignores the result.
Archive(r, u) ==
  /\ ~deleted
  /\ CanTransition("ARCHIVED")
  /\ Submit(r, u, 0, <<SetStatus("ARCHIVED")>>)

\* The source statuses of the flow but ARCHIVED and ROLLBACK; everybody who
\* may gets the task.
RestoreArchived(r, u) ==
  /\ ~deleted
  /\ status = "ARCHIVED"
  /\ \E dest \in {s[1] : s \in Flow} \ {"ARCHIVED", "ROLLBACK", "PUBLISHING"} :
       Submit(r, u, 0,
         <<SetStatus(dest)>>
           \o IF dest \in {"UNAUDIT", "PREPUBLISH"}
              THEN <<InsertTask(dest, FALSE), InsertDetails(Users)>> ELSE <<>>)

Recycle(r, u) ==
  /\ ~deleted
  /\ CanTransition("RECYCLED")
  /\ Submit(r, u, 0, Guarded("RECYCLED", <<ReadStatus, Garbage>>))

RecoverRecycled(r, u) ==
  /\ deleted
  /\ Submit(r, u, 0, <<ReadStatus, Recover>>)
------------------------------------------------------------------------------
(* The statements at work *)

Runs(r, kind) == web[r].todo # <<>> /\ Head(web[r].todo).do = kind
Now(r) == Head(web[r].todo)

\* The request goes on, with w for its local variables.
Continue(r, w) ==
  web' = [web EXCEPT ![r] =
            IF Tail(web[r].todo) = <<>> THEN Idle
            ELSE [w EXCEPT !.todo = Tail(web[r].todo)]]

Proceed(r) == Continue(r, web[r])

RunCheck(r) ==
  LET rest == Tail(web[r].todo)
      skipped == SubSeq(rest, Now(r).skip + 1, Len(rest))
      left == IF CanTransition(Now(r).dest) THEN rest ELSE skipped
  IN  /\ Runs(r, "check")
      /\ web' = [web EXCEPT ![r] = IF left = <<>> THEN Idle ELSE [@ EXCEPT !.todo = left]]
      /\ UNCHANGED <<tables, created, faults>>

\* The first row of an unordered result; 0 when there is none.
RunFindTask(r) ==
  /\ Runs(r, "findTask")
  /\ LET held == Held(web[r].user, Now(r).pre)
     IN  \E t \in IF held = {} THEN {0} ELSE held :
           Continue(r, [web[r] EXCEPT !.task = t])
  /\ UNCHANGED <<tables, created, faults>>

\* getPreSubmitterId: who completed the previous task; failing that, its second
\* query joins the details to no task, and finds any valid one of any document.
RunFindExecuter(r) ==
  LET t == web[r].task
      before == IF t \in DOMAIN task THEN task[t].prev ELSE 0
      answered == {k \in DetailsOf(before) : detail[k].valid /\ detail[k].after # "none"}
      valid == {k[2] : k \in {x \in DOMAIN detail : detail[x].valid}} \union OtherPerformers
      found == IF before \in DOMAIN task /\ answered # {}
               THEN {k[2] : k \in answered}
               ELSE IF t \in DOMAIN task THEN valid ELSE {}
  IN  /\ Runs(r, "findExecuter")
      /\ \E u \in IF found = {} THEN {NoUser} ELSE found :
           Continue(r, [web[r] EXCEPT !.executer = u])
      /\ UNCHANGED <<tables, created, faults>>

RunReadStatus(r) ==
  /\ Runs(r, "readStatus")
  /\ Continue(r, [web[r] EXCEPT !.read = status])
  /\ UNCHANGED <<tables, created, faults>>

RunSetStatus(r) ==
  /\ Runs(r, "setStatus")
  /\ status' = Now(r).dest
  /\ Proceed(r)
  /\ UNCHANGED <<deleted, task, detail, created, faults>>

\* Mutant: the key of the task is not taken from the sequence.
RunInsertTaskSameKey(r) ==
  /\ Runs(r, "insertTask")
  /\ created < MaxTasks
  /\ task' = Row(task, created + 1, [pre |-> Now(r).pre, submit |-> web[r].user,
                                    prev |-> IF Now(r).linked THEN web[r].task ELSE 0])
  /\ Continue(r, [web[r] EXCEPT !.made = created + 1])
  /\ UNCHANGED <<docVars, detail, created, faults>>

RunInsertTask(r) ==
  /\ Runs(r, "insertTask")
  /\ created < MaxTasks
  /\ created' = created + 1
  /\ task' = Row(task, created', [pre |-> Now(r).pre, submit |-> web[r].user,
                                  prev |-> IF Now(r).linked THEN web[r].task ELSE 0])
  /\ Continue(r, [web[r] EXCEPT !.made = created'])
  /\ UNCHANGED <<docVars, detail, faults>>

InsertDetail(r, u) ==
  detail' = Row(detail, <<web[r].made, u>>, [valid |-> TRUE, after |-> "none"])

\* One row for each performer, in the order of the request
RunInsertDetails(r) ==
  /\ Runs(r, "insertDetails")
  /\ \E u \in Now(r).performers :
       /\ InsertDetail(r, u)
       /\ LET others == Now(r).performers \ {u}
          IN  IF others = {} THEN Proceed(r)
              ELSE web' = [web EXCEPT ![r].todo =
                             <<InsertDetails(others)>> \o Tail(web[r].todo)]
  /\ UNCHANGED <<docVars, task, created, faults>>

\* Mutant: the rework is for who rejected the document.
RunInsertReworkForAuditor(r) ==
  /\ Runs(r, "insertRework")
  /\ InsertDetail(r, web[r].user)
  /\ Proceed(r)
  /\ UNCHANGED <<docVars, task, created, faults>>

\* The rework is for who had sent the audited task, if that task still exists.
RunInsertRework(r) ==
  /\ Runs(r, "insertRework")
  /\ IF web[r].task \in DOMAIN task
     THEN InsertDetail(r, task[web[r].task].submit)
     ELSE UNCHANGED detail
  /\ Proceed(r)
  /\ UNCHANGED <<docVars, task, created, faults>>

RunInsertExecuter(r) ==
  /\ Runs(r, "insertExecuter")
  /\ InsertDetail(r, web[r].executer)
  /\ Proceed(r)
  /\ UNCHANGED <<docVars, task, created, faults>>

\* The valid detail of the user is completed, completed before or not ...
RunComplete(r) ==
  LET k == <<web[r].task, web[r].user>> IN
  /\ Runs(r, "complete")
  /\ detail' = IF k \in DOMAIN detail /\ detail[k].valid
               THEN [detail EXCEPT ![k].after = Now(r).after] ELSE detail
  /\ Proceed(r)
  /\ UNCHANGED <<docVars, task, created, faults>>

\* Mutant: the details of the others stay valid.
RunInvalidateNothing(r) ==
  /\ Runs(r, "invalidate")
  /\ Proceed(r)
  /\ UNCHANGED <<tables, created, faults>>

\* ... and those of the others are made invalid, completed or not.
RunInvalidate(r) ==
  /\ Runs(r, "invalidate")
  /\ detail' = [k \in DOMAIN detail |->
       IF k[1] = web[r].task /\ k[2] # web[r].user
       THEN [detail[k] EXCEPT !.valid = FALSE] ELSE detail[k]]
  /\ Proceed(r)
  /\ UNCHANGED <<docVars, task, created, faults>>

\* The audit task to withdraw: the first one sent without a previous task
RunPickDelivery(r) ==
  /\ Runs(r, "pickDelivery")
  /\ LET sent == {t \in DOMAIN task : task[t].pre = "UNAUDIT" /\ task[t].prev = 0}
     IN  \E t \in IF sent = {} THEN {0} ELSE sent :
           Continue(r, [web[r] EXCEPT !.task = t])
  /\ UNCHANGED <<tables, created, faults>>

RunDeleteDetails(r) ==
  /\ Runs(r, "deleteDetails")
  /\ detail' = Without(detail, DetailsOf(web[r].task))
  /\ Proceed(r)
  /\ UNCHANGED <<docVars, task, created, faults>>

RunDeleteTask(r) ==
  /\ Runs(r, "deleteTask")
  /\ task' = Without(task, {web[r].task})
  /\ Proceed(r)
  /\ UNCHANGED <<docVars, detail, created, faults>>

\* The transaction that ends a publication: PUBLISHED and the publish task
\* completed, or the status the publication began with.
RunEndPublish(r) ==
  LET waiting == {t \in DOMAIN task : /\ task[t].pre = "PREPUBLISH"
                                      /\ \E k \in DetailsOf(t) : IsOpen(k)}
  IN  /\ Runs(r, "endPublish")
      /\ \/ /\ status' = "PUBLISHED"
            /\ \/ waiting = {} /\ UNCHANGED detail
               \/ \E t \in waiting : detail' = Answer(detail, t, web[r].user, "PUBLISHED")
         \/ status' = web[r].read /\ UNCHANGED detail
      /\ Proceed(r)
      /\ UNCHANGED <<deleted, task, created, faults>>

CurrentDetails(s) == {k \in DOMAIN detail : k[1] \in DOMAIN task /\ task[k[1]].pre = s}

\* Mutant: the details that are not completed are made invalid, as the comment
\* of garbageDoc has it; recoverDoc does not bring these back.
RunGarbageOpen(r) ==
  /\ Runs(r, "garbage")
  /\ deleted' = TRUE
  /\ detail' = [k \in DOMAIN detail |->
       IF k \in CurrentDetails(web[r].read) /\ detail[k].after = "none"
       THEN [detail[k] EXCEPT !.valid = FALSE] ELSE detail[k]]
  /\ Proceed(r)
  /\ UNCHANGED <<status, task, created, faults>>

\* Both transactions touch the completed details of the tasks of the status.
RunGarbage(r) ==
  /\ Runs(r, "garbage")
  /\ deleted' = TRUE
  /\ detail' = [k \in DOMAIN detail |->
       IF k \in CurrentDetails(web[r].read) /\ detail[k].after # "none"
       THEN [detail[k] EXCEPT !.valid = FALSE] ELSE detail[k]]
  /\ Proceed(r)
  /\ UNCHANGED <<status, task, created, faults>>

RunRecover(r) ==
  /\ Runs(r, "recover")
  /\ deleted' = FALSE
  /\ detail' = [k \in DOMAIN detail |->
       IF k \in CurrentDetails(web[r].read) /\ detail[k].after # "none"
       THEN [detail[k] EXCEPT !.valid = TRUE] ELSE detail[k]]
  /\ Proceed(r)
  /\ UNCHANGED <<status, task, created, faults>>

\* The statement throws and the handler shows an error: the statements before
\* it stay.  hasTask swallows the exception and returns 0.
Throw(r) ==
  /\ web[r].todo # <<>>
  /\ faults < MaxFaults
  /\ faults' = faults + 1
  /\ IF Runs(r, "findTask") THEN Continue(r, [web[r] EXCEPT !.task = 0])
     ELSE web' = [web EXCEPT ![r] = Idle]
  /\ UNCHANGED <<tables, created>>
------------------------------------------------------------------------------
Page(r, u) ==
  \/ SendForAudit(r, u) \/ SubmitForPublish(r, u) \/ AuditFromMenu(r, u)
  \/ WithdrawDelivery(r, u) \/ Publish(r, u) \/ WithdrawPublished(r, u)
  \/ Archive(r, u) \/ RestoreArchived(r, u) \/ Recycle(r, u) \/ RecoverRecycled(r, u)
  \/ \E t \in DOMAIN task :
       \/ Resend(r, u, t) \/ AuditListed(r, u, t) \/ AuditAndSend(r, u, t)
       \/ AuditAndSubmit(r, u, t) \/ AuditAndPublish(r, u, t)
       \/ WithdrawFromPublishing(r, u, t) \/ PublishListed(r, u, t)

Statement(r) ==
  \/ RunCheck(r) \/ RunFindTask(r) \/ RunFindExecuter(r) \/ RunReadStatus(r)
  \/ RunSetStatus(r) \/ RunInsertTask(r) \/ RunInsertDetails(r) \/ RunInsertRework(r)
  \/ RunInsertExecuter(r) \/ RunComplete(r) \/ RunInvalidate(r) \/ RunPickDelivery(r)
  \/ RunDeleteDetails(r) \/ RunDeleteTask(r) \/ RunEndPublish(r) \/ RunGarbage(r)
  \/ RunRecover(r)

Next == \E r \in Requests : Statement(r) \/ Throw(r) \/ \E u \in Users : Page(r, u)

Spec == Init /\ [][Next]_vars
------------------------------------------------------------------------------
(* Properties *)

\* The types of the tables and of the requests.
WorkflowTypeOK ==
  /\ status \in Status
  /\ deleted \in BOOLEAN
  /\ created \in 0 .. MaxTasks
  /\ DOMAIN task \subseteq 1 .. created
  /\ \A t \in DOMAIN task :
       task[t] \in [pre : Status, submit : Users, prev : 0 .. (t - 1)]
  /\ DOMAIN detail \subseteq (1 .. created) \X (Users \union {NoUser})
  /\ \A k \in DOMAIN detail :
       detail[k] \in [valid : BOOLEAN, after : Status \union {"none"}]
  /\ \A r \in Requests :
       /\ web[r].user \in Users \union {NoUser}
       /\ web[r].task \in 0 .. created
       /\ web[r].made \in 0 .. created
       /\ web[r].executer \in Users \union {NoUser}
       /\ web[r].read \in Status \union {"none"}
  /\ faults \in 0 .. MaxFaults

Settled == faults = 0 /\ \A r \in Requests : web[r] = Idle

\* A document that waits for somebody is on somebody's list: when no request is
\* in progress and no statement has failed, a document to audit, to rework or
\* to publish, not recycled, has an open task a user sees.
WaitingIsListed ==
  Settled /\ ~deleted /\ status \in {"UNAUDIT", "ROLLBACK", "PREPUBLISH"}
    => \E u \in Users, t \in DOMAIN task : Listed(u, t, status)

\* A task is answered once: when one performer has completed it, it is open for
\* no other ("the audit tasks of the others are made invalid", audit).
AnsweredIsClosed ==
  Settled => \A t \in DOMAIN task : Done(t) => ~\E k \in DetailsOf(t) : IsOpen(k)

\* A rejection is never lost: a task completed with ROLLBACK, by audit or by
\* toPubWithdraw, has a rework task that follows it.
RejectedHasRework ==
  Settled => \A k \in DOMAIN detail :
    k[1] \in DOMAIN task /\ detail[k].after = "ROLLBACK"
      => \E t \in DOMAIN task : task[t].prev = k[1] /\ task[t].pre = "ROLLBACK"

\* The rework after a rejected audit is for who sent the document for that
\* audit, and for nobody else, whatever requests and errors came between.
ReworkGoesBack ==
  \A k \in DOMAIN detail :
    k[1] \in DOMAIN task =>
      LET t == k[1]
          before == task[t].prev
      IN  task[t].pre = "ROLLBACK" /\ before \in DOMAIN task
            /\ task[before].pre = "UNAUDIT"
          => k[2] = task[before].submit
==============================================================================
