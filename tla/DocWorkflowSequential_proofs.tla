---------------------- MODULE DocWorkflowSequential_proofs ----------------------
(* What DocWorkflow promises when requests follow one another: a document    *)
(* that waits is on a list, a task is answered once.  With two requests at   *)
(* once neither holds.                                                       *)
EXTENDS DocWorkflow_proofs

OneRequest == \A r, q \in Requests : r = q

\* Somebody has the task t for the status st on a list.
Covers(t, st) ==
  /\ t \in DOMAIN task
  /\ task[t].pre = st
  /\ \E u \in Users : <<t, u>> \in DOMAIN detail /\ IsOpen(<<t, u>>)

Covered(st) == \E t \in DOMAIN task : Covers(t, st)
Fine(st) == st \in Waiting => Covered(st)

Busy(r) == web[r].todo # <<>>

\* A performer is about to be given the task of the present status.
Assigning(r) ==
  /\ Busy(r)
  /\ Now(r).do \in Inserts
  /\ task[web[r].made].pre = status

\* A document nobody has on a list is one the request in progress will give
\* another status, or a task.
Settles == Fine(status) \/ \E r \in Requests :
                             WillAt(web[r].todo, 1, status) \/ Assigning(r)

\* A task completed and open is about to be closed for all but who completed it.
Answers ==
  \A k \in DOMAIN detail :
    IsOpen(k) /\ Done(k[1]) =>
      \E r \in Requests :
        Runs(r, "invalidate") /\ web[r].task = k[1] /\ k[2] # web[r].user

\* The task to be inserted or to get performers is the one of the present status.
Inserting(r) ==
  /\ Now(r).do \in Inserts => web[r].made \in DOMAIN task /\ ~Done(web[r].made)
  /\ Now(r).do = "insertDetails" => task[web[r].made].pre = status
  /\ Now(r).do = "insertTask" /\ Now(r).pre # "ROLLBACK" => status = Now(r).pre

\* Whoever closes a task, or takes it away, leaves no document waiting for it.
Closing(r) ==
  /\ Now(r).do \in {"complete", "invalidate"} =>
       \/ status \notin Waiting
       \/ WillAt(web[r].todo, 1, status)
       \/ \E t \in DOMAIN task : t # web[r].task /\ Covers(t, status)
  /\ Now(r).do \in Deletes => status \notin Waiting
  /\ Now(r).do = "endPublish" \/ (Now(r).do = "setStatus" /\ Now(r).dest = "PUBLISHING") =>
       Fine(web[r].read)

\* Whoever is to rework the document will be found.
Finding(r) ==
  /\ "insertRework" \in Kinds(web[r].todo) =>
       IF Now(r).do = "findTask" THEN Held(web[r].user, Now(r).pre) # {}
       ELSE web[r].task \in DOMAIN task
  /\ Now(r).do = "findExecuter" =>
       web[r].task \in DOMAIN task /\ \E k \in DOMAIN detail : detail[k].valid
  /\ "insertExecuter" \in Kinds(web[r].todo) /\ Now(r).do # "findExecuter" =>
       web[r].executer \in Users

Performed == \A k \in DOMAIN detail : k[2] \in Users

Sound ==
  /\ Performed
  /\ Settles
  /\ Answers
  /\ \A r \in Requests : Busy(r) => Inserting(r) /\ Closing(r) /\ Finding(r)

SequentialInv == faults = 0 => Sound
------------------------------------------------------------------------------
(* The steps of a request *)

\* A request goes on with the locals v.
LEMMA GoesOn ==
  ASSUME WebOK, NEW r \in Requests, Busy(r), NEW v, v \in Locals, Continue(r, v)
  PROVE  /\ Busy(r)' => /\ web'[r].task = v.task /\ web'[r].made = v.made
                        /\ web'[r].executer = v.executer /\ web'[r].read = v.read
                        /\ web'[r].user = v.user
                        /\ Now(r)' = web[r].todo[2]
                        /\ Precedes(Now(r), Now(r)')
                        /\ Kinds(web'[r].todo) \subseteq Kinds(web[r].todo)
         /\ 1 < Len(web[r].todo) => Busy(r)'
         /\ \A B, T : Ahead(web[r].todo, 2, B, T) =>
                        Busy(r)' /\ Ahead(web'[r].todo, 1, B, T)
<1>. DEFINE s == web[r].todo
            t == Tail(s)
            x == IF t = <<>> THEN Idle ELSE [v EXCEPT !.todo = t]
<1>1. Rules(s) /\ s \in Seq(Statements) /\ s # <<>> /\ web \in [Requests -> Locals]
  BY DEF WebOK, RequestOK, Rules, Busy
<1>2. /\ Len(s) \in Nat \ {0} /\ Suffix(s, 1, t) /\ s[1] = Head(s)
      /\ t = <<>> <=> Len(s) = 1
  BY <1>1, TailIsSuffix
<1>3. Rules(t) /\ Kinds(t) \subseteq Kinds(s) /\ t \in Seq(Statements)
  BY <1>1, <1>2, SuffixRules DEF Rules
<1>. HIDE DEF t
<1>4. web'[r] = x
  BY <1>1 DEF Continue, t
<1>5. t # <<>> =>
        /\ x.todo = t /\ x.task = v.task /\ x.made = v.made
        /\ x.executer = v.executer /\ x.read = v.read /\ x.user = v.user
  BY ONLY v \in Locals DEF Locals
<1>6. t = <<>> => x.todo = <<>>
  BY DEF Idle
<1>. HIDE DEF x
<1>7. Busy(r)' <=> t # <<>>
  BY <1>4, <1>5, <1>6 DEF Busy
<1>8. ASSUME t # <<>>
      PROVE  Now(r)' = s[2] /\ Precedes(Now(r), Now(r)')
  <2>1. Len(t) \in Nat /\ Len(t) # 0 /\ Len(t) = Len(s) - 1
        /\ \A i \in 1 .. Len(t) : t[i] = s[1 + i]
    BY <1>2, <1>3, <1>8, EmptyProgram DEF Suffix
  <2>2. 1 \in 1 .. Len(t) /\ 1 \in 1 .. (Len(s) - 1) /\ 1 + 1 = 2
    BY <1>2, <2>1
  <2>3. Head(t) = t[1]
    BY <1>3, <1>8, TailIsSuffix
  <2>4. t[1] = s[2] /\ Precedes(s[1], s[2])
    BY <1>1, <2>1, <2>2 DEF Rules
  <2>5. Now(r)' = Head(t)
    BY <1>4, <1>5, <1>8 DEF Now
  <2>. QED BY <1>2, <2>3, <2>4, <2>5 DEF Now
<1>9. ASSUME NEW B, NEW T, Ahead(s, 2, B, T)
      PROVE  t # <<>> /\ Ahead(t, 1, B, T)
  <2>1. Len(s) # 1
    BY <1>2, <1>9 DEF Ahead
  <2>2. Ahead(s, 1 + 1, B, T) /\ 1 \in Nat /\ 1 \in Nat \ {0}
    BY <1>9
  <2>. QED BY <1>1, <1>2, <2>1, <2>2, AheadInSuffix
<1>10. ASSUME t # <<>>
       PROVE  /\ web'[r].task = v.task /\ web'[r].made = v.made
              /\ web'[r].executer = v.executer /\ web'[r].read = v.read
              /\ web'[r].user = v.user /\ web'[r].todo = t
  BY <1>4, <1>5, <1>10
<1>11. 1 < Len(s) => t # <<>>
  <2>. DEFINE n == Len(s)
  <2>1. n \in Nat
    BY <1>2
  <2>2. t = <<>> <=> n = 1
    BY <1>2
  <2>. HIDE DEF n
  <2>3. 1 < n => n # 1
    BY ONLY <2>1
  <2>4. 1 < n => t # <<>>
    BY ONLY <2>2, <2>3
  <2>. QED BY <2>4 DEF n
<1>. QED BY <1>3, <1>7, <1>8, <1>9, <1>10, <1>11

\* The statement that runs is the head of the program.
LEMMA Which ==
  ASSUME NEW r, Statement(r)
  PROVE  /\ Busy(r)
         /\ Now(r).do = "check" => RunCheck(r)
         /\ Now(r).do = "findTask" => RunFindTask(r)
         /\ Now(r).do = "findExecuter" => RunFindExecuter(r)
         /\ Now(r).do = "readStatus" => RunReadStatus(r)
         /\ Now(r).do = "setStatus" => RunSetStatus(r)
         /\ Now(r).do = "insertTask" => RunInsertTask(r)
         /\ Now(r).do = "insertDetails" => RunInsertDetails(r)
         /\ Now(r).do = "insertRework" => RunInsertRework(r)
         /\ Now(r).do = "insertExecuter" => RunInsertExecuter(r)
         /\ Now(r).do = "complete" => RunComplete(r)
         /\ Now(r).do = "invalidate" => RunInvalidate(r)
         /\ Now(r).do = "pickDelivery" => RunPickDelivery(r)
         /\ Now(r).do = "deleteDetails" => RunDeleteDetails(r)
         /\ Now(r).do = "deleteTask" => RunDeleteTask(r)
         /\ Now(r).do = "endPublish" => RunEndPublish(r)
         /\ Now(r).do = "garbage" => RunGarbage(r)
         /\ Now(r).do = "recover" => RunRecover(r)
         /\ Now(r).do \in {"check", "findTask", "findExecuter", "readStatus", "setStatus",
              "insertTask", "insertDetails", "insertRework", "insertExecuter", "complete",
              "invalidate", "pickDelivery", "deleteDetails", "deleteTask", "endPublish",
              "garbage", "recover"}
<1>1. /\ RunCheck(r) => Now(r).do = "check"
      /\ RunFindTask(r) => Now(r).do = "findTask"
      /\ RunFindExecuter(r) => Now(r).do = "findExecuter"
      /\ RunReadStatus(r) => Now(r).do = "readStatus"
      /\ RunSetStatus(r) => Now(r).do = "setStatus"
      /\ RunInsertTask(r) => Now(r).do = "insertTask"
      /\ RunInsertDetails(r) => Now(r).do = "insertDetails"
      /\ RunInsertRework(r) => Now(r).do = "insertRework"
      /\ RunInsertExecuter(r) => Now(r).do = "insertExecuter"
  BY DEF RunCheck, RunFindTask, RunFindExecuter, RunReadStatus, RunSetStatus,
     RunInsertTask, RunInsertDetails, RunInsertRework, RunInsertExecuter, Runs, Now
<1>2. /\ RunComplete(r) => Now(r).do = "complete"
      /\ RunInvalidate(r) => Now(r).do = "invalidate"
      /\ RunPickDelivery(r) => Now(r).do = "pickDelivery"
      /\ RunDeleteDetails(r) => Now(r).do = "deleteDetails"
      /\ RunDeleteTask(r) => Now(r).do = "deleteTask"
      /\ RunEndPublish(r) => Now(r).do = "endPublish"
      /\ RunGarbage(r) => Now(r).do = "garbage"
      /\ RunRecover(r) => Now(r).do = "recover"
  BY DEF RunComplete, RunInvalidate, RunPickDelivery, RunDeleteDetails, RunDeleteTask,
     RunEndPublish, RunGarbage, RunRecover, Runs, Now
<1>3. Busy(r)
  BY StatementRuns DEF Busy
<1>. QED BY <1>1, <1>2, <1>3 DEF Statement

\* The executer found is a performer, or nobody.
LEMMA FoundIsUser ==
  ASSUME WorkflowAssumption, TablesOK, NEW r, RunFindExecuter(r)
  PROVE  \E u \in Users \union {NoUser} : Continue(r, [web[r] EXCEPT !.executer = u])
<1>. DEFINE t == web[r].task
            before == IF t \in DOMAIN task THEN task[t].prev ELSE 0
            answered == {k \in DetailsOf(before) : detail[k].valid /\ detail[k].after # "none"}
            valid == {k[2] : k \in {x \in DOMAIN detail : detail[x].valid}}
                       \union OtherPerformers
            found == IF before \in DOMAIN task /\ answered # {}
                     THEN {k[2] : k \in answered}
                     ELSE IF t \in DOMAIN task THEN valid ELSE {}
<1>1. PICK u \in IF found = {} THEN {NoUser} ELSE found :
        Continue(r, [web[r] EXCEPT !.executer = u])
  BY DEF RunFindExecuter
<1>2. \A k \in DOMAIN detail : k[2] \in Users \union {NoUser}
  BY DEF TablesOK
<1>3. found \subseteq Users \union {NoUser}
  BY <1>2 DEF WorkflowAssumption, DetailsOf
<1>. HIDE DEF found
<1>. QED BY <1>1, <1>3

\* What the step of a request leaves of it: the statement that follows, fewer
\* statements, and the locals that the statement does not set.
LEMMA StepShape ==
  ASSUME WorkflowAssumption, TablesOK, WebOK, NEW r \in Requests, Statement(r), Busy(r)'
  PROVE  /\ Kinds(web'[r].todo) \subseteq Kinds(web[r].todo)
         /\ web'[r].user = web[r].user
         /\ Now(r).do \notin {"findTask", "pickDelivery"} => web'[r].task = web[r].task
         /\ Now(r).do # "findExecuter" => web'[r].executer = web[r].executer
         /\ Now(r).do # "readStatus" => web'[r].read = web[r].read
         /\ Now(r).do # "insertTask" => web'[r].made = web[r].made
         /\ \/ Precedes(Now(r), Now(r)')
            \/ Now(r).do = "check" /\ Free(Now(r)')
            \/ Now(r).do = "insertDetails" /\ Now(r)'.do = "insertDetails"
<1>1. /\ Busy(r) /\ web[r].todo # <<>>
  BY Which DEF Busy
<1>2. /\ web[r] \in Locals /\ Rules(web[r].todo) /\ web[r].todo \in Seq(Statements)
      /\ web[r].todo[1] = Now(r) /\ Now(r) \in Statements /\ Follows(web[r].todo, 1)
  BY <1>1, Running DEF Rules
<1>. DEFINE Shape ==
         /\ Kinds(web'[r].todo) \subseteq Kinds(web[r].todo)
         /\ web'[r].user = web[r].user
         /\ Now(r).do \notin {"findTask", "pickDelivery"} => web'[r].task = web[r].task
         /\ Now(r).do # "findExecuter" => web'[r].executer = web[r].executer
         /\ Now(r).do # "readStatus" => web'[r].read = web[r].read
         /\ Now(r).do # "insertTask" => web'[r].made = web[r].made
         /\ \/ Precedes(Now(r), Now(r)')
            \/ Now(r).do = "check" /\ Free(Now(r)')
            \/ Now(r).do = "insertDetails" /\ Now(r)'.do = "insertDetails"
<1>3. ASSUME NEW v, v \in Locals, Continue(r, v), v.user = web[r].user,
             Now(r).do \notin {"findTask", "pickDelivery"} => v.task = web[r].task,
             Now(r).do # "findExecuter" => v.executer = web[r].executer,
             Now(r).do # "readStatus" => v.read = web[r].read,
             Now(r).do # "insertTask" => v.made = web[r].made
      PROVE  Shape
  BY <1>1, <1>3, GoesOn
<1>4. Proceed(r) => Shape
  BY <1>2, <1>3 DEF Proceed
<1>5. CASE RunCheck(r)
  <2>. DEFINE s == web[r].todo
              k == Now(r).skip
              rest == Tail(s)
              skipped == SubSeq(rest, k + 1, Len(rest))
              left == IF CanTransition(Now(r).dest) THEN rest ELSE skipped
  <2>1. /\ Now(r).do = "check"
        /\ web' = [web EXCEPT ![r] = IF left = <<>> THEN Idle ELSE [@ EXCEPT !.todo = left]]
    BY <1>5 DEF RunCheck, Runs, Now
  <2>2. web'[r] = IF left = <<>> THEN Idle ELSE [web[r] EXCEPT !.todo = left]
    BY <2>1 DEF WebOK
  <2>3. CASE CanTransition(Now(r).dest)
    <3>1. left = Tail(s)
      BY <2>3
    <3>. HIDE DEF left
    <3>2. Continue(r, web[r])
      BY <2>1, <3>1 DEF Continue
    <3>. QED BY <1>4, <3>2 DEF Proceed
  <2>4. CASE ~CanTransition(Now(r).dest)
    <3>1. k \in Nat /\ 1 + k <= Len(s) /\ (1 + k < Len(s) => Free(s[1 + k + 1]))
      BY <1>2, <2>1, Parameters DEF Follows
    <3>2. Len(s) \in Nat
      BY <1>2, EmptyProgram
    <3>3. k + 1 <= Len(s)
      BY <3>1, <3>2
    <3>. HIDE DEF k
    <3>4. Suffix(s, k + 1, skipped) /\ (skipped = <<>> <=> k + 1 = Len(s))
      BY <1>1, <1>2, <3>1, <3>3, SkipIsSuffix
    <3>5. left = skipped
      BY <2>4
    <3>. HIDE DEF left, skipped
    <3>6. skipped # <<>>
      BY <2>2, <3>5 DEF Busy, Idle
    <3>7. web'[r] = [web[r] EXCEPT !.todo = skipped]
      BY <2>2, <3>5, <3>6
    <3>8. /\ web'[r].user = web[r].user /\ web'[r].task = web[r].task
          /\ web'[r].executer = web[r].executer /\ web'[r].read = web[r].read
          /\ web'[r].made = web[r].made /\ web'[r].todo = skipped
      BY ONLY <1>2, <3>7 DEF Locals
    <3>9. k + 1 < Len(s) /\ k + 1 \in Nat
      BY <3>1, <3>2, <3>3, <3>4, <3>6
    <3>10. skipped \in Seq(Statements) /\ Kinds(skipped) \subseteq Kinds(s)
      BY <1>2, <3>4, <3>9, SuffixRules DEF Suffix
    <3>11. skipped[1] = s[1 + k + 1]
      <4>1. Len(skipped) = Len(s) - (k + 1)
            /\ \A i \in 1 .. Len(skipped) : skipped[i] = s[(k + 1) + i]
        BY <3>4 DEF Suffix
      <4>2. 1 \in 1 .. Len(skipped) /\ (k + 1) + 1 = 1 + k + 1
        BY <3>1, <3>2, <3>9, <4>1
      <4>. QED BY <4>1, <4>2
    <3>12. Free(s[1 + k + 1])
      BY <3>1, <3>2, <3>9
    <3>13. Now(r)' = skipped[1]
      <4>1. Head(skipped) = skipped[1]
        BY <3>6, <3>10, TailIsSuffix
      <4>. QED BY <3>8, <4>1 DEF Now
    <3>. QED BY <2>1, <3>8, <3>10, <3>11, <3>12, <3>13
  <2>. QED BY <2>3, <2>4
<1>6. CASE RunInsertDetails(r)
  <2>. DEFINE others(u) == Now(r).performers \ {u}
  <2>1. PICK u \in Now(r).performers :
          IF others(u) = {} THEN Proceed(r)
          ELSE web' = [web EXCEPT ![r].todo = <<InsertDetails(others(u))>> \o Tail(web[r].todo)]
    BY <1>6 DEF RunInsertDetails
  <2>2. Now(r).do = "insertDetails"
    BY <1>6 DEF RunInsertDetails, Runs, Now
  <2>3. CASE others(u) # {}
    <3>. DEFINE y == InsertDetails(others(u))
                t == <<y>> \o Tail(web[r].todo)
    <3>1. Now(r).performers \in SUBSET Users
      BY <1>2, <2>2, Parameters
    <3>2. others(u) \in (SUBSET Users) \ {{}}
      BY <2>3, <3>1
    <3>3. y \in Statements /\ y.do = "insertDetails"
      BY <3>2, Constructors
    <3>4. web' = [web EXCEPT ![r].todo = t]
      BY <2>1, <2>3
    <3>. HIDE DEF y
    <3>5. Rules(t) /\ Kinds(t) = Kinds(web[r].todo) /\ t[1] = y /\ t # <<>>
      BY <1>1, <1>2, <2>2, <3>3, ReplaceRules
    <3>. HIDE DEF t
    <3>6. web'[r] = [web[r] EXCEPT !.todo = t]
      BY <3>4 DEF WebOK
    <3>7. /\ web'[r].user = web[r].user /\ web'[r].task = web[r].task
          /\ web'[r].executer = web[r].executer /\ web'[r].read = web[r].read
          /\ web'[r].made = web[r].made /\ web'[r].todo = t
      BY ONLY <1>2, <3>6 DEF Locals
    <3>8. Now(r)' = y
      <4>1. Head(t) = t[1]
        BY <3>5, TailIsSuffix DEF Rules
      <4>. QED BY <3>5, <3>7, <4>1 DEF Now
    <3>. QED BY <2>2, <3>3, <3>5, <3>7, <3>8
  <2>. QED BY <1>4, <2>1, <2>3
<1>7. /\ RunFindTask(r) \/ RunPickDelivery(r) => Now(r).do \in {"findTask", "pickDelivery"}
      /\ RunFindExecuter(r) => Now(r).do = "findExecuter"
      /\ RunReadStatus(r) => Now(r).do = "readStatus"
      /\ RunInsertTask(r) => Now(r).do = "insertTask"
  BY DEF RunFindTask, RunPickDelivery, RunFindExecuter, RunReadStatus, RunInsertTask,
     Runs, Now
<1>8. CASE RunFindTask(r) \/ RunPickDelivery(r)
  <2>1. PICK n \in Nat : Continue(r, [web[r] EXCEPT !.task = n])
    <3>1. \A n \in DOMAIN task : n \in Nat
      BY DEF TablesOK
    <3>. QED BY <1>8, <3>1 DEF RunFindTask, RunPickDelivery, Held
  <2>. DEFINE v == [web[r] EXCEPT !.task = n]
  <2>2. /\ v \in Locals /\ v.user = web[r].user /\ v.executer = web[r].executer
        /\ v.read = web[r].read /\ v.made = web[r].made
    BY ONLY <1>2, n \in Nat DEF Locals
  <2>3. Continue(r, v)
    BY <2>1
  <2>. HIDE DEF v
  <2>. QED BY <1>3, <1>7, <1>8, <2>2, <2>3
<1>9. CASE RunFindExecuter(r)
  <2>1. PICK u \in Users \union {NoUser} : Continue(r, [web[r] EXCEPT !.executer = u])
    BY <1>9, FoundIsUser
  <2>. DEFINE v == [web[r] EXCEPT !.executer = u]
  <2>2. /\ v \in Locals /\ v.user = web[r].user /\ v.task = web[r].task
        /\ v.read = web[r].read /\ v.made = web[r].made
    BY ONLY <1>2, u \in Users \union {NoUser} DEF Locals
  <2>3. Continue(r, v)
    BY <2>1
  <2>. HIDE DEF v
  <2>. QED BY <1>3, <1>7, <1>9, <2>2, <2>3
<1>10. CASE RunReadStatus(r)
  <2>. DEFINE v == [web[r] EXCEPT !.read = status]
  <2>1. status \in Status
    BY DEF TablesOK
  <2>2. /\ v \in Locals /\ v.user = web[r].user /\ v.task = web[r].task
        /\ v.executer = web[r].executer /\ v.made = web[r].made
    BY ONLY <1>2, <2>1 DEF Locals
  <2>3. Continue(r, v)
    BY <1>10 DEF RunReadStatus
  <2>. HIDE DEF v
  <2>. QED BY <1>3, <1>7, <1>10, <2>2, <2>3
<1>11. CASE RunInsertTask(r)
  <2>. DEFINE v == [web[r] EXCEPT !.made = created']
  <2>1. created' \in Nat
    BY <1>11 DEF RunInsertTask, TablesOK
  <2>2. /\ v \in Locals /\ v.user = web[r].user /\ v.task = web[r].task
        /\ v.executer = web[r].executer /\ v.read = web[r].read
    BY ONLY <1>2, <2>1 DEF Locals
  <2>3. Continue(r, v)
    BY <1>11 DEF RunInsertTask
  <2>. HIDE DEF v
  <2>. QED BY <1>3, <1>7, <1>11, <2>2, <2>3
<1>12. CASE RunSetStatus(r) \/ RunInsertRework(r) \/ RunInsertExecuter(r) \/ RunComplete(r)
             \/ RunInvalidate(r) \/ RunDeleteDetails(r) \/ RunDeleteTask(r)
             \/ RunEndPublish(r) \/ RunGarbage(r) \/ RunRecover(r)
  <2>1. Proceed(r)
    BY <1>12 DEF RunSetStatus, RunInsertRework, RunInsertExecuter, RunComplete,
       RunInvalidate, RunDeleteDetails, RunDeleteTask, RunEndPublish, RunGarbage, RunRecover
  <2>. QED BY <1>4, <2>1
<1>. QED
  BY <1>5, <1>6, <1>8, <1>9, <1>10, <1>11, <1>12 DEF Statement
------------------------------------------------------------------------------
(* One request at a time *)

\* What is to come of an empty program: nothing.
LEMMA NothingAhead ==
  ASSUME NEW B, NEW T
  PROVE  ~Ahead(<<>>, 1, B, T)
  BY EmptySeq DEF Ahead

\* The statement that runs when another status or a task is to come
LEMMA WillAtHead ==
  ASSUME WebOK, NEW r \in Requests, Busy(r), NEW st, WillAt(web[r].todo, 1, st)
  PROVE  /\ Now(r).do \in {"complete", "invalidate", "setStatus", "insertTask"}
         /\ Now(r).do = "insertTask" => Now(r).pre = st
         /\ Now(r).do \in {"complete", "invalidate"} => WillAt(web[r].todo, 2, st)
<1>1. web[r].todo[1] = Now(r) /\ Now(r) \in Statements /\ web[r].todo \in Seq(Statements)
  BY Running DEF Busy, Rules
<1>2. CASE Now(r) \in Settling(st)
  BY <1>2 DEF Settling
<1>3. CASE Now(r) \notin Settling(st)
  <2>. DEFINE s == web[r].todo
              T == Settling(st)
              B == {"complete", "invalidate"}
  <2>1. Ahead(s, 1, B, T) /\ s[1] \notin T /\ s \in Seq(Statements) /\ 1 \in Nat \ {0}
    BY <1>1, <1>3 DEF WillAt
  <2>. HIDE DEF s, T, B
  <2>2. s[1].do \in B /\ Ahead(s, 1 + 1, B, T)
    BY <2>1, AheadNext
  <2>3. 1 + 1 = 2
    OBVIOUS
  <2>. QED BY <1>1, <2>2, <2>3 DEF WillAt, s, T, B
<1>. QED BY <1>2, <1>3

\* The only request settles what nobody has on a list.
LEMMA OnlySettles ==
  ASSUME OneRequest, WebOK, Settles, NEW r \in Requests
  PROVE  \/ Fine(status)
         \/ Busy(r) /\ (WillAt(web[r].todo, 1, status) \/ Assigning(r))
  BY NothingAhead DEF OneRequest, Settles, WillAt, Assigning, Busy

\* A request that does not come to insert a task or to set a status begins its
\* statement with the document on a list.
LEMMA FineBefore ==
  ASSUME OneRequest, WebOK, Settles, NEW r \in Requests,
         ~Busy(r) \/ Now(r).do \notin {"complete", "invalidate", "setStatus", "insertTask"}
                                        \union Inserts
  PROVE  Fine(status)
  BY OnlySettles, WillAtHead DEF Assigning

\* Only between its completion and its closing a task is open after an answer.
LEMMA AllClosed ==
  ASSUME OneRequest, Answers, NEW r \in Requests, ~Runs(r, "invalidate")
  PROVE  \A k \in DOMAIN detail : ~(IsOpen(k) /\ Done(k[1]))
  BY DEF OneRequest, Answers

\* Tasks and open details that a step leaves as they are
KeepsCovered ==
  /\ \A t \in DOMAIN task : t \in DOMAIN task' /\ task'[t] = task[t]
  /\ \A k \in DOMAIN detail :
       IsOpen(k) => k \in DOMAIN detail' /\ detail'[k] = detail[k]

\* After the step somebody has the task t for the status st on a list.
CoversNext(t, st) ==
  /\ t \in DOMAIN task'
  /\ task'[t].pre = st
  /\ \E u \in Users : /\ <<t, u>> \in DOMAIN detail'
                      /\ detail'[<<t, u>>].valid /\ detail'[<<t, u>>].after = "none"

\* Who has a task on a list keeps it in such a step.
LEMMA CoversKept ==
  ASSUME KeepsCovered, NEW t, NEW st, Covers(t, st)
  PROVE  CoversNext(t, st)
  BY DEF KeepsCovered, Covers, CoversNext, IsOpen

\* The document is on a list after a step, if anybody has a task for its status.
LEMMA FineNext ==
  ASSUME status' \in Waiting => \E t : CoversNext(t, status')
  PROVE  Fine(status)'
  BY DEF Fine, Covered, Covers, CoversNext, IsOpen

\* Another list that a document was on, it stays on.
LEMMA FineKept ==
  ASSUME KeepsCovered, NEW st, Fine(st)
  PROVE  st \in Waiting => \E t : CoversNext(t, st)
  BY CoversKept DEF Fine, Covered

\* The requests that insert a detail insert one of a user, for their new task.
LEMMA Inserted ==
  ASSUME WorkflowAssumption, TablesOK, WebOK, NEW r \in Requests, Statement(r), Finding(r),
         Now(r).do \in Inserts
  PROVE  /\ \E u \in Users : InsertDetail(r, u)
         /\ task' = task /\ status' = status /\ created' = created
<1>1. /\ Now(r) \in Statements /\ Now(r).do \in Kinds(web[r].todo)
  BY Which, Running DEF Busy
<1>2. CASE Now(r).do = "insertDetails"
  <2>1. RunInsertDetails(r)
    BY <1>2, Which
  <2>2. Now(r).performers \in SUBSET Users
    BY <1>1, <1>2, Parameters
  <2>. QED BY <2>1, <2>2 DEF RunInsertDetails, docVars
<1>3. CASE Now(r).do = "insertRework"
  <2>1. RunInsertRework(r)
    BY <1>3, Which
  <2>2. web[r].task \in DOMAIN task
    BY <1>1, <1>3 DEF Finding
  <2>3. task[web[r].task].submit \in Users
    BY <2>2 DEF TablesOK
  <2>. QED BY <2>1, <2>2, <2>3 DEF RunInsertRework, docVars
<1>4. CASE Now(r).do = "insertExecuter"
  <2>1. RunInsertExecuter(r)
    BY <1>4, Which
  <2>2. web[r].executer \in Users
    BY <1>1, <1>4 DEF Finding
  <2>. QED BY <2>1, <2>2 DEF RunInsertExecuter, docVars
<1>. QED BY <1>2, <1>3, <1>4 DEF Inserts

\* Most statements leave the tasks that are open as they are.
LEMMA KeepingSteps ==
  ASSUME WorkflowAssumption, TablesOK, WebOK, NEW r \in Requests, Statement(r), Finding(r),
         Inserting(r),
         Now(r).do \notin {"complete", "invalidate", "deleteDetails", "deleteTask", "endPublish"}
  PROVE  /\ KeepsCovered
         /\ Now(r).do # "setStatus" => status' = status
<1>1. CASE Now(r).do \in Inserts
  <2>1. PICK u \in Users : InsertDetail(r, u)
    BY <1>1, Inserted
  <2>2. task' = task /\ status' = status
    BY <1>1, Inserted
  <2>3. ASSUME NEW k \in DOMAIN detail, IsOpen(k)
        PROVE  k \in DOMAIN detail' /\ detail'[k] = detail[k]
    <3>1. /\ DOMAIN detail' = DOMAIN detail \union {<<web[r].made, u>>}
          /\ detail'[<<web[r].made, u>>] = [valid |-> TRUE, after |-> "none"]
          /\ \A j \in DOMAIN detail : j # <<web[r].made, u>> => detail'[j] = detail[j]
      BY <2>1, InsertDetailOK
    <3>2. detail[k] = [valid |-> TRUE, after |-> "none"]
      BY <2>3 DEF TablesOK, IsOpen
    <3>. QED BY <3>1, <3>2
  <2>. QED BY <2>2, <2>3 DEF KeepsCovered
<1>2. CASE Now(r).do = "insertTask"
  <2>1. RunInsertTask(r)
    BY <1>2, Which
  <2>2. \A t \in DOMAIN task : t \in DOMAIN task' /\ task'[t] = task[t]
    BY <2>1, InsertKept DEF RunInsertTask
  <2>3. detail' = detail /\ status' = status
    BY <2>1 DEF RunInsertTask, docVars
  <2>. QED BY <2>2, <2>3 DEF KeepsCovered
<1>3. CASE Now(r).do \in {"garbage", "recover"}
  <2>1. RunGarbage(r) \/ RunRecover(r)
    BY <1>3, Which
  <2>2. \A k \in DOMAIN detail :
          k \in DOMAIN detail' /\ (detail[k].after = "none" => detail'[k] = detail[k])
    BY <2>1 DEF RunGarbage, RunRecover
  <2>3. task' = task /\ status' = status
    BY <2>1 DEF RunGarbage, RunRecover
  <2>. QED BY <2>2, <2>3 DEF KeepsCovered, IsOpen
<1>4. CASE Now(r).do \in {"check", "findTask", "findExecuter", "readStatus", "pickDelivery",
                          "setStatus"}
  <2>1. \/ RunCheck(r) \/ RunFindTask(r) \/ RunFindExecuter(r) \/ RunReadStatus(r)
        \/ RunPickDelivery(r) \/ RunSetStatus(r)
    BY <1>4, Which
  <2>2. task' = task /\ detail' = detail
    BY <2>1 DEF RunCheck, RunFindTask, RunFindExecuter, RunReadStatus, RunPickDelivery,
       RunSetStatus, tables
  <2>3. Now(r).do # "setStatus" => status' = status
    BY <2>1 DEF RunCheck, RunFindTask, RunFindExecuter, RunReadStatus, RunPickDelivery,
       RunSetStatus, Runs, Now, tables
  <2>. QED BY <2>2, <2>3 DEF KeepsCovered
<1>. QED BY <1>1, <1>2, <1>3, <1>4, Which DEF Inserts
------------------------------------------------------------------------------
(* What each part of the invariant needs *)

\* The performers stay users.
LEMMA PerformedStep ==
  ASSUME WorkflowAssumption, TablesOK, WebOK, NEW r \in Requests, Statement(r), Finding(r),
         Performed
  PROVE  Performed'
<1>1. CASE Now(r).do \in Inserts
  <2>1. PICK u \in Users : InsertDetail(r, u)
    BY <1>1, Inserted
  <2>2. DOMAIN detail' = DOMAIN detail \union {<<web[r].made, u>>}
    BY <2>1, InsertDetailOK
  <2>. QED BY <2>2 DEF Performed
<1>2. CASE Now(r).do \notin Inserts
  <2>1. DOMAIN detail' \subseteq DOMAIN detail
    BY <1>2, DetailSteps DEF DetailsChange
  <2>. QED BY <2>1 DEF Performed
<1>. QED BY <1>1, <1>2

\* Nothing open and answered stays so when answers stay and nothing is opened.
LEMMA ClosedKept ==
  ASSUME \A k \in DOMAIN detail : ~(IsOpen(k) /\ Done(k[1])),
         DOMAIN detail' \subseteq DOMAIN detail,
         \A k \in DOMAIN detail' :
           /\ detail'[k].after = detail[k].after
           /\ IsOpen(k)' => IsOpen(k)
  PROVE  Answers'
<1>1. ASSUME NEW k \in DOMAIN detail', IsOpen(k)', Done(k[1])'
      PROVE  FALSE
  <2>1. Done(k[1])
    BY <1>1 DEF Done, DetailsOf
  <2>. QED BY <1>1, <2>1
<1>. QED BY <1>1 DEF Answers

\* A task is answered once: insertions open new tasks only, and a completion is
\* followed by the closing of the others.
LEMMA AnswersStep ==
  ASSUME WorkflowAssumption, OneRequest, TablesOK, WebOK, NEW r \in Requests, Statement(r),
         Finding(r), Inserting(r), Answers
  PROVE  Answers'
<1>1. /\ Busy(r) /\ web[r].todo # <<>> /\ (Runs(r, "invalidate") <=> Now(r).do = "invalidate")
  BY Which DEF Busy, Runs, Now
<1>2. Now(r).do # "invalidate" => \A k \in DOMAIN detail : ~(IsOpen(k) /\ Done(k[1]))
  BY <1>1, AllClosed
<1>3. CASE Now(r).do \in Inserts
  <2>. DEFINE m == web[r].made
  <2>1. PICK u \in Users : InsertDetail(r, u)
    BY <1>3, Inserted
  <2>2. /\ DOMAIN detail' = DOMAIN detail \union {<<m, u>>}
        /\ detail'[<<m, u>>] = [valid |-> TRUE, after |-> "none"]
        /\ \A k \in DOMAIN detail : k # <<m, u>> => detail'[k] = detail[k]
    BY <2>1, InsertDetailOK
  <2>3. ~Done(m) /\ Now(r).do # "invalidate"
    BY <1>3 DEF Inserting, Inserts
  <2>. HIDE DEF m
  <2>4. ASSUME NEW t, Done(t)'
        PROVE  Done(t)
    <3>1. PICK j \in DOMAIN detail' : j[1] = t /\ detail'[j].after # "none"
      BY <2>4 DEF Done, DetailsOf
    <3>2. j # <<m, u>>
      BY <2>2, <3>1
    <3>. QED BY <2>2, <3>1, <3>2 DEF Done, DetailsOf
  <2>5. ASSUME NEW k \in DOMAIN detail', IsOpen(k)', Done(k[1])'
        PROVE  FALSE
    <3>1. Done(k[1])
      BY <2>4, <2>5
    <3>2. k # <<m, u>>
      BY <2>3, <3>1
    <3>3. k \in DOMAIN detail /\ IsOpen(k)
      BY <2>2, <2>5, <3>2 DEF IsOpen
    <3>. QED BY <1>2, <2>3, <3>1, <3>3
  <2>. QED BY <2>5 DEF Answers
<1>4. CASE Now(r).do = "complete"
  <2>. DEFINE j == <<web[r].task, web[r].user>>
  <2>1. RunComplete(r)
    BY <1>4, Which
  <2>2. /\ DOMAIN detail' = DOMAIN detail
        /\ \A k \in DOMAIN detail : k # j => detail'[k] = detail[k]
        /\ j \in DOMAIN detail => detail'[j] = detail[j] \/ detail'[j].after = Now(r).after
    BY <2>1 DEF RunComplete, TablesOK
  <2>3. Now(r).after # "none"
    <3>1. Now(r).after \in Status
      BY <1>1, <1>4, Running, Parameters
    <3>. QED BY <3>1 DEF Status
  <2>4. /\ Busy(r)' /\ Now(r)'.do = "invalidate"
        /\ web'[r].task = web[r].task /\ web'[r].user = web[r].user
    <3>1. 1 < Len(web[r].todo) /\ web[r].todo[2].do = "invalidate"
      <4>1. Follows(web[r].todo, 1) /\ web[r].todo[1] = Now(r) /\ 1 + 1 = 2
        BY <1>1, Running
      <4>. QED BY <1>4, <4>1 DEF Follows
    <3>2. Continue(r, web[r]) /\ web[r] \in Locals
      BY <2>1 DEF RunComplete, Proceed, WebOK
    <3>. QED BY <1>1, <3>1, <3>2, GoesOn
  <2>5. ASSUME NEW k \in DOMAIN detail', IsOpen(k)', Done(k[1])'
        PROVE  Runs(r, "invalidate")' /\ web'[r].task = k[1] /\ k[2] # web'[r].user
    <3>1. k \in DOMAIN detail /\ IsOpen(k)
      BY <2>2, <2>3, <2>5 DEF IsOpen
    <3>2. ~Done(k[1])
      BY <1>2, <1>4, <3>1
    <3>3. PICK i \in DOMAIN detail' : i[1] = k[1] /\ detail'[i].after # "none"
      BY <2>5 DEF Done, DetailsOf
    <3>4. i \in DOMAIN detail /\ detail[i].after = "none"
      BY <2>2, <3>2, <3>3 DEF Done, DetailsOf
    <3>5. i = j /\ detail'[j].after = Now(r).after
      BY <2>2, <3>3, <3>4
    <3>6. k[1] = web[r].task /\ k # j
      BY <2>3, <2>5, <3>3, <3>5 DEF IsOpen
    <3>7. k = <<k[1], k[2]>>
      BY <3>1 DEF TablesOK
    <3>8. k[2] # web[r].user
      BY <3>6, <3>7
    <3>. QED BY <2>4, <3>6, <3>8 DEF Runs, Now, Busy
  <2>. QED BY <2>5 DEF Answers
<1>5. CASE Now(r).do = "invalidate"
  <2>. DEFINE closed == {k \in DOMAIN detail : k[1] = web[r].task /\ k[2] # web[r].user}
  <2>1. RunInvalidate(r)
    BY <1>5, Which
  <2>2. detail' = [k \in DOMAIN detail |->
          IF k \in closed THEN [detail[k] EXCEPT !.valid = FALSE] ELSE detail[k]]
    BY <2>1 DEF RunInvalidate
  <2>3. /\ DOMAIN detail' = DOMAIN detail
        /\ \A k \in DOMAIN detail :
             /\ detail'[k].after = detail[k].after
             /\ k \in closed => ~detail'[k].valid
             /\ k \notin closed => detail'[k] = detail[k]
    <3>. HIDE DEF closed
    <3>. QED BY <2>2 DEF TablesOK
  <2>4. ASSUME NEW k \in DOMAIN detail', IsOpen(k)', Done(k[1])'
        PROVE  FALSE
    <3>1. k \in DOMAIN detail /\ k \notin closed
      BY <2>3, <2>4 DEF IsOpen
    <3>2. IsOpen(k)
      BY <2>3, <2>4, <3>1 DEF IsOpen
    <3>3. Done(k[1])
      BY <2>3, <2>4 DEF Done, DetailsOf
    <3>4. k \in closed
      BY <3>1, <3>2, <3>3 DEF Answers, OneRequest
    <3>. QED BY <3>1, <3>4
  <2>. QED BY <2>4 DEF Answers
<1>6. CASE Now(r).do = "endPublish"
  <2>1. RunEndPublish(r)
    BY <1>6, Which
  <2>2. detail' = detail \/ \E t : detail' = Answer(detail, t, web[r].user, "PUBLISHED")
    BY <2>1 DEF RunEndPublish
  <2>3. CASE detail' = detail
    BY <1>2, <1>6, <2>3, ClosedKept DEF IsOpen
  <2>4. ASSUME NEW t, detail' = Answer(detail, t, web[r].user, "PUBLISHED")
        PROVE  Answers'
    <3>1. /\ DOMAIN detail' = DOMAIN detail
          /\ \A k \in DOMAIN detail :
               /\ k[1] = t => ~(detail'[k].valid /\ detail'[k].after = "none")
               /\ k[1] # t => detail'[k] = detail[k]
      BY <2>4 DEF Answer, TablesOK
    <3>2. ASSUME NEW k \in DOMAIN detail', IsOpen(k)', Done(k[1])'
          PROVE  FALSE
      <4>1. k \in DOMAIN detail /\ k[1] # t
        BY <3>1, <3>2 DEF IsOpen
      <4>2. IsOpen(k) /\ Done(k[1])
        BY <3>1, <3>2, <4>1 DEF IsOpen, Done, DetailsOf
      <4>. QED BY <1>2, <1>6, <4>1, <4>2
    <3>. QED BY <3>2 DEF Answers
  <2>. QED BY <2>2, <2>3, <2>4
<1>7. CASE Now(r).do \in {"garbage", "recover"}
  <2>1. RunGarbage(r) \/ RunRecover(r)
    BY <1>7, Which
  <2>2. /\ DOMAIN detail' = DOMAIN detail
        /\ \A k \in DOMAIN detail :
             /\ detail'[k].after = detail[k].after
             /\ detail[k].after = "none" => detail'[k] = detail[k]
    BY <2>1 DEF RunGarbage, RunRecover, TablesOK
  <2>3. \A k \in DOMAIN detail' : IsOpen(k)' => IsOpen(k)
    BY <2>2 DEF IsOpen
  <2>. QED BY <1>2, <1>7, <2>2, <2>3, ClosedKept
<1>8. CASE Now(r).do = "deleteDetails"
  <2>1. /\ DOMAIN detail' \subseteq DOMAIN detail
        /\ \A k \in DOMAIN detail' : detail'[k] = detail[k]
    <3>1. RunDeleteDetails(r)
      BY <1>8, Which
    <3>. QED BY <3>1 DEF RunDeleteDetails, Without
  <2>. QED BY <1>2, <1>8, <2>1, ClosedKept DEF IsOpen
<1>9. CASE Now(r).do \in {"check", "findTask", "findExecuter", "readStatus", "setStatus",
                          "insertTask", "pickDelivery", "deleteTask"}
  <2>1. \/ RunCheck(r) \/ RunFindTask(r) \/ RunFindExecuter(r) \/ RunReadStatus(r)
        \/ RunSetStatus(r) \/ RunInsertTask(r) \/ RunPickDelivery(r) \/ RunDeleteTask(r)
    BY <1>9, Which
  <2>2. detail' = detail
    BY <2>1 DEF RunCheck, RunFindTask, RunFindExecuter, RunReadStatus, RunSetStatus,
       RunInsertTask, RunPickDelivery, RunDeleteTask, tables
  <2>3. Now(r).do # "invalidate"
    BY <1>9
  <2>. QED BY <1>2, <2>2, <2>3, ClosedKept DEF IsOpen
<1>. QED BY <1>3, <1>4, <1>5, <1>6, <1>7, <1>8, <1>9, Which DEF Inserts

\* A task inserted is for the present status, and gets performers before
\* anybody can answer it.
LEMMA InsertingStep ==
  ASSUME WorkflowAssumption, TablesOK, WebOK, NEW r \in Requests, Statement(r), Finding(r),
         Inserting(r), Busy(r)'
  PROVE  Inserting(r)'
<1>1. Now(r)'.do \in Inserts => Now(r).do \in {"insertTask", "insertDetails"}
  BY StepShape DEF Precedes, Free, Inserts
<1>2. /\ web[r].todo # <<>> /\ Now(r) \in Statements /\ web[r] \in Locals
  BY Which, Running DEF Busy
<1>3. ASSUME Now(r)'.do \in Inserts, Now(r).do = "insertTask"
      PROVE  Inserting(r)'
  <2>1. RunInsertTask(r)
    BY <1>3, Which
  <2>. DEFINE n == created'
              row == [pre |-> Now(r).pre, submit |-> web[r].user,
                      prev |-> IF Now(r).linked THEN web[r].task ELSE 0]
              v == [web[r] EXCEPT !.made = n]
  <2>2. task' = Row(task, n, row) /\ n = created + 1 /\ detail' = detail /\ status' = status
        /\ Continue(r, v)
    BY <2>1 DEF RunInsertTask, docVars
  <2>3. DOMAIN task' = DOMAIN task \union {n} /\ task'[n] = row
    BY <2>2, InsertKept
  <2>4. \A k \in DOMAIN detail : k[1] # n
    BY <2>2 DEF TablesOK
  <2>5. \A k \in DOMAIN detail' : k[1] # n
    BY <2>2, <2>4
  <2>6. n \in Nat
    BY <2>2 DEF TablesOK
  <2>7. v \in Locals /\ v.made = n
    BY ONLY <1>2, <2>6 DEF Locals
  <2>8. row.pre = Now(r).pre
    OBVIOUS
  <2>. HIDE DEF v, row, n
  <2>9. web'[r].made = n
    BY <2>2, <2>7, Which, GoesOn
  <2>10. Now(r)'.do = "insertDetails" => status' = Now(r).pre
    <3>1. Now(r)'.do = "insertDetails" => Now(r).pre \in {"UNAUDIT", "PREPUBLISH"}
      BY <1>3, StepShape DEF Precedes
    <3>. QED BY <1>3, <2>2, <3>1 DEF Inserting
  <2>11. Now(r)'.do # "insertTask"
    BY <1>3 DEF Inserts
  <2>12. ~Done(web[r].made)'
    BY <2>5, <2>9 DEF Done, DetailsOf
  <2>. QED BY <2>3, <2>8, <2>9, <2>10, <2>11, <2>12 DEF Inserting
<1>4. ASSUME Now(r)'.do \in Inserts, Now(r).do = "insertDetails"
      PROVE  Inserting(r)'
  <2>1. Now(r).do \in Inserts
    BY <1>4 DEF Inserts
  <2>2. PICK u \in Users : InsertDetail(r, u)
    BY <2>1, Inserted
  <2>3. task' = task /\ status' = status /\ web'[r].made = web[r].made
    BY <1>4, <2>1, Inserted, StepShape
  <2>4. ~Done(web[r].made)'
    <3>. DEFINE m == web[r].made
    <3>1. /\ DOMAIN detail' = DOMAIN detail \union {<<m, u>>}
          /\ detail'[<<m, u>>] = [valid |-> TRUE, after |-> "none"]
          /\ \A k \in DOMAIN detail : k # <<m, u>> => detail'[k] = detail[k]
      BY ONLY <2>2 DEF InsertDetail, Row
    <3>2. \A k \in DOMAIN detail : k[1] = m => detail[k].after = "none"
      BY <2>1 DEF Inserting, Done, DetailsOf
    <3>. HIDE DEF m
    <3>3. \A k \in DOMAIN detail' : k[1] = m => detail'[k].after = "none"
      BY <3>1, <3>2
    <3>4. web'[r].made = m
      BY <2>3 DEF m
    <3>. QED BY <3>3, <3>4 DEF Done, DetailsOf
  <2>5. Now(r)'.do # "insertTask"
    BY <1>4 DEF Inserts
  <2>. QED BY <1>4, <2>1, <2>3, <2>4, <2>5 DEF Inserting
<1>5. ASSUME Now(r)'.do \notin Inserts
      PROVE  Inserting(r)'
  <2>1. ASSUME Now(r)'.do = "insertTask", Now(r)'.pre # "ROLLBACK"
        PROVE  status' = Now(r)'.pre
    <3>1. Now(r).do = "setStatus" /\ Now(r).dest = Now(r)'.pre
      BY <2>1, StepShape DEF Precedes, Free
    <3>2. RunSetStatus(r)
      BY <3>1, Which
    <3>. QED BY <3>1, <3>2 DEF RunSetStatus
  <2>. QED BY <1>5, <2>1 DEF Inserting, Inserts
<1>. QED BY <1>1, <1>3, <1>4, <1>5

\* The tasks are changed by their own statements only.
LEMMA StepsOfTasks ==
  ASSUME NEW r, Statement(r), Now(r).do \notin {"insertTask", "deleteTask"}
  PROVE  task' = task
  BY DEF Statement, tables, docVars, RunCheck, RunFindTask, RunFindExecuter, RunReadStatus,
     RunSetStatus, RunInsertTask, RunInsertDetails, RunInsertRework, RunInsertExecuter,
     RunComplete, RunInvalidate, RunPickDelivery, RunDeleteDetails, RunDeleteTask,
     RunEndPublish, RunGarbage, RunRecover, Runs, Now

\* For a task on a list getPreSubmitterId finds somebody.
LEMMA FoundWhenListed ==
  ASSUME WorkflowAssumption, TablesOK, Performed, NEW r, RunFindExecuter(r),
         web[r].task \in DOMAIN task, \E k \in DOMAIN detail : detail[k].valid
  PROVE  \E u \in Users : Continue(r, [web[r] EXCEPT !.executer = u])
<1>. DEFINE t == web[r].task
            before == IF t \in DOMAIN task THEN task[t].prev ELSE 0
            answered == {k \in DetailsOf(before) : detail[k].valid /\ detail[k].after # "none"}
            valid == {k[2] : k \in {x \in DOMAIN detail : detail[x].valid}}
                       \union OtherPerformers
            found == IF before \in DOMAIN task /\ answered # {}
                     THEN {k[2] : k \in answered}
                     ELSE IF t \in DOMAIN task THEN valid ELSE {}
<1>1. PICK u \in IF found = {} THEN {NoUser} ELSE found :
        Continue(r, [web[r] EXCEPT !.executer = u])
  BY DEF RunFindExecuter
<1>2. found \subseteq Users
  BY DEF Performed, WorkflowAssumption, DetailsOf
<1>3. valid # {}
  OBVIOUS
<1>4. (found = {k[2] : k \in answered} /\ answered # {}) \/ found = valid
  OBVIOUS
<1>. HIDE DEF found, answered, valid
<1>5. found # {}
  BY <1>3, <1>4
<1>. QED BY <1>1, <1>2, <1>5

\* Whoever is to rework the document is found, and stays found.
LEMMA FindingStep ==
  ASSUME WorkflowAssumption, TablesOK, WebOK, NEW r \in Requests, Statement(r), Finding(r),
         Performed, Busy(r)'
  PROVE  Finding(r)'
<1>1. /\ web[r].todo # <<>> /\ Now(r) \in Statements /\ web[r] \in Locals
      /\ Now(r).do \in Kinds(web[r].todo) /\ Exclusive(Kinds(web[r].todo))
  BY Which, Running DEF Busy, WebOK, RequestOK
<1>2. Now(r)'.do \notin {"findTask", "findExecuter"}
  BY StepShape DEF Precedes, Free
<1>3. Kinds(web'[r].todo) \subseteq Kinds(web[r].todo)
  BY StepShape
<1>4. ASSUME "insertRework" \in Kinds(web'[r].todo)
      PROVE  web'[r].task \in DOMAIN task'
  <2>1. "insertRework" \in Kinds(web[r].todo)
    BY <1>3, <1>4
  <2>2. Now(r).do \notin Deletes
    BY <1>1, <2>1 DEF Exclusive, Deletes
  <2>3. CASE Now(r).do = "findTask"
    <3>. DEFINE held == Held(web[r].user, Now(r).pre)
    <3>1. RunFindTask(r) /\ held # {}
      BY <2>1, <2>3, Which DEF Finding
    <3>2. PICK t \in held : Continue(r, [web[r] EXCEPT !.task = t])
      BY <3>1 DEF RunFindTask
    <3>3. t \in DOMAIN task /\ t \in Nat /\ task' = task
      BY <3>1, <3>2 DEF Held, RunFindTask, tables, TablesOK
    <3>. DEFINE v == [web[r] EXCEPT !.task = t]
    <3>4. v \in Locals /\ v.task = t
      BY ONLY <1>1, <3>3 DEF Locals
    <3>5. Continue(r, v)
      BY <3>2
    <3>. HIDE DEF v
    <3>6. web'[r].task = t
      BY <3>4, <3>5, Which, GoesOn
    <3>. QED BY <3>3, <3>6
  <2>4. CASE Now(r).do # "findTask"
    <3>1. web'[r].task = web[r].task
      BY <2>2, <2>4, StepShape DEF Deletes
    <3>2. web[r].task \in DOMAIN task
      BY <2>1, <2>4 DEF Finding
    <3>3. DOMAIN task \subseteq DOMAIN task'
      <4>1. CASE Now(r).do = "insertTask"
        <5>1. RunInsertTask(r)
          BY <4>1, Which
        <5>. QED BY <5>1, InsertKept DEF RunInsertTask
      <4>2. CASE Now(r).do # "insertTask"
        <5>1. task' = task
          BY <2>2, <4>2, StepsOfTasks DEF Deletes
        <5>. QED BY <5>1
      <4>. QED BY <4>1, <4>2
    <3>. QED BY <3>1, <3>2, <3>3
  <2>. QED BY <2>3, <2>4
<1>5. ASSUME "insertExecuter" \in Kinds(web'[r].todo)
      PROVE  web'[r].executer \in Users
  <2>1. "insertExecuter" \in Kinds(web[r].todo)
    BY <1>3, <1>5
  <2>2. CASE Now(r).do = "findExecuter"
    <3>1. RunFindExecuter(r) /\ web[r].task \in DOMAIN task /\ \E k \in DOMAIN detail : detail[k].valid
      BY <2>2, Which DEF Finding
    <3>2. PICK u \in Users : Continue(r, [web[r] EXCEPT !.executer = u])
      BY <3>1, FoundWhenListed
    <3>. DEFINE v == [web[r] EXCEPT !.executer = u]
    <3>3. v \in Locals /\ v.executer = u
      BY ONLY <1>1, u \in Users DEF Locals
    <3>4. Continue(r, v)
      BY <3>2
    <3>. HIDE DEF v
    <3>. QED BY <3>3, <3>4, Which, GoesOn
  <2>3. CASE Now(r).do # "findExecuter"
    <3>1. web'[r].executer = web[r].executer
      BY <2>3, StepShape
    <3>. QED BY <2>1, <2>3, <3>1 DEF Finding
  <2>. QED BY <2>2, <2>3
<1>. QED BY <1>2, <1>4, <1>5 DEF Finding

\* Of a task completed, the details of other tasks stay.
LEMMA CompleteKeepsOthers ==
  ASSUME TablesOK, NEW r, RunComplete(r) \/ RunInvalidate(r), NEW t, NEW st,
         t # web[r].task, Covers(t, st)
  PROVE  CoversNext(t, st)
<1>1. task' = task
  BY DEF RunComplete, RunInvalidate
<1>2. \A k \in DOMAIN detail : k[1] # web[r].task =>
        k \in DOMAIN detail' /\ detail'[k] = detail[k]
  BY DEF RunComplete, RunInvalidate
<1>3. PICK u \in Users : <<t, u>> \in DOMAIN detail /\ IsOpen(<<t, u>>)
  BY DEF Covers
<1>4. <<t, u>> \in DOMAIN detail' /\ detail'[<<t, u>>] = detail[<<t, u>>]
  BY <1>2, <1>3
<1>. QED BY <1>1, <1>3, <1>4 DEF Covers, CoversNext, IsOpen

\* A request that completes a task or closes it leaves another status, or a task
\* ahead, or the document on a list with another task.
LEMMA ClosingGoesOn ==
  ASSUME TablesOK, WebOK, NEW r \in Requests, Busy(r), Closing(r),
         RunComplete(r) \/ RunInvalidate(r)
  PROVE  \/ status' \notin Waiting
         \/ Busy(r)' /\ WillAt(web'[r].todo, 1, status')
         \/ \E t \in DOMAIN task' : t # web[r].task /\ CoversNext(t, status')
<1>1. Now(r).do \in {"complete", "invalidate"} /\ status' = status /\ task' = task
        /\ Continue(r, web[r]) /\ web[r] \in Locals
  BY DEF RunComplete, RunInvalidate, Runs, Now, Proceed, docVars, WebOK
<1>2. CASE status \notin Waiting
  BY <1>1, <1>2
<1>3. CASE WillAt(web[r].todo, 1, status)
  <2>1. WillAt(web[r].todo, 2, status)
    BY <1>1, <1>3, WillAtHead
  <2>2. Busy(r)' /\ WillAt(web'[r].todo, 1, status)
    BY <1>1, <2>1, GoesOn DEF WillAt
  <2>. QED BY <1>1, <2>2
<1>4. ASSUME NEW t \in DOMAIN task, t # web[r].task, Covers(t, status)
      PROVE  \E n \in DOMAIN task' : n # web[r].task /\ CoversNext(n, status')
  <2>1. CoversNext(t, status)
    BY <1>4, CompleteKeepsOthers
  <2>. QED BY <1>1, <1>4, <2>1
<1>. QED BY <1>1, <1>2, <1>3, <1>4 DEF Closing

\* A detail inserted puts the document on a list, if its task is for its status.
LEMMA InsertedCovers ==
  ASSUME TablesOK, NEW r, NEW u \in Users, InsertDetail(r, u), task' = task,
         web[r].made \in DOMAIN task
  PROVE  CoversNext(web[r].made, task[web[r].made].pre)
<1>1. /\ <<web[r].made, u>> \in DOMAIN detail'
      /\ detail'[<<web[r].made, u>>] = [valid |-> TRUE, after |-> "none"]
  BY ONLY InsertDetail(r, u) DEF InsertDetail, Row
<1>. QED BY <1>1 DEF CoversNext

\* A document that waits, and is about to lose a task, has or gets another.
LEMMA ClosingStep ==
  ASSUME WorkflowAssumption, OneRequest, TablesOK, WebOK, NEW r \in Requests, Statement(r),
         Finding(r), Inserting(r), Closing(r), Settles, Busy(r)'
  PROVE  Closing(r)'
<1>1. /\ Busy(r) /\ web[r].todo # <<>> /\ Now(r) \in Statements /\ web[r] \in Locals
      /\ Follows(web[r].todo, 1) /\ web[r].todo[1] = Now(r) /\ 1 + 1 = 2
      /\ HeadOK(web[r], Now(r), task, created)
  BY Which, Running DEF Busy
<1>2. ASSUME Now(r)'.do \in {"complete", "invalidate"}
      PROVE  \/ status' \notin Waiting
             \/ WillAt(web'[r].todo, 1, status')
             \/ \E t \in DOMAIN task' : t # web'[r].task /\ CoversNext(t, status')
  <2>1. Now(r).do \in {"complete", "setStatus", "insertDetails", "findExecuter"}
    BY <1>2, StepShape DEF Precedes, Free
  <2>2. web'[r].task = web[r].task
    BY <2>1, StepShape
  <2>3. CASE Now(r).do = "complete"
    BY <1>1, <2>2, <2>3, Which, ClosingGoesOn
  <2>4. CASE Now(r).do = "setStatus"
    <3>1. RunSetStatus(r)
      BY <2>4, Which
    <3>2. status' = Now(r).dest /\ Continue(r, web[r])
      BY <3>1 DEF RunSetStatus, Proceed
    <3>3. Now(r).dest \in Waiting => WillAt(web[r].todo, 2, Now(r).dest)
      BY <1>1, <2>4 DEF Follows
    <3>. QED BY <1>1, <3>2, <3>3, GoesOn DEF WillAt
  <2>5. CASE Now(r).do = "insertDetails"
    <3>1. Now(r).do \in Inserts
      BY <2>5 DEF Inserts
    <3>2. PICK u \in Users : InsertDetail(r, u)
      BY <3>1, Inserted
    <3>3. task' = task /\ status' = status
      BY <3>1, Inserted
    <3>4. web[r].made \in DOMAIN task /\ task[web[r].made].pre = status
      BY <2>5, <3>1 DEF Inserting
    <3>5. CoversNext(web[r].made, status)
      BY <3>2, <3>3, <3>4, InsertedCovers
    <3>6. web[r].made # web[r].task
      <4>1. web[r].task < web[r].made /\ web[r].task \in Nat
        BY <1>1, <3>1 DEF HeadOK, Locals
      <4>. QED BY <4>1
    <3>. QED BY <2>2, <3>3, <3>4, <3>5, <3>6
  <2>6. CASE Now(r).do = "findExecuter"
    <3>1. RunFindExecuter(r)
      BY <2>6, Which
    <3>2. status' = status /\ status \in Status
      BY <3>1 DEF RunFindExecuter, tables, TablesOK
    <3>3. PICK u \in Users \union {NoUser} : Continue(r, [web[r] EXCEPT !.executer = u])
      BY <3>1, FoundIsUser
    <3>4. WillAt(web[r].todo, 2, status)
      BY <1>1, <2>6, <3>2 DEF Follows
    <3>. DEFINE v == [web[r] EXCEPT !.executer = u]
    <3>5. v \in Locals
      BY ONLY <1>1, u \in Users \union {NoUser} DEF Locals
    <3>6. Continue(r, v)
      BY <3>3
    <3>. HIDE DEF v
    <3>7. WillAt(web'[r].todo, 1, status)
      BY <1>1, <3>4, <3>5, <3>6, GoesOn DEF WillAt
    <3>. QED BY <3>2, <3>7
  <2>. QED BY <2>1, <2>3, <2>4, <2>5, <2>6
<1>3. ASSUME Now(r)'.do \in Deletes
      PROVE  status' \notin Waiting
  <2>1. \/ Now(r).do = "setStatus" /\ Now(r).dest = "NEW"
        \/ Now(r).do \in {"pickDelivery", "deleteDetails"}
    BY <1>3, StepShape DEF Precedes, Free, Deletes
  <2>2. CASE Now(r).do = "setStatus" /\ Now(r).dest = "NEW"
    <3>1. RunSetStatus(r)
      BY <2>2, Which
    <3>. QED BY <2>2, <3>1 DEF RunSetStatus, Waiting
  <2>3. CASE Now(r).do \in {"pickDelivery", "deleteDetails"}
    <3>1. RunPickDelivery(r) \/ RunDeleteDetails(r)
      BY <2>3, Which
    <3>2. status' = status
      BY <3>1 DEF RunPickDelivery, RunDeleteDetails, tables, docVars
    <3>. QED BY <2>3, <3>2 DEF Closing, Deletes
  <2>. QED BY <2>1, <2>2, <2>3
<1>4. ASSUME \/ Now(r)'.do = "endPublish"
             \/ Now(r)'.do = "setStatus" /\ Now(r)'.dest = "PUBLISHING"
      PROVE  Fine(web[r].read)'
  <2>1. \/ Now(r).do = "setStatus" /\ Now(r).dest = "PUBLISHING"
        \/ Now(r).do = "readStatus"
    BY <1>4, StepShape DEF Precedes, Free
  <2>2. task' = task /\ detail' = detail
    <3>1. RunSetStatus(r) \/ RunReadStatus(r)
      BY <2>1, Which
    <3>. QED BY <3>1 DEF RunSetStatus, RunReadStatus, tables
  <2>3. Fine(web'[r].read)
    <3>1. CASE Now(r).do = "setStatus"
      <4>1. web'[r].read = web[r].read
        BY <3>1, StepShape
      <4>. QED BY <2>1, <3>1, <4>1 DEF Closing
    <3>2. CASE Now(r).do = "readStatus"
      <4>1. RunReadStatus(r)
        BY <3>2, Which
      <4>. DEFINE v == [web[r] EXCEPT !.read = status]
      <4>2. Continue(r, v)
        BY <4>1 DEF RunReadStatus
      <4>3. status \in Status
        BY DEF TablesOK
      <4>4. v \in Locals /\ v.read = status
        BY ONLY <1>1, <4>3 DEF Locals
      <4>. HIDE DEF v
      <4>5. web'[r].read = status
        BY <1>1, <4>2, <4>4, GoesOn
      <4>6. Fine(status)
        BY <3>2, FineBefore DEF Inserts
      <4>. QED BY <4>5, <4>6
    <3>. QED BY <2>1, <3>1, <3>2
  <2>. QED BY <2>2, <2>3 DEF Fine, Covered, Covers, IsOpen
<1>5. \A t : CoversNext(t, status') => Covers(t, status)'
  BY DEF CoversNext, Covers, IsOpen
<1>. QED BY <1>2, <1>3, <1>4, <1>5 DEF Closing

\* A document nobody has on a list is about to get another status, or a task.
LEMMA SettlesStep ==
  ASSUME WorkflowAssumption, OneRequest, TablesOK, WebOK, NEW r \in Requests, Statement(r),
         Finding(r), Inserting(r), Closing(r), Settles
  PROVE  Settles'
<1>1. /\ Busy(r) /\ web[r].todo # <<>> /\ Now(r) \in Statements /\ web[r] \in Locals
      /\ Follows(web[r].todo, 1) /\ web[r].todo[1] = Now(r) /\ 1 + 1 = 2
  BY Which, Running DEF Busy
<1>2. (status' \in Waiting => \E t : CoversNext(t, status')) => Settles'
  BY FineNext DEF Settles
<1>3. WillAt(web'[r].todo, 1, status') => Settles'
  BY DEF Settles
<1>4. CASE Now(r).do \in {"complete", "invalidate"}
  <2>1. RunComplete(r) \/ RunInvalidate(r)
    BY <1>4, Which
  <2>. QED BY <1>1, <1>2, <1>3, <2>1, ClosingGoesOn
<1>5. CASE Now(r).do = "setStatus"
  <2>1. RunSetStatus(r)
    BY <1>5, Which
  <2>2. status' = Now(r).dest /\ Continue(r, web[r])
    BY <2>1 DEF RunSetStatus, Proceed
  <2>3. Now(r).dest \in Waiting => WillAt(web[r].todo, 2, Now(r).dest)
    BY <1>1, <1>5 DEF Follows
  <2>4. Now(r).dest \in Waiting => WillAt(web'[r].todo, 1, status')
    BY <1>1, <2>2, <2>3, GoesOn DEF WillAt
  <2>. QED BY <1>2, <1>3, <2>2, <2>4
<1>6. CASE Now(r).do = "insertTask"
  <2>1. KeepsCovered /\ status' = status
    BY <1>6, KeepingSteps
  <2>2. CASE Fine(status)
    BY <1>2, <2>1, <2>2, FineKept
  <2>3. CASE ~Fine(status)
    <3>1. Now(r).pre = status
      BY <1>6, <2>3, OnlySettles, WillAtHead DEF Assigning, Inserts
    <3>2. RunInsertTask(r)
      BY <1>6, Which
    <3>. DEFINE n == created'
                row == [pre |-> Now(r).pre, submit |-> web[r].user,
                        prev |-> IF Now(r).linked THEN web[r].task ELSE 0]
                v == [web[r] EXCEPT !.made = n]
    <3>3. task' = Row(task, n, row) /\ n = created + 1 /\ Continue(r, v)
      BY <3>2 DEF RunInsertTask
    <3>4. task'[n] = row /\ n \in Nat /\ row.pre = Now(r).pre
      BY <3>3, InsertKept DEF TablesOK
    <3>5. v \in Locals /\ v.made = n
      BY ONLY <1>1, <3>4 DEF Locals
    <3>. HIDE DEF v, row, n
    <3>6. 1 < Len(web[r].todo) /\ web[r].todo[2].do \in Inserts
      BY <1>1, <1>6 DEF Follows
    <3>7. Busy(r)' /\ Now(r)'.do \in Inserts /\ web'[r].made = n
      BY <1>1, <3>3, <3>5, <3>6, GoesOn
    <3>8. Assigning(r)'
      BY <2>1, <3>1, <3>4, <3>7 DEF Assigning
    <3>. QED BY <3>8 DEF Settles
  <2>. QED BY <2>2, <2>3
<1>7. CASE Now(r).do \in Inserts
  <2>1. KeepsCovered /\ status' = status
    BY <1>7, KeepingSteps DEF Inserts
  <2>2. CASE Fine(status)
    BY <1>2, <2>1, <2>2, FineKept
  <2>3. CASE ~Fine(status)
    <3>1. task[web[r].made].pre = status
      BY <1>7, <2>3, OnlySettles, WillAtHead DEF Assigning, Inserts
    <3>2. PICK u \in Users : InsertDetail(r, u)
      BY <1>7, Inserted
    <3>3. task' = task /\ web[r].made \in DOMAIN task
      BY <1>7, Inserted DEF Inserting
    <3>4. CoversNext(web[r].made, status)
      BY <3>1, <3>2, <3>3, InsertedCovers
    <3>. QED BY <1>2, <2>1, <3>4
  <2>. QED BY <2>2, <2>3
<1>8. CASE Now(r).do \in {"deleteDetails", "deleteTask"}
  <2>1. RunDeleteDetails(r) \/ RunDeleteTask(r)
    BY <1>8, Which
  <2>2. status' = status /\ status \notin Waiting
    BY <1>8, <2>1 DEF RunDeleteDetails, RunDeleteTask, docVars, Closing, Deletes
  <2>. QED BY <1>2, <2>2
<1>9. CASE Now(r).do = "endPublish"
  <2>1. RunEndPublish(r)
    BY <1>9, Which
  <2>2. /\ task' = task
        /\ \/ status' = "PUBLISHED"
           \/ status' = web[r].read /\ detail' = detail
    BY <2>1 DEF RunEndPublish
  <2>3. CASE status' = "PUBLISHED"
    BY <1>2, <2>3 DEF Waiting
  <2>4. CASE status' = web[r].read /\ detail' = detail
    <3>1. KeepsCovered
      BY <2>2, <2>4 DEF KeepsCovered
    <3>2. Fine(web[r].read)
      BY <1>9 DEF Closing
    <3>. QED BY <1>2, <2>4, <3>1, <3>2, FineKept
  <2>. QED BY <2>2, <2>3, <2>4
<1>10. CASE Now(r).do \in {"check", "findTask", "findExecuter", "readStatus", "pickDelivery",
                           "garbage", "recover"}
  <2>1. KeepsCovered /\ status' = status
    BY <1>10, KeepingSteps
  <2>2. Fine(status)
    BY <1>10, FineBefore DEF Inserts
  <2>. QED BY <1>2, <2>1, <2>2, FineKept
<1>. QED
  BY <1>4, <1>5, <1>6, <1>7, <1>8, <1>9, <1>10, Which DEF Inserts

\* A statement keeps all of it.
LEMMA SoundStep ==
  ASSUME WorkflowAssumption, OneRequest, TablesOK, WebOK, NEW r \in Requests, Statement(r),
         Sound
  PROVE  Sound'
<1>1. Busy(r) /\ Inserting(r) /\ Closing(r) /\ Finding(r) /\ Performed /\ Settles /\ Answers
  BY Which DEF Sound
<1>2. Performed' /\ Settles' /\ Answers'
  BY <1>1, PerformedStep, SettlesStep, AnswersStep
<1>3. Busy(r)' => Inserting(r)' /\ Closing(r)' /\ Finding(r)'
  BY <1>1, InsertingStep, ClosingStep, FindingStep
<1>4. \A q \in Requests : q = r
  BY DEF OneRequest
<1>. QED BY <1>2, <1>3, <1>4 DEF Sound
------------------------------------------------------------------------------
(* The pages, and the invariant *)

\* hasTask finds what it found before while tasks and details are as they were.
LEMMA HeldSame ==
  ASSUME NEW u, NEW p, task' = task, detail' = detail
  PROVE  Held(u, p)' = Held(u, p)
BY DEF Held, Done, DetailsOf

\* A page begins with a document that is on a list, and finds what it needs.
LEMMA PageSound ==
  ASSUME WorkflowAssumption, OneRequest, TablesOK, WebOK, NEW r \in Requests,
         NEW u \in Users, Page(r, u), Sound
  PROVE  Sound'
<1>1. PICK t, s : Submit(r, u, t, s) /\ Begins(u, t, s)
  BY PagePrograms
<1>. DEFINE x == [Idle EXCEPT !.user = u, !.task = t, !.todo = s]
<1>2. /\ web' = [web EXCEPT ![r] = x] /\ web[r] = Idle
      /\ task' = task /\ detail' = detail /\ status' = status
  BY <1>1 DEF Submit, tables
<1>3. ~Busy(r)
  BY <1>2 DEF Busy, Idle
<1>4. Fine(status) /\ (\A k \in DOMAIN detail : ~(IsOpen(k) /\ Done(k[1])))
  BY <1>3, FineBefore, AllClosed DEF Sound, Busy, Runs
<1>5. Settles' /\ Answers' /\ Performed'
  <2>1. Settles'
    BY <1>2, <1>4 DEF Settles, Fine, Covered, Covers, IsOpen
  <2>2. Answers'
    BY <1>2, <1>4, ClosedKept DEF IsOpen
  <2>. QED BY <1>2, <2>1, <2>2 DEF Sound, Performed
<1>6. /\ x.todo = s /\ x.user = u /\ x.task = t
  BY DEF Idle
<1>. HIDE DEF x
<1>7. web'[r] = x
  BY <1>2 DEF WebOK
<1>8. Now(r)' = s[1]
  <2>1. s \in Seq(Statements) /\ s # <<>>
    BY <1>1 DEF Begins, Rules
  <2>2. Head(s) = s[1]
    BY <2>1, TailIsSuffix
  <2>. QED BY <1>6, <1>7, <2>2 DEF Now
<1>9. Free(s[1]) \/ s[1].do \in {"findTask", "findExecuter"}
  BY <1>1 DEF Begins
<1>10. Inserting(r)'
  BY <1>8, <1>9 DEF Free, Inserting, Inserts
<1>11. Closing(r)'
  BY <1>8, <1>9 DEF Free, Closing, Deletes
<1>12. Finding(r)'
  <2>1. "insertRework" \in Kinds(s) =>
          IF s[1].do = "findTask" THEN Held(u, s[1].pre) # {} ELSE t \in DOMAIN task
    BY <1>1 DEF Begins
  <2>2. s[1].do = "findExecuter" \/ "insertExecuter" \in Kinds(s) =>
          /\ s[1].do = "findExecuter" /\ t \in DOMAIN task
          /\ <<t, u>> \in DOMAIN detail /\ detail[<<t, u>>].valid
    BY <1>1 DEF Begins, Listed, IsOpen
  <2>3. Held(u, s[1].pre)' = Held(u, s[1].pre)
    BY <1>2, HeldSame
  <2>4. /\ web'[r].todo = s /\ web'[r].user = u /\ web'[r].task = t
        /\ Now(r)' = s[1] /\ task' = task /\ detail' = detail
    BY <1>2, <1>6, <1>7, <1>8
  <2>5. Held(web[r].user, Now(r).pre)' = Held(u, s[1].pre)'
    BY <2>4
  <2>6. ("insertRework" \in Kinds(web[r].todo) =>
           IF Now(r).do = "findTask" THEN Held(web[r].user, Now(r).pre) # {}
           ELSE web[r].task \in DOMAIN task)'
    BY <2>1, <2>3, <2>4, <2>5
  <2>7. (Now(r).do = "findExecuter" =>
           web[r].task \in DOMAIN task /\ \E k \in DOMAIN detail : detail[k].valid)'
    BY <2>2, <2>4
  <2>8. ("insertExecuter" \in Kinds(web[r].todo) /\ Now(r).do # "findExecuter" =>
           web[r].executer \in Users)'
    BY <2>2, <2>4
  <2>. QED BY <2>6, <2>7, <2>8 DEF Finding
<1>13. \A q \in Requests : q = r
  BY DEF OneRequest
<1>. QED BY <1>5, <1>10, <1>11, <1>12, <1>13 DEF Sound

\* When requests follow one another and nothing throws, all of it holds always.
THEOREM SequentialInvariant ==
  ASSUME WorkflowAssumption, OneRequest
  PROVE  Spec => []SequentialInv
<1>1. Init => SequentialInv
  <2>1. SUFFICES ASSUME Init
                 PROVE  Sound
    BY DEF SequentialInv
  <2>2. /\ DOMAIN detail = {} /\ status = "NEW" /\ \A r \in Requests : web[r].todo = <<>>
    BY <2>1 DEF Init, Idle
  <2>. QED BY <2>2 DEF Sound, Performed, Settles, Fine, Waiting, Answers, Busy
<1>2. WorkflowInv /\ SequentialInv /\ [Next]_vars => SequentialInv'
  <2>1. SUFFICES ASSUME WorkflowInv, SequentialInv, [Next]_vars, faults' = 0
                 PROVE  Sound'
    BY DEF SequentialInv
  <2>2. TablesOK /\ WebOK
    BY <2>1 DEF WorkflowInv
  <2>3. CASE UNCHANGED vars
    <3>1. /\ status' = status /\ task' = task /\ detail' = detail
          /\ web' = web /\ faults' = faults
      BY <2>3 DEF vars
    <3>2. Sound
      BY <2>1, <3>1 DEF SequentialInv
    <3>3. Performed' /\ Answers'
      BY <3>1, <3>2 DEF Sound, Performed, Answers, IsOpen, Done, DetailsOf, Runs
    <3>4. Settles'
      BY <3>1, <3>2 DEF Sound, Settles, Fine, Covered, Covers, IsOpen, Assigning, Busy, Now
    <3>5. ASSUME NEW r \in Requests, Busy(r)'
          PROVE  Inserting(r)' /\ Closing(r)' /\ Finding(r)'
      <4>1. Inserting(r) /\ Closing(r) /\ Finding(r)
        BY <3>1, <3>2, <3>5 DEF Sound, Busy
      <4>2. Inserting(r)'
        BY <3>1, <4>1 DEF Inserting, Done, DetailsOf, Now
      <4>3. Closing(r)'
        BY <3>1, <4>1 DEF Closing, Fine, Covered, Covers, IsOpen, Now
      <4>4. Finding(r)'
        <5>1. Held(web[r].user, Now(r).pre)' = Held(web[r].user, Now(r).pre)
          BY <3>1 DEF Held, Done, DetailsOf, Now
        <5>2. Now(r)' = Now(r)
          BY <3>1 DEF Now
        <5>. QED BY <3>1, <4>1, <5>1, <5>2 DEF Finding
      <4>. QED BY <4>2, <4>3, <4>4
    <3>. QED BY <3>3, <3>4, <3>5 DEF Sound
  <2>4. ASSUME NEW r \in Requests, Statement(r)
        PROVE  Sound'
    <3>1. faults' = faults
      BY <2>4, FaultSteps
    <3>2. Sound
      BY <2>1, <3>1 DEF SequentialInv
    <3>. QED BY <2>2, <2>4, <3>2, SoundStep
  <2>5. ASSUME NEW r \in Requests, Throw(r)
        PROVE  Sound'
    <3>1. faults \in Nat /\ faults' = faults + 1
      BY <2>2, <2>5 DEF Throw, TablesOK
    <3>. QED BY <2>1, <3>1
  <2>6. ASSUME NEW r \in Requests, NEW u \in Users, Page(r, u)
        PROVE  Sound'
    <3>1. \E t, s : Submit(r, u, t, s)
      BY <2>6, PagePrograms
    <3>2. faults' = faults
      BY <3>1 DEF Submit
    <3>3. Sound
      BY <2>1, <3>2 DEF SequentialInv
    <3>. QED BY <2>2, <2>6, <3>3, PageSound
  <2>. QED BY <2>1, <2>3, <2>4, <2>5, <2>6 DEF Next
<1>. QED BY <1>1, <1>2, WorkflowInvariant, PTL DEF Spec

\* A document that waits is on somebody's list, whatever flow, groups and users
\* there are, when requests follow one another and no statement throws: every
\* handler that takes a document off a list puts it on another, or gives it a
\* status for which nobody is waited.
THEOREM WaitingAlwaysListed ==
  ASSUME WorkflowAssumption, OneRequest
  PROVE  Spec => []WaitingIsListed
<1>1. SequentialInv => WaitingIsListed
  <2>1. SUFFICES ASSUME Sound, \A r \in Requests : web[r] = Idle, ~deleted, status \in Waiting
                 PROVE  \E u \in Users, t \in DOMAIN task : Listed(u, t, status)
    BY DEF SequentialInv, WaitingIsListed, Settled, Waiting
  <2>2. \A r \in Requests : ~Busy(r) /\ web[r].todo = <<>>
    BY <2>1 DEF Busy, Idle
  <2>3. Fine(status)
    BY <2>1, <2>2, NothingAhead DEF Sound, Settles, WillAt, Assigning
  <2>. QED BY <2>1, <2>3 DEF Fine, Covered, Covers, Listed
<1>. QED BY <1>1, SequentialInvariant, PTL

\* A task is answered once, when requests follow one another and no statement
\* throws: who completes it closes it for all others, and details are inserted
\* for tasks only that nobody can have answered.
THEOREM AnsweredOnce ==
  ASSUME WorkflowAssumption, OneRequest
  PROVE  Spec => []AnsweredIsClosed
<1>1. SequentialInv => AnsweredIsClosed
  <2>1. SUFFICES ASSUME Sound, \A r \in Requests : web[r] = Idle
                 PROVE  \A t \in DOMAIN task : Done(t) => ~\E k \in DetailsOf(t) : IsOpen(k)
    BY DEF SequentialInv, AnsweredIsClosed, Settled
  <2>2. \A r \in Requests : ~Runs(r, "invalidate")
    BY <2>1 DEF Runs, Idle
  <2>. QED BY <2>1, <2>2 DEF Sound, Answers, DetailsOf
<1>. QED BY <1>1, SequentialInvariant, PTL
==============================================================================
