------------------------ MODULE PublishEngine_proofs ------------------------
(***************************************************************************)
(* Proofs about PublishEngine, for every set of requests and objects, every *)
(* bound and both publishing modes.                                         *)
(***************************************************************************)
EXTENDS PublishEngine, TLAPS
-----------------------------------------------------------------------------
(* Type correctness *)

\* The initial state is well typed.
LEMMA TypeInit == Init => TypeOK
  BY EngineAssumption DEF Init, TypeOK, CallerStates, DispatcherStates,
     WorkStates, Statuses, NoIndex

\* Every step keeps the types.
LEMMA TypeStep == TypeOK /\ [Next]_vars => TypeOK'
<1> SUFFICES ASSUME TypeOK, [Next]_vars PROVE TypeOK'
  OBVIOUS
<1> USE EngineAssumption DEF TypeOK, callerVars, dispatchVars, indexVars, runVars,
      historyVars, fixedVars
<1>1. CASE UNCHANGED vars
  BY <1>1 DEF vars
<1>2. CASE ClearTasks
  BY <1>2 DEF ClearTasks, NoIndex
<1>3. ASSUME NEW r \in Requests, Submit(r) PROVE TypeOK'
  <2>1. caller' \in [Requests -> CallerStates]
    <3>1. \E to \in {"rejected", "direct", "check"} : caller' = [caller EXCEPT ![r] = to]
      BY ONLY <1>3 DEF Submit, CallerStep
    <3>2. {"rejected", "direct", "check"} \subseteq CallerStates
      BY ONLY DEF CallerStates
    <3>3. caller \in [Requests -> CallerStates]
      OBVIOUS
    <3> QED BY ONLY <3>1, <3>2, <3>3
  <2>2. status' \in [Requests -> Statuses]
    BY <1>3 DEF Submit, Statuses
  <2>3. work' \in [Requests -> WorkStates]
    <3>1. work' = work \/ work' = [work EXCEPT ![r] = "ready"]
      BY ONLY <1>3 DEF Submit
    <3>2. "ready" \in WorkStates /\ work \in [Requests -> WorkStates]
      BY DEF WorkStates
    <3> QED BY ONLY <3>1, <3>2
  <2> QED BY <1>3, <2>1, <2>2, <2>3 DEF Submit
<1>4. ASSUME NEW r \in Requests, PublishStep(r) PROVE TypeOK'
  <2>1. CASE CheckDispatcher(r)
    BY <2>1 DEF CheckDispatcher, CallerStep, CallerStates
  <2>2. CASE AssignDispatcher(r)
    BY <2>2 DEF AssignDispatcher, CallerStep, CallerStates, DispatcherStates
  <2>3. CASE StartDispatcher(r)
    <3>1. \E to \in {"addFirst", "error"} : caller' = [caller EXCEPT ![r] = to]
      BY ONLY <2>3 DEF StartDispatcher, CallerStep
    <3>2. {"addFirst", "error"} \subseteq CallerStates
      BY ONLY DEF CallerStates
    <3>3. caller' \in [Requests -> CallerStates]
      BY ONLY <3>1, <3>2, TypeOK
    <3>4. dispatcher' \in [Requests -> DispatcherStates]
      <4>1. \/ dispatcher' = [dispatcher EXCEPT ![currentTaskThread] = "loop"]
            \/ dispatcher' = dispatcher
        BY ONLY <2>3 DEF StartDispatcher
      <4>2. dispatcher \in [Requests -> DispatcherStates] /\ "loop" \in DispatcherStates
        BY DEF DispatcherStates
      <4> QED BY ONLY <4>1, <4>2
    <3> QED BY <2>3, <3>3, <3>4 DEF StartDispatcher
  <2>4. CASE AddTask(r)
    <3>1. caller' \in [Requests -> CallerStates]
      <4>1. \E to \in {"joined", "accepted"} : caller' = [caller EXCEPT ![r] = to]
        BY ONLY <2>4 DEF AddTask, CallerStep
      <4>2. {"joined", "accepted"} \subseteq CallerStates
        BY ONLY DEF CallerStates
      <4> QED BY ONLY <4>1, <4>2, TypeOK
    <3>2. queue' \in [Requests -> Seq(Requests)]
      <4>1. \A d \in Requests : Append(queue[d], r) \in Seq(Requests)
        OBVIOUS
      <4> QED BY <2>4, <4>1 DEF AddTask
    <3> QED BY <2>4, <3>1, <3>2 DEF AddTask
  <2>5. CASE CheckQueue(r)
    BY <2>5 DEF CheckQueue, CallerStep, CallerStates
  <2>6. CASE ReadCurrent(r)
    BY <2>6 DEF ReadCurrent, CallerStep, CallerStates
  <2>7. CASE CompareCurrent(r)
    BY <2>7 DEF CompareCurrent, CallerStep, CallerStates
  <2> QED BY <1>4, <2>1, <2>2, <2>3, <2>4, <2>5, <2>6, <2>7 DEF PublishStep
<1>5. ASSUME NEW d \in Requests, DispatchLoop(d) PROVE TypeOK'
  <2> USE DEF DispatcherStep, DispatcherStates
  <2>1. CASE ReapEnded(d)
    BY <2>1 DEF ReapEnded
  <2>2. CASE ForgetTrace(d)
    BY <2>2 DEF ForgetTrace, DropTrace, NoIndex
  <2>3. CASE ForgetMonitor(d)
    BY <2>3 DEF ForgetMonitor, DropMonitor
  <2>4. CASE DropCurrent(d)
    BY <2>4 DEF DropCurrent
  <2>5. CASE TakeNext(d)
    <3>1. Head(queue[d]) \in Requests /\ Tail(queue[d]) \in Seq(Requests)
      BY <2>5 DEF TakeNext
    <3> QED BY <2>5, <3>1 DEF TakeNext
  <2>6. CASE LaunchWorker(d)
    BY <2>6 DEF LaunchWorker, WorkStates
  <2> QED BY <1>5, <2>1, <2>2, <2>3, <2>4, <2>5, <2>6 DEF DispatchLoop
<1>6. ASSUME NEW r \in Requests, FinishRun(r) PROVE TypeOK'
  <2> USE DEF WorkStep, WorkStates, SetPublishStatus, Statuses
  <2>1. CASE BeginRun(r)
    <3>1. \E to \in {"forget", "body"} : work' = [work EXCEPT ![r] = to]
      BY ONLY <2>1 DEF BeginRun, WorkStep
    <3>2. status' = status \/ status' = [status EXCEPT ![r] = "completed"]
      BY ONLY <2>1 DEF BeginRun, SetPublishStatus
    <3>3. work' \in [Requests -> WorkStates]
      BY ONLY <3>1, TypeOK DEF WorkStates, TypeOK
    <3>4. status' \in [Requests -> Statuses]
      BY ONLY <3>2, TypeOK DEF Statuses, TypeOK
    <3> QED BY <2>1, <3>3, <3>4 DEF BeginRun
  <2>2. CASE EndSub(r)
    BY <2>2 DEF EndSub, ParentOfSub, ParentOfRoot
  <2>3. CASE Distribute(r)
    BY <2>3 DEF Distribute
  <2>4. CASE AbortRun(r)
    BY <2>4 DEF AbortRun
  <2>5. CASE EndTrace(r)
    BY <2>5 DEF EndTrace, DropTrace, NoIndex
  <2>6. CASE EndRun(r)
    BY <2>6 DEF EndRun, DropMonitor, CallerStates
  <2> QED BY <1>6, <2>1, <2>2, <2>3, <2>4, <2>5, <2>6 DEF FinishRun
<1>7. ASSUME NEW r \in Requests, ReportProgress(r) PROVE TypeOK'
  BY <1>7 DEF ReportProgress, SetPublishStatus, Statuses
<1>8. ASSUME NEW r \in Requests, GetPublishMonitor(r) PROVE TypeOK'
  BY <1>8 DEF GetPublishMonitor
<1>9. ASSUME NEW r \in Requests, NEW o \in Objects, PublishSub(r, o) PROVE TypeOK'
  <2>1. /\ trace' \in [Objects -> SUBSET Objects]
        /\ monitorIndex' \in [Objects -> Requests \union {None}]
        /\ uuidIndex' \in [Requests -> Objects \union {None}]
    <3>1. TracePublished(r, o)
      BY <1>9 DEF PublishSub
    <3>2. /\ objectId[r] \in Objects
          /\ trace \in [Objects -> SUBSET Objects]
          /\ monitorIndex \in [Objects -> Requests \union {None}]
          /\ uuidIndex \in [Requests -> Objects \union {None}]
      OBVIOUS
    <3>3. trace' \in [Objects -> SUBSET Objects]
      BY ONLY <3>1, <3>2 DEF TracePublished
    <3>4. /\ monitorIndex' \in [Objects -> Requests \union {None}]
          /\ uuidIndex' \in [Requests -> Objects \union {None}]
      BY ONLY <3>1, <3>2 DEF TracePublished
    <3> QED BY ONLY <3>3, <3>4
  <2>2. /\ tried' \in [Requests -> Nat]
        /\ submonitors' \in [Requests -> Nat]
    <3>1. /\ tried' = [tried EXCEPT ![r] = @ + 1]
          /\ submonitors' = [submonitors EXCEPT ![r] = @ + 1]
      BY <1>9 DEF PublishSub
    <3> QED BY <3>1
  <2>3. ran' \in [Requests -> [Objects -> Nat]]
    <3>1. ran' = ran \/ ran' = [ran EXCEPT ![r][o] = @ + 1]
      BY ONLY <1>9 DEF PublishSub
    <3>2. ran \in [Requests -> [Objects -> Nat]]
      OBVIOUS
    <3> QED BY ONLY <3>1, <3>2
  <2>4. /\ sub' \in [Requests -> Objects \union {None}]
        /\ skipped' \in [Requests -> SUBSET Objects]
    <3>1. /\ sub' = sub \/ sub' = [sub EXCEPT ![r] = o]
          /\ skipped' = skipped \/ skipped' = [skipped EXCEPT ![r] = @ \union {o}]
      BY ONLY <1>9 DEF PublishSub
    <3>2. /\ sub \in [Requests -> Objects \union {None}]
          /\ skipped \in [Requests -> SUBSET Objects]
      OBVIOUS
    <3> QED BY ONLY <3>1, <3>2
  <2> QED BY <1>9, <2>1, <2>2, <2>3, <2>4 DEF PublishSub
<1> QED BY <1>1, <1>2, <1>3, <1>4, <1>5, <1>6, <1>7, <1>8, <1>9 DEF Next

\* Every variable of the engine keeps its type.
THEOREM TypeCorrect == Spec => []TypeOK
  BY TypeInit, TypeStep, PTL DEF Spec
-----------------------------------------------------------------------------
(* Custody of an accepted request: queue, dispatcher, worker *)

\* A request is held while it is queued or on its way to a worker.
Held(r) == \E d \in Requests : InQueue(r, d) \/ popped[d] = r

HeldIsFresh == \A r \in Requests : Held(r) => work[r] = "none" /\ Accepted(r)

EarlyIsFresh ==
  \A r \in Requests :
    caller[r] \notin {"direct", "joined", "accepted", "returned"} => work[r] = "none"

NewHasNoDispatcher ==
  \A r \in Requests : caller[r] \in {"idle", "check", "assign"} => dispatcher[r] = "absent"

PoppedIsLaunched == \A d \in Requests : dispatcher[d] # "launch" => popped[d] = None

DispatcherKnown ==
  \A r \in Requests :
    caller[r] \in {"start", "addFirst", "contain", "readCurrent", "compare", "add"}
      => currentTaskThread \in Requests

CurrentIsStarted ==
  \A d \in Requests : current[d] # None => work[current[d]] # "none"

Custody ==
  /\ HeldIsFresh
  /\ EarlyIsFresh
  /\ NewHasNoDispatcher
  /\ PoppedIsLaunched
  /\ DispatcherKnown
  /\ CurrentIsStarted

\* The inductive invariant of the hand-over.
HandOver == TypeOK /\ Custody /\ NoTaskTwice /\ NoTaskLost

\* What a queue holds after an append.
LEMMA InAppend ==
  ASSUME NEW s \in Seq(Requests), NEW x \in Requests, NEW y
  PROVE  (\E i \in 1..Len(Append(s, x)) : Append(s, x)[i] = y)
           <=> (\E i \in 1..Len(s) : s[i] = y) \/ y = x
<1>1. /\ Len(Append(s, x)) = Len(s) + 1
      /\ \A i \in 1..Len(s) : Append(s, x)[i] = s[i]
      /\ Append(s, x)[Len(s) + 1] = x
      /\ Len(s) \in Nat
  OBVIOUS
<1> QED BY <1>1

\* What a queue holds after its head was taken.
LEMMA InTail ==
  ASSUME NEW s \in Seq(Requests), s # <<>>, NEW y
  PROVE  (\E i \in 1..Len(s) : s[i] = y)
           <=> (\E i \in 1..Len(Tail(s)) : Tail(s)[i] = y) \/ y = Head(s)
<1>1. /\ Len(s) \in Nat \ {0}
      /\ Len(Tail(s)) = Len(s) - 1
      /\ \A i \in 1..Len(Tail(s)) : Tail(s)[i] = s[i + 1]
      /\ Head(s) = s[1]
  OBVIOUS
<1>2. ASSUME NEW i \in 1..Len(s), s[i] = y
      PROVE  (\E j \in 1..Len(Tail(s)) : Tail(s)[j] = y) \/ y = Head(s)
  <2>1. CASE i = 1
    BY <2>1, <1>1, <1>2
  <2>2. CASE i # 1
    <3>1. i - 1 \in 1..Len(Tail(s)) /\ Tail(s)[i - 1] = y
      BY <2>2, <1>1, <1>2
    <3> QED BY <3>1
  <2> QED BY <2>1, <2>2
<1>3. ASSUME NEW i \in 1..Len(Tail(s)), Tail(s)[i] = y
      PROVE  \E j \in 1..Len(s) : s[j] = y
  <2>1. i + 1 \in 1..Len(s) /\ s[i + 1] = y
    BY <1>1, <1>3
  <2> QED BY <2>1
<1>4. 1 \in 1..Len(s)
  BY <1>1
<1> QED BY <1>1, <1>2, <1>3, <1>4

\* Steps that move no request between the places that may hold it.
LEMMA HandOverFrame ==
  ASSUME Custody, NoTaskTwice, NoTaskLost,
         UNCHANGED <<caller, currentTaskThread, queue, popped, current>>,
         \A d \in Requests : dispatcher[d] \in {"absent", "launch"} => dispatcher'[d] = dispatcher[d],
         \A q \in Requests : work'[q] = "none" <=> work[q] = "none",
         current \in [Requests -> Requests \union {None}]
  PROVE  Custody' /\ NoTaskTwice' /\ NoTaskLost'
<1>1. \A q \in Requests : Held(q)' <=> Held(q)
  BY DEF Held, InQueue
<1>2. \A q \in Requests : Accepted(q)' <=> Accepted(q)
  BY DEF Accepted
<1>3. HeldIsFresh'
  BY <1>1, <1>2 DEF Custody, HeldIsFresh
<1>4. EarlyIsFresh'
  BY DEF Custody, EarlyIsFresh
<1>5. PoppedIsLaunched' /\ NewHasNoDispatcher'
  BY DEF Custody, PoppedIsLaunched, NewHasNoDispatcher
<1>6. DispatcherKnown'
  BY DEF Custody, DispatcherKnown
<1>7. CurrentIsStarted'
  BY DEF Custody, CurrentIsStarted
<1>8. NoTaskTwice'
  BY DEF NoTaskTwice, InQueue
<1>9. NoTaskLost'
  BY <1>2 DEF NoTaskLost, InQueue
<1> QED BY <1>3, <1>4, <1>5, <1>6, <1>7, <1>8, <1>9 DEF Custody

\* Steps of a caller that is not accepted yet, and is not by this step.
LEMMA HandOverCaller ==
  ASSUME Custody, NoTaskTwice, NoTaskLost,
         caller \in [Requests -> CallerStates],
         NEW r \in Requests, NEW to \in CallerStates,
         caller' = [caller EXCEPT ![r] = to],
         caller[r] \notin {"direct", "joined", "accepted", "returned"},
         to \notin {"direct", "joined", "accepted", "returned"},
         to \in {"start", "addFirst", "contain", "readCurrent", "compare", "add"}
           => currentTaskThread' \in Requests,
         currentTaskThread \in Requests => currentTaskThread' \in Requests,
         UNCHANGED <<queue, popped, current, work>>,
         \A d \in Requests : dispatcher[d] = "launch" => dispatcher'[d] = "launch",
         \A d \in Requests \ {r} : dispatcher[d] = "absent" => dispatcher'[d] = "absent",
         to \in {"idle", "check", "assign"} => dispatcher'[r] = "absent"
  PROVE  Custody' /\ NoTaskTwice' /\ NoTaskLost'
<1>1. \A q \in Requests : Held(q)' <=> Held(q)
  BY DEF Held, InQueue
<1>2. \A q \in Requests : Accepted(q)' <=> Accepted(q)
  BY DEF Accepted
<1>3. HeldIsFresh'
  BY <1>1, <1>2 DEF Custody, HeldIsFresh
<1>4. EarlyIsFresh'
  BY DEF Custody, EarlyIsFresh
<1>5. PoppedIsLaunched' /\ NewHasNoDispatcher'
  BY DEF Custody, PoppedIsLaunched, NewHasNoDispatcher
<1>6. DispatcherKnown'
  BY DEF Custody, DispatcherKnown
<1>7. CurrentIsStarted'
  BY DEF Custody, CurrentIsStarted
<1>8. NoTaskTwice'
  BY DEF NoTaskTwice, InQueue
<1>9. NoTaskLost'
  BY <1>2 DEF NoTaskLost, InQueue
<1> QED BY <1>3, <1>4, <1>5, <1>6, <1>7, <1>8, <1>9 DEF Custody

\* A synchronous request starts in its caller's thread.
LEMMA HandOverSubmit ==
  ASSUME HandOver, NEW r \in Requests, Submit(r)
  PROVE  Custody' /\ NoTaskTwice' /\ NoTaskLost'
<1> USE DEF HandOver
<1>1. /\ caller[r] = "idle"
      /\ UNCHANGED <<currentTaskThread, queue, popped, current, dispatcher>>
  BY DEF Submit, CallerStep, dispatchVars
<1>2. caller \in [Requests -> CallerStates] /\ work \in [Requests -> WorkStates]
  BY DEF TypeOK
<1>3. CASE UNCHANGED work /\ \E to \in {"rejected", "check"} : caller' = [caller EXCEPT ![r] = to]
  <2>1. dispatcher[r] = "absent"
    BY <1>1 DEF Custody, NewHasNoDispatcher
  <2> QED BY <1>1, <1>2, <1>3, <2>1, HandOverCaller DEF CallerStates
<1>4. CASE /\ work' = [work EXCEPT ![r] = "ready"]
           /\ caller' = [caller EXCEPT ![r] = "direct"]
  <2>1. ~Held(r) /\ ~Accepted(r) /\ work[r] = "none"
    BY <1>1 DEF Custody, HeldIsFresh, EarlyIsFresh, Accepted
  <2>2. \A q \in Requests : Held(q)' <=> Held(q)
    BY <1>1 DEF Held, InQueue
  <2>3. \A q \in Requests : Accepted(q)' <=> Accepted(q)
    BY <1>2, <1>4, <2>1 DEF Accepted
  <2>4. HeldIsFresh'
    BY <1>2, <1>4, <2>1, <2>2, <2>3 DEF Custody, HeldIsFresh
  <2>5. EarlyIsFresh'
    BY <1>2, <1>4 DEF Custody, EarlyIsFresh
  <2>6. PoppedIsLaunched' /\ NewHasNoDispatcher'
    BY <1>1, <1>2, <1>4 DEF Custody, PoppedIsLaunched, NewHasNoDispatcher
  <2>7. DispatcherKnown'
    BY <1>1, <1>2, <1>4 DEF Custody, DispatcherKnown
  <2>8. CurrentIsStarted'
    BY <1>1, <1>2, <1>4 DEF Custody, CurrentIsStarted
  <2>9. NoTaskTwice'
    <3>1. \A d \in Requests : ~InQueue(r, d) /\ popped[d] # r
      BY <2>1 DEF Held
    <3> QED BY <1>1, <1>2, <1>4, <3>1 DEF NoTaskTwice, InQueue
  <2>10. NoTaskLost'
    BY <1>1, <1>2, <1>4, <2>3 DEF NoTaskLost, InQueue
  <2> QED BY <2>4, <2>5, <2>6, <2>7, <2>8, <2>9, <2>10 DEF Custody
<1> QED BY <1>3, <1>4 DEF Submit, CallerStep

\* A request enters the queue of a dispatcher.
LEMMA HandOverAdd ==
  ASSUME HandOver, NEW r \in Requests, AddTask(r)
  PROVE  Custody' /\ NoTaskTwice' /\ NoTaskLost'
<1> USE DEF HandOver
<1> DEFINE t == currentTaskThread
<1>1. /\ caller[r] \in {"addFirst", "add"}
      /\ \E to \in {"joined", "accepted"} : caller' = [caller EXCEPT ![r] = to]
      /\ queue' = [queue EXCEPT ![t] = Append(@, r)]
      /\ UNCHANGED <<currentTaskThread, popped, current, dispatcher, work>>
  BY DEF AddTask, CallerStep, dispatchVars, runVars
<1>2. /\ caller \in [Requests -> CallerStates]
      /\ queue \in [Requests -> Seq(Requests)]
  BY DEF TypeOK
<1>3. t \in Requests /\ work[r] = "none" /\ ~Held(r)
  BY <1>1 DEF Custody, DispatcherKnown, EarlyIsFresh, HeldIsFresh, Accepted
<1>4. \A q, d \in Requests :
        InQueue(q, d)' <=> InQueue(q, d) \/ (q = r /\ d = t)
  <2> TAKE q, d \in Requests
  <2>1. CASE d = t
    <3>1. queue'[d] = Append(queue[d], r) /\ queue[d] \in Seq(Requests)
      BY <2>1, <1>1, <1>2, <1>3
    <3> QED BY ONLY <2>1, <3>1, InAppend DEF InQueue
  <2>2. CASE d # t
    BY <2>2, <1>1, <1>2, <1>3 DEF InQueue
  <2> QED BY <2>1, <2>2
<1>5. \A q \in Requests : Held(q)' <=> Held(q) \/ q = r
  BY <1>1, <1>3, <1>4 DEF Held
<1>6. \A q \in Requests : Accepted(q)' <=> Accepted(q) \/ q = r
  BY <1>1, <1>2 DEF Accepted
<1>7. HeldIsFresh'
  BY <1>1, <1>3, <1>5, <1>6 DEF Custody, HeldIsFresh
<1>8. EarlyIsFresh'
  BY <1>1, <1>2 DEF Custody, EarlyIsFresh
<1>9. /\ PoppedIsLaunched' /\ CurrentIsStarted'
      /\ DispatcherKnown' /\ NewHasNoDispatcher'
  BY <1>1, <1>2, <1>3 DEF Custody, PoppedIsLaunched, CurrentIsStarted, DispatcherKnown,
                          NewHasNoDispatcher
<1>10. NoTaskTwice'
  <2>1. \A d \in Requests : ~InQueue(r, d) /\ popped[d] # r
    BY <1>3 DEF Held
  <2>2. ASSUME NEW d \in Requests, NEW e \in Requests,
               NEW i \in 1..Len(queue'[d]), NEW j \in 1..Len(queue'[e]),
               queue'[d][i] = queue'[e][j]
        PROVE  d = e /\ i = j
    <3>1. /\ \A f \in Requests \ {t} : queue'[f] = queue[f]
          /\ queue'[t] = Append(queue[t], r)
      BY <1>1, <1>2, <1>3
    <3>2. /\ Len(queue[t]) \in Nat
          /\ Len(queue'[t]) = Len(queue[t]) + 1
          /\ \A k \in 1..Len(queue[t]) : queue'[t][k] = queue[t][k]
          /\ queue'[t][Len(queue[t]) + 1] = r
      BY <1>2, <1>3, <3>1
    <3>3. \A f \in Requests : \A k \in 1..Len(queue'[f]) :
            \/ k \in 1..Len(queue[f]) /\ queue'[f][k] = queue[f][k] /\ queue'[f][k] # r
            \/ f = t /\ k = Len(queue[t]) + 1 /\ queue'[f][k] = r
      <4> TAKE f \in Requests
      <4> TAKE k \in 1..Len(queue'[f])
      <4>1. CASE f # t
        BY <4>1, <3>1, <2>1 DEF InQueue
      <4>2. CASE f = t /\ k = Len(queue[t]) + 1
        BY <4>2, <3>2
      <4>3. CASE f = t /\ k # Len(queue[t]) + 1
        <5>1. k \in 1..Len(queue[t])
          BY <4>3, <3>2
        <5> QED BY <5>1, <4>3, <3>2, <2>1 DEF InQueue
      <4> QED BY <4>1, <4>2, <4>3
    <3>4. CASE queue'[d][i] = r
      BY <3>3, <3>4, <2>2
    <3>5. CASE queue'[d][i] # r
      BY <3>3, <3>5, <2>2 DEF NoTaskTwice
    <3> QED BY <3>4, <3>5
  <2>3. \A d, e \in Requests : popped'[d] # None =>
          /\ ~InQueue(popped[d], e)'
          /\ popped'[d] = popped'[e] => d = e
    <3> SUFFICES ASSUME NEW d \in Requests, NEW e \in Requests, popped[d] # None
                 PROVE  ~InQueue(popped[d], e)' /\ (popped[d] = popped[e] => d = e)
      BY <1>1
    <3>1. popped[d] \in Requests /\ popped[d] # r
      BY <2>1 DEF TypeOK
    <3> QED BY <3>1, <1>1, <1>4 DEF NoTaskTwice
  <2>4. \A q \in Requests : work'[q] # "none" =>
          \A d \in Requests : ~InQueue(q, d)' /\ popped'[d] # q
    BY <1>1, <1>3, <1>4 DEF NoTaskTwice
  <2> QED BY <2>2, <2>3, <2>4 DEF NoTaskTwice
<1>11. NoTaskLost'
  <2> SUFFICES ASSUME NEW q \in Requests, Accepted(q)', work'[q] = "none"
               PROVE  \E d \in Requests : InQueue(q, d)' \/ popped'[d] = q
    BY DEF NoTaskLost
  <2>1. CASE q = r
    BY <2>1, <1>3, <1>4
  <2>2. CASE q # r
    BY <2>2, <1>1, <1>4, <1>6 DEF NoTaskLost
  <2> QED BY <2>1, <2>2
<1> QED BY <1>7, <1>8, <1>9, <1>10, <1>11 DEF Custody

\* The dispatcher takes the head of its queue.
LEMMA HandOverTake ==
  ASSUME HandOver, NEW d \in Requests, TakeNext(d)
  PROVE  Custody' /\ NoTaskTwice' /\ NoTaskLost'
<1> USE DEF HandOver
<1>0. PICK h \in Requests : h = Head(queue[d])
  <2>1. queue[d] \in Seq(Requests) /\ queue[d] # <<>>
    BY DEF TakeNext, TypeOK
  <2>2. Head(queue[d]) \in Requests
    BY ONLY <2>1
  <2> QED BY ONLY <2>2
<1>1. /\ queue[d] # <<>>
      /\ dispatcher[d] = "loop"
      /\ dispatcher' = [dispatcher EXCEPT ![d] = "launch"]
      /\ popped' = [popped EXCEPT ![d] = h]
      /\ queue' = [queue EXCEPT ![d] = Tail(@)]
      /\ UNCHANGED <<caller, currentTaskThread, current, work>>
  BY <1>0 DEF TakeNext, DispatcherStep, callerVars, runVars
<1>2. /\ queue \in [Requests -> Seq(Requests)]
      /\ popped \in [Requests -> Requests \union {None}]
      /\ dispatcher \in [Requests -> DispatcherStates]
  BY DEF TypeOK
<1>3. popped[d] = None
  BY <1>1 DEF Custody, PoppedIsLaunched
<1>4. /\ h \in Requests
      /\ Len(queue[d]) \in Nat \ {0}
      /\ h = queue[d][1]
      /\ Len(queue'[d]) = Len(queue[d]) - 1
      /\ \A k \in 1..Len(queue'[d]) : queue'[d][k] = queue[d][k + 1]
      /\ \A e \in Requests \ {d} : queue'[e] = queue[e]
  BY <1>0, <1>1, <1>2
<1>5. InQueue(h, d)
  BY <1>4 DEF InQueue
<1>6. \A q, e \in Requests : InQueue(q, e) <=> InQueue(q, e)' \/ (q = h /\ e = d)
  <2> TAKE q, e \in Requests
  <2>1. CASE e = d
    <3>1. queue[d] \in Seq(Requests) /\ queue[d] # <<>> /\ queue'[d] = Tail(queue[d])
      BY <1>1, <1>2
    <3>2. (\E i \in 1..Len(queue[d]) : queue[d][i] = q)
            <=> (\E i \in 1..Len(Tail(queue[d])) : Tail(queue[d])[i] = q) \/ q = Head(queue[d])
      BY ONLY <3>1, InTail
    <3> QED BY <2>1, <3>1, <3>2, <1>0 DEF InQueue
  <2>2. CASE e # d
    BY <2>2, <1>4 DEF InQueue
  <2> QED BY <2>1, <2>2
<1>7. \A e \in Requests : ~InQueue(h, e)'
  <2> SUFFICES ASSUME NEW e \in Requests, NEW i \in 1..Len(queue'[e]), queue'[e][i] = h
               PROVE  FALSE
    BY DEF InQueue
  <2>1. CASE e = d
    BY <2>1, <1>4 DEF NoTaskTwice
  <2>2. CASE e # d
    BY <2>2, <1>4 DEF NoTaskTwice
  <2> QED BY <2>1, <2>2
<1>8. \A e \in Requests : popped[e] # h
  <2>1. h # None
    BY <1>4, EngineAssumption
  <2> QED BY <2>1, <1>5 DEF NoTaskTwice
<1>9. \A q \in Requests : Held(q)' <=> Held(q)
  <2> TAKE q \in Requests
  <2>1. CASE q = h
    BY <2>1, <1>1, <1>2, <1>5 DEF Held
  <2>2. CASE q # h
    <3>1. \A e \in Requests : popped'[e] = q <=> popped[e] = q
      BY <2>2, <1>1, <1>2, <1>3, EngineAssumption
    <3> QED BY <2>2, <3>1, <1>6 DEF Held
  <2> QED BY <2>1, <2>2
<1>10. HeldIsFresh' /\ EarlyIsFresh' /\ DispatcherKnown' /\ CurrentIsStarted'
  BY <1>1, <1>9 DEF Custody, HeldIsFresh, EarlyIsFresh, DispatcherKnown,
                    CurrentIsStarted, Accepted
<1>11. PoppedIsLaunched' /\ NewHasNoDispatcher'
  BY <1>1, <1>2 DEF Custody, PoppedIsLaunched, NewHasNoDispatcher
<1>12. NoTaskTwice'
  <2>1. ASSUME NEW e \in Requests, NEW f \in Requests,
               NEW i \in 1..Len(queue'[e]), NEW j \in 1..Len(queue'[f]),
               queue'[e][i] = queue'[f][j]
        PROVE  e = f /\ i = j
    <3> DEFINE before(g, k) == IF g = d THEN k + 1 ELSE k
    <3>1. ASSUME NEW g \in Requests, NEW k \in 1..Len(queue'[g])
          PROVE  /\ before(g, k) \in 1..Len(queue[g])
                 /\ queue'[g][k] = queue[g][before(g, k)]
      <4>1. CASE g = d
        <5>1. /\ Len(queue[d]) \in Nat
              /\ Len(queue'[d]) = Len(queue[d]) - 1
              /\ queue'[d][k] = queue[d][k + 1]
          BY <4>1, <1>4
        <5> QED BY ONLY <4>1, <3>1, <5>1
      <4>2. CASE g # d
        BY ONLY <4>2, <3>1, <1>4
      <4> QED BY <4>1, <4>2
    <3>2. /\ before(e, i) \in 1..Len(queue[e]) /\ before(f, j) \in 1..Len(queue[f])
          /\ queue[e][before(e, i)] = queue[f][before(f, j)]
      BY ONLY <2>1, <3>1
    <3> HIDE DEF before
    <3>3. e = f /\ before(e, i) = before(f, j)
      BY <3>2 DEF NoTaskTwice
    <3>4. i \in Nat /\ j \in Nat
      BY <2>1
    <3> QED BY ONLY <3>3, <3>4 DEF before
  <2>2. \A e, f \in Requests : popped'[e] # None =>
          /\ ~InQueue(popped[e], f)'
          /\ popped'[e] = popped'[f] => e = f
    <3> TAKE e, f \in Requests
    <3> HAVE popped'[e] # None
    <3>1. ~InQueue(popped[e], f)'
      <4>1. CASE e = d
        <5>1. popped'[e] = h
          BY <4>1, <1>1, <1>2
        <5> QED BY <5>1, <1>7 DEF InQueue
      <4>2. CASE e # d
        <5>1. popped'[e] = popped[e] /\ popped[e] \in Requests
          BY <4>2, <1>1, <1>2
        <5>2. ~InQueue(popped[e], f)
          BY <5>1, EngineAssumption DEF NoTaskTwice
        <5>3. \A q \in Requests : InQueue(q, f)' => InQueue(q, f)
          BY <1>6
        <5> QED BY <5>1, <5>2, <5>3 DEF InQueue
      <4> QED BY <4>1, <4>2
    <3>2. popped'[e] = popped'[f] => e = f
      BY <1>1, <1>2, <1>8 DEF NoTaskTwice
    <3> QED BY <3>1, <3>2
  <2>3. \A q \in Requests : work'[q] # "none" =>
          \A e \in Requests : ~InQueue(q, e)' /\ popped'[e] # q
    BY <1>1, <1>2, <1>5, <1>6 DEF NoTaskTwice
  <2> QED BY <2>1, <2>2, <2>3 DEF NoTaskTwice
<1>13. NoTaskLost'
  BY <1>1, <1>9 DEF NoTaskLost, Held, Accepted
<1> QED BY <1>10, <1>11, <1>12, <1>13 DEF Custody

\* The task that was taken gets its worker and becomes the current one.
LEMMA HandOverLaunch ==
  ASSUME HandOver, NEW d \in Requests, LaunchWorker(d)
  PROVE  Custody' /\ NoTaskTwice' /\ NoTaskLost'
<1> USE DEF HandOver
<1> DEFINE p == popped[d]
<1>1. /\ dispatcher[d] = "launch"
      /\ dispatcher' = [dispatcher EXCEPT ![d] = "loop"]
      /\ current' = [current EXCEPT ![d] = p]
      /\ popped' = [popped EXCEPT ![d] = None]
      /\ work' = [work EXCEPT ![p] = "ready"]
      /\ UNCHANGED <<caller, currentTaskThread, queue>>
  BY DEF LaunchWorker, DispatcherStep, callerVars
<1>2. /\ popped \in [Requests -> Requests \union {None}]
      /\ current \in [Requests -> Requests \union {None}]
      /\ dispatcher \in [Requests -> DispatcherStates]
      /\ work \in [Requests -> WorkStates]
  BY DEF TypeOK
<1>3. \A q, e \in Requests : InQueue(q, e)' <=> InQueue(q, e)
  BY <1>1 DEF InQueue
<1>4. \A q \in Requests : work'[q] = "none" <=> work[q] = "none" /\ q # p
  BY <1>1, <1>2
<1>5. \A q \in Requests : Held(q)' <=> Held(q) /\ q # p
  <2> TAKE q \in Requests
  <2>1. CASE q = p
    <3>1. p # None
      BY <2>1, EngineAssumption
    <3>2. \A e \in Requests : ~InQueue(p, e) /\ (popped[e] = p => e = d)
      BY <3>1 DEF NoTaskTwice
    <3>3. \A e \in Requests : popped'[e] # p
      BY <3>1, <3>2, <1>1, <1>2
    <3> QED BY <2>1, <3>2, <3>3, <1>3 DEF Held
  <2>2. CASE q # p
    <3>1. \A e \in Requests : popped'[e] = q <=> popped[e] = q
      BY <2>2, <1>1, <1>2, EngineAssumption
    <3> QED BY <2>2, <3>1, <1>3 DEF Held
  <2> QED BY <2>1, <2>2
<1>6. HeldIsFresh'
  BY <1>1, <1>4, <1>5 DEF Custody, HeldIsFresh, Accepted
<1>7. EarlyIsFresh'
  <2>1. p \in Requests => Accepted(p)
    BY DEF Custody, HeldIsFresh, Held
  <2> QED BY <2>1, <1>1, <1>4 DEF Custody, EarlyIsFresh, Accepted
<1>8. PoppedIsLaunched' /\ NewHasNoDispatcher'
  BY <1>1, <1>2 DEF Custody, PoppedIsLaunched, NewHasNoDispatcher
<1>9. DispatcherKnown'
  BY <1>1 DEF Custody, DispatcherKnown
<1>10. CurrentIsStarted'
  BY <1>1, <1>2, <1>4 DEF Custody, CurrentIsStarted
<1>11. NoTaskTwice'
  <2>1. \A e, f \in Requests : \A i \in 1..Len(queue'[e]), j \in 1..Len(queue'[f]) :
          queue'[e][i] = queue'[f][j] => e = f /\ i = j
    BY <1>1 DEF NoTaskTwice
  <2>2. \A e, f \in Requests : popped'[e] # None =>
          /\ ~InQueue(popped[e], f)'
          /\ popped'[e] = popped'[f] => e = f
    BY <1>1, <1>2, EngineAssumption DEF NoTaskTwice, InQueue
  <2>3. \A q \in Requests : work'[q] # "none" =>
          \A e \in Requests : ~InQueue(q, e)' /\ popped'[e] # q
    <3> TAKE q \in Requests
    <3> HAVE work'[q] # "none"
    <3>1. ~Held(q)'
      BY <1>4, <1>5 DEF NoTaskTwice, Held
    <3> QED BY <3>1 DEF Held
  <2> QED BY <2>1, <2>2, <2>3 DEF NoTaskTwice
<1>12. NoTaskLost'
  BY <1>1, <1>4, <1>5 DEF NoTaskLost, Held, Accepted
<1> QED BY <1>6, <1>7, <1>8, <1>9, <1>10, <1>11, <1>12 DEF Custody

\* A run ends; its synchronous caller returns.
LEMMA HandOverEnd ==
  ASSUME HandOver, NEW r \in Requests, EndRun(r)
  PROVE  Custody' /\ NoTaskTwice' /\ NoTaskLost'
<1> USE DEF HandOver
<1>1. /\ work[r] = "unindex"
      /\ work' = [work EXCEPT ![r] = "ended"]
      /\ caller' = IF synchronized[r] THEN [caller EXCEPT ![r] = "returned"] ELSE caller
      /\ UNCHANGED <<currentTaskThread, queue, popped, current, dispatcher>>
  BY DEF EndRun, WorkStep, dispatchVars
<1>2. work \in [Requests -> WorkStates] /\ caller \in [Requests -> CallerStates]
  BY DEF TypeOK
<1>3. \A q \in Requests : work'[q] = "none" <=> work[q] = "none"
  BY <1>1, <1>2
<1>4. \A q \in Requests : Held(q)' <=> Held(q)
  BY <1>1 DEF Held, InQueue
<1>5. ~Held(r)
  BY <1>1 DEF Custody, HeldIsFresh
<1>6. \A q \in Requests \ {r} : caller'[q] = caller[q]
  BY <1>1, <1>2
<1>7. HeldIsFresh'
  BY <1>3, <1>4, <1>5, <1>6 DEF Custody, HeldIsFresh, Accepted
<1>8. EarlyIsFresh'
  BY <1>1, <1>2, <1>3 DEF Custody, EarlyIsFresh
<1>9. PoppedIsLaunched' /\ CurrentIsStarted' /\ NewHasNoDispatcher'
  BY <1>1, <1>3, <1>2 DEF Custody, PoppedIsLaunched, CurrentIsStarted,
                          NewHasNoDispatcher, TypeOK
<1>10. DispatcherKnown'
  BY <1>1, <1>2 DEF Custody, DispatcherKnown
<1>11. NoTaskTwice'
  BY <1>1, <1>3 DEF NoTaskTwice, InQueue
<1>12. NoTaskLost'
  <2> SUFFICES ASSUME NEW q \in Requests, Accepted(q)', work'[q] = "none"
               PROVE  \E d \in Requests : InQueue(q, d)' \/ popped'[d] = q
    BY DEF NoTaskLost
  <2>1. q # r /\ work[q] = "none" /\ Accepted(q)
    BY <1>1, <1>2, <1>3, <1>6 DEF Accepted
  <2> QED BY <2>1, <1>1 DEF NoTaskLost, InQueue
<1> QED BY <1>7, <1>8, <1>9, <1>10, <1>11, <1>12 DEF Custody

\* The dispatcher gives up the task that ended.
LEMMA HandOverDrop ==
  ASSUME HandOver, NEW d \in Requests, DropCurrent(d)
  PROVE  Custody' /\ NoTaskTwice' /\ NoTaskLost'
<1> USE DEF HandOver
<1>1. /\ current' = [current EXCEPT ![d] = None]
      /\ dispatcher[d] = "drop"
      /\ dispatcher' = [dispatcher EXCEPT ![d] = "loop"]
      /\ UNCHANGED <<caller, currentTaskThread, queue, popped, work>>
  BY DEF DropCurrent, DispatcherStep, callerVars, runVars
<1>2. /\ current \in [Requests -> Requests \union {None}]
      /\ dispatcher \in [Requests -> DispatcherStates]
  BY DEF TypeOK
<1>3. HeldIsFresh' /\ EarlyIsFresh' /\ DispatcherKnown'
  BY <1>1 DEF Custody, HeldIsFresh, EarlyIsFresh, DispatcherKnown, Held, Accepted, InQueue
<1>4. PoppedIsLaunched' /\ NewHasNoDispatcher'
  BY <1>1, <1>2 DEF Custody, PoppedIsLaunched, NewHasNoDispatcher
<1>5. CurrentIsStarted'
  BY <1>1, <1>2 DEF Custody, CurrentIsStarted
<1>6. NoTaskTwice'
  BY <1>1 DEF NoTaskTwice, InQueue
<1>7. NoTaskLost'
  BY <1>1 DEF NoTaskLost, InQueue, Accepted
<1> QED BY <1>3, <1>4, <1>5, <1>6, <1>7 DEF Custody

\* The invariant of the hand-over holds at the start ...
LEMMA HandOverInit == Init => HandOver
<1> SUFFICES ASSUME Init PROVE HandOver
  OBVIOUS
<1>1. TypeOK
  BY TypeInit
<1>2. \A r, d \in Requests : ~InQueue(r, d) /\ popped[d] # r
  <2>1. \A d \in Requests : queue[d] = <<>> /\ popped[d] = None
    BY DEF Init
  <2>2. 1..Len(<<>>) = {}
    OBVIOUS
  <2>3. \A r, d \in Requests : ~InQueue(r, d)
    BY <2>1, <2>2 DEF InQueue
  <2>4. \A r, d \in Requests : popped[d] # r
    BY <2>1, EngineAssumption
  <2> QED BY <2>3, <2>4
<1>3. Custody
  BY <1>2 DEF Init, Custody, HeldIsFresh, Held, EarlyIsFresh, PoppedIsLaunched,
              DispatcherKnown, CurrentIsStarted, NewHasNoDispatcher
<1>4. NoTaskTwice
  BY DEF Init, NoTaskTwice
<1>5. NoTaskLost
  BY DEF Init, NoTaskLost, Accepted
<1> QED BY <1>1, <1>3, <1>4, <1>5 DEF HandOver

\* ... and is kept by every step.
LEMMA HandOverStep == HandOver /\ [Next]_vars => HandOver'
<1> SUFFICES ASSUME HandOver, [Next]_vars
             PROVE  Custody' /\ NoTaskTwice' /\ NoTaskLost'
  BY TypeStep DEF HandOver
<1>0. /\ Custody /\ NoTaskTwice /\ NoTaskLost
      /\ caller \in [Requests -> CallerStates]
      /\ dispatcher \in [Requests -> DispatcherStates]
      /\ current \in [Requests -> Requests \union {None}]
      /\ work \in [Requests -> WorkStates]
  BY DEF HandOver, TypeOK
<1> USE DEF callerVars, dispatchVars, indexVars, runVars, historyVars, fixedVars
<1>1. CASE UNCHANGED vars
  BY <1>0, <1>1, HandOverFrame DEF vars
<1>2. CASE ClearTasks
  BY <1>0, <1>2, HandOverFrame DEF ClearTasks
<1>3. ASSUME NEW r \in Requests, Submit(r)
      PROVE  Custody' /\ NoTaskTwice' /\ NoTaskLost'
  BY <1>3, HandOverSubmit
<1>4. ASSUME NEW r \in Requests, PublishStep(r)
      PROVE  Custody' /\ NoTaskTwice' /\ NoTaskLost'
  <2> USE DEF CallerStep, CallerStates
  <2>1. CASE CheckDispatcher(r)
    <3>1. /\ currentTaskThread # None => currentTaskThread \in Requests
          /\ dispatcher[r] = "absent"
      BY <2>1 DEF CheckDispatcher, HandOver, TypeOK, Custody, NewHasNoDispatcher
    <3> QED BY <1>0, <2>1, <3>1, HandOverCaller DEF CheckDispatcher
  <2>2. CASE AssignDispatcher(r)
    <3>1. /\ caller[r] = "assign"
          /\ caller' = [caller EXCEPT ![r] = "start"]
          /\ currentTaskThread' = r
          /\ dispatcher' = [dispatcher EXCEPT ![r] = "constructed"]
          /\ UNCHANGED <<queue, popped, current, work>>
      BY <2>2 DEF AssignDispatcher
    <3>2. dispatcher[r] = "absent"
      BY <3>1 DEF HandOver, Custody, NewHasNoDispatcher
    <3> QED BY <1>0, <3>1, <3>2, HandOverCaller
  <2>3. CASE StartDispatcher(r)
    <3>1. currentTaskThread \in Requests
      BY <1>0, <2>3 DEF StartDispatcher, Custody, DispatcherKnown
    <3>2. CASE dispatcher[currentTaskThread] = "constructed"
      BY <1>0, <2>3, <3>1, <3>2, HandOverCaller DEF StartDispatcher
    <3>3. CASE dispatcher[currentTaskThread] # "constructed"
      BY <1>0, <2>3, <3>1, <3>3, HandOverCaller DEF StartDispatcher
    <3> QED BY <3>2, <3>3
  <2>4. CASE AddTask(r)
    BY <2>4, HandOverAdd
  <2>5. CASE CheckQueue(r)
    <3>1. currentTaskThread \in Requests
      BY <1>0, <2>5 DEF CheckQueue, Custody, DispatcherKnown
    <3> QED BY <1>0, <2>5, <3>1, HandOverCaller DEF CheckQueue
  <2>6. CASE ReadCurrent(r)
    <3>1. currentTaskThread \in Requests
      BY <1>0, <2>6 DEF ReadCurrent, Custody, DispatcherKnown
    <3> QED BY <1>0, <2>6, <3>1, HandOverCaller DEF ReadCurrent
  <2>7. CASE CompareCurrent(r)
    <3>1. currentTaskThread \in Requests
      BY <1>0, <2>7 DEF CompareCurrent, Custody, DispatcherKnown
    <3>2. PICK to \in {"error", "refused", "add"} :
            caller[r] = "compare" /\ caller' = [caller EXCEPT ![r] = to]
      BY ONLY <2>7 DEF CompareCurrent, CallerStep
    <3>3. UNCHANGED <<currentTaskThread, queue, popped, current, work, dispatcher>>
      BY <2>7 DEF CompareCurrent
    <3> QED BY <1>0, <3>1, <3>2, <3>3, HandOverCaller
  <2> QED BY <1>4, <2>1, <2>2, <2>3, <2>4, <2>5, <2>6, <2>7 DEF PublishStep
<1>5. ASSUME NEW d \in Requests, DispatchLoop(d)
      PROVE  Custody' /\ NoTaskTwice' /\ NoTaskLost'
  <2> USE DEF DispatcherStep
  <2>1. CASE ReapEnded(d)
    BY <1>0, <2>1, HandOverFrame DEF ReapEnded
  <2>2. CASE ForgetTrace(d)
    BY <1>0, <2>2, HandOverFrame DEF ForgetTrace
  <2>3. CASE ForgetMonitor(d)
    BY <1>0, <2>3, HandOverFrame DEF ForgetMonitor
  <2>4. CASE DropCurrent(d)
    BY <2>4, HandOverDrop
  <2>5. CASE TakeNext(d)
    BY <2>5, HandOverTake
  <2>6. CASE LaunchWorker(d)
    BY <2>6, HandOverLaunch
  <2> QED BY <1>5, <2>1, <2>2, <2>3, <2>4, <2>5, <2>6 DEF DispatchLoop
<1>6. ASSUME NEW r \in Requests, FinishRun(r)
      PROVE  Custody' /\ NoTaskTwice' /\ NoTaskLost'
  <2> USE DEF WorkStep
  <2>1. CASE BeginRun(r)
    BY <1>0, <2>1, HandOverFrame DEF BeginRun
  <2>2. CASE EndSub(r)
    BY <1>0, <2>2, HandOverFrame DEF EndSub
  <2>3. CASE Distribute(r)
    BY <1>0, <2>3, HandOverFrame DEF Distribute
  <2>4. CASE AbortRun(r)
    BY <1>0, <2>4, HandOverFrame DEF AbortRun
  <2>5. CASE EndTrace(r)
    BY <1>0, <2>5, HandOverFrame DEF EndTrace
  <2>6. CASE EndRun(r)
    BY <2>6, HandOverEnd
  <2> QED BY <1>6, <2>1, <2>2, <2>3, <2>4, <2>5, <2>6 DEF FinishRun
<1>7. ASSUME NEW r \in Requests, ReportProgress(r)
      PROVE  Custody' /\ NoTaskTwice' /\ NoTaskLost'
  BY <1>0, <1>7, HandOverFrame DEF ReportProgress
<1>8. ASSUME NEW r \in Requests, GetPublishMonitor(r)
      PROVE  Custody' /\ NoTaskTwice' /\ NoTaskLost'
  BY <1>0, <1>8, HandOverFrame DEF GetPublishMonitor
<1>9. ASSUME NEW r \in Requests, NEW o \in Objects, PublishSub(r, o)
      PROVE  Custody' /\ NoTaskTwice' /\ NoTaskLost'
  BY <1>0, <1>9, HandOverFrame DEF PublishSub
<1> QED BY <1>1, <1>2, <1>3, <1>4, <1>5, <1>6, <1>7, <1>8, <1>9 DEF Next

\* The custody facts hold always.
LEMMA HandOverInvariant == Spec => []HandOver
  BY HandOverInit, HandOverStep, PTL DEF Spec

\* No request that publish() accepted is lost between the queue, the dispatcher
\* and its worker.
THEOREM AcceptedIsKept == Spec => []NoTaskLost
<1>1. HandOver => NoTaskLost
  BY DEF HandOver
<1> QED BY <1>1, HandOverInvariant, PTL

\* No request is in two of these places, with however many dispatchers.
THEOREM HeldInOnePlace == Spec => []NoTaskTwice
<1>1. HandOver => NoTaskTwice
  BY DEF HandOver
<1> QED BY <1>1, HandOverInvariant, PTL
-----------------------------------------------------------------------------
(* The indexes of what is being published *)

\* Steps that put nothing into an index and end no run that has one.
LEMMA IndexFrame ==
  ASSUME IndexOwned, UNCHANGED objectId,
         \A o \in Objects : trace'[o] = trace[o] \/ trace'[o] = NoIndex,
         \A o \in Objects : monitorIndex'[o] = monitorIndex[o] \/ monitorIndex'[o] = None,
         \A r \in Requests : work[r] \in {"body", "forget"} => work'[r] \in {"body", "forget"},
         \A r \in Requests : work[r] = "unindex" => work'[r] = "unindex"
  PROVE  IndexOwned'
<1> SUFFICES ASSUME NEW o \in Objects
             PROVE  /\ trace'[o] # NoIndex =>
                         \E r \in Requests : objectId[r] = o /\ work'[r] \in {"body", "forget"}
                    /\ monitorIndex'[o] # None =>
                         \E r \in Requests : objectId[r] = o /\ work'[r] \in {"body", "forget", "unindex"}
  BY DEF IndexOwned
<1>1. trace'[o] # NoIndex =>
        \E r \in Requests : objectId[r] = o /\ work'[r] \in {"body", "forget"}
  BY DEF IndexOwned
<1>2. monitorIndex'[o] # None =>
        \E r \in Requests : objectId[r] = o /\ work'[r] \in {"body", "forget", "unindex"}
  <2> HAVE monitorIndex'[o] # None
  <2>1. PICK r \in Requests : objectId[r] = o /\ work[r] \in {"body", "forget", "unindex"}
    BY DEF IndexOwned
  <2>2. work'[r] \in {"body", "forget", "unindex"}
    BY <2>1
  <2> QED BY <2>1, <2>2
<1> QED BY <1>1, <1>2

\* Every step keeps that indexes belong to roots that run.
LEMMA IndexStep == HandOver /\ IndexOwned /\ [Next]_vars => IndexOwned'
<1> SUFFICES ASSUME HandOver, IndexOwned, [Next]_vars PROVE IndexOwned'
  OBVIOUS
<1>0. /\ objectId \in [Requests -> Objects]
      /\ work \in [Requests -> WorkStates]
      /\ trace \in [Objects -> SUBSET Objects]
      /\ monitorIndex \in [Objects -> Requests \union {None}]
      /\ popped \in [Requests -> Requests \union {None}]
  BY DEF HandOver, TypeOK
<1> USE DEF callerVars, dispatchVars, indexVars, runVars, historyVars, fixedVars
<1>1. CASE UNCHANGED vars
  BY <1>1, IndexFrame DEF vars
<1>2. CASE ClearTasks
  BY <1>2, IndexFrame DEF ClearTasks
<1>3. ASSUME NEW r \in Requests, Submit(r) PROVE IndexOwned'
  <2>1. work[r] = "none"
    BY <1>3 DEF Submit, CallerStep, HandOver, Custody, EarlyIsFresh
  <2>2. /\ UNCHANGED <<objectId, trace, monitorIndex>>
        /\ UNCHANGED work \/ work' = [work EXCEPT ![r] = "ready"]
    BY <1>3 DEF Submit
  <2> QED BY <1>0, <2>1, <2>2, IndexFrame
<1>4. ASSUME NEW r \in Requests, PublishStep(r) PROVE IndexOwned'
  <2>1. UNCHANGED <<objectId, trace, monitorIndex, work>>
    BY <1>4 DEF PublishStep, CheckDispatcher, AssignDispatcher, StartDispatcher,
                AddTask, CheckQueue, ReadCurrent, CompareCurrent
  <2> QED BY <2>1, IndexFrame
<1>5. ASSUME NEW d \in Requests, DispatchLoop(d) PROVE IndexOwned'
  <2>1. CASE ReapEnded(d) \/ DropCurrent(d) \/ TakeNext(d)
    BY <2>1, IndexFrame DEF ReapEnded, DropCurrent, TakeNext
  <2>2. CASE ForgetTrace(d)
    BY <1>0, <2>2, IndexFrame DEF ForgetTrace, DropTrace
  <2>3. CASE ForgetMonitor(d)
    BY <1>0, <2>3, IndexFrame DEF ForgetMonitor, DropMonitor
  <2>4. CASE LaunchWorker(d)
    <3>1. \A r \in Requests : popped[d] = r => work[r] = "none"
      BY DEF HandOver, NoTaskTwice
    <3>2. UNCHANGED <<objectId, trace, monitorIndex>> /\ work' = [work EXCEPT ![popped[d]] = "ready"]
      BY <2>4 DEF LaunchWorker
    <3>3. \A r \in Requests : work[r] # "none" => work'[r] = work[r]
      BY <1>0, <3>1, <3>2
    <3> QED BY <3>2, <3>3, IndexFrame
  <2> QED BY <1>5, <2>1, <2>2, <2>3, <2>4 DEF DispatchLoop
<1>6. ASSUME NEW r \in Requests, FinishRun(r) PROVE IndexOwned'
  <2> USE DEF WorkStep
  <2>1. CASE BeginRun(r)
    BY <1>0, <2>1, IndexFrame DEF BeginRun
  <2>2. CASE EndSub(r)
    BY <2>2, IndexFrame DEF EndSub
  <2>3. CASE Distribute(r)
    BY <1>0, <2>3, IndexFrame DEF Distribute
  <2>4. CASE AbortRun(r)
    BY <1>0, <2>4, IndexFrame DEF AbortRun
  <2>5. CASE EndTrace(r)
    <3>1. /\ work[r] = "forget" /\ work' = [work EXCEPT ![r] = "unindex"]
          /\ trace' = [trace EXCEPT ![objectId[r]] = NoIndex]
          /\ UNCHANGED <<objectId, monitorIndex>>
      BY <2>5 DEF EndTrace, DropTrace
    <3>2. ASSUME NEW o \in Objects, trace'[o] # NoIndex
          PROVE  \E q \in Requests : objectId[q] = o /\ work'[q] \in {"body", "forget"}
      <4>1. o # objectId[r] /\ trace[o] # NoIndex
        BY <1>0, <3>1, <3>2
      <4>2. PICK q \in Requests : objectId[q] = o /\ work[q] \in {"body", "forget"}
        BY <4>1 DEF IndexOwned
      <4> QED BY <1>0, <3>1, <4>1, <4>2
    <3>3. ASSUME NEW o \in Objects, monitorIndex'[o] # None
          PROVE  \E q \in Requests : objectId[q] = o /\ work'[q] \in {"body", "forget", "unindex"}
      <4>1. PICK q \in Requests : objectId[q] = o /\ work[q] \in {"body", "forget", "unindex"}
        BY <3>1, <3>3 DEF IndexOwned
      <4> QED BY <1>0, <3>1, <4>1
    <3> QED BY <3>1, <3>2, <3>3 DEF IndexOwned
  <2>6. CASE EndRun(r)
    <3>1. /\ work[r] = "unindex" /\ work' = [work EXCEPT ![r] = "ended"]
          /\ monitorIndex' = [monitorIndex EXCEPT ![objectId[r]] = None]
          /\ UNCHANGED <<objectId, trace>>
      BY <2>6 DEF EndRun, DropMonitor
    <3>2. ASSUME NEW o \in Objects, trace'[o] # NoIndex
          PROVE  \E q \in Requests : objectId[q] = o /\ work'[q] \in {"body", "forget"}
      <4>1. PICK q \in Requests : objectId[q] = o /\ work[q] \in {"body", "forget"}
        BY <3>1, <3>2 DEF IndexOwned
      <4> QED BY <1>0, <3>1, <4>1
    <3>3. ASSUME NEW o \in Objects, monitorIndex'[o] # None
          PROVE  \E q \in Requests : objectId[q] = o /\ work'[q] \in {"body", "forget", "unindex"}
      <4>1. o # objectId[r] /\ monitorIndex[o] # None
        BY <1>0, <3>1, <3>3
      <4>2. PICK q \in Requests : objectId[q] = o /\ work[q] \in {"body", "forget", "unindex"}
        BY <4>1 DEF IndexOwned
      <4> QED BY <1>0, <3>1, <4>1, <4>2
    <3> QED BY <3>1, <3>2, <3>3 DEF IndexOwned
  <2> QED BY <1>6, <2>1, <2>2, <2>3, <2>4, <2>5, <2>6 DEF FinishRun
<1>7. ASSUME NEW r \in Requests, ReportProgress(r) PROVE IndexOwned'
  BY <1>7, IndexFrame DEF ReportProgress
<1>8. ASSUME NEW r \in Requests, GetPublishMonitor(r) PROVE IndexOwned'
  BY <1>0, <1>8, IndexFrame DEF GetPublishMonitor
<1>9. ASSUME NEW r \in Requests, NEW o \in Objects, PublishSub(r, o) PROVE IndexOwned'
  <2>1. /\ work[r] = "body" /\ UNCHANGED <<objectId, work>>
        /\ TracePublished(r, o)
    BY <1>9 DEF PublishSub
  <2>2. \A p \in Objects \ {objectId[r]} :
          trace'[p] = trace[p] /\ monitorIndex'[p] = monitorIndex[p]
    BY ONLY <1>0, <2>1 DEF TracePublished
  <2> QED BY <2>1, <2>2 DEF IndexOwned
<1> QED BY <1>1, <1>2, <1>3, <1>4, <1>5, <1>6, <1>7, <1>8, <1>9 DEF Next

\* What a run leaves in the indexes is gone when the last run of its object has
\* ended, whoever removes it.
THEOREM IndexesAreOwned == Spec => []IndexOwned
<1>1. Init => IndexOwned
  BY DEF Init, IndexOwned
<1> QED BY <1>1, HandOverInvariant, IndexStep, PTL DEF Spec

\* What the trace index of a root holds was published by a run of that root.
TraceSound ==
  \A o \in Objects : \A p \in trace[o] :
    p = o \/ \E q \in Requests : objectId[q] = o /\ ran[q][p] > 0

SkipInv == TypeOK /\ TraceSound /\ SkipJustified

\* Steps that only drop indexes keep that skips are justified.
LEMMA SkipFrame ==
  ASSUME TraceSound, SkipJustified, UNCHANGED <<objectId, ran, skipped>>,
         \A o \in Objects : trace'[o] = trace[o] \/ trace'[o] = NoIndex
  PROVE  TraceSound' /\ SkipJustified'
  BY DEF TraceSound, SkipJustified, NoIndex

\* Every step keeps that indexes are sound and skips justified.
LEMMA SkipStep == SkipInv /\ [Next]_vars => SkipInv'
<1> SUFFICES ASSUME SkipInv, [Next]_vars PROVE TraceSound' /\ SkipJustified'
  BY TypeStep DEF SkipInv
<1>0. /\ objectId \in [Requests -> Objects]
      /\ trace \in [Objects -> SUBSET Objects]
      /\ current \in [Requests -> Requests \union {None}]
      /\ ran \in [Requests -> [Objects -> Nat]]
      /\ skipped \in [Requests -> SUBSET Objects]
      /\ TraceSound
      /\ SkipJustified
  BY DEF SkipInv, TypeOK
<1> USE DEF callerVars, dispatchVars, indexVars, runVars, historyVars, fixedVars
<1>1. CASE UNCHANGED vars
  BY <1>0, <1>1, SkipFrame DEF vars
<1>2. CASE ClearTasks
  BY <1>0, <1>2, SkipFrame DEF ClearTasks
<1>3. ASSUME NEW r \in Requests,
             \/ Submit(r) \/ PublishStep(r) \/ ReportProgress(r) \/ GetPublishMonitor(r)
      PROVE  TraceSound' /\ SkipJustified'
  <2>1. UNCHANGED <<objectId, ran, skipped, trace>>
    BY <1>3 DEF Submit, PublishStep, CheckDispatcher, AssignDispatcher,
                StartDispatcher, AddTask, CheckQueue, ReadCurrent,
                CompareCurrent, ReportProgress, GetPublishMonitor
  <2> QED BY <1>0, <2>1, SkipFrame
<1>4. ASSUME NEW d \in Requests, DispatchLoop(d) PROVE TraceSound' /\ SkipJustified'
  <2>1. CASE ReapEnded(d) \/ ForgetMonitor(d) \/ DropCurrent(d) \/ TakeNext(d) \/ LaunchWorker(d)
    BY <1>0, <2>1, SkipFrame DEF ReapEnded, ForgetMonitor, DropCurrent, TakeNext, LaunchWorker
  <2>2. CASE ForgetTrace(d)
    BY <1>0, <2>2, SkipFrame DEF ForgetTrace, DropTrace
  <2> QED BY <1>4, <2>1, <2>2 DEF DispatchLoop
<1>5. ASSUME NEW r \in Requests, FinishRun(r) PROVE TraceSound' /\ SkipJustified'
  <2>1. CASE BeginRun(r) \/ EndSub(r) \/ Distribute(r) \/ AbortRun(r) \/ EndRun(r)
    BY <1>0, <2>1, SkipFrame DEF BeginRun, EndSub, Distribute, AbortRun, EndRun
  <2>2. CASE EndTrace(r)
    BY <1>0, <2>2, SkipFrame DEF EndTrace, DropTrace
  <2> QED BY <1>5, <2>1, <2>2 DEF FinishRun
<1>6. ASSUME NEW r \in Requests, NEW o \in Objects, PublishSub(r, o)
      PROVE  TraceSound' /\ SkipJustified'
  <2> DEFINE root == objectId[r]
  <2>1. UNCHANGED objectId /\ TracePublished(r, o)
    BY <1>6 DEF PublishSub
  <2>2. /\ \A p \in Objects \ {root} : trace'[p] = trace[p]
        /\ trace'[root] = {root} \/ trace'[root] = trace[root] \union {o}
        /\ trace'[root] = {root} => trace[root] = NoIndex \/ o = root \/ o \in trace[root]
    BY ONLY <1>0, <2>1 DEF TracePublished
  <2>3. CASE o \in trace[root]
    <3>1. UNCHANGED ran /\ skipped' = [skipped EXCEPT ![r] = @ \union {o}]
      BY <1>6, <2>3 DEF PublishSub, IsPublishedTask
    <3>2. TraceSound'
      BY <1>0, <2>1, <2>2, <2>3, <3>1 DEF TraceSound
    <3>3. SkipJustified'
      BY <1>0, <2>1, <2>3, <3>1 DEF SkipJustified, TraceSound
    <3> QED BY <3>2, <3>3
  <2>4. CASE o \notin trace[root]
    <3>1. UNCHANGED skipped /\ ran' = [ran EXCEPT ![r][o] = @ + 1]
      BY <1>6, <2>4 DEF PublishSub, IsPublishedTask
    <3>2. /\ \A q \in Requests : \A p \in Objects : ran[q][p] > 0 => ran'[q][p] > 0
          /\ ran'[r][o] > 0
      BY ONLY <1>0, <3>1
    <3>3. TraceSound'
      <4> SUFFICES ASSUME NEW x \in Objects, NEW p \in trace'[x], p # x
                   PROVE  \E q \in Requests : objectId[q] = x /\ ran'[q][p] > 0
        BY <2>1 DEF TraceSound
      <4>1. CASE x = root /\ p = o
        BY <4>1, <1>0, <3>2
      <4>2. CASE x # root \/ p # o
        <5>1. p \in trace[x] /\ p \in Objects
          BY <4>2, <1>0, <2>2
        <5> QED BY <5>1, <1>0, <3>2 DEF TraceSound
      <4> QED BY <4>1, <4>2
    <3>4. SkipJustified'
      BY <1>0, <2>1, <3>1, <3>2 DEF SkipJustified
    <3> QED BY <3>3, <3>4
  <2> QED BY <2>3, <2>4
<1> QED BY <1>1, <1>2, <1>3, <1>4, <1>5, <1>6 DEF Next

\* A sub-object that a run skips was published by a run of the same root.
THEOREM SkipsAreJustified == Spec => []SkipJustified
<1>1. Init => SkipInv
  BY TypeInit DEF Init, SkipInv, TraceSound, SkipJustified, NoIndex
<1>2. SkipInv => SkipJustified
  BY DEF SkipInv
<1> QED BY <1>1, <1>2, SkipStep, PTL DEF Spec
-----------------------------------------------------------------------------
(* What the trace index guarantees to a run that has it to itself *)

\* A synchronous request never enters a queue ...
SyncCallers ==
  \A r \in Requests :
    synchronized[r] => caller[r] \in {"idle", "rejected", "direct", "returned"}

\* ... so that no dispatcher ever holds it.
SyncNotCurrent == \A d, r \in Requests : synchronized[r] => current[d] # r

\* A dispatcher that cleans up has a task to clean up after.
ForgetHasCurrent ==
  \A d \in Requests : dispatcher[d] = "forget" => current[d] \in Requests

Apart == SyncCallers /\ SyncNotCurrent /\ ForgetHasCurrent

\* Nothing was reached yet.
Untouched(r) ==
  trace[objectId[r]] = NoIndex /\ \A o \in Objects : ran[r][o] = 0

\* The run reached object f first, and the index knows all that matters.
Traced(r, f) ==
  /\ trace[objectId[r]] # NoIndex
  /\ ran[r][f] <= 2
  /\ ran[r][f] = 2 => f \in trace[objectId[r]]
  /\ \A o \in Objects \ {f} :
       ran[r][o] <= 1 /\ (ran[r][o] = 1 => o \in trace[objectId[r]])

\* Nothing but f was published twice, and nothing three times.
TwiceAtMost(r, f) ==
  ran[r][f] <= 2 /\ \A o \in Objects \ {f} : ran[r][o] <= 1

DedupState(r) ==
  /\ work[r] \in {"none", "ready"} => Untouched(r)
  /\ work[r] = "body" => Untouched(r) \/ \E f \in Objects : Traced(r, f)
  /\ \E f \in Objects : TwiceAtMost(r, f)

DedupHolds == \A r \in Requests : cleared = 0 /\ OwnIndex(r) => DedupState(r)

DedupInv == HandOver /\ Apart /\ DedupHolds

\* No dispatcher or queue ever gets hold of a synchronous request.
LEMMA ApartStep == HandOver /\ Apart /\ [Next]_vars => Apart'
<1> SUFFICES ASSUME HandOver, Apart, [Next]_vars PROVE Apart'
  OBVIOUS
<1>0. /\ synchronized \in [Requests -> BOOLEAN]
      /\ caller \in [Requests -> CallerStates]
      /\ dispatcher \in [Requests -> DispatcherStates]
      /\ popped \in [Requests -> Requests \union {None}]
      /\ current \in [Requests -> Requests \union {None}]
      /\ None \notin Requests
      /\ SyncCallers /\ SyncNotCurrent /\ ForgetHasCurrent
  BY EngineAssumption DEF HandOver, TypeOK, Apart
<1> USE DEF callerVars, dispatchVars, indexVars, runVars, historyVars, fixedVars
<1>1. CASE UNCHANGED vars
  BY <1>0, <1>1 DEF vars, Apart, SyncCallers, SyncNotCurrent, ForgetHasCurrent
<1>2. CASE UNCHANGED <<synchronized, callerVars, dispatchVars>>
  BY <1>0, <1>2 DEF Apart, SyncCallers, SyncNotCurrent, ForgetHasCurrent
<1>3. ASSUME NEW r \in Requests, Submit(r) PROVE Apart'
  <2>1. /\ UNCHANGED <<synchronized, dispatcher, current>>
        /\ \/ caller' = [caller EXCEPT ![r] = "rejected"]
           \/ caller' = [caller EXCEPT ![r] = IF synchronized[r] THEN "direct" ELSE "check"]
    BY <1>3 DEF Submit, CallerStep
  <2>2. SyncCallers'
    BY ONLY <1>0, <2>1 DEF SyncCallers
  <2> QED BY <1>0, <2>1, <2>2 DEF Apart, SyncNotCurrent, ForgetHasCurrent
<1>4. ASSUME NEW r \in Requests, PublishStep(r) PROVE Apart'
  <2>1. /\ caller[r] \in {"check", "assign", "start", "addFirst", "contain",
                          "readCurrent", "compare", "add"}
        /\ \E to : caller' = [caller EXCEPT ![r] = to]
        /\ UNCHANGED <<synchronized, current>>
    BY <1>4 DEF PublishStep, CheckDispatcher, AssignDispatcher, StartDispatcher,
                AddTask, CheckQueue, ReadCurrent, CompareCurrent, CallerStep
  <2>2. SyncCallers'
    BY ONLY <1>0, <2>1 DEF SyncCallers
  <2>3. SyncNotCurrent'
    BY <1>0, <2>1 DEF SyncNotCurrent
  <2>4. \A d \in Requests : dispatcher'[d] = "forget" => dispatcher[d] = "forget"
    BY <1>0, <1>4 DEF PublishStep, CheckDispatcher, AssignDispatcher, StartDispatcher,
                AddTask, CheckQueue, ReadCurrent, CompareCurrent
  <2>5. ForgetHasCurrent'
    BY <1>0, <2>1, <2>4 DEF ForgetHasCurrent
  <2> QED BY <2>2, <2>3, <2>5 DEF Apart
<1>5. ASSUME NEW d \in Requests, DispatchLoop(d) PROVE Apart'
  <2> USE DEF DispatcherStep
  <2>0. UNCHANGED <<synchronized, caller>>
    BY <1>5 DEF DispatchLoop, ReapEnded, ForgetTrace, ForgetMonitor, DropCurrent,
                TakeNext, LaunchWorker
  <2>1. SyncCallers'
    BY <1>0, <2>0 DEF SyncCallers
  <2>2. CASE ReapEnded(d)
    <3>1. ForgetHasCurrent'
      BY <1>0, <2>2 DEF ReapEnded, ForgetHasCurrent
    <3> QED BY <1>0, <2>0, <2>1, <2>2, <3>1 DEF ReapEnded, Apart, SyncNotCurrent
  <2>3. CASE ForgetTrace(d) \/ ForgetMonitor(d) \/ TakeNext(d)
    <3>1. /\ UNCHANGED current
          /\ \A e \in Requests : dispatcher'[e] = "forget" => dispatcher[e] = "forget"
      BY <1>0, <2>3 DEF ForgetTrace, ForgetMonitor, TakeNext
    <3> QED BY <1>0, <2>0, <2>1, <3>1 DEF Apart, SyncNotCurrent, ForgetHasCurrent
  <2>4. CASE DropCurrent(d)
    <3>1. /\ current' = [current EXCEPT ![d] = None]
          /\ dispatcher' = [dispatcher EXCEPT ![d] = "loop"]
      BY <2>4 DEF DropCurrent
    <3> QED BY <1>0, <2>0, <2>1, <3>1 DEF Apart, SyncNotCurrent, ForgetHasCurrent
  <2>5. CASE LaunchWorker(d)
    <3>1. /\ current' = [current EXCEPT ![d] = popped[d]]
          /\ dispatcher' = [dispatcher EXCEPT ![d] = "loop"]
      BY <2>5 DEF LaunchWorker
    <3>2. \A r \in Requests : synchronized[r] => popped[d] # r
      BY <1>0 DEF HandOver, Custody, HeldIsFresh, Held, Accepted, SyncCallers
    <3> QED BY <1>0, <2>0, <2>1, <3>1, <3>2 DEF Apart, SyncNotCurrent, ForgetHasCurrent
  <2> QED BY <1>5, <2>2, <2>3, <2>4, <2>5 DEF DispatchLoop
<1>6. ASSUME NEW r \in Requests, FinishRun(r) PROVE Apart'
  <2>1. CASE EndRun(r)
    <3>1. /\ UNCHANGED <<synchronized, dispatcher, current>>
          /\ caller' = [caller EXCEPT ![r] = "returned"] \/ UNCHANGED caller
      BY <2>1 DEF EndRun
    <3>2. SyncCallers'
      BY ONLY <1>0, <3>1 DEF SyncCallers
    <3> QED BY <1>0, <3>1, <3>2 DEF Apart, SyncNotCurrent, ForgetHasCurrent
  <2>2. CASE ~EndRun(r)
    BY <1>2, <1>6, <2>2 DEF FinishRun, BeginRun, EndSub, Distribute, AbortRun, EndTrace
  <2> QED BY <2>1, <2>2
<1>7. ASSUME \/ ClearTasks
             \/ \E r \in Requests : \/ ReportProgress(r) \/ GetPublishMonitor(r)
                                    \/ \E o \in Objects : PublishSub(r, o)
      PROVE  Apart'
  BY <1>2, <1>7 DEF ClearTasks, ReportProgress, GetPublishMonitor, PublishSub
<1> QED BY <1>1, <1>3, <1>4, <1>5, <1>6, <1>7 DEF Next

\* Steps that publish nothing and leave a run that goes on its index.
LEMMA DedupFrame ==
  ASSUME NEW r \in Requests, DedupState(r),
         UNCHANGED <<objectId, ran>>,
         \/ work'[r] \notin {"none", "ready", "body"}
         \/ /\ trace'[objectId[r]] = trace[objectId[r]]
            /\ \/ work'[r] = work[r]
               \/ work[r] = "none" /\ work'[r] = "ready"
               \/ work[r] = "ready" /\ work'[r] = "body"
  PROVE  DedupState(r)'
<1>1. \E f \in Objects : TwiceAtMost(r, f)'
  BY DEF DedupState, TwiceAtMost
<1>2. CASE work'[r] \notin {"none", "ready", "body"}
  BY <1>1, <1>2 DEF DedupState
<1>3. CASE /\ trace'[objectId[r]] = trace[objectId[r]]
           /\ \/ work'[r] = work[r]
              \/ work[r] = "none" /\ work'[r] = "ready"
              \/ work[r] = "ready" /\ work'[r] = "body"
  <2>1. Untouched(r) => Untouched(r)'
    BY <1>3 DEF Untouched
  <2>2. \A f \in Objects : Traced(r, f) => Traced(r, f)'
    BY <1>3 DEF Traced
  <2>3. work'[r] \in {"none", "ready"} => Untouched(r)'
    BY <1>3, <2>1 DEF DedupState
  <2>4. work'[r] = "body" => Untouched(r)' \/ \E f \in Objects : Traced(r, f)'
    BY <1>3, <2>1, <2>2 DEF DedupState
  <2> QED BY <1>1, <2>3, <2>4 DEF DedupState
<1> QED BY <1>2, <1>3

\* The run reaches object o.
LEMMA DedupSub ==
  ASSUME TypeOK, NEW r \in Requests, NEW o \in Objects, DedupState(r), PublishSub(r, o)
  PROVE  DedupState(r)'
<1> DEFINE root == objectId[r]
<1>0. /\ root \in Objects
      /\ trace \in [Objects -> SUBSET Objects]
      /\ ran \in [Requests -> [Objects -> Nat]]
  BY DEF TypeOK
<1>1. /\ work[r] = "body" /\ UNCHANGED <<objectId, work>>
      /\ TracePublished(r, o)
      /\ IF o \in trace[root] THEN UNCHANGED ran ELSE ran' = [ran EXCEPT ![r][o] = @ + 1]
  BY DEF PublishSub, IsPublishedTask, fixedVars
<1>2. /\ trace'[root] # NoIndex
      /\ trace[root] # NoIndex => trace'[root] = trace[root] \union {o}
  <2>1. trace'[root] = {root} \/ trace'[root] = trace[root] \union {o}
    BY ONLY <1>0, <1>1 DEF TracePublished
  <2>2. trace[root] # NoIndex => trace'[root] = trace[root] \union {o}
    BY ONLY <1>0, <1>1 DEF TracePublished
  <2>3. trace'[root] # NoIndex
    BY ONLY <2>1 DEF NoIndex
  <2> QED BY <2>2, <2>3
<1>3. \A p \in Objects : ran'[r][p] = IF p = o /\ o \notin trace[root] THEN ran[r][p] + 1 ELSE ran[r][p]
  BY ONLY <1>0, <1>1
<1>4. \A p \in Objects : ran[r][p] \in Nat
  BY <1>0
<1>5. \E f \in Objects : Traced(r, f)'
  <2>1. CASE Untouched(r)
    <3>1. Traced(r, o)'
      BY <1>1, <1>2, <1>3, <2>1 DEF Untouched, Traced, NoIndex
    <3> QED BY <3>1
  <2>2. ASSUME NEW f \in Objects, Traced(r, f) PROVE Traced(r, f)'
    <3>1. trace'[root] = trace[root] \union {o}
      BY <1>2, <2>2 DEF Traced
    <3>2. ran'[r][f] <= 2 /\ (ran'[r][f] = 2 => f \in trace'[root])
      BY <1>3, <1>4, <2>2, <3>1 DEF Traced
    <3>3. ASSUME NEW p \in Objects \ {f}
          PROVE  ran'[r][p] <= 1 /\ (ran'[r][p] = 1 => p \in trace'[root])
      BY <1>3, <1>4, <2>2, <3>1 DEF Traced
    <3> QED BY <1>1, <1>2, <3>2, <3>3 DEF Traced
  <2> QED BY <1>1, <2>1, <2>2 DEF DedupState
<1>6. \E f \in Objects : TwiceAtMost(r, f)'
  BY <1>5 DEF Traced, TwiceAtMost
<1> QED BY <1>1, <1>5, <1>6 DEF DedupState

\* Every step keeps what was published of the objects of an exclusive root.
LEMMA DedupStep == DedupInv /\ [Next]_vars => DedupInv'
<1> SUFFICES ASSUME DedupInv, [Next]_vars PROVE DedupHolds'
  BY HandOverStep, ApartStep DEF DedupInv
<1> SUFFICES ASSUME NEW r \in Requests, cleared' = 0, OwnIndex(r)' PROVE DedupState(r)'
  BY DEF DedupHolds
<1>0. /\ TypeOK
      /\ objectId \in [Requests -> Objects]
      /\ trace \in [Objects -> SUBSET Objects]
      /\ work \in [Requests -> WorkStates]
      /\ ran \in [Requests -> [Objects -> Nat]]
      /\ popped \in [Requests -> Requests \union {None}]
      /\ cleared \in Nat
      /\ SyncCallers /\ SyncNotCurrent /\ ForgetHasCurrent
  BY DEF DedupInv, HandOver, TypeOK, Apart
<1> USE DEF callerVars, dispatchVars, indexVars, runVars, historyVars, fixedVars
<1>f. UNCHANGED <<objectId, synchronized>>
  BY DEF Next, vars, ClearTasks, Submit, PublishStep, CheckDispatcher, AssignDispatcher,
         StartDispatcher, AddTask, CheckQueue, ReadCurrent, CompareCurrent,
         DispatchLoop, ReapEnded, ForgetTrace, ForgetMonitor, DropCurrent, TakeNext,
         LaunchWorker, FinishRun, BeginRun, EndSub, Distribute, AbortRun, EndTrace,
         EndRun, ReportProgress, GetPublishMonitor, PublishSub
<1>o. OwnIndex(r)
  BY <1>f DEF OwnIndex
<1>d. cleared = 0 => DedupState(r)
  BY <1>o DEF DedupInv, DedupHolds
<1>1. CASE UNCHANGED vars
  BY <1>1, <1>d, DedupFrame DEF vars
<1>2. CASE ClearTasks
  BY <1>0, <1>2 DEF ClearTasks
<1>3. ASSUME NEW q \in Requests, Submit(q) PROVE DedupState(r)'
  <2>1. work[q] = "none"
    BY <1>3 DEF Submit, CallerStep, DedupInv, HandOver, Custody, EarlyIsFresh
  <2>2. /\ UNCHANGED <<objectId, trace, ran, cleared>>
        /\ UNCHANGED work \/ work' = [work EXCEPT ![q] = "ready"]
    BY <1>3 DEF Submit
  <2> QED BY <1>0, <1>d, <2>1, <2>2, DedupFrame
<1>4. ASSUME NEW q \in Requests,
             PublishStep(q) \/ ReportProgress(q) \/ GetPublishMonitor(q)
      PROVE  DedupState(r)'
  <2>1. UNCHANGED <<objectId, trace, ran, work, cleared>>
    BY <1>4 DEF PublishStep, CheckDispatcher, AssignDispatcher, StartDispatcher,
                AddTask, CheckQueue, ReadCurrent, CompareCurrent, ReportProgress,
                GetPublishMonitor
  <2> QED BY <1>d, <2>1, DedupFrame
<1>5. ASSUME NEW d \in Requests, DispatchLoop(d) PROVE DedupState(r)'
  <2>1. CASE ReapEnded(d) \/ ForgetMonitor(d) \/ DropCurrent(d) \/ TakeNext(d)
    <3>1. UNCHANGED <<objectId, trace, ran, work, cleared>>
      BY <2>1 DEF ReapEnded, ForgetMonitor, DropCurrent, TakeNext
    <3> QED BY <1>d, <3>1, DedupFrame
  <2>2. CASE ForgetTrace(d)
    <3>1. /\ dispatcher[d] = "forget"
          /\ trace' = [trace EXCEPT ![objectId[current[d]]] = NoIndex]
          /\ UNCHANGED <<objectId, ran, work, cleared>>
      BY <2>2 DEF ForgetTrace, DispatcherStep, DropTrace
    <3>2. current[d] \in Requests \ {r}
      BY <1>0, <1>o, <3>1 DEF ForgetHasCurrent, SyncNotCurrent, OwnIndex
    <3>3. trace'[objectId[r]] = trace[objectId[r]]
      BY <1>0, <1>o, <3>1, <3>2 DEF OwnIndex
    <3> QED BY <1>d, <3>1, <3>3, DedupFrame
  <2>3. CASE LaunchWorker(d)
    <3>1. /\ UNCHANGED <<objectId, trace, ran, cleared>>
          /\ work' = [work EXCEPT ![popped[d]] = "ready"]
      BY <2>3 DEF LaunchWorker
    <3>2. popped[d] # r
      BY <1>0, <1>o DEF DedupInv, HandOver, Custody, HeldIsFresh, Held, Accepted,
                        SyncCallers, OwnIndex
    <3> QED BY <1>0, <1>d, <3>1, <3>2, DedupFrame
  <2> QED BY <1>5, <2>1, <2>2, <2>3 DEF DispatchLoop
<1>6. ASSUME NEW q \in Requests, FinishRun(q) PROVE DedupState(r)'
  <2>1. UNCHANGED <<objectId, ran, cleared>>
    BY <1>6 DEF FinishRun, BeginRun, EndSub, Distribute, AbortRun, EndTrace, EndRun
  <2>2. \/ /\ work[q] = "ready" /\ work' = [work EXCEPT ![q] = "body"]
           /\ UNCHANGED trace
        \/ UNCHANGED <<work, trace>>
        \/ \E to \in {"forget", "unindex", "ended"} :
             /\ work' = [work EXCEPT ![q] = to]
             /\ UNCHANGED trace \/ trace' = [trace EXCEPT ![objectId[q]] = NoIndex]
    BY <1>6 DEF FinishRun, BeginRun, EndSub, Distribute, AbortRun, EndTrace, EndRun,
                WorkStep, DropTrace
  <2>3. CASE q = r
    BY <1>0, <1>d, <2>1, <2>2, <2>3, DedupFrame
  <2>4. CASE q # r
    <3>1. trace'[objectId[r]] = trace[objectId[r]] /\ work'[r] = work[r]
      BY <1>0, <1>o, <2>2, <2>4 DEF OwnIndex
    <3> QED BY <1>d, <2>1, <3>1, DedupFrame
  <2> QED BY <2>3, <2>4
<1>7. ASSUME NEW q \in Requests, NEW o \in Objects, PublishSub(q, o) PROVE DedupState(r)'
  <2>1. UNCHANGED <<cleared, work, objectId>> /\ TracePublished(q, o)
    BY <1>7 DEF PublishSub
  <2>2. CASE q = r
    BY <1>0, <1>7, <1>d, <2>1, <2>2, DedupSub
  <2>3. CASE q # r
    <3>1. trace'[objectId[r]] = trace[objectId[r]]
      BY <1>0, <1>o, <2>1, <2>3 DEF OwnIndex, TracePublished
    <3>2. \A p \in Objects : ran'[r][p] = ran[r][p]
      BY <1>0, <1>7, <2>3 DEF PublishSub
    <3>3. ran'[r] = ran[r]
      BY <1>0, <1>7, <2>3 DEF PublishSub
    <3>4. DedupState(r)
      BY <1>d, <2>1
    <3> QED BY <2>1, <3>1, <3>3, <3>4 DEF DedupState, Untouched, Traced, TwiceAtMost
  <2> QED BY <2>2, <2>3
<1> QED BY <1>1, <1>2, <1>3, <1>4, <1>5, <1>6, <1>7 DEF Next

\* A run in its caller's own thread that has its root's index to itself
\* publishes no object three times, and at most one object twice.
THEOREM FirstOnlyTwice == Spec => []DedupExclusive
<1>1. Init => DedupInv
  <2> SUFFICES ASSUME Init PROVE DedupInv
    OBVIOUS
  <2>1. Apart
    BY EngineAssumption DEF Init, Apart, SyncCallers, SyncNotCurrent, ForgetHasCurrent
  <2>2. ASSUME NEW r \in Requests PROVE DedupState(r)
    <3>1. Untouched(r) /\ work[r] = "none" /\ objectId[r] \in Objects
      BY DEF Init, Untouched
    <3>2. TwiceAtMost(r, objectId[r])
      BY <3>1 DEF Untouched, TwiceAtMost
    <3> QED BY <3>1, <3>2 DEF DedupState
  <2> QED BY <2>1, <2>2, HandOverInit DEF DedupInv, DedupHolds
<1>2. DedupInv => DedupExclusive
  <2> SUFFICES ASSUME DedupInv, NEW r \in Requests, cleared = 0, OwnIndex(r)
               PROVE  /\ \A o \in Objects : ran[r][o] <= 2
                      /\ \A o, p \in Objects : ran[r][o] = 2 /\ ran[r][p] = 2 => o = p
    BY DEF DedupExclusive
  <2>1. PICK f \in Objects : TwiceAtMost(r, f)
    BY DEF DedupInv, DedupHolds, DedupState
  <2>2. \A o \in Objects : ran[r][o] \in Nat
    BY DEF DedupInv, HandOver, TypeOK
  <2> QED BY <2>1, <2>2 DEF TwiceAtMost
<1> QED BY <1>1, <1>2, DedupStep, PTL DEF Spec
=============================================================================
