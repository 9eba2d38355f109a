-------------------- MODULE PublishEngineRefinement_proofs --------------------
(***************************************************************************)
(* PublishEngine implements TaskLifecycle: every step of the engine is a    *)
(* step of the life cycle of one request, or changes no request's phase.    *)
(***************************************************************************)
EXTENDS PublishEngine_proofs

\* The phase of a request depends on its caller and its worker only.
LEMMA PhaseKept ==
  ASSUME NEW r \in Requests, caller'[r] = caller[r], work'[r] = work[r]
  PROVE  PhaseOf(r)' = PhaseOf(r)
  BY DEF PhaseOf, Accepted

\* A request without work that was not answered is new.
LEMMA PhaseNew ==
  ASSUME NEW r \in Requests, work[r] = "none",
         caller[r] \notin {"refused", "rejected", "error", "joined", "accepted"}
  PROVE  PhaseOf(r) = "new"
  BY DEF PhaseOf, Accepted

\* A request accepted that is not yet at work is pending.
LEMMA PhasePending ==
  ASSUME NEW r \in Requests, work[r] = "none", Accepted(r)
  PROVE  PhaseOf(r) = "pending"
  BY DEF PhaseOf, Accepted

\* A request at work is running.
LEMMA PhaseRunning ==
  ASSUME NEW r \in Requests, work[r] \notin {"none", "ended"},
         caller[r] \notin {"refused", "rejected", "error"}
  PROVE  PhaseOf(r) = "running"
  BY DEF PhaseOf

\* A request whose work has ended is finished.
LEMMA PhaseFinished ==
  ASSUME NEW r \in Requests, work[r] = "ended",
         caller[r] \notin {"refused", "rejected", "error"}
  PROVE  PhaseOf(r) = "finished"
  BY DEF PhaseOf

\* A step that changes the phase of one request only is a move of it ...
LEMMA MoveOne ==
  ASSUME UNCHANGED objectId,
         NEW r \in Requests, NEW from, NEW to,
         \A q \in Requests \ {r} : PhaseOf(q)' = PhaseOf(q),
         PhaseOf(r) \in from,
         PhaseOf(r)' = to
  PROVE  Abstract!Move(r, from, to)
<1>1. [q \in Requests |-> PhaseOf(q)]' = [[q \in Requests |-> PhaseOf(q)] EXCEPT ![r] = to]
  OBVIOUS
<1> QED BY <1>1 DEF Abstract!Move

\* ... and one that changes none is a stutter.
LEMMA MoveNone ==
  ASSUME UNCHANGED objectId, \A q \in Requests : PhaseOf(q)' = PhaseOf(q)
  PROVE  UNCHANGED Abstract!lifecycleVars
<1>1. [q \in Requests |-> PhaseOf(q)]' = [q \in Requests |-> PhaseOf(q)]
  OBVIOUS
<1> QED BY <1>1 DEF Abstract!lifecycleVars

\* Initially every request is new.
LEMMA RefinementInit == Init => Abstract!LifecycleInit
<1> SUFFICES ASSUME Init PROVE Abstract!LifecycleInit
  OBVIOUS
<1>1. \A r \in Requests : work[r] = "none" /\ caller[r] = "idle"
  BY DEF Init
<1>2. \A r \in Requests : PhaseOf(r) = "new"
  BY <1>1, PhaseNew
<1>3. [r \in Requests |-> PhaseOf(r)] = [r \in Requests |-> "new"]
  BY <1>2
<1>4. objectId \in [Requests -> Objects]
  BY DEF Init
<1> QED BY <1>3, <1>4 DEF Abstract!LifecycleInit

\* A caller that is not accepted goes on, is refused or fails.
LEMMA CallerMoves ==
  ASSUME HandOver, NEW r \in Requests, PublishStep(r)
  PROVE  [Abstract!LifecycleNext]_Abstract!lifecycleVars
<1>0. /\ caller \in [Requests -> CallerStates]
      /\ work[r] = "none"
      /\ caller[r] \notin {"refused", "rejected", "error", "joined", "accepted"}
      /\ UNCHANGED <<objectId, work>>
  <2>1. /\ caller[r] \in {"check", "assign", "start", "addFirst", "contain",
                          "readCurrent", "compare", "add"}
        /\ UNCHANGED <<objectId, work>>
    BY DEF PublishStep, CheckDispatcher, AssignDispatcher, StartDispatcher, AddTask,
           CheckQueue, ReadCurrent, CompareCurrent, CallerStep, fixedVars, runVars
  <2> QED BY <2>1 DEF HandOver, TypeOK, Custody, EarlyIsFresh
<1>1. PICK to \in CallerStates : caller' = [caller EXCEPT ![r] = to]
  BY DEF PublishStep, CheckDispatcher, AssignDispatcher, StartDispatcher, AddTask,
         CheckQueue, ReadCurrent, CompareCurrent, CallerStep, CallerStates
<1>2. \A q \in Requests \ {r} : PhaseOf(q)' = PhaseOf(q)
  BY <1>0, <1>1, PhaseKept
<1>3. PhaseOf(r) = "new"
  BY <1>0, PhaseNew
<1>4. caller'[r] = to /\ work'[r] = "none"
  BY <1>0, <1>1
<1>5. CASE to \in {"joined", "accepted"}
  <2>1. PhaseOf(r)' = "pending"
    BY <1>4, <1>5 DEF PhaseOf, Accepted
  <2>2. Abstract!Accept(r)
    BY <1>0, <1>2, <1>3, <2>1, MoveOne DEF Abstract!Accept
  <2> QED BY <2>2 DEF Abstract!LifecycleNext
<1>6. CASE to \in {"rejected", "error"}
  <2>1. PhaseOf(r)' = "failed"
    <3>1. /\ caller'[r] \in {"rejected", "error"}
          /\ caller'[r] \notin {"refused", "joined", "accepted"}
          /\ work'[r] = "none"
      BY <1>4, <1>6
    <3> QED BY <3>1 DEF PhaseOf, Accepted
  <2>2. Abstract!Fail(r)
    BY <1>0, <1>2, <1>3, <2>1, MoveOne DEF Abstract!Fail
  <2> QED BY <2>2 DEF Abstract!LifecycleNext
<1>7. CASE to = "refused"
  <2>1. PhaseOf(r)' = "refused"
    <3>1. caller'[r] = "refused" /\ work'[r] = "none"
      BY <1>4, <1>7
    <3> QED BY <3>1 DEF PhaseOf, Accepted
  <2>2. PICK q \in Requests : objectId[q] = objectId[r] /\ (Held(q) \/ work[q] # "none")
    <3>1. CASE CheckQueue(r)
      <4>1. Contains(currentTaskThread, objectId[r])
        BY <1>0, <1>4, <1>7, <3>1 DEF CheckQueue, CallerStep
      <4>2. /\ currentTaskThread \in Requests
            /\ queue \in [Requests -> Seq(Requests)]
        BY <3>1 DEF CheckQueue, CallerStep, HandOver, TypeOK, Custody, DispatcherKnown
      <4>3. PICK i \in 1..Len(queue[currentTaskThread]) :
              objectId[queue[currentTaskThread][i]] = objectId[r]
        BY <4>1 DEF Contains
      <4>4. queue[currentTaskThread][i] \in Requests
        BY <4>2, <4>3
      <4>5. Held(queue[currentTaskThread][i])
        BY <4>2, <4>3 DEF Held, InQueue
      <4> QED BY <4>3, <4>4, <4>5
    <3>2. CASE CompareCurrent(r)
      <4>1. /\ currentTaskThread \in Requests
            /\ current \in [Requests -> Requests \union {None}]
        BY <3>2 DEF CompareCurrent, CallerStep, HandOver, TypeOK, Custody, DispatcherKnown
      <4>2. /\ current[currentTaskThread] # None
            /\ objectId[current[currentTaskThread]] = objectId[r]
        BY <1>0, <1>4, <1>7, <3>2 DEF CompareCurrent, CallerStep
      <4>3. work[current[currentTaskThread]] # "none"
        BY <4>1, <4>2 DEF HandOver, Custody, CurrentIsStarted
      <4> QED BY <4>1, <4>2, <4>3
    <3>3. CheckQueue(r) \/ CompareCurrent(r)
      BY <1>0, <1>4, <1>7 DEF PublishStep, CheckDispatcher, AssignDispatcher,
         StartDispatcher, AddTask, ReadCurrent, CallerStep
    <3> QED BY <3>1, <3>2, <3>3
  <2>3. q # r
    BY <1>0, <2>2 DEF HandOver, Custody, HeldIsFresh, Accepted
  <2>4. PhaseOf(q) \in {"pending", "running", "finished"}
    <3>1. CASE Held(q)
      BY <3>1, PhasePending DEF HandOver, Custody, HeldIsFresh
    <3>2. CASE work[q] # "none"
      <4>1. caller[q] \notin {"refused", "rejected", "error"}
        BY <3>2 DEF HandOver, Custody, EarlyIsFresh
      <4> QED BY <3>2, <4>1, PhaseRunning, PhaseFinished
    <3> QED BY <2>2, <3>1, <3>2
  <2>5. Abstract!Refuse(r)
    BY <1>0, <1>2, <1>3, <2>1, <2>2, <2>3, <2>4, MoveOne DEF Abstract!Refuse
  <2> QED BY <2>5 DEF Abstract!LifecycleNext
<1>8. CASE to \notin {"joined", "accepted", "rejected", "error", "refused"}
  <2>1. PhaseOf(r)' = "new"
    BY <1>4, <1>8 DEF PhaseOf, Accepted
  <2>2. \A q \in Requests : PhaseOf(q)' = PhaseOf(q)
    BY <1>2, <1>3, <2>1
  <2> QED BY <1>0, <2>2, MoveNone
<1> QED BY <1>5, <1>6, <1>7, <1>8

\* A step that leaves callers and runs where they are, as far as the phases go.
LEMMA WorkerMoves ==
  ASSUME UNCHANGED <<objectId, caller>>, work \in [Requests -> WorkStates],
         \/ UNCHANGED work
         \/ \E r \in Requests, w \in WorkStates :
              /\ work[r] \notin {"none", "ended"} /\ w \notin {"none", "ended"}
              /\ work' = [work EXCEPT ![r] = w]
  PROVE  [Abstract!LifecycleNext]_Abstract!lifecycleVars
<1>1. \A q \in Requests : PhaseOf(q)' = PhaseOf(q)
  <2> TAKE q \in Requests
  <2>1. CASE work'[q] = work[q]
    BY <2>1, PhaseKept
  <2>2. CASE work'[q] # work[q]
    <3>1. /\ caller'[q] = caller[q]
          /\ work[q] \notin {"none", "ended"} /\ work'[q] \notin {"none", "ended"}
      BY <2>2
    <3> QED BY <3>1 DEF PhaseOf, Accepted
  <2> QED BY <2>1, <2>2
<1> QED BY <1>1, MoveNone

\* Every step of the engine is a step of the life cycle, or stutters.
LEMMA RefinementStep ==
  HandOver /\ [Next]_vars => [Abstract!LifecycleNext]_Abstract!lifecycleVars
<1> SUFFICES ASSUME HandOver, [Next]_vars
             PROVE  [Abstract!LifecycleNext]_Abstract!lifecycleVars
  OBVIOUS
<1>0. /\ caller \in [Requests -> CallerStates]
      /\ work \in [Requests -> WorkStates]
      /\ popped \in [Requests -> Requests \union {None}]
  BY DEF HandOver, TypeOK
<1> USE DEF callerVars, dispatchVars, indexVars, runVars, historyVars, fixedVars
<1>1. CASE UNCHANGED vars
  BY <1>0, <1>1, WorkerMoves DEF vars
<1>2. CASE ClearTasks
  BY <1>0, <1>2, WorkerMoves DEF ClearTasks
<1>3. ASSUME NEW r \in Requests, Submit(r)
      PROVE  [Abstract!LifecycleNext]_Abstract!lifecycleVars
  <2>1. /\ caller[r] = "idle" /\ work[r] = "none"
        /\ UNCHANGED objectId
    BY <1>3 DEF Submit, CallerStep, HandOver, Custody, EarlyIsFresh
  <2>2. PhaseOf(r) = "new"
    BY <2>1, PhaseNew
  <2>3. CASE caller' = [caller EXCEPT ![r] = "rejected"] /\ UNCHANGED work
    <3>1. \A q \in Requests \ {r} : PhaseOf(q)' = PhaseOf(q)
      BY <1>0, <2>3, PhaseKept
    <3>2. PhaseOf(r)' = "failed"
      <4>1. caller'[r] = "rejected" /\ work'[r] = "none"
        BY <1>0, <2>1, <2>3
      <4> QED BY <4>1 DEF PhaseOf, Accepted
    <3>3. Abstract!Fail(r)
      BY <2>1, <2>2, <3>1, <3>2, MoveOne DEF Abstract!Fail
    <3> QED BY <3>3 DEF Abstract!LifecycleNext
  <2>4. CASE caller' = [caller EXCEPT ![r] = "check"] /\ UNCHANGED work
    <3>1. \A q \in Requests \ {r} : PhaseOf(q)' = PhaseOf(q)
      BY <1>0, <2>4, PhaseKept
    <3>2. PhaseOf(r)' = "new"
      <4>1. caller'[r] = "check" /\ work'[r] = "none"
        BY <1>0, <2>1, <2>4
      <4> QED BY <4>1 DEF PhaseOf, Accepted
    <3>3. \A q \in Requests : PhaseOf(q)' = PhaseOf(q)
      BY <2>2, <3>1, <3>2
    <3> QED BY <2>1, <3>3, MoveNone
  <2>5. CASE /\ caller' = [caller EXCEPT ![r] = "direct"]
             /\ work' = [work EXCEPT ![r] = "ready"]
    <3>1. \A q \in Requests \ {r} : PhaseOf(q)' = PhaseOf(q)
      BY <1>0, <2>5, PhaseKept
    <3>2. PhaseOf(r)' = "running"
      <4>1. caller'[r] = "direct" /\ work'[r] = "ready"
        BY <1>0, <2>5 DEF WorkStates
      <4> QED BY <4>1 DEF PhaseOf
    <3>3. Abstract!Start(r)
      BY <2>1, <2>2, <3>1, <3>2, MoveOne DEF Abstract!Start
    <3> QED BY <3>3 DEF Abstract!LifecycleNext
  <2> QED BY <1>3, <2>3, <2>4, <2>5 DEF Submit, CallerStep
<1>4. ASSUME NEW r \in Requests, PublishStep(r)
      PROVE  [Abstract!LifecycleNext]_Abstract!lifecycleVars
  BY <1>4, CallerMoves
<1>5. ASSUME NEW d \in Requests, DispatchLoop(d)
      PROVE  [Abstract!LifecycleNext]_Abstract!lifecycleVars
  <2>1. CASE ReapEnded(d) \/ ForgetTrace(d) \/ ForgetMonitor(d) \/ DropCurrent(d) \/ TakeNext(d)
    BY <1>0, <2>1, WorkerMoves
       DEF ReapEnded, ForgetTrace, ForgetMonitor, DropCurrent, TakeNext
  <2>2. CASE LaunchWorker(d)
    <3>1. /\ work' = [work EXCEPT ![popped[d]] = "ready"]
          /\ UNCHANGED <<objectId, caller>>
      BY <2>2 DEF LaunchWorker
    <3>2. CASE popped[d] = None
      <4>1. UNCHANGED work
        BY <1>0, <3>1, <3>2, EngineAssumption
      <4> QED BY <1>0, <3>1, <4>1, WorkerMoves
    <3>3. CASE popped[d] # None
      <4>1. PICK p \in Requests : p = popped[d]
        BY <1>0, <3>3
      <4>2. work[p] = "none" /\ Accepted(p)
        BY <4>1 DEF HandOver, Custody, HeldIsFresh, Held
      <4>3. \A q \in Requests \ {p} : PhaseOf(q)' = PhaseOf(q)
        BY <1>0, <3>1, <4>1, PhaseKept
      <4>4. PhaseOf(p) = "pending"
        BY <4>2, PhasePending
      <4>5. PhaseOf(p)' = "running"
        <5>1. /\ work'[p] = "ready"
              /\ caller'[p] \in {"joined", "accepted"}
          BY <1>0, <3>1, <4>1, <4>2 DEF Accepted
        <5>2. caller'[p] \notin {"refused", "rejected", "error"}
          BY <5>1
        <5> QED BY <5>1, <5>2 DEF PhaseOf
      <4>6. Abstract!Start(p)
        BY <3>1, <4>3, <4>4, <4>5, MoveOne DEF Abstract!Start
      <4> QED BY <4>6 DEF Abstract!LifecycleNext
    <3> QED BY <3>2, <3>3
  <2> QED BY <1>5, <2>1, <2>2 DEF DispatchLoop
<1>6. ASSUME NEW r \in Requests, FinishRun(r)
      PROVE  [Abstract!LifecycleNext]_Abstract!lifecycleVars
  <2>1. CASE BeginRun(r) \/ EndSub(r) \/ Distribute(r) \/ AbortRun(r) \/ EndTrace(r)
    BY <1>0, <2>1, WorkerMoves
       DEF BeginRun, EndSub, Distribute, AbortRun, EndTrace, WorkStep, WorkStates
  <2>2. CASE EndRun(r)
    <3>1. /\ work[r] = "unindex" /\ work' = [work EXCEPT ![r] = "ended"]
          /\ caller' = [caller EXCEPT ![r] = "returned"] \/ caller' = caller
          /\ UNCHANGED objectId
      BY <2>2 DEF EndRun, WorkStep
    <3>2. caller[r] \notin {"refused", "rejected", "error"}
      BY <3>1 DEF HandOver, Custody, EarlyIsFresh
    <3>3. \A q \in Requests \ {r} : PhaseOf(q)' = PhaseOf(q)
      BY <1>0, <3>1, PhaseKept
    <3>4. PhaseOf(r) = "running"
      BY <3>1, <3>2, PhaseRunning
    <3>5. PhaseOf(r)' = "finished"
      <4>1. work'[r] = "ended" /\ caller'[r] \notin {"refused", "rejected", "error"}
        BY <1>0, <3>1, <3>2
      <4> QED BY <4>1 DEF PhaseOf
    <3>6. Abstract!Finish(r)
      BY <3>1, <3>3, <3>4, <3>5, MoveOne DEF Abstract!Finish
    <3> QED BY <3>6 DEF Abstract!LifecycleNext
  <2> QED BY <1>6, <2>1, <2>2 DEF FinishRun
<1>7. ASSUME NEW r \in Requests, ReportProgress(r) \/ GetPublishMonitor(r)
      PROVE  [Abstract!LifecycleNext]_Abstract!lifecycleVars
  BY <1>0, <1>7, WorkerMoves DEF ReportProgress, GetPublishMonitor
<1>8. ASSUME NEW r \in Requests, NEW o \in Objects, PublishSub(r, o)
      PROVE  [Abstract!LifecycleNext]_Abstract!lifecycleVars
  BY <1>0, <1>8, WorkerMoves DEF PublishSub
<1> QED BY <1>1, <1>2, <1>3, <1>4, <1>5, <1>6, <1>7, <1>8 DEF Next

\* The engine implements the life cycle: a request is run at most once and only
\* after publish() accepted it, and is refused only for one that was accepted.
THEOREM EngineImplementsLifecycle == Spec => Lifecycle
  BY RefinementInit, RefinementStep, HandOverInvariant, PTL
     DEF Spec, Lifecycle, Abstract!LifecycleSpec
=============================================================================
