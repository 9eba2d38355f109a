---------------------------- MODULE PublishEngine ----------------------------
(***************************************************************************)
(* The publish engine of the CMS (driver/publish/impl/PublishEngineImpl):  *)
(* the threads that call publish(publishObject, callBack), the dispatcher  *)
(* thread they create on first use, the task queue, the worker threads and *)
(* the indexes of what the current root tasks have already published.      *)
(*                                                                         *)
(* The engine takes no lock around its decisions: every test of a field    *)
(* and every later use of it is a step of its own here, because in the     *)
(* code another thread can run between them.  Only the methods that are    *)
(* synchronized in the code (the queue's, isPublishedTask) are one step.   *)
(***************************************************************************)
EXTENDS Naturals, Sequences

CONSTANTS
  Requests,      \* calls of publish(publishObject, callBack), each with a
                 \* publish object of its own
  Objects,       \* ids of publish objects (getPublishObjectID)
  Modes,         \* values the requests' synchronize flag may have
  MaxSubs,       \* bound: sub-objects one run may reach
  Watched,       \* bound: requests whose progress page asks for the monitor
  MaxClears,     \* bound: cache refreshes that drop an index in use
  None           \* null

ASSUME EngineAssumption ==
  /\ Modes \subseteq BOOLEAN
  /\ MaxSubs \in Nat
  /\ MaxClears \in Nat
  /\ Watched \subseteq Requests
  /\ None \notin Requests
  /\ None \notin Objects

(***************************************************************************)
(* Statuses of a root task's PublishMonitor, as far as isPublishEnded and  *)
(* PublishWorkThread.run tell them apart.                                  *)
(*   unset      -1, no status was set yet                                  *)
(*   noPage     PAGE_NOTEXIST: set while the context is built              *)
(*   active     PUBLISH_STARTED, SCRIPT_*, PAGE_GENERATED,                 *)
(*              DISTRIBUTE_COMPLETED: work goes on                         *)
(*   failed     PUBLISH_FAILED, DISTRIBUTE_FAILED, ALL_FAILED              *)
(*   completed  PUBLISH_COMPLETED                                          *)
(***************************************************************************)
Statuses == {"unset", "noPage", "active", "failed", "completed"}

VARIABLES
  objectId,          \* object each request publishes; never changes
  synchronized,      \* the request's synchronize flag; never changes
  caller,            \* where the calling thread is in publish()
  currentTaskThread, \* the engine's field: the dispatcher, or None
  dispatcher,        \* where each dispatcher thread is in run(); a dispatcher
                     \* is named after the request that constructed it
  queue,             \* publishTaskQueue of each dispatcher
  popped,            \* task taken from the queue, not yet stored in the field
  current,           \* currentPublishTask of each dispatcher
  running,           \* its running flag
  work,              \* where each request is in PublishWorkThread.run
  status,            \* status of its PublishMonitor
  submonitors,       \* how many sub-monitors hang on its PublishMonitor
  sub,               \* the sub-object its worker is publishing now
  tried,             \* sub-objects reached so far (bounded by MaxSubs)
  trace,             \* currentTasktraceIndexs: root id -> ids published
  monitorIndex,      \* currentMonitorIndexs: root id -> monitor of a request
  uuidIndex,         \* currentUUITaskIndexs: uuid of a request -> root id
  ran,               \* history: how often each run published each object
  skipped,           \* history: objects a run skipped as already published
  cleared            \* history: how often clearTasks dropped an index in use

callerVars   == <<caller, currentTaskThread>>
dispatchVars == <<dispatcher, popped, current, running>>
indexVars    == <<trace, monitorIndex, uuidIndex>>
runVars      == <<work, status, submonitors, sub, tried>>
historyVars  == <<ran, skipped, cleared>>
fixedVars    == <<objectId, synchronized>>
vars == <<callerVars, dispatchVars, queue, indexVars, runVars, historyVars, fixedVars>>

CallerStates ==
  {"idle", "check", "assign", "start", "addFirst", "contain", "readCurrent",
   "compare", "add", "direct", "joined", "accepted", "returned", "refused",
   "rejected", "error"}
DispatcherStates ==
  {"absent", "constructed", "loop", "forget", "unindex", "drop", "launch"}
WorkStates == {"none", "ready", "body", "forget", "unindex", "ended"}

\* An index holds at least its root's id: the empty set stands for no index.
NoIndex == {}

TypeOK ==
  /\ objectId \in [Requests -> Objects]
  /\ synchronized \in [Requests -> BOOLEAN]
  /\ caller \in [Requests -> CallerStates]
  /\ currentTaskThread \in Requests \union {None}
  /\ dispatcher \in [Requests -> DispatcherStates]
  /\ queue \in [Requests -> Seq(Requests)]
  /\ popped \in [Requests -> Requests \union {None}]
  /\ current \in [Requests -> Requests \union {None}]
  /\ running \in [Requests -> BOOLEAN]
  /\ work \in [Requests -> WorkStates]
  /\ status \in [Requests -> Statuses]
  /\ submonitors \in [Requests -> Nat]
  /\ sub \in [Requests -> Objects \union {None}]
  /\ tried \in [Requests -> Nat]
  /\ trace \in [Objects -> SUBSET Objects]
  /\ monitorIndex \in [Objects -> Requests \union {None}]
  /\ uuidIndex \in [Requests -> Objects \union {None}]
  /\ ran \in [Requests -> [Objects -> Nat]]
  /\ skipped \in [Requests -> SUBSET Objects]
  /\ cleared \in Nat

Init ==
  /\ objectId \in [Requests -> Objects]
  /\ synchronized \in [Requests -> Modes]
  /\ caller = [r \in Requests |-> "idle"]
  /\ currentTaskThread = None
  /\ dispatcher = [d \in Requests |-> "absent"]
  /\ queue = [d \in Requests |-> <<>>]
  /\ popped = [d \in Requests |-> None]
  /\ current = [d \in Requests |-> None]
  /\ running = [d \in Requests |-> FALSE]
  /\ work = [r \in Requests |-> "none"]
  /\ status = [r \in Requests |-> "unset"]
  /\ submonitors = [r \in Requests |-> 0]
  /\ sub = [r \in Requests |-> None]
  /\ tried = [r \in Requests |-> 0]
  /\ trace = [o \in Objects |-> NoIndex]
  /\ monitorIndex = [o \in Objects |-> None]
  /\ uuidIndex = [r \in Requests |-> None]
  /\ ran = [r \in Requests |-> [o \in Objects |-> 0]]
  /\ skipped = [r \in Requests |-> {}]
  /\ cleared = 0
------------------------------------------------------------------------------
(* The calling threads: publish(publishObject, callBack) *)

CallerStep(r, from, to) ==
  /\ caller[r] = from
  /\ caller' = [caller EXCEPT ![r] = to]

\* The caller asks for the monitor, which builds the publish object's context.
\* That may fail, or needPublish says that there is nothing to do; a page that
\* does not exist shows in the monitor's status.
\* A synchronous request is then run by the calling thread itself.
Submit(r) ==
  /\ \/ /\ CallerStep(r, "idle", "rejected")
        /\ UNCHANGED <<status, work>>
     \/ /\ CallerStep(r, "idle", IF synchronized[r] THEN "direct" ELSE "check")
        /\ \E s \in {"unset", "noPage"} : status' = [status EXCEPT ![r] = s]
        /\ work' = IF synchronized[r] THEN [work EXCEPT ![r] = "ready"] ELSE work
  /\ UNCHANGED <<currentTaskThread, dispatchVars, queue, indexVars,
                 submonitors, sub, tried, historyVars, fixedVars>>

\* if (currentTaskThread == null)
CheckDispatcher(r) ==
  /\ CallerStep(r, "check", IF currentTaskThread = None THEN "assign" ELSE "contain")
  /\ UNCHANGED <<currentTaskThread, dispatchVars, queue, indexVars, runVars,
                 historyVars, fixedVars>>

\* currentTaskThread = new PublishTaskThread()
AssignDispatcher(r) ==
  /\ CallerStep(r, "assign", "start")
  /\ currentTaskThread' = r
  /\ dispatcher' = [dispatcher EXCEPT ![r] = "constructed"]
  /\ UNCHANGED <<popped, current, running, queue, indexVars, runVars,
                 historyVars, fixedVars>>

\* currentTaskThread.start() on whatever thread the field holds by now: a
\* thread that was started before throws IllegalThreadStateException.
StartDispatcher(r) ==
  /\ caller[r] = "start"
  /\ IF dispatcher[currentTaskThread] = "constructed"
     THEN /\ CallerStep(r, "start", "addFirst")
          /\ dispatcher' = [dispatcher EXCEPT ![currentTaskThread] = "loop"]
     ELSE /\ CallerStep(r, "start", "error")
          /\ UNCHANGED dispatcher
  /\ UNCHANGED <<currentTaskThread, popped, current, running, queue, indexVars,
                 runVars, historyVars, fixedVars>>

\* Mutant: without the lock of addPublishTask two adds store in the same slot.
AddTaskUnsynchronized(r) ==
  /\ \/ CallerStep(r, "addFirst", "joined")
     \/ CallerStep(r, "add", "accepted")
  /\ queue' = [queue EXCEPT ![currentTaskThread] =
                IF @ = <<>> THEN <<r>> ELSE [@ EXCEPT ![Len(@)] = r]]
  /\ UNCHANGED <<currentTaskThread, dispatchVars, indexVars, runVars,
                 historyVars, fixedVars>>

\* addPublishTask on the thread the field holds.  The caller that created the
\* dispatcher then joins it, and the dispatcher never ends.
AddTask(r) ==
  /\ \/ CallerStep(r, "addFirst", "joined")
     \/ CallerStep(r, "add", "accepted")
  /\ queue' = [queue EXCEPT ![currentTaskThread] = Append(@, r)]
  /\ UNCHANGED <<currentTaskThread, dispatchVars, indexVars, runVars,
                 historyVars, fixedVars>>

\* Mutant: any queued task counts, whatever it publishes.
ContainsAny(d, o) == queue[d] # <<>>

\* publishTaskQueue.contain(id)
Contains(d, o) ==
  \E i \in 1..Len(queue[d]) : objectId[queue[d][i]] = o

CheckQueue(r) ==
  /\ CallerStep(r, "contain",
       IF Contains(currentTaskThread, objectId[r]) THEN "refused" ELSE "readCurrent")
  /\ UNCHANGED <<currentTaskThread, dispatchVars, queue, indexVars, runVars,
                 historyVars, fixedVars>>

\* getCurrentPublishObject() != null ...
ReadCurrent(r) ==
  /\ CallerStep(r, "readCurrent",
       IF current[currentTaskThread] = None THEN "add" ELSE "compare")
  /\ UNCHANGED <<currentTaskThread, dispatchVars, queue, indexVars, runVars,
                 historyVars, fixedVars>>

\* ... && getCurrentPublishObject().publishObject...equals(id): the field is
\* read again, and may be null by now (NullPointerException).
CompareCurrent(r) ==
  LET c == current[currentTaskThread] IN
  /\ caller[r] = "compare"
  /\ \/ c = None /\ CallerStep(r, "compare", "error")
     \/ c # None /\ CallerStep(r, "compare",
                      IF objectId[c] = objectId[r] THEN "refused" ELSE "add")
  /\ UNCHANGED <<currentTaskThread, dispatchVars, queue, indexVars, runVars,
                 historyVars, fixedVars>>
------------------------------------------------------------------------------
(* The trace, monitor and uuid indexes *)

\* Mutant: only the monitor is removed.
KeepTrace(r) == UNCHANGED trace

\* removePublishedObject first drops the root's trace index ...
DropTrace(r) == trace' = [trace EXCEPT ![objectId[r]] = NoIndex]

\* ... then the monitor filed under its id, whoever's it is, and the uuid that
\* monitor carries.
DropMonitor(r) ==
  LET o == objectId[r]
      m == monitorIndex[o]
  IN /\ monitorIndex' = [monitorIndex EXCEPT ![o] = None]
     /\ uuidIndex' = IF m = None THEN uuidIndex ELSE [uuidIndex EXCEPT ![m] = None]

\* Mutant: the index is not looked up by root id.
IsPublishedAnywhere(r, o) == \E root \in Objects : o \in trace[root]

\* Mutant: the object that was not found is not put into the index.
TraceRootOnly(r, o) ==
  LET root == objectId[r] IN
  IF trace[root] = NoIndex
  THEN /\ trace' = [trace EXCEPT ![root] = {root}]
       /\ uuidIndex' = [uuidIndex EXCEPT ![r] = root]
       /\ monitorIndex' = [monitorIndex EXCEPT ![root] = r]
  ELSE UNCHANGED indexVars

\* isPublishedTask(task) for object o reached by the run of request r: TRUE
\* when the index says that o was published.  A root that has no index gets
\* one; the object that caused this is not entered in it.
IsPublishedTask(r, o) == o \in trace[objectId[r]]

TracePublished(r, o) ==
  LET root == objectId[r] IN
  IF trace[root] = NoIndex
  THEN /\ trace' = [trace EXCEPT ![root] = {root}]
       /\ uuidIndex' = [uuidIndex EXCEPT ![r] = root]
       /\ monitorIndex' = [monitorIndex EXCEPT ![root] = r]
  ELSE /\ trace' = [trace EXCEPT ![root] = @ \union {o}]
       /\ UNCHANGED <<uuidIndex, monitorIndex>>

\* getPublishMonitor(uuid): a page that shows the progress of request r asks
\* for its monitor.  A monitor whose root has no trace index is forgotten.
GetPublishMonitor(r) ==
  LET o == uuidIndex[r] IN
  /\ r \in Watched
  /\ o # None
  /\ trace[o] = NoIndex
  /\ monitorIndex' = [monitorIndex EXCEPT ![o] = None]
  /\ UNCHANGED <<callerVars, dispatchVars, queue, trace, uuidIndex, runVars,
                 historyVars, fixedVars>>

\* clearTasks(): called when the caches of the CMS are refreshed.  It changes
\* nothing when there is no index.
ClearTasks ==
  /\ \E o \in Objects : trace[o] # NoIndex
  /\ cleared < MaxClears
  /\ trace' = [o \in Objects |-> NoIndex]
  /\ cleared' = cleared + 1
  /\ UNCHANGED <<callerVars, dispatchVars, queue, monitorIndex, uuidIndex,
                 runVars, ran, skipped, fixedVars>>
------------------------------------------------------------------------------
(* The dispatcher threads: PublishTaskThread.run.  State "loop" is the top of
   the loop with its wait(5000), which ends with a notification or a timeout
   whatever the reason it was entered for; a turn of the loop that finds
   nothing to do changes nothing. *)

\* isPublishEnded(): also TRUE while no status was set.
IsPublishEnded(r) ==
  /\ status[r] \in {"unset", "failed", "completed"}
  /\ submonitors[r] = 0

DispatcherStep(d, from, to) ==
  /\ dispatcher[d] = from
  /\ dispatcher' = [dispatcher EXCEPT ![d] = to]

\* Mutant: the running flag stays set.
ReapEndedStillRunning(d) ==
  /\ current[d] # None
  /\ IsPublishEnded(current[d])
  /\ DispatcherStep(d, "loop", "forget")
  /\ UNCHANGED <<callerVars, popped, current, running, queue, indexVars, runVars,
                 historyVars, fixedVars>>

\* A current task whose monitor says that it ended is taken off.
ReapEnded(d) ==
  /\ current[d] # None
  /\ IsPublishEnded(current[d])
  /\ DispatcherStep(d, "loop", "forget")
  /\ running' = [running EXCEPT ![d] = FALSE]
  /\ UNCHANGED <<callerVars, popped, current, queue, indexVars, runVars,
                 historyVars, fixedVars>>

ForgetTrace(d) ==
  /\ DispatcherStep(d, "forget", "unindex")
  /\ DropTrace(current[d])
  /\ UNCHANGED <<callerVars, popped, current, running, queue, monitorIndex,
                 uuidIndex, runVars, historyVars, fixedVars>>

ForgetMonitor(d) ==
  /\ DispatcherStep(d, "unindex", "drop")
  /\ DropMonitor(current[d])
  /\ UNCHANGED <<callerVars, popped, current, running, queue, trace, runVars,
                 historyVars, fixedVars>>

DropCurrent(d) ==
  /\ DispatcherStep(d, "drop", "loop")
  /\ current' = [current EXCEPT ![d] = None]
  /\ UNCHANGED <<callerVars, popped, running, queue, indexVars, runVars,
                 historyVars, fixedVars>>

\* Mutant: get(0) in place of remove(0).
PeekNext(d) ==
  /\ ~running[d]
  /\ queue[d] # <<>>
  /\ DispatcherStep(d, "loop", "launch")
  /\ popped' = [popped EXCEPT ![d] = Head(queue[d])]
  /\ UNCHANGED <<callerVars, current, running, queue, indexVars, runVars,
                 historyVars, fixedVars>>

\* publishTaskQueue.next(), unless the running flag is set.  On an empty queue
\* the code stores null in the field, which is null already when the flag is
\* not set.
TakeNext(d) ==
  /\ ~running[d]
  /\ queue[d] # <<>>
  /\ DispatcherStep(d, "loop", "launch")
  /\ popped' = [popped EXCEPT ![d] = Head(queue[d])]
  /\ queue' = [queue EXCEPT ![d] = Tail(@)]
  /\ UNCHANGED <<callerVars, current, running, indexVars, runVars,
                 historyVars, fixedVars>>

\* The task becomes the current one and a new thread runs it.
LaunchWorker(d) ==
  /\ DispatcherStep(d, "launch", "loop")
  /\ current' = [current EXCEPT ![d] = popped[d]]
  /\ popped' = [popped EXCEPT ![d] = None]
  /\ work' = [work EXCEPT ![popped[d]] = "ready"]
  /\ running' = [running EXCEPT ![d] = TRUE]
  /\ UNCHANGED <<callerVars, queue, indexVars, status, submonitors, sub, tried,
                 historyVars, fixedVars>>
------------------------------------------------------------------------------
(* The run of a publish object: PublishWorkThread.run, in a worker thread or
   in the thread of a synchronous caller. *)

WorkStep(r, from, to) ==
  /\ work[r] = from
  /\ work' = [work EXCEPT ![r] = to]

SetPublishStatus(r, s) == status' = [status EXCEPT ![r] = s]

\* publish() returns at once when the page does not exist, and run then calls
\* the task completed.
BeginRun(r) ==
  /\ IF status[r] = "noPage"
     THEN WorkStep(r, "ready", "forget") /\ SetPublishStatus(r, "completed")
     ELSE WorkStep(r, "ready", "body") /\ UNCHANGED status
  /\ UNCHANGED <<callerVars, dispatchVars, queue, indexVars, submonitors, sub,
                 tried, historyVars, fixedVars>>

\* initScriptlet, doPublish and runPage report how the page generation goes; a
\* failed page may be followed by one that is generated.
ReportProgress(r) ==
  /\ work[r] = "body"
  /\ sub[r] = None
  /\ \E s \in {"active", "failed"} : SetPublishStatus(r, s)
  /\ UNCHANGED <<callerVars, dispatchVars, queue, indexVars, work, submonitors,
                 sub, tried, historyVars, fixedVars>>

\* The monitor a root's sub-monitor is told to report to: createSubPublishMonitor
\* hands on the parent of the monitor it is called on, and a root has none.
ParentOfRoot == None
ParentOfSub(r) == ParentOfRoot

\* publish(publishObject) for a sub-object o of the run: its context is built,
\* with a sub-monitor, before the trace index is asked.
PublishSub(r, o) ==
  /\ work[r] = "body"
  /\ sub[r] = None
  /\ tried[r] < MaxSubs
  /\ tried' = [tried EXCEPT ![r] = @ + 1]
  /\ submonitors' = [submonitors EXCEPT ![r] = @ + 1]
  /\ TracePublished(r, o)
  /\ IF IsPublishedTask(r, o)
     THEN /\ skipped' = [skipped EXCEPT ![r] = @ \union {o}]
          /\ UNCHANGED <<sub, ran>>
     ELSE /\ sub' = [sub EXCEPT ![r] = o]
          /\ ran' = [ran EXCEPT ![r][o] = @ + 1]
          /\ UNCHANGED skipped
  /\ UNCHANGED <<callerVars, dispatchVars, queue, work, status, cleared, fixedVars>>

\* Mutant: both the status set by disttribute and the one set by run count the
\* sub-monitor down.
EndSubTwice(r) ==
  /\ sub[r] # None
  /\ sub' = [sub EXCEPT ![r] = None]
  /\ submonitors' = [submonitors EXCEPT ![r] = @ - 2]
  /\ UNCHANGED <<callerVars, dispatchVars, queue, indexVars, work, status,
                 tried, historyVars, fixedVars>>

\* The sub-object's run ends: setPublishStatus removes its monitor from the
\* parent it knows of.
EndSub(r) ==
  /\ sub[r] # None
  /\ sub' = [sub EXCEPT ![r] = None]
  /\ submonitors' = IF ParentOfSub(r) = None
                    THEN submonitors
                    ELSE [submonitors EXCEPT ![r] = @ - 1]
  /\ UNCHANGED <<callerVars, dispatchVars, queue, indexVars, work, status,
                 tried, historyVars, fixedVars>>

\* disttribute() ends with PUBLISH_COMPLETED, or DISTRIBUTE_FAILED.
Distribute(r) ==
  /\ WorkStep(r, "body", "forget")
  /\ sub[r] = None
  /\ \E s \in {"completed", "failed"} : SetPublishStatus(r, s)
  /\ UNCHANGED <<callerVars, dispatchVars, queue, indexVars, submonitors, sub,
                 tried, historyVars, fixedVars>>

\* publish() throws: ALL_FAILED.
AbortRun(r) ==
  /\ \/ WorkStep(r, "ready", "forget")
     \/ WorkStep(r, "body", "forget")
  /\ sub[r] = None
  /\ SetPublishStatus(r, "failed")
  /\ UNCHANGED <<callerVars, dispatchVars, queue, indexVars, submonitors, sub,
                 tried, historyVars, fixedVars>>

\* finally: removePublishedObject, after which a synchronous caller returns.
EndTrace(r) ==
  /\ WorkStep(r, "forget", "unindex")
  /\ DropTrace(r)
  /\ UNCHANGED <<callerVars, dispatchVars, queue, monitorIndex, uuidIndex,
                 status, submonitors, sub, tried, historyVars, fixedVars>>

EndRun(r) ==
  /\ WorkStep(r, "unindex", "ended")
  /\ DropMonitor(r)
  /\ caller' = IF synchronized[r] THEN [caller EXCEPT ![r] = "returned"] ELSE caller
  /\ UNCHANGED <<currentTaskThread, dispatchVars, queue, trace, status,
                 submonitors, sub, tried, historyVars, fixedVars>>
------------------------------------------------------------------------------
PublishStep(r) ==
  \/ CheckDispatcher(r)
  \/ AssignDispatcher(r)
  \/ StartDispatcher(r)
  \/ AddTask(r)
  \/ CheckQueue(r)
  \/ ReadCurrent(r)
  \/ CompareCurrent(r)

DispatchLoop(d) ==
  \/ ReapEnded(d)
  \/ ForgetTrace(d)
  \/ ForgetMonitor(d)
  \/ DropCurrent(d)
  \/ TakeNext(d)
  \/ LaunchWorker(d)

\* The steps that bring a run to its end.
FinishRun(r) ==
  \/ BeginRun(r)
  \/ EndSub(r)
  \/ Distribute(r)
  \/ AbortRun(r)
  \/ EndTrace(r)
  \/ EndRun(r)

Next ==
  \/ ClearTasks
  \/ \E r \in Requests :
       \/ Submit(r)
       \/ PublishStep(r)
       \/ DispatchLoop(r)
       \/ FinishRun(r)
       \/ ReportProgress(r)
       \/ GetPublishMonitor(r)
       \/ \E o \in Objects : PublishSub(r, o)

Spec == Init /\ [][Next]_vars

\* Every thread that can go on is scheduled: a caller inside publish(), the
\* dispatcher (its wait has a timeout) and a run, whose page generation and
\* sub-objects end.  Nobody has to call publish() or clearTasks().
Fairness ==
  \A r \in Requests :
    /\ WF_vars(PublishStep(r))
    /\ WF_vars(DispatchLoop(r))
    /\ WF_vars(FinishRun(r))

FairSpec == Spec /\ Fairness
------------------------------------------------------------------------------
(* Properties *)

Accepted(r) == caller[r] \in {"joined", "accepted"}
InQueue(r, d) == \E i \in 1..Len(queue[d]) : queue[d][i] = r

\* A request that publish() accepted is never lost: it is in a queue, on its
\* way from the queue to a worker, or has a worker (PublishTaskQueue.next and
\* PublishTaskThread.run hand it on without a lock).
NoTaskLost ==
  \A r \in Requests :
    Accepted(r) =>
      \/ work[r] # "none"
      \/ \E d \in Requests : InQueue(r, d) \/ popped[d] = r

\* A request is in one place at most, even when two callers created a dispatcher
\* each: nothing is queued twice, and what was taken from a queue is in none.
NoTaskTwice ==
  /\ \A d, e \in Requests : \A i \in 1..Len(queue[d]), j \in 1..Len(queue[e]) :
       queue[d][i] = queue[e][j] => d = e /\ i = j
  /\ \A d, e \in Requests : popped[d] # None =>
       /\ ~InQueue(popped[d], e)
       /\ popped[d] = popped[e] => d = e
  /\ \A r \in Requests : work[r] # "none" =>
       \A d \in Requests : ~InQueue(r, d) /\ popped[d] # r

\* The trace index of a root id, and the monitor filed under it, do not outlive
\* the runs of that root: whatever order runs of the same object, the
\* dispatcher's own clean-up, clearTasks and the progress page come in, what a
\* run left there is gone when the last run of the object has ended.
IndexOwned ==
  \A o \in Objects :
    /\ trace[o] # NoIndex =>
         \E r \in Requests : objectId[r] = o /\ work[r] \in {"body", "forget"}
    /\ monitorIndex[o] # None =>
         \E r \in Requests : objectId[r] = o /\ work[r] \in {"body", "forget", "unindex"}

\* A sub-object is skipped only if it is the root itself or some run of the same
\* root published it (isPublishedTask; runs of one root share its index).
SkipJustified ==
  \A r \in Requests : \A o \in skipped[r] :
    \/ o = objectId[r]
    \/ \E q \in Requests : objectId[q] = objectId[r] /\ ran[q][o] > 0

\* The run of the caller's own thread shares its root with no other run.
OwnIndex(r) ==
  /\ synchronized[r]
  /\ \A q \in Requests \ {r} : objectId[q] # objectId[r]

\* What the comment of currentTasktraceIndexs says (PublishEngineImpl.java:41-43): the trace
\* index keeps the sub-tasks of a synchronous publication from being published again. The
\* object whose look-up creates the index is not entered in it.
PublishedOnce ==
  \A r \in Requests :
    (cleared = 0 /\ OwnIndex(r)) => \A o \in Objects : ran[r][o] <= 1

\* What is left of that comment, which PublishedOnce states in full and the code breaks. In
\* a run in its caller's own thread that shares its root with no other run, and while no
\* cache refresh drops the index, no object is published three times, and at most one
\* object, the one that created the index, is published twice. A queued run has no such
\* promise: its dispatcher takes a task without a status for ended and drops its index.
DedupExclusive ==
  \A r \in Requests :
    (cleared = 0 /\ OwnIndex(r)) =>
      /\ \A o \in Objects : ran[r][o] <= 2
      /\ \A o, p \in Objects : ran[r][o] = 2 /\ ran[r][p] = 2 => o = p

\* What keeps an accepted task from being run: its dispatcher lost its place in
\* the field before it was started, or waits for the sub-monitors of a task
\* that has ended.
Stalled(d) ==
  \/ dispatcher[d] = "constructed"
  \/ current[d] # None /\ work[current[d]] = "ended" /\ submonitors[current[d]] > 0

\* Every accepted task is run to its end, or waits behind one of these two.
AcceptedRunsOrStalls ==
  \A r \in Requests :
    Accepted(r) ~> (work[r] = "ended" \/ \E d \in Requests : InQueue(r, d) /\ Stalled(d))

\* PublishEngineImpl.java:397: when the current task has ended and the queue is
\* not empty, the next task is published.
QueueAdvances ==
  \A d \in Requests :
    (current[d] # None /\ work[current[d]] = "ended" /\ queue[d] # <<>>)
      ~> (queue[d] = <<>> \/ current[d] = None \/ work[current[d]] # "ended")

\* The engine keeps the promises of TaskLifecycle.
PhaseOf(r) ==
  CASE caller[r] = "refused" -> "refused"
    [] caller[r] \in {"rejected", "error"} -> "failed"
    [] work[r] = "ended" -> "finished"
    [] work[r] \notin {"none", "ended"} -> "running"
    [] Accepted(r) /\ work[r] = "none" -> "pending"
    [] OTHER -> "new"

Abstract == INSTANCE TaskLifecycle WITH phase <- [r \in Requests |-> PhaseOf(r)]
Lifecycle == Abstract!LifecycleSpec
==============================================================================
