-------------------------- MODULE DocWorkflow_proofs --------------------------
(* Proofs about DocWorkflow for every set of users, groups and requests,     *)
(* every flow and all bounds, whatever statements of other requests run in   *)
(* between.                                                                  *)
EXTENDS WorkflowPrograms_proofs

\* The local variables of a request
Locals ==
  [user : Users \union {NoUser}, task : Nat, made : Nat,
   executer : Users \union {NoUser}, read : Status \union {"none"},
   todo : Seq(Statements)]

\* What holds of the locals w, and of the tasks tk, where y is the next to run
HeadOK(w, y, tk, cr) ==
  /\ y.do \in Inserts => w.made \in 1 .. cr /\ w.task < w.made
  /\ y.do = "insertDetails" /\ w.made \in DOMAIN tk =>
       tk[w.made].pre \in {"UNAUDIT", "PREPUBLISH"}
  /\ y.do \in {"insertRework", "insertExecuter"} /\ w.made \in DOMAIN tk =>
       tk[w.made].pre = "ROLLBACK" /\ tk[w.made].prev = w.task
  /\ y.do \in {"deleteDetails", "deleteTask"} /\ w.task \in DOMAIN tk =>
       tk[w.task].pre = "UNAUDIT"
  /\ y.do = "endPublish" \/ (y.do = "setStatus" /\ y.dest = "PUBLISHING") =>
       w.read \in Status

RequestOK(w, tk, cr) ==
  /\ w \in Locals
  /\ w.task <= cr /\ w.made <= cr
  /\ Rules(w.todo)
  /\ Exclusive(Kinds(w.todo))
  /\ w.todo # <<>> => w.user \in Users /\ HeadOK(w, w.todo[1], tk, cr)
  /\ "insertExecuter" \in Kinds(w.todo) /\ w.task \in DOMAIN tk =>
       tk[w.task].pre = "PREPUBLISH"

WebOK ==
  /\ web \in [Requests -> Locals]
  /\ \A r \in Requests : RequestOK(web[r], task, created)

TablesOK ==
  /\ status \in Status
  /\ deleted \in BOOLEAN
  /\ created \in 0 .. MaxTasks
  /\ DOMAIN task \subseteq 1 .. created
  /\ \A t \in DOMAIN task :
       task[t] \in [pre : Status, submit : Users, prev : 0 .. (t - 1)]
  /\ DOMAIN detail \subseteq (1 .. created) \X (Users \union {NoUser})
  /\ \A k \in DOMAIN detail :
       detail[k] \in [valid : BOOLEAN, after : Status \union {"none"}]
  /\ faults \in 0 .. MaxFaults

\* A request that runs owes the task t its rework.
Owing(t) == \E r \in Requests : web[r].task = t /\ OwesAt(web[r].todo, 1)
Reworked(t) == \E n \in DOMAIN task : task[n].prev = t /\ task[n].pre = "ROLLBACK"

Rejections ==
  faults = 0 => \A k \in DOMAIN detail :
    k[1] \in DOMAIN task /\ detail[k].after = "ROLLBACK" =>
      Reworked(k[1]) \/ Owing(k[1])

WorkflowInv == TablesOK /\ WebOK /\ ReworkGoesBack /\ Rejections
------------------------------------------------------------------------------
(* The requests *)

\* The table tk of tasks up to cr becomes tk2: rows are added behind, or go.
Kept(tk, cr, tk2, cr2) ==
  /\ cr \in Nat /\ cr2 \in Nat /\ cr <= cr2
  /\ DOMAIN tk2 \subseteq 1 .. cr2
  /\ \A t \in 1 .. cr : t \in DOMAIN tk2 => t \in DOMAIN tk /\ tk2[t] = tk[t]

\* What holds of the head of a request holds whatever happens to other tasks.
LEMMA HeadKept ==
  ASSUME NEW w, w \in Locals, NEW y, NEW tk, NEW cr, NEW tk2, NEW cr2,
         Kept(tk, cr, tk2, cr2), w.task <= cr, HeadOK(w, y, tk, cr)
  PROVE  HeadOK(w, y, tk2, cr2)
<1>1. w.task \in Nat /\ w.made \in Nat
  BY DEF Locals
<1>2. w.task \in DOMAIN tk2 => w.task \in DOMAIN tk /\ tk2[w.task] = tk[w.task]
  BY <1>1 DEF Kept
<1>3. w.made \in 1 .. cr /\ w.made \in DOMAIN tk2 =>
        w.made \in DOMAIN tk /\ tk2[w.made] = tk[w.made]
  BY DEF Kept
<1>4. w.made \in 1 .. cr => w.made \in 1 .. cr2
  BY <1>1 DEF Kept
<1>5. y.do \in Inserts => w.made \in 1 .. cr /\ w.task < w.made
  BY DEF HeadOK
<1>6. y.do = "insertDetails" /\ w.made \in DOMAIN tk2 =>
        tk2[w.made].pre \in {"UNAUDIT", "PREPUBLISH"}
  BY <1>3, <1>5 DEF HeadOK, Inserts
<1>7. y.do \in {"insertRework", "insertExecuter"} /\ w.made \in DOMAIN tk2 =>
        tk2[w.made].pre = "ROLLBACK" /\ tk2[w.made].prev = w.task
  BY <1>3, <1>5 DEF HeadOK, Inserts
<1>8. y.do \in {"deleteDetails", "deleteTask"} /\ w.task \in DOMAIN tk2 =>
        tk2[w.task].pre = "UNAUDIT"
  BY <1>2 DEF HeadOK
<1>9. y.do = "endPublish" \/ (y.do = "setStatus" /\ y.dest = "PUBLISHING") =>
        w.read \in Status
  BY DEF HeadOK
<1>. QED BY <1>4, <1>5, <1>6, <1>7, <1>8, <1>9 DEF HeadOK

\* A request is as good whatever happens to other tasks.
LEMMA RequestKept ==
  ASSUME NEW w, NEW tk, NEW cr, NEW tk2, NEW cr2,
         Kept(tk, cr, tk2, cr2), RequestOK(w, tk, cr)
  PROVE  RequestOK(w, tk2, cr2)
<1>1. w \in Locals /\ w.task <= cr /\ w.made <= cr /\ w.task \in Nat /\ w.made \in Nat
  BY DEF RequestOK, Locals
<1>2. w.task <= cr2 /\ w.made <= cr2
  BY <1>1 DEF Kept
<1>3. w.todo # <<>> => w.user \in Users /\ HeadOK(w, w.todo[1], tk2, cr2)
  BY <1>1, HeadKept DEF RequestOK
<1>4. w.task \in DOMAIN tk2 => w.task \in DOMAIN tk /\ tk2[w.task] = tk[w.task]
  BY <1>1 DEF Kept
<1>. QED BY <1>1, <1>2, <1>3, <1>4 DEF RequestOK

\* A request with nothing to do is as it should be.
LEMMA IdleOK ==
  ASSUME NEW tk, NEW cr \in Nat, DOMAIN tk \subseteq 1 .. cr
  PROVE  Idle \in Locals /\ RequestOK(Idle, tk, cr)
<1>1. Rules(<<>>) /\ Kinds(<<>>) = {}
  BY NoStatement
<1>2. <<>> \in Seq(Statements)
  BY EmptySeq
<1>3. Idle \in Locals
  BY <1>2 DEF Idle, Locals
<1>4. Idle.task = 0 /\ Idle.made = 0 /\ Idle.todo = <<>>
  BY DEF Idle
<1>5. Exclusive({})
  BY DEF Exclusive
<1>6. 0 <= cr /\ 0 \notin DOMAIN tk
  OBVIOUS
<1>. QED BY ONLY <1>1, <1>3, <1>4, <1>5, <1>6 DEF RequestOK

\* The kinds of fewer statements exclude each other as well.
LEMMA FewerExclusive ==
  ASSUME NEW K, NEW K2, K2 \subseteq K, Exclusive(K)
  PROVE  Exclusive(K2)
<1>1. "insertExecuter" \in K2 => K2 \intersect {"findTask", "pickDelivery"} = {}
  BY DEF Exclusive
<1>2. ASSUME K2 \intersect Deletes # {}
      PROVE  K2 \subseteq Deletes \union {"check", "setStatus"}
  <2>1. K \intersect Deletes # {}
    BY <1>2
  <2>. QED BY <2>1 DEF Exclusive
<1>. QED BY <1>1, <1>2 DEF Exclusive

\* A request goes on with the rest t of its program: its head must be right.
LEMMA LandOK ==
  ASSUME NEW w, NEW tk, NEW cr, RequestOK(w, tk, cr), w.todo # <<>>,
         NEW v, v \in Locals, NEW tk2, NEW cr2, Kept(tk, cr, tk2, cr2),
         v.task <= cr2, v.made <= cr2, v.user = w.user,
         NEW k \in Nat, NEW t, Suffix(w.todo, k, t),
         t # <<>> => HeadOK(v, t[1], tk2, cr2),
         "insertExecuter" \in Kinds(w.todo) /\ v.task \in DOMAIN tk2 =>
           tk2[v.task].pre = "PREPUBLISH"
  PROVE  /\ (IF t = <<>> THEN Idle ELSE [v EXCEPT !.todo = t]) \in Locals
         /\ RequestOK(IF t = <<>> THEN Idle ELSE [v EXCEPT !.todo = t], tk2, cr2)
<1>1. CASE t = <<>>
  BY <1>1, IdleOK DEF Kept
<1>2. CASE t # <<>>
  <2>. DEFINE x == [v EXCEPT !.todo = t]
  <2>1. Rules(t) /\ Kinds(t) \subseteq Kinds(w.todo)
    BY SuffixRules DEF RequestOK
  <2>2. t \in Seq(Statements)
    BY <2>1 DEF Rules
  <2>3. /\ x \in Locals /\ x.todo = t /\ x.task = v.task /\ x.made = v.made
        /\ x.user = v.user /\ x.read = v.read
    BY <2>2 DEF Locals
  <2>. HIDE DEF x
  <2>4. Exclusive(Kinds(t))
    BY <2>1, FewerExclusive DEF RequestOK
  <2>5. HeadOK(x, t[1], tk2, cr2)
    BY <1>2, <2>3 DEF HeadOK
  <2>6. w.user \in Users
    BY DEF RequestOK
  <2>7. RequestOK(x, tk2, cr2)
    BY <2>1, <2>3, <2>4, <2>5, <2>6 DEF RequestOK
  <2>. QED BY <1>2, <2>3, <2>7 DEF x
<1>. QED BY <1>1, <1>2

\* A request goes on with the rest t of its program and no other change.
LEMMA SameLandOK ==
  ASSUME NEW w, NEW tk, NEW cr, RequestOK(w, tk, cr), w.todo # <<>>,
         NEW tk2, NEW cr2, Kept(tk, cr, tk2, cr2),
         NEW k \in Nat, NEW t, Suffix(w.todo, k, t),
         t # <<>> => HeadOK(w, t[1], tk2, cr2)
  PROVE  /\ (IF t = <<>> THEN Idle ELSE [w EXCEPT !.todo = t]) \in Locals
         /\ RequestOK(IF t = <<>> THEN Idle ELSE [w EXCEPT !.todo = t], tk2, cr2)
<1>1. RequestOK(w, tk2, cr2)
  BY RequestKept
<1>2. /\ w \in Locals /\ w.task <= cr2 /\ w.made <= cr2
      /\ "insertExecuter" \in Kinds(w.todo) /\ w.task \in DOMAIN tk2 =>
           tk2[w.task].pre = "PREPUBLISH"
  BY <1>1 DEF RequestOK
<1>. QED BY <1>2, LandOK

\* One request changes, to one as it should be, and the tables as they may.
LEMMA OneTurn ==
  ASSUME WebOK, NEW r \in Requests, NEW x, x \in Locals, web' = [web EXCEPT ![r] = x],
         Kept(task, created, task', created'), RequestOK(x, task', created')
  PROVE  WebOK'
<1>1. web' \in [Requests -> Locals]
  BY DEF WebOK
<1>2. ASSUME NEW q \in Requests
      PROVE  RequestOK(web'[q], task', created')
  <2>1. CASE q = r
    <3>1. web'[q] = x
      BY <2>1 DEF WebOK
    <3>. QED BY <3>1
  <2>2. CASE q # r
    <3>1. web'[q] = web[q]
      BY <2>2 DEF WebOK
    <3>2. RequestOK(web[q], task, created)
      BY DEF WebOK
    <3>. QED BY <3>1, <3>2, RequestKept
  <2>. QED BY <2>1, <2>2
<1>. QED BY <1>1, <1>2 DEF WebOK

\* A statement runs, and the request goes on with v for its local variables.
LEMMA Turn ==
  ASSUME WebOK, NEW r \in Requests, web[r].todo # <<>>, NEW v, v \in Locals,
         Continue(r, v), Kept(task, created, task', created'),
         v.task <= created', v.made <= created', v.user = web[r].user,
         \A y \in Statements : Precedes(Head(web[r].todo), y) =>
                                 HeadOK(v, y, task', created'),
         "insertExecuter" \in Kinds(web[r].todo) /\ v.task \in DOMAIN task' =>
           task'[v.task].pre = "PREPUBLISH"
  PROVE  WebOK'
<1>. DEFINE s == web[r].todo
            t == Tail(s)
            x == IF t = <<>> THEN Idle ELSE [v EXCEPT !.todo = t]
<1>1. RequestOK(web[r], task, created)
  BY DEF WebOK
<1>2. Rules(s) /\ s \in Seq(Statements) /\ s # <<>>
  BY <1>1 DEF RequestOK, Rules
<1>3. Len(s) \in Nat \ {0} /\ Suffix(s, 1, t) /\ s[1] = Head(s)
  BY <1>2, TailIsSuffix
<1>. HIDE DEF t
<1>4. ASSUME t # <<>>
      PROVE  HeadOK(v, t[1], task', created')
  <2>1. t \in Seq(Statements) /\ Len(t) = Len(s) - 1 /\ Len(t) # 0
    BY <1>3, <1>4, EmptyProgram DEF Suffix
  <2>2. 1 \in 1 .. Len(t) /\ 1 \in 1 .. (Len(s) - 1)
    <3>. DEFINE n == Len(s)
                m == Len(t)
    <3>1. m \in Nat /\ n \in Nat /\ m = n - 1 /\ m # 0
      BY <1>3, <2>1, EmptyProgram
    <3>. HIDE DEF n, m
    <3>2. 1 \in 1 .. m /\ 1 \in 1 .. (n - 1)
      BY ONLY <3>1
    <3>. QED BY <3>2 DEF n, m
  <2>3. t[1] = s[1 + 1] /\ t[1] \in Statements
    BY <1>3, <2>1, <2>2, ElementOfSeq DEF Suffix
  <2>4. Precedes(s[1], s[1 + 1])
    BY <1>2, <2>2 DEF Rules
  <2>. QED BY <1>3, <2>3, <2>4
<1>5. x \in Locals /\ RequestOK(x, task', created')
  BY <1>1, <1>2, <1>3, <1>4, LandOK
<1>6. web' = [web EXCEPT ![r] = x]
  BY DEF Continue, t
<1>. HIDE DEF x
<1>. QED BY <1>5, <1>6, OneTurn

\* A statement runs that leaves the local variables and the tasks alone, and
\* no later statement depends on it.
LEMMA PlainTurn ==
  ASSUME WebOK, NEW r \in Requests, web[r].todo # <<>>, Proceed(r),
         Kept(task, created, task', created'),
         \A y \in Statements : Precedes(Head(web[r].todo), y) =>
                                 HeadOK(web[r], y, task', created')
  PROVE  WebOK'
<1>1. RequestOK(web[r], task, created) /\ web[r] \in Locals
  BY DEF WebOK
<1>2. RequestOK(web[r], task', created')
  BY <1>1, RequestKept
<1>. QED BY <1>1, <1>2, Turn DEF Proceed, RequestOK
------------------------------------------------------------------------------
(* The statements keep the requests as they should be *)

\* What is known of the statement that runs.
LEMMA Running ==
  ASSUME WebOK, NEW r \in Requests, web[r].todo # <<>>
  PROVE  /\ Now(r) \in Statements
         /\ web[r] \in Locals /\ web[r].user \in Users
         /\ web[r].task \in 0 .. created /\ web[r].made \in 0 .. created
         /\ HeadOK(web[r], Now(r), task, created)
         /\ Now(r).do \in Kinds(web[r].todo)
         /\ Follows(web[r].todo, 1) /\ web[r].todo[1] = Now(r)
         /\ Rules(web[r].todo)
<1>. DEFINE w == web[r]
            s == web[r].todo
<1>1. RequestOK(w, task, created)
  BY DEF WebOK
<1>2. Rules(s) /\ s \in Seq(Statements) /\ s # <<>>
  BY <1>1 DEF RequestOK, Rules
<1>3. Len(s) \in Nat \ {0} /\ s[1] = Head(s) /\ Head(s) \in Statements
  BY <1>2, TailIsSuffix
<1>4. 1 \in 1 .. Len(s)
  BY <1>3
<1>5. s[1].do \in Kinds(s)
  BY <1>4 DEF Kinds
<1>6. Follows(s, 1)
  BY <1>2, <1>4 DEF Rules
<1>7. w.task \in 0 .. created /\ w.made \in 0 .. created
  BY <1>1 DEF RequestOK, Locals
<1>8. w \in Locals /\ w.user \in Users /\ HeadOK(w, s[1], task, created)
  BY <1>1, <1>2 DEF RequestOK
<1>. QED BY <1>2, <1>3, <1>5, <1>6, <1>7, <1>8 DEF Now

\* After most statements comes none that depends on the local variables.
LEMMA QuietNext ==
  ASSUME NEW x, NEW y, Precedes(x, y),
         x.do \notin {"insertTask", "pickDelivery", "deleteDetails", "readStatus", "setStatus"},
         NEW w, NEW tk, NEW cr
  PROVE  HeadOK(w, y, tk, cr)
  BY DEF Precedes, HeadOK, Inserts

\* Before a free statement any request is right.
LEMMA FreeNext ==
  ASSUME NEW y, Free(y), NEW w, NEW tk, NEW cr
  PROVE  HeadOK(w, y, tk, cr)
  BY DEF Free, HeadOK, Inserts

\* Tables that do not change are kept, and so are tasks one of which goes.
LEMMA SameKept ==
  ASSUME TablesOK, created' = created,
         DOMAIN task' \subseteq DOMAIN task, \A t \in DOMAIN task' : task'[t] = task[t]
  PROVE  Kept(task, created, task', created')
  BY DEF TablesOK, Kept

\* A task inserted behind the others leaves them as they were.
LEMMA InsertKept ==
  ASSUME TablesOK, created' = created + 1, NEW row, task' = Row(task, created', row)
  PROVE  /\ Kept(task, created, task', created')
         /\ DOMAIN task' = DOMAIN task \union {created'}
         /\ task'[created'] = row
         /\ \A t \in DOMAIN task : task'[t] = task[t] /\ t # created'
<1>1. created \in Nat /\ DOMAIN task \subseteq 1 .. created /\ created' \in Nat
  BY DEF TablesOK
<1>2. /\ DOMAIN task' = DOMAIN task \union {created'}
      /\ task'[created'] = row
      /\ \A t \in DOMAIN task : t # created' => task'[t] = task[t]
  BY DEF Row
<1>3. \A t \in DOMAIN task : t # created'
  BY <1>1
<1>4. Kept(task, created, task', created')
  BY <1>1, <1>2, <1>3 DEF Kept
<1>. QED BY <1>2, <1>3, <1>4

\* A page begins a request as it should.
LEMMA PageWeb ==
  ASSUME WorkflowAssumption, TablesOK, WebOK,
         NEW r \in Requests, NEW u \in Users, Page(r, u)
  PROVE  WebOK'
<1>1. PICK t, s : Submit(r, u, t, s) /\ Begins(u, t, s)
  BY PagePrograms
<1>. DEFINE x == [Idle EXCEPT !.user = u, !.task = t, !.todo = s]
<1>2. /\ web' = [web EXCEPT ![r] = x] /\ web[r] = Idle
      /\ task' = task /\ created' = created
  BY <1>1 DEF Submit, tables
<1>3. Kept(task, created, task', created')
  BY <1>2, SameKept
<1>4. created \in Nat /\ DOMAIN task \subseteq 1 .. created
  BY DEF TablesOK
<1>5. t \in 0 .. created /\ Rules(s) /\ s \in Seq(Statements) /\ Exclusive(Kinds(s))
  BY <1>1, <1>4 DEF Begins, Rules
<1>6. /\ x \in Locals /\ x.todo = s /\ x.user = u /\ x.task = t /\ x.made = 0
  <2>1. t \in Nat /\ u \in Users \union {NoUser}
    BY <1>4, <1>5
  <2>2. Idle \in Locals /\ Idle.made = 0
    BY <1>4, IdleOK DEF Idle
  <2>. QED BY ONLY <1>5, <2>1, <2>2 DEF Locals
<1>. HIDE DEF x
<1>7. HeadOK(x, s[1], task, created)
  BY <1>1 DEF Begins, Free, HeadOK, Inserts
<1>8. "insertExecuter" \in Kinds(s) /\ t \in DOMAIN task => task[t].pre = "PREPUBLISH"
  BY <1>1 DEF Begins, Listed
<1>9. RequestOK(x, task', created')
  BY <1>2, <1>4, <1>5, <1>6, <1>7, <1>8 DEF RequestOK
<1>. QED BY <1>2, <1>3, <1>6, <1>9, OneTurn

\* A check leaves the statements it guards, or those behind them.
LEMMA CheckWeb ==
  ASSUME TablesOK, WebOK, NEW r \in Requests, RunCheck(r)
  PROVE  WebOK'
<1>. DEFINE w == web[r]
            s == web[r].todo
            k == Now(r).skip
            rest == Tail(s)
            skipped == SubSeq(rest, k + 1, Len(rest))
            left == IF CanTransition(Now(r).dest) THEN rest ELSE skipped
            x == IF left = <<>> THEN Idle ELSE [w EXCEPT !.todo = left]
<1>1. /\ s # <<>> /\ Now(r).do = "check"
      /\ web' = [web EXCEPT ![r] = IF left = <<>> THEN Idle ELSE [@ EXCEPT !.todo = left]]
      /\ task' = task /\ created' = created
  BY DEF RunCheck, Runs, Now, tables
<1>2. /\ Now(r) \in Statements /\ w \in Locals /\ Rules(s) /\ s \in Seq(Statements)
      /\ w.task \in 0 .. created /\ w.made \in 0 .. created
      /\ Follows(s, 1) /\ s[1] = Now(r)
  BY <1>1, Running DEF Rules
<1>3. RequestOK(w, task, created) /\ Kept(task, created, task', created')
  BY <1>1, SameKept DEF WebOK
<1>4. k \in Nat /\ 1 + k <= Len(s) /\ (1 + k < Len(s) => Free(s[1 + k + 1]))
  BY <1>1, <1>2, Parameters DEF Follows
<1>5. web' = [web EXCEPT ![r] = x]
  BY <1>1 DEF WebOK
<1>6. Len(s) \in Nat \ {0} /\ Suffix(s, 1, rest) /\ (rest = <<>> <=> Len(s) = 1)
  BY <1>1, <1>2, TailIsSuffix
<1>7. Suffix(s, k + 1, skipped) /\ (skipped = <<>> <=> k + 1 = Len(s))
  <2>1. k + 1 <= Len(s)
    BY <1>4, <1>6
  <2>. HIDE DEF k
  <2>. QED BY <1>1, <1>2, <1>4, <2>1, SkipIsSuffix
<1>. HIDE DEF k, rest, skipped
<1>10. CASE CanTransition(Now(r).dest)
  <2>1. left = rest
    BY <1>10
  <2>2. ASSUME rest # <<>>
        PROVE  HeadOK(w, rest[1], task', created')
    <3>1. 1 \in 1 .. (Len(s) - 1) /\ 1 \in 1 .. Len(rest)
      BY <1>6, <2>2 DEF Suffix
    <3>2. rest[1] = s[1 + 1] /\ Precedes(s[1], s[1 + 1])
      BY <1>2, <1>6, <3>1 DEF Suffix, Rules
    <3>. QED BY <1>1, <1>2, <3>2, QuietNext
  <2>3. x \in Locals /\ RequestOK(x, task', created')
    <3>1. \E n \in Nat : Suffix(s, n, rest)
      BY <1>6
    <3>2. PICK n \in Nat : Suffix(s, n, rest)
      BY <3>1
    <3>3. s = w.todo /\ s # <<>> /\ x = IF rest = <<>> THEN Idle ELSE [w EXCEPT !.todo = rest]
      BY <1>1, <2>1
    <3>. HIDE DEF w, s, left, x
    <3>. QED BY ONLY <1>3, <2>2, <3>2, <3>3, SameLandOK
  <2>. HIDE DEF x
  <2>. QED BY <1>3, <1>5, <2>3, OneTurn
<1>11. CASE ~CanTransition(Now(r).dest)
  <2>1. left = skipped
    BY <1>11
  <2>2. ASSUME skipped # <<>>
        PROVE  HeadOK(w, skipped[1], task', created')
    <3>1. k + 1 < Len(s)
      BY <1>4, <1>6, <1>7, <2>2
    <3>2. 1 \in 1 .. Len(skipped) /\ (k + 1) + 1 = 1 + k + 1
      BY <1>4, <1>6, <1>7, <3>1 DEF Suffix
    <3>3. skipped[1] = s[1 + k + 1]
      BY <1>7, <3>2 DEF Suffix
    <3>4. Free(s[1 + k + 1])
      BY <1>4, <1>6, <3>1
    <3>. QED BY <3>3, <3>4, FreeNext
  <2>3. k + 1 \in Nat
    BY <1>4
  <2>4. x \in Locals /\ RequestOK(x, task', created')
    <3>1. s = w.todo /\ s # <<>>
          /\ x = IF skipped = <<>> THEN Idle ELSE [w EXCEPT !.todo = skipped]
      BY <1>1, <2>1
    <3>. HIDE DEF w, s, left, x
    <3>. QED BY ONLY <1>3, <1>7, <2>2, <2>3, <3>1, SameLandOK
  <2>. HIDE DEF x
  <2>. QED BY <1>3, <1>5, <2>4, OneTurn
<1>. QED BY <1>10, <1>11

\* A statement that changes no task and no local variable, and after which
\* comes none that depends on them
LEMMA QuietWeb ==
  ASSUME TablesOK, WebOK, NEW r \in Requests, web[r].todo # <<>>, Proceed(r),
         Now(r).do \notin {"insertTask", "pickDelivery", "deleteDetails",
                           "readStatus", "setStatus"},
         created' = created, DOMAIN task' \subseteq DOMAIN task,
         \A t \in DOMAIN task' : task'[t] = task[t]
  PROVE  WebOK'
<1>1. Kept(task, created, task', created')
  BY SameKept
<1>2. \A y \in Statements : Precedes(Now(r), y) => HeadOK(web[r], y, task', created')
  BY QuietNext
<1>. QED BY <1>1, <1>2, PlainTurn DEF Now

\* The search for the user's task changes the task of the request.
LEMMA FindTaskWeb ==
  ASSUME TablesOK, WebOK, NEW r \in Requests, Runs(r, "findTask"),
         NEW n \in DOMAIN task \union {0}, Continue(r, [web[r] EXCEPT !.task = n]),
         UNCHANGED <<task, created>>
  PROVE  WebOK'
<1>. DEFINE v == [web[r] EXCEPT !.task = n]
<1>1. /\ web[r].todo # <<>> /\ Now(r).do = "findTask"
      /\ task' = task /\ created' = created
  BY DEF Runs, Now
<1>2. /\ web[r] \in Locals /\ Now(r).do \in Kinds(web[r].todo)
      /\ web[r].made \in 0 .. created
  BY <1>1, Running
<1>3. created \in Nat /\ DOMAIN task \subseteq 1 .. created
  BY DEF TablesOK
<1>4. n \in Nat /\ n <= created
  BY <1>3
<1>5. v \in Locals /\ v.task = n /\ v.made = web[r].made /\ v.user = web[r].user
  BY ONLY <1>2, <1>4 DEF Locals
<1>. HIDE DEF v
<1>6. "insertExecuter" \notin Kinds(web[r].todo)
  BY <1>1, <1>2 DEF WebOK, RequestOK, Exclusive
<1>7. \A y \in Statements : Precedes(Now(r), y) => HeadOK(v, y, task', created')
  BY <1>1, QuietNext
<1>8. Kept(task, created, task', created')
  BY <1>1, SameKept
<1>9. Continue(r, v)
  BY DEF v
<1>10. v.task <= created' /\ v.made <= created'
  BY <1>1, <1>2, <1>4, <1>5
<1>. QED BY <1>1, <1>5, <1>6, <1>7, <1>8, <1>9, <1>10, Turn DEF Now

\* The former executer found
LEMMA FindExecuterWeb ==
  ASSUME TablesOK, WebOK, NEW r \in Requests, Runs(r, "findExecuter"),
         NEW u \in Users \union {NoUser}, Continue(r, [web[r] EXCEPT !.executer = u]),
         UNCHANGED <<task, created>>
  PROVE  WebOK'
<1>. DEFINE v == [web[r] EXCEPT !.executer = u]
<1>1. /\ web[r].todo # <<>> /\ Now(r).do = "findExecuter"
      /\ task' = task /\ created' = created
  BY DEF Runs, Now
<1>2. /\ web[r] \in Locals
      /\ web[r].task \in 0 .. created /\ web[r].made \in 0 .. created
  BY <1>1, Running
<1>3. v \in Locals /\ v.task = web[r].task /\ v.made = web[r].made /\ v.user = web[r].user
  BY ONLY <1>2 DEF Locals
<1>. HIDE DEF v
<1>4. \A y \in Statements : Precedes(Now(r), y) => HeadOK(v, y, task', created')
  BY <1>1, QuietNext
<1>5. Kept(task, created, task', created')
  BY <1>1, SameKept
<1>6. Continue(r, v)
  BY DEF v
<1>7. "insertExecuter" \in Kinds(web[r].todo) /\ v.task \in DOMAIN task' =>
        task'[v.task].pre = "PREPUBLISH"
  BY <1>1, <1>3 DEF WebOK, RequestOK
<1>8. v.task <= created' /\ v.made <= created'
  BY <1>1, <1>2, <1>3
<1>. QED BY <1>1, <1>3, <1>4, <1>5, <1>6, <1>7, <1>8, Turn DEF Now

\* The status read is one.
LEMMA ReadStatusWeb ==
  ASSUME TablesOK, WebOK, NEW r \in Requests, RunReadStatus(r)
  PROVE  WebOK'
<1>. DEFINE v == [web[r] EXCEPT !.read = status]
<1>1. /\ web[r].todo # <<>> /\ Now(r).do = "readStatus"
      /\ task' = task /\ created' = created /\ status \in Status
  BY DEF Runs, Now, RunReadStatus, tables, TablesOK
<1>2. /\ web[r] \in Locals
      /\ web[r].task \in 0 .. created /\ web[r].made \in 0 .. created
  BY <1>1, Running
<1>3. /\ v \in Locals /\ v.task = web[r].task /\ v.made = web[r].made
      /\ v.user = web[r].user /\ v.read = status
  BY ONLY <1>1, <1>2 DEF Locals
<1>4. Continue(r, v)
  BY DEF RunReadStatus
<1>. HIDE DEF v
<1>5. \A y \in Statements : Precedes(Now(r), y) => HeadOK(v, y, task', created')
  BY <1>1, <1>3 DEF Precedes, HeadOK, Inserts
<1>6. Kept(task, created, task', created')
  BY <1>1, SameKept
<1>7. "insertExecuter" \in Kinds(web[r].todo) /\ v.task \in DOMAIN task' =>
        task'[v.task].pre = "PREPUBLISH"
  BY <1>1, <1>3 DEF WebOK, RequestOK
<1>8. v.task <= created' /\ v.made <= created'
  BY <1>1, <1>2, <1>3
<1>. QED BY <1>1, <1>3, <1>4, <1>5, <1>6, <1>7, <1>8, Turn DEF Now

\* PUBLISHING is only set once the status has been read.
LEMMA SetStatusWeb ==
  ASSUME TablesOK, WebOK, NEW r \in Requests, RunSetStatus(r)
  PROVE  WebOK'
<1>1. /\ web[r].todo # <<>> /\ Now(r).do = "setStatus"
      /\ task' = task /\ created' = created /\ Proceed(r)
  BY DEF Runs, Now, RunSetStatus
<1>2. HeadOK(web[r], Now(r), task, created)
  BY <1>1, Running
<1>3. \A y \in Statements : Precedes(Now(r), y) => HeadOK(web[r], y, task', created')
  BY <1>1, <1>2 DEF Precedes, HeadOK, Inserts
<1>4. Kept(task, created, task', created')
  BY <1>1, SameKept
<1>. QED BY <1>1, <1>3, <1>4, PlainTurn DEF Now

\* The task inserted is the one the next statement inserts the details of.
LEMMA InsertTaskWeb ==
  ASSUME TablesOK, WebOK, NEW r \in Requests, RunInsertTask(r)
  PROVE  WebOK'
<1>. DEFINE v == [web[r] EXCEPT !.made = created']
            row == [pre |-> Now(r).pre, submit |-> web[r].user,
                    prev |-> IF Now(r).linked THEN web[r].task ELSE 0]
<1>1. /\ web[r].todo # <<>> /\ Now(r).do = "insertTask"
      /\ created' = created + 1 /\ task' = Row(task, created', row) /\ Continue(r, v)
  BY DEF Runs, Now, RunInsertTask
<1>2. /\ web[r] \in Locals /\ web[r].task \in 0 .. created
  BY <1>1, Running
<1>3. row.pre = Now(r).pre /\ (Now(r).linked => row.prev = web[r].task)
  OBVIOUS
<1>. HIDE DEF row
<1>4. /\ Kept(task, created, task', created')
      /\ DOMAIN task' = DOMAIN task \union {created'} /\ task'[created'] = row
      /\ \A t \in DOMAIN task : task'[t] = task[t] /\ t # created'
  BY <1>1, InsertKept
<1>5. created \in Nat /\ created' \in Nat /\ created' > created
  BY <1>1 DEF TablesOK
<1>6. /\ v \in Locals /\ v.task = web[r].task /\ v.made = created'
      /\ v.user = web[r].user
  BY ONLY <1>2, <1>5 DEF Locals
<1>. HIDE DEF v
<1>7. v.task <= created' /\ v.made <= created' /\ v.made \in 1 .. created'
        /\ v.task < v.made
  BY <1>2, <1>5, <1>6
<1>8. ASSUME NEW y \in Statements, Precedes(Now(r), y)
      PROVE  HeadOK(v, y, task', created')
  BY <1>1, <1>3, <1>4, <1>6, <1>7, <1>8 DEF Precedes, HeadOK
<1>9. RequestOK(web[r], task', created')
  BY <1>4, RequestKept DEF WebOK
<1>10. "insertExecuter" \in Kinds(web[r].todo) /\ v.task \in DOMAIN task' =>
         task'[v.task].pre = "PREPUBLISH"
  BY <1>6, <1>9 DEF RequestOK
<1>. QED BY <1>1, <1>4, <1>6, <1>7, <1>8, <1>10, Turn DEF Now

\* The details of a task are inserted one by one.
LEMMA InsertDetailsWeb ==
  ASSUME TablesOK, WebOK, NEW r \in Requests, RunInsertDetails(r)
  PROVE  WebOK'
<1>. DEFINE w == web[r]
            s == web[r].todo
            others(u) == Now(r).performers \ {u}
<1>1. PICK u \in Now(r).performers :
        IF others(u) = {} THEN Proceed(r)
        ELSE web' = [web EXCEPT ![r].todo = <<InsertDetails(others(u))>> \o Tail(s)]
  BY DEF RunInsertDetails
<1>2. s # <<>> /\ Now(r).do = "insertDetails" /\ task' = task /\ created' = created
  BY DEF RunInsertDetails, Runs, Now
<1>3. CASE others(u) = {}
  BY <1>1, <1>2, <1>3, QuietWeb
<1>4. CASE others(u) # {}
  <2>. DEFINE y == InsertDetails(others(u))
              t == <<y>> \o Tail(s)
              x == [w EXCEPT !.todo = t]
  <2>1. /\ Now(r) \in Statements /\ w \in Locals /\ Rules(s) /\ s[1] = Now(r)
        /\ w.user \in Users /\ HeadOK(w, Now(r), task, created)
    BY <1>2, Running
  <2>2. Now(r).performers \in SUBSET Users
    BY <1>2, <2>1, Parameters
  <2>3. others(u) \in (SUBSET Users) \ {{}}
    BY <1>4, <2>2
  <2>4. y \in Statements /\ y.do = "insertDetails"
    BY <2>3, Constructors
  <2>. HIDE DEF y
  <2>5. Rules(t) /\ Kinds(t) = Kinds(s) /\ t[1] = y /\ t # <<>>
    BY <1>2, <2>1, <2>4, ReplaceRules
  <2>6. web' = [web EXCEPT ![r] = x]
    BY <1>1, <1>4 DEF y
  <2>. HIDE DEF t
  <2>7. t \in Seq(Statements)
    BY <2>5 DEF Rules
  <2>8. /\ x \in Locals /\ x.todo = t /\ x.task = w.task /\ x.made = w.made
        /\ x.user = w.user /\ x.read = w.read
    BY ONLY <2>1, <2>7 DEF Locals
  <2>. HIDE DEF x
  <2>9. HeadOK(x, y, task, created)
    BY <1>2, <2>1, <2>4, <2>8 DEF HeadOK
  <2>10. RequestOK(w, task, created)
    BY DEF WebOK
  <2>. HIDE DEF w, s
  <2>11. RequestOK(x, task, created)
    BY <2>1, <2>5, <2>8, <2>9, <2>10 DEF RequestOK, w, s
  <2>12. Kept(task, created, task', created')
    BY <1>2, SameKept
  <2>. QED BY <1>2, <2>6, <2>8, <2>11, <2>12, OneTurn
<1>. QED BY <1>3, <1>4

\* The task picked for deletion is one of the audit.
LEMMA PickDeliveryWeb ==
  ASSUME TablesOK, WebOK, NEW r \in Requests, RunPickDelivery(r)
  PROVE  WebOK'
<1>1. /\ web[r].todo # <<>> /\ Now(r).do = "pickDelivery"
      /\ task' = task /\ created' = created
  BY DEF Runs, Now, RunPickDelivery, tables
<1>2. PICK n \in DOMAIN task \union {0} :
        /\ Continue(r, [web[r] EXCEPT !.task = n])
        /\ n \in DOMAIN task => task[n].pre = "UNAUDIT"
  <2>. DEFINE sent == {t \in DOMAIN task : task[t].pre = "UNAUDIT" /\ task[t].prev = 0}
  <2>1. PICK n \in IF sent = {} THEN {0} ELSE sent :
          Continue(r, [web[r] EXCEPT !.task = n])
    BY DEF RunPickDelivery
  <2>2. 0 \notin DOMAIN task
    BY DEF TablesOK
  <2>3. n \in DOMAIN task \union {0} /\ (n \in DOMAIN task => task[n].pre = "UNAUDIT")
    BY <2>2
  <2>. QED BY <2>1, <2>3
<1>. DEFINE v == [web[r] EXCEPT !.task = n]
<1>3. /\ web[r] \in Locals /\ Now(r).do \in Kinds(web[r].todo)
      /\ web[r].made \in 0 .. created
  BY <1>1, Running
<1>4. created \in Nat /\ DOMAIN task \subseteq 1 .. created
  BY DEF TablesOK
<1>5. n \in Nat /\ n <= created
  BY <1>4
<1>6. v \in Locals /\ v.task = n /\ v.made = web[r].made /\ v.user = web[r].user
  BY ONLY <1>3, <1>5 DEF Locals
<1>7. Continue(r, v)
  BY <1>2
<1>. HIDE DEF v
<1>8. "insertExecuter" \notin Kinds(web[r].todo)
  BY <1>1, <1>3 DEF WebOK, RequestOK, Exclusive
<1>9. \A y \in Statements : Precedes(Now(r), y) => HeadOK(v, y, task', created')
  BY <1>1, <1>2, <1>6 DEF Precedes, HeadOK, Inserts
<1>10. Kept(task, created, task', created')
  BY <1>1, SameKept
<1>11. v.task <= created' /\ v.made <= created'
  BY <1>1, <1>3, <1>5, <1>6
<1>. QED BY <1>1, <1>6, <1>7, <1>8, <1>9, <1>10, <1>11, Turn DEF Now

\* Its details are deleted, and then the task.
LEMMA DeleteDetailsWeb ==
  ASSUME TablesOK, WebOK, NEW r \in Requests, RunDeleteDetails(r)
  PROVE  WebOK'
<1>1. /\ web[r].todo # <<>> /\ Now(r).do = "deleteDetails"
      /\ task' = task /\ created' = created /\ Proceed(r)
  BY DEF Runs, Now, RunDeleteDetails
<1>2. HeadOK(web[r], Now(r), task, created)
  BY <1>1, Running
<1>3. \A y \in Statements : Precedes(Now(r), y) => HeadOK(web[r], y, task', created')
  BY <1>1, <1>2 DEF Precedes, HeadOK, Inserts
<1>4. Kept(task, created, task', created')
  BY <1>1, SameKept
<1>. QED BY <1>1, <1>3, <1>4, PlainTurn DEF Now

\* A statement that throws ends its request, or leaves it without a task.
LEMMA ThrowWeb ==
  ASSUME TablesOK, WebOK, NEW r \in Requests, Throw(r)
  PROVE  WebOK'
<1>1. task' = task /\ created' = created
  BY DEF Throw, tables
<1>2. CASE Runs(r, "findTask")
  <2>1. Continue(r, [web[r] EXCEPT !.task = 0])
    BY <1>2 DEF Throw
  <2>. QED BY <1>1, <1>2, <2>1, FindTaskWeb
<1>3. CASE ~Runs(r, "findTask")
  <2>1. web' = [web EXCEPT ![r] = Idle]
    BY <1>3 DEF Throw
  <2>2. created' \in Nat /\ DOMAIN task' \subseteq 1 .. created'
    BY <1>1 DEF TablesOK
  <2>3. Idle \in Locals /\ RequestOK(Idle, task', created')
    BY <2>2, IdleOK
  <2>4. Kept(task, created, task', created')
    BY <1>1, SameKept
  <2>. QED BY <2>1, <2>3, <2>4, OneTurn
<1>. QED BY <1>2, <1>3

\* Whatever happens, every request is as it should be.
LEMMA WebStep ==
  ASSUME WorkflowAssumption, TablesOK, WebOK, NEW r \in Requests,
         Statement(r) \/ Throw(r) \/ \E u \in Users : Page(r, u)
  PROVE  WebOK'
<1>1. CASE RunCheck(r)
  BY <1>1, CheckWeb
<1>2. CASE RunFindTask(r)
  <2>1. Held(web[r].user, Now(r).pre) \subseteq DOMAIN task
    BY DEF Held
  <2>2. \E n \in DOMAIN task \union {0} : Continue(r, [web[r] EXCEPT !.task = n])
    BY <1>2, <2>1 DEF RunFindTask
  <2>3. UNCHANGED <<task, created>> /\ Runs(r, "findTask")
    BY <1>2 DEF RunFindTask, tables
  <2>. QED BY <2>2, <2>3, FindTaskWeb
<1>3. CASE RunFindExecuter(r)
  <2>1. \E u \in Users \union {NoUser} : Continue(r, [web[r] EXCEPT !.executer = u])
    <3>. DEFINE t == web[r].task
                before == IF t \in DOMAIN task THEN task[t].prev ELSE 0
                answered == {k \in DetailsOf(before) :
                               detail[k].valid /\ detail[k].after # "none"}
                valid == {k[2] : k \in {x \in DOMAIN detail : detail[x].valid}}
                           \union OtherPerformers
                found == IF before \in DOMAIN task /\ answered # {}
                         THEN {k[2] : k \in answered}
                         ELSE IF t \in DOMAIN task THEN valid ELSE {}
    <3>1. PICK u \in IF found = {} THEN {NoUser} ELSE found :
            Continue(r, [web[r] EXCEPT !.executer = u])
      BY <1>3 DEF RunFindExecuter
    <3>2. \A k \in DOMAIN detail : k[2] \in Users \union {NoUser}
      BY DEF TablesOK
    <3>3. valid \subseteq Users \union {NoUser}
      BY <3>2 DEF WorkflowAssumption
    <3>4. {k[2] : k \in answered} \subseteq Users \union {NoUser}
      BY <3>2 DEF DetailsOf
    <3>. HIDE DEF answered, valid
    <3>5. found \subseteq Users \union {NoUser}
      BY <3>3, <3>4
    <3>. QED BY <3>1, <3>5
  <2>2. UNCHANGED <<task, created>> /\ Runs(r, "findExecuter")
    BY <1>3 DEF RunFindExecuter, tables
  <2>. QED BY <2>1, <2>2, FindExecuterWeb
<1>4. CASE RunReadStatus(r)
  BY <1>4, ReadStatusWeb
<1>5. CASE RunSetStatus(r)
  BY <1>5, SetStatusWeb
<1>6. CASE RunInsertTask(r)
  BY <1>6, InsertTaskWeb
<1>7. CASE RunInsertDetails(r)
  BY <1>7, InsertDetailsWeb
<1>8. CASE RunInsertRework(r)
  BY <1>8, QuietWeb DEF RunInsertRework, Runs, Now
<1>9. CASE RunInsertExecuter(r)
  BY <1>9, QuietWeb DEF RunInsertExecuter, Runs, Now
<1>10. CASE RunComplete(r)
  BY <1>10, QuietWeb DEF RunComplete, Runs, Now
<1>11. CASE RunInvalidate(r)
  BY <1>11, QuietWeb DEF RunInvalidate, Runs, Now
<1>12. CASE RunPickDelivery(r)
  BY <1>12, PickDeliveryWeb
<1>13. CASE RunDeleteDetails(r)
  BY <1>13, DeleteDetailsWeb
<1>14. CASE RunDeleteTask(r)
  <2>1. /\ web[r].todo # <<>> /\ Now(r).do = "deleteTask"
        /\ Proceed(r) /\ created' = created
    BY <1>14 DEF RunDeleteTask, Runs, Now
  <2>2. DOMAIN task' \subseteq DOMAIN task /\ \A t \in DOMAIN task' : task'[t] = task[t]
    BY <1>14 DEF RunDeleteTask, Without
  <2>. QED BY <2>1, <2>2, QuietWeb
<1>15. CASE RunEndPublish(r)
  BY <1>15, QuietWeb DEF RunEndPublish, Runs, Now
<1>16. CASE RunGarbage(r)
  BY <1>16, QuietWeb DEF RunGarbage, Runs, Now
<1>17. CASE RunRecover(r)
  BY <1>17, QuietWeb DEF RunRecover, Runs, Now
<1>18. CASE Throw(r)
  BY <1>18, ThrowWeb
<1>19. CASE \E u \in Users : Page(r, u)
  BY <1>19, PageWeb
<1>. QED
  BY <1>1, <1>2, <1>3, <1>4, <1>5, <1>6, <1>7, <1>8, <1>9, <1>10, <1>11, <1>12, <1>13,
     <1>14, <1>15, <1>16, <1>17, <1>18, <1>19 DEF Statement
------------------------------------------------------------------------------
(* The tables *)

\* A detail inserted has a key of its task and performer, and is open.
LEMMA InsertDetailOK ==
  ASSUME NEW r, NEW u, InsertDetail(r, u)
  PROVE  /\ DOMAIN detail' = DOMAIN detail \union {<<web[r].made, u>>}
         /\ detail'[<<web[r].made, u>>] = [valid |-> TRUE, after |-> "none"]
         /\ \A k \in DOMAIN detail : k # <<web[r].made, u>> => detail'[k] = detail[k]
  BY DEF InsertDetail, Row

\* A statement runs only when the request has one.
LEMMA StatementRuns ==
  ASSUME NEW r, Statement(r)
  PROVE  web[r].todo # <<>>
  BY DEF Statement, RunCheck, RunFindTask, RunFindExecuter, RunReadStatus, RunSetStatus,
     RunInsertTask, RunInsertDetails, RunInsertRework, RunInsertExecuter, RunComplete,
     RunInvalidate, RunPickDelivery, RunDeleteDetails, RunDeleteTask, RunEndPublish,
     RunGarbage, RunRecover, Runs

\* How the details change: by a row inserted, by rows that are answered or made
\* invalid or valid, or by rows deleted.
DetailsChange(r) ==
  \/ \E u \in Users \union {NoUser} :
       /\ Now(r).do \in Inserts /\ InsertDetail(r, u)
       /\ Now(r).do = "insertDetails" => u \in Users
       /\ Now(r).do = "insertRework" =>
            web[r].task \in DOMAIN task /\ u = task[web[r].task].submit
  \/ /\ DOMAIN detail' = DOMAIN detail
     /\ \A k \in DOMAIN detail :
          /\ detail'[k] \in [valid : BOOLEAN, after : Status \union {"none"}]
          /\ detail'[k].after = "ROLLBACK" =>
               \/ detail[k].after = "ROLLBACK"
               \/ Now(r) = Complete("ROLLBACK") /\ k[1] = web[r].task
  \/ /\ DOMAIN detail' \subseteq DOMAIN detail
     /\ \A k \in DOMAIN detail' : detail'[k] = detail[k]

\* A request that runs changes the details in no other way.
LEMMA DetailSteps ==
  ASSUME WorkflowAssumption, TablesOK, WebOK, NEW r \in Requests, Statement(r)
  PROVE  DetailsChange(r)
<1>1. /\ Now(r) \in Statements /\ web[r] \in Locals
  <2>1. web[r].todo # <<>>
    BY StatementRuns
  <2>. QED BY <2>1, Running
<1>2. \A k \in DOMAIN detail :
        detail[k] \in [valid : BOOLEAN, after : Status \union {"none"}]
  BY DEF TablesOK
<1>3. CASE detail' = detail
  BY <1>3 DEF DetailsChange
<1>4. CASE RunInsertDetails(r)
  <2>1. Now(r).do = "insertDetails"
    BY <1>4 DEF RunInsertDetails, Runs, Now
  <2>2. Now(r).performers \in SUBSET Users
    BY <1>1, <2>1, Parameters
  <2>3. PICK u \in Now(r).performers : InsertDetail(r, u)
    BY <1>4 DEF RunInsertDetails
  <2>. QED BY <2>1, <2>2, <2>3 DEF DetailsChange, Inserts
<1>5. CASE RunInsertRework(r)
  <2>1. Now(r).do = "insertRework"
    BY <1>5 DEF RunInsertRework, Runs, Now
  <2>2. CASE web[r].task \in DOMAIN task
    <3>1. task[web[r].task].submit \in Users
      BY <2>2 DEF TablesOK
    <3>2. InsertDetail(r, task[web[r].task].submit)
      BY <1>5, <2>2 DEF RunInsertRework
    <3>. QED BY <2>1, <2>2, <3>1, <3>2 DEF DetailsChange, Inserts
  <2>3. CASE web[r].task \notin DOMAIN task
    BY <1>3, <1>5, <2>3 DEF RunInsertRework
  <2>. QED BY <2>2, <2>3
<1>6. CASE RunInsertExecuter(r)
  <2>1. Now(r).do = "insertExecuter" /\ InsertDetail(r, web[r].executer)
    BY <1>6 DEF RunInsertExecuter, Runs, Now
  <2>2. web[r].executer \in Users \union {NoUser}
    BY <1>1 DEF Locals
  <2>. QED BY <2>1, <2>2 DEF DetailsChange, Inserts
<1>7. CASE RunComplete(r)
  <2>. DEFINE j == <<web[r].task, web[r].user>>
  <2>1. /\ Now(r).do = "complete" /\ Now(r).after \in Status
        /\ Now(r) = Complete(Now(r).after)
    <3>1. Now(r).do = "complete"
      BY <1>7 DEF RunComplete, Runs, Now
    <3>2. Now(r) \in [do : {"complete"}, after : Status]
      BY <1>1, <3>1 DEF Statements, Plain
    <3>. QED BY <3>1, <3>2 DEF Complete
  <2>2. CASE ~(j \in DOMAIN detail /\ detail[j].valid)
    BY <1>3, <1>7, <2>2 DEF RunComplete
  <2>3. CASE j \in DOMAIN detail /\ detail[j].valid
    <3>1. detail' = [detail EXCEPT ![j].after = Now(r).after]
      BY <1>7, <2>3 DEF RunComplete
    <3>2. /\ DOMAIN detail' = DOMAIN detail
          /\ \A k \in DOMAIN detail : k # j => detail'[k] = detail[k]
          /\ detail'[j] = [detail[j] EXCEPT !.after = Now(r).after]
      BY <2>3, <3>1
    <3>3. /\ detail'[j] \in [valid : BOOLEAN, after : Status \union {"none"}]
          /\ detail'[j].after = Now(r).after
      BY <1>2, <2>1, <2>3, <3>2
    <3>4. ASSUME NEW k \in DOMAIN detail
          PROVE  /\ detail'[k] \in [valid : BOOLEAN, after : Status \union {"none"}]
                 /\ detail'[k].after = "ROLLBACK" =>
                      \/ detail[k].after = "ROLLBACK"
                      \/ Now(r) = Complete("ROLLBACK") /\ k[1] = web[r].task
      <4>1. CASE k = j
        BY <2>1, <3>3, <4>1
      <4>2. CASE k # j
        BY <1>2, <3>2, <4>2
      <4>. QED BY <4>1, <4>2
    <3>. QED BY <3>2, <3>4 DEF DetailsChange
  <2>. QED BY <2>2, <2>3
<1>8. ASSUME DOMAIN detail' = DOMAIN detail,
             \A k \in DOMAIN detail :
               /\ detail'[k] \in [valid : BOOLEAN, after : Status \union {"none"}]
               /\ detail'[k].after \in {detail[k].after, "PUBLISHED"}
      PROVE  DetailsChange(r)
  BY <1>8 DEF DetailsChange
<1>9. \A k \in DOMAIN detail, b \in BOOLEAN :
        /\ [detail[k] EXCEPT !.valid = b] \in [valid : BOOLEAN, after : Status \union {"none"}]
        /\ [detail[k] EXCEPT !.valid = b].after = detail[k].after
  BY <1>2
<1>10. CASE RunInvalidate(r)
  <2>1. detail' = [k \in DOMAIN detail |->
          IF k[1] = web[r].task /\ k[2] # web[r].user
          THEN [detail[k] EXCEPT !.valid = FALSE] ELSE detail[k]]
    BY <1>10 DEF RunInvalidate
  <2>. QED BY <1>2, <1>8, <1>9, <2>1
<1>11. CASE RunDeleteDetails(r)
  BY <1>11 DEF RunDeleteDetails, Without, DetailsChange
<1>12. CASE RunEndPublish(r)
  <2>1. detail' = detail \/ \E t : detail' = Answer(detail, t, web[r].user, "PUBLISHED")
    BY <1>12 DEF RunEndPublish
  <2>2. ASSUME NEW t, detail' = Answer(detail, t, web[r].user, "PUBLISHED")
        PROVE  DetailsChange(r)
    <3>1. "PUBLISHED" \in Status
      BY DEF Status
    <3>2. \A k \in DOMAIN detail :
            /\ [detail[k] EXCEPT !.after = "PUBLISHED"] \in
                 [valid : BOOLEAN, after : Status \union {"none"}]
            /\ [detail[k] EXCEPT !.after = "PUBLISHED"].after = "PUBLISHED"
      BY <1>2, <3>1
    <3>3. /\ DOMAIN detail' = DOMAIN detail
          /\ \A k \in DOMAIN detail :
               detail'[k] \in {[detail[k] EXCEPT !.after = "PUBLISHED"],
                               [detail[k] EXCEPT !.valid = FALSE], detail[k]}
      BY <2>2 DEF Answer
    <3>4. ASSUME NEW k \in DOMAIN detail
          PROVE  /\ detail'[k] \in [valid : BOOLEAN, after : Status \union {"none"}]
                 /\ detail'[k].after \in {detail[k].after, "PUBLISHED"}
      <4>. DEFINE a == [detail[k] EXCEPT !.after = "PUBLISHED"]
                  b == [detail[k] EXCEPT !.valid = FALSE]
      <4>1. /\ a \in [valid : BOOLEAN, after : Status \union {"none"}]
            /\ a.after = "PUBLISHED"
        BY <3>2
      <4>2. /\ b \in [valid : BOOLEAN, after : Status \union {"none"}]
            /\ b.after = detail[k].after
        BY <1>9
      <4>3. detail'[k] \in {a, b, detail[k]}
        BY <3>3
      <4>. HIDE DEF a, b
      <4>. QED BY <1>2, <4>1, <4>2, <4>3
    <3>. QED BY <1>8, <3>3, <3>4
  <2>. QED BY <1>3, <2>1, <2>2
<1>13. CASE RunGarbage(r)
  <2>1. detail' = [k \in DOMAIN detail |->
          IF k \in CurrentDetails(web[r].read) /\ detail[k].after # "none"
          THEN [detail[k] EXCEPT !.valid = FALSE] ELSE detail[k]]
    BY <1>13 DEF RunGarbage
  <2>. QED BY <1>2, <1>8, <1>9, <2>1
<1>14. CASE RunRecover(r)
  <2>1. detail' = [k \in DOMAIN detail |->
          IF k \in CurrentDetails(web[r].read) /\ detail[k].after # "none"
          THEN [detail[k] EXCEPT !.valid = TRUE] ELSE detail[k]]
    BY <1>14 DEF RunRecover
  <2>. QED BY <1>2, <1>8, <1>9, <2>1
<1>. QED
  BY <1>3, <1>4, <1>5, <1>6, <1>7, <1>10, <1>11, <1>12, <1>13, <1>14 DEF Statement, tables,
     RunCheck, RunFindTask, RunFindExecuter, RunReadStatus, RunSetStatus, RunInsertTask,
     RunPickDelivery, RunDeleteTask

\* How the tasks change: one is inserted, or one of the audit is deleted.
TasksChange(r) ==
  \/ UNCHANGED <<task, created>>
  \/ /\ Now(r).do = "insertTask" /\ created < MaxTasks /\ created' = created + 1
     /\ task' = Row(task, created', [pre |-> Now(r).pre, submit |-> web[r].user,
                                     prev |-> IF Now(r).linked THEN web[r].task ELSE 0])
     /\ UNCHANGED <<detail, status>>
  \/ /\ created' = created /\ detail' = detail
     /\ DOMAIN task' \subseteq DOMAIN task
     /\ \A t \in DOMAIN task' : task'[t] = task[t]
     /\ \A t \in DOMAIN task \ DOMAIN task' : task[t].pre = "UNAUDIT"

\* A request that runs changes the tasks in no other way.
LEMMA TaskSteps ==
  ASSUME TablesOK, WebOK, NEW r \in Requests, Statement(r)
  PROVE  TasksChange(r)
<1>1. CASE task' = task /\ created' = created
  BY <1>1 DEF TasksChange
<1>2. CASE RunInsertTask(r)
  BY <1>2 DEF RunInsertTask, Runs, Now, TasksChange, docVars
<1>3. CASE RunDeleteTask(r)
  <2>1. web[r].todo # <<>> /\ Now(r).do = "deleteTask"
    BY <1>3 DEF RunDeleteTask, Runs, Now
  <2>2. HeadOK(web[r], Now(r), task, created)
    BY <2>1, Running
  <2>3. web[r].task \in DOMAIN task => task[web[r].task].pre = "UNAUDIT"
    BY <2>1, <2>2 DEF HeadOK
  <2>4. /\ DOMAIN task' = DOMAIN task \ {web[r].task}
        /\ \A t \in DOMAIN task' : task'[t] = task[t]
        /\ created' = created /\ detail' = detail
    BY <1>3 DEF RunDeleteTask, Without
  <2>. QED BY <2>3, <2>4 DEF TasksChange
<1>. QED
  BY <1>1, <1>2, <1>3 DEF Statement, tables, docVars, RunCheck, RunFindTask,
     RunFindExecuter, RunReadStatus, RunSetStatus, RunInsertDetails, RunInsertRework,
     RunInsertExecuter, RunComplete, RunInvalidate, RunPickDelivery, RunDeleteDetails,
     RunEndPublish, RunGarbage, RunRecover

\* Outside the statements the tables stay as they are.
LEMMA OtherSteps ==
  ASSUME NEW r, Throw(r) \/ \E u \in Users : Page(r, u)
  PROVE  /\ UNCHANGED <<tables, created>>
         /\ faults' = faults \/ (faults < MaxFaults /\ faults' = faults + 1)
<1>1. CASE Throw(r)
  BY <1>1 DEF Throw
<1>2. CASE \E u \in Users : Page(r, u)
  <2>1. \E u, t, s : Submit(r, u, t, s)
    BY <1>2 DEF Page, SendForAudit, SubmitForPublish, AuditFromMenu, WithdrawDelivery,
       Publish, WithdrawPublished, Archive, RestoreArchived, Recycle, RecoverRecycled,
       Resend, AuditListed, AuditAndSend, AuditAndSubmit, AuditAndPublish,
       WithdrawFromPublishing, PublishListed
  <2>. QED BY <2>1 DEF Submit
<1>. QED BY <1>1, <1>2

\* The statements throw nothing.
LEMMA FaultSteps ==
  ASSUME NEW r, Statement(r)
  PROVE  faults' = faults
  BY DEF Statement, tables, docVars, RunCheck, RunFindTask, RunFindExecuter, RunReadStatus,
     RunSetStatus, RunInsertTask, RunInsertDetails, RunInsertRework, RunInsertExecuter,
     RunComplete, RunInvalidate, RunPickDelivery, RunDeleteDetails, RunDeleteTask,
     RunEndPublish, RunGarbage, RunRecover

\* The statuses stay statuses.
LEMMA StatusSteps ==
  ASSUME TablesOK, WebOK, NEW r \in Requests, Statement(r)
  PROVE  status' \in Status /\ deleted' \in BOOLEAN
<1>1. CASE status' = status /\ deleted' \in {deleted, TRUE, FALSE}
  BY <1>1 DEF TablesOK
<1>2. CASE RunSetStatus(r)
  <2>1. web[r].todo # <<>> /\ Now(r).do = "setStatus"
    BY <1>2 DEF RunSetStatus, Runs, Now
  <2>2. Now(r).dest \in Status
    BY <2>1, Running, Parameters
  <2>. QED BY <1>2, <2>2 DEF RunSetStatus, TablesOK
<1>3. CASE RunEndPublish(r)
  <2>1. web[r].todo # <<>> /\ Now(r).do = "endPublish"
    BY <1>3 DEF RunEndPublish, Runs, Now
  <2>2. web[r].read \in Status
    BY <2>1, Running DEF HeadOK
  <2>. QED BY <1>3, <2>2 DEF RunEndPublish, TablesOK, Status
<1>. QED
  BY <1>1, <1>2, <1>3 DEF Statement, tables, docVars, RunCheck, RunFindTask,
     RunFindExecuter, RunReadStatus, RunInsertTask, RunInsertDetails, RunInsertRework,
     RunInsertExecuter, RunComplete, RunInvalidate, RunPickDelivery, RunDeleteDetails,
     RunDeleteTask, RunGarbage, RunRecover

\* The tables keep their types.
LEMMA TablesStep ==
  ASSUME WorkflowAssumption, TablesOK, WebOK, NEW r \in Requests, Statement(r)
  PROVE  TablesOK'
<1>1. DetailsChange(r) /\ TasksChange(r)
  BY DetailSteps, TaskSteps
<1>2. faults' \in 0 .. MaxFaults
  BY FaultSteps DEF TablesOK
<1>3. status' \in Status /\ deleted' \in BOOLEAN
  BY StatusSteps
<1>4. MaxTasks \in Nat /\ created \in 0 .. MaxTasks
  BY DEF WorkflowAssumption, TablesOK
<1>5. /\ created' \in 0 .. MaxTasks /\ created <= created'
      /\ DOMAIN task' \subseteq 1 .. created'
      /\ \A t \in DOMAIN task' :
           task'[t] \in [pre : Status, submit : Users, prev : 0 .. (t - 1)]
  <2>1. CASE UNCHANGED <<task, created>>
    BY <2>1 DEF TablesOK
  <2>2. CASE created' = created /\ DOMAIN task' \subseteq DOMAIN task
               /\ \A t \in DOMAIN task' : task'[t] = task[t]
    BY <2>2 DEF TablesOK
  <2>3. ASSUME NEW row, Now(r).do = "insertTask", created < MaxTasks,
               created' = created + 1,
               row = [pre |-> Now(r).pre, submit |-> web[r].user,
                      prev |-> IF Now(r).linked THEN web[r].task ELSE 0],
               task' = Row(task, created', row), web[r].todo # <<>>
        PROVE  /\ created' \in 0 .. MaxTasks /\ created <= created'
               /\ DOMAIN task' \subseteq 1 .. created'
               /\ \A t \in DOMAIN task' :
                    task'[t] \in [pre : Status, submit : Users, prev : 0 .. (t - 1)]
    <3>1. /\ Now(r).pre \in Status /\ web[r].user \in Users
          /\ web[r].task \in 0 .. created
      BY <2>3, Running, Parameters
    <3>2. row \in [pre : Status, submit : Users, prev : 0 .. (created' - 1)]
      <4>1. (IF Now(r).linked THEN web[r].task ELSE 0) \in 0 .. (created' - 1)
        BY <1>4, <2>3, <3>1
      <4>. QED BY <2>3, <3>1, <4>1
    <3>3. /\ DOMAIN task' = DOMAIN task \union {created'} /\ task'[created'] = row
          /\ \A t \in DOMAIN task : task'[t] = task[t] /\ t # created'
      BY <2>3, InsertKept
    <3>4. created' \in 0 .. MaxTasks /\ created <= created'
      BY <1>4, <2>3
    <3>5. DOMAIN task' \subseteq 1 .. created'
      BY <1>4, <2>3, <3>3 DEF TablesOK
    <3>6. ASSUME NEW t \in DOMAIN task'
          PROVE  task'[t] \in [pre : Status, submit : Users, prev : 0 .. (t - 1)]
      <4>1. CASE t = created'
        BY <3>2, <3>3, <4>1
      <4>2. CASE t # created'
        BY <3>3, <4>2 DEF TablesOK
      <4>. QED BY <4>1, <4>2
    <3>. QED BY <3>4, <3>5, <3>6
  <2>4. web[r].todo # <<>>
    BY StatementRuns
  <2>. QED BY <1>1, <2>1, <2>2, <2>3, <2>4 DEF TasksChange
<1>6. /\ DOMAIN detail' \subseteq (1 .. created') \X (Users \union {NoUser})
      /\ \A k \in DOMAIN detail' :
           detail'[k] \in [valid : BOOLEAN, after : Status \union {"none"}]
  <2>0. /\ DOMAIN detail \subseteq (1 .. created') \X (Users \union {NoUser})
        /\ \A k \in DOMAIN detail :
             detail[k] \in [valid : BOOLEAN, after : Status \union {"none"}]
    BY <1>4, <1>5 DEF TablesOK
  <2>1. ASSUME NEW u \in Users \union {NoUser}, Now(r).do \in Inserts, InsertDetail(r, u)
        PROVE  /\ DOMAIN detail' \subseteq (1 .. created') \X (Users \union {NoUser})
               /\ \A k \in DOMAIN detail' :
                    detail'[k] \in [valid : BOOLEAN, after : Status \union {"none"}]
    <3>1. web[r].todo # <<>>
      BY StatementRuns
    <3>2. web[r].made \in 1 .. created
      BY <2>1, <3>1, Running DEF HeadOK
    <3>3. web[r].made \in 1 .. created'
      BY <1>4, <1>5, <3>2
    <3>4. /\ DOMAIN detail' = DOMAIN detail \union {<<web[r].made, u>>}
          /\ detail'[<<web[r].made, u>>] = [valid |-> TRUE, after |-> "none"]
          /\ \A k \in DOMAIN detail : k # <<web[r].made, u>> => detail'[k] = detail[k]
      BY <2>1, InsertDetailOK
    <3>5. <<web[r].made, u>> \in (1 .. created') \X (Users \union {NoUser})
      BY <2>1, <3>3
    <3>6. [valid |-> TRUE, after |-> "none"] \in
            [valid : BOOLEAN, after : Status \union {"none"}]
      OBVIOUS
    <3>7. DOMAIN detail' \subseteq (1 .. created') \X (Users \union {NoUser})
      BY <2>0, <3>4, <3>5
    <3>8. ASSUME NEW k \in DOMAIN detail'
          PROVE  detail'[k] \in [valid : BOOLEAN, after : Status \union {"none"}]
      <4>1. CASE k = <<web[r].made, u>>
        BY <3>4, <3>6, <4>1
      <4>2. CASE k # <<web[r].made, u>>
        <5>1. k \in DOMAIN detail /\ detail'[k] = detail[k]
          BY <3>4, <4>2
        <5>. QED BY <2>0, <5>1
      <4>. QED BY <4>1, <4>2
    <3>. QED BY <3>7, <3>8
  <2>2. CASE DOMAIN detail' = DOMAIN detail /\ \A k \in DOMAIN detail :
               detail'[k] \in [valid : BOOLEAN, after : Status \union {"none"}]
    BY <2>0, <2>2
  <2>3. CASE DOMAIN detail' \subseteq DOMAIN detail /\ \A k \in DOMAIN detail' :
               detail'[k] = detail[k]
    BY <2>0, <2>3
  <2>. QED BY <1>1, <2>1, <2>2, <2>3 DEF DetailsChange
<1>. QED BY <1>2, <1>3, <1>5, <1>6 DEF TablesOK
------------------------------------------------------------------------------
(* The rework goes back, and none is lost *)

\* A detail inserted for a rework task is for the one it goes back to.
LEMMA ReworkStep ==
  ASSUME WorkflowAssumption, TablesOK, WebOK, ReworkGoesBack, NEW r \in Requests,
         Statement(r)
  PROVE  ReworkGoesBack'
<1>1. DetailsChange(r) /\ TasksChange(r) /\ web[r].todo # <<>>
  BY DetailSteps, TaskSteps, StatementRuns
<1>2. /\ created \in Nat /\ DOMAIN task \subseteq 1 .. created
      /\ \A k \in DOMAIN detail : k[1] \in 1 .. created
      /\ \A t \in DOMAIN task : task[t].prev \in 0 .. (t - 1)
  BY DEF TablesOK
<1>3. SUFFICES ASSUME NEW k \in DOMAIN detail', k[1] \in DOMAIN task',
                      task'[k[1]].pre = "ROLLBACK",
                      task'[k[1]].prev \in DOMAIN task',
                      task'[task'[k[1]].prev].pre = "UNAUDIT"
               PROVE  k[2] = task'[task'[k[1]].prev].submit
  BY DEF ReworkGoesBack
<1>4. ASSUME k \in DOMAIN detail, k[1] \in DOMAIN task, task'[k[1]] = task[k[1]],
             task[k[1]].prev \in DOMAIN task,
             task'[task[k[1]].prev] = task[task[k[1]].prev]
      PROVE  k[2] = task'[task'[k[1]].prev].submit
  BY <1>3, <1>4 DEF ReworkGoesBack
<1>5. CASE detail' = detail
  <2>1. k \in DOMAIN detail /\ k[1] \in 1 .. created
    BY <1>2, <1>5
  <2>2. CASE UNCHANGED <<task, created>>
    BY <1>3, <1>4, <2>1, <2>2
  <2>3. CASE DOMAIN task' \subseteq DOMAIN task /\ \A t \in DOMAIN task' : task'[t] = task[t]
    BY <1>3, <1>4, <2>1, <2>3
  <2>4. ASSUME NEW row, created' = created + 1, task' = Row(task, created', row)
        PROVE  k[2] = task'[task'[k[1]].prev].submit
    <3>1. /\ DOMAIN task' = DOMAIN task \union {created'}
          /\ \A t \in DOMAIN task : task'[t] = task[t] /\ t # created'
      BY <2>4, InsertKept
    <3>2. k[1] # created'
      BY <1>2, <2>1, <2>4
    <3>3. k[1] \in DOMAIN task /\ task'[k[1]] = task[k[1]]
      BY <1>3, <3>1, <3>2
    <3>4. task[k[1]].prev # created'
      BY <1>2, <2>1, <2>4, <3>3
    <3>5. task[k[1]].prev \in DOMAIN task /\ task'[task[k[1]].prev] = task[task[k[1]].prev]
      BY <1>3, <3>1, <3>3, <3>4
    <3>. QED BY <1>4, <2>1, <3>3, <3>5
  <2>. QED BY <1>1, <2>2, <2>3, <2>4 DEF TasksChange
<1>6. CASE task' = task /\ DOMAIN detail' \subseteq DOMAIN detail
  BY <1>3, <1>4, <1>6
<1>7. ASSUME task' = task, NEW u \in Users \union {NoUser},
             Now(r).do \in Inserts, InsertDetail(r, u),
             Now(r).do = "insertRework" =>
               web[r].task \in DOMAIN task /\ u = task[web[r].task].submit
      PROVE  k[2] = task'[task'[k[1]].prev].submit
  <2>1. DOMAIN detail' = DOMAIN detail \union {<<web[r].made, u>>}
    BY <1>7, InsertDetailOK
  <2>2. CASE k \in DOMAIN detail
    BY <1>3, <1>4, <1>7, <2>2
  <2>3. CASE k = <<web[r].made, u>>
    <3>1. HeadOK(web[r], Now(r), task, created) /\ Now(r).do \in Kinds(web[r].todo)
      BY <1>1, Running
    <3>2. k[1] = web[r].made /\ k[2] = u
      BY <2>3
    <3>3. CASE Now(r).do = "insertDetails"
      BY <1>3, <1>7, <3>1, <3>2, <3>3 DEF HeadOK
    <3>4. CASE Now(r).do = "insertRework"
      BY <1>3, <1>7, <3>1, <3>2, <3>4 DEF HeadOK
    <3>5. CASE Now(r).do = "insertExecuter"
      <4>1. task[web[r].made].prev = web[r].task
        BY <1>3, <1>7, <3>1, <3>2, <3>5 DEF HeadOK
      <4>2. web[r].task \in DOMAIN task => task[web[r].task].pre = "PREPUBLISH"
        BY <3>1, <3>5 DEF WebOK, RequestOK
      <4>. QED BY <1>3, <1>7, <3>2, <4>1, <4>2
    <3>. QED BY <1>7, <3>3, <3>4, <3>5 DEF Inserts
  <2>. QED BY <2>1, <2>2, <2>3
<1>8. CASE task' = task
  BY <1>1, <1>6, <1>7, <1>8 DEF DetailsChange
<1>. QED BY <1>1, <1>5, <1>8 DEF TasksChange

\* One request at a time changes.
LEMMA OneWrites ==
  ASSUME NEW r, Statement(r) \/ Throw(r) \/ \E u \in Users : Page(r, u)
  PROVE  \E x : web' = [web EXCEPT ![r] = x]
<1>1. ASSUME NEW v, Continue(r, v)
      PROVE  \E x : web' = [web EXCEPT ![r] = x]
  BY <1>1 DEF Continue
<1>2. CASE RunCheck(r)
  <2>. DEFINE rest == Tail(web[r].todo)
              skipped == SubSeq(rest, Now(r).skip + 1, Len(rest))
              left == IF CanTransition(Now(r).dest) THEN rest ELSE skipped
  <2>1. web' = [web EXCEPT ![r] = IF left = <<>> THEN Idle ELSE [@ EXCEPT !.todo = left]]
    BY <1>2 DEF RunCheck
  <2>. HIDE DEF left
  <2>2. web' = [web EXCEPT ![r] = IF left = <<>> THEN Idle
                                  ELSE [web[r] EXCEPT !.todo = left]]
    BY <2>1
  <2>. QED BY <2>2
<1>3. CASE RunInsertDetails(r)
  <2>1. \/ Proceed(r)
        \/ \E t : web' = [web EXCEPT ![r].todo = t]
    BY <1>3 DEF RunInsertDetails
  <2>2. ASSUME NEW t, web' = [web EXCEPT ![r].todo = t]
        PROVE  \E x : web' = [web EXCEPT ![r] = x]
    <3>1. web' = [web EXCEPT ![r] = [web[r] EXCEPT !.todo = t]]
      BY <2>2
    <3>. QED BY <3>1
  <2>. QED BY <1>1, <2>1, <2>2 DEF Proceed
<1>4. CASE \E u \in Users : Page(r, u)
  <2>1. \E u, t, s : Submit(r, u, t, s)
    BY <1>4 DEF Page, SendForAudit, SubmitForPublish, AuditFromMenu, WithdrawDelivery,
       Publish, WithdrawPublished, Archive, RestoreArchived, Recycle, RecoverRecycled,
       Resend, AuditListed, AuditAndSend, AuditAndSubmit, AuditAndPublish,
       WithdrawFromPublishing, PublishListed
  <2>. QED BY <2>1 DEF Submit
<1>5. CASE Throw(r)
  BY <1>1, <1>5 DEF Throw
<1>6. CASE RunFindTask(r) \/ RunFindExecuter(r) \/ RunReadStatus(r) \/ RunInsertTask(r)
             \/ RunPickDelivery(r)
  BY <1>1, <1>6 DEF RunFindTask, RunFindExecuter, RunReadStatus, RunInsertTask,
     RunPickDelivery
<1>7. CASE RunSetStatus(r) \/ RunInsertRework(r) \/ RunInsertExecuter(r) \/ RunComplete(r)
             \/ RunInvalidate(r) \/ RunDeleteDetails(r) \/ RunDeleteTask(r)
             \/ RunEndPublish(r) \/ RunGarbage(r) \/ RunRecover(r)
  BY <1>1, <1>7 DEF Proceed, RunSetStatus, RunInsertRework, RunInsertExecuter, RunComplete,
     RunInvalidate, RunDeleteDetails, RunDeleteTask, RunEndPublish, RunGarbage, RunRecover
<1>. QED BY <1>2, <1>3, <1>4, <1>5, <1>6, <1>7 DEF Statement

\* These statements leave the local variables alone.
LEMMA Proceeds ==
  ASSUME NEW r, Statement(r), Now(r).do \in {"complete", "invalidate", "setStatus"}
  PROVE  Proceed(r)
  BY DEF Statement, RunCheck, RunFindTask, RunFindExecuter, RunReadStatus, RunSetStatus,
     RunInsertTask, RunInsertDetails, RunInsertRework, RunInsertExecuter, RunComplete,
     RunInvalidate, RunPickDelivery, RunDeleteDetails, RunDeleteTask, RunEndPublish,
     RunGarbage, RunRecover, Runs, Now

\* A request that goes on still has ahead what lay behind its statement.
LEMMA AheadAfter ==
  ASSUME WebOK, NEW r \in Requests, web[r].todo # <<>>, Proceed(r), NEW B, NEW T,
         Ahead(web[r].todo, 2, B, T)
  PROVE  web'[r].task = web[r].task /\ Ahead(web'[r].todo, 1, B, T)
<1>. DEFINE s == web[r].todo
            t == Tail(s)
<1>1. s \in Seq(Statements) /\ web[r] \in Locals
  BY DEF WebOK, RequestOK, Rules
<1>2. Suffix(s, 1, t) /\ (t = <<>> <=> Len(s) = 1) /\ Len(s) \in Nat
  BY <1>1, TailIsSuffix
<1>3. Len(s) # 1
  BY <1>2 DEF Ahead
<1>. HIDE DEF t
<1>4. Ahead(s, 1 + 1, B, T) /\ 1 \in Nat /\ 1 \in Nat \ {0}
  OBVIOUS
<1>5. Ahead(t, 1, B, T)
  BY <1>1, <1>2, <1>4, AheadInSuffix
<1>6. web' = [web EXCEPT ![r] = [web[r] EXCEPT !.todo = t]]
  BY <1>2, <1>3 DEF Proceed, Continue, t
<1>7. web'[r] = [web[r] EXCEPT !.todo = t]
  BY <1>6 DEF WebOK
<1>8. web'[r].todo = t /\ web'[r].task = web[r].task
  BY <1>1, <1>7 DEF Locals
<1>. QED BY <1>5, <1>8

\* A rejection has its rework task, or the request that rejects inserts it.
LEMMA RejectionsStep ==
  ASSUME WorkflowAssumption, TablesOK, WebOK, Rejections, NEW r \in Requests,
         Statement(r), faults = 0,
         NEW k \in DOMAIN detail', k[1] \in DOMAIN task', detail'[k].after = "ROLLBACK"
  PROVE  Reworked(k[1])' \/ Owing(k[1])'
<1>1. DetailsChange(r) /\ TasksChange(r) /\ web[r].todo # <<>>
  BY DetailSteps, TaskSteps, StatementRuns
<1>2. /\ Now(r) \in Statements /\ web[r].todo \in Seq(Statements)
      /\ Follows(web[r].todo, 1) /\ web[r].todo[1] = Now(r)
  BY <1>1, Running DEF Rules
<1>3. ASSUME Now(r) = Complete("ROLLBACK"), k[1] = web[r].task
      PROVE  Owing(k[1])'
  <2>1. Now(r).do = "complete" /\ Now(r).after = "ROLLBACK"
    BY <1>3 DEF Complete
  <2>2. OwesAt(web[r].todo, 1 + 1)
    BY <1>2, <2>1 DEF Follows
  <2>3. Proceed(r)
    BY <2>1, Proceeds
  <2>4. web'[r].task = web[r].task /\ OwesAt(web'[r].todo, 1)
    BY <1>1, <2>2, <2>3, AheadAfter DEF OwesAt
  <2>. QED BY <1>3, <2>4 DEF Owing
<1>4. \/ Now(r) = Complete("ROLLBACK") /\ k[1] = web[r].task
      \/ k \in DOMAIN detail /\ detail[k].after = "ROLLBACK"
  <2>1. ASSUME NEW u \in Users \union {NoUser}, InsertDetail(r, u)
        PROVE  k \in DOMAIN detail /\ detail[k].after = "ROLLBACK"
    <3>1. /\ DOMAIN detail' = DOMAIN detail \union {<<web[r].made, u>>}
          /\ detail'[<<web[r].made, u>>] = [valid |-> TRUE, after |-> "none"]
          /\ \A j \in DOMAIN detail : j # <<web[r].made, u>> => detail'[j] = detail[j]
      BY <2>1, InsertDetailOK
    <3>2. k # <<web[r].made, u>>
      BY <3>1
    <3>. QED BY <3>1, <3>2
  <2>. QED BY <1>1, <2>1 DEF DetailsChange
<1>5. ASSUME k \in DOMAIN detail, detail[k].after = "ROLLBACK"
      PROVE  Reworked(k[1])' \/ Owing(k[1])'
  <2>1. /\ created \in Nat /\ k[1] \in 1 .. created
        /\ \A t \in DOMAIN task : task[t].pre \in Status
    BY <1>5 DEF TablesOK
  <2>2. k[1] \in DOMAIN task
    <3>1. ASSUME NEW row, created' = created + 1, task' = Row(task, created', row)
          PROVE  k[1] \in DOMAIN task
      BY <2>1, <3>1, InsertKept
    <3>. QED BY <1>1, <3>1 DEF TasksChange
  <2>3. Reworked(k[1]) \/ Owing(k[1])
    BY <1>5, <2>2 DEF Rejections
  <2>4. CASE Reworked(k[1])
    <3>1. PICK n \in DOMAIN task : task[n].prev = k[1] /\ task[n].pre = "ROLLBACK"
      BY <2>4 DEF Reworked
    <3>2. n \in DOMAIN task' /\ task'[n] = task[n]
      <4>1. ASSUME NEW row, created' = created + 1, task' = Row(task, created', row)
            PROVE  n \in DOMAIN task' /\ task'[n] = task[n]
        BY <4>1, InsertKept
      <4>. QED BY <1>1, <3>1, <4>1 DEF TasksChange
    <3>. QED BY <3>1, <3>2 DEF Reworked
  <2>5. CASE Owing(k[1])
    <3>1. PICK q \in Requests : web[q].task = k[1] /\ OwesAt(web[q].todo, 1)
      BY <2>5 DEF Owing
    <3>2. CASE q # r
      <4>1. web'[q] = web[q]
        BY <3>2, OneWrites DEF WebOK
      <4>. QED BY <3>1, <4>1 DEF Owing
    <3>3. CASE q = r /\ Now(r) \in Reworks
      <4>1. /\ Now(r).do = "insertTask" /\ Now(r).pre = "ROLLBACK" /\ Now(r).linked
        BY <3>3 DEF Reworks, InsertTask
      <4>2. /\ created' = created + 1
            /\ task' = Row(task, created',
                           [pre |-> Now(r).pre, submit |-> web[r].user,
                            prev |-> IF Now(r).linked THEN web[r].task ELSE 0])
        <5>1. RunInsertTask(r)
          BY <4>1 DEF Statement, RunCheck, RunFindTask, RunFindExecuter, RunReadStatus,
             RunSetStatus, RunInsertDetails, RunInsertRework, RunInsertExecuter,
             RunComplete, RunInvalidate, RunPickDelivery, RunDeleteDetails, RunDeleteTask,
             RunEndPublish, RunGarbage, RunRecover, Runs, Now
        <5>. QED BY <5>1 DEF RunInsertTask
      <4>. DEFINE row == [pre |-> Now(r).pre, submit |-> web[r].user,
                          prev |-> IF Now(r).linked THEN web[r].task ELSE 0]
      <4>3. row.pre = "ROLLBACK" /\ row.prev = web[r].task
        BY <4>1
      <4>4. created' = created + 1 /\ task' = Row(task, created', row)
        BY <4>2
      <4>. HIDE DEF row
      <4>5. created' \in DOMAIN task' /\ task'[created'] = row
        BY <4>4, InsertKept
      <4>. QED BY <3>1, <3>3, <4>3, <4>5 DEF Reworked
    <3>4. CASE q = r /\ Now(r) \notin Reworks
      <4>1. /\ Now(r).do \in {"invalidate", "setStatus"}
            /\ Ahead(web[r].todo, 1 + 1, {"invalidate", "setStatus"}, Reworks)
        <5>1. Ahead(web[r].todo, 1, {"invalidate", "setStatus"}, Reworks)
          BY <3>1, <3>4 DEF OwesAt
        <5>2. 1 \in Nat \ {0}
          OBVIOUS
        <5>. QED BY <1>2, <3>4, <5>1, <5>2, AheadNext
      <4>2. Proceed(r)
        BY <4>1, Proceeds
      <4>3. web'[r].task = web[r].task /\ OwesAt(web'[r].todo, 1)
        BY <1>1, <4>1, <4>2, AheadAfter DEF OwesAt
      <4>. QED BY <3>1, <3>4, <4>3 DEF Owing
    <3>. QED BY <3>2, <3>3, <3>4
  <2>. QED BY <2>3, <2>4, <2>5
<1>. QED BY <1>3, <1>4, <1>5
------------------------------------------------------------------------------
(* The invariant *)

\* No request, and no detail, to begin with
LEMMA InvInit ==
  ASSUME WorkflowAssumption, Init
  PROVE  WorkflowInv
<1>1. DOMAIN task = {} /\ DOMAIN detail = {}
  BY DEF Init
<1>2. TablesOK
  <2>1. status = "NEW" /\ deleted = FALSE /\ created = 0 /\ faults = 0
    BY DEF Init
  <2>2. status \in Status /\ deleted \in BOOLEAN
    BY <2>1 DEF Status
  <2>3. created \in 0 .. MaxTasks /\ faults \in 0 .. MaxFaults
    BY <2>1 DEF WorkflowAssumption
  <2>. QED BY <1>1, <2>2, <2>3 DEF TablesOK
<1>3. WebOK
  <2>1. Idle \in Locals /\ RequestOK(Idle, task, created)
    BY <1>1, <1>2, IdleOK DEF TablesOK
  <2>2. web = [r \in Requests |-> Idle]
    BY DEF Init
  <2>. QED BY <2>1, <2>2 DEF WebOK
<1>4. ReworkGoesBack /\ Rejections
  BY <1>1 DEF ReworkGoesBack, Rejections
<1>. QED BY <1>2, <1>3, <1>4 DEF WorkflowInv

\* What no statement does leaves rework and rejections alone.
LEMMA OtherInv ==
  ASSUME WorkflowAssumption, WorkflowInv, NEW r \in Requests,
         Throw(r) \/ \E u \in Users : Page(r, u)
  PROVE  TablesOK' /\ ReworkGoesBack' /\ Rejections'
<1>1. /\ UNCHANGED <<tables, created>>
      /\ faults' = faults \/ (faults < MaxFaults /\ faults' = faults + 1)
  BY OtherSteps
<1>2. status' = status /\ deleted' = deleted /\ task' = task /\ detail' = detail
        /\ created' = created
  BY <1>1 DEF tables
<1>3. faults' \in 0 .. MaxFaults
  <2>1. faults \in 0 .. MaxFaults /\ MaxFaults \in Nat
    BY DEF WorkflowInv, TablesOK, WorkflowAssumption
  <2>. QED BY <1>1, <2>1
<1>4. TablesOK'
  BY <1>2, <1>3 DEF WorkflowInv, TablesOK
<1>5. ReworkGoesBack'
  BY <1>2 DEF WorkflowInv, ReworkGoesBack
<1>6. ASSUME faults' = 0, NEW k \in DOMAIN detail', k[1] \in DOMAIN task',
             detail'[k].after = "ROLLBACK"
      PROVE  Reworked(k[1])' \/ Owing(k[1])'
  <2>1. faults = 0 /\ faults' = faults
    BY <1>1, <1>6 DEF WorkflowInv, TablesOK
  <2>2. Reworked(k[1]) \/ Owing(k[1])
    BY <1>2, <1>6, <2>1 DEF WorkflowInv, Rejections
  <2>3. CASE Reworked(k[1])
    BY <1>2, <2>3 DEF Reworked
  <2>4. CASE Owing(k[1])
    <3>1. PICK q \in Requests : web[q].task = k[1] /\ OwesAt(web[q].todo, 1)
      BY <2>4 DEF Owing
    <3>2. ~Throw(r)
      BY <2>1 DEF Throw, WorkflowInv, TablesOK
    <3>3. \E u, t, s : Submit(r, u, t, s)
      BY <3>2 DEF Page, SendForAudit, SubmitForPublish, AuditFromMenu, WithdrawDelivery,
         Publish, WithdrawPublished, Archive, RestoreArchived, Recycle, RecoverRecycled,
         Resend, AuditListed, AuditAndSend, AuditAndSubmit, AuditAndPublish,
         WithdrawFromPublishing, PublishListed
    <3>4. web[r].todo = <<>>
      BY <3>3 DEF Submit, Idle
    <3>5. ~OwesAt(<<>>, 1)
      BY EmptySeq DEF OwesAt, Ahead
    <3>6. q # r
      BY <3>1, <3>4, <3>5
    <3>7. web'[q] = web[q]
      BY <3>6, OneWrites DEF WorkflowInv, WebOK
    <3>. QED BY <3>1, <3>7 DEF Owing
  <2>. QED BY <2>2, <2>3, <2>4
<1>. QED BY <1>4, <1>5, <1>6 DEF Rejections

\* Every step keeps the invariant.
LEMMA InvStep ==
  ASSUME WorkflowAssumption, WorkflowInv, [Next]_vars
  PROVE  WorkflowInv'
<1>1. CASE UNCHANGED vars
  <2>1. /\ status' = status /\ deleted' = deleted /\ task' = task /\ detail' = detail
        /\ created' = created /\ web' = web /\ faults' = faults
    BY <1>1 DEF vars
  <2>2. TablesOK'
    BY <2>1 DEF WorkflowInv, TablesOK
  <2>3. WebOK'
    BY <2>1 DEF WorkflowInv, WebOK
  <2>4. ReworkGoesBack'
    BY <2>1 DEF WorkflowInv, ReworkGoesBack
  <2>5. Rejections'
    BY <2>1 DEF WorkflowInv, Rejections, Reworked, Owing
  <2>. QED BY <2>2, <2>3, <2>4, <2>5 DEF WorkflowInv
<1>2. ASSUME NEW r \in Requests, Statement(r)
      PROVE  WorkflowInv'
  <2>1. WebOK'
    BY <1>2, WebStep DEF WorkflowInv
  <2>2. TablesOK'
    BY <1>2, TablesStep DEF WorkflowInv
  <2>3. ReworkGoesBack'
    BY <1>2, ReworkStep DEF WorkflowInv
  <2>4. faults' = faults
    BY <1>2, FaultSteps
  <2>5. Rejections'
    BY <1>2, <2>4, RejectionsStep DEF WorkflowInv, Rejections
  <2>. QED BY <2>1, <2>2, <2>3, <2>5 DEF WorkflowInv
<1>3. ASSUME NEW r \in Requests, Throw(r) \/ \E u \in Users : Page(r, u)
      PROVE  WorkflowInv'
  <2>1. WebOK'
    BY <1>3, WebStep DEF WorkflowInv
  <2>. QED BY <1>3, <2>1, OtherInv DEF WorkflowInv
<1>. QED BY <1>1, <1>2, <1>3 DEF Next

\* The invariant holds in every reachable state.
THEOREM WorkflowInvariant ==
  ASSUME WorkflowAssumption
  PROVE  Spec => []WorkflowInv
<1>1. Init => WorkflowInv
  BY InvInit
<1>2. WorkflowInv /\ [Next]_vars => WorkflowInv'
  BY InvStep
<1>. QED BY <1>1, <1>2, PTL DEF Spec

\* The tables and the requests have their types, for every flow and whatever
\* statements of other requests run in between, throw or are not run.
THEOREM WorkflowTypeCorrect ==
  ASSUME WorkflowAssumption
  PROVE  Spec => []WorkflowTypeOK
<1>1. WorkflowInv => WorkflowTypeOK
  <2>1. ASSUME WebOK, NEW r \in Requests
        PROVE  /\ web[r].user \in Users \union {NoUser}
               /\ web[r].task \in 0 .. created
               /\ web[r].made \in 0 .. created
               /\ web[r].executer \in Users \union {NoUser}
               /\ web[r].read \in Status \union {"none"}
    BY <2>1 DEF WebOK, RequestOK, Locals
  <2>. QED BY <2>1 DEF WorkflowInv, TablesOK, WorkflowTypeOK
<1>. QED BY <1>1, WorkflowInvariant, PTL

\* The rework after a rejected audit is for who sent the document for that
\* audit, for any number of requests at once and whatever throws: the handler of
\* audit reads the sender from the task it was given, and no other request can
\* give that task, or the one it has just inserted, another meaning.
THEOREM ReworkGoesBackAlways ==
  ASSUME WorkflowAssumption
  PROVE  Spec => []ReworkGoesBack
<1>1. WorkflowInv => ReworkGoesBack
  BY DEF WorkflowInv
<1>. QED BY <1>1, WorkflowInvariant, PTL

\* A rejection is never lost when no statement throws: whatever other requests
\* do meanwhile, the request that completes a task with ROLLBACK comes to insert
\* the rework task, and no request deletes one.
THEOREM RejectionNeverLost ==
  ASSUME WorkflowAssumption
  PROVE  Spec => []RejectedHasRework
<1>1. ASSUME WorkflowInv
      PROVE  RejectedHasRework
  <2>1. SUFFICES ASSUME Settled, NEW k \in DOMAIN detail, k[1] \in DOMAIN task,
                        detail[k].after = "ROLLBACK"
                 PROVE  Reworked(k[1])
    BY DEF RejectedHasRework, Reworked
  <2>2. Reworked(k[1]) \/ Owing(k[1])
    BY <1>1, <2>1 DEF WorkflowInv, Rejections, Settled
  <2>3. ~OwesAt(<<>>, 1)
    BY EmptySeq DEF OwesAt, Ahead
  <2>4. ~Owing(k[1])
    BY <2>1, <2>3 DEF Owing, Settled, Idle
  <2>. QED BY <2>2, <2>4
<1>. QED BY <1>1, WorkflowInvariant, PTL
==============================================================================
