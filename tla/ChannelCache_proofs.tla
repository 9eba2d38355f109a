------------------------- MODULE ChannelCache_proofs -------------------------
(***************************************************************************)
(* Proofs about ChannelCache: types for every constant, and, where a cache *)
(* is loaded anew only while no other request is under way, that the       *)
(* site's cache has every channel of the table, that deleted channels it   *)
(* still finds hang below deleted ones, and that its readers never go      *)
(* back.                                                                   *)
(***************************************************************************)
EXTENDS ChannelCache, TLAPS

\* The site's cache: the channel it finds by its id, and the requests it has not heard of.
Cached(c) == channelMap[latest][c]
Waiting(a) == latest \in Untold(a)
Pending(op, c) == \E a \in Admins : task[a].op = op /\ task[a].channel = c /\ Waiting(a)

\* What a request knows by its next step.
TaskShape ==
  \A a \in Admins :
    /\ task[a].op \in {"added", "save", "updated", "remove", "removed", "relocate", "moved"}
         => task[a].channel \in Channels
    /\ task[a].op \in {"insert", "added", "save", "updated", "remove", "removed", "relocate"}
         => task[a].parent \in Nodes
    /\ task[a].op = "added" => task[a].rev \in Revisions
    /\ task[a].op \notin {"added", "updated", "removed"} => task[a].telling = {}
    /\ task[a].telling \subseteq 1..latest

\* A cache has its own list for a channel or that of the event's object, and what was not
\* made is empty.
CacheShape ==
  /\ \A k \in Caches, c \in Channels : channelMap[k][c] # None => channelMap[k][c].id = c
  /\ \A k \in Caches, n \in Nodes : holder[k][n] \in {k, Event}
  /\ \A h \in Holders, n \in Nodes : <<h, n>> \notin made => subchnls[h][n] = {}

\* A channel's id, once taken, stays taken, and only taken ids are parents.
IdsTaken ==
  /\ \A c \in Channels : row[c] # None => c \in created /\ row[c].parent \in created \union {Root}
  /\ \A k \in Caches, c \in Channels : channelMap[k][c] # None =>
       c \in created /\ channelMap[k][c].parent \in created \union {Root}
  /\ \A a \in Admins :
       /\ task[a].op = "insert" => task[a].parent \in created \union {Root}
       /\ task[a].op \in {"added", "save", "updated", "remove", "removed"}
            => task[a].channel \in created
       /\ task[a].op \in {"added", "save", "updated"}
            => task[a].parent \in created \union {Root}

\* Only one request reloads, and then no other is under way.
Alone ==
  /\ \A a, b \in Admins : a # b /\ task[a].op \in ReloadSteps => task[b] = NoTask
  /\ \A a \in Admins :
       /\ task[a].op = "moved" => row[task[a].channel] # None
       /\ task[a].op = "load" <=> loader = a

Renewing == \E a \in Admins : task[a].op \in {"moved", "load"}

\* What the handlers still to run in the site's cache know of their channels.
Adding(a) ==
  LET c == task[a].channel
      p == task[a].parent
  IN  task[a].op = "added" /\ Waiting(a) =>
        /\ Cached(c) = None
        /\ row[c] # None => row[c] = [parent |-> p, rev |-> task[a].rev]
        /\ row[c] = None => ~InTable(p)
        /\ \A d \in Channels : row[d] # None => row[d].parent # c
        /\ \A d \in Channels : Cached(d) # None => Cached(d).parent # c
        /\ \A b \in Admins : task[b].op \in {"insert", "added"} => task[b].parent # c
        /\ \A b \in Admins \ {a} :
             task[b].op \in {"added", "save", "updated", "remove", "removed"}
               => task[b].channel # c

Editing(a) ==
  LET c == task[a].channel IN
  task[a].op \in {"save", "updated"} => (row[c] # None => row[c].parent = task[a].parent)

Removing(a) ==
  LET c == task[a].channel
  IN  /\ task[a].op \in {"remove", "removed"} =>
           (Cached(c) # None => Cached(c).parent = task[a].parent)
      /\ task[a].op = "remove" => c \notin Below(c)
      /\ task[a].op = "removed" => row[c] = None

Handlers == \A a \in Admins : Adding(a) /\ Editing(a) /\ Removing(a)

\* The list that an entry of the channel is in, up to date or about to be.
InList(c, n) ==
  \E e \in List(latest, n) : e.object.id = c /\ (UpToDate(e.object) \/ Pending("updated", c))

\* How the site's cache may differ from the table while handlers are still to run.
Follows(c) ==
  /\ Cached(c) # None =>
       /\ row[c] # None => /\ Cached(c).parent = row[c].parent
                           /\ UpToDate(Cached(c)) \/ Pending("updated", c)
                           /\ c \notin Below(c)
       /\ row[c] = None => ~InTable(Cached(c).parent) \/ Pending("removed", c)
       /\ InTable(Cached(c).parent) => InCache(latest, Cached(c).parent)
       /\ InCache(latest, Cached(c).parent) =>
            /\ HasList(latest, Cached(c).parent)
            /\ row[c] # None => InList(c, Cached(c).parent)
  /\ row[c] # None /\ InTable(row[c].parent) /\ InCache(latest, row[c].parent)
       => Cached(c) # None \/ Pending("added", c)

InStep == Handlers /\ \A c \in Channels : Follows(c)

\* The caches that are not listening yet are empty, but for the one that is being loaded.
Unused ==
  /\ \A k \in Caches : k > latest => \A n \in Nodes : holder[k][n] = k
  /\ \A k \in Caches : k > latest + 1 \/ (k > latest /\ loader = None) =>
       /\ \A c \in Channels : channelMap[k][c] = None
       /\ \A n \in Nodes : <<k, n>> \notin made

\* The cache that is being loaded.
Fresh(c) == channelMap[latest + 1][c]

Complete(n) ==
  \A c \in SubChannels(n) :
    /\ Fresh(c) # None
    /\ <<latest + 1, n>> \in made
    /\ \E e \in subchnls[latest + 1][n] : e.object.id = c /\ UpToDate(e.object)

Filling ==
  /\ \A n \in frontier : InCache(latest + 1, n)
  /\ \A c \in Channels : Fresh(c) # None =>
       /\ UpToDate(Fresh(c))
       /\ InCache(latest + 1, row[c].parent)
       /\ c \in Below(Root)
  /\ \A n \in Nodes \ frontier : InCache(latest + 1, n) => Complete(n)

\* The cache is never ahead of the table.
NotAhead ==
  latest \in Caches =>
    \A c \in Channels : Cached(c) # None /\ row[c] # None => Cached(c).rev <= row[c].rev

TypesInv == ChannelTypeOK /\ TaskShape /\ CacheShape
RequestsInv == TypesInv /\ IdsTaken /\ Alone /\ Unused

CacheInv ==
  /\ RequestsInv
  /\ NotAhead
  /\ ~Renewing => InStep
  /\ loader # None => Filling
-----------------------------------------------------------------------------
(* Types *)

\* The bounds are numbers, and there is room for the first cache.
LEMMA Bounds ==
  /\ MaxOperations \in Nat /\ MaxCaches \in Nat /\ 0 < MaxCaches
  /\ 0 \in 0..MaxCaches /\ 0 \in 0..MaxOperations
<1>1. MaxOperations \in Nat /\ MaxCaches \in Nat \ {0} BY ChannelAssumption
<1> QED BY ONLY <1>1

\* What is made of a row is an object of the cache.
LEMMA ObjectType ==
  ASSUME ChannelTypeOK, NEW c \in Channels, row[c] # None, NEW k \in Caches, NEW i \in Nat
  PROVE  /\ row[c] \in Rows
         /\ Object(c, k, i) \in Objects
         /\ Object(c, k, i) # None
         /\ Object(c, k, i).id = c
         /\ Object(c, k, i).parent = row[c].parent
         /\ Object(c, k, i).rev = row[c].rev
         /\ UpToDate(Object(c, k, i))
<1>1. row[c] \in Rows BY DEF ChannelTypeOK
<1>2. Object(c, k, i) \in Objects /\ Object(c, k, i) # None
  BY <1>1, ChannelAssumption DEF Object, Objects, Rows, Holders
<1>3. /\ Object(c, k, i).id = c
      /\ Object(c, k, i).parent = row[c].parent
      /\ Object(c, k, i).rev = row[c].rev
  BY DEF Object
<1> QED BY <1>1, <1>2, <1>3 DEF UpToDate

\* So is what a load makes of it.
LEMMA LoadedType ==
  ASSUME ChannelTypeOK, NEW c \in Channels, row[c] # None, NEW k \in Caches, NEW i \in Nat,
         NEW first \in Channels \union {None}
  PROVE  /\ Loaded(c, first, k, i) \in Objects
         /\ Loaded(c, first, k, i) # None
         /\ Loaded(c, first, k, i).id = c
         /\ Loaded(c, first, k, i).parent = row[c].parent
         /\ Loaded(c, first, k, i).rev = row[c].rev
         /\ UpToDate(Loaded(c, first, k, i))
<1> DEFINE f == IF first = None THEN c ELSE first
           o == [id |-> c, parent |-> row[c].parent, rev |-> row[c].rev, file |-> f,
                 maker |-> k, no |-> i]
<1>1. row[c] \in Rows BY DEF ChannelTypeOK
<1>2. f \in Channels OBVIOUS
<1>3. Loaded(c, first, k, i) = o BY DEF Loaded, Object
<1> HIDE DEF f
<1>4. o \in Objects BY <1>1, <1>2 DEF Objects, Rows, Holders
<1>5. o # None BY <1>4, ChannelAssumption
<1> QED BY <1>1, <1>3, <1>4, <1>5 DEF UpToDate

\* What the steps do to the requests.
LEMMA TaskSteps ==
  ASSUME ChannelTypeOK, NEW a \in Admins, NEW t
  PROVE  /\ task' = [task EXCEPT ![a] = t] =>
              task'[a] = t /\ \A b \in Admins \ {a} : task'[b] = task[b]
         /\ Done(a) => task'[a] = NoTask /\ \A b \in Admins \ {a} : task'[b] = task[b]
  BY DEF ChannelTypeOK, Done

\* A request that goes on changes nothing of its task but the step, and no other task.
LEMMA GoesOn ==
  ASSUME ChannelTypeOK, NEW a \in Admins, NEW op, Go(a, op)
  PROVE  /\ task'[a].op = op
         /\ task'[a].channel = task[a].channel
         /\ task'[a].parent = task[a].parent
         /\ task'[a].rev = task[a].rev
         /\ task'[a].telling = task[a].telling
         /\ \A b \in Admins \ {a} : task'[b] = task[b]
<1>1. task[a] \in Tasks BY DEF ChannelTypeOK
<1>2. task'[a] = [task[a] EXCEPT !.op = op] /\ \A b \in Admins \ {a} : task'[b] = task[b]
  BY DEF ChannelTypeOK, Go
<1> QED BY <1>1, <1>2 DEF Tasks

\* A request that has told a cache has the others still to tell, or is done.
LEMMA Tells ==
  ASSUME ChannelTypeOK, TaskShape, NEW a \in Admins, NEW k \in Untold(a), Told(a, k)
  PROVE  /\ Untold(a) \subseteq 1..latest
         /\ \A b \in Admins \ {a} : task'[b] = task[b]
         /\ \/ task'[a] = NoTask /\ Untold(a) = {k}
            \/ /\ task'[a] \in Tasks
               /\ task'[a].op = task[a].op
               /\ task'[a].channel = task[a].channel
               /\ task'[a].parent = task[a].parent
               /\ task'[a].rev = task[a].rev
               /\ task'[a].telling = Untold(a) \ {k}
               /\ task'[a].telling # {}
<1>1. task[a] \in Tasks /\ latest \in 0..MaxCaches BY DEF ChannelTypeOK
<1>2. Untold(a) \subseteq 1..latest BY DEF Untold, TaskShape
<1>3. 1..latest \subseteq Caches BY <1>1, ChannelAssumption DEF Caches
<1>4. CASE Untold(a) = {k}
  BY <1>2, <1>4, TaskSteps DEF Told
<1>5. CASE Untold(a) # {k}
  <2> DEFINE t == [task[a] EXCEPT !.telling = Untold(a) \ {k}]
  <2>1. task' = [task EXCEPT ![a] = t] BY <1>5 DEF Told
  <2>2. t \in Tasks BY <1>1, <1>2, <1>3 DEF Tasks
  <2>3. /\ t.op = task[a].op /\ t.channel = task[a].channel /\ t.parent = task[a].parent
        /\ t.rev = task[a].rev /\ t.telling = Untold(a) \ {k}
    BY <1>1 DEF Tasks
  <2> HIDE DEF t
  <2>4. Untold(a) \ {k} # {} BY <1>5
  <2>5. task'[a] = t /\ \A b \in Admins \ {a} : task'[b] = task[b] BY <2>1, TaskSteps
  <2> QED BY <1>2, <2>2, <2>3, <2>4, <2>5
<1> QED BY <1>4, <1>5

\* An idle administrator has the empty task.
LEMMA NoTaskType ==
  /\ NoTask \in Tasks
  /\ NoTask.op = "idle"
  /\ NoTask.channel = None
  /\ NoTask.telling = {}
  BY DEF NoTask, Tasks

\* The types hold at first.
LEMMA InitTypes == ChannelInit => TypesInv
<1> SUFFICES ASSUME ChannelInit PROVE TypesInv
  OBVIOUS
<1> USE DEF ChannelInit
<1>1. row \in [Channels -> Rows \union {None}] BY DEF Rows, Revisions
<1>2. [NoTask EXCEPT !.op = "load"] \in Tasks BY DEF NoTask, Tasks, ReloadSteps
<1>3. /\ [NoTask EXCEPT !.op = "load"].op = "load"
      /\ [NoTask EXCEPT !.op = "load"].telling = {}
  BY DEF NoTask
<1>4. task \in [Admins -> Tasks] BY <1>2, NoTaskType
<1>5. loader # None BY ChannelAssumption
<1>6. ChannelTypeOK
  <2>1. created \subseteq Channels OBVIOUS
  <2>2. /\ channelMap \in [Caches -> [Channels -> Objects \union {None}]]
        /\ holder \in [Caches -> [Nodes -> Holders]]
        /\ subchnls \in [Holders -> [Nodes -> SUBSET Entries]]
        /\ made \subseteq Holders \X Nodes
    BY DEF Holders
  <2>0. latest = 0 /\ visible = FALSE /\ operations = 0 OBVIOUS
  <2>3. /\ latest \in 0..MaxCaches /\ visible \in BOOLEAN /\ operations \in 0..MaxOperations
        /\ latest < MaxCaches
    BY ONLY <2>0, Bounds
  <2>4. loader \in Admins /\ frontier \subseteq Nodes /\ ~visible BY DEF Nodes
  <2> QED BY ONLY <1>1, <1>4, <1>5, <2>1, <2>2, <2>3, <2>4 DEF ChannelTypeOK
<1>7. TaskShape BY <1>3, NoTaskType DEF TaskShape
<1>8. CacheShape BY DEF CacheShape, Holders
<1> QED BY <1>6, <1>7, <1>8 DEF TypesInv

\* The object that a creation announces.
Announced(a) ==
  [id |-> task[a].channel, parent |-> task[a].parent, rev |-> task[a].rev,
   file |-> task[a].channel, maker |-> Event, no |-> task[a].no]

LEMMA AnnouncedType ==
  ASSUME ChannelTypeOK, TaskShape, NEW a \in Admins, task[a].op = "added"
  PROVE  /\ Announced(a) \in Objects
         /\ Announced(a) # None
         /\ Announced(a).id = task[a].channel
         /\ Announced(a).parent = task[a].parent
         /\ Announced(a).rev = task[a].rev
<1>1. /\ task[a].channel \in Channels /\ task[a].parent \in Nodes /\ task[a].rev \in Revisions
      /\ task[a].no \in Nat
  BY DEF ChannelTypeOK, TaskShape, Tasks
<1>2. Announced(a) \in Objects BY <1>1 DEF Announced, Objects, Holders
<1>3. Announced(a) # None BY <1>2, ChannelAssumption
<1> QED BY <1>3, <1>2 DEF Announced

\* A cache that takes a new channel keeps its shape.
LEMMA AddTypes ==
  ASSUME TypesInv, NEW a \in Admins, NEW k \in Caches, HandleAdd(a, k)
  PROVE  /\ channelMap' \in [Caches -> [Channels -> Objects \union {None}]]
         /\ holder' \in [Caches -> [Nodes -> Holders]]
         /\ subchnls' \in [Holders -> [Nodes -> SUBSET Entries]]
         /\ made' \subseteq Holders \X Nodes
         /\ CacheShape'
<1>t. ChannelTypeOK /\ TaskShape /\ CacheShape BY DEF TypesInv
<1>1. task[a].op = "added" BY DEF HandleAdd
<1> DEFINE o == Announced(a)
<1>2. o \in Objects /\ o # None /\ o.id = task[a].channel BY <1>1, <1>t, AnnouncedType
<1>3. PICK c, p : c = task[a].channel /\ p = task[a].parent OBVIOUS
<1>4. c \in Channels /\ p \in Nodes BY <1>1, <1>3, <1>t DEF TaskShape
<1>5. CASE UNCHANGED <<channelMap, listVars>> BY <1>5, <1>t DEF ChannelTypeOK, CacheShape, listVars
<1>6. CASE /\ subchnls' = [subchnls EXCEPT ![holder[k][p]][p] =
                               @ \union {[by |-> k, object |-> o]}]
           /\ made' = made \union {<<holder[k][p], p>>}
           /\ channelMap' = [channelMap EXCEPT ![k][c] = o]
           /\ holder' = [holder EXCEPT ![k][c] = Event]
  <2> HIDE DEF o
  <2>1. holder[k][p] \in Holders BY <1>4, <1>t DEF ChannelTypeOK
  <2>2. [by |-> k, object |-> o] \in Entries BY <1>2 DEF Entries
  <2>3. Event \in Holders /\ c \in Nodes BY <1>4 DEF Holders, Nodes
  <2>4. /\ channelMap' \in [Caches -> [Channels -> Objects \union {None}]]
        /\ \A i \in Caches, d \in Channels :
             channelMap'[i][d] = IF i = k /\ d = c THEN o ELSE channelMap[i][d]
    BY <1>6, <1>2, <1>4, <1>t DEF ChannelTypeOK
  <2>5. /\ holder' \in [Caches -> [Nodes -> Holders]]
        /\ \A i \in Caches, n \in Nodes :
             holder'[i][n] = IF i = k /\ n = c THEN Event ELSE holder[i][n]
    BY <1>6, <2>3, <1>t DEF ChannelTypeOK
  <2>6. /\ subchnls' \in [Holders -> [Nodes -> SUBSET Entries]]
        /\ \A h \in Holders, n \in Nodes :
             <<h, n>> # <<holder[k][p], p>> => subchnls'[h][n] = subchnls[h][n]
    BY <1>6, <2>1, <2>2, <1>4, <1>t DEF ChannelTypeOK
  <2>7. made' \subseteq Holders \X Nodes BY <1>6, <2>1, <1>4, <1>t DEF ChannelTypeOK
  <2>8. CacheShape'
    <3>1. \A i \in Caches, d \in Channels : channelMap'[i][d] # None => channelMap'[i][d].id = d
      BY <2>4, <1>2, <1>3, <1>t DEF CacheShape
    <3>2. \A i \in Caches, n \in Nodes : holder'[i][n] \in {i, Event}
      BY <2>5, <1>t DEF CacheShape
    <3>3. \A h \in Holders, n \in Nodes : <<h, n>> \notin made' => subchnls'[h][n] = {}
      BY <1>6, <2>6, <1>t DEF CacheShape
    <3> QED BY <3>1, <3>2, <3>3 DEF CacheShape
  <2> QED BY <2>4, <2>5, <2>6, <2>7, <2>8
<1> QED BY <1>3, <1>5, <1>6 DEF HandleAdd, Announced

\* What replaceSubChannel does to the lists.
LEMMA ReplaceTypes ==
  ASSUME TypesInv, NEW k \in Caches, NEW p \in Nodes, NEW o \in Objects, Replace(k, p, o)
  PROVE  /\ subchnls' \in [Holders -> [Nodes -> SUBSET Entries]]
         /\ holder[k][p] \in Holders
         /\ \A h \in Holders, n \in Nodes :
              \/ subchnls'[h][n] = subchnls[h][n]
              \/ /\ h = holder[k][p] /\ n = p /\ subchnls[h][n] # {}
                 /\ \E e \in EntriesOf(k, p, o.id), f \in Entries :
                      /\ f.by = e.by /\ f.object = o
                      /\ subchnls'[h][n] = (subchnls[h][n] \ {e}) \union {f}
         /\ EntriesOf(k, p, o.id) = {} => subchnls' = subchnls
         /\ EntriesOf(k, p, o.id) # {} =>
              \E e \in EntriesOf(k, p, o.id), f \in Entries :
                /\ f.by = e.by /\ f.object = o
                /\ subchnls'[holder[k][p]][p] = (subchnls[holder[k][p]][p] \ {e}) \union {f}
<1>t. ChannelTypeOK BY DEF TypesInv
<1>1. holder[k][p] \in Holders BY <1>t DEF ChannelTypeOK
<1>2. CASE EntriesOf(k, p, o.id) = {}
  <2>1. subchnls' = subchnls BY <1>2 DEF Replace
  <2> QED BY <2>1, <1>1, <1>2, <1>t DEF ChannelTypeOK
<1>3. CASE EntriesOf(k, p, o.id) # {}
  <2>1. PICK e \in EntriesOf(k, p, o.id) :
          subchnls' = [subchnls EXCEPT ![holder[k][p]][p] =
                         (@ \ {e}) \union {[e EXCEPT !.object = o]}]
    BY <1>3 DEF Replace
  <2>2. e \in subchnls[holder[k][p]][p] BY <2>1 DEF EntriesOf, List
  <2>3. e \in Entries BY <1>1, <2>2, <1>t DEF ChannelTypeOK
  <2> DEFINE f == [e EXCEPT !.object = o]
  <2>4. f \in Entries /\ f.by = e.by /\ f.object = o BY <2>3 DEF Entries
  <2> HIDE DEF f
  <2>5. subchnls' = [subchnls EXCEPT ![holder[k][p]][p] = (@ \ {e}) \union {f}]
    BY <2>1 DEF f
  <2>6. /\ subchnls' \in [Holders -> [Nodes -> SUBSET Entries]]
        /\ \A h \in Holders, n \in Nodes :
             IF h = holder[k][p] /\ n = p
             THEN subchnls'[h][n] = (subchnls[h][n] \ {e}) \union {f}
             ELSE subchnls'[h][n] = subchnls[h][n]
    BY ONLY <2>5, <2>4, <1>1, <1>t, p \in Nodes DEF ChannelTypeOK
  <2> QED BY ONLY <2>1, <2>2, <2>4, <2>6, <1>1, <1>3, p \in Nodes
<1> QED BY <1>2, <1>3

\* So does a cache that takes a changed row.
LEMMA UpdateTypes ==
  ASSUME TypesInv, NEW a \in Admins, NEW k \in Caches, HandleUpdate(a, k)
  PROVE  /\ channelMap' \in [Caches -> [Channels -> Objects \union {None}]]
         /\ holder' \in [Caches -> [Nodes -> Holders]]
         /\ subchnls' \in [Holders -> [Nodes -> SUBSET Entries]]
         /\ made' \subseteq Holders \X Nodes
         /\ CacheShape'
<1>t. ChannelTypeOK /\ TaskShape /\ CacheShape BY DEF TypesInv
<1>3. PICK c, p : c = task[a].channel /\ p = task[a].parent OBVIOUS
<1>4. c \in Channels /\ p \in Nodes BY <1>3, <1>t DEF TaskShape, HandleUpdate
<1>5. CASE UNCHANGED <<channelMap, listVars>> BY <1>5, <1>t DEF ChannelTypeOK, CacheShape, listVars
<1>6. CASE ~UNCHANGED <<channelMap, listVars>>
  <2> DEFINE o == Object(c, k, task[a].no)
  <2>1. /\ row[c] # None
        /\ channelMap' = [channelMap EXCEPT ![k][c] = o]
        /\ holder' = [holder EXCEPT ![k][c] = IF HasList(k, c) THEN @ ELSE k]
        /\ Replace(k, p, o)
        /\ made' = made
    BY <1>3, <1>6 DEF HandleUpdate
  <2>2. task[a].no \in Nat BY <1>t DEF ChannelTypeOK, Tasks
  <2>3. o \in Objects /\ o # None /\ o.id = c BY <2>1, <2>2, <1>4, <1>t, ObjectType
  <2> HIDE DEF o
  <2>4. /\ channelMap' \in [Caches -> [Channels -> Objects \union {None}]]
        /\ \A i \in Caches, d \in Channels :
             channelMap'[i][d] = IF i = k /\ d = c THEN o ELSE channelMap[i][d]
    BY <2>1, <2>3, <1>4, <1>t DEF ChannelTypeOK
  <2>5. k \in Holders /\ c \in Nodes BY <1>4 DEF Holders, Nodes
  <2>6. /\ holder' \in [Caches -> [Nodes -> Holders]]
        /\ \A i \in Caches, n \in Nodes :
             holder'[i][n] = holder[i][n] \/ (i = k /\ holder'[i][n] = k)
    BY <2>1, <2>5, <1>t DEF ChannelTypeOK
  <2>7. /\ subchnls' \in [Holders -> [Nodes -> SUBSET Entries]]
        /\ \A h \in Holders, n \in Nodes : subchnls[h][n] = {} => subchnls'[h][n] = {}
    BY ONLY <2>1, <2>3, <1>4, ReplaceTypes, TypesInv, k \in Caches
  <2>8. CacheShape'
    <3>1. \A i \in Caches, d \in Channels : channelMap'[i][d] # None => channelMap'[i][d].id = d
      BY <2>4, <2>3, <1>t DEF CacheShape
    <3>2. \A i \in Caches, n \in Nodes : holder'[i][n] \in {i, Event}
      BY <2>6, <1>t DEF CacheShape
    <3>3. \A h \in Holders, n \in Nodes : <<h, n>> \notin made' => subchnls'[h][n] = {}
      BY <2>1, <2>7, <1>t DEF CacheShape
    <3> QED BY <3>1, <3>2, <3>3 DEF CacheShape
  <2> QED BY <2>1, <2>4, <2>6, <2>7, <2>8, <1>t DEF ChannelTypeOK
<1> QED BY <1>5, <1>6

\* What list.remove does to the lists.
LEMMA LeaveTypes ==
  ASSUME TypesInv, NEW k \in Caches, NEW p \in Nodes, NEW c \in Channels, Leave(k, p, c)
  PROVE  /\ subchnls' \in [Holders -> [Nodes -> SUBSET Entries]]
         /\ holder[k][p] \in Holders
         /\ \A h \in Holders, n \in Nodes :
              /\ <<h, n>> # <<holder[k][p], p>> => subchnls'[h][n] = subchnls[h][n]
              /\ subchnls'[h][n] \subseteq subchnls[h][n]
              /\ \A e \in subchnls[h][n] \ subchnls'[h][n] :
                   e.object = channelMap[k][c] /\ channelMap[k][c] # None /\ e.object.id = c
         /\ \A e \in subchnls[holder[k][p]][p] : e.object = channelMap[k][c] =>
              \E d \in subchnls[holder[k][p]][p] :
                /\ d.object = channelMap[k][c]
                /\ subchnls'[holder[k][p]][p] = subchnls[holder[k][p]][p] \ {d}
<1>t. ChannelTypeOK /\ CacheShape BY DEF TypesInv
<1>1. holder[k][p] \in Holders BY <1>t DEF ChannelTypeOK
<1> DEFINE own == {e \in List(k, p) : e.object = channelMap[k][c]}
<1>2. CASE own = {}
  <2>1. subchnls' = subchnls BY <1>2 DEF Leave
  <2> QED BY <2>1, <1>1, <1>2, <1>t DEF ChannelTypeOK, List
<1>3. CASE own # {}
  <2>1. PICK e \in own : subchnls' = [subchnls EXCEPT ![holder[k][p]][p] = @ \ {e}]
    BY <1>3 DEF Leave
  <2>2. e \in subchnls[holder[k][p]][p] /\ e.object = channelMap[k][c] BY <2>1 DEF List
  <2>3. e.object # None
    <3>1. e \in Entries BY <1>1, <2>2, <1>t DEF ChannelTypeOK
    <3> QED BY <3>1, ChannelAssumption DEF Entries
  <2>4. channelMap[k][c].id = c BY <2>2, <2>3, <1>t DEF CacheShape
  <2>5. /\ subchnls' \in [Holders -> [Nodes -> SUBSET Entries]]
        /\ \A h \in Holders, n \in Nodes :
             subchnls'[h][n] = IF h = holder[k][p] /\ n = p THEN subchnls[h][n] \ {e}
                                                            ELSE subchnls[h][n]
    BY ONLY <2>1, <1>1, <1>t, p \in Nodes DEF ChannelTypeOK
  <2> QED BY ONLY <2>2, <2>3, <2>4, <2>5, <1>1, p \in Nodes
<1> QED BY <1>2, <1>3

\* So does a cache that forgets a channel.
LEMMA DeleteTypes ==
  ASSUME TypesInv, NEW a \in Admins, NEW k \in Caches, HandleDelete(a, k)
  PROVE  /\ channelMap' \in [Caches -> [Channels -> Objects \union {None}]]
         /\ holder' \in [Caches -> [Nodes -> Holders]]
         /\ subchnls' \in [Holders -> [Nodes -> SUBSET Entries]]
         /\ made' \subseteq Holders \X Nodes
         /\ CacheShape'
<1>t. ChannelTypeOK /\ TaskShape /\ CacheShape BY DEF TypesInv
<1>3. PICK c, p : c = task[a].channel /\ p = task[a].parent OBVIOUS
<1>4. c \in Channels /\ p \in Nodes BY <1>3, <1>t DEF TaskShape, HandleDelete
<1>5. holder' = holder /\ made' = made BY DEF HandleDelete
<1>6. CASE UNCHANGED <<subchnls, channelMap>>
  BY <1>5, <1>6, <1>t DEF ChannelTypeOK, CacheShape
<1>7. CASE ~UNCHANGED <<subchnls, channelMap>>
  <2>1. Leave(k, p, c) /\ channelMap' = [channelMap EXCEPT ![k][c] = None]
    BY <1>3, <1>7 DEF HandleDelete
  <2>2. /\ channelMap' \in [Caches -> [Channels -> Objects \union {None}]]
        /\ \A i \in Caches, d \in Channels :
             channelMap'[i][d] = IF i = k /\ d = c THEN None ELSE channelMap[i][d]
    BY <2>1, <1>4, <1>t DEF ChannelTypeOK
  <2>3. /\ subchnls' \in [Holders -> [Nodes -> SUBSET Entries]]
        /\ \A h \in Holders, n \in Nodes : subchnls'[h][n] \subseteq subchnls[h][n]
    BY ONLY <2>1, <1>4, LeaveTypes, TypesInv, k \in Caches
  <2>4. CacheShape' BY <2>2, <2>3, <1>5, <1>t DEF CacheShape
  <2> QED BY <2>2, <2>3, <2>4, <1>5, <1>t DEF ChannelTypeOK
<1> QED BY <1>6, <1>7

\* A request that has told a cache knows as much as before.
LEMMA TellsShape ==
  ASSUME ChannelTypeOK, TaskShape, NEW a \in Admins, NEW k \in Untold(a), Told(a, k),
         task[a].op \in {"added", "updated", "removed"}, latest' = latest
  PROVE  task' \in [Admins -> Tasks] /\ TaskShape'
<1>1. /\ Untold(a) \subseteq 1..latest
      /\ \A b \in Admins \ {a} : task'[b] = task[b]
      /\ \/ task'[a] = NoTask
         \/ /\ task'[a] \in Tasks
            /\ task'[a].op = task[a].op
            /\ task'[a].channel = task[a].channel
            /\ task'[a].parent = task[a].parent
            /\ task'[a].rev = task[a].rev
            /\ task'[a].telling = Untold(a) \ {k}
  BY Tells
<1>2. \E t : task' = [task EXCEPT ![a] = t] BY DEF Told
<1>3. task' \in [Admins -> Tasks] BY <1>1, <1>2, NoTaskType DEF ChannelTypeOK
<1>4. TaskShape' BY <1>1, NoTaskType DEF TaskShape
<1> QED BY <1>3, <1>4

\* Every step keeps the types.
LEMMA NextTypes == TypesInv /\ [ChannelNext]_channelVars => TypesInv'
<1> SUFFICES ASSUME TypesInv, [ChannelNext]_channelVars PROVE TypesInv'
  OBVIOUS
<1> USE DEF TypesInv
<1>a. ChannelTypeOK /\ TaskShape /\ CacheShape OBVIOUS
<1> USE DEF ChannelTypeOK, tableVars, cacheVars, listVars, loadVars
<1>b. UNCHANGED <<channelMap, listVars>> => CacheShape' BY DEF CacheShape
<1>1. ASSUME NEW a \in Admins, NEW t \in Tasks, Start(a, t),
             UNCHANGED <<tableVars, cacheVars, loadVars>>,
             t.op \in {"save", "remove", "relocate"} => t.channel \in Channels,
             t.op \in {"insert", "save", "remove", "relocate"} => t.parent \in Nodes,
             t.op \in {"insert", "save", "remove", "relocate", "reset"}, t.telling = {}
      PROVE  TypesInv'
  <2> DEFINE u == [t EXCEPT !.no = operations + 1]
  <2>0. operations \in Nat /\ operations < MaxOperations BY <1>1, Bounds DEF Start
  <2>1. /\ u \in Tasks /\ u.op = t.op /\ u.channel = t.channel /\ u.parent = t.parent
        /\ u.rev = t.rev /\ u.telling = {}
    <3>1. t \in Tasks /\ t.telling = {} /\ operations + 1 \in Nat BY <1>1, <2>0
    <3> HIDE DEF ChannelTypeOK, tableVars, cacheVars, listVars, loadVars
    <3> QED BY ONLY <3>1 DEF Tasks
  <2>2. task' = [task EXCEPT ![a] = u] /\ operations' \in 0..MaxOperations
    BY <1>1, <2>0, Bounds DEF Start
  <2> HIDE DEF u
  <2>3. TaskShape' BY <1>1, <2>1, <2>2, TaskSteps DEF TaskShape
  <2> QED BY <1>1, <1>b, <2>1, <2>2, <2>3
<1>2. ASSUME NEW a \in Admins, NEW p \in Nodes, OpenCreate(a, p) PROVE TypesInv'
  <2> DEFINE t == [NoTask EXCEPT !.op = "insert", !.parent = p]
  <2>1. t \in Tasks /\ t.op = "insert" /\ t.parent = p /\ t.telling = {} BY DEF NoTask, Tasks
  <2>2. Start(a, t) /\ UNCHANGED <<tableVars, cacheVars, loadVars>> BY <1>2 DEF OpenCreate
  <2> HIDE DEF t
  <2> QED BY ONLY <1>1, <2>1, <2>2, <1>2
<1>3. ASSUME NEW a \in Admins, NEW c \in Channels, OpenEdit(a, c) PROVE TypesInv'
  <2> DEFINE t == [NoTask EXCEPT !.op = "save", !.channel = c, !.parent = row[c].parent]
  <2>0. row[c].parent \in Nodes BY <1>3 DEF OpenEdit, Rows
  <2>1. t \in Tasks /\ t.op = "save" /\ t.channel = c /\ t.parent \in Nodes /\ t.telling = {}
    BY <2>0 DEF NoTask, Tasks
  <2>2. Start(a, t) /\ UNCHANGED <<tableVars, cacheVars, loadVars>> BY <1>3 DEF OpenEdit
  <2> HIDE DEF t
  <2> QED BY ONLY <1>1, <2>1, <2>2, <1>3
<1>4. ASSUME NEW a \in Admins, NEW c \in Channels, OpenDelete(a, c) PROVE TypesInv'
  <2> DEFINE t == [NoTask EXCEPT !.op = "remove", !.channel = c,
                                 !.parent = channelMap[latest][c].parent]
  <2>0. channelMap[latest][c] \in Objects
    BY <1>4, ChannelAssumption DEF OpenDelete, Shown, InCache
  <2>1. t \in Tasks /\ t.op = "remove" /\ t.channel = c /\ t.parent \in Nodes /\ t.telling = {}
    BY <2>0 DEF NoTask, Tasks, Objects
  <2>2. Start(a, t) /\ UNCHANGED <<tableVars, cacheVars, loadVars>> BY <1>4 DEF OpenDelete
  <2> HIDE DEF t
  <2> QED BY ONLY <1>1, <2>1, <2>2, <1>4
<1>5. ASSUME NEW a \in Admins, NEW c \in Channels, NEW q \in Nodes, OpenMove(a, c, q)
      PROVE TypesInv'
  <2> DEFINE t == [NoTask EXCEPT !.op = "relocate", !.channel = c, !.parent = q]
  <2>1. t \in Tasks /\ t.op = "relocate" /\ t.channel = c /\ t.parent = q /\ t.telling = {}
    BY DEF NoTask, Tasks, ReloadSteps
  <2>2. Start(a, t) /\ UNCHANGED <<tableVars, cacheVars, loadVars>> BY <1>5 DEF OpenMove
  <2> HIDE DEF t
  <2> QED BY ONLY <1>1, <2>1, <2>2, <1>5
<1>6. ASSUME NEW a \in Admins, OpenReset(a) PROVE TypesInv'
  <2> DEFINE t == [NoTask EXCEPT !.op = "reset"]
  <2>1. t \in Tasks /\ t.op = "reset" /\ t.telling = {} BY DEF NoTask, Tasks, ReloadSteps
  <2>2. Start(a, t) /\ UNCHANGED <<tableVars, cacheVars, loadVars>> BY <1>6 DEF OpenReset
  <2> HIDE DEF t
  <2> QED BY ONLY <1>1, <2>1, <2>2, <1>6
<1>7. ASSUME NEW a \in Admins, NEW c \in Channels, Insert(a, c) PROVE TypesInv'
  <2> DEFINE t == [task[a] EXCEPT !.op = "added", !.channel = c, !.rev = 1]
  <2>1. task[a] \in Tasks /\ task[a].parent \in Nodes /\ task[a].telling = {}
    BY <1>7 DEF Insert, TaskShape
  <2>2. /\ t \in Tasks /\ t.op = "added" /\ t.parent \in Nodes /\ t.channel = c /\ t.rev = 1
        /\ t.telling = {}
    BY <2>1 DEF Tasks, Revisions
  <2>3. task' = [task EXCEPT ![a] = t] BY <1>7 DEF Insert
  <2>4. latest' = latest BY <1>7 DEF Insert
  <2>5. TaskShape' BY <2>2, <2>3, <2>4, TaskSteps DEF TaskShape, Revisions
  <2>6. [parent |-> task[a].parent, rev |-> 1] \in Rows BY <2>1 DEF Rows, Revisions
  <2> QED BY <1>7, <1>b, <2>2, <2>3, <2>5, <2>6 DEF Insert
<1>8. ASSUME NEW a \in Admins, SaveEdit(a) PROVE TypesInv'
  <2> DEFINE c == task[a].channel
             t == [task[a] EXCEPT !.op = "updated", !.rev = row[c].rev + 1]
             g == [task[a] EXCEPT !.op = "updated"]
  <2>1. /\ task[a] \in Tasks /\ c \in Channels /\ task[a].parent \in Nodes
        /\ task[a].telling = {} /\ latest' = latest
    BY <1>8 DEF SaveEdit, TaskShape
  <2>2. CASE row[c] # None
    <3>1. row[c] \in Rows /\ row[c].rev + 1 \in Revisions BY <2>1, <2>2 DEF Rows, Revisions
    <3>2. t \in Tasks /\ t.op = "updated" /\ t.parent \in Nodes /\ t.channel = c /\ t.telling = {}
      BY <2>1, <3>1 DEF Tasks
    <3>3. task' = [task EXCEPT ![a] = t] /\ row' = [row EXCEPT ![c].rev = @ + 1]
      BY <1>8, <2>2 DEF SaveEdit
    <3>4. row' \in [Channels -> Rows \union {None}] BY <2>1, <3>1, <3>3 DEF Rows, Revisions
    <3>5. TaskShape' BY <2>1, <3>2, <3>3, TaskSteps DEF TaskShape
    <3> QED BY <1>8, <1>b, <3>2, <3>3, <3>4, <3>5 DEF SaveEdit
  <2>3. CASE row[c] = None
    <3>1. g \in Tasks /\ g.op = "updated" /\ g.parent \in Nodes /\ g.channel = c /\ g.telling = {}
      BY <2>1 DEF Tasks
    <3>2. task' = [task EXCEPT ![a] = g] BY <1>8, <2>3 DEF SaveEdit, Go
    <3>3. TaskShape' BY <2>1, <3>1, <3>2, TaskSteps DEF TaskShape
    <3> QED BY <1>8, <1>b, <2>3, <3>1, <3>2, <3>3 DEF SaveEdit
  <2> QED BY <2>2, <2>3
<1>9. ASSUME NEW a \in Admins, NEW k \in Caches, HandleAdd(a, k) PROVE TypesInv'
  <2>1. /\ k \in Untold(a) /\ Told(a, k) /\ task[a].op = "added"
        /\ UNCHANGED <<tableVars, latest, visible, loadVars, operations>>
    BY <1>9 DEF HandleAdd
  <2>2. task' \in [Admins -> Tasks] /\ TaskShape' BY <2>1, TellsShape
  <2>3. /\ channelMap' \in [Caches -> [Channels -> Objects \union {None}]]
        /\ holder' \in [Caches -> [Nodes -> Holders]]
        /\ subchnls' \in [Holders -> [Nodes -> SUBSET Entries]]
        /\ made' \subseteq Holders \X Nodes
        /\ CacheShape'
    BY <1>9, AddTypes
  <2> QED BY <1>a, <2>1, <2>2, <2>3
<1>10. ASSUME NEW a \in Admins, NEW k \in Caches, HandleUpdate(a, k) PROVE TypesInv'
  <2>1. /\ k \in Untold(a) /\ Told(a, k) /\ task[a].op = "updated"
        /\ UNCHANGED <<tableVars, latest, visible, loadVars, operations>>
    BY <1>10 DEF HandleUpdate
  <2>2. task' \in [Admins -> Tasks] /\ TaskShape' BY <2>1, TellsShape
  <2>3. /\ channelMap' \in [Caches -> [Channels -> Objects \union {None}]]
        /\ holder' \in [Caches -> [Nodes -> Holders]]
        /\ subchnls' \in [Holders -> [Nodes -> SUBSET Entries]]
        /\ made' \subseteq Holders \X Nodes
        /\ CacheShape'
    BY <1>10, UpdateTypes
  <2> QED BY <1>a, <2>1, <2>2, <2>3
<1>11. ASSUME NEW a \in Admins, NEW k \in Caches, HandleDelete(a, k) PROVE TypesInv'
  <2>1. /\ k \in Untold(a) /\ Told(a, k) /\ task[a].op = "removed"
        /\ UNCHANGED <<tableVars, latest, visible, loadVars, operations>>
    BY <1>11 DEF HandleDelete
  <2>2. task' \in [Admins -> Tasks] /\ TaskShape' BY <2>1, TellsShape
  <2>3. /\ channelMap' \in [Caches -> [Channels -> Objects \union {None}]]
        /\ holder' \in [Caches -> [Nodes -> Holders]]
        /\ subchnls' \in [Holders -> [Nodes -> SUBSET Entries]]
        /\ made' \subseteq Holders \X Nodes
        /\ CacheShape'
    BY <1>11, DeleteTypes
  <2> QED BY <1>a, <2>1, <2>2, <2>3
<1>12. ASSUME NEW a \in Admins, DeleteRows(a) PROVE TypesInv'
  <2> DEFINE g == [task[a] EXCEPT !.op = "removed"]
  <2>1. /\ task[a] \in Tasks /\ task[a].channel \in Channels /\ task[a].parent \in Nodes
        /\ task[a].telling = {} /\ latest' = latest
    BY <1>12 DEF DeleteRows, TaskShape
  <2>2. g \in Tasks /\ g.op = "removed" /\ g.channel = task[a].channel /\ g.parent \in Nodes
        /\ g.telling = {}
    BY <2>1 DEF Tasks
  <2>3. task' = [task EXCEPT ![a] = NoTask] \/ task' = [task EXCEPT ![a] = g]
    BY <1>12 DEF DeleteRows, Go, Done
  <2>4. TaskShape'
    <3>1. /\ task'[a] \in {NoTask, g}
          /\ \A b \in Admins \ {a} : task'[b] = task[b]
      BY <2>3, TaskSteps
    <3> HIDE DEF g
    <3> QED BY <2>1, <2>2, <3>1, NoTaskType DEF TaskShape
  <2>5. \E D : Remove(D) BY <1>12 DEF DeleteRows
  <2>6. row' \in [Channels -> Rows \union {None}] BY <2>5 DEF Remove
  <2> QED BY <1>12, <1>b, <2>2, <2>3, <2>4, <2>6, NoTaskType DEF DeleteRows
<1>13. ASSUME NEW a \in Admins, Relocate(a) PROVE TypesInv'
  <2> DEFINE c == task[a].channel
             q == task[a].parent
             g == [task[a] EXCEPT !.op = "moved"]
  <2>1. /\ task[a] \in Tasks /\ c \in Channels /\ q \in Nodes /\ task[a].telling = {}
        /\ latest' = latest
    BY <1>13 DEF Relocate, TaskShape
  <2>2. g \in Tasks /\ g.op = "moved" /\ g.channel = c /\ g.telling = {}
    BY <2>1 DEF Tasks, ReloadSteps
  <2>3. task' = [task EXCEPT ![a] = NoTask] \/ task' = [task EXCEPT ![a] = g]
    BY <1>13 DEF Relocate, Go, Done
  <2>4. TaskShape'
    <3>1. /\ task'[a] \in {NoTask, g}
          /\ \A b \in Admins \ {a} : task'[b] = task[b]
      BY <2>3, TaskSteps
    <3> HIDE DEF g
    <3> QED BY <2>1, <2>2, <3>1, NoTaskType DEF TaskShape
  <2>5. row' \in [Channels -> Rows \union {None}]
    <3>1. CASE row' = row BY <3>1
    <3>2. CASE row[c] # None /\ row' = [row EXCEPT ![c].parent = q]
      <4>1. row[c] \in Rows BY <2>1, <3>2
      <4>2. [row[c] EXCEPT !.parent = q] \in Rows BY <2>1, <4>1 DEF Rows
      <4> QED BY <2>1, <3>2, <4>2
    <3> QED BY <1>13, <3>1, <3>2 DEF Relocate
  <2> QED BY <1>13, <1>b, <2>2, <2>3, <2>4, <2>5, NoTaskType DEF Relocate
<1>14. ASSUME NEW a \in Admins, StartLoading(a) PROVE TypesInv'
  <2> DEFINE g == [task[a] EXCEPT !.op = "load"]
  <2>1. task[a] \in Tasks /\ task[a].telling = {} /\ latest' = latest
    BY <1>14 DEF StartLoading, TaskShape
  <2>2. g \in Tasks /\ g.op = "load" /\ g.telling = {} BY <2>1 DEF Tasks, ReloadSteps
  <2>3. task' = [task EXCEPT ![a] = NoTask] \/ task' = [task EXCEPT ![a] = g]
    BY <1>14 DEF StartLoading, Go, Done
  <2>4. TaskShape'
    <3>1. /\ task'[a] \in {NoTask, g}
          /\ \A b \in Admins \ {a} : task'[b] = task[b]
      BY <2>3, TaskSteps
    <3> HIDE DEF g
    <3> QED BY <2>1, <2>2, <3>1, NoTaskType DEF TaskShape
  <2>6. task' \in [Admins -> Tasks] BY <2>2, <2>3, NoTaskType
  <2>7. UNCHANGED <<tableVars, channelMap, listVars, latest, operations>>
    BY <1>14 DEF StartLoading
  <2>8. CASE UNCHANGED <<visible, loadVars>>
    BY <1>a, <1>b, <2>4, <2>6, <2>7, <2>8
  <2>9. CASE ~UNCHANGED <<visible, loadVars>>
    <3>1. /\ loader' = a /\ frontier' = {Root} /\ latest < MaxCaches
          /\ visible' = (visible /\ task[a].op = "reset")
      BY <1>14, <2>9 DEF StartLoading
    <3>2. loader' \in Admins /\ loader' # None BY <3>1, ChannelAssumption
    <3>3. frontier' \subseteq Nodes BY <3>1 DEF Nodes
    <3> QED BY <1>a, <1>b, <2>4, <2>6, <2>7, <3>1, <3>2, <3>3
  <2> QED BY <2>8, <2>9
<1>15. ASSUME NEW a \in Admins, NEW n \in Nodes, LoadSubChannels(a, n) PROVE TypesInv'
  <2> DEFINE k == latest + 1
  <2>1. /\ k \in Caches /\ k \in Holders /\ task[a].no \in Nat
    BY <1>15, ChannelAssumption, Bounds DEF LoadSubChannels, Caches, Holders, Tasks
  <2>2. PICK first \in FirstRows(n) :
          LET o == [c \in SubChannels(n) |-> Loaded(c, first, k, task[a].no)]
          IN  /\ channelMap' = [channelMap EXCEPT ![k] =
                   [c \in Channels |-> IF c \in SubChannels(n) THEN o[c] ELSE @[c]]]
              /\ subchnls' = [subchnls EXCEPT ![k][n] =
                                {[by |-> k, object |-> o[c]] : c \in SubChannels(n)}]
              /\ made' = IF SubChannels(n) = {} THEN made ELSE made \union {<<k, n>>}
    BY <1>15 DEF LoadSubChannels
  <2>3. first \in Channels \union {None} BY DEF FirstRows, SubChannels
  <2> DEFINE o == [c \in SubChannels(n) |-> Loaded(c, first, k, task[a].no)]
  <2>4. \A c \in SubChannels(n) :
          c \in Channels /\ o[c] \in Objects /\ o[c] # None /\ o[c].id = c
    BY <2>1, <2>3, <1>a, LoadedType DEF SubChannels
  <2> HIDE DEF o, k
  <2>5. /\ channelMap' \in [Caches -> [Channels -> Objects \union {None}]]
        /\ \A i \in Caches, d \in Channels : channelMap'[i][d] # None => channelMap'[i][d].id = d
    <3>1. channelMap' = [channelMap EXCEPT ![k] =
            [c \in Channels |-> IF c \in SubChannels(n) THEN o[c] ELSE channelMap[k][c]]]
      BY <2>2 DEF o
    <3>2. [c \in Channels |-> IF c \in SubChannels(n) THEN o[c] ELSE channelMap[k][c]]
            \in [Channels -> Objects \union {None}]
      BY <2>1, <2>4
    <3>3. channelMap' \in [Caches -> [Channels -> Objects \union {None}]] BY <3>1, <3>2
    <3>4. \A i \in Caches, d \in Channels :
            channelMap'[i][d] = IF i = k /\ d \in SubChannels(n) THEN o[d] ELSE channelMap[i][d]
      BY <3>1, <2>1
    <3>5. \A i \in Caches, d \in Channels : channelMap[i][d] # None => channelMap[i][d].id = d
      BY <1>a DEF CacheShape
    <3>6. ASSUME NEW i \in Caches, NEW d \in Channels, channelMap'[i][d] # None
          PROVE  channelMap'[i][d].id = d
      BY ONLY <3>4, <3>5, <3>6, <2>4
    <3> QED BY ONLY <3>3, <3>6
  <2>6. /\ subchnls' \in [Holders -> [Nodes -> SUBSET Entries]]
        /\ \A h \in Holders, m \in Nodes :
             subchnls'[h][m] = IF h = k /\ m = n
                               THEN {[by |-> k, object |-> o[c]] : c \in SubChannels(n)}
                               ELSE subchnls[h][m]
    <3>1. subchnls' = [subchnls EXCEPT ![k][n] =
                         {[by |-> k, object |-> o[c]] : c \in SubChannels(n)}]
      BY <2>2 DEF o
    <3>2. {[by |-> k, object |-> o[c]] : c \in SubChannels(n)} \in SUBSET Entries
      BY <2>1, <2>4 DEF Entries
    <3> HIDE DEF Entries
    <3> DEFINE L == {[by |-> k, object |-> o[c]] : c \in SubChannels(n)}
    <3> HIDE DEF L
    <3>3. L \in SUBSET Entries /\ subchnls' = [subchnls EXCEPT ![k][n] = L]
      BY <3>1, <3>2 DEF L
    <3>4. /\ subchnls' \in [Holders -> [Nodes -> SUBSET Entries]]
          /\ \A h \in Holders, m \in Nodes :
               subchnls'[h][m] = IF h = k /\ m = n THEN L ELSE subchnls[h][m]
      BY <3>3, <2>1
    <3> QED BY <3>4 DEF L
  <2>7. /\ made' \subseteq Holders \X Nodes
        /\ made' = IF SubChannels(n) = {} THEN made ELSE made \union {<<k, n>>}
    BY <2>1, <2>2
  <2>8. holder' = holder BY <1>15 DEF LoadSubChannels
  <2>9. CacheShape'
    <3>1. \A i \in Caches, m \in Nodes : holder'[i][m] \in {i, Event}
      BY <1>a, <2>8 DEF CacheShape
    <3>2. \A h \in Holders, m \in Nodes : <<h, m>> \notin made => subchnls[h][m] = {}
      BY <1>a DEF CacheShape
    <3>3. ASSUME NEW h \in Holders, NEW m \in Nodes, <<h, m>> \notin made'
          PROVE  subchnls'[h][m] = {}
      <4>1. <<h, m>> \notin made /\ (h = k /\ m = n => SubChannels(n) = {})
        BY ONLY <2>7, <3>3
      <4>2. CASE h = k /\ m = n
        <5>1. subchnls'[h][m] = {[by |-> k, object |-> o[c]] : c \in SubChannels(n)}
          BY ONLY <2>6, <4>2, h \in Holders, m \in Nodes
        <5>2. SubChannels(n) = {} BY <4>1, <4>2
        <5> QED BY ONLY <5>1, <5>2
      <4>3. CASE ~(h = k /\ m = n)
        <5>1. subchnls'[h][m] = subchnls[h][m]
          BY ONLY <2>6, <4>3, h \in Holders, m \in Nodes
        <5> QED BY ONLY <5>1, <4>1, <3>2, h \in Holders, m \in Nodes
      <4> QED BY <4>2, <4>3
    <3> QED BY ONLY <2>5, <3>1, <3>3 DEF CacheShape
  <2>10. frontier' \subseteq Nodes BY <1>15 DEF LoadSubChannels, Nodes, SubChannels
  <2>11. TaskShape' BY <1>15 DEF LoadSubChannels, TaskShape
  <2>12. UNCHANGED <<tableVars, holder, latest, visible, task, loader, operations>>
    BY <1>15 DEF LoadSubChannels
  <2> QED BY <1>a, <2>5, <2>6, <2>7, <2>9, <2>10, <2>11, <2>12
<1>16. ASSUME NEW a \in Admins, FinishLoading(a) PROVE TypesInv'
  <2>1. task' = [task EXCEPT ![a] = NoTask] BY <1>16 DEF FinishLoading, Done
  <2>2. /\ loader = a /\ latest' = latest + 1 /\ visible' = TRUE /\ loader' = None
        /\ UNCHANGED <<tableVars, channelMap, listVars, frontier, operations>>
    BY <1>16 DEF FinishLoading
  <2>3. latest < MaxCaches BY <1>a, <2>2, ChannelAssumption
  <2>4. latest' \in 0..MaxCaches /\ latest' \in Caches /\ 1..latest \subseteq 1..latest'
    BY <2>2, <2>3, Bounds DEF Caches
  <2>5. task'[a] = NoTask /\ \A b \in Admins \ {a} : task'[b] = task[b]
    BY <2>1, TaskSteps
  <2>6. NoTask.op = "idle" /\ NoTask.telling = {} BY DEF NoTask
  <2>7. TaskShape' BY ONLY TaskShape, <2>4, <2>5, <2>6 DEF TaskShape
  <2> QED BY <1>b, <2>1, <2>2, <2>4, <2>7, NoTaskType
<1>17. CASE UNCHANGED channelVars
  <2>1. TaskShape' BY <1>17 DEF channelVars, TaskShape
  <2> QED BY <1>17, <1>b, <2>1 DEF channelVars
<1> QED BY <1>2, <1>3, <1>4, <1>5, <1>6, <1>7, <1>8, <1>9, <1>10, <1>11, <1>12, <1>13,
           <1>14, <1>15, <1>16, <1>17 DEF ChannelNext, AdminStep

\* Table, caches, requests and the load under way keep their types, however the requests
\* run and whenever caches are loaded anew; the site is without a cache only while one is
\* being loaded.
THEOREM ChannelTypeCorrect == ChannelSpec => []ChannelTypeOK
<1>1. TypesInv => ChannelTypeOK BY DEF TypesInv
<1> QED BY <1>1, InitTypes, NextTypes, PTL DEF ChannelSpec

\* What a load makes of the new cache: the children of one channel, as the table has them.
LEMMA LoadSteps ==
  ASSUME ChannelTypeOK, NEW a \in Admins, NEW n \in Nodes, LoadSubChannels(a, n)
  PROVE  LET k == latest + 1
         IN  /\ k \in Caches /\ k \in Holders
             /\ \A i \in Caches, d \in Channels :
                  IF i = k /\ d \in SubChannels(n)
                  THEN /\ channelMap'[i][d] # None
                       /\ channelMap'[i][d].parent = row[d].parent
                       /\ channelMap'[i][d].rev = row[d].rev
                       /\ row[d] # None
                       /\ UpToDate(channelMap'[i][d])
                       /\ channelMap'[i][d].id = d
                  ELSE channelMap'[i][d] = channelMap[i][d]
             /\ \A h \in Holders, m \in Nodes :
                  IF h = k /\ m = n
                  THEN subchnls'[h][m] = {[by |-> k, object |-> channelMap'[k][c]] :
                                            c \in SubChannels(n)}
                  ELSE subchnls'[h][m] = subchnls[h][m]
             /\ made' = IF SubChannels(n) = {} THEN made ELSE made \union {<<k, n>>}
             /\ loader = a /\ n \in frontier
             /\ frontier' = (frontier \ {n}) \union SubChannels(n)
             /\ UNCHANGED <<tableVars, holder, latest, visible, task, loader, operations>>
<1> DEFINE k == latest + 1
<1>1. loader = a /\ loader # None /\ a # None BY ChannelAssumption DEF LoadSubChannels
<1>2. k \in Caches /\ k \in Holders /\ task[a].no \in Nat
  BY <1>1, Bounds DEF ChannelTypeOK, Caches, Holders, Tasks
<1>3. PICK first \in FirstRows(n) :
        LET o == [c \in SubChannels(n) |-> Loaded(c, first, k, task[a].no)]
        IN  /\ channelMap' = [channelMap EXCEPT ![k] =
                 [c \in Channels |-> IF c \in SubChannels(n) THEN o[c] ELSE @[c]]]
            /\ subchnls' = [subchnls EXCEPT ![k][n] =
                              {[by |-> k, object |-> o[c]] : c \in SubChannels(n)}]
            /\ made' = IF SubChannels(n) = {} THEN made ELSE made \union {<<k, n>>}
  BY DEF LoadSubChannels
<1>4. first \in Channels \union {None} BY DEF FirstRows, SubChannels
<1> DEFINE o == [c \in SubChannels(n) |-> Loaded(c, first, k, task[a].no)]
<1>5. \A c \in SubChannels(n) :
        /\ c \in Channels /\ row[c] # None
        /\ o[c] # None /\ o[c].id = c /\ o[c].parent = row[c].parent /\ o[c].rev = row[c].rev
        /\ UpToDate(o[c])
  <2> TAKE c \in SubChannels(n)
  <2>1. c \in Channels /\ row[c] # None BY DEF SubChannels
  <2>2. o[c] = Loaded(c, first, k, task[a].no) OBVIOUS
  <2> HIDE DEF o, k
  <2> QED BY <2>1, <2>2, <1>2, <1>4, LoadedType
<1> HIDE DEF o, k
<1>6. \A i \in Caches, d \in Channels :
        channelMap'[i][d] = IF i = k /\ d \in SubChannels(n) THEN o[d] ELSE channelMap[i][d]
  <2>1. channelMap' = [channelMap EXCEPT ![k] =
          [c \in Channels |-> IF c \in SubChannels(n) THEN o[c] ELSE channelMap[k][c]]]
    BY <1>3 DEF o
  <2> QED BY <2>1, <1>2 DEF ChannelTypeOK
<1>7. {[by |-> k, object |-> channelMap'[k][c]] : c \in SubChannels(n)} =
        {[by |-> k, object |-> o[c]] : c \in SubChannels(n)}
  BY <1>2, <1>5, <1>6
<1> DEFINE L == {[by |-> k, object |-> o[c]] : c \in SubChannels(n)}
<1>8. subchnls' = [subchnls EXCEPT ![k][n] = L] BY <1>3 DEF o
<1> HIDE DEF L
<1>9. \A h \in Holders, m \in Nodes :
        subchnls'[h][m] = IF h = k /\ m = n THEN L ELSE subchnls[h][m]
  BY <1>8, <1>2 DEF ChannelTypeOK
<1>10. \A i \in Caches, d \in Channels :
         IF i = k /\ d \in SubChannels(n)
         THEN /\ channelMap'[i][d] # None
              /\ channelMap'[i][d].parent = row[d].parent
              /\ channelMap'[i][d].rev = row[d].rev
              /\ row[d] # None
              /\ UpToDate(channelMap'[i][d])
              /\ channelMap'[i][d].id = d
         ELSE channelMap'[i][d] = channelMap[i][d]
  <2> TAKE i \in Caches, d \in Channels
  <2>1. CASE i = k /\ d \in SubChannels(n)
    <3>1. channelMap'[i][d] = o[d] BY <1>6, <2>1
    <3>2. UpToDate(channelMap'[i][d]) <=> UpToDate(o[d]) BY <3>1
    <3> QED BY <3>1, <3>2, <2>1, <1>5
  <2>2. CASE ~(i = k /\ d \in SubChannels(n)) BY <2>2, <1>6
  <2> QED BY <2>1, <2>2
<1>11. /\ loader = a /\ n \in frontier
       /\ frontier' = (frontier \ {n}) \union SubChannels(n)
       /\ UNCHANGED <<tableVars, holder, latest, visible, task, loader, operations>>
  BY DEF LoadSubChannels
<1>12. \A h \in Holders, m \in Nodes :
         IF h = k /\ m = n
         THEN subchnls'[h][m] = {[by |-> k, object |-> channelMap'[k][c]] : c \in SubChannels(n)}
         ELSE subchnls'[h][m] = subchnls[h][m]
  <2>1. L = {[by |-> k, object |-> channelMap'[k][c]] : c \in SubChannels(n)} BY <1>7 DEF L
  <2> QED BY ONLY <2>1, <1>9
<1>13. made' = IF SubChannels(n) = {} THEN made ELSE made \union {<<k, n>>} BY <1>3
<1> QED BY ONLY <1>2, <1>10, <1>11, <1>12, <1>13 DEF k
-----------------------------------------------------------------------------
(* Identifiers and reloads *)

\* What the steps that change a cache make of its map.
LEMMA MapSteps ==
  ASSUME TypesInv, NEW a \in Admins, NEW k \in Caches
  PROVE  /\ HandleAdd(a, k) =>
              \A i \in Caches, d \in Channels :
                \/ channelMap'[i][d] = channelMap[i][d]
                \/ i = k /\ d = task[a].channel /\ channelMap'[i][d] = Announced(a)
         /\ HandleUpdate(a, k) =>
              \A i \in Caches, d \in Channels :
                \/ channelMap'[i][d] = channelMap[i][d]
                \/ i = k /\ d = task[a].channel /\ row[d] # None
                   /\ channelMap'[i][d] = Object(d, k, task[a].no)
         /\ HandleDelete(a, k) =>
              \A i \in Caches, d \in Channels :
                \/ channelMap'[i][d] = channelMap[i][d]
                \/ i = k /\ d = task[a].channel /\ channelMap'[i][d] = None
<1>t. channelMap \in [Caches -> [Channels -> Objects \union {None}]]
  BY DEF TypesInv, ChannelTypeOK
<1> USE <1>t
<1>1. HandleAdd(a, k) => \/ channelMap' = channelMap
                         \/ channelMap' = [channelMap EXCEPT ![k][task[a].channel] = Announced(a)]
  BY DEF HandleAdd, Announced
<1>2. HandleUpdate(a, k) =>
        \/ channelMap' = channelMap
        \/ /\ row[task[a].channel] # None
           /\ channelMap' = [channelMap EXCEPT ![k][task[a].channel] =
                               Object(task[a].channel, k, task[a].no)]
  BY DEF HandleUpdate
<1>3. HandleDelete(a, k) => \/ channelMap' = channelMap
                            \/ channelMap' = [channelMap EXCEPT ![k][task[a].channel] = None]
  BY DEF HandleDelete
<1> QED BY <1>1, <1>2, <1>3

\* Every step keeps that an id in use was created: keys are never used again.
LEMMA IdsNext ==
  ASSUME TypesInv, TypesInv', IdsTaken, [ChannelNext]_channelVars
  PROVE  IdsTaken'
<1>t. ChannelTypeOK /\ TaskShape BY DEF TypesInv
<1>r. \A c \in Channels : row[c] # None => row[c] \in Rows BY <1>t DEF ChannelTypeOK
<1> USE DEF IdsTaken
<1>1. ASSUME NEW a \in Admins, NEW t, Start(a, t), t \in Tasks,
             UNCHANGED <<tableVars, cacheVars, loadVars>>,
             t.op \in {"insert", "save", "remove", "relocate", "reset"},
             t.op \in {"insert", "save"} => t.parent \in created \union {Root},
             t.op \in {"save", "remove"} => t.channel \in created
      PROVE  IdsTaken'
  <2> DEFINE u == [t EXCEPT !.no = operations + 1]
  <2>1. u.op = t.op /\ u.channel = t.channel /\ u.parent = t.parent BY ONLY <1>1 DEF Tasks
  <2>2. task'[a] = u /\ \A b \in Admins \ {a} : task'[b] = task[b]
    BY <1>1, <1>t, TaskSteps DEF Start
  <2> HIDE DEF u
  <2>3. row' = row /\ created' = created /\ channelMap' = channelMap
    BY <1>1 DEF tableVars, cacheVars
  <2> QED BY <1>1, <2>1, <2>2, <2>3
<1>2. ASSUME NEW a \in Admins, NEW p \in Nodes, OpenCreate(a, p) PROVE IdsTaken'
  <2> DEFINE t == [NoTask EXCEPT !.op = "insert", !.parent = p]
  <2>1. t \in Tasks /\ t.op = "insert" /\ t.parent = p BY DEF NoTask, Tasks
  <2>2. /\ Start(a, t) /\ UNCHANGED <<tableVars, cacheVars, loadVars>>
        /\ p \in created \union {Root}
    BY <1>2 DEF OpenCreate, InTable
  <2> HIDE DEF t
  <2> QED BY <1>1, <2>1, <2>2
<1>3. ASSUME NEW a \in Admins, NEW c \in Channels, OpenEdit(a, c) PROVE IdsTaken'
  <2> DEFINE t == [NoTask EXCEPT !.op = "save", !.channel = c, !.parent = row[c].parent]
  <2>0. /\ row[c] # None /\ row[c].parent \in Nodes
        /\ c \in created /\ row[c].parent \in created \union {Root}
    BY <1>3, <1>r DEF OpenEdit, Rows
  <2>1. t \in Tasks /\ t.op = "save" /\ t.channel = c /\ t.parent = row[c].parent
    BY <2>0 DEF NoTask, Tasks
  <2>2. Start(a, t) /\ UNCHANGED <<tableVars, cacheVars, loadVars>> BY <1>3 DEF OpenEdit
  <2> HIDE DEF t
  <2> QED BY <1>1, <2>0, <2>1, <2>2
<1>4. ASSUME NEW a \in Admins, NEW c \in Channels, OpenDelete(a, c) PROVE IdsTaken'
  <2> DEFINE t == [NoTask EXCEPT !.op = "remove", !.channel = c,
                                 !.parent = channelMap[latest][c].parent]
  <2>0. channelMap[latest][c] \in Objects /\ row[c] # None /\ c \in created
    BY <1>4, <1>t, ChannelAssumption DEF OpenDelete, Shown, InCache, ChannelTypeOK
  <2>1. t \in Tasks /\ t.op = "remove" /\ t.channel = c BY <2>0 DEF NoTask, Tasks, Objects
  <2>2. Start(a, t) /\ UNCHANGED <<tableVars, cacheVars, loadVars>> BY <1>4 DEF OpenDelete
  <2> HIDE DEF t
  <2> QED BY <1>1, <2>0, <2>1, <2>2
<1>5. ASSUME NEW a \in Admins, NEW c \in Channels, NEW q \in Nodes, OpenMove(a, c, q)
      PROVE  IdsTaken'
  <2> DEFINE t == [NoTask EXCEPT !.op = "relocate", !.channel = c, !.parent = q]
  <2>1. t \in Tasks /\ t.op = "relocate" BY DEF NoTask, Tasks, ReloadSteps
  <2>2. Start(a, t) /\ UNCHANGED <<tableVars, cacheVars, loadVars>> BY <1>5 DEF OpenMove
  <2> HIDE DEF t
  <2> QED BY <1>1, <2>1, <2>2
<1>6. ASSUME NEW a \in Admins, OpenReset(a) PROVE IdsTaken'
  <2> DEFINE t == [NoTask EXCEPT !.op = "reset"]
  <2>1. t \in Tasks /\ t.op = "reset" BY DEF NoTask, Tasks, ReloadSteps
  <2>2. Start(a, t) /\ UNCHANGED <<tableVars, cacheVars, loadVars>> BY <1>6 DEF OpenReset
  <2> HIDE DEF t
  <2> QED BY <1>1, <2>1, <2>2
<1>7. ASSUME NEW a \in Admins, NEW c \in Channels, Insert(a, c) PROVE IdsTaken'
  <2> DEFINE t == [task[a] EXCEPT !.op = "added", !.channel = c, !.rev = 1]
  <2>1. task[a] \in Tasks BY <1>t DEF ChannelTypeOK
  <2>2. t.op = "added" /\ t.channel = c /\ t.parent = task[a].parent BY <2>1 DEF Tasks
  <2>3. /\ task[a].op = "insert" /\ created' = created \union {c}
        /\ row' = [row EXCEPT ![c] = [parent |-> task[a].parent, rev |-> 1]]
        /\ task'[a] = t /\ \A b \in Admins \ {a} : task'[b] = task[b]
    BY <1>7, <1>t, TaskSteps DEF Insert
  <2>4. \A d \in Channels : row'[d] = IF d = c THEN [parent |-> task[a].parent, rev |-> 1]
                                               ELSE row[d]
    BY <2>3, <1>t DEF ChannelTypeOK
  <2>5. [parent |-> task[a].parent, rev |-> 1].parent = task[a].parent OBVIOUS
  <2>6. channelMap' = channelMap BY <1>7 DEF Insert, cacheVars
  <2> HIDE DEF t
  <2> QED BY <2>2, <2>3, <2>4, <2>5, <2>6
<1>8. ASSUME NEW a \in Admins, SaveEdit(a) PROVE IdsTaken'
  <2> DEFINE c == task[a].channel
  <2>1. c \in Channels /\ task[a].op = "save" BY <1>8, <1>t DEF SaveEdit, TaskShape
  <2>2. \A d \in Channels : /\ row'[d] # None <=> row[d] # None
                            /\ row[d] # None => row'[d].parent = row[d].parent
    <3>1. CASE row[c] = None BY <1>8, <3>1 DEF SaveEdit
    <3>2. CASE row[c] # None
      <4>1. row' = [row EXCEPT ![c].rev = @ + 1] BY <1>8, <3>2 DEF SaveEdit
      <4>2. row'[c] \in Rows /\ row'[c].parent = row[c].parent
        BY <4>1, <3>2, <2>1, <1>r, <1>t DEF ChannelTypeOK, Rows, Revisions
      <4>3. row'[c] # None BY <4>2, ChannelAssumption
      <4> QED BY <4>1, <4>2, <4>3, <3>2, <1>t DEF ChannelTypeOK
    <3> QED BY <3>1, <3>2
  <2>3. \/ task' = [task EXCEPT ![a] = [@ EXCEPT !.op = "updated", !.rev = row[c].rev + 1]]
        \/ Go(a, "updated")
    BY <1>8 DEF SaveEdit
  <2>4. task[a] \in Tasks BY <1>t DEF ChannelTypeOK
  <2>5. /\ task'[a].op = "updated" /\ task'[a].channel = c /\ task'[a].parent = task[a].parent
        /\ \A b \in Admins \ {a} : task'[b] = task[b]
    <3>1. CASE Go(a, "updated") BY <3>1, <1>t, GoesOn
    <3>2. CASE task' = [task EXCEPT ![a] = [@ EXCEPT !.op = "updated", !.rev = row[c].rev + 1]]
      BY <3>2, <2>4, <1>t DEF ChannelTypeOK, Tasks
    <3> QED BY <2>3, <3>1, <3>2
  <2>6. created' = created /\ channelMap' = channelMap BY <1>8 DEF SaveEdit, cacheVars
  <2> QED BY <2>1, <2>2, <2>5, <2>6
<1>9. ASSUME NEW a \in Admins, NEW k \in Caches,
             HandleAdd(a, k) \/ HandleUpdate(a, k) \/ HandleDelete(a, k)
      PROVE  IdsTaken'
  <2>1. /\ k \in Untold(a) /\ Told(a, k) /\ row' = row /\ created' = created
        /\ task[a].op \in {"added", "updated", "removed"}
    BY <1>9 DEF HandleAdd, HandleUpdate, HandleDelete, tableVars
  <2>2. /\ \A b \in Admins \ {a} : task'[b] = task[b]
        /\ \/ task'[a] = NoTask
           \/ /\ task'[a].op = task[a].op
              /\ task'[a].channel = task[a].channel
              /\ task'[a].parent = task[a].parent
    BY <2>1, <1>t, Tells
  <2>3. \A i \in Caches, d \in Channels : channelMap'[i][d] # None =>
          d \in created /\ channelMap'[i][d].parent \in created \union {Root}
    <3>1. CASE HandleAdd(a, k)
      <4>1. task[a].op = "added" BY <3>1 DEF HandleAdd
      <4>2. /\ task[a].channel \in created /\ Announced(a).parent = task[a].parent
            /\ task[a].parent \in created \union {Root}
        BY <4>1 DEF Announced
      <4> QED BY <3>1, <4>2, MapSteps
    <3>2. CASE HandleUpdate(a, k)
      <4>1. \A d \in Channels : Object(d, k, task[a].no).parent = row[d].parent BY DEF Object
      <4> QED BY <3>2, <4>1, MapSteps
    <3>3. CASE HandleDelete(a, k) BY <3>3, MapSteps
    <3> QED BY <1>9, <3>1, <3>2, <3>3
  <2> QED BY <2>1, <2>2, <2>3, NoTaskType
<1>10. ASSUME NEW a \in Admins, FinishLoading(a) PROVE IdsTaken'
  <2>1. Done(a) /\ UNCHANGED <<tableVars, channelMap>> BY <1>10 DEF FinishLoading
  <2> QED BY <2>1, <1>t, NoTaskType, TaskSteps DEF tableVars
<1>11. ASSUME NEW a \in Admins, DeleteRows(a) PROVE IdsTaken'
  <2>1. /\ task[a].op = "remove" /\ created' = created /\ channelMap' = channelMap
        /\ \A d \in Channels : row'[d] = row[d] \/ row'[d] = None
        /\ Done(a) \/ Go(a, "removed")
    BY <1>11 DEF DeleteRows, Remove, cacheVars
  <2>3. /\ task'[a] = NoTask \/ (task'[a].op = "removed" /\ task'[a].channel = task[a].channel)
        /\ \A b \in Admins \ {a} : task'[b] = task[b]
    BY <2>1, <1>t, TaskSteps, GoesOn
  <2> QED BY <2>1, <2>3, NoTaskType
<1>12. ASSUME NEW a \in Admins, Relocate(a) PROVE IdsTaken'
  <2> DEFINE c == task[a].channel
             q == task[a].parent
  <2>1. c \in Channels /\ q \in Nodes BY <1>12, <1>t DEF Relocate, TaskShape
  <2>3. /\ task'[a].op \in {"idle", "moved"}
        /\ \A b \in Admins \ {a} : task'[b] = task[b]
    <3>1. Done(a) \/ Go(a, "moved") BY <1>12 DEF Relocate
    <3> QED BY <3>1, NoTaskType, <1>t, TaskSteps, GoesOn
  <2>4. \A d \in Channels : row'[d] # None =>
          row[d] # None /\ (row'[d].parent = row[d].parent \/ (row'[d].parent = q /\ InTable(q)))
    <3>1. CASE UNCHANGED row BY <3>1
    <3>2. CASE row' = [row EXCEPT ![c].parent = q] /\ row[c] # None /\ InTable(q)
      BY <3>2, <2>1, <1>r, <1>t DEF ChannelTypeOK, Rows
    <3> QED BY <1>12, <3>1, <3>2 DEF Relocate
  <2>5. InTable(q) => q \in created \union {Root} BY <2>1 DEF InTable
  <2>6. created' = created /\ channelMap' = channelMap BY <1>12 DEF Relocate, cacheVars
  <2> QED BY <2>3, <2>4, <2>5, <2>6
<1>13. ASSUME NEW a \in Admins, StartLoading(a) PROVE IdsTaken'
  <2>1. (Done(a) \/ Go(a, "load")) /\ UNCHANGED <<tableVars, channelMap>>
    BY <1>13 DEF StartLoading
  <2>3. task'[a].op \in {"idle", "load"} /\ \A b \in Admins \ {a} : task'[b] = task[b]
    BY <2>1, NoTaskType, <1>t, TaskSteps, GoesOn
  <2> QED BY <2>1, <2>3 DEF tableVars
<1>14. ASSUME NEW a \in Admins, NEW n \in Nodes, LoadSubChannels(a, n) PROVE IdsTaken'
  <2>1. UNCHANGED <<tableVars, task>> BY <1>14 DEF LoadSubChannels
  <2>2. \A i \in Caches, d \in Channels :
          \/ channelMap'[i][d] = channelMap[i][d]
          \/ row[d] # None /\ channelMap'[i][d].parent = row[d].parent
    BY <1>14, <1>t, LoadSteps
  <2> QED BY <2>1, <2>2 DEF tableVars
<1>15. CASE UNCHANGED channelVars BY <1>15 DEF channelVars, tableVars, cacheVars
<1> QED BY <1>2, <1>3, <1>4, <1>5, <1>6, <1>7, <1>8, <1>9, <1>10, <1>11, <1>12, <1>13, <1>14,
           <1>15 DEF ChannelNext, AdminStep

\* Each step is one request's, which begins or goes on.
LEMMA OneRequest ==
  ASSUME TypesInv, Alone, NEW a \in Admins, AdminStep(a)
  PROVE  /\ \A b \in Admins \ {a} : task'[b] = task[b]
         /\ \/ \E t : /\ Start(a, t) /\ task'[a].op = t.op
                      /\ t.op \notin {"idle", "moved", "load"}
                      /\ UNCHANGED <<tableVars, cacheVars, loadVars>>
            \/ /\ task[a].op # "idle"
               /\ task'[a].op \in ReloadSteps => task[a].op \in ReloadSteps
               /\ task'[a].op = "idle" => task'[a] = NoTask
               /\ task'[a].op = "moved" => row'[task'[a].channel] # None
               /\ \/ loader' = loader /\ (task'[a].op = "load" <=> task[a].op = "load")
                  \/ loader = None /\ loader' = a /\ task'[a].op = "load"
                  \/ loader = a /\ loader' = None /\ task'[a].op # "load"
<1>t. ChannelTypeOK /\ TaskShape BY DEF TypesInv
<1>n. NoTask.op = "idle" BY NoTaskType
<1> USE DEF ReloadSteps
<1>1. ASSUME NEW t \in Tasks, Start(a, t)
      PROVE  task'[a].op = t.op /\ \A b \in Admins \ {a} : task'[b] = task[b]
  <2>1. task' = [task EXCEPT ![a] = [t EXCEPT !.no = operations + 1]] BY <1>1 DEF Start
  <2>2. [t EXCEPT !.no = operations + 1].op = t.op BY <1>1 DEF Tasks
  <2> QED BY <2>1, <2>2, <1>t, TaskSteps
<1>2. CASE (\E p \in Nodes : OpenCreate(a, p)) \/ (\E c \in Channels : OpenEdit(a, c))
            \/ (\E c \in Channels : OpenDelete(a, c)) \/ OpenReset(a)
            \/ (\E c \in Channels, q \in Nodes : OpenMove(a, c, q))
  <2>r. \A c \in Channels : row[c] # None => row[c].parent \in Nodes
    BY <1>t DEF ChannelTypeOK, Rows
  <2>m. \A c \in Channels : Shown(c) => channelMap[latest][c].parent \in Nodes
    <3> SUFFICES ASSUME NEW c \in Channels, Shown(c) PROVE channelMap[latest][c].parent \in Nodes
      OBVIOUS
    <3>1. latest \in Caches /\ channelMap[latest][c] # None
      BY <1>t, ChannelAssumption DEF Shown, InCache, ChannelTypeOK
    <3>2. channelMap[latest][c] \in Objects BY <3>1, <1>t DEF ChannelTypeOK
    <3> QED BY <3>2 DEF Objects
  <2>1. \A p \in Nodes : /\ [NoTask EXCEPT !.op = "insert", !.parent = p] \in Tasks
                         /\ [NoTask EXCEPT !.op = "insert", !.parent = p].op = "insert"
    BY DEF NoTask, Tasks
  <2>2. \A c \in Channels, p \in Nodes :
          /\ [NoTask EXCEPT !.op = "save", !.channel = c, !.parent = p] \in Tasks
          /\ [NoTask EXCEPT !.op = "save", !.channel = c, !.parent = p].op = "save"
          /\ [NoTask EXCEPT !.op = "remove", !.channel = c, !.parent = p] \in Tasks
          /\ [NoTask EXCEPT !.op = "remove", !.channel = c, !.parent = p].op = "remove"
          /\ [NoTask EXCEPT !.op = "relocate", !.channel = c, !.parent = p] \in Tasks
          /\ [NoTask EXCEPT !.op = "relocate", !.channel = c, !.parent = p].op = "relocate"
    BY DEF NoTask, Tasks
  <2>3. [NoTask EXCEPT !.op = "reset"] \in Tasks /\ [NoTask EXCEPT !.op = "reset"].op = "reset"
    BY DEF NoTask, Tasks
  <2>4. \E t \in Tasks : Start(a, t) /\ t.op \notin {"idle", "moved", "load"}
                         /\ UNCHANGED <<tableVars, cacheVars, loadVars>>
    <3>1. CASE \E p \in Nodes : OpenCreate(a, p) BY <3>1, <2>1 DEF OpenCreate
    <3>2. CASE \E c \in Channels : OpenEdit(a, c) BY <3>2, <2>2, <2>r DEF OpenEdit
    <3>3. CASE \E c \in Channels : OpenDelete(a, c) BY <3>3, <2>2, <2>m DEF OpenDelete
    <3>4. CASE OpenReset(a) BY <3>4, <2>3 DEF OpenReset
    <3>5. CASE \E c \in Channels, q \in Nodes : OpenMove(a, c, q) BY <3>5, <2>2 DEF OpenMove
    <3> QED BY <1>2, <3>1, <3>2, <3>3, <3>4, <3>5
  <2> QED BY <2>4, <1>1
<1>3. ASSUME Done(a)
      PROVE  task'[a] = NoTask /\ \A b \in Admins \ {a} : task'[b] = task[b]
  BY <1>3, <1>t, TaskSteps
<1>4. ASSUME NEW k \in Caches, HandleAdd(a, k) \/ HandleUpdate(a, k) \/ HandleDelete(a, k)
      PROVE  /\ \A b \in Admins \ {a} : task'[b] = task[b]
             /\ task[a].op \in {"added", "updated", "removed"}
             /\ task'[a] = NoTask \/ task'[a].op = task[a].op
             /\ loader' = loader
  <2>1. /\ k \in Untold(a) /\ Told(a, k) /\ loader' = loader
        /\ task[a].op \in {"added", "updated", "removed"}
    BY <1>4 DEF HandleAdd, HandleUpdate, HandleDelete, loadVars
  <2> QED BY <2>1, <1>t, Tells
<1>5. CASE FinishLoading(a)
  BY <1>5, <1>3, <1>n DEF FinishLoading, Alone
<1>6. ASSUME NEW c \in Channels, Insert(a, c)
      PROVE  /\ \A b \in Admins \ {a} : task'[b] = task[b]
             /\ task[a].op = "insert" /\ task'[a].op = "added"
             /\ loader' = loader
  <2>1. task' = [task EXCEPT ![a] = [@ EXCEPT !.op = "added", !.channel = c, !.rev = 1]]
        /\ task[a].op = "insert"
    BY <1>6 DEF Insert
  <2>2. task[a] \in Tasks BY <1>t DEF ChannelTypeOK
  <2>3. loader' = loader BY <1>6 DEF Insert, loadVars
  <2> QED BY <2>1, <2>2, <2>3, <1>t DEF ChannelTypeOK, Tasks
<1>7. ASSUME SaveEdit(a)
      PROVE  /\ \A b \in Admins \ {a} : task'[b] = task[b]
             /\ task[a].op = "save" /\ task'[a].op = "updated"
             /\ loader' = loader
  <2>1. CASE Go(a, "updated")
    BY <1>7, <2>1, <1>t, GoesOn DEF SaveEdit, loadVars
  <2>2. CASE task' = [task EXCEPT ![a] = [@ EXCEPT !.op = "updated",
                                                  !.rev = row[task[a].channel].rev + 1]]
    <3>1. task[a] \in Tasks BY <1>t DEF ChannelTypeOK
    <3> QED BY <1>7, <2>2, <3>1, <1>t DEF SaveEdit, ChannelTypeOK, Tasks, loadVars
  <2> QED BY <1>7, <2>1, <2>2 DEF SaveEdit
<1>8. CASE DeleteRows(a)
  <2>1. task[a].op = "remove" /\ loader' = loader BY <1>8 DEF DeleteRows, loadVars
  <2>2. CASE Go(a, "removed") BY <2>1, <2>2, <1>t, GoesOn
  <2>3. CASE Done(a) BY <2>1, <2>3, <1>3, <1>n
  <2> QED BY <1>8, <2>2, <2>3 DEF DeleteRows
<1>9. CASE Relocate(a)
  <2>1. task[a].op = "relocate" /\ loader' = loader BY <1>9 DEF Relocate, loadVars
  <2>2. CASE row' = [row EXCEPT ![task[a].channel].parent = task[a].parent]
             /\ row[task[a].channel] # None /\ Go(a, "moved")
    <3>1. task[a].channel \in Channels /\ task[a].parent \in Nodes
      BY <2>1, <1>t DEF TaskShape
    <3>2. row[task[a].channel] \in Rows BY <2>2, <3>1, <1>t DEF ChannelTypeOK
    <3>3. row'[task[a].channel] \in Rows BY <2>2, <3>1, <3>2, <1>t DEF ChannelTypeOK, Rows
    <3> QED BY <2>1, <2>2, <3>3, <1>t, GoesOn, ChannelAssumption
  <2>3. CASE Done(a) BY <2>1, <2>3, <1>3, <1>n
  <2> QED BY <1>9, <2>2, <2>3 DEF Relocate
<1>10. CASE StartLoading(a)
  <2>1. task[a].op \in {"moved", "reset"} BY <1>10 DEF StartLoading
  <2>2. CASE Go(a, "load") /\ loader = None /\ loader' = a BY <2>1, <2>2, <1>t, GoesOn
  <2>3. CASE Done(a) /\ UNCHANGED loadVars BY <2>1, <2>3, <1>3, <1>n DEF loadVars
  <2> QED BY <1>10, <2>2, <2>3 DEF StartLoading
<1>11. ASSUME NEW n \in Nodes, LoadSubChannels(a, n)
       PROVE  task' = task /\ loader' = loader /\ task[a].op = "load"
  BY <1>11 DEF LoadSubChannels, Alone
<1>12. CASE \E k \in Caches : HandleAdd(a, k) \/ HandleUpdate(a, k) \/ HandleDelete(a, k)
  BY <1>12, <1>4, <1>n
<1> QED BY <1>2, <1>12, <1>5, <1>6, <1>7, <1>8, <1>9, <1>10, <1>11 DEF AdminStep

\* Every step keeps that a request that reloads is the only one.
LEMMA AloneNext ==
  ASSUME Reloads = "alone", TypesInv, Alone, [ChannelNext]_channelVars
  PROVE  Alone'
<1> USE DEF Alone
<1>n. NoTask.op = "idle" /\ NoTask.op \notin ReloadSteps BY NoTaskType DEF ReloadSteps
<1>1. ASSUME NEW x \in Admins, AdminStep(x) PROVE Alone'
  <2>1. \A b \in Admins \ {x} : task'[b] = task[b] BY <1>1, OneRequest
  <2>2. CASE \E t : /\ Start(x, t) /\ task'[x].op = t.op
                    /\ t.op \notin {"idle", "moved", "load"}
                    /\ UNCHANGED <<tableVars, cacheVars, loadVars>>
    <3>1. PICK t : /\ Start(x, t) /\ task'[x].op = t.op
                   /\ t.op \notin {"idle", "moved", "load"}
                   /\ UNCHANGED <<tableVars, cacheVars, loadVars>>
      BY <2>2
    <3>2. task[x] = NoTask BY <3>1 DEF Start
    <3>3. ASSUME NEW a \in Admins, NEW b \in Admins, a # b, task'[a].op \in ReloadSteps
          PROVE  task'[b] = NoTask
      <4>1. \A c \in Admins \ {x} : IF t.op \in ReloadSteps THEN task[c] = NoTask
                                                            ELSE task[c].op \notin ReloadSteps
        BY <3>1 DEF Start, Reloading
      <4> QED BY <1>n, <4>1, <3>1, <3>2, <3>3, <2>1
    <3>4. \A a \in Admins : /\ task'[a].op = "moved" => row'[task'[a].channel] # None
                            /\ task'[a].op = "load" <=> loader' = a
      BY <3>1, <3>2, <2>1, <1>n DEF tableVars, loadVars
    <3> QED BY <3>3, <3>4
  <2>3. CASE /\ task[x].op # "idle"
             /\ task'[x].op \in ReloadSteps => task[x].op \in ReloadSteps
             /\ task'[x].op = "idle" => task'[x] = NoTask
             /\ task'[x].op = "moved" => row'[task'[x].channel] # None
             /\ \/ loader' = loader /\ (task'[x].op = "load" <=> task[x].op = "load")
                \/ loader = None /\ loader' = x /\ task'[x].op = "load"
                \/ loader = x /\ loader' = None /\ task'[x].op # "load"
    <3>1. \A a \in Admins \ {x} : task[a].op \notin ReloadSteps BY <2>3, <1>n
    <3>2. \A a \in Admins \ {x} : task'[a].op \notin {"moved", "load"} /\ loader # a
      BY <3>1, <2>1 DEF ReloadSteps
    <3>3. \A a \in Admins : /\ task'[a].op = "moved" => row'[task'[a].channel] # None
                            /\ task'[a].op = "load" <=> loader' = a
      BY <3>2, <2>1, <2>3, ChannelAssumption
    <3>4. \A a, b \in Admins : a # b /\ task'[a].op \in ReloadSteps => task'[b] = NoTask
      BY <3>1, <2>1, <2>3
    <3> QED BY <3>3, <3>4
  <2> QED BY <1>1, <2>2, <2>3, OneRequest
<1>2. CASE UNCHANGED channelVars BY <1>2 DEF channelVars, tableVars, loadVars
<1> QED BY <1>1, <1>2 DEF ChannelNext

\* A handler changes a list that its cache uses, and makes no other.
LEMMA HandlersLists ==
  ASSUME TypesInv, NEW a \in Admins, NEW k \in Caches,
         HandleAdd(a, k) \/ HandleUpdate(a, k) \/ HandleDelete(a, k)
  PROVE  /\ k \in 1..latest
         /\ UNCHANGED <<tableVars, latest, visible, loadVars, operations>>
         /\ \A i \in Caches \ {k} :
              /\ \A n \in Nodes : holder'[i][n] = holder[i][n]
              /\ \A c \in Channels : channelMap'[i][c] = channelMap[i][c]
         /\ made \subseteq made'
         /\ \A h \in Holders, n \in Nodes : h \notin {k, Event} =>
              (<<h, n>> \in made' => <<h, n>> \in made)
<1>t. ChannelTypeOK /\ TaskShape /\ CacheShape BY DEF TypesInv
<1>1. k \in Untold(a) /\ Told(a, k)
      /\ UNCHANGED <<tableVars, latest, visible, loadVars, operations>>
  BY DEF HandleAdd, HandleUpdate, HandleDelete
<1>2. k \in 1..latest BY <1>1, <1>t, Tells
<1>3. \A i \in Caches \ {k}, c \in Channels : channelMap'[i][c] = channelMap[i][c]
  BY MapSteps
<1>4. \A i \in Caches \ {k}, n \in Nodes : holder'[i][n] = holder[i][n]
  <2>1. holder' = holder \/ \E c, h : holder' = [holder EXCEPT ![k][c] = h]
    BY DEF HandleAdd, HandleUpdate, HandleDelete, listVars
  <2> QED BY <2>1, <1>t DEF ChannelTypeOK
<1>5. made' = made \/ \E p \in Nodes : made' = made \union {<<holder[k][p], p>>}
  <2>1. CASE HandleAdd(a, k)
    <3>1. task[a].parent \in Nodes BY <2>1, <1>t DEF HandleAdd, TaskShape
    <3> QED BY <2>1, <3>1 DEF HandleAdd, listVars
  <2> QED BY <2>1 DEF HandleUpdate, HandleDelete, listVars
<1>6. \A p \in Nodes : holder[k][p] \in {k, Event} BY <1>t DEF CacheShape
<1> QED BY <1>1, <1>2, <1>3, <1>4, <1>5, <1>6

\* Every step keeps that the caches that are not listening yet are empty.
LEMMA UnusedNext ==
  ASSUME TypesInv, Unused, [ChannelNext]_channelVars
  PROVE  Unused'
<1>t. ChannelTypeOK BY DEF TypesInv
<1>l. latest \in Nat BY <1>t, Bounds DEF ChannelTypeOK
<1> USE DEF Unused
<1>1. CASE UNCHANGED <<channelMap, listVars, latest, loader>> BY <1>1 DEF listVars
<1>2. ASSUME NEW a \in Admins, NEW k \in Caches,
             HandleAdd(a, k) \/ HandleUpdate(a, k) \/ HandleDelete(a, k)
      PROVE  Unused'
  <2>1. /\ k \in 1..latest /\ latest' = latest /\ loader' = loader
        /\ \A i \in Caches \ {k} :
             /\ \A n \in Nodes : holder'[i][n] = holder[i][n]
             /\ \A c \in Channels : channelMap'[i][c] = channelMap[i][c]
        /\ \A h \in Holders, n \in Nodes : h \notin {k, Event} =>
             (<<h, n>> \in made' => <<h, n>> \in made)
    BY <1>2, HandlersLists DEF loadVars
  <2>2. \A i \in Caches : i > latest => i # k /\ i # Event /\ i \in Holders
    BY <2>1, <1>l DEF Event, Holders
  <2>3. \A i \in Caches : i > latest + 1 => i > latest BY <1>l DEF Caches
  <2>4. \A i \in Caches : i > latest =>
          /\ \A n \in Nodes : holder'[i][n] = holder[i][n]
          /\ \A c \in Channels : channelMap'[i][c] = channelMap[i][c]
          /\ \A n \in Nodes : <<i, n>> \in made' => <<i, n>> \in made
    BY ONLY <2>1, <2>2
  <2> QED BY <2>1, <2>3, <2>4
<1>3. ASSUME NEW a \in Admins, NEW n \in Nodes, LoadSubChannels(a, n) PROVE Unused'
  <2>1. /\ loader = a /\ loader' = loader /\ holder' = holder /\ latest' = latest
        /\ \A i \in Caches, d \in Channels :
             i # latest + 1 => channelMap'[i][d] = channelMap[i][d]
        /\ made' \subseteq made \union {<<latest + 1, n>>}
    BY <1>3, <1>t, LoadSteps
  <2>2. loader # None BY <2>1, ChannelAssumption
  <2> QED BY <2>1, <2>2, <1>l
<1>4. ASSUME NEW a \in Admins, FinishLoading(a) PROVE Unused'
  <2>1. latest' = latest + 1 /\ UNCHANGED <<channelMap, holder, made>>
    BY <1>4 DEF FinishLoading, listVars
  <2>2. \A i \in Caches : i \in Nat BY DEF Caches
  <2>3. \A i \in Caches : i > latest' => i > latest /\ i > latest + 1
    BY ONLY <2>1, <2>2, <1>l
  <2>4. \A i \in Caches : i > latest' + 1 => i > latest' BY ONLY <2>1, <2>2, <1>l
  <2> QED BY <2>1, <2>3, <2>4
<1>5. ASSUME NEW a \in Admins, StartLoading(a) PROVE Unused'
  <2>1. /\ UNCHANGED <<channelMap, holder, made, latest>>
        /\ loader' = loader \/ loader = None
    BY <1>5 DEF StartLoading, listVars, loadVars
  <2>2. \A i \in Caches : i \in Nat BY DEF Caches
  <2>3. \A i \in Caches : i > latest + 1 => i > latest BY <2>2, <1>l
  <2> QED BY <2>1, <2>3
<1>6. ASSUME NEW a \in Admins, AdminStep(a) PROVE Unused'
  <2>1. \/ UNCHANGED <<channelMap, listVars, latest, loader>>
        \/ \E k \in Caches : HandleAdd(a, k) \/ HandleUpdate(a, k) \/ HandleDelete(a, k)
        \/ \E n \in Nodes : LoadSubChannels(a, n)
        \/ FinishLoading(a)
        \/ StartLoading(a)
    BY <1>6 DEF AdminStep, OpenCreate, Insert, OpenEdit, SaveEdit, OpenDelete, DeleteRows,
                OpenMove, Relocate, OpenReset, cacheVars, loadVars
  <2> QED BY <2>1, <1>1, <1>2, <1>3, <1>4, <1>5
<1>7. CASE UNCHANGED channelVars BY <1>7, <1>1 DEF channelVars, cacheVars, loadVars
<1> QED BY <1>6, <1>7 DEF ChannelNext
-----------------------------------------------------------------------------
(* The channels below another *)

\* The channels below n are there, and hang below n or one of them.
LEMMA BelowParent ==
  ASSUME NEW n \in Nodes, NEW d \in Below(n)
  PROVE  d \in Channels /\ row[d] # None /\ row[d].parent \in Below(n) \union {n}
<1> DEFINE T == {e \in Below(n) : row[e] # None /\ row[e].parent \in Below(n) \union {n}}
<1>1. T \in SUBSET Channels BY DEF Below
<1>2. ASSUME NEW e \in Channels, row[e] # None, row[e].parent \in T \union {n} PROVE e \in T
  <2>1. row[e].parent \in Below(n) \union {n} BY <1>2
  <2>2. e \in Below(n) BY <1>2, <2>1 DEF Below
  <2> QED BY <1>2, <2>1, <2>2
<1> HIDE DEF T
<1>3. d \in T BY <1>1, <1>2 DEF Below
<1> QED BY <1>1, <1>3 DEF T

\* A child of n, or of a channel below n, is below n.
LEMMA ChildBelow ==
  ASSUME NEW n \in Nodes, NEW d \in Channels, row[d] # None, row[d].parent \in Below(n) \union {n}
  PROVE  d \in Below(n)
  BY DEF Below

\* A channel without children is not below itself.
LEMMA LeafNotBelow ==
  ASSUME NEW c \in Channels, \A d \in Channels : row[d] # None => row[d].parent # c
  PROVE  c \notin Below(c)
<1>1. \A d \in Channels : row[d] # None /\ row[d].parent \in {} \union {c} => d \in {} OBVIOUS
<1>2. {} \in SUBSET Channels OBVIOUS
<1> QED BY <1>1, <1>2 DEF Below

\* Nor does a step bring it there that only deletes, or adds a channel without children.
LEMMA StaysNotBelow ==
  ASSUME NEW c \in Channels, c \notin Below(c), NEW e, c # e,
         \A d \in Channels \ {e} : row'[d] # None =>
           row[d] # None /\ row'[d].parent = row[d].parent,
         \A d \in Channels : row'[d] # None => row'[d].parent # e
  PROVE  c \notin Below(c)'
<1>1. PICK S \in SUBSET Channels :
        /\ \A d \in Channels : row[d] # None /\ row[d].parent \in S \union {c} => d \in S
        /\ c \notin S
  BY DEF Below
<1> DEFINE T == S \union (Channels \intersect {e})
<1>2. T \in SUBSET Channels /\ c \notin T BY <1>1
<1>3. ASSUME NEW d \in Channels, row'[d] # None, row'[d].parent \in T \union {c} PROVE d \in T
  <2>1. CASE d = e BY <2>1
  <2>2. CASE d # e
    <3>1. row[d] # None /\ row[d].parent \in S \union {c} BY <1>3, <2>2
    <3> QED BY <3>1, <1>1
  <2> QED BY <2>1, <2>2
<1> HIDE DEF T
<1> QED BY <1>2, <1>3 DEF Below

\* A channel that is reached from the root is not below itself.
LEMMA RootedNotBelow ==
  ASSUME NEW c \in Below(Root)
  PROVE  c \notin Below(c)
<1>1. c \in Channels BY DEF Below
<1> DEFINE S == Channels \ Below(c)
<1>2. ASSUME c \in Below(c), NEW d \in Channels, row[d] # None, row[d].parent \in S \union {Root}
      PROVE  d \in S
  <2>1. ASSUME d \in Below(c) PROVE FALSE
    <3>1. row[d].parent \in Below(c) \union {c} BY <2>1, <1>1, BelowParent DEF Nodes
    <3>2. row[d].parent \in Below(c) BY <3>1, <1>2
    <3>3. Below(c) \subseteq Channels BY DEF Below
    <3> QED BY <3>2, <3>3, <1>2, ChannelAssumption
  <2> QED BY <2>1
<1>3. S \in SUBSET Channels OBVIOUS
<1> QED BY <1>1, <1>2, <1>3 DEF Below
-----------------------------------------------------------------------------
(* The steps of requests while no cache is being loaded *)

\* While no request reloads, nobody loads and readers find the cache.
LEMMA NotLoading ==
  ASSUME RequestsInv, ~Renewing
  PROVE  loader = None /\ visible /\ latest \in Caches /\ latest \in 1..latest /\ latest \in Nat
<1>1. loader = None /\ visible /\ latest \in Caches
  BY DEF RequestsInv, TypesInv, Alone, Renewing, ChannelTypeOK
<1>2. latest \in 1..MaxCaches BY <1>1 DEF Caches
<1> QED BY <1>1, <1>2, Bounds

\* What the requests know after one of them has told a cache.
LEMMA Hears ==
  ASSUME TypesInv, NEW x \in Admins, NEW k \in Untold(x), Told(x, k), latest' = latest
  PROVE  /\ \A b \in Admins :
              \/ task'[b] = NoTask
              \/ /\ task'[b].op = task[b].op
                 /\ task'[b].channel = task[b].channel
                 /\ task'[b].parent = task[b].parent
                 /\ task'[b].rev = task[b].rev
         /\ \A b \in Admins \ {x} : task'[b] = task[b] /\ (Waiting(b)' <=> Waiting(b))
         /\ k = latest => task'[x] = NoTask \/ ~Waiting(x)'
         /\ k # latest => IF task'[x] = NoTask THEN ~Waiting(x) ELSE Waiting(x)' <=> Waiting(x)
<1>1. ChannelTypeOK /\ TaskShape BY DEF TypesInv
<1>2. /\ \A b \in Admins \ {x} : task'[b] = task[b]
      /\ \/ task'[x] = NoTask /\ Untold(x) = {k}
         \/ /\ task'[x].op = task[x].op
            /\ task'[x].channel = task[x].channel
            /\ task'[x].parent = task[x].parent
            /\ task'[x].rev = task[x].rev
            /\ task'[x].telling = Untold(x) \ {k}
            /\ task'[x].telling # {}
  BY <1>1, Tells
<1>3. \A b \in Admins \ {x} : Waiting(b)' <=> Waiting(b) BY <1>2 DEF Waiting, Untold
<1>4. \/ task'[x] = NoTask /\ Untold(x) = {k}
      \/ Untold(x)' = Untold(x) \ {k}
  <2>1. CASE task'[x].telling = Untold(x) \ {k} /\ task'[x].telling # {}
    <3>1. Untold(x)' = task'[x].telling BY <2>1 DEF Untold
    <3> QED BY <2>1, <3>1
  <2> QED BY <1>2, <2>1
<1>5. /\ k = latest => task'[x] = NoTask \/ ~Waiting(x)'
      /\ k # latest => IF task'[x] = NoTask THEN ~Waiting(x) \/ Untold(x)' = Untold(x) \ {k}
                                             ELSE Waiting(x)' <=> Waiting(x)
  BY <1>4 DEF Waiting
<1>6. ASSUME task'[x] = NoTask PROVE Untold(x) = {k}
  <2>1. CASE Untold(x) = {k} BY <2>1
  <2>2. CASE Untold(x) # {k}
    <3>1. task'[x].telling # {} BY <1>2, <2>2
    <3> QED BY <3>1, <1>6, NoTaskType
  <2> QED BY <2>1, <2>2
<1>7. k # latest /\ task'[x] = NoTask => ~Waiting(x) BY <1>6 DEF Waiting
<1> QED BY <1>2, <1>3, <1>5, <1>7

\* The lists keep an entry of every channel that exists, and keep it up to date.
LEMMA ListsGoOn ==
  ASSUME TypesInv, NEW x \in Admins, NEW k \in Caches, Removing(x),
         HandleAdd(x, k) \/ HandleUpdate(x, k) \/ HandleDelete(x, k),
         NEW h \in Holders, NEW n \in Nodes, NEW c \in Channels, row[c] # None,
         NEW e \in subchnls[h][n], e.object.id = c
  PROVE  \E f \in subchnls'[h][n] :
           f.object.id = c /\ (UpToDate(e.object) => UpToDate(f.object))
<1>t. ChannelTypeOK /\ TaskShape /\ CacheShape BY DEF TypesInv
<1>1. CASE subchnls'[h][n] = subchnls[h][n] BY <1>1
<1>2. CASE HandleAdd(x, k) /\ subchnls'[h][n] # subchnls[h][n]
  <2>1. task[x].parent \in Nodes /\ task[x].channel \in Channels
    BY <1>2, <1>t DEF HandleAdd, TaskShape
  <2>2. holder[k][task[x].parent] \in Holders BY <2>1, <1>t DEF ChannelTypeOK
  <2>3. subchnls' = [subchnls EXCEPT ![holder[k][task[x].parent]][task[x].parent] =
                       @ \union {[by |-> k, object |-> Announced(x)]}]
    BY <1>2 DEF HandleAdd, listVars, Announced
  <2>4. subchnls[h][n] \subseteq subchnls'[h][n] BY <2>1, <2>2, <2>3, <1>t DEF ChannelTypeOK
  <2> QED BY <2>4
<1>3. CASE HandleUpdate(x, k) /\ subchnls'[h][n] # subchnls[h][n]
  <2> DEFINE d == task[x].channel
             p == task[x].parent
             o == Object(d, k, task[x].no)
  <2>1. p \in Nodes /\ d \in Channels /\ task[x].no \in Nat
    BY <1>3, <1>t DEF HandleUpdate, TaskShape, ChannelTypeOK, Tasks
  <2>2. row[d] # None /\ Replace(k, p, o) BY <1>3 DEF HandleUpdate, listVars
  <2>3. o \in Objects /\ o.id = d /\ UpToDate(o) BY <2>1, <2>2, <1>t, ObjectType
  <2> HIDE DEF d, p, o
  <2>4. PICK g \in EntriesOf(k, p, o.id), f \in Entries :
          f.object = o /\ subchnls'[h][n] = (subchnls[h][n] \ {g}) \union {f}
    BY ONLY <1>3, <2>1, <2>2, <2>3, ReplaceTypes, TypesInv, k \in Caches, h \in Holders, n \in Nodes
  <2>5. g.object.id = d BY <2>3, <2>4 DEF EntriesOf
  <2>6. CASE e = g
    <3>1. f \in subchnls'[h][n] /\ f.object.id = c /\ UpToDate(f.object)
      BY <2>3, <2>4, <2>5, <2>6
    <3> QED BY <3>1
  <2>7. CASE e # g BY <2>4, <2>7
  <2> QED BY <2>6, <2>7
<1>4. CASE HandleDelete(x, k) /\ subchnls'[h][n] # subchnls[h][n]
  <2> DEFINE d == task[x].channel
             p == task[x].parent
  <2>1. p \in Nodes /\ d \in Channels /\ task[x].op = "removed"
    BY <1>4, <1>t DEF HandleDelete, TaskShape
  <2>2. row[d] = None /\ Leave(k, p, d) BY <1>4, <2>1 DEF HandleDelete, Removing
  <2> HIDE DEF d, p
  <2>3. \A g \in subchnls[h][n] \ subchnls'[h][n] : g.object.id = d
    BY <2>1, <2>2, LeaveTypes
  <2>4. e \in subchnls'[h][n] BY <2>2, <2>3
  <2> QED BY <2>4
<1> QED BY <1>1, <1>2, <1>3, <1>4

\* What another cache is told changes nothing between the site's cache and the table.
LEMMA OtherCacheKeeps ==
  ASSUME RequestsInv, ~Renewing, InStep, NEW x \in Admins, NEW k \in Caches, k # latest,
         HandleAdd(x, k) \/ HandleUpdate(x, k) \/ HandleDelete(x, k)
  PROVE  InStep'
<1>t. ChannelTypeOK /\ TaskShape /\ CacheShape /\ TypesInv BY DEF RequestsInv, TypesInv
<1>l. latest \in Caches BY NotLoading
<1>1. /\ row' = row /\ latest' = latest /\ created' = created
      /\ \A c \in Channels : Cached(c)' = Cached(c)
      /\ \A n \in Nodes : holder'[latest][n] = holder[latest][n]
      /\ made \subseteq made'
  BY <1>t, <1>l, HandlersLists DEF Cached, tableVars
<1>2. /\ k \in Untold(x) /\ Told(x, k)
  BY DEF HandleAdd, HandleUpdate, HandleDelete
<1>3. /\ \A b \in Admins :
           \/ task'[b] = NoTask
           \/ /\ task'[b].op = task[b].op
              /\ task'[b].channel = task[b].channel
              /\ task'[b].parent = task[b].parent
              /\ task'[b].rev = task[b].rev
      /\ \A b \in Admins \ {x} : task'[b] = task[b] /\ (Waiting(b)' <=> Waiting(b))
      /\ IF task'[x] = NoTask THEN ~Waiting(x) ELSE Waiting(x)' <=> Waiting(x)
  BY <1>1, <1>2, <1>t, Hears
<1>4. /\ \A n : InTable(n)' <=> InTable(n)
      /\ \A n \in Nodes : InCache(latest, n)' <=> InCache(latest, n)
      /\ \A n \in Nodes : Below(n)' = Below(n)
      /\ \A o : UpToDate(o)' <=> UpToDate(o)
  <2>1. \A n \in Nodes : InCache(latest, n)' <=> InCache(latest, n)
    BY <1>1 DEF InCache, Cached
  <2> QED BY <1>1, <2>1 DEF InTable, Below, UpToDate
<1>5. \A op \in {"added", "updated", "removed"}, c \in Channels : Pending(op, c) => Pending(op, c)'
  <2> SUFFICES ASSUME NEW op \in {"added", "updated", "removed"}, NEW c \in Channels,
                      NEW b \in Admins, task[b].op = op, task[b].channel = c, Waiting(b)
               PROVE  Pending(op, c)'
    BY DEF Pending
  <2>1. task'[b].op = op /\ task'[b].channel = c /\ Waiting(b)'
    <3>1. CASE b = x
      <4>1. task'[x] # NoTask BY <3>1, <1>3
      <4> QED BY <3>1, <4>1, <1>3
    <3>2. CASE b # x BY <3>2, <1>3
    <3> QED BY <3>1, <3>2
  <2> QED BY <2>1 DEF Pending
<1>6. ASSUME NEW a \in Admins PROVE (Adding(a) /\ Editing(a) /\ Removing(a))'
  <2>0. Adding(a) /\ Editing(a) /\ Removing(a) BY DEF InStep, Handlers
  <2>1. CASE task'[a] = NoTask BY <2>1, NoTaskType DEF Adding, Editing, Removing
  <2>2. CASE task'[a] # NoTask
    <3>1. /\ task'[a].op = task[a].op /\ task'[a].channel = task[a].channel
          /\ task'[a].parent = task[a].parent /\ task'[a].rev = task[a].rev
          /\ Waiting(a)' <=> Waiting(a)
      BY <2>2, <1>3
    <3>2. Adding(a)'
      <4> SUFFICES ASSUME task[a].op = "added", Waiting(a) PROVE Adding(a)'
        BY <3>1 DEF Adding
      <4>1. task[a].channel \in Channels BY <1>t DEF TaskShape
      <4> QED BY <2>0, <3>1, <4>1, <1>1, <1>3, <1>4, NoTaskType DEF Adding
    <3>3. Editing(a)' BY <2>0, <3>1, <1>1 DEF Editing
    <3>4. Removing(a)'
      <4> SUFFICES ASSUME task[a].op \in {"remove", "removed"} PROVE Removing(a)'
        BY <3>1 DEF Removing
      <4>1. task[a].channel \in Channels BY <1>t DEF TaskShape
      <4> QED BY <2>0, <3>1, <4>1, <1>1, <1>4 DEF Removing, Nodes
    <3> QED BY <3>2, <3>3, <3>4
  <2> QED BY <2>1, <2>2
<1>7. ASSUME NEW c \in Channels PROVE Follows(c)'
  <2>0. Follows(c) BY DEF InStep
  <2>1. /\ Cached(c) # None => Cached(c).parent \in Nodes
        /\ row[c] # None => row[c].parent \in Nodes
    BY <1>t, <1>l DEF ChannelTypeOK, Cached, Objects, Rows
  <2>2. ASSUME NEW n \in Nodes, row[c] # None, InList(c, n) PROVE InList(c, n)'
    <3>1. PICK e \in List(latest, n) :
            e.object.id = c /\ (UpToDate(e.object) \/ Pending("updated", c))
      BY <2>2 DEF InList
    <3>2. holder[latest][n] \in Holders BY <1>t, <1>l DEF ChannelTypeOK
    <3>3. PICK f \in subchnls'[holder[latest][n]][n] :
            f.object.id = c /\ (UpToDate(e.object) => UpToDate(f.object))
      BY <2>2, <3>1, <3>2, <1>t, ListsGoOn DEF List, InStep, Handlers
    <3>4. f \in List(latest, n)' BY <3>3, <1>1 DEF List
    <3> QED BY <3>1, <3>3, <3>4, <1>4, <1>5 DEF InList
  <2>3. ASSUME NEW n \in Nodes, HasList(latest, n) PROVE HasList(latest, n)'
    BY <2>3, <1>1 DEF HasList
  <2>4. c \in Nodes BY DEF Nodes
  <2> QED BY <2>0, <2>1, <2>2, <2>3, <2>4, <1>1, <1>4, <1>5 DEF Follows
<1> QED BY <1>6, <1>7 DEF InStep, Handlers

\* What a step that leaves the caches alone leaves of them.
LEMMA SameCache ==
  ASSUME UNCHANGED cacheVars
  PROVE  /\ latest' = latest /\ visible' = visible
         /\ \A c : Cached(c)' = Cached(c)
         /\ \A n : InCache(latest, n)' <=> InCache(latest, n)
         /\ \A n : HasList(latest, n)' <=> HasList(latest, n)
         /\ \A n : List(latest, n)' = List(latest, n)
         /\ \A b : task'[b] = task[b] => (Waiting(b)' <=> Waiting(b))
  BY DEF cacheVars, listVars, Cached, InCache, HasList, List, Waiting, Untold

\* A step that leaves table and caches alone.
LEMMA QuietStepKeeps ==
  ASSUME RequestsInv, InStep, NEW x \in Admins,
         UNCHANGED <<tableVars, cacheVars>>,
         \A a \in Admins \ {x} : task'[a] = task[a],
         task[x].op \notin {"added", "updated", "removed"},
         task'[x].op \notin {"added", "updated", "removed"},
         task'[x].op = "insert" => InCache(latest, task'[x].parent),
         task'[x].op = "save" =>
           LET c == task'[x].channel
           IN  c \in Channels /\ Cached(c) # None /\ task'[x].parent = row[c].parent,
         task'[x].op = "remove" =>
           LET c == task'[x].channel
           IN  /\ c \in Channels /\ Cached(c) # None /\ row[c] # None
               /\ task'[x].parent = Cached(c).parent
  PROVE  InStep'
<1>t. ChannelTypeOK /\ TaskShape BY DEF RequestsInv, TypesInv
<1>u. /\ row' = row /\ latest' = latest
      /\ \A n : InTable(n)' <=> InTable(n)
      /\ \A n : Below(n)' = Below(n)
      /\ \A o : UpToDate(o)' <=> UpToDate(o)
  BY SameCache DEF tableVars, InTable, Below, UpToDate
<1>v. /\ \A c : Cached(c)' = Cached(c)
      /\ \A n : InCache(latest, n)' <=> InCache(latest, n)
      /\ \A n : HasList(latest, n)' <=> HasList(latest, n)
      /\ \A n : List(latest, n)' = List(latest, n)
      /\ \A b : task'[b] = task[b] => (Waiting(b)' <=> Waiting(b))
  BY SameCache
<1>1. ASSUME NEW a \in Admins PROVE (Adding(a) /\ Editing(a) /\ Removing(a))'
  <2>0. Adding(a) /\ Editing(a) /\ Removing(a) BY DEF InStep, Handlers
  <2>1. Adding(a)'
    <3>1. CASE a = x BY <3>1 DEF Adding
    <3>2. CASE a # x /\ task[a].op = "added" /\ Waiting(a)
      <4>1. task[a].channel \in Channels /\ Cached(task[a].channel) = None
        BY <2>0, <3>2, <1>t DEF Adding, TaskShape
      <4>2. task'[x].op = "insert" => task'[x].parent # task[a].channel
        BY <4>1, ChannelAssumption DEF InCache, Cached
      <4>3. task'[x].op \in {"save", "remove"} => task'[x].channel # task[a].channel
        BY <4>1
      <4> QED BY <2>0, <3>2, <4>1, <4>2, <4>3, <1>u, <1>v DEF Adding
    <3>3. CASE a # x /\ ~(task[a].op = "added" /\ Waiting(a)) BY <3>3, <1>v DEF Adding
    <3> QED BY <3>1, <3>2, <3>3
  <2>2. Editing(a)' BY <2>0, <1>u DEF Editing
  <2>3. Removing(a)'
    <3>1. CASE a = x
      <4>1. task'[x].op = "remove" => task'[x].channel \notin Below(task'[x].channel)
        BY DEF InStep, Follows
      <4> QED BY <3>1, <4>1, <1>u, <1>v DEF Removing
    <3>2. CASE a # x BY <2>0, <3>2, <1>u, <1>v DEF Removing
    <3> QED BY <3>1, <3>2
  <2> QED BY <2>1, <2>2, <2>3
<1>2. \A op \in {"added", "updated", "removed"}, c \in Channels : Pending(op, c) => Pending(op, c)'
  BY <1>v DEF Pending
<1>3. ASSUME NEW c \in Channels PROVE Follows(c)'
  <2>1. Follows(c) BY DEF InStep
  <2>2. \A n : InList(c, n) => InList(c, n)' BY <1>u, <1>v, <1>2 DEF InList
  <2> QED BY <2>1, <2>2, <1>u, <1>v, <1>2 DEF Follows
<1> QED BY <1>1, <1>3 DEF InStep, Handlers

\* The insert of a row keeps cache and table in step: its handlers are still to run.
LEMMA InsertKeeps ==
  ASSUME RequestsInv, ~Renewing, InStep, NEW x \in Admins, NEW e \in Channels, Insert(x, e)
  PROVE  InStep'
<1>t. ChannelTypeOK /\ TaskShape BY DEF RequestsInv, TypesInv
<1>l. latest \in Caches /\ latest \in 1..latest BY NotLoading
<1> DEFINE q == task[x].parent
<1>1. /\ task[x].op = "insert" /\ e \notin created /\ q \in Nodes /\ task[x].telling = {}
      /\ created' = created \union {e} /\ UNCHANGED cacheVars
      /\ \A d \in Channels : row'[d] = IF d = e THEN [parent |-> q, rev |-> 1] ELSE row[d]
  BY <1>t DEF Insert, TaskShape, ChannelTypeOK
<1>2. /\ task'[x].op = "added" /\ task'[x].channel = e /\ task'[x].parent = q /\ task'[x].rev = 1
      /\ task'[x].telling = {}
      /\ \A a \in Admins \ {x} : task'[a] = task[a]
  <2>1. task[x] \in Tasks BY <1>t DEF ChannelTypeOK
  <2>2. task' = [task EXCEPT ![x] = [@ EXCEPT !.op = "added", !.channel = e, !.rev = 1]]
    BY DEF Insert
  <2> QED BY <2>1, <2>2, <1>1, <1>t DEF ChannelTypeOK, Tasks
<1>3. q \in created \union {Root} /\ q # e
  BY <1>1, ChannelAssumption DEF RequestsInv, IdsTaken
<1>4. Cached(e) = None /\ row[e] = None
  BY <1>1, <1>l DEF RequestsInv, IdsTaken, Cached
<1>v. /\ latest' = latest
      /\ \A c : Cached(c)' = Cached(c)
      /\ \A n : InCache(latest, n)' <=> InCache(latest, n)
      /\ \A n : HasList(latest, n)' <=> HasList(latest, n)
      /\ \A n : List(latest, n)' = List(latest, n)
      /\ \A b : task'[b] = task[b] => (Waiting(b)' <=> Waiting(b))
  BY <1>1, SameCache
<1>w. Waiting(x)' BY <1>2, <1>v, <1>l DEF Waiting, Untold
<1>6. \A n \in created \union {Root} : InTable(n)' <=> InTable(n)
  BY <1>1, ChannelAssumption DEF InTable
<1>e. row'[e] = [parent |-> q, rev |-> 1] /\ row'[e].parent = q /\ row'[e] # None
  <2>1. [parent |-> q, rev |-> 1] \in Rows BY <1>1 DEF Rows, Revisions
  <2> QED BY <1>1, <2>1, ChannelAssumption
<1> HIDE DEF q
<1>i. /\ \A c \in Channels : row[c] # None => c \in created /\ row[c].parent \in created \union {Root}
      /\ \A c \in Channels : Cached(c) # None =>
           c \in created /\ Cached(c).parent \in created \union {Root}
      /\ \A a \in Admins :
           /\ task[a].op \in {"insert", "added"} => task[a].parent \in created \union {Root}
           /\ task[a].op \in {"added", "save", "updated", "remove", "removed"}
                => task[a].channel \in created
      /\ e \notin created \union {Root}
  BY <1>1, <1>l, ChannelAssumption DEF RequestsInv, IdsTaken, Cached
<1>b. \A c \in Channels \ {e} : c \notin Below(c) => c \notin Below(c)'
  <2> SUFFICES ASSUME NEW c \in Channels \ {e}, c \notin Below(c) PROVE c \notin Below(c)'
    OBVIOUS
  <2>1. \A d \in Channels \ {e} : row'[d] # None =>
          row[d] # None /\ row'[d].parent = row[d].parent
    BY <1>1
  <2>2. \A d \in Channels : row'[d] # None => row'[d].parent # e BY <1>1, <1>3, <1>e, <1>i
  <2> QED BY <2>1, <2>2, StaysNotBelow
<1>8. ASSUME NEW a \in Admins PROVE (Adding(a) /\ Editing(a) /\ Removing(a))'
  <2>0. Adding(a) /\ Editing(a) /\ Removing(a) BY DEF InStep, Handlers
  <2>c. task[a].op \in {"added", "save", "updated", "remove", "removed"} =>
          task[a].channel \in created /\ task[a].channel \in Channels /\ task[a].channel # e
    BY <1>1, <1>t, <1>i DEF TaskShape
  <2>1. Adding(a)'
    <3>1. CASE a = x
      <4>1. Cached(e)' = None BY <1>v, <1>4
      <4>2. \A d \in Channels : row'[d] # None => row'[d].parent # e
        BY <1>1, <1>3, <1>e, <1>i
      <4>3. \A b \in Admins : task'[b].op \in {"insert", "added"} => task'[b].parent # e
        BY <1>2, <1>3, <1>i
      <4>5. \A d \in Channels : Cached(d)' # None => Cached(d)'.parent # e
        BY <1>v, <1>i
      <4>4. \A b \in Admins \ {x} :
              task'[b].op \in {"added", "save", "updated", "remove", "removed"}
                => task'[b].channel # e
        BY <1>2, <1>i
      <4> QED BY <3>1, <4>1, <4>2, <4>3, <4>4, <4>5, <1>2, <1>e DEF Adding
    <3>2. CASE a # x /\ task[a].op = "added" /\ Waiting(a)
      <4> DEFINE c == task[a].channel
      <4>1. c \in Channels /\ c # e /\ row'[c] = row[c] /\ task'[a] = task[a]
        BY <2>c, <3>2, <1>1, <1>2
      <4>2. task[a].parent \in created \union {Root} BY <3>2, <1>i
      <4>3. row[c] = None => ~InTable(task[a].parent)'
        <5>1. row[c] = None => ~InTable(task[a].parent) BY <2>0, <3>2 DEF Adding
        <5> QED BY <5>1, <4>1, <4>2, <1>6
      <4>4. q # c BY <2>0, <3>2, <1>1 DEF Adding, q
      <4>5. \A d \in Channels : row'[d] # None => row'[d].parent # c
        BY <2>0, <3>2, <4>4, <1>1, <1>e DEF Adding
      <4>6. \A b \in Admins : task'[b].op \in {"insert", "added"} => task'[b].parent # c
        BY <2>0, <3>2, <4>4, <1>1, <1>2 DEF Adding
      <4>7. \A b \in Admins \ {a} :
              task'[b].op \in {"added", "save", "updated", "remove", "removed"}
                => task'[b].channel # c
        BY <2>0, <3>2, <4>1, <1>2 DEF Adding
      <4> QED BY <2>0, <3>2, <4>1, <4>3, <4>5, <4>6, <4>7, <1>v DEF Adding
    <3>3. CASE a # x /\ ~(task[a].op = "added" /\ Waiting(a)) BY <3>3, <1>2, <1>v DEF Adding
    <3> QED BY <3>1, <3>2, <3>3
  <2>2. Editing(a)' BY <2>0, <2>c, <1>1, <1>2 DEF Editing
  <2>3. Removing(a)' BY <2>0, <2>c, <1>1, <1>2, <1>v, <1>b DEF Removing
  <2> QED BY <2>1, <2>2, <2>3
<1>11. /\ \A op \in {"added", "updated", "removed"}, c \in Channels :
            Pending(op, c) => Pending(op, c)'
       /\ Pending("added", e)'
  BY <1>1, <1>2, <1>v, <1>w DEF Pending
<1>12. ASSUME NEW c \in Channels PROVE Follows(c)'
  <2>1. Follows(c) BY DEF InStep
  <2>2. CASE c = e BY <2>2, <1>v, <1>4, <1>11 DEF Follows
  <2>3. CASE c # e
    <3>1. row'[c] = row[c] /\ Cached(c)' = Cached(c)
          /\ \A o : o.id = c => (UpToDate(o)' <=> UpToDate(o))
      BY <2>3, <1>1, <1>v DEF UpToDate
    <3>2. Cached(c) # None => (InTable(Cached(c).parent)' <=> InTable(Cached(c).parent))
      BY <3>1, <1>6, <1>i DEF InTable
    <3>3. row[c] # None => (InTable(row[c].parent)' <=> InTable(row[c].parent))
      BY <3>1, <1>6, <1>i DEF InTable
    <3>4. \A n : InList(c, n) => InList(c, n)' BY <3>1, <1>v, <1>11 DEF InList
    <3>5. Cached(c) # None => Cached(c).id = c
      BY <1>l DEF RequestsInv, TypesInv, CacheShape, Cached
    <3> QED BY <2>1, <2>3, <3>1, <3>2, <3>3, <3>4, <3>5, <1>b, <1>v, <1>11 DEF Follows
  <2> QED BY <2>2, <2>3
<1> QED BY <1>8, <1>12 DEF InStep, Handlers

\* The update of a row keeps cache and table in step: its handlers are still to run.
LEMMA SaveKeeps ==
  ASSUME RequestsInv, ~Renewing, InStep, NEW x \in Admins, SaveEdit(x)
  PROVE  InStep'
<1>t. ChannelTypeOK /\ TaskShape BY DEF RequestsInv, TypesInv
<1>l. latest \in Caches /\ latest \in 1..latest BY NotLoading
<1>p. PICK e \in Channels : e = task[x].channel
  BY <1>t DEF SaveEdit, TaskShape
<1>1. task[x].op = "save" /\ UNCHANGED cacheVars /\ task[x].telling = {}
  BY <1>t DEF SaveEdit, TaskShape
<1>2. /\ task'[x].op = "updated" /\ task'[x].channel = e /\ task'[x].parent = task[x].parent
      /\ task'[x].telling = {}
      /\ \A a \in Admins \ {x} : task'[a] = task[a]
  <2>1. CASE Go(x, "updated") BY <2>1, <1>1, <1>t, <1>p, GoesOn
  <2>2. CASE task' = [task EXCEPT ![x] = [@ EXCEPT !.op = "updated", !.rev = row[e].rev + 1]]
    <3>1. task[x] \in Tasks BY <1>t DEF ChannelTypeOK
    <3> QED BY <2>2, <3>1, <1>1, <1>t, <1>p DEF ChannelTypeOK, Tasks
  <2> QED BY <2>1, <2>2, <1>p DEF SaveEdit
<1>3. /\ \A d \in Channels \ {e} : row'[d] = row[d]
      /\ \A d \in Channels : /\ row'[d] = None <=> row[d] = None
                             /\ row[d] # None => row'[d].parent = row[d].parent
  <2>1. CASE row[e] # None
    <3>1. row[e] \in Rows BY <2>1, <1>t DEF ChannelTypeOK
    <3>2. row' = [row EXCEPT ![e].rev = @ + 1] BY <2>1, <1>p DEF SaveEdit
    <3>3. row'[e] = [row[e] EXCEPT !.rev = @ + 1] /\ \A d \in Channels \ {e} : row'[d] = row[d]
      BY <3>2, <1>t DEF ChannelTypeOK
    <3>4. row'[e].parent = row[e].parent /\ row'[e] \in Rows BY <3>1, <3>3 DEF Rows, Revisions
    <3> QED BY <2>1, <3>3, <3>4, ChannelAssumption
  <2>2. CASE row[e] = None BY <2>2, <1>p DEF SaveEdit
  <2> QED BY <2>1, <2>2
<1>v. /\ latest' = latest
      /\ \A c : Cached(c)' = Cached(c)
      /\ \A n : InCache(latest, n)' <=> InCache(latest, n)
      /\ \A n : HasList(latest, n)' <=> HasList(latest, n)
      /\ \A n : List(latest, n)' = List(latest, n)
      /\ \A b : task'[b] = task[b] => (Waiting(b)' <=> Waiting(b))
  BY <1>1, SameCache
<1>w. Waiting(x)' BY <1>2, <1>v, <1>l DEF Waiting, Untold
<1>4. /\ \A n \in Nodes \union {None} : InTable(n)' <=> InTable(n)
      /\ \A o : o.id \in Channels \ {e} => (UpToDate(o)' <=> UpToDate(o))
  BY <1>3 DEF InTable, UpToDate
<1>b. \A c \in Channels : c \notin Below(c) => c \notin Below(c)'
  <2> SUFFICES ASSUME NEW c \in Channels, c \notin Below(c) PROVE c \notin Below(c)'
    OBVIOUS
  <2>1. \A d \in Channels \ {None} : row'[d] # None =>
          row[d] # None /\ row'[d].parent = row[d].parent
    BY <1>3
  <2>2. \A d \in Channels : row'[d] # None => row'[d].parent # None
    BY <1>3, <1>t, ChannelAssumption DEF ChannelTypeOK, Rows
  <2>3. c # None BY ChannelAssumption DEF Nodes
  <2> QED BY <2>1, <2>2, <2>3, StaysNotBelow
<1>5. ASSUME NEW a \in Admins PROVE (Adding(a) /\ Editing(a) /\ Removing(a))'
  <2>0. Adding(a) /\ Editing(a) /\ Removing(a) BY DEF InStep, Handlers
  <2>1. CASE a = x
    <3>1. row[e] # None => row[e].parent = task[x].parent
      BY <2>0, <2>1, <1>1, <1>p DEF Editing
    <3> QED BY <3>1, <2>1, <1>2, <1>3 DEF Adding, Editing, Removing
  <2>2. CASE a # x
    <3>1. Adding(a)'
      <4>1. CASE task[a].op = "added" /\ Waiting(a)
        <5> DEFINE c == task[a].channel
        <5>1. c \in Channels \ {e} /\ task'[a] = task[a] /\ task[a].parent \in Nodes
          BY <2>0, <2>2, <4>1, <1>1, <1>2, <1>p, <1>t DEF Adding, TaskShape
        <5>2. InTable(task[a].parent)' <=> InTable(task[a].parent) BY <5>1, <1>4
        <5>3. \A d \in Channels : row'[d] # None => row'[d].parent # c
          BY <2>0, <4>1, <1>3 DEF Adding
        <5>4. \A b \in Admins : task'[b].op \in {"insert", "added"} => task'[b].parent # c
          BY <2>0, <4>1, <1>2 DEF Adding
        <5>5. \A b \in Admins \ {a} :
                task'[b].op \in {"added", "save", "updated", "remove", "removed"}
                  => task'[b].channel # c
          BY <2>0, <4>1, <5>1, <1>2 DEF Adding
        <5> QED BY <2>0, <4>1, <5>1, <5>2, <5>3, <5>4, <5>5, <1>v, <1>3 DEF Adding
      <4>2. CASE ~(task[a].op = "added" /\ Waiting(a)) BY <2>2, <4>2, <1>2, <1>v DEF Adding
      <4> QED BY <4>1, <4>2
    <3>2. Editing(a)' BY <2>0, <2>2, <1>2, <1>3, <1>t DEF Editing, TaskShape
    <3>3. Removing(a)' BY <2>0, <2>2, <1>v, <1>2, <1>3, <1>b, <1>t DEF Removing, TaskShape
    <3> QED BY <3>1, <3>2, <3>3
  <2> QED BY <2>1, <2>2
<1>8. /\ \A op \in {"added", "updated", "removed"}, c \in Channels :
           Pending(op, c) => Pending(op, c)'
      /\ Pending("updated", e)'
  BY <1>1, <1>2, <1>v, <1>w DEF Pending
<1>9. ASSUME NEW c \in Channels PROVE Follows(c)'
  <2>0. Follows(c) BY DEF InStep
  <2>p. Cached(c) # None => Cached(c).id = c /\ Cached(c).parent \in Nodes
    BY <1>l, <1>t DEF RequestsInv, TypesInv, CacheShape, Cached, ChannelTypeOK, Objects
  <2>1. Cached(c) # None => /\ Cached(c).id = c
                            /\ (InTable(Cached(c).parent)' <=> InTable(Cached(c).parent))
    BY <2>p, <1>v, <1>4 DEF InTable
  <2>2. row[c] # None => (InTable(row[c].parent)' <=> InTable(row[c].parent))
    BY <1>3, <1>4, <1>t DEF ChannelTypeOK, Rows
  <2>3. \A n : InList(c, n) => InList(c, n)'
    <3>1. CASE c = e BY <3>1, <1>v, <1>8 DEF InList
    <3>2. CASE c # e BY <3>2, <1>v, <1>4, <1>8 DEF InList
    <3> QED BY <3>1, <3>2
  <2>4. CASE c = e BY <2>0, <2>1, <2>2, <2>3, <2>4, <1>b, <1>3, <1>v, <1>8 DEF Follows
  <2>5. CASE c # e BY <2>0, <2>1, <2>2, <2>3, <2>5, <1>b, <1>3, <1>4, <1>v, <1>8 DEF Follows
  <2> QED BY <2>4, <2>5
<1> QED BY <1>5, <1>9 DEF InStep, Handlers

\* The delete of rows keeps cache and table in step: its handlers are still to run.
LEMMA DeleteKeeps ==
  ASSUME RequestsInv, ~Renewing, InStep, NEW x \in Admins, DeleteRows(x)
  PROVE  InStep'
<1>t. ChannelTypeOK /\ TaskShape BY DEF RequestsInv, TypesInv
<1>l. latest \in Caches /\ latest \in 1..latest BY NotLoading
<1>p. PICK e \in Channels : e = task[x].channel
  BY <1>t DEF DeleteRows, TaskShape
<1> DEFINE D == Below(e) \union {e}
<1>1. /\ task[x].op = "remove" /\ created' = created /\ UNCHANGED cacheVars
      /\ task[x].telling = {}
  BY <1>t DEF DeleteRows, TaskShape
<1>3. Go(x, "removed") /\ Remove(D)
  <2>1. e \notin Below(e) BY <1>1, <1>p DEF InStep, Handlers, Removing
  <2> QED BY <2>1, <1>p DEF DeleteRows
<1>2. D \subseteq Channels /\ e \in D /\ \A d \in D \ {e} : row[d] # None => row[d].parent \in D
  <2>1. \A d \in Below(e) : d \in Channels /\ (row[d] # None => row[d].parent \in Below(e) \union {e})
    BY BelowParent DEF Nodes
  <2> QED BY <2>1
<1> HIDE DEF D
<1>4. /\ task'[x].op = "removed" /\ task'[x].channel = e /\ task'[x].parent = task[x].parent
      /\ task'[x].telling = {}
      /\ \A a \in Admins \ {x} : task'[a] = task[a]
  BY <1>1, <1>3, <1>p, <1>t, GoesOn
<1>5. /\ \A d \in Channels : row'[d] = IF d \in D THEN None ELSE row[d]
      /\ \A n : InTable(n)' => InTable(n)
      /\ \A n \in D : ~InTable(n)'
      /\ \A o : o.id \in Channels \ D => (UpToDate(o)' <=> UpToDate(o))
  <2>1. \A d \in Channels : row'[d] = IF d \in D THEN None ELSE row[d] BY <1>3 DEF Remove
  <2> QED BY <2>1, <1>2, ChannelAssumption DEF InTable, UpToDate
<1>v. /\ latest' = latest
      /\ \A c : Cached(c)' = Cached(c)
      /\ \A n : InCache(latest, n)' <=> InCache(latest, n)
      /\ \A n : HasList(latest, n)' <=> HasList(latest, n)
      /\ \A n : List(latest, n)' = List(latest, n)
      /\ \A b : task'[b] = task[b] => (Waiting(b)' <=> Waiting(b))
  BY <1>1, SameCache
<1>w. Waiting(x)' BY <1>4, <1>v, <1>l DEF Waiting, Untold
<1>b. \A c \in Channels : c \notin Below(c) => c \notin Below(c)'
  <2> SUFFICES ASSUME NEW c \in Channels, c \notin Below(c) PROVE c \notin Below(c)'
    OBVIOUS
  <2>1. \A d \in Channels \ {None} : row'[d] # None =>
          row[d] # None /\ row'[d].parent = row[d].parent
    BY <1>5
  <2>2. \A d \in Channels : row'[d] # None => row'[d].parent # None
    BY <1>5, <1>t, ChannelAssumption DEF ChannelTypeOK, Rows
  <2>3. c # None BY ChannelAssumption DEF Nodes
  <2> QED BY <2>1, <2>2, <2>3, StaysNotBelow
<1>6. ASSUME NEW a \in Admins PROVE (Adding(a) /\ Editing(a) /\ Removing(a))'
  <2>0. Adding(a) /\ Editing(a) /\ Removing(a) BY DEF InStep, Handlers
  <2>1. CASE a = x
    BY <2>0, <2>1, <1>1, <1>p, <1>2, <1>4, <1>5, <1>v DEF Adding, Editing, Removing
  <2>2. CASE a # x
    <3>1. Adding(a)'
      <4>1. CASE task[a].op = "added" /\ Waiting(a)
        <5> DEFINE c == task[a].channel
        <5>1. c \in Channels \ {e} /\ task'[a] = task[a]
          BY <2>0, <2>2, <4>1, <1>1, <1>p, <1>t, <1>4 DEF Adding, TaskShape
        <5>2. row'[c] = None => ~InTable(task[a].parent)'
          <6>1. CASE row[c] = None BY <6>1, <2>0, <4>1, <5>1, <1>5 DEF Adding
          <6>2. CASE row[c] # None /\ c \in D
            <7>1. row[c].parent = task[a].parent BY <6>2, <2>0, <4>1 DEF Adding
            <7> QED BY <6>2, <7>1, <5>1, <1>2, <1>5
          <6> QED BY <6>1, <6>2, <5>1, <1>5
        <5>3. \A d \in Channels : row'[d] # None => row'[d].parent # c
          BY <2>0, <4>1, <1>5 DEF Adding
        <5>4. \A b \in Admins : task'[b].op \in {"insert", "added"} => task'[b].parent # c
          BY <2>0, <4>1, <1>4 DEF Adding
        <5>5. \A b \in Admins \ {a} :
                task'[b].op \in {"added", "save", "updated", "remove", "removed"}
                  => task'[b].channel # c
          BY <2>0, <4>1, <5>1, <1>4 DEF Adding
        <5> QED BY <2>0, <4>1, <5>1, <5>2, <5>3, <5>4, <5>5, <1>v, <1>5 DEF Adding
      <4>2. CASE ~(task[a].op = "added" /\ Waiting(a)) BY <2>2, <4>2, <1>4, <1>v DEF Adding
      <4> QED BY <4>1, <4>2
    <3>2. Editing(a)' BY <2>0, <2>2, <1>t, <1>4, <1>5 DEF Editing, TaskShape
    <3>3. Removing(a)' BY <2>0, <2>2, <1>v, <1>b, <1>t, <1>4, <1>5 DEF Removing, TaskShape
    <3> QED BY <3>1, <3>2, <3>3
  <2> QED BY <2>1, <2>2
<1>7. /\ \A op \in {"added", "updated", "removed"}, c \in Channels :
           Pending(op, c) => Pending(op, c)'
      /\ Pending("removed", e)'
  BY <1>1, <1>4, <1>v, <1>w DEF Pending
<1>8. ASSUME NEW c \in Channels PROVE Follows(c)'
  <2>0. Follows(c) BY DEF InStep
  <2>1. /\ InTable(Cached(c).parent)' => InTable(Cached(c).parent)
        /\ InCache(latest, Cached(c).parent)' <=> InCache(latest, Cached(c).parent)
    BY <1>v, <1>5 DEF InTable, InCache
  <2>2. CASE c \in D
    <3>1. row'[c] = None BY <2>2, <1>5
    <3>2. CASE c = e BY <2>0, <2>1, <3>1, <3>2, <1>v, <1>7 DEF Follows
    <3>3. CASE c # e /\ row[c] = None
      BY <2>0, <2>1, <3>1, <3>3, <1>v, <1>7 DEF Follows
    <3>4. CASE c # e /\ row[c] # None
      <4>1. row[c].parent \in D BY <2>2, <3>4, <1>2
      <4>2. Cached(c) # None => ~InTable(Cached(c).parent)'
        BY <2>0, <3>4, <4>1, <1>v, <1>5 DEF Follows
      <4> QED BY <2>0, <2>1, <3>1, <4>2, <1>v DEF Follows
    <3> QED BY <3>2, <3>3, <3>4
  <2>3. CASE c \notin D
    <3>1. row'[c] = row[c] BY <2>3, <1>5
    <3>2. /\ InTable(row[c].parent)' => InTable(row[c].parent)
          /\ InCache(latest, row[c].parent)' <=> InCache(latest, row[c].parent)
      BY <3>1, <1>5, <1>v
    <3>3. \A n : InList(c, n) => InList(c, n)' BY <2>3, <1>v, <1>5, <1>7 DEF InList
    <3>4. Cached(c) # None => Cached(c).id = c
      BY <1>l DEF RequestsInv, TypesInv, CacheShape, Cached
    <3> QED BY <2>0, <2>1, <2>3, <3>1, <3>2, <3>3, <3>4, <1>b, <1>5, <1>v, <1>7 DEF Follows
  <2> QED BY <2>2, <2>3
<1> QED BY <1>6, <1>8 DEF InStep, Handlers

\* What the site's cache makes of an event, and what that leaves alone.
LEMMA HandlerRuns ==
  ASSUME RequestsInv, ~Renewing, InStep, NEW x \in Admins,
         HandleAdd(x, latest) \/ HandleUpdate(x, latest) \/ HandleDelete(x, latest)
  PROVE  /\ row' = row /\ latest' = latest /\ latest \in Caches
         /\ Waiting(x) /\ task[x].channel \in Channels /\ task[x].parent \in Nodes
         /\ task[x].op \in {"added", "updated", "removed"}
         /\ \A b \in Admins :
              \/ task'[b] = NoTask
              \/ /\ task'[b].op = task[b].op
                 /\ task'[b].channel = task[b].channel
                 /\ task'[b].parent = task[b].parent
                 /\ task'[b].rev = task[b].rev
         /\ \A b \in Admins \ {x} : task'[b] = task[b] /\ (Waiting(b)' <=> Waiting(b))
         /\ task'[x] = NoTask \/ ~Waiting(x)'
         /\ \A n : InTable(n)' <=> InTable(n)
         /\ \A n \in Nodes : Below(n)' = Below(n)
         /\ \A o : UpToDate(o)' <=> UpToDate(o)
         /\ \A op \in {"added", "updated", "removed"}, c \in Channels :
              Pending(op, c) /\ (op # task[x].op \/ c # task[x].channel) => Pending(op, c)'
         /\ \A d \in Channels :
              \/ Cached(d)' = Cached(d)
              \/ d = task[x].channel /\ Cached(d)' = None /\ task[x].op = "removed"
              \/ d = task[x].channel /\ task[x].op = "added" /\ Cached(d)'.parent = task[x].parent
              \/ d = task[x].channel /\ task[x].op = "updated" /\ row[d] # None /\ Cached(d) # None
                 /\ Cached(d)' # None /\ Cached(d)'.parent = row[d].parent
         /\ \A n \in Nodes \ {task[x].channel} : InCache(latest, n)' <=> InCache(latest, n)
         /\ \A n \in Nodes : HasList(latest, n) /\ (n # task[x].channel \/ task[x].op # "added")
              => HasList(latest, n)' /\ holder'[latest][n] = holder[latest][n]
<1>t. ChannelTypeOK /\ TaskShape /\ CacheShape /\ TypesInv BY DEF RequestsInv, TypesInv
<1>l. latest \in Caches BY NotLoading
<1>1. /\ row' = row /\ latest' = latest /\ made \subseteq made'
  BY <1>t, <1>l, HandlersLists DEF tableVars
<1>2. /\ latest \in Untold(x) /\ Told(x, latest)
      /\ task[x].op \in {"added", "updated", "removed"}
  BY DEF HandleAdd, HandleUpdate, HandleDelete
<1>3. Waiting(x) /\ task[x].channel \in Channels /\ task[x].parent \in Nodes
  BY <1>2, <1>t DEF Waiting, TaskShape
<1>4. /\ \A b \in Admins :
           \/ task'[b] = NoTask
           \/ /\ task'[b].op = task[b].op
              /\ task'[b].channel = task[b].channel
              /\ task'[b].parent = task[b].parent
              /\ task'[b].rev = task[b].rev
      /\ \A b \in Admins \ {x} : task'[b] = task[b] /\ (Waiting(b)' <=> Waiting(b))
      /\ task'[x] = NoTask \/ ~Waiting(x)'
  BY <1>1, <1>2, <1>t, Hears
<1>5. /\ \A n : InTable(n)' <=> InTable(n)
      /\ \A n \in Nodes : Below(n)' = Below(n)
      /\ \A o : UpToDate(o)' <=> UpToDate(o)
  BY <1>1 DEF InTable, Below, UpToDate
<1>6. ASSUME NEW op \in {"added", "updated", "removed"}, NEW c \in Channels, Pending(op, c),
             op # task[x].op \/ c # task[x].channel
      PROVE  Pending(op, c)'
  <2>1. PICK b \in Admins : task[b].op = op /\ task[b].channel = c /\ Waiting(b)
    BY <1>6 DEF Pending
  <2>2. b # x BY <1>6, <2>1
  <2> QED BY <2>1, <2>2, <1>4 DEF Pending
<1>7. ASSUME NEW d \in Channels
      PROVE  \/ Cached(d)' = Cached(d)
             \/ d = task[x].channel /\ Cached(d)' = None /\ task[x].op = "removed"
             \/ d = task[x].channel /\ task[x].op = "added" /\ Cached(d)'.parent = task[x].parent
             \/ d = task[x].channel /\ task[x].op = "updated" /\ row[d] # None /\ Cached(d) # None
                /\ Cached(d)' # None /\ Cached(d)'.parent = row[d].parent
  <2>1. CASE HandleAdd(x, latest)
    <3>1. task[x].op = "added" BY <2>1 DEF HandleAdd
    <3>2. channelMap'[latest][d] = channelMap[latest][d]
          \/ (d = task[x].channel /\ channelMap'[latest][d] = Announced(x))
      BY <2>1, <1>t, <1>l, MapSteps
    <3> QED BY <3>1, <3>2, <1>1, <1>t, AnnouncedType DEF Cached
  <2>2. CASE HandleUpdate(x, latest)
    <3>1. task[x].op = "updated" /\ task[x].no \in Nat
      BY <2>2, <1>t DEF HandleUpdate, ChannelTypeOK, Tasks
    <3>2. channelMap'[latest][d] = channelMap[latest][d]
          \/ (d = task[x].channel /\ row[d] # None
              /\ channelMap'[latest][d] = Object(d, latest, task[x].no))
      BY <2>2, <1>t, <1>l, MapSteps
    <3>3. CASE channelMap'[latest][d] # channelMap[latest][d]
      <4>1. channelMap' # channelMap BY <3>3
      <4>2. channelMap[latest][task[x].channel] # None BY <2>2, <4>1 DEF HandleUpdate
      <4>3. Cached(d) # None /\ Cached(d)' = Object(d, latest, task[x].no)
        BY <3>2, <3>3, <4>2, <1>1 DEF Cached
      <4>4. row[d] # None /\ d = task[x].channel BY <3>2, <3>3
      <4>5. /\ Object(d, latest, task[x].no) # None
            /\ Object(d, latest, task[x].no).parent = row[d].parent
        BY <3>1, <4>4, <1>t, <1>l, ObjectType
      <4> QED BY <3>1, <4>3, <4>4, <4>5
    <3>4. CASE channelMap'[latest][d] = channelMap[latest][d] BY <3>4, <1>1 DEF Cached
    <3> QED BY <3>3, <3>4
  <2>3. CASE HandleDelete(x, latest)
    <3>1. task[x].op = "removed" BY <2>3 DEF HandleDelete
    <3>2. channelMap'[latest][d] = channelMap[latest][d]
          \/ (d = task[x].channel /\ channelMap'[latest][d] = None)
      BY <2>3, <1>t, <1>l, MapSteps
    <3> QED BY <3>1, <3>2, <1>1 DEF Cached
  <2> QED BY <2>1, <2>2, <2>3
<1>8. \A n \in Nodes \ {task[x].channel} : InCache(latest, n)' <=> InCache(latest, n)
  <2>1. \A d \in Channels \ {task[x].channel} : Cached(d)' = Cached(d) BY <1>7
  <2>2. \A n : InCache(latest, n) <=> n = Root \/ (n \in Channels /\ Cached(n) # None)
    BY DEF InCache, Cached
  <2>3. \A n : InCache(latest, n)' <=> n = Root \/ (n \in Channels /\ Cached(n)' # None)
    BY DEF InCache, Cached
  <2> QED BY <2>1, <2>2, <2>3
<1>9. ASSUME NEW n \in Nodes, HasList(latest, n), n # task[x].channel \/ task[x].op # "added"
      PROVE  HasList(latest, n)' /\ holder'[latest][n] = holder[latest][n]
  <2>1. holder'[latest][n] = holder[latest][n]
    <3>1. CASE HandleAdd(x, latest)
      <4>1. n # task[x].channel BY <3>1, <1>9 DEF HandleAdd
      <4>2. \/ holder' = holder
            \/ holder' = [holder EXCEPT ![latest][task[x].channel] = Event]
        BY <3>1 DEF HandleAdd, listVars
      <4>3. holder \in [Caches -> [Nodes -> Holders]] BY <1>t DEF ChannelTypeOK
      <4> QED BY <4>1, <4>2, <4>3, <1>l
    <3>2. CASE HandleUpdate(x, latest)
      BY <3>2, <1>9, <1>t, <1>l, <1>3 DEF HandleUpdate, listVars, ChannelTypeOK, Nodes
    <3>3. CASE HandleDelete(x, latest) BY <3>3 DEF HandleDelete
    <3> QED BY <3>1, <3>2, <3>3
  <2> QED BY <2>1, <1>1, <1>9 DEF HasList
<1>10. /\ \A op \in {"added", "updated", "removed"}, c \in Channels :
            Pending(op, c) /\ (op # task[x].op \/ c # task[x].channel) => Pending(op, c)'
       /\ \A n \in Nodes : HasList(latest, n) /\ (n # task[x].channel \/ task[x].op # "added")
            => HasList(latest, n)' /\ holder'[latest][n] = holder[latest][n]
  BY <1>6, <1>9
<1> QED BY ONLY <1>l, <1>1, <1>2, <1>3, <1>4, <1>5, <1>7, <1>8, <1>10

\* What the site's cache makes of an event keeps it in step with the table for the other
\* channels and requests.
LEMMA HandlerKeeps ==
  ASSUME RequestsInv, ~Renewing, InStep, NEW x \in Admins,
         HandleAdd(x, latest) \/ HandleUpdate(x, latest) \/ HandleDelete(x, latest)
  PROVE  /\ Handlers'
         /\ \A c \in Channels \ {task[x].channel} : Follows(c)'
<1>t. ChannelTypeOK /\ TaskShape /\ CacheShape /\ TypesInv BY DEF RequestsInv, TypesInv
<1>p. PICK e \in Channels, q \in Nodes : e = task[x].channel /\ q = task[x].parent
  BY HandlerRuns
<1>h. /\ row' = row /\ latest' = latest /\ latest \in Caches
      /\ Waiting(x) /\ e \in Channels /\ q \in Nodes
      /\ task[x].op \in {"added", "updated", "removed"}
      /\ \A b \in Admins :
           \/ task'[b] = NoTask
           \/ /\ task'[b].op = task[b].op
              /\ task'[b].channel = task[b].channel
              /\ task'[b].parent = task[b].parent
              /\ task'[b].rev = task[b].rev
      /\ \A b \in Admins \ {x} : task'[b] = task[b] /\ (Waiting(b)' <=> Waiting(b))
      /\ task'[x] = NoTask \/ ~Waiting(x)'
  BY <1>p, HandlerRuns
<1>s. /\ \A n : InTable(n)' <=> InTable(n)
      /\ \A n \in Nodes : Below(n)' = Below(n)
      /\ \A o : UpToDate(o)' <=> UpToDate(o)
      /\ \A op \in {"added", "updated", "removed"}, c \in Channels :
           Pending(op, c) /\ (op # task[x].op \/ c # e) => Pending(op, c)'
  BY <1>p, HandlerRuns
<1>m. \A d \in Channels :
        \/ Cached(d)' = Cached(d)
        \/ d = e /\ Cached(d)' = None /\ task[x].op = "removed"
        \/ d = e /\ task[x].op = "added" /\ Cached(d)'.parent = q
        \/ d = e /\ task[x].op = "updated" /\ row[d] # None /\ Cached(d) # None
           /\ Cached(d)' # None /\ Cached(d)'.parent = row[d].parent
  BY <1>p, HandlerRuns
<1>n. /\ \A n \in Nodes \ {e} : InCache(latest, n)' <=> InCache(latest, n)
      /\ \A n \in Nodes : HasList(latest, n) /\ (n # e \/ task[x].op # "added")
           => HasList(latest, n)' /\ holder'[latest][n] = holder[latest][n]
  BY <1>p, HandlerRuns
<1>x. Adding(x) /\ Editing(x) /\ Removing(x) /\ Follows(e) BY <1>h DEF InStep, Handlers
<1>1. ASSUME NEW a \in Admins PROVE (Adding(a) /\ Editing(a) /\ Removing(a))'
  <2>0. Adding(a) /\ Editing(a) /\ Removing(a) BY DEF InStep, Handlers
  <2>1. CASE task'[a] = NoTask BY <2>1, NoTaskType DEF Adding, Editing, Removing
  <2>2. CASE task'[a] # NoTask
    <3>1. /\ task'[a].op = task[a].op /\ task'[a].channel = task[a].channel
          /\ task'[a].parent = task[a].parent /\ task'[a].rev = task[a].rev
          /\ a # x => (Waiting(a)' <=> Waiting(a))
          /\ a = x => ~Waiting(a)'
      BY <2>2, <1>h
    <3>2. Adding(a)'
      <4> SUFFICES ASSUME a # x, task[a].op = "added", Waiting(a) PROVE Adding(a)'
        BY <3>1 DEF Adding
      <4>9. PICK c \in Channels : c = task[a].channel BY <1>t DEF TaskShape
      <4>1. c # e BY <2>0, <4>9, <1>h, <1>p DEF Adding
      <4>2. Cached(c)' = None BY <2>0, <4>9, <4>1, <1>m DEF Adding
      <4>3. \A d \in Channels : Cached(d)' # None => Cached(d)'.parent # c
        <5> SUFFICES ASSUME NEW d \in Channels, Cached(d)' # None, Cached(d)' # Cached(d)
                     PROVE  Cached(d)'.parent # c
          BY <2>0, <4>9 DEF Adding
        <5>1. task[x].op = "added" => q # c BY <2>0, <4>9, <1>p DEF Adding
        <5>2. row[d] # None => row[d].parent # c BY <2>0, <4>9 DEF Adding
        <5> QED BY <5>1, <5>2, <1>m
      <4>4. \A b \in Admins : task'[b].op \in {"insert", "added"} => task'[b].parent # c
        BY <2>0, <4>9, <1>h, NoTaskType DEF Adding
      <4>5. \A b \in Admins \ {a} :
              task'[b].op \in {"added", "save", "updated", "remove", "removed"}
                => task'[b].channel # c
        BY <2>0, <4>9, <1>h, NoTaskType DEF Adding
      <4>6. \A d \in Channels : row'[d] # None => row'[d].parent # c
        BY <2>0, <4>9, <1>h DEF Adding
      <4>7. /\ row'[c] # None => row'[c] = [parent |-> task[a].parent, rev |-> task[a].rev]
            /\ row'[c] = None => ~InTable(task[a].parent)
        BY <2>0, <4>9, <1>h DEF Adding
      <4>8. InTable(task[a].parent)' <=> InTable(task[a].parent)
        BY <1>h, <3>1 DEF InTable
      <4> QED BY <3>1, <4>2, <4>3, <4>4, <4>5, <4>6, <4>7, <4>8, <4>9, <1>h DEF Adding
    <3>3. Editing(a)' BY <2>0, <3>1, <1>h DEF Editing
    <3>4. Removing(a)'
      <4> SUFFICES ASSUME task[a].op \in {"remove", "removed"} PROVE Removing(a)'
        BY <3>1 DEF Removing
      <4>3. PICK c \in Channels : c = task[a].channel BY <1>t DEF TaskShape
      <4>1. c \in Nodes BY DEF Nodes
      <4>2. Cached(c)' # None => Cached(c)'.parent = task[a].parent
        <5>1. CASE Cached(c)' = Cached(c) BY <5>1, <4>3, <2>0 DEF Removing
        <5>2. CASE Cached(c)' # None /\ Cached(c)' # Cached(c) /\ task[x].op = "added"
          <6>1. c = e /\ a # x BY <4>1, <5>2, <1>m
          <6> QED BY <6>1, <5>2, <4>3, <1>x, <1>h, <1>p DEF Adding
        <5>3. CASE Cached(c)' # None /\ Cached(c)' # Cached(c) /\ task[x].op # "added"
          <6>1. /\ c = e /\ row[c] # None /\ Cached(c) # None
                /\ Cached(c)'.parent = row[c].parent
            BY <4>1, <5>3, <1>m
          <6>2. Cached(c).parent = row[c].parent BY <6>1, <1>x DEF Follows
          <6> QED BY <6>1, <6>2, <4>3, <2>0 DEF Removing
        <5> QED BY <5>1, <5>2, <5>3
      <4> QED BY <2>0, <3>1, <4>1, <4>2, <4>3, <1>h, <1>s DEF Removing
    <3> QED BY <3>2, <3>3, <3>4
  <2> QED BY <2>1, <2>2
<1>2. ASSUME NEW c \in Channels \ {e} PROVE Follows(c)'
  <2>0. Follows(c) BY DEF InStep
  <2>1. Cached(c)' = Cached(c) /\ row'[c] = row[c] /\ c \in Nodes BY <1>m, <1>h DEF Nodes
  <2>p. /\ Cached(c) # None => Cached(c).parent \in Nodes
        /\ row[c] # None => row[c].parent \in Nodes
    BY <1>t, <1>h DEF ChannelTypeOK, Cached, Objects, Rows
  <2>2. /\ Pending("added", c) => Pending("added", c)'
        /\ Pending("updated", c) => Pending("updated", c)'
        /\ Pending("removed", c) => Pending("removed", c)'
    BY <1>s
  <2>a. task[x].op = "added" => /\ Cached(c) # None => Cached(c).parent # e
                                /\ row[c] # None => row[c].parent # e
                                /\ Cached(e) = None
    BY <1>x, <1>h, <1>p DEF Adding
  <2>r. task[x].op = "removed" => ~InTable(e)
    BY <1>x, <1>h, <1>p, ChannelAssumption DEF Removing, InTable
  <2>u. task[x].op # "added" =>
          /\ InCache(latest, e)' => InCache(latest, e)
          /\ InTable(e) /\ InCache(latest, e) => InCache(latest, e)'
    <3>1. task[x].op # "added" => (Cached(e)' # None => Cached(e) # None) BY <1>m, <1>h
    <3>2. task[x].op = "updated" => (Cached(e) # None => Cached(e)' # None) BY <1>m, <1>h
    <3>3. (InCache(latest, e) <=> Cached(e) # None) /\ (InCache(latest, e)' <=> Cached(e)' # None)
      BY <1>h, ChannelAssumption DEF InCache, Cached
    <3> QED BY <3>1, <3>2, <3>3, <2>r, <1>h
  <2>3. ASSUME NEW n \in Nodes, row[c] # None, InList(c, n), HasList(latest, n),
               n # e \/ task[x].op # "added"
        PROVE  InList(c, n)'
    <3>1. PICK y \in List(latest, n) :
            y.object.id = c /\ (UpToDate(y.object) \/ Pending("updated", c))
      BY <2>3 DEF InList
    <3>2. holder[latest][n] \in Holders BY <1>t, <1>h DEF ChannelTypeOK
    <3>3. PICK f \in subchnls'[holder[latest][n]][n] :
            f.object.id = c /\ (UpToDate(y.object) => UpToDate(f.object))
      BY <2>3, <3>1, <3>2, <1>t, <1>h, <1>x, ListsGoOn DEF List
    <3>4. f \in List(latest, n)' BY <3>3, <2>3, <1>n, <1>h DEF List
    <3> QED BY <3>1, <3>3, <3>4, <2>2, <1>s DEF InList
  <2>4. Cached(c) # None =>
          /\ row[c] # None => /\ Cached(c).parent = row[c].parent
                              /\ UpToDate(Cached(c)) \/ Pending("updated", c)'
                              /\ c \notin Below(c)
          /\ row[c] = None => ~InTable(Cached(c).parent) \/ Pending("removed", c)'
    BY <2>0, <2>2 DEF Follows
  <2>5. Cached(c) # None => (InTable(Cached(c).parent) => InCache(latest, Cached(c).parent)')
    <3> SUFFICES ASSUME Cached(c) # None, InTable(Cached(c).parent)
                 PROVE  \A n : n = Cached(c).parent => InCache(latest, n)'
      BY <2>1, <1>h DEF InCache
    <3> TAKE n
    <3> HAVE n = Cached(c).parent
    <3>1. InCache(latest, n) /\ n \in Nodes /\ InTable(n) BY <2>0, <2>p DEF Follows
    <3>2. CASE n # e BY <3>1, <3>2, <1>n
    <3>3. CASE n = e BY <3>1, <3>3, <2>a, <2>u
    <3> QED BY <3>2, <3>3
  <2>6. Cached(c) # None /\ InCache(latest, Cached(c).parent)' =>
          /\ HasList(latest, Cached(c).parent)'
          /\ row[c] # None => InList(c, Cached(c).parent)'
    <3> SUFFICES ASSUME Cached(c) # None
                 PROVE  \A n : n = Cached(c).parent /\ InCache(latest, n)' =>
                          HasList(latest, n)' /\ (row[c] # None => InList(c, n)')
      BY <2>1, <1>h DEF InCache, HasList, InList
    <3> TAKE n
    <3> HAVE n = Cached(c).parent /\ InCache(latest, n)'
    <3>1. n \in Nodes BY <2>p
    <3>2. InCache(latest, n) /\ (n # e \/ task[x].op # "added")
      <4>1. CASE n # e BY <3>1, <4>1, <1>n
      <4>2. CASE n = e BY <4>2, <2>a, <2>u
      <4> QED BY <4>1, <4>2
    <3>3. HasList(latest, n) /\ (row[c] # None => InList(c, n)) BY <3>2, <2>0 DEF Follows
    <3> QED BY <3>1, <3>2, <3>3, <2>3, <1>n
  <2>7. row[c] # None /\ InTable(row[c].parent) /\ InCache(latest, row[c].parent)'
          => Cached(c) # None \/ Pending("added", c)'
    <3> SUFFICES ASSUME row[c] # None, InTable(row[c].parent),
                        NEW n, n = row[c].parent, InCache(latest, n)'
                 PROVE  Cached(c) # None \/ Pending("added", c)'
      BY <2>1, <1>h DEF InCache
    <3>1. n \in Nodes BY <2>p
    <3>2. InCache(latest, n)
      <4>1. CASE n # e BY <3>1, <4>1, <1>n
      <4>2. CASE n = e BY <4>2, <2>a, <2>u
      <4> QED BY <4>1, <4>2
    <3> QED BY <3>2, <2>0, <2>2 DEF Follows
  <2>8. /\ InTable(Cached(c).parent)' <=> InTable(Cached(c).parent)
        /\ InTable(row[c].parent)' <=> InTable(row[c].parent)
        /\ UpToDate(Cached(c))' <=> UpToDate(Cached(c))
        /\ Below(c)' = Below(c)
    BY <2>1, <1>h, <1>s DEF InTable, UpToDate
  <2> QED BY <2>1, <2>4, <2>5, <2>6, <2>7, <2>8 DEF Follows
<1>3. Handlers' BY <1>1 DEF Handlers
<1> QED BY <1>2, <1>3, <1>p

\* The site's cache takes a new channel and is in step with the table again.
LEMMA AddKeeps ==
  ASSUME RequestsInv, ~Renewing, InStep, NEW x \in Admins, HandleAdd(x, latest)
  PROVE  InStep'
<1>t. ChannelTypeOK /\ TaskShape /\ CacheShape /\ TypesInv BY DEF RequestsInv, TypesInv
<1>p. PICK e \in Channels, q \in Nodes : e = task[x].channel /\ q = task[x].parent
  BY HandlerRuns
<1>2. /\ row' = row /\ latest' = latest /\ latest \in Caches /\ Waiting(x)
      /\ task[x].op = "added"
      /\ \A n : InTable(n)' <=> InTable(n)
      /\ Below(e)' = Below(e)
      /\ \A o : UpToDate(o)' <=> UpToDate(o)
      /\ \A n \in Nodes \ {e} : InCache(latest, n)' <=> InCache(latest, n)
  BY <1>p, HandlerRuns DEF Nodes, HandleAdd
<1>x. /\ Cached(e) = None /\ q # e
      /\ row[e] # None => row[e] = [parent |-> q, rev |-> task[x].rev]
      /\ row[e] = None => ~InTable(q)
      /\ \A d \in Channels : row[d] # None => row[d].parent # e
  <2>1. Adding(x) BY DEF InStep, Handlers
  <2> QED BY <2>1, <1>2, <1>p DEF Adding
<1>3. Follows(e)'
  <2>1. CASE InCache(latest, q)
    <3> DEFINE o == Announced(x)
    <3>1. /\ subchnls' = [subchnls EXCEPT ![holder[latest][q]][q] =
                            @ \union {[by |-> latest, object |-> o]}]
          /\ made' = made \union {<<holder[latest][q], q>>}
          /\ channelMap' = [channelMap EXCEPT ![latest][e] = o]
          /\ holder' = [holder EXCEPT ![latest][e] = Event]
      BY <2>1, <1>p, <1>x DEF HandleAdd, Announced, Cached
    <3>2. o \in Objects /\ o # None /\ o.id = e /\ o.parent = q /\ o.rev = task[x].rev
      BY <1>2, <1>p, <1>t, AnnouncedType
    <3> HIDE DEF o
    <3>3. holder'[latest][q] = holder[latest][q] /\ holder[latest][q] \in Holders
      BY <3>1, <1>x, <1>2, <1>t DEF ChannelTypeOK
    <3>4. Cached(e)' = o BY <3>1, <1>2, <1>t DEF Cached, ChannelTypeOK
    <3>5. HasList(latest, q)' BY <3>1, <3>3, <1>2 DEF HasList
    <3>6. row[e] # None => UpToDate(o)
      BY <3>2, <1>x DEF UpToDate
    <3>7. row[e] # None => InList(e, q)'
      <4>1. [by |-> latest, object |-> o] \in List(latest, q)'
        BY <3>1, <3>3, <1>2, <1>t DEF List, ChannelTypeOK
      <4> QED BY <4>1, <3>2, <3>6, <1>2 DEF InList
    <3>8. e \notin Below(e)' BY <1>x, <1>2, LeafNotBelow
    <3>9. InCache(latest, q)' BY <2>1, <1>2, <1>x
    <3>10. row[e] # None => row[e].parent = q BY <1>x
    <3>11. InTable(q)' <=> InTable(q) BY <1>2
    <3>12. UpToDate(Cached(e))' <=> UpToDate(o)
      BY <3>4, <1>2 DEF UpToDate
    <3>13. /\ InTable(Cached(e).parent)' <=> InTable(q)
           /\ InCache(latest, Cached(e).parent)' <=> InCache(latest, q)'
           /\ HasList(latest, Cached(e).parent)' <=> HasList(latest, q)'
           /\ InList(e, Cached(e).parent)' <=> InList(e, q)'
      <4>1. (Cached(e).parent)' = q BY <3>2, <3>4
      <4> QED BY <4>1, <1>2 DEF InTable, InCache, HasList, InList, List
    <3> QED BY <3>2, <3>4, <3>5, <3>6, <3>7, <3>8, <3>9, <3>10, <3>11, <3>12, <3>13, <1>2, <1>x
        DEF Follows
  <2>2. CASE ~InCache(latest, q)
    <3>1. channelMap' = channelMap BY <2>2, <1>p DEF HandleAdd
    <3>2. Cached(e)' = None BY <3>1, <1>2, <1>x DEF Cached
    <3>3. ~InCache(latest, q)' BY <2>2, <1>2, <1>x
    <3>4. row'[e] # None => row'[e].parent = q BY <1>x, <1>2
    <3>5. row'[e] # None => ~InCache(latest, row[e].parent)'
      BY <3>3, <3>4 DEF InCache
    <3> QED BY <3>2, <3>5 DEF Follows
  <2> QED BY <2>1, <2>2
<1> QED BY <1>3, <1>p, HandlerKeeps DEF InStep

\* The site's cache takes a changed row and is in step with the table again.
LEMMA UpdateKeeps ==
  ASSUME RequestsInv, ~Renewing, InStep, NEW x \in Admins, HandleUpdate(x, latest)
  PROVE  InStep'
<1>t. ChannelTypeOK /\ TaskShape /\ CacheShape /\ TypesInv BY DEF RequestsInv, TypesInv
<1>p. PICK e \in Channels, q \in Nodes : e = task[x].channel /\ q = task[x].parent
  BY HandlerRuns
<1>2. /\ row' = row /\ latest' = latest /\ latest \in Caches /\ Waiting(x)
      /\ task[x].op = "updated" /\ task[x].no \in Nat
      /\ \A n : InTable(n)' <=> InTable(n)
      /\ Below(e)' = Below(e)
      /\ \A o : UpToDate(o)' <=> UpToDate(o)
      /\ \A n \in Nodes \ {e} : InCache(latest, n)' <=> InCache(latest, n)
      /\ \A n \in Nodes : HasList(latest, n)
           => HasList(latest, n)' /\ holder'[latest][n] = holder[latest][n]
      /\ Pending("added", e) => Pending("added", e)'
      /\ Pending("removed", e) => Pending("removed", e)'
  <2>1. task[x].op = "updated" /\ task[x].no \in Nat
    BY <1>t DEF HandleUpdate, ChannelTypeOK, Tasks
  <2> QED BY <2>1, <1>p, HandlerRuns DEF Nodes
<1>x. Follows(e) /\ (row[e] # None => row[e].parent = q)
  <2>1. Editing(x) BY DEF InStep, Handlers
  <2> QED BY <2>1, <1>2, <1>p DEF Editing, InStep
<1>3. Follows(e)'
  <2>1. CASE Cached(e) # None /\ row[e] # None
    <3> DEFINE o == Object(e, latest, task[x].no)
    <3>1. /\ channelMap' = [channelMap EXCEPT ![latest][e] = o]
          /\ Replace(latest, q, o)
      BY <2>1, <1>p DEF HandleUpdate, Cached
    <3>2. /\ o \in Objects /\ o # None /\ o.id = e /\ o.parent = row[e].parent
          /\ UpToDate(o)
      BY <2>1, <1>2, <1>t, ObjectType
    <3> HIDE DEF o
    <3>3. Cached(e)' = o BY <3>1, <1>2, <1>t DEF Cached, ChannelTypeOK
    <3>4. Cached(e).parent = q /\ row[e].parent = q /\ e \notin Below(e) BY <2>1, <1>x DEF Follows
    <3>5. \A n \in Nodes : InCache(latest, n)' <=> InCache(latest, n)
      <4>1. InCache(latest, e) /\ InCache(latest, e)'
        BY <2>1, <3>2, <3>3 DEF InCache, Cached
      <4> QED BY <4>1, <1>2
    <3>6. InCache(latest, q) => HasList(latest, q)' /\ InList(e, q)'
      <4> SUFFICES ASSUME InCache(latest, q) PROVE HasList(latest, q)' /\ InList(e, q)'
        OBVIOUS
      <4>1. HasList(latest, q) /\ InList(e, q) BY <2>1, <3>4, <1>x DEF Follows
      <4>2. HasList(latest, q)' /\ holder'[latest][q] = holder[latest][q] BY <4>1, <1>2
      <4>3. EntriesOf(latest, q, o.id) # {} BY <4>1, <3>2 DEF InList, EntriesOf
      <4>a. PICK y \in EntriesOf(latest, q, o.id) :
              subchnls' = [subchnls EXCEPT ![holder[latest][q]][q] =
                             (@ \ {y}) \union {[y EXCEPT !.object = o]}]
        BY <4>3, <3>1 DEF Replace
      <4>b. holder[latest][q] \in Holders /\ y \in Entries
        <5>1. holder[latest][q] \in Holders BY <1>2, <1>t DEF ChannelTypeOK
        <5>2. y \in subchnls[holder[latest][q]][q] BY <4>a DEF EntriesOf, List
        <5> QED BY <5>1, <5>2, <1>t DEF ChannelTypeOK
      <4>c. PICK f : f = [y EXCEPT !.object = o] OBVIOUS
      <4>d. f.object = o BY <4>b, <4>c DEF Entries
      <4>4. f.object = o /\ f \in subchnls'[holder[latest][q]][q]
        BY <4>a, <4>b, <4>c, <4>d, <1>t DEF ChannelTypeOK
      <4>5. f \in List(latest, q)' BY <4>2, <4>4, <1>2 DEF List
      <4>6. UpToDate(f.object)'
        BY <4>4, <3>2, <1>2
      <4> QED BY <4>2, <4>4, <4>5, <4>6, <3>2 DEF InList
    <3>7. UpToDate(Cached(e))' BY <3>2, <3>3, <1>2 DEF UpToDate
    <3>8. InTable(q) => InCache(latest, q)' BY <2>1, <3>4, <3>5, <1>x DEF Follows
    <3>9. /\ InTable(Cached(e).parent)' <=> InTable(q)
          /\ InCache(latest, Cached(e).parent)' <=> InCache(latest, q)'
          /\ HasList(latest, Cached(e).parent)' <=> HasList(latest, q)'
          /\ InList(e, Cached(e).parent)' <=> InList(e, q)'
      <4>1. (Cached(e).parent)' = q BY <3>2, <3>3, <3>4
      <4> QED BY <4>1, <1>2 DEF InTable, InCache, HasList, InList, List
    <3>10. InCache(latest, q)' => InCache(latest, q) BY <3>5
    <3> QED BY <2>1, <3>2, <3>3, <3>4, <3>6, <3>7, <3>8, <3>9, <3>10, <1>2 DEF Follows
  <2>2. CASE ~(Cached(e) # None /\ row[e] # None)
    <3>1. channelMap' = channelMap /\ UNCHANGED listVars
      BY <2>2, <1>p DEF HandleUpdate, Cached
    <3>2. /\ Cached(e)' = Cached(e)
          /\ InTable(Cached(e).parent)' <=> InTable(Cached(e).parent)
          /\ InCache(latest, Cached(e).parent)' <=> InCache(latest, Cached(e).parent)
          /\ HasList(latest, Cached(e).parent)' <=> HasList(latest, Cached(e).parent)
          /\ InTable(row[e].parent)' <=> InTable(row[e].parent)
          /\ InCache(latest, row[e].parent)' <=> InCache(latest, row[e].parent)
      BY <3>1, <1>2 DEF Cached, InTable, InCache, HasList, listVars
    <3> QED BY <2>2, <3>2, <1>x, <1>2 DEF Follows
  <2> QED BY <2>1, <2>2
<1> QED BY <1>3, <1>p, HandlerKeeps DEF InStep

\* The site's cache forgets a deleted channel and is in step with the table again.
LEMMA RemoveKeeps ==
  ASSUME RequestsInv, ~Renewing, InStep, NEW x \in Admins, HandleDelete(x, latest)
  PROVE  InStep'
<1>t. ChannelTypeOK /\ TaskShape /\ CacheShape /\ TypesInv BY DEF RequestsInv, TypesInv
<1>p. PICK e \in Channels, q \in Nodes : e = task[x].channel /\ q = task[x].parent
  BY HandlerRuns
<1>2. /\ row' = row /\ latest' = latest /\ latest \in Caches /\ task[x].op = "removed"
      /\ \A n : InTable(n)' <=> InTable(n)
  BY <1>p, HandlerRuns DEF HandleDelete
<1>x. Follows(e) /\ row[e] = None /\ (Cached(e) # None => Cached(e).parent = q)
  <2>1. Removing(x) BY DEF InStep, Handlers
  <2> QED BY <2>1, <1>2, <1>p DEF Removing, InStep
<1>3. Follows(e)'
  <2>1. CASE InCache(latest, q) /\ HasList(latest, q)
    <3>1. channelMap' = [channelMap EXCEPT ![latest][e] = None]
      BY <2>1, <1>p DEF HandleDelete
    <3>2. Cached(e)' = None BY <3>1, <1>2, <1>t DEF Cached, ChannelTypeOK
    <3> QED BY <3>2, <1>2, <1>x DEF Follows
  <2>2. CASE ~(InCache(latest, q) /\ HasList(latest, q))
    <3>1. channelMap' = channelMap BY <2>2, <1>p DEF HandleDelete
    <3>2. /\ Cached(e)' = Cached(e)
          /\ InTable(Cached(e).parent)' <=> InTable(Cached(e).parent)
          /\ InCache(latest, Cached(e).parent)' <=> InCache(latest, Cached(e).parent)
      BY <3>1, <1>2 DEF Cached, InTable, InCache
    <3>3. Cached(e) # None => ~InCache(latest, Cached(e).parent) /\ ~InTable(Cached(e).parent)
      BY <2>2, <1>x DEF Follows
    <3> QED BY <3>2, <3>3, <1>x, <1>2 DEF Follows
  <2> QED BY <2>1, <2>2
<1> QED BY <1>3, <1>p, HandlerKeeps DEF InStep
-----------------------------------------------------------------------------
(* Loading a new cache *)

\* While a request reloads, an administrator at work is the one that reloads.
LEMMA LoadingAlone ==
  ASSUME RequestsInv, Renewing, NEW a \in Admins, task[a] # NoTask
  PROVE  /\ task[a].op \in {"moved", "load"}
         /\ \A b \in Admins \ {a} : task[b] = NoTask
  BY NoTaskType DEF RequestsInv, Alone, Renewing, ReloadSteps

\* The end of a load leaves cache and table in step.
LEMMA FinishKeeps ==
  ASSUME RequestsInv, Filling, NEW x \in Admins, FinishLoading(x)
  PROVE  InStep'
<1>t. ChannelTypeOK /\ TaskShape BY DEF RequestsInv, TypesInv
<1>1. /\ loader = x /\ frontier = {} /\ latest' = latest + 1
      /\ row' = row /\ channelMap' = channelMap
      /\ holder' = holder /\ subchnls' = subchnls /\ made' = made
  BY DEF FinishLoading, tableVars, listVars
<1>k. PICK k \in Caches : k = latest + 1 /\ k > latest
  <2>1. loader # None BY <1>1, ChannelAssumption
  <2> QED BY <2>1, <1>t, Bounds DEF ChannelTypeOK, Caches
<1>2. \A a \in Admins : task'[a] = NoTask
  <2>1. task[x].op = "load" BY <1>1 DEF RequestsInv, Alone
  <2>2. \A a \in Admins \ {x} : task[a] = NoTask BY <2>1 DEF RequestsInv, Alone, ReloadSteps
  <2>3. Done(x) BY DEF FinishLoading
  <2> QED BY <2>2, <2>3, <1>t, TaskSteps
<1>3. Handlers' BY <1>2, NoTaskType DEF Handlers, Adding, Editing, Removing
<1>4. /\ \A c \in Channels : Cached(c)' = channelMap[k][c] /\ Fresh(c) = channelMap[k][c]
      /\ \A n : InCache(latest, n)' <=> InCache(k, n)
      /\ \A n : InTable(n)' <=> InTable(n)
      /\ \A o : UpToDate(o)' <=> UpToDate(o)
      /\ \A c \in Channels : Below(c)' = Below(c)
  BY <1>1, <1>k DEF Cached, Fresh, InCache, InTable, UpToDate, Below
<1>5. \A n \in Nodes : holder[k][n] = k BY <1>k DEF RequestsInv, Unused
<1>6. ASSUME NEW n \in Nodes, InCache(k, n), NEW c \in SubChannels(n)
      PROVE  channelMap[k][c] # None /\ HasList(latest, n)' /\ InList(c, n)'
  <2>0. c \in Channels BY DEF SubChannels
  <2>1. Complete(n) BY <1>6, <1>1, <1>k DEF Filling
  <2>2. /\ channelMap[k][c] # None
        /\ <<k, n>> \in made
        /\ \E e \in subchnls[k][n] : e.object.id = c /\ UpToDate(e.object)
    BY <2>1, <2>0, <1>k, <1>4 DEF Complete
  <2>3. HasList(latest, n)' BY <2>2, <1>1, <1>k, <1>5 DEF HasList
  <2>4. List(latest, n)' = subchnls[k][n] BY <1>1, <1>k, <1>5 DEF List
  <2>5. InList(c, n)' BY <2>2, <2>4, <1>4 DEF InList
  <2> QED BY <2>2, <2>3, <2>5
<1>7. ASSUME NEW c \in Channels PROVE Follows(c)'
  <2>1. CASE channelMap[k][c] # None
    <3>1. /\ UpToDate(channelMap[k][c]) /\ InCache(k, row[c].parent) /\ c \in Below(Root)
      BY <2>1, <1>k, <1>4 DEF Filling
    <3>2. channelMap[k][c].id = c
      BY <2>1 DEF RequestsInv, TypesInv, CacheShape
    <3>3. row[c] # None /\ channelMap[k][c].parent = row[c].parent
      BY <3>1, <3>2 DEF UpToDate
    <3>4. PICK n \in Nodes : n = row[c].parent BY <3>3, <1>t DEF ChannelTypeOK, Rows
    <3>5. c \notin Below(c) BY <3>1, RootedNotBelow
    <3>6. c \in SubChannels(n) BY <3>3, <3>4 DEF SubChannels
    <3>7. HasList(latest, n)' /\ InList(c, n)' BY <3>1, <3>4, <3>6, <1>6
    <3>8. /\ InCache(latest, n)'
          /\ UpToDate(channelMap[k][c])'
      BY <3>1, <3>4, <1>1, <1>4 DEF UpToDate
    <3>9. /\ InTable(Cached(c).parent)' <=> InTable(n)
          /\ InCache(latest, Cached(c).parent)' <=> InCache(latest, n)'
          /\ HasList(latest, Cached(c).parent)' <=> HasList(latest, n)'
          /\ InList(c, Cached(c).parent)' <=> InList(c, n)'
          /\ UpToDate(Cached(c))' <=> UpToDate(channelMap[k][c])'
          /\ (Cached(c).parent)' = (row[c].parent)'
      <4>1. (Cached(c).parent)' = n /\ Cached(c)' = channelMap[k][c] /\ row' = row
            /\ channelMap' = channelMap
        BY <3>3, <3>4, <1>1, <1>4
      <4> QED BY <4>1, <3>4, <1>4 DEF InTable, InCache, HasList, InList, List, UpToDate
    <3>10. row'[c] # None /\ Cached(c)' # None /\ c \notin Below(c)'
      BY <2>1, <3>3, <3>5, <1>1, <1>4
    <3> QED BY <3>7, <3>8, <3>9, <3>10 DEF Follows
  <2>2. CASE channelMap[k][c] = None
    <3>1. ASSUME row[c] # None, NEW n, n = row[c].parent, InCache(k, n) PROVE FALSE
      <4>1. n \in Nodes /\ c \in SubChannels(n)
        BY <3>1, <1>t DEF SubChannels, ChannelTypeOK, Rows
      <4> QED BY <4>1, <3>1, <1>6, <2>2
    <3>2. row'[c] # None => ~InCache(latest, row[c].parent)'
      BY <3>1, <1>1, <1>k DEF InCache
    <3>3. Cached(c)' = None BY <2>2, <1>4
    <3> QED BY <3>2, <3>3 DEF Follows
  <2> QED BY <2>1, <2>2
<1> QED BY <1>3, <1>7 DEF InStep

\* A query for the children of a channel keeps the new cache true to the table.
LEMMA LoadSubKeeps ==
  ASSUME RequestsInv, Filling, NEW x \in Admins, NEW n \in Nodes, LoadSubChannels(x, n)
  PROVE  Filling'
<1>t. ChannelTypeOK BY DEF RequestsInv, TypesInv
<1>k. PICK k \in Caches : k = latest + 1 /\ k \in Holders
  BY <1>t, LoadSteps
<1>1. /\ \A c \in Channels :
           IF c \in SubChannels(n)
           THEN channelMap'[k][c] # None /\ UpToDate(channelMap'[k][c]) /\ channelMap'[k][c].id = c
           ELSE channelMap'[k][c] = channelMap[k][c]
      /\ \A m \in Nodes :
           IF m = n
           THEN subchnls'[k][m] = {[by |-> k, object |-> channelMap'[k][c]] : c \in SubChannels(n)}
           ELSE subchnls'[k][m] = subchnls[k][m]
      /\ made' = IF SubChannels(n) = {} THEN made ELSE made \union {<<k, n>>}
      /\ n \in frontier /\ frontier' = (frontier \ {n}) \union SubChannels(n)
      /\ row' = row /\ latest' = latest
  BY <1>t, <1>k, LoadSteps DEF tableVars
<1>2. /\ \A m : SubChannels(m)' = SubChannels(m)
      /\ \A o : UpToDate(o)' <=> UpToDate(o)
      /\ Below(Root)' = Below(Root)
      /\ \A c : Fresh(c)' = channelMap'[k][c] /\ Fresh(c) = channelMap[k][c]
  BY <1>1, <1>k DEF SubChannels, UpToDate, Below, Fresh
<1>3. \A c \in SubChannels(n) : c \in Channels /\ row[c] # None /\ row[c].parent = n
  BY DEF SubChannels
<1>4. \A m : InCache(k, m) => InCache(k, m)'
  BY <1>1, <1>3 DEF InCache
<1>5. InCache(k, n)' BY <1>1, <1>4, <1>k DEF Filling
<1>6. \A m \in frontier' : InCache(k, m)'
  <2>1. \A m \in frontier : InCache(k, m)' BY <1>4, <1>k DEF Filling
  <2>2. \A m \in SubChannels(n) : InCache(k, m)' BY <1>1, <1>3 DEF InCache
  <2> QED BY <2>1, <2>2, <1>1
<1>7. ASSUME NEW c \in Channels, Fresh(c)' # None
      PROVE  UpToDate(Fresh(c))' /\ InCache(k, row[c].parent)' /\ c \in Below(Root)'
  <2>1. CASE c \in SubChannels(n)
    <3>1. UpToDate(channelMap'[k][c]) BY <2>1, <1>1
    <3>2. UpToDate(Fresh(c))' BY <3>1, <1>1, <1>2 DEF UpToDate
    <3>3. n \in Below(Root) \union {Root}
      <4>1. InCache(k, n) BY <1>1, <1>k DEF Filling
      <4>2. CASE n # Root
        <5>1. n \in Channels /\ Fresh(n) # None BY <4>1, <4>2, <1>2 DEF InCache
        <5> QED BY <5>1 DEF Filling
      <4> QED BY <4>2
    <3>4. c \in Below(Root) BY <2>1, <3>3, <1>3, ChildBelow DEF Nodes
    <3>5. InCache(k, row[c].parent)' BY <2>1, <1>1, <1>3, <1>5 DEF InCache
    <3> QED BY <3>2, <3>4, <3>5, <1>2
  <2>2. CASE c \notin SubChannels(n)
    <3>1. Fresh(c)' = Fresh(c) BY <2>2, <1>1, <1>2
    <3>2. UpToDate(Fresh(c)) /\ InCache(k, row[c].parent) /\ c \in Below(Root)
      BY <3>1, <1>7, <1>k DEF Filling
    <3>3. UpToDate(Fresh(c))' BY <3>1, <3>2, <1>1 DEF UpToDate
    <3>4. InCache(k, row[c].parent)'
      <4> SUFFICES ASSUME NEW m, m = row[c].parent PROVE InCache(k, m)'
        BY <1>1 DEF InCache
      <4> QED BY <3>2, <1>4
    <3> QED BY <3>2, <3>3, <3>4, <1>2
  <2> QED BY <2>1, <2>2
<1>8. ASSUME NEW m \in Nodes \ frontier', InCache(k, m)' PROVE Complete(m)'
  <2> SUFFICES ASSUME NEW c \in SubChannels(m)
               PROVE  /\ Fresh(c)' # None
                      /\ <<k, m>> \in made'
                      /\ \E e \in subchnls'[k][m] : e.object.id = c /\ UpToDate(e.object)'
    BY <1>1, <1>2, <1>k DEF Complete
  <2>0. c \in Channels /\ row[c] # None /\ row[c].parent = m BY DEF SubChannels
  <2>1. CASE m = n
    <3>1. channelMap'[k][c] # None /\ UpToDate(channelMap'[k][c]) /\ channelMap'[k][c].id = c
      BY <2>0, <2>1, <1>1
    <3>2. PICK e : e = [by |-> k, object |-> channelMap'[k][c]] OBVIOUS
    <3>3. e \in subchnls'[k][m] /\ e.object = channelMap'[k][c] BY <2>1, <3>2, <1>1
    <3>4. e.object.id = c /\ UpToDate(e.object)' BY <3>1, <3>3, <1>2
    <3> QED BY <2>1, <3>1, <3>3, <3>4, <1>1, <1>2
  <2>2. CASE m # n
    <3>1. m \notin frontier /\ m \notin SubChannels(n) BY <2>2, <1>1
    <3>2. InCache(k, m) BY <3>1, <1>1, <1>8 DEF InCache
    <3>3. Complete(m) BY <3>1, <3>2, <1>k DEF Filling
    <3>4. /\ Fresh(c) # None
          /\ <<k, m>> \in made
          /\ \E e \in subchnls[k][m] : e.object.id = c /\ UpToDate(e.object)
      BY <3>3, <1>k DEF Complete
    <3>5. Fresh(c)' = Fresh(c) /\ subchnls'[k][m] = subchnls[k][m] /\ <<k, m>> \in made'
      BY <2>0, <2>2, <3>4, <1>1, <1>2, <1>3
    <3> QED BY <3>4, <3>5, <1>2
  <2> QED BY <2>1, <2>2
<1> QED BY <1>1, <1>6, <1>7, <1>8, <1>k DEF Filling

\* Every step keeps what the cache being loaded has of the table.
LEMMA FillingNext ==
  ASSUME Reloads = "alone", CacheInv, [ChannelNext]_channelVars, loader' # None
  PROVE  Filling'
<1>r. RequestsInv /\ ChannelTypeOK /\ Alone /\ (loader # None => Filling)
  BY DEF CacheInv, RequestsInv, TypesInv
<1>1. CASE UNCHANGED channelVars
  <2>1. UNCHANGED <<row, channelMap, subchnls, made, latest, frontier>> /\ loader' = loader
    BY <1>1 DEF channelVars, tableVars, cacheVars, listVars, loadVars
  <2>2. Filling BY <2>1, <1>r
  <2> QED BY <2>1, <2>2
      DEF Filling, InCache, Fresh, UpToDate, Below, Complete, SubChannels
<1>2. ASSUME NEW x \in Admins, AdminStep(x), loader # None PROVE Filling'
  <2>1. loader \in Admins /\ task[loader].op = "load" /\ Filling
    BY <1>2, <1>r DEF Alone, ChannelTypeOK
  <2>2. \A b \in Admins \ {loader} : task[b] = NoTask BY <2>1, <1>r DEF Alone, ReloadSteps
  <2>3. ~\E t : Start(x, t)
    <3>1. ASSUME NEW t, Start(x, t) PROVE FALSE
      <4>1. x # loader BY <2>1, <3>1, NoTaskType DEF Start
      <4>2. IF t.op \in ReloadSteps THEN task[loader] = NoTask ELSE ~Reloading(loader)
        BY <2>1, <3>1, <4>1 DEF Start
      <4> QED BY <2>1, <4>2, NoTaskType DEF Reloading, ReloadSteps
    <3> QED BY <3>1
  <2>4. task[x].op \in {"idle", "load"} BY <2>1, <2>2, NoTaskType
  <2>5. (\E n \in Nodes : LoadSubChannels(x, n)) \/ FinishLoading(x)
    BY <1>2, <2>3, <2>4 DEF AdminStep, OpenCreate, Insert, HandleAdd, OpenEdit, SaveEdit,
       HandleUpdate, OpenDelete, DeleteRows, HandleDelete, OpenMove, Relocate, OpenReset,
       StartLoading
  <2>6. ~FinishLoading(x) BY DEF FinishLoading
  <2> QED BY <2>1, <2>5, <2>6, <1>r, LoadSubKeeps
<1>3. ASSUME NEW x \in Admins, AdminStep(x), loader = None PROVE Filling'
  <2>1. StartLoading(x) /\ frontier' = {Root} /\ channelMap' = channelMap /\ latest' = latest
        /\ latest < MaxCaches
    <3>1. loader' # loader /\ loader # x BY <1>3, ChannelAssumption
    <3>2. StartLoading(x)
      BY <1>3, <3>1 DEF AdminStep, OpenCreate, Insert, HandleAdd, OpenEdit, SaveEdit,
         HandleUpdate, OpenDelete, DeleteRows, HandleDelete, OpenMove, Relocate, OpenReset,
         LoadSubChannels, FinishLoading, loadVars
    <3> QED BY <3>1, <3>2 DEF StartLoading, loadVars
  <2>2. latest + 1 \in Caches /\ latest + 1 > latest
    BY <2>1, <1>r, Bounds DEF ChannelTypeOK, Caches
  <2>3. \A c \in Channels : Fresh(c)' = None
    BY <1>3, <1>r, <2>1, <2>2 DEF RequestsInv, Unused, Fresh
  <2>4. \A m : InCache(latest + 1, m)' <=> m = Root
    BY <2>3, ChannelAssumption DEF InCache, Fresh, Nodes
  <2> QED BY <2>1, <2>3, <2>4 DEF Filling
<1> QED BY <1>1, <1>2, <1>3 DEF ChannelNext
-----------------------------------------------------------------------------
(* The invariant *)

\* The inductive invariant holds at first, when the first cache is being loaded.
LEMMA InitInv == ChannelInit => CacheInv
<1> SUFFICES ASSUME ChannelInit PROVE CacheInv
  OBVIOUS
<1>t. TypesInv /\ ChannelTypeOK BY InitTypes DEF TypesInv
<1>1. /\ created = {c \in Channels : row[c] # None}
      /\ \A k \in Caches, c \in Channels : channelMap[k][c] = None
      /\ \A k \in Caches, n \in Nodes : holder[k][n] = k
      /\ made = {} /\ latest = 0 /\ latest \notin Caches
      /\ loader \in Admins /\ frontier = {Root}
      /\ task = [a \in Admins |-> IF a = loader THEN [NoTask EXCEPT !.op = "load"] ELSE NoTask]
  <2>1. 0 \notin Caches BY Bounds DEF Caches
  <2> QED BY <2>1 DEF ChannelInit
<1>2. task[loader].op = "load" /\ \A a \in Admins \ {loader} : task[a] = NoTask
  BY <1>1 DEF NoTask
<1>3. RequestsInv
  <2>1. IdsTaken
    <3>1. ASSUME NEW c \in Channels, row[c] # None PROVE row[c].parent \in created \union {Root}
      <4>1. c \in Below(Root) BY <3>1 DEF ChannelInit
      <4>2. row[c].parent \in Below(Root) \union {Root} BY <4>1, BelowParent DEF Nodes
      <4>3. Below(Root) \subseteq created BY <1>1, BelowParent DEF Nodes
      <4> QED BY <4>2, <4>3
    <3>2. \A a \in Admins : task[a].op \in {"idle", "load"} BY <1>2, NoTaskType
    <3> QED BY <3>1, <3>2, <1>1 DEF IdsTaken
  <2>2. Alone
    <3>1. \A a \in Admins : task[a].op = "load" <=> loader = a BY <1>2, NoTaskType
    <3> QED BY <3>1, <1>2, NoTaskType DEF Alone, ReloadSteps
  <2>3. Unused BY <1>1 DEF Unused
  <2> QED BY <1>t, <2>1, <2>2, <2>3 DEF RequestsInv
<1>4. NotAhead BY <1>1 DEF NotAhead
<1>5. Renewing BY <1>1, <1>2 DEF Renewing
<1>6. Filling
  <2>1. latest + 1 \in Caches BY <1>1, Bounds DEF Caches
  <2>2. \A c \in Channels : Fresh(c) = None BY <1>1, <2>1 DEF Fresh
  <2>3. \A m : InCache(latest + 1, m) <=> m = Root
    BY <2>2, ChannelAssumption DEF InCache, Fresh, Nodes
  <2> QED BY <1>1, <2>2, <2>3 DEF Filling
<1> QED BY <1>3, <1>4, <1>5, <1>6 DEF CacheInv

\* A step after which no request reloads leaves cache and table in step.
LEMMA InStepNext ==
  ASSUME CacheInv, RequestsInv', ~Renewing', [ChannelNext]_channelVars
  PROVE  InStep'
<1>r. /\ RequestsInv /\ ChannelTypeOK /\ TaskShape /\ Alone /\ TypesInv
      /\ (~Renewing => InStep) /\ (loader # None => Filling)
      /\ NoTask.op = "idle"
  BY NoTaskType DEF CacheInv, RequestsInv, TypesInv
<1>1. CASE UNCHANGED channelVars
  <2>1. InStep /\ task' = task
    BY <1>1, <1>r DEF Renewing, channelVars
  <2>2. /\ row' = row /\ channelMap' = channelMap /\ latest' = latest
        /\ holder' = holder /\ subchnls' = subchnls /\ made' = made
    BY <1>1 DEF channelVars, tableVars, cacheVars, listVars
  <2>3. /\ \A c : Cached(c)' = Cached(c)
        /\ \A n : InCache(latest, n)' <=> InCache(latest, n)
        /\ \A n : HasList(latest, n)' <=> HasList(latest, n)
        /\ \A n : List(latest, n)' = List(latest, n)
        /\ \A b : Waiting(b)' <=> Waiting(b)
        /\ \A n : InTable(n)' <=> InTable(n)
        /\ \A n : Below(n)' = Below(n)
        /\ \A o : UpToDate(o)' <=> UpToDate(o)
    BY <2>1, <2>2 DEF InTable, InCache, Cached, Waiting, Untold, HasList, List, UpToDate, Below
  <2>4. \A op, c : Pending(op, c)' <=> Pending(op, c) BY <2>1, <2>3 DEF Pending
  <2>5. ASSUME NEW a \in Admins PROVE (Adding(a) /\ Editing(a) /\ Removing(a))'
    <3>1. Adding(a) /\ Editing(a) /\ Removing(a) BY <2>1 DEF InStep, Handlers
    <3>2. Adding(a)' BY <3>1, <2>1, <2>2, <2>3 DEF Adding
    <3>3. Editing(a)' /\ Removing(a)' BY <3>1, <2>1, <2>2, <2>3 DEF Editing, Removing
    <3> QED BY <3>2, <3>3
  <2>6. ASSUME NEW c \in Channels PROVE Follows(c)'
    <3>1. Follows(c) BY <2>1 DEF InStep
    <3>2. \A n : InList(c, n)' <=> InList(c, n) BY <2>3, <2>4 DEF InList
    <3> QED BY <3>1, <3>2, <2>2, <2>3, <2>4 DEF Follows
  <2> QED BY <2>5, <2>6 DEF InStep, Handlers
<1>2. ASSUME NEW x \in Admins, AdminStep(x) PROVE InStep'
  <2>0. \A b \in Admins \ {x} : task'[b] = task[b] BY <1>2, <1>r, OneRequest
  <2>1. CASE FinishLoading(x)
    <3>1. loader # None BY <2>1, ChannelAssumption DEF FinishLoading
    <3> QED BY <2>1, <3>1, <1>r, FinishKeeps
  <2>2. CASE ~FinishLoading(x)
    <3>0. ~\E n \in Nodes : LoadSubChannels(x, n)
      <4>1. ASSUME NEW n \in Nodes, LoadSubChannels(x, n) PROVE FALSE
        <5>1. task[x].op = "load" /\ task' = task BY <4>1, <1>r DEF LoadSubChannels, Alone
        <5> QED BY <5>1 DEF Renewing
      <4> QED BY <4>1
    <3>1. ~StartLoading(x)
      <4>1. ASSUME StartLoading(x) PROVE FALSE
        <5>1. Go(x, "load") BY <4>1, <1>r DEF StartLoading, Alone
        <5>2. task'[x].op = "load" BY <5>1, <1>r, GoesOn
        <5> QED BY <5>2 DEF Renewing
      <4> QED BY <4>1
    <3>2. ~Renewing
      <4>1. ASSUME NEW a \in Admins, task[a].op \in {"moved", "load"} PROVE FALSE
        <5>1. a = x BY <4>1, <2>0 DEF Renewing
        <5>2. (\E n \in Nodes : LoadSubChannels(x, n)) \/ FinishLoading(x) \/ StartLoading(x)
          BY <1>2, <1>r, <4>1, <5>1 DEF AdminStep, OpenCreate, Insert, HandleAdd, OpenEdit,
             SaveEdit, HandleUpdate, OpenDelete, DeleteRows, HandleDelete, OpenMove, Relocate,
             OpenReset, Start
        <5> QED BY <5>2, <2>2, <3>0, <3>1
      <4> QED BY <4>1 DEF Renewing
    <3>3. InStep BY <3>2, <1>r
    <3>4. CASE SaveEdit(x) \/ DeleteRows(x) \/ \E c \in Channels : Insert(x, c)
      BY <3>2, <3>3, <3>4, <1>r, SaveKeeps, DeleteKeeps, InsertKeeps
    <3>7. ASSUME NEW k \in Caches, HandleAdd(x, k) \/ HandleUpdate(x, k) \/ HandleDelete(x, k)
          PROVE  InStep'
      <4>1. CASE k = latest
        BY <3>2, <3>3, <3>7, <4>1, <1>r, AddKeeps, UpdateKeeps, RemoveKeeps
      <4>2. CASE k # latest BY <3>2, <3>3, <3>7, <4>2, <1>r, OtherCacheKeeps
      <4> QED BY <4>1, <4>2
    <3>5. CASE (\E p \in Nodes : OpenCreate(x, p)) \/ (\E c \in Channels : OpenEdit(x, c))
               \/ (\E c \in Channels : OpenDelete(x, c)) \/ OpenReset(x)
               \/ (\E c \in Channels, q \in Nodes : OpenMove(x, c, q))
      <4> DEFINE Opens(t) == /\ Start(x, t) /\ UNCHANGED <<tableVars, cacheVars>>
                             /\ DOMAIN t = DOMAIN NoTask
                             /\ \/ t.op \in {"relocate", "reset"}
                                \/ t.op = "insert" /\ InCache(latest, t.parent)
                                \/ /\ t.op = "save" /\ t.channel \in Channels
                                   /\ InCache(latest, t.channel)
                                   /\ t.parent = row[t.channel].parent
                                \/ /\ t.op = "remove" /\ t.channel \in Channels
                                   /\ InCache(latest, t.channel) /\ row[t.channel] # None
                                   /\ t.parent = channelMap[latest][t.channel].parent
      <4>1. \E t : Opens(t)
        <5>1. ASSUME NEW p \in Nodes, OpenCreate(x, p)
              PROVE  Opens([NoTask EXCEPT !.op = "insert", !.parent = p])
          BY <5>1 DEF OpenCreate, NoTask, Shown
        <5>2. ASSUME NEW c \in Channels, OpenEdit(x, c)
              PROVE  Opens([NoTask EXCEPT !.op = "save", !.channel = c, !.parent = row[c].parent])
          BY <5>2 DEF OpenEdit, NoTask, Shown
        <5>3. ASSUME NEW c \in Channels, OpenDelete(x, c)
              PROVE  Opens([NoTask EXCEPT !.op = "remove", !.channel = c,
                                          !.parent = channelMap[latest][c].parent])
          BY <5>3 DEF OpenDelete, NoTask, Shown
        <5>4. ASSUME OpenReset(x) PROVE Opens([NoTask EXCEPT !.op = "reset"])
          BY <5>4 DEF OpenReset, NoTask
        <5>5. ASSUME NEW c \in Channels, NEW q \in Nodes, OpenMove(x, c, q)
              PROVE  Opens([NoTask EXCEPT !.op = "relocate", !.channel = c, !.parent = q])
          BY <5>5 DEF OpenMove, NoTask
        <5> HIDE DEF Opens
        <5> QED BY <3>5, <5>1, <5>2, <5>3, <5>4, <5>5
      <4>2. PICK t : Opens(t)
        BY <4>1
      <4>3. task[x] = NoTask /\ task'[x] = [t EXCEPT !.no = operations + 1]
        BY <4>2, <1>r, TaskSteps DEF Start
      <4>4. task'[x].op = t.op /\ task'[x].channel = t.channel /\ task'[x].parent = t.parent
        BY <4>2, <4>3 DEF NoTask
      <4>5. row' = row /\ channelMap' = channelMap /\ latest' = latest
        BY <4>2 DEF tableVars, cacheVars
      <4>6. t.channel \in Channels /\ InCache(latest, t.channel) => Cached(t.channel) # None
        BY ChannelAssumption DEF InCache, Cached, Nodes
      <4>7. Cached(task'[x].channel) = Cached(t.channel)
            /\ (InCache(latest, task'[x].parent) <=> InCache(latest, t.parent))
            /\ row[task'[x].channel] = row[t.channel]
        BY <4>4
      <4>8. t.op = "remove" => t.parent = Cached(t.channel).parent BY <4>2 DEF Cached
      <4>9. /\ task'[x].op = "insert" => InCache(latest, task'[x].parent)
            /\ task'[x].op = "save" =>
                 LET c == task'[x].channel
                 IN  c \in Channels /\ Cached(c) # None /\ task'[x].parent = row[c].parent
            /\ task'[x].op = "remove" =>
                 LET c == task'[x].channel
                 IN  /\ c \in Channels /\ Cached(c) # None /\ row[c] # None
                     /\ task'[x].parent = Cached(c).parent
            /\ task[x].op \notin {"added", "updated", "removed"}
            /\ task'[x].op \notin {"added", "updated", "removed"}
            /\ UNCHANGED <<tableVars, cacheVars>>
        BY <4>2, <4>3, <4>4, <4>6, <4>7, <4>8, <1>r
      <4> QED BY <4>9, <2>0, <3>3, <1>r, QuietStepKeeps
    <3>6. CASE Relocate(x)
      <4>1. task[x].op = "relocate" /\ UNCHANGED cacheVars /\ created' = created
        BY <3>6 DEF Relocate
      <4>2. Done(x) /\ UNCHANGED row
        <5>1. CASE Go(x, "moved")
          <6>1. task'[x].op = "moved" BY <5>1, <1>r, GoesOn
          <6> QED BY <6>1 DEF Renewing
        <5> QED BY <3>6, <5>1 DEF Relocate
      <4>3. task'[x] = NoTask BY <4>2, <1>r, TaskSteps
      <4>4. UNCHANGED <<tableVars, cacheVars>> BY <4>1, <4>2 DEF tableVars
      <4> QED BY <4>1, <4>3, <4>4, <2>0, <3>3, <1>r, QuietStepKeeps
    <3> QED BY <1>2, <2>2, <3>0, <3>1, <3>4, <3>5, <3>6, <3>7 DEF AdminStep
  <2> QED BY <2>1, <2>2
<1> QED BY <1>1, <1>2 DEF ChannelNext

\* Every step keeps that no cached revision is above the one of the table.
LEMMA NotAheadNext ==
  ASSUME CacheInv, [ChannelNext]_channelVars
  PROVE  NotAhead'
<1>r. /\ RequestsInv /\ ChannelTypeOK /\ TaskShape /\ Alone /\ NotAhead /\ TypesInv
      /\ (~Renewing => InStep) /\ (loader # None => Filling)
  BY DEF CacheInv, RequestsInv, TypesInv
<1>t. ChannelTypeOK' BY <1>r, NextTypes DEF TypesInv, RequestsInv
<1>0. latest \in Caches => \A c \in Channels : Cached(c) # None => Cached(c).rev \in Nat
  BY <1>r DEF ChannelTypeOK, Objects, Revisions, Cached
<1>1. ASSUME UNCHANGED <<channelMap, latest>>,
             \A c \in Channels : row'[c] # None => row[c] # None /\ row'[c].rev >= row[c].rev
      PROVE  NotAhead'
  <2>1. ASSUME NEW c \in Channels, latest \in Caches, Cached(c) # None, row'[c] # None
        PROVE  Cached(c).rev <= row'[c].rev
    <3>1. /\ row[c] # None /\ row'[c].rev >= row[c].rev /\ Cached(c).rev <= row[c].rev
      BY <1>1, <2>1, <1>r DEF NotAhead
    <3>2. row[c].rev \in Nat /\ row'[c].rev \in Nat
      BY <2>1, <3>1, <1>r, <1>t DEF ChannelTypeOK, Rows, Revisions
    <3> QED BY <1>0, <2>1, <3>1, <3>2
  <2>2. \A c : Cached(c)' = Cached(c) BY <1>1 DEF Cached
  <2> QED BY <1>1, <2>1, <2>2 DEF NotAhead
<1>2. ASSUME UNCHANGED <<row, latest>>,
             \A c \in Channels : latest \in Caches /\ Cached(c)' # None /\ row[c] # None =>
               Cached(c)' = Cached(c) \/ Cached(c)'.rev = row[c].rev
      PROVE  NotAhead'
  <2>1. \A c \in Channels : row[c] # None => row[c].rev \in Nat
    BY <1>r DEF ChannelTypeOK, Rows, Revisions
  <2> QED BY <1>2, <1>r, <2>1 DEF NotAhead
<1>3. ASSUME NEW x \in Admins, AdminStep(x) PROVE NotAhead'
  <2>1. ASSUME NEW e \in Channels, Insert(x, e) PROVE NotAhead'
    <3>1. /\ e \notin created /\ channelMap' = channelMap /\ latest' = latest
          /\ \A d \in Channels \ {e} : row'[d] = row[d]
      BY <2>1, <1>r DEF Insert, ChannelTypeOK, cacheVars
    <3>2. latest \in Caches => Cached(e) = None
      BY <3>1, <1>r DEF RequestsInv, IdsTaken, Cached
    <3>3. \A c : Cached(c)' = Cached(c) BY <3>1 DEF Cached
    <3> QED BY <3>1, <3>2, <3>3, <1>r DEF NotAhead
  <2>2. ASSUME NEW k \in Caches, HandleAdd(x, k) PROVE NotAhead'
    <3>1. /\ task[x].op = "added" /\ task[x].channel \in Channels /\ row' = row
          /\ latest' = latest /\ k \in Untold(x) /\ task[x] # NoTask
      BY <2>2, <1>r, NoTaskType DEF HandleAdd, TaskShape, tableVars
    <3>2. ASSUME NEW c \in Channels, latest \in Caches, row[c] # None, Cached(c)' # Cached(c)
          PROVE  Cached(c)'.rev = row[c].rev
      <4>1. channelMap'[latest][c] # channelMap[latest][c] BY <3>1, <3>2 DEF Cached
      <4>2. latest = k /\ c = task[x].channel /\ channelMap'[latest][c] = Announced(x)
        BY <2>2, <3>2, <4>1, <1>r, MapSteps
      <4>3. Cached(c)'.rev = task[x].rev
        BY <3>1, <4>2, <1>r, AnnouncedType DEF Cached
      <4>4. ~Renewing BY <3>1, <1>r, LoadingAlone
      <4>5. Adding(x) /\ Waiting(x) BY <3>1, <4>2, <4>4, <1>r DEF InStep, Handlers, Waiting
      <4>6. row[c] = [parent |-> task[x].parent, rev |-> task[x].rev]
        BY <3>1, <3>2, <4>2, <4>5 DEF Adding
      <4> QED BY <4>3, <4>6
    <3> QED BY <3>1, <3>2, <1>2
  <2>3. CASE SaveEdit(x)
    <3>1. task[x].channel \in Channels /\ channelMap' = channelMap /\ latest' = latest
      BY <2>3, <1>r DEF SaveEdit, TaskShape, cacheVars
    <3>2. CASE row[task[x].channel] # None
      <4> DEFINE e == task[x].channel
      <4>1. row' = [row EXCEPT ![e].rev = @ + 1] /\ row[e] \in Rows
        BY <2>3, <3>1, <3>2, <1>r DEF SaveEdit, ChannelTypeOK
      <4>2. row'[e] = [row[e] EXCEPT !.rev = @ + 1] /\ \A d \in Channels \ {e} : row'[d] = row[d]
        BY <3>1, <4>1, <1>r DEF ChannelTypeOK
      <4>3. row'[e].rev >= row[e].rev BY <4>1, <4>2 DEF Rows, Revisions
      <4>4. \A d \in Channels : row[d] # None => row[d].rev >= row[d].rev
        BY <1>r DEF ChannelTypeOK, Rows, Revisions
      <4> QED BY <3>1, <3>2, <4>2, <4>3, <4>4, <1>1
    <3>3. CASE row[task[x].channel] = None
      <4>1. row' = row BY <2>3, <3>3 DEF SaveEdit
      <4>2. \A c : Cached(c)' = Cached(c) BY <3>1 DEF Cached
      <4> QED BY <3>1, <4>1, <4>2, <1>2
    <3> QED BY <3>2, <3>3
  <2>4. ASSUME NEW k \in Caches, HandleUpdate(x, k) PROVE NotAhead'
    <3>1. row' = row /\ latest' = latest /\ task[x].no \in Nat
      BY <2>4, <1>r DEF HandleUpdate, tableVars, ChannelTypeOK, Tasks
    <3>2. ASSUME NEW c \in Channels, latest \in Caches, row[c] # None, Cached(c)' # Cached(c)
          PROVE  Cached(c)'.rev = row[c].rev
      <4>1. channelMap'[latest][c] # channelMap[latest][c] BY <3>1, <3>2 DEF Cached
      <4>2. channelMap'[latest][c] = Object(c, k, task[x].no)
        BY <2>4, <3>2, <4>1, <1>r, MapSteps
      <4> QED BY <3>1, <3>2, <4>2, <1>r, ObjectType DEF Cached
    <3> QED BY <3>1, <3>2, <1>2
  <2>5. CASE DeleteRows(x)
    <3>1. /\ channelMap' = channelMap /\ latest' = latest
          /\ \A c \in Channels : row'[c] \in {None, row[c]}
      BY <2>5 DEF DeleteRows, cacheVars, Remove
    <3>2. \A c : Cached(c)' = Cached(c) BY <3>1 DEF Cached
    <3> QED BY <3>1, <3>2, <1>r DEF NotAhead
  <2>6. ASSUME NEW k \in Caches, HandleDelete(x, k) PROVE NotAhead'
    <3>1. row' = row /\ latest' = latest BY <2>6 DEF HandleDelete, tableVars
    <3>2. \A c \in Channels : latest \in Caches => Cached(c)' \in {None, Cached(c)}
      BY <2>6, <3>1, <1>r, MapSteps DEF Cached
    <3> QED BY <3>1, <3>2, <1>2
  <2>7. CASE Relocate(x)
    <3>1. task[x].channel \in Channels /\ task[x].parent \in Nodes /\ channelMap' = channelMap
          /\ latest' = latest
      BY <2>7, <1>r DEF Relocate, TaskShape, cacheVars
    <3>2. \A c \in Channels : row'[c] # None => row[c] # None /\ row'[c].rev = row[c].rev
      <4> DEFINE e == task[x].channel
      <4>1. CASE row[e] # None /\ row' = [row EXCEPT ![e].parent = task[x].parent]
        <5>1. /\ row'[e] = [row[e] EXCEPT !.parent = task[x].parent]
              /\ \A c \in Channels \ {e} : row'[c] = row[c]
          BY <4>1, <3>1, <1>r DEF ChannelTypeOK
        <5>2. row[e] \in Rows BY <4>1, <3>1, <1>r DEF ChannelTypeOK
        <5>3. row'[e].rev = row[e].rev BY <5>1, <5>2 DEF Rows
        <5> QED BY <4>1, <5>1, <5>3
      <4>2. CASE row' = row BY <4>2
      <4> QED BY <4>1, <4>2, <2>7 DEF Relocate
    <3>3. \A c : Cached(c)' = Cached(c) BY <3>1 DEF Cached
    <3> QED BY <3>1, <3>2, <3>3, <1>r DEF NotAhead
  <2>8. CASE FinishLoading(x)
    <3>1. loader # None /\ channelMap' = channelMap /\ row' = row /\ latest' = latest + 1
      BY <2>8, ChannelAssumption DEF FinishLoading, tableVars
    <3>2. ASSUME NEW c \in Channels, Cached(c)' # None, row[c] # None
          PROVE  Cached(c)'.rev = row[c].rev /\ row[c].rev \in Nat
      <4>1. Cached(c)' = Fresh(c) BY <3>1 DEF Cached, Fresh
      <4>2. UpToDate(Fresh(c)) BY <3>1, <3>2, <4>1, <1>r DEF Filling
      <4>3. Fresh(c).id = c
        <5>1. latest + 1 \in Caches BY <3>1, <1>r, Bounds DEF ChannelTypeOK, Caches
        <5> QED BY <5>1, <3>2, <4>1, <1>r DEF TypesInv, CacheShape, Fresh
      <4> QED BY <3>2, <4>1, <4>2, <4>3, <1>r DEF UpToDate, ChannelTypeOK, Rows, Revisions
    <3> QED BY <3>1, <3>2 DEF NotAhead
  <2>9. ASSUME NEW n \in Nodes, LoadSubChannels(x, n) PROVE NotAhead'
    <3>1. row' = row /\ latest' = latest /\ latest \in Nat
      BY <2>9, <1>r, Bounds DEF LoadSubChannels, tableVars, ChannelTypeOK
    <3>2. \A c \in Channels : latest \in Caches => Cached(c)' = Cached(c)
      BY <2>9, <3>1, <1>r, LoadSteps DEF Cached
    <3> QED BY <3>1, <3>2, <1>2
  <2>10. CASE \/ \E p \in Nodes : OpenCreate(x, p)
              \/ \E c \in Channels : OpenEdit(x, c) \/ OpenDelete(x, c)
              \/ \E c \in Channels, q \in Nodes : OpenMove(x, c, q)
              \/ OpenReset(x) \/ StartLoading(x)
    BY <2>10, <1>r DEF OpenCreate, OpenEdit, OpenDelete, OpenMove, OpenReset, StartLoading,
       NotAhead, Cached, tableVars, cacheVars
  <2> QED BY <1>3, <2>1, <2>2, <2>3, <2>4, <2>5, <2>6, <2>7, <2>8, <2>9, <2>10 DEF AdminStep
<1>4. CASE UNCHANGED channelVars
  BY <1>4, <1>r DEF channelVars, tableVars, cacheVars, NotAhead, Cached
<1> QED BY <1>3, <1>4 DEF ChannelNext

\* Every step keeps the inductive invariant.
LEMMA NextInv ==
  ASSUME Reloads = "alone", CacheInv, [ChannelNext]_channelVars
  PROVE  CacheInv'
<1>1. RequestsInv'
  <2>1. TypesInv /\ IdsTaken /\ Alone /\ Unused BY DEF CacheInv, RequestsInv
  <2>2. TypesInv' BY <2>1, NextTypes
  <2> QED BY <2>1, <2>2, IdsNext, AloneNext, UnusedNext DEF RequestsInv
<1> QED BY <1>1, NotAheadNext, InStepNext, FillingNext DEF CacheInv

\* The inductive invariant holds always.
LEMMA InvAlways == Reloads = "alone" => (ChannelSpec => []CacheInv)
<1> SUFFICES ASSUME Reloads = "alone" PROVE ChannelSpec => []CacheInv
  OBVIOUS
<1>1. CacheInv /\ [ChannelNext]_channelVars => CacheInv' BY NextInv
<1> QED BY InitInv, <1>1, PTL DEF ChannelSpec
-----------------------------------------------------------------------------
(* Where no request goes on beside one that loads a new cache *)

\* When no request is under way, the site's cache finds every channel below one that
\* exists, by its id and in the list of its parent, as the table has it, however the
\* handlers of ChannelCacheManager followed one another and whichever of the other caches
\* share the list.
THEOREM CacheComplete == Reloads = "alone" => (ChannelSpec => []CacheIsComplete)
<1> SUFFICES ASSUME Reloads = "alone" PROVE ChannelSpec => []CacheIsComplete
  OBVIOUS
<1>1. CacheInv => CacheIsComplete
  <2> SUFFICES ASSUME CacheInv, Quiet, NEW c \in Channels, row[c] # None,
                      InTable(row[c].parent), InCache(latest, row[c].parent)
               PROVE  /\ UpToDate(channelMap[latest][c])
                      /\ \E e \in List(latest, row[c].parent) :
                           e.object.id = c /\ UpToDate(e.object)
    BY DEF CacheIsComplete
  <2>1. InStep /\ \A op \in {"added", "updated", "removed"} : ~Pending(op, c)
    BY NoTaskType DEF CacheInv, Renewing, Quiet, Pending
  <2>2. Follows(c) BY <2>1 DEF InStep
  <2>3. Cached(c) # None BY <2>1, <2>2 DEF Follows
  <2>4. UpToDate(Cached(c)) /\ InList(c, row[c].parent) BY <2>1, <2>2, <2>3 DEF Follows
  <2> QED BY <2>1, <2>4 DEF InList, Cached
<1> QED BY InvAlways, <1>1, PTL

\* A deleted channel that look-ups by id still find hangs below a deleted channel.
THEOREM OnlyLeftovers == Reloads = "alone" => (ChannelSpec => []GhostsAreLeftovers)
<1> SUFFICES ASSUME Reloads = "alone" PROVE ChannelSpec => []GhostsAreLeftovers
  OBVIOUS
<1>1. CacheInv => GhostsAreLeftovers
  <2> SUFFICES ASSUME CacheInv, Quiet, NEW c \in Channels, Cached(c) # None, row[c] = None
               PROVE  ~InTable(Cached(c).parent)
    BY DEF GhostsAreLeftovers, Cached
  <2>1. InStep /\ ~Pending("removed", c)
    BY NoTaskType DEF CacheInv, Renewing, Quiet, Pending
  <2> QED BY <2>1 DEF InStep, Follows
<1> QED BY InvAlways, <1>1, PTL

\* A reader that finds a channel never finds it as it was before what was found already,
\* also when a new cache takes the place of the one it found it in.
THEOREM ReadersGoForward == Reloads = "alone" => (ChannelSpec => ReadsGoForward)
<1> SUFFICES ASSUME Reloads = "alone" PROVE ChannelSpec => ReadsGoForward
  OBVIOUS
<1>1. ASSUME CacheInv, [ChannelNext]_channelVars
      PROVE  [\A c \in Channels :
                visible /\ visible' /\ channelMap[latest][c] # None
                  /\ channelMap'[latest'][c] # None
                  => channelMap'[latest'][c].rev >= channelMap[latest][c].rev]_channelVars
  <2> SUFFICES ASSUME NEW c \in Channels, visible, Cached(c) # None, Cached(c)' # None
               PROVE  Cached(c)'.rev >= Cached(c).rev
    BY DEF Cached
  <2>t. /\ RequestsInv /\ TypesInv /\ ChannelTypeOK /\ TaskShape /\ NotAhead
        /\ (loader # None => Filling) /\ latest \in Caches
    BY <1>1 DEF CacheInv, RequestsInv, TypesInv, ChannelTypeOK
  <2>0. Cached(c).rev \in Nat BY <2>t DEF ChannelTypeOK, Objects, Revisions, Cached
  <2>1. ASSUME Cached(c)'.rev = row[c].rev, row[c] # None
        PROVE  Cached(c)'.rev >= Cached(c).rev
    <3>1. row[c].rev \in Nat BY <2>1, <2>t DEF ChannelTypeOK, Rows, Revisions
    <3> QED BY <3>1, <2>1, <2>0, <2>t DEF NotAhead
  <2>2. Cached(c)' = Cached(c) \/ (Cached(c)'.rev = row[c].rev /\ row[c] # None)
    <3>1. CASE UNCHANGED <<channelMap, latest>> BY <3>1 DEF Cached
    <3>2. ASSUME NEW x \in Admins, NEW k \in Caches, HandleAdd(x, k)
          PROVE  Cached(c)' = Cached(c)
      <4>1. latest' = latest BY <3>2 DEF HandleAdd
      <4>2. CASE channelMap'[latest][c] = channelMap[latest][c] BY <4>1, <4>2 DEF Cached
      <4>3. CASE channelMap'[latest][c] # channelMap[latest][c]
        <5>1. k = latest /\ c = task[x].channel /\ channelMap' # channelMap
          BY <3>2, <4>3, <2>t, MapSteps
        <5> QED BY <3>2, <5>1 DEF HandleAdd, Cached
      <4> QED BY <4>2, <4>3
    <3>3. ASSUME NEW x \in Admins, NEW k \in Caches, HandleUpdate(x, k)
          PROVE  Cached(c)' = Cached(c) \/ (Cached(c)'.rev = row[c].rev /\ row[c] # None)
      <4>1. latest' = latest /\ task[x].no \in Nat
        BY <3>3, <2>t DEF HandleUpdate, ChannelTypeOK, Tasks
      <4>2. \/ channelMap'[latest][c] = channelMap[latest][c]
            \/ row[c] # None /\ channelMap'[latest][c] = Object(c, k, task[x].no)
        BY <3>3, <2>t, MapSteps
      <4> QED BY <4>1, <4>2, <2>t, ObjectType DEF Cached
    <3>4. ASSUME NEW x \in Admins, NEW k \in Caches, HandleDelete(x, k)
          PROVE  Cached(c)' = Cached(c)
      <4>1. latest' = latest BY <3>4 DEF HandleDelete
      <4>2. channelMap'[latest][c] = channelMap[latest][c] \/ channelMap'[latest][c] = None
        BY <3>4, <2>t, MapSteps
      <4> QED BY <4>1, <4>2 DEF Cached
    <3>5. ASSUME NEW x \in Admins, FinishLoading(x)
          PROVE  Cached(c)'.rev = row[c].rev /\ row[c] # None
      <4>1. loader # None /\ Cached(c)' = Fresh(c)
        BY <3>5, ChannelAssumption DEF FinishLoading, Cached, Fresh
      <4>2. UpToDate(Fresh(c)) BY <4>1, <2>t DEF Filling
      <4>3. Fresh(c).id = c
        <5>1. latest + 1 \in Caches BY <4>1, <2>t, Bounds DEF ChannelTypeOK, Caches
        <5> QED BY <5>1, <4>1, <2>t DEF TypesInv, CacheShape, Fresh
      <4> QED BY <4>1, <4>2, <4>3 DEF UpToDate
    <3>6. ASSUME NEW x \in Admins, NEW n \in Nodes, LoadSubChannels(x, n)
          PROVE  Cached(c)' = Cached(c)
      <4>1. latest' = latest /\ latest \in Nat
        BY <3>6, <2>t, Bounds DEF LoadSubChannels, ChannelTypeOK
      <4>2. channelMap'[latest][c] = channelMap[latest][c]
        <5>1. latest # latest + 1 /\ latest \in Caches /\ ChannelTypeOK BY <4>1, <2>t
        <5> QED BY <3>6, <5>1, LoadSteps
      <4> QED BY <4>1, <4>2 DEF Cached
    <3> QED BY <1>1, <3>1, <3>2, <3>3, <3>4, <3>5, <3>6 DEF ChannelNext, AdminStep, OpenCreate,
               Insert, OpenEdit, SaveEdit, OpenDelete, DeleteRows, OpenMove, Relocate, OpenReset,
               StartLoading, cacheVars, channelVars
  <2> QED BY <2>0, <2>1, <2>2
<1> QED BY InvAlways, <1>1, PTL DEF ChannelSpec, ReadsGoForward
=============================================================================
