----------------------------- MODULE ChannelCache -----------------------------
(***************************************************************************)
(* The caches of a site's channels, which publications, tags and the       *)
(* administration pages read, and the table they are kept in step with.    *)
(*                                                                         *)
(* An administrator's request changes the table, and only after its commit *)
(* tells the caches that are listening, one after the other in its own     *)
(* thread. The handlers of one cache exclude each other, but other         *)
(* requests go on in between. A channel that is moved, or a reset, makes   *)
(* the site load a new cache, level by level, and one site loads at a      *)
(* time; the cache it replaces goes on listening.                          *)
(*                                                                         *)
(* Every listening cache takes the very object a creation announces, and   *)
(* an edit hands the list of the object it replaces to the new one, so     *)
(* caches may share the list of a channel. A list holds what the caches    *)
(* put there; its order is left open.                                      *)
(*                                                                         *)
(* A channel's revision stands for the columns that every read takes from  *)
(* the channel's own row. The file name is kept apart: a load takes it     *)
(* from another row. The workflow and the columns that only some reads     *)
(* take are left out.                                                      *)
(***************************************************************************)
EXTENDS Naturals, FiniteSets

CONSTANTS
  Channels,
  Root,          \* channelroot
  None,
  Admins,        \* requests of administrators at the same time
  MaxOperations, \* bound: operations of all administrators
  MaxCaches,     \* bound: caches of the site, the first one loaded at the start
  Reloads        \* when caches are loaded anew: "alone", or at "any" time

Nodes == Channels \union {Root}
Revisions == Nat \ {0}
Rows == [parent : Nodes, rev : Revisions]

Caches == 1..MaxCaches
Event == 0                      \* the object that a creation announces
Holders == Caches \union {Event}

\* A channel object: what it shows, the channel whose file name it carries, and, to tell
\* one object from another, who made it in which operation.
Objects == [id : Channels, parent : Nodes, rev : Revisions, file : Channels,
            maker : Holders, no : Nat]

\* An entry of a list, and the cache that put it there.
Entries == [by : Caches, object : Objects]

ASSUME ChannelAssumption ==
  /\ Root \notin Channels
  /\ None \notin Nodes \union Admins \union Rows \union Objects
  /\ MaxOperations \in Nat
  /\ MaxCaches \in Nat \ {0}
  /\ Reloads \in {"alone", "any"}

VARIABLES
  row,        \* td_cms_channel: the row of a channel, None without one
  created,    \* the ids that were taken from the sequence
  channelMap, \* the channel objects of a cache
  holder,     \* whose list a cache has for a channel: its own, or that of the event's object
  subchnls,   \* the entries of the lists of children
  made,       \* the lists that are there; without a child there may be none
  latest,     \* the caches 1..latest are listening, the last one is the site's
  visible,    \* whether siteChannelCacheManagers has a cache for the site
  task,       \* what an administrator's request does next
  loader,     \* the request that loads a new cache and holds the lock
  frontier,   \* the channels it has still to load the children of
  operations

tableVars == <<row, created>>
listVars == <<holder, subchnls, made>>
cacheVars == <<channelMap, listVars, latest, visible>>
loadVars == <<loader, frontier>>
channelVars == <<tableVars, cacheVars, task, loadVars, operations>>

ReloadSteps == {"relocate", "moved", "reset", "load"}
Tasks == [op : {"idle", "insert", "added", "save", "updated", "remove", "removed"}
                 \union ReloadSteps,
          channel : Channels \union {None}, parent : Nodes \union {None},
          rev : {0} \union Revisions, no : Nat, telling : SUBSET Caches]

NoTask == [op |-> "idle", channel |-> None, parent |-> None, rev |-> 0, no |-> 0, telling |-> {}]

ChannelTypeOK ==
  /\ row \in [Channels -> Rows \union {None}]
  /\ created \subseteq Channels
  /\ channelMap \in [Caches -> [Channels -> Objects \union {None}]]
  /\ holder \in [Caches -> [Nodes -> Holders]]
  /\ subchnls \in [Holders -> [Nodes -> SUBSET Entries]]
  /\ made \subseteq Holders \X Nodes
  /\ latest \in 0..MaxCaches
  /\ visible \in BOOLEAN
  /\ task \in [Admins -> Tasks]
  /\ loader \in Admins \union {None}
  /\ frontier \subseteq Nodes
  /\ operations \in 0..MaxOperations
  /\ visible => latest \in Caches
  /\ visible \/ loader # None
  /\ loader # None => latest < MaxCaches

-----------------------------------------------------------------------------
(* What is read from the table *)

\* getDirectSubChannels, getDirectChannelsOfSite
SubChannels(n) == {c \in Channels : row[c] # None /\ row[c].parent = n}

\* The channels below n: those in every set that has n's children and its own members'.
Below(n) ==
  {c \in Channels : \A S \in SUBSET Channels :
     (\A d \in Channels : row[d] # None /\ row[d].parent \in S \union {n} => d \in S) => c \in S}

\* getChannelInfo, in cache k's handler of operation i
Object(c, k, i) ==
  [id |-> c, parent |-> row[c].parent, rev |-> row[c].rev, file |-> c, maker |-> k, no |-> i]

\* What loadChannel reads: below a channel every object gets the file name of the first row.
FirstRows(n) == IF n = Root \/ SubChannels(n) = {} THEN {None} ELSE SubChannels(n)
Loaded(c, first, k, i) ==
  [Object(c, k, i) EXCEPT !.file = IF first = None THEN c ELSE first]

-----------------------------------------------------------------------------
(* A cache *)

InTable(n) == n = Root \/ (n \in Channels /\ row[n] # None)
InCache(k, n) == n = Root \/ (n \in Channels /\ channelMap[k][n] # None)

\* getSubchnls
List(k, n) == subchnls[holder[k][n]][n]
HasList(k, n) == <<holder[k][n], n>> \in made

\* The first request that looks for the site's channels loads its first cache.
ChannelInit ==
  /\ row \in [Channels -> [parent : Nodes, rev : {1}] \union {None}]
  /\ \A c \in Channels : row[c] # None => c \in Below(Root)
  /\ created = {c \in Channels : row[c] # None}
  /\ channelMap = [k \in Caches |-> [c \in Channels |-> None]]
  /\ holder = [k \in Caches |-> [n \in Nodes |-> k]]
  /\ subchnls = [k \in Holders |-> [n \in Nodes |-> {}]]
  /\ made = {}
  /\ latest = 0
  /\ visible = FALSE
  /\ loader \in Admins
  /\ task = [a \in Admins |-> IF a = loader THEN [NoTask EXCEPT !.op = "load"] ELSE NoTask]
  /\ frontier = {Root}
  /\ operations = 0

-----------------------------------------------------------------------------
(* Requests. What an administrator picks from, the site's cache shows. *)

Shown(n) == visible /\ InCache(latest, n)

Reloading(a) == task[a].op \in ReloadSteps

\* A request begins with task t.
Start(a, t) ==
  /\ task[a] = NoTask
  /\ operations < MaxOperations
  /\ operations' = operations + 1
  /\ t.op \in ReloadSteps => latest < MaxCaches
  /\ Reloads = "alone" =>
       \A b \in Admins \ {a} : IF t.op \in ReloadSteps THEN task[b] = NoTask ELSE ~Reloading(b)
  /\ task' = [task EXCEPT ![a] = [t EXCEPT !.no = operations + 1]]

Go(a, op) == task' = [task EXCEPT ![a].op = op]
Done(a) == task' = [task EXCEPT ![a] = NoTask]

\* The caches an event has still to reach, and one of them told of it.
Untold(a) == IF task[a].telling = {} THEN 1..latest ELSE task[a].telling
Told(a, k) ==
  task' = [task EXCEPT ![a] = IF Untold(a) = {k} THEN NoTask
                                                 ELSE [@ EXCEPT !.telling = Untold(a) \ {k}]]

\* createChannel makes sure that the parent exists.
OpenCreate(a, p) ==
  /\ Shown(p) /\ InTable(p)
  /\ Cardinality(created) + Cardinality({b \in Admins : task[b].op = "insert"})
       < Cardinality(Channels)
  /\ Start(a, [NoTask EXCEPT !.op = "insert", !.parent = p])
  /\ UNCHANGED <<tableVars, cacheVars, loadVars>>

Insert(a, c) ==
  /\ task[a].op = "insert" /\ c \notin created
  /\ created' = created \union {c}
  /\ row' = [row EXCEPT ![c] = [parent |-> task[a].parent, rev |-> 1]]
  /\ task' = [task EXCEPT ![a] = [@ EXCEPT !.op = "added", !.channel = c, !.rev = 1]]
  /\ UNCHANGED <<cacheVars, loadVars, operations>>

\* EVENT_CHANNEL_ADD: the object of the event itself, and with it its list, unless the
\* channel is there already. Without its parent in the cache the handler fails.
HandleAdd(a, k) ==
  /\ task[a].op = "added" /\ k \in Untold(a)
  /\ Told(a, k)
  /\ LET c == task[a].channel
         p == task[a].parent
         o == [id |-> c, parent |-> p, rev |-> task[a].rev, file |-> c,
               maker |-> Event, no |-> task[a].no]
     IN  IF channelMap[k][c] = None /\ InCache(k, p)
         THEN /\ subchnls' = [subchnls EXCEPT ![holder[k][p]][p] =
                                @ \union {[by |-> k, object |-> o]}]
              /\ made' = made \union {<<holder[k][p], p>>}
              /\ channelMap' = [channelMap EXCEPT ![k][c] = o]
              /\ holder' = [holder EXCEPT ![k][c] = Event]
         ELSE UNCHANGED <<channelMap, listVars>>
  /\ UNCHANGED <<tableVars, latest, visible, loadVars, operations>>

\* The page reads the channel from the table and keeps its parent.
OpenEdit(a, c) ==
  /\ Shown(c) /\ row[c] # None
  /\ Start(a, [NoTask EXCEPT !.op = "save", !.channel = c, !.parent = row[c].parent])
  /\ UNCHANGED <<tableVars, cacheVars, loadVars>>

\* updateChannel; the statement finds no row when the channel was deleted meanwhile.
SaveEdit(a) ==
  /\ task[a].op = "save"
  /\ LET c == task[a].channel
     IN  IF row[c] # None
         THEN /\ row' = [row EXCEPT ![c].rev = @ + 1]
              /\ task' = [task EXCEPT ![a] = [@ EXCEPT !.op = "updated", !.rev = row[c].rev + 1]]
         ELSE /\ Go(a, "updated")
              /\ UNCHANGED row
  /\ UNCHANGED <<created, cacheVars, loadVars, operations>>

\* replaceSubChannel: the first entry of the channel, whichever that is, is replaced by o.
EntriesOf(k, p, c) == {e \in List(k, p) : InCache(k, p) /\ e.object.id = c}
Replace(k, p, o) ==
  IF EntriesOf(k, p, o.id) = {}
  THEN UNCHANGED subchnls
  ELSE \E e \in EntriesOf(k, p, o.id) :
         subchnls' = [subchnls EXCEPT ![holder[k][p]][p] =
                        (@ \ {e}) \union {[e EXCEPT !.object = o]}]

\* Mutant of HandleUpdate: the object of the event is cached, not the row read anew.
MEventSource(a, k) ==
  /\ task[a].op = "updated" /\ k \in Untold(a)
  /\ Told(a, k)
  /\ LET c == task[a].channel
         o == [id |-> c, parent |-> task[a].parent, rev |-> task[a].rev, file |-> c,
               maker |-> k, no |-> task[a].no]
     IN  IF channelMap[k][c] # None /\ row[c] # None
         THEN /\ channelMap' = [channelMap EXCEPT ![k][c] = o]
              /\ holder' = [holder EXCEPT ![k][c] = IF HasList(k, c) THEN @ ELSE k]
              /\ Replace(k, task[a].parent, o)
              /\ UNCHANGED made
         ELSE UNCHANGED <<channelMap, listVars>>
  /\ UNCHANGED <<tableVars, latest, visible, loadVars, operations>>

\* Mutant of HandleUpdate: the parent keeps the old object.
MNotReplaced(a, k) ==
  /\ task[a].op = "updated" /\ k \in Untold(a)
  /\ Told(a, k)
  /\ LET c == task[a].channel
     IN  IF channelMap[k][c] # None /\ row[c] # None
         THEN /\ channelMap' = [channelMap EXCEPT ![k][c] = Object(c, k, task[a].no)]
              /\ holder' = [holder EXCEPT ![k][c] = IF HasList(k, c) THEN @ ELSE k]
              /\ UNCHANGED <<subchnls, made>>
         ELSE UNCHANGED <<channelMap, listVars>>
  /\ UNCHANGED <<tableVars, latest, visible, loadVars, operations>>

\* EVENT_CHANNEL_UPDATE: the row is read anew under the lock of the cache. The new object
\* takes over the list of the old one, and its place in the map and in the list of the
\* parent that the page knew. Without the object in the cache or its row the handler fails.
HandleUpdate(a, k) ==
  /\ task[a].op = "updated" /\ k \in Untold(a)
  /\ Told(a, k)
  /\ LET c == task[a].channel
         o == Object(c, k, task[a].no)
     IN  IF channelMap[k][c] # None /\ row[c] # None
         THEN /\ channelMap' = [channelMap EXCEPT ![k][c] = o]
              /\ holder' = [holder EXCEPT ![k][c] = IF HasList(k, c) THEN @ ELSE k]
              /\ Replace(k, task[a].parent, o)
              /\ UNCHANGED made
         ELSE UNCHANGED <<channelMap, listVars>>
  /\ UNCHANGED <<tableVars, latest, visible, loadVars, operations>>

\* logDeleteChannel takes the object of the event from the cache.
OpenDelete(a, c) ==
  /\ Shown(c) /\ row[c] # None
  /\ Start(a, [NoTask EXCEPT !.op = "remove", !.channel = c,
                             !.parent = channelMap[latest][c].parent])
  /\ UNCHANGED <<tableVars, cacheVars, loadVars>>

\* Where a branch hangs on a cycle.
Branches(c) == {d \in Below(c) : d \notin Below(d) /\ row[d].parent \in Below(row[d].parent)}
Remove(D) == row' = [d \in Channels |-> IF d \in D THEN None ELSE row[d]]

\* deleteChannel, children first. On a channel that was moved below itself meanwhile it
\* runs out of stack, after the branches that came before the way round.
DeleteRows(a) ==
  /\ task[a].op = "remove"
  /\ LET c == task[a].channel
     IN  IF c \in Below(c)
         THEN /\ Done(a)
              /\ \E B \in SUBSET Branches(c) : Remove(B \union UNION {Below(b) : b \in B})
         ELSE /\ Go(a, "removed")
              /\ Remove(Below(c) \union {c})
  /\ UNCHANGED <<created, cacheVars, loadVars, operations>>

\* list.remove: one entry that is the object of the map.
Leave(k, p, c) ==
  LET own == {e \in List(k, p) : e.object = channelMap[k][c]}
  IN  IF own = {}
      THEN UNCHANGED subchnls
      ELSE \E e \in own : subchnls' = [subchnls EXCEPT ![holder[k][p]][p] = @ \ {e}]

\* Mutant of HandleDelete: the channel only leaves its parent's list.
MListOnly(a, k) ==
  /\ task[a].op = "removed" /\ k \in Untold(a)
  /\ Told(a, k)
  /\ LET c == task[a].channel
         p == task[a].parent
     IN  Leave(k, p, c)
  /\ UNCHANGED <<tableVars, channelMap, holder, made, latest, visible, loadVars, operations>>

\* EVENT_CHANNEL_DELETE: the channel leaves the map and its parent's list. The handler then
\* asks the table for its descendants to remove them too, but the query starts at a row
\* that is gone by now. Without the parent in the cache, or its list, it fails.
HandleDelete(a, k) ==
  /\ task[a].op = "removed" /\ k \in Untold(a)
  /\ Told(a, k)
  /\ LET c == task[a].channel
         p == task[a].parent
     IN  IF InCache(k, p) /\ HasList(k, p)
         THEN /\ Leave(k, p, c)
              /\ channelMap' = [channelMap EXCEPT ![k][c] = None]
         ELSE UNCHANGED <<subchnls, channelMap>>
  /\ UNCHANGED <<tableVars, holder, made, latest, visible, loadVars, operations>>

-----------------------------------------------------------------------------
(* A new cache *)

\* Source and target are picked from the same tree; they only have to differ.
OpenMove(a, c, q) ==
  /\ Shown(c) /\ Shown(q) /\ c # q
  /\ Start(a, [NoTask EXCEPT !.op = "relocate", !.channel = c, !.parent = q])
  /\ UNCHANGED <<tableVars, cacheVars, loadVars>>

\* moveChannel does nothing for a channel that is there already, and fails for one that
\* is gone.
Relocate(a) ==
  /\ task[a].op = "relocate"
  /\ LET c == task[a].channel
         q == task[a].parent
     IN  IF row[c] # None /\ InTable(q) /\ row[c].parent # q
         THEN /\ row' = [row EXCEPT ![c].parent = q]
              /\ Go(a, "moved")
         ELSE Done(a) /\ UNCHANGED row
  /\ UNCHANGED <<created, cacheVars, loadVars, operations>>

OpenReset(a) ==
  /\ Start(a, [NoTask EXCEPT !.op = "reset"])
  /\ UNCHANGED <<tableVars, cacheVars, loadVars>>

\* EVENT_CHANNEL_MOVE drops the site's cache before it loads another; a reset loads
\* another and then replaces it.
StartLoading(a) ==
  /\ task[a].op \in {"moved", "reset"}
  /\ IF task[a].op = "moved" /\ row[task[a].channel] = None
     THEN Done(a) /\ UNCHANGED <<visible, loadVars>>
     ELSE /\ loader = None /\ latest < MaxCaches
          /\ loader' = a
          /\ frontier' = {Root}
          /\ visible' = (visible /\ task[a].op = "reset")
          /\ Go(a, "load")
  /\ UNCHANGED <<tableVars, channelMap, listVars, latest, operations>>

\* Mutant of LoadSubChannels: only the map is filled.
MNotListed(a, n) ==
  /\ loader = a /\ n \in frontier
  /\ \E first \in FirstRows(n) :
       channelMap' = [channelMap EXCEPT ![latest + 1] =
         [c \in Channels |-> IF c \in SubChannels(n)
                             THEN Loaded(c, first, latest + 1, task[a].no) ELSE @[c]]]
  /\ frontier' = (frontier \ {n}) \union SubChannels(n)
  /\ UNCHANGED <<tableVars, listVars, latest, visible, task, loader, operations>>

\* loadChannel reads the children of one channel with a query of their own.
LoadSubChannels(a, n) ==
  /\ loader = a /\ n \in frontier
  /\ LET k == latest + 1
     IN  \E first \in FirstRows(n) :
           LET o == [c \in SubChannels(n) |-> Loaded(c, first, k, task[a].no)]
           IN  /\ channelMap' = [channelMap EXCEPT ![k] =
                    [c \in Channels |-> IF c \in SubChannels(n) THEN o[c] ELSE @[c]]]
               /\ subchnls' = [subchnls EXCEPT ![k][n] =
                                 {[by |-> k, object |-> o[c]] : c \in SubChannels(n)}]
               /\ made' = IF SubChannels(n) = {} THEN made ELSE made \union {<<k, n>>}
  /\ frontier' = (frontier \ {n}) \union SubChannels(n)
  /\ UNCHANGED <<tableVars, holder, latest, visible, task, loader, operations>>

\* Mutant of FinishLoading: the new cache is not put in the place of the old one.
MNotPut(a) ==
  /\ loader = a /\ frontier = {}
  /\ loader' = None
  /\ Done(a)
  /\ UNCHANGED <<tableVars, cacheVars, frontier, operations>>

\* Only now is the new cache told of events, and found by the site's readers. The old one
\* stays among the listeners.
FinishLoading(a) ==
  /\ loader = a /\ frontier = {}
  /\ latest' = latest + 1
  /\ visible' = TRUE
  /\ loader' = None
  /\ Done(a)
  /\ UNCHANGED <<tableVars, channelMap, listVars, frontier, operations>>

-----------------------------------------------------------------------------
AdminStep(a) ==
  \/ \E p \in Nodes : OpenCreate(a, p)
  \/ \E c \in Channels : Insert(a, c)
  \/ \E k \in Caches : HandleAdd(a, k)
  \/ \E c \in Channels : OpenEdit(a, c)
  \/ SaveEdit(a)
  \/ \E k \in Caches : HandleUpdate(a, k)
  \/ \E c \in Channels : OpenDelete(a, c)
  \/ DeleteRows(a)
  \/ \E k \in Caches : HandleDelete(a, k)
  \/ \E c \in Channels, q \in Nodes : OpenMove(a, c, q)
  \/ Relocate(a)
  \/ OpenReset(a)
  \/ StartLoading(a)
  \/ \E n \in Nodes : LoadSubChannels(a, n)
  \/ FinishLoading(a)

ChannelNext == \E a \in Admins : AdminStep(a)

ChannelSpec == ChannelInit /\ [][ChannelNext]_channelVars

-----------------------------------------------------------------------------
Quiet == \A a \in Admins : task[a] = NoTask

\* An object shows its channel as the table has it.
UpToDate(o) ==
  o # None /\ row[o.id] # None /\ o.parent = row[o.id].parent /\ o.rev = row[o.id].rev

\* When no request is under way, the site's cache finds every channel below one that
\* exists, by its id and in the list of its parent, as the table has it, in whatever order
\* the requests' handlers ran and whichever of the other caches share the list
\* (ChannelCacheManager.java:260-354).
CacheIsComplete ==
  Quiet => \A c \in Channels :
    row[c] # None /\ InTable(row[c].parent) /\ InCache(latest, row[c].parent)
      => /\ UpToDate(channelMap[latest][c])
         /\ \E e \in List(latest, row[c].parent) : e.object.id = c /\ UpToDate(e.object)

\* As long as the first cache is the only one, the list of a channel that exists has
\* exactly the channels the table has there, each once, as the object that look-ups by id
\* find too: no deleted channel, no double, no old object (ChannelCacheManager.java:260-354).
ListsAreExact ==
  Quiet /\ latest = 1 => \A n \in Nodes : InCache(1, n) /\ InTable(n) =>
    List(1, n) = {[by |-> 1, object |-> channelMap[1][c]] : c \in SubChannels(n)}

\* A channel that is still found by its id though it was deleted is one whose parent was
\* deleted, too (ChannelCacheManager.java:276-304).
GhostsAreLeftovers ==
  Quiet => \A c \in Channels :
    channelMap[latest][c] # None /\ row[c] = None
      => ~InTable(channelMap[latest][c].parent)

\* A reader that finds a channel by its id never finds it as it was before what was found
\* already, also when the handlers of two edits run in the other order
\* (ChannelCacheManager.java:305-338).
ReadsGoForward ==
  [][\A c \in Channels :
       visible /\ visible' /\ channelMap[latest][c] # None /\ channelMap'[latest'][c] # None
         => channelMap'[latest'][c].rev >= channelMap[latest][c].rev]_channelVars

\* What the comment of loadSite says: the cache has all valid channels of the site.
AllChannelsLoaded ==
  Quiet => \A c \in Channels : row[c] # None => channelMap[latest][c] # None

\* The same comment for the channels that are reached from the root of the site.
ReachableLoaded ==
  Quiet => \A c \in Below(Root) : channelMap[latest][c] # None

\* What the comment of getSubChannels says: the list of a channel is that of its children.
ListsAreChildren ==
  Quiet => \A n \in Nodes : InCache(latest, n) /\ InTable(n) =>
    \A e \in List(latest, n) :
      /\ row[e.object.id] # None
      /\ \A d \in List(latest, n) : d.object.id = e.object.id => d = e

\* What the comment of getChannel says: the object has the data of the channel asked for.
FileIsOwn ==
  \A c \in Channels : visible /\ channelMap[latest][c] # None => channelMap[latest][c].file = c
=============================================================================
