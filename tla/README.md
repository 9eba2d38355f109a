# bboss-cms: TLA+ models and proofs

Models of the state machines at the heart of bboss-cms, checked with TLC on
small instances, and theorems about them proved with TLAPS for every instance.
Paths below are relative to the repository (`src/`); `CMS` stands for
`src/pdp-cms/src/com/frameworkset/platform/cms`.

## 1. The system

bboss-cms is a Java portal: a content management system (`pdp-cms`), the system
management it runs on (`pdp-system`: organisations, users, permissions, menus),
a front end of the Activiti workflow engine (`pdp-workflow*`), and connectors
and small applications. Pages are JSPs under `pdp/WebRoot`; state is in a
relational database and in static caches of one Java process.

What makes it more than forms over tables is publishing. A user, a timer or a
page asks for a site, a channel, a document or a page to be published. The
request builds a *context* (which for a document changes its status in the
database), goes through the *publish engine* (queue, dispatcher, workers), and
runs: a JSP is executed, the pages it links to are published as sub-objects,
and the result is *distributed* to the file system, after which the document
gets its final status. Other users meanwhile look at progress pages, restore
documents that are stuck, refresh caches, and move documents through their
workflow.

### Inventory

| component | state it keeps | operations | interacts with | what is hard | what must be true |
|---|---|---|---|---|---|
| Publish engine, `CMS/driver/publish/impl/PublishEngineImpl.java` | the dispatcher thread, its queue, current task and flag; three maps: ids published by a root, its monitor, uuid to root | `publish(object, callBack)`, `publish(object)`, `isPublishedTask`, `removePublishedObject`, `getPublishMonitor`, `clearTasks`, the loops of dispatcher and worker | callers (web, timer), monitors, contexts, cache refresh | unsynchronized lazy creation; check-then-act between threads; late clean-up; plain maps shared by threads; a flag that must be reset | an accepted task is run, once; nothing is skipped that was not published; indexes end with their runs |
| Publish monitor, `.../PublishMonitor.java` | status, parent, sub-monitors; messages; page, template and file indexes | `setPublishStatus`, `createSubPublishMonitor`, `isPublishEnded`, index operations | engine, every sub-run, progress pages | the end of a tree of runs | ended exactly when the run and its sub-runs are |
| Publish object, `CMS/driver/publish/PublishObject.java` and six subclasses | script, context, action type | `publish`, `disttribute`, `checkContext` | engine, monitor, distribution | exceptions swallowed between the phases of a run | every run ends with a final status |
| Document status while publishing, `ContentContextImpl`, `HTMLDistribute.after`, `DocumentManagerImpl` | `td_cms_document.status`, `td_cms_doc_publishing.old_status`, `preStatus` of a context | mark, restore or publish, list, recover one, recover all | engine, operators | several writers without locks, several transactions, server stops, swallowed errors | a document shown as published was published; a stuck one can be restored |
| Distribution pipeline, `HTMLDistribute`, `LinkCache`, `CMSLink`, `PublishMonitor` indexes, `FileUtil` | project directory, temporary and published directories; time stamps of linked files; indexes of what is distributed | `distribute`, `after`, `isModified`, `copy`, `moveSubFiles` | publish object, other publications and previews, file system | stamps shared without a lock and read before a copy, recorded after it; swallowed failures; files overwritten in place; stops | what is left out as unchanged is published as it is now; the site follows its sources |
| Recursive publishing, `RecursivePublishManagerImpl` | reference tables | record, collect | publish object | stale references | what shows a changed document is published again |
| Document workflow, `DocumentManagerImpl` | document status, task and task detail tables | deliver, withdraw, audit, roll back, complete, recycle, restore, archive, publish withdrawal, cite | workflow definitions, publication | operations that do not test the status they start from, stale pages, handlers of several commits | a document that waits is on a list; a task is answered once; a rejection goes back to its sender |
| Channel and site caches, `ChannelCacheManager`, `SiteCacheManager`; administration, `ChannelManagerImpl`, pages of `cms/channelManage` | `td_cms_channel`; tree, map by id, maps by display name; the cache of a site | create, update, delete, move, `reset`, `init`, `handle(event)`, look-ups | administrators, publish runs, tags | handlers that run after the commit and in another order; caches that share objects; a new cache loaded query by query before it listens; deletes of subtrees | the cache finds every channel of the table as it is; readers do not go back |
| Permission maps, `PermissionTokenMap`, `PermissionRoleMap`, `BaseAuthorizationTable` | role, resource and URL maps | load, check, reset by resource, region and role | login, administration | reset between check and use | an answer was true at some time during the call |
| Login sessions, organisation caches, menus, dictionaries, parameters | caches and lists in memory | load, event, look-up | administration | refresh under readers | as above |
| Search, comments, votes, counters, templates, files | tables and files of their own | single statements, file I/O | pages | little | |
| Activiti front end, logs, mail, SMS, LDAP, SAP, WeChat, master data | none of their own | calls of external services | external services | failures of the other side | |

`PROJECT.json` lists each with its sources, and the hazards with their lines.

## 2. Modules

| module | role |
|---|---|
| `TaskLifecycle` | abstract: what the engine promises about one request |
| `PublishEngine` | the engine, thread step by thread step |
| `PublishEngine_proofs` | its invariants, proved |
| `PublishEngineRefinement_proofs` | `PublishEngine` implements `TaskLifecycle`, proved |
| `DocPublishing` | composes `TaskLifecycle` with documents, their contexts and the operators who restore them |
| `DocPublishing_proofs` | its invariants, proved |
| `DocWorkflow` | the editorial workflow of a document, SQL statement by SQL statement |
| `WorkflowPrograms_proofs` | what the programs of all pages have in common, proved |
| `DocWorkflow_proofs` | its invariants for any number of requests at once, proved |
| `DocWorkflowSequential_proofs` | its invariants for requests that follow one another, proved |
| `Mirror` | abstract: what publishing promises about the files of a site |
| `Distribution` | stamps, temporary directories and moves of publications and previews |
| `Distribution_proofs` | its invariants and that it implements `Mirror`, proved |
| `ChannelCache` | the table of channels, the requests that change it, and the caches that follow by events and reloads |
| `ChannelCache_proofs` | its invariants, proved |
| `MCPublishEngine`, `MCDocPublishing`, `MCDocWorkflow`, `MCDistribution`, `MCChannelCache` | symmetry sets, and the flows of the workflow, for TLC |

`DocPublishing` is written over the abstract lifecycle and not over
`PublishEngine`: the theorem `EngineImplementsLifecycle` is what permits it.

### TaskLifecycle

For every request a phase: `new`, then `refused`, `failed`, `pending`, `running`,
`finished`. It says that a request is run at most once and only from `new`
(synchronous) or `pending` (queued), that it is refused only when a request for
the same object got through before, and that a refused or failed one is never
run.

### PublishEngine

A request is one call of `publish(object, callBack)` with a publish object of
its own. A dispatcher is named after the request that constructed it, since the
code may construct more than one.

| variables | code |
|---|---|
| `caller` | the position of the calling thread in `publish` (lines 70-161) |
| `currentTaskThread` | the engine's field |
| `dispatcher`, `queue`, `popped`, `current`, `running` | a `PublishTaskThread`: position in `run`, its queue, local result of `next()`, `currentPublishTask`, the flag |
| `work` | position in `PublishWorkThread.run` |
| `status`, `submonitors` | the request's `PublishMonitor` |
| `sub`, `tried` | the sub-object the run is publishing; how many it tried (bound) |
| `trace`, `monitorIndex`, `uuidIndex` | `currentTasktraceIndexs`, `currentMonitorIndexs`, `currentUUITaskIndexs` |
| `ran`, `skipped`, `cleared` | history, read by properties only (`cleared` is also bounded) |

The code takes a lock in `addPublishTask`, in the methods of the queue and in
`isPublishedTask`; each of these is one step. Everything else - a test of a
field, the assignment after it, the second read of the current task, the removal
of an index - is a step of its own, because another thread can run in between.
The dispatcher's `wait(5000)` ends by itself, so its loop has no blocking state;
turns of the loop that find nothing to do change nothing and are left out.
`PublishSub` is one step of the run that builds the sub-object's context and its
sub-monitor and asks the trace index. Which sub-objects a run reaches is an
arbitrary choice of ids: in the code templates and queries decide it.
Statuses are grouped as far as `isPublishEnded` and the worker tell them apart.

Not in the model: sub-objects of sub-objects as runs of their own (a sub-run is
one at a time and reports to the same root, which is where the code files
everything); messages and call-back texts; the contents of pages; visibility of
unsynchronized writes (each access is taken to be atomic and visible, so the
model has fewer behaviours than Java allows for the plain `HashMap`s).

### DocPublishing

| variables | code |
|---|---|
| `docStatus`, `oldStatus` | `td_cms_document.status`, `td_cms_doc_publishing.old_status` (`None` without a row) |
| `objectId`, `phase` | the request as `TaskLifecycle` has it |
| `context`, `preStatus` | `ContentContextImpl` of the request: not read, read, built, or closed by `HTMLDistribute.after` |
| `step`, `listed`, `target`, `restored` | an operator on the page of documents being published and the recovery under way |
| `crashes` | server stops (bound) |
| `first`, `completed`, `touched`, `faulted` | history, read by properties only |

A context reads the status and marks the document in two steps. Two transactions
on one document cannot interleave inside `MarkPublishing`: its first statement
locks the document's row until the commit. `after()` is one transaction. A
recovery is three transactions, a recovery of all documents two. Every statement
whose error the code swallows may fail on its own (`marked`, `stored`,
`updated`, `deleted`), and a recovery may be ended by an exception
(`RecoveryFails`). A stop of the server loses requests and recoveries and keeps
the tables. Nothing says in advance whether a run is completed or whether it
reaches `after()` at all, since `AbortRun` in the engine skips it.

### DocWorkflow

| variables | code |
|---|---|
| `status`, `deleted` | `td_cms_document.status`, `isdeleted` |
| `task` | the rows of `td_cms_doc_task` of the document: `pre_status`, `submit_id`, `pre_task_id` |
| `detail` | the rows of `td_cms_doc_task_detail`: `valid`, and `after_status` with `complete_time` |
| `created` | the last key from `getNextPrimaryKey` (bounded by `MaxTasks`) |
| `web` | the requests in progress: the user, the local variables, and the statements still to run |
| `faults` | history and bound: statements that threw |

Each method of `DocumentManagerImpl` commits every statement on its own (only
recycling and recovering use a transaction), so a request is a program: a
sequence of statements with the name of the method (`deliverDoc`, `audit`,
`toPubWithdraw`, ...), run one at a time by the `Run` actions. `Guarded` is the
handler's `if (canTransition(...) >= 0)`. The page actions say what a user is
offered and which program the handler runs; a page shown is acted on any time
later, which is why the programs of `SendForAudit` and `SubmitForPublish`, whose
handlers check nothing, may start in any status. `Throw` ends a request in the
middle, except in `hasTask`, which swallows the error and answers 0.

A task completed and one whose row is made invalid are different things here, as
in the code: the to-do lists read `valid` and `complete_time`, `hasTask` reads
only `complete_time`, and the properties are about the difference. The
statements of a publication are those of `DocPublishing` in short: read the
status, PUBLISHING, then PUBLISHED with the publish task completed, or the
status it began with.

One document is modelled: the only statement that reads rows of other documents
is the second query of `getPreSubmitterId`, for which `OtherPerformers` stands.
The two statements that insert the rework of a rejected document (read
`submit_id`, insert the detail) are one step; `submit_id` never changes.

### Mirror

Every file of a site has a source, saved any number of times, and a published
copy. A step may publish (`Deploy`) a version that is not older than the copy it
replaces and that the source has had. A failure (`Fail`) damages at most one
file; what is left of it may reach the site later (`Spoil`). No step takes away
a file that no failure has hit, not even for a moment.

### Distribution

A run is a publication or a preview. The root context is the last of its
contexts to end, and moves the files. The contexts stand for documents of one
channel: they share template and links, which is where the indexes of the
monitor and the stamps matter. A preview has one.

The documents of a channel share the parsed file of their template, too. The
one that parses it (`GeneratePage`, `Scriptlet.getFile`) has its links; the next
ones find it in `tempFileOfPublishObject` and go on with a `JspFile` whose
`Cache` is empty, so they distribute nothing of the template, but enter it in the
index all the same. A template that cannot be parsed, or a page that cannot be
generated, leaves the document without linked pages and with only the links found
until then, and attachments that cannot be read make it skip the template. The
variable `script` says which of these files a context has.

| variables | code |
|---|---|
| `source` | versions of the files in project and template directory; a version is a `lastModified` |
| `temp`, `broken` | the temporary directory of a run: whole files, and what failed writes left |
| `live` | the published site; 0 for a file without a whole copy |
| `stamp` | `CMSLink.fileTimestamp` (template links), `fileCacheTimeStamp` (files of a directory), `LinkTimestamp` in `LinkCache` (links of a context) |
| `phase`, `contexts`, `todo` | where `PublishObject.publish` and `HTMLDistribute` are: page, linked pages, attachments, links of the template, links of the context, the moves |
| `hand`, `seen`, `record` | the link in hand: `source`, `lastModified`, `isModified` |
| `kind`, `forced` | action type, `isClearFileCache` |
| `pageIndex`, `templateIndex`, `parsed` | `distributePageIndexs`, `distributeTemplateIndexs`, `tempFileOfPublishObject` |
| `script` | the links in the `JspFile` of the context: `linked`, `bare`, or `failed` without a page |
| `faults`, `crashes` | bounds |
| `began`, `spread`, `faulted`, `damaged`, `deployed`, `promised`, `lost` | history, read by properties only |

The three kinds of stamps differ, and the model keeps the difference
(`RecordedWhenAsked`, `RecordStamp`): `isModified(time, path)` and the first
`cachTemplateLink` record the stamp when they are asked, `setFileTimestamp` and
`setLastModifiedTime` after the copy, the latter only a greater one. Looking at
the file (`Look`), copying it (`Copy`) and recording (`Finish`) are three steps,
between which other runs and saves go on. A failing copy (`CopyFails`) is handled
like a good one, because `fileCopy` swallows the exception; it may leave a
truncated file, which is moved to the site like any other, as the test for a
complete distribution is commented out (`HTMLDistribute.java:207`). Stamps and
runs die with the server, the site stays (`Crash`), except for the file that was
just being overwritten.

A file counts as `lost` when a fault, or the stamp of a preview, has kept it from
the site: until its next save only a forced publication brings it back. The
properties except such files, and `ForcedRunRepublishes` says that forcing is
enough, if a context of the forced publication gets to distribute the template
(`spread`) and no copy, linked page or move of it fails. Where the attachments of
the context that parsed the template fail, forcing does not help
(`IndexedIsDistributed`). Failing parses, pages and attachments use up `faults`,
but do not count as `faulted`: what they leave out, `spread` tells.

### ChannelCache

| variables | code |
|---|---|
| `row`, `created` | `td_cms_channel`: parent and revision of a channel; the ids given out |
| `channelMap` | `ChannelCacheManager.channelMap` of each cache |
| `holder`, `subchnls`, `made` | the lists `subchnls` of `Channel` objects and `channelroot`: whose list a cache has for a channel, what is in it, whether it is there |
| `latest`, `visible` | the caches that are listeners, the last of them the site's; whether `siteChannelCacheManagers` has it |
| `task` | a request of an administrator: what the page it came from knew, what it does next, and the caches its event has still to reach |
| `loader`, `frontier` | the thread in `loadChannelCacheOfSite`, the channels whose children it has still to query |
| `operations` | bound |

A request is a page that was opened (`OpenEdit` keeps the parent the channel had
then, `OpenDelete` the cached object), a commit (`Insert`, `SaveEdit`,
`DeleteRows`, `Relocate`) and a handler (`HandleAdd`, `HandleUpdate`,
`HandleDelete`, or a new cache). Handlers run in the thread of the request, under
the lock of the cache, so each is one step, but anything may happen between
commit and handler. A reload holds the lock of the site cache and reads the
children of one channel at a time (`LoadSubChannels`). `Reloads` says when caches
are loaded: `"alone"` lets moves and resets happen only while no other request
is under way, `"any"` lets them happen at any time.

A cache that was replaced stays a listener (`SiteCacheManager` never removes one),
so an event goes to caches `1..latest`, one after the other. The library that
delivers events is not in the repository: that it tells every listener, in any
order, in the thread of the request, and goes on after one that throws, is
assumed. All caches put the very object of a creation into their maps, and with
it one list of children: `holder` says for which channels a cache uses the list
of the event's object (`Event`) and no list of its own, and an entry of a list
says which cache put it there (`by`) and which object it is (`maker`, `no`), as
`replaceSubChannel` compares ids and `list.remove` objects. The place of an entry
in a list is left open, so `Replace` may hit any entry of the channel.

The revision of a channel stands for the columns that every read takes from the
channel's own row. The file name is kept apart (`file`), because
`getDirectSubChannels` takes it from the first row of the result. Left out: the
workflow, which a load takes from the parent, and the columns that only some of
the reads have; the maps by display name; a query that fails while a cache is
loaded and leaves a subtree empty; the maps of the sites themselves. Readers of a
`Channel` list take no lock: the model has them see the state between two steps
only. `deleteChannel` deletes children first in several batches, which are one
step here; on a channel that was moved below itself it overflows the stack after
deleting some of the branches beside the cycle.

## 3. What is checked

| run | instance | properties | result |
|---|---|---|---|
| `engine_mixed` | `EngineMixed.cfg` | `TypeOK`, `NoTaskLost`, `NoTaskTwice`, `IndexOwned`, `SkipJustified`, `Lifecycle` | hold, 1.2 million states |
| `engine_first` | `EngineFirst.cfg` | `PublishedOnce` | violated |
| `engine_live` | `EngineLive.cfg` | `AcceptedRunsOrStalls` | holds under `FairSpec` |
| `engine_advance` | `EngineAdvance.cfg` | `QueueAdvances` | violated under `FairSpec` |
| `doc_status` | `DocStatus.cfg` | `DocTypeOK`, `PublishedIsTrue`, `RowMeansPublishing`, `AloneIsRecoverable` | hold, 3 million states |
| `workflow_sequential` | `WorkflowSequential.cfg` | `WorkflowTypeOK`, `WaitingIsListed`, `AnsweredIsClosed` | hold, 1.2 million states |
| `workflow_concurrent` | `WorkflowConcurrent.cfg` | `RejectedHasRework`, `ReworkGoesBack` | hold, 1.6 million states |
| `dist_concurrent` | `DistConcurrent.cfg` | `DistributionTypeOK`, `StampBacked`, `PublicationTakesEffect`, `ForcedRunRepublishes` | hold, 1 million states |
| `dist_sequential` | `DistSequential.cfg` | `PublicationTakesEffect`, `ForcedRunRepublishes`, `Mirrored` | hold, 2.1 million states |
| `dist_preview` | `DistPreview.cfg` | `StampIsLastPublication` | violated |
| `channel_cache` | `ChannelCache.cfg` | `ChannelTypeOK`, `CacheIsComplete`, `ListsAreExact`, `GhostsAreLeftovers`, `ReadsGoForward` | hold, 0.7 million states |
| `channel_lost` | `ChannelLost.cfg` | `AllChannelsLoaded` | violated |

Each property that holds can be broken: the operators commented "Mutant" in the
modules are plausible bugs (an unsynchronized add, `get(0)` for `remove(0)`, a
missing reset, a stamp taken after the copy, the files of a template's directories
left out, a published file deleted before it is copied over, an event's object
cached in place of the row) that TLC catches in place of the real definition.

### What the violated runs say of the code

1. *The queue stops* (`PublishEngineImpl.java:397`).
   `createSubPublishMonitor` passes on its own parent, which is null for a root,
   in place of itself, so sub-monitors are never removed and the root never
   counts as ended. `AcceptedRunsOrStalls` is what remains true.
2. *A preview passes for a publication* (`CmsLinkProcessor.java:3357-3361`).
   `distributeTemplateAttacthments` records the stamp of a template's file when it
   previews, too; the next publication leaves the file out.
   `ForcedRunRepublishes` is what remains true.
3. *The first sub-object is published twice* (`PublishEngineImpl.java:186`). The
   call of `isPublishedTask` that creates the trace index enters the root only.
   `DedupExclusive` is what remains true, by proof: no other object is published
   twice, and none three times, by a synchronous run that has its root for itself.
4. *A moved channel is gone* (`SiteCacheManager.java:178`). `moveChannel` accepts
   a target below the channel itself; the cycle is not reached from the root any
   more, and every new cache lacks it.

### Further instances

These have no run of their own. TLC finds each property violated with the `.cfg`
named, and the properties of the runs, which hold, are stated so as to leave it
out.

| instance | property | what the code does |
|---|---|---|
| `DistTemplate.cfg` | `IndexedIsDistributed` | The attachments of the document that parsed the template fail; the next document enters the template in the index and has none of its links (`HTMLDistribute.java:851`, `Scriptlet.java:507-513`, `JspFile.java:115`). The comment of `containDistributeTemplate` (`PublishMonitor.java:519-528`) wants the entry taken out after an error; `removeDistributeTemplate` has no caller. That publication, forced or not, goes without the files. |
| `ChannelMissed.cfg` | `ReachableLoaded` | A channel is created between the query that should have found it and `addListener` (`SiteCacheManager.java:166-172`): the new cache has not all valid channels (178). |
| `ChannelDoubled.cfg` | `ListsAreChildren` | After a reload a new channel is one object in both caches (`ChannelCacheManager.java:264-273`): a child of it is added twice to its list, and what an edit or a deletion leaves there is stale or deleted, against the comment of `getSubChannels` (199). |
| `ChannelFile.cfg` | `FileIsOwn` | In a loaded cache the children of a channel have the file name of the first of them (`ChannelManagerImpl.java:945`), and are published under it (`ChannelContextImpl.java:270`). |

With `EngineIndex.cfg`, `DedupExclusive`, which is proved (`FirstOnlyTwice`), holds.

### Other observations

The models also do, and the properties that hold allow for, the following.

- *Engine.* Two first callers may create two dispatchers, and a task whose
  monitor still has status -1 counts as ended, so two queued tasks can run at
  once, against the comment in `PublishEngineImpl.java:396`. A second run of an
  object that is being published may start, since a synchronous request asks
  nobody and a queued one asks in several steps (`Lifecycle` says when a refusal
  is right, and no more). A queued task taken for ended while its status is -1
  also loses its index in the middle of its run, and may publish its sub-objects
  once more.
- *Document status.* A second publisher takes PUBLISHING for the previous status,
  and its failed run restores it and deletes the row: the document is stuck with
  nothing to restore it from (`AloneIsRecoverable` excludes it for one request).
  A running publication may be restored, since `isRealPublishing` returns false
  (`PublishedIsTrue` holds all the same).
- *Workflow.* `garbageDoc` and `recoverDoc` test `complete_time` the wrong way
  round (`DocumentManagerImpl.java:2135`): the lists hide a recycled document all
  the same, and the mutant `RunGarbageOpen` shows that to correct `garbageDoc`
  alone would make `WaitingIsListed` false. `withdrawDeliver` deletes the first
  audit task and not the current one (2940). A document returned from publishing
  goes to who answered the task before, or to whoever comes first in the table
  (3004, 4201).
- *Distribution.* The pages and files a failed publication did write are moved to
  the site. Two publications that end together may move an older copy over a
  newer one. A page whose generation failed stays in the index for the rest of its
  run; `removeDistributePage`, which would take it out (and takes it out of the
  template index), has no caller.
- *Channels.* The workflow of a loaded channel is that of its parent
  (`ChannelManagerImpl.java:932`), and the caches that were replaced are never
  released. A channel created below a parent that was deleted
  meanwhile is an orphan row. `changeWorkflow`, `changeIndexPic` and
  `updateChannelDetailTemplateId` leave the cache as it was. `EVENT_CHANNEL_MOVE`
  removes the English name of the site from `siteEnameMap`
  (`SiteCacheManager.java:423`), and nothing enters it again before a reset.

The workflow has two regimes. With one request at a time (`workflow_sequential`)
a document that waits is on a list and an answered task is closed. Two requests
at once can break both: an auditor answers while the rows of the other auditors
are still being inserted; a withdrawal that runs while the document is audited,
or delivered anew, leaves a document to be reworked, or to be audited, on
nobody's list. What remains true is that a rejection has its rework and that the
rework after an audit goes to who had sent the document (`workflow_concurrent`).
With a failing statement only the last one is claimed.

### Bounds

Two requests are what a race needs: two creators of a dispatcher, two runs of a
root, a run and a late clean-up. `EngineMixed` lets each request be synchronous
or queued and choose among the objects; each run may reach one sub-object, which
creates the index of its root or finds that of another run, and is published or
skipped. `EngineFirst` has one synchronous request that reaches two. `Watched`
and `MaxClears` bound the requests whose progress page asks for the monitor and
the cache refreshes. `EngineLive` has one object, queued requests only, no
progress page and no refresh: liveness depends on queue, flag, status and
sub-monitors, and none of what is left out changes any of these. In `DocStatus`
two requests share a document or have one each, one operator and one server stop
meet them; the invariants were also checked with two operators. The theorems
hold for all of these numbers.

`WorkflowSequential` has the flow with an audit of
`dbinit-system/schema/data/cms-init-1.xml`, two users, so that a submitter, an
auditor and a second auditor differ in some behaviour, any group of them as
auditors or publishers, and three tasks: an audit, a rejection and the delivery
that follows, or an audit, a submission and a return. `WorkflowConcurrent` has
the part of the flow around the audit, a doctype that is published by its audit,
two requests, two tasks and one failing statement: a delivery, a withdrawal and
an audit interleave in every order. A request that needs one more task than
`MaxTasks` stays where it is, and the properties that speak of settled states do
not count it. `OtherPerformers` is empty in the runs: the two users already are
wrong answers `getPreSubmitterId` can give.

`DistConcurrent` has two runs at a time, each a publication, forced or not, or a
preview, of a file of each kind of stamp that is recorded late; two versions are
enough for a stamp to be older or newer than what was copied, and one fault and
one stop hit every step of either run. A third run that begins after the two is
not needed for `StampBacked` and `PublicationTakesEffect`, which speak of what the
two leave behind. Its runs have one context each. `DistSequential` has two runs
one after the other, the second of which leaves out or repairs what the first
recorded, with a page, a template file and a file of a directory, and two
contexts: one that parses the template and one that finds it parsed, in either of
which a parse, page, attachment or copy fails. `Mirrored` is stated for
`MaxActive = 1`: the engine runs the tasks of its queue one by one where it holds
to its comment. The theorems hold for all numbers of files, runs, versions, contexts,
faults and stops.

`ChannelCache` has two administrators, four operations, three channels and two
caches: a channel, its parent and one to create; trees of every shape are
initial states, and every run begins with the load of the first cache. Four
operations let two requests overlap, a reload come between, and one more find
what they left. In `ChannelLost` one administrator and three operations suffice.
The theorems hold for all numbers of administrators, channels, caches and
operations.

`CHECK_DEADLOCK FALSE` is set where a finished system may stop: all requests
answered, every dispatcher waiting, every document at the end of its flow or of
its tasks, all runs and all operations used up.

### Fairness

`FairSpec` gives weak fairness to each calling thread inside `publish`, to each
dispatcher (`wait` has a timeout of five seconds) and to the steps that finish a
run: the JVM schedules runnable threads. Nothing obliges anyone to call
`publish`, to refresh a cache or to open a page, and `ReportProgress` and
`PublishSub` are not fair: a run need not reach sub-objects, it only ends.
Page generation that hangs for ever is thereby excluded.

## 4. What is proved

| theorem | statement |
|---|---|
| `TypeCorrect` | `Spec => []TypeOK` |
| `AcceptedIsKept`, `HeldInOnePlace` | `Spec => []NoTaskLost`, `Spec => []NoTaskTwice` |
| `IndexesAreOwned` | `Spec => []IndexOwned` |
| `SkipsAreJustified` | `Spec => []SkipJustified` |
| `FirstOnlyTwice` | `Spec => []DedupExclusive` |
| `EngineImplementsLifecycle` | `Spec => Lifecycle` |
| `DocTypeCorrect` | `DocSpec => []DocTypeOK` |
| `PublishedIsShownTruly` | `DocSpec => []PublishedIsTrue` |
| `RowsAreAccountedFor` | `DocSpec => []RowMeansPublishing` |
| `AloneCanBeRestored` | `DocSpec => []AloneIsRecoverable` |
| `WorkflowTypeCorrect` | `Spec => []WorkflowTypeOK` |
| `ReworkGoesBackAlways` | `Spec => []ReworkGoesBack` |
| `RejectionNeverLost` | `Spec => []RejectedHasRework` |
| `WaitingAlwaysListed`, `AnsweredOnce` | `Spec => []WaitingIsListed`, `Spec => []AnsweredIsClosed`, if there is one request at a time (`OneRequest`) |
| `DistributionTypeCorrect` | `DistributionSpec => []DistributionTypeOK` |
| `StampIsBacked` | `DistributionSpec => []StampBacked` |
| `PublicationsTakeEffect` | `DistributionSpec => []PublicationTakesEffect` |
| `ForcedRunsRepublish` | `DistributionSpec => []ForcedRunRepublishes` |
| `SiteFollowsSources` | `DistributionSpec => Mirrored`, if `MaxActive = 1` and `Runs` is finite |
| `ChannelTypeCorrect` | `ChannelSpec => []ChannelTypeOK` |
| `CacheComplete`, `OnlyLeftovers` | `ChannelSpec => []CacheIsComplete`, `ChannelSpec => []GhostsAreLeftovers`, if `Reloads = "alone"` |
| `ReadersGoForward` | `ChannelSpec => ReadsGoForward`, if `Reloads = "alone"` |

The only assumptions are `EngineAssumption`, `DocAssumption`, `WorkflowAssumption`,
`DistributionAssumption` and `ChannelAssumption`: bounds are naturals, `None` is not
a request, an object or a status, `NoUser` is not a user, who is chosen to audit or
to publish is a set of users that is not empty, a flow leads from statuses to
statuses (or to the recycle bin), the kinds of files are disjoint, the root is not
a channel. Sets may be infinite, but for
the set of runs in `SiteFollowsSources`, whose proof counts the active ones.

**Engine.** `NoTaskLost` and `NoTaskTwice` are not inductive: a queued request
could have a caller that adds it again, a dispatcher in `launch` could hold
nothing. `HandOver` adds the custody facts: a held request is fresh (not yet at
work and accepted), a caller before the add has no work, a caller that has not
constructed a dispatcher has none, a popped task exists only between `next()`
and the start of its worker, a caller past the test knows a dispatcher, and a
current task was started. `IndexOwned` and `SkipJustified` have inductive
invariants of their own. `DedupExclusive` rests on two facts: no queue
or dispatcher ever holds a synchronous request (`Apart`), so that nobody else drops
its index; and during the run either nothing was reached yet, or one object was
reached first, and all others that were published are in the index (`Traced`).
The refinement uses `HandOver`: most steps leave the
phase of every request alone, the add is `Accept`, a refusal finds its witness in
the queue or in the current task.

**Documents.** `DocTypeInv` adds that a context past its reading has read a
status and that a recovery under way has a document and a status.
`PublishedIsTrue` needs `SourcesTrue`: wherever a status waits to be written back
(the row, `preStatus`, an operator's `restored`) it already may be shown.
`AloneIsRecoverable` needs `AloneByContext`, what the tables hold at each stage
of the only context, and `BusyIsTouched`. `RowMeansPublishing` is inductive given
the types.

**Workflow.** A request is a program, so what it will do is part of the state, and
the proofs first say what is true of the programs. `WorkflowPrograms_proofs` shows
once, for the programs of all pages and all that is left of them after any
statement or skipped block, `Rules`: which statement may stand before which
(`Precedes`: the detail of a rework comes right after the insert of its task,
a task is closed right after it was completed) and what must still come
(`Follows`: after a completion with ROLLBACK the insert of the rework task, after
a status for which somebody is waited a task of that status or another status).

For any number of requests at once, `WorkflowInv` adds to the types what the locals
of a request mean to the tables (`HeadOK`: the task it is about to give performers
is the one it made, after the one it came from, with the status its method gave it)
and `Rejections`: a rejected task has its rework, or a request has the insert of it
still to run. Other requests cannot disturb either, since a task once inserted is
only ever deleted, never changed or inserted anew under its key (`Kept`).
`ReworkGoesBack` needs that the sender read for the detail is that of the task the
rework is linked to, which is `HeadOK` at that statement. `RejectedHasRework` is
`Rejections` when no program is left.

With one request at a time and no failed statement, `SequentialInv` says at every
statement what is still to come: a document nobody has on a list is about to get
another status or a task (`Settles`), a task completed and still open for others
is about to be closed (`Answers`), a task that gets performers is new and of the
present status (`Inserting`), who closes or deletes a task leaves no document
waiting for it (`Closing`), and who is to rework the document will be found
(`Finding`). `Inserting` to `Finding` speak of the present status at a
statement and are what a second request can make false between two statements,
which is why the two theorems need `OneRequest`. TLC finds `SequentialInv` true on the
instance of `workflow_sequential`.

**Distribution.** `StampBacked` is not inductive: that a stamp is backed depends
on what a run holds in its hand. `StampInv` adds the shape of a run in each
phase (`RunShape`), that a stamp recorded after the copy is of a version the
copy has (`CopiedBeforeRecorded`), that nothing copied or stamped is newer than
its source (`NotNewerThanSource`), that a run not begun has nothing
(`FreshStart`), and that stamps of files that are not lost are deployed or on
their way (`StampsSafe`). The main lemma is that being on its way is only ever
ended by being deployed or by a fault that makes the file lost. `PublicationInv`
adds what each stage of a run has made safe, link by link (`Effects`,
`PageEffects`) and move by move (`Moved`), and that it stays so after the run's
end (`Kept`): the skipped links are safe by their stamps, which is where
`StampsSafe` is used. Which links a run is through with (`Handled`,
`GoneThrough`) depends on whether one of its contexts had the template's links
and got to distribute them, which is what `spread` records; that context has
gone through the template's files and, before, through all pages, and what it
has made safe the other contexts do not undo. `MirrorInv` adds that one run is
active at a time and that what a run carries is not older than what is live
(`NotOlder`); each step of `Distribution` then is a `Save`, `Deploy`, `Spoil`,
`Fail` or a stutter.

**Channels.** `CacheIsComplete` speaks of the site's cache when nobody is at work, so
the invariant has to say what every request at work still owes it. `Handlers` says
what a request whose event has not reached that cache knows (`Waiting`): a channel
that is to be added is not in the cache and has neither children nor another
request, one that is edited keeps the parent its page knew, one that is removed has
no row. `Follows` says that the cache finds a channel as the table has it, in the
map and by some entry of its parent's list, or a handler is still to run that will
make up for it; a deleted subtree is the exception, whose members hang below a
channel without a row. Lists are shared, so every handler of every cache may touch
the list that the site's cache uses: `ListsGoOn` shows that a handler of any
cache only ever adds an entry, replaces one by an object read from the row at
that moment, or takes out one of a channel that is deleted, and that none of these
takes the up-to-date entry away. Ids are never used again (`IdsTaken`), caches not
yet listening are empty (`Unused`), and a request that reloads is alone (`Alone`),
which is what `Reloads = "alone"` gives. While it is alone the old cache may differ
in any way; what counts is `Filling`, that the new one has the table's objects down
to the channels still to be queried. `NotAhead` (no cached revision is above the
table's) together with the fact that handlers and loads read the row itself gives
`ReadsGoForward`.

Both refinements and every invariant and action property of the passing runs are
proved, but for two that are only model-checked: `AcceptedRunsOrStalls`, as
liveness under fairness is outside the prover's reach, and `ListsAreExact`.

## 5. Plan

1. *Done:* engine, lifecycle, refinement; document status while publishing.
2. *Done, but for the composition with `DocPublishing`:* `DocWorkflow`, with its
   proofs. Left out of it: documents without a flow, citations
   (`DocumentManagerImpl.java:4059-4107`), permanent deletion, and the loss of
   tasks when a document being published is restored to NEW.
3. *Done:* `Distribution`, refining `Mirror`, with its proofs. Left out: that a
   run of `Distribution` implements the abstract run of `PublishEngine`.
4. *Done:* `ChannelCache`, with its proofs, but for one of `ListsAreExact`. Left
   out: the maps by display name, and the sites' own maps.
5. Next: the composition of `DocWorkflow` with `DocPublishing`.

## 6. Not modelled

Generation of pages, templates, link processing, search, comments, votes,
counters and file management are I/O on data of their own. The Activiti front
end, logs and connectors keep no protocol state. Of the distribution, the upload
by FTP, several destinations of one site, the search index and the tables of
references are left out; the first two repeat what is modelled for one local
directory. Permission maps, login sessions and the other caches of `pdp-system`
have the pattern of `ChannelCache`, a table and a copy in memory that follows by
events, and are not modelled on their own.

The program's logic is in Java and JSP, and the maps name lines of these. By
far the most lines of JavaScript in the repository are libraries (jQuery,
EasyUI, Ext, editors) and page scripts that show and hide elements; no state
that outlives a page is kept there, so there is nothing in it for these models
to stand for. `PROJECT.json` gives the reason for each component.
