---------------------------- MODULE Distribution ----------------------------
(***************************************************************************)
(* How a publication's files reach the published site: the publication     *)
(* copies into a temporary directory of its own the pages and the files    *)
(* its contexts link to, and when its root context ends it moves the       *)
(* directory to the published site. A file that has not changed since its  *)
(* time stamp was recorded is left out, unless the publication is forced.  *)
(*                                                                         *)
(* The stamps are shared by all publications and by the previews, which    *)
(* run at the same time in threads of their own, and live in memory only.  *)
(* The contexts of a publication are documents of one channel: they share  *)
(* their template, and with it the template's parsed file, the page index  *)
(* and the template index of the monitor. Only the context that parses the *)
(* template has its links: the others find the parsed file, without them.  *)
(***************************************************************************)
EXTENDS Naturals, FiniteSets

CONSTANTS
  Files,         \* files of a site
  MaxVersion,    \* bound: how often a source file is saved
  Runs,          \* publications and previews
  TemplateLinks, \* files the template links to
  DirFiles,      \* files of a directory the template links to
  ContextLinks,  \* files a context links to (tags and document content)
  TemplatePages, \* pages the template links to
  ContextPages,  \* pages a context links to
  MaxContexts,   \* bound: contexts of a publication
  MaxActive,     \* bound: runs at the same time
  MaxFaults,     \* bound: failing templates, pages, attachments, copies, moves, transactions
  MaxCrashes,    \* bound: how often the server stops
  Views,         \* whether sites are previewed
  NoFile

Stamped == TemplateLinks \union DirFiles \union ContextLinks
Pages == TemplatePages \union ContextPages
Version == 0..MaxVersion

ASSUME DistributionAssumption ==
  /\ Files = Stamped \union Pages
  /\ Stamped \intersect Pages = {}
  /\ TemplateLinks \intersect (DirFiles \union ContextLinks) = {}
  /\ DirFiles \intersect ContextLinks = {}
  /\ NoFile \notin Files
  /\ Views \in BOOLEAN
  /\ MaxVersion \in Nat \ {0}
  /\ MaxContexts \in Nat /\ MaxActive \in Nat /\ MaxFaults \in Nat /\ MaxCrashes \in Nat

VARIABLES
  source,        \* version of a file in the site's project directory
  live,          \* version of a file in the published site, 0 without a whole copy
  stamp,         \* CMSLink.fileTimestamp, fileCacheTimeStamp or LinkTimestamp; 0 without one
  kind,          \* action type of a run
  phase,         \* where a run is
  forced,        \* context.isClearFileCache()
  contexts,      \* contexts of a run still to come, the current one included
  todo,          \* links (or, when moving, files) still to handle
  hand,          \* link in hand
  seen,          \* its lastModified, when its stamp is still to be recorded
  record,        \* when its stamp is recorded: "no", "now" (it was), "after" the copy
  pageIndex,     \* distributePageIndexs
  parsed,        \* whether tempFileOfPublishObject has the template
  script,        \* the template's file in hand: with its links, without, or no page of it
  templateIndex, \* whether distributeTemplateIndexs has the template
  spread,        \* history: runs that got to distribute their template's links
  temp,          \* version of each file in the run's temporary directory, 0 if none
  broken,        \* files a failed write left there, empty or truncated unless temp says whole
  faults, crashes,
  began,         \* history: the sources when a run began
  faulted,       \* history: runs with a failed copy, page, move or transaction
  damaged,       \* history: files a write of which failed or was interrupted
  deployed,      \* history: newest version of a file ever moved to the site
  promised,      \* history: newest version that a publication which ended well began with
  lost           \* history: files that a fault, or the stamp of a preview, kept from the site

linkVars    == <<todo, hand, seen, record>>
templateVars == <<parsed, script, templateIndex, spread>>
indexVars   == <<pageIndex, templateVars>>
runVars     == <<kind, forced, began>>
tempVars    == <<temp, broken>>
faultVars   == <<faults, faulted, damaged>>
distVars == <<source, live, stamp, phase, contexts, linkVars, indexVars, runVars, tempVars,
              faultVars, crashes, deployed, promised, lost>>

Phases == {"idle", "page", "pages", "attachments", "template", "links", "deploy", "move", "ended",
           "done", "dead"}
Active(r) == phase[r] \notin {"idle", "done", "dead"}

DistributionTypeOK ==
  /\ source \in [Files -> 1..MaxVersion]
  /\ live \in [Files -> Version]
  /\ stamp \in [Stamped -> Version]
  /\ kind \in [Runs -> {"publish", "view"}]
  /\ phase \in [Runs -> Phases]
  /\ forced \in [Runs -> BOOLEAN]
  /\ contexts \in [Runs -> 0..MaxContexts]
  /\ todo \in [Runs -> SUBSET Files]
  /\ hand \in [Runs -> Files \union {NoFile}]
  /\ seen \in [Runs -> Version]
  /\ record \in [Runs -> {"no", "now", "after"}]
  /\ pageIndex \in [Runs -> SUBSET Pages]
  /\ parsed \in [Runs -> BOOLEAN]
  /\ script \in [Runs -> {"linked", "bare", "failed"}]
  /\ templateIndex \in [Runs -> BOOLEAN]
  /\ spread \subseteq Runs
  /\ temp \in [Runs -> [Files -> Version]]
  /\ broken \in [Runs -> SUBSET Files]
  /\ faults \in 0..MaxFaults
  /\ crashes \in 0..MaxCrashes
  /\ began \in [Runs -> [Files -> Version]]
  /\ faulted \subseteq Runs
  /\ damaged \subseteq Files
  /\ deployed \in [Files -> Version]
  /\ promised \in [Files -> Version]
  /\ lost \subseteq Files

NoVersions == [f \in Files |-> 0]

DistributionInit ==
  /\ source = [f \in Files |-> 1]
  /\ live = NoVersions
  /\ stamp = [f \in Stamped |-> 0]
  /\ kind = [r \in Runs |-> "publish"]
  /\ phase = [r \in Runs |-> "idle"]
  /\ forced = [r \in Runs |-> FALSE]
  /\ contexts = [r \in Runs |-> 0]
  /\ todo = [r \in Runs |-> {}]
  /\ hand = [r \in Runs |-> NoFile]
  /\ seen = [r \in Runs |-> 0]
  /\ record = [r \in Runs |-> "no"]
  /\ pageIndex = [r \in Runs |-> {}]
  /\ parsed = [r \in Runs |-> FALSE]
  /\ script = [r \in Runs |-> "bare"]
  /\ templateIndex = [r \in Runs |-> FALSE]
  /\ spread = {}
  /\ temp = [r \in Runs |-> NoVersions]
  /\ broken = [r \in Runs |-> {}]
  /\ faults = 0
  /\ crashes = 0
  /\ began = [r \in Runs |-> NoVersions]
  /\ faulted = {}
  /\ damaged = {}
  /\ deployed = NoVersions
  /\ promised = NoVersions
  /\ lost = {}

\* Steps for failing operations: one of the MaxFaults is used up.
Fault == faults < MaxFaults /\ faults' = faults + 1

\* A failing operation of run r.
FaultOf(r) == Fault /\ faulted' = faulted \union {r}

-----------------------------------------------------------------------------
(* Sources, and the start of a run *)

SaveSource(f) ==
  /\ source[f] < MaxVersion
  /\ source' = [source EXCEPT ![f] = @ + 1]
  /\ UNCHANGED <<live, stamp, phase, contexts, linkVars, indexVars, runVars, tempVars, faultVars,
                 crashes, deployed, promised, lost>>

Begin(r) ==
  /\ phase[r] = "idle"
  /\ Cardinality({q \in Runs : Active(q)}) < MaxActive
  /\ \E k \in {"publish"} \union (IF Views THEN {"view"} ELSE {}),
        clear \in BOOLEAN, n \in 1..MaxContexts :
       /\ k = "view" => ~clear /\ n = 1
       /\ kind' = [kind EXCEPT ![r] = k]
       /\ forced' = [forced EXCEPT ![r] = clear]
       /\ contexts' = [contexts EXCEPT ![r] = n]
  /\ phase' = [phase EXCEPT ![r] = "page"]
  /\ began' = [began EXCEPT ![r] = source]
  /\ UNCHANGED <<source, live, stamp, linkVars, indexVars, tempVars, faultVars, crashes,
                 deployed, promised, lost>>

-----------------------------------------------------------------------------
(* A context generates its page, and publishes the pages that it and its template link to *)

\* The first context parses the template; its file holds the links of the template. The
\* others find that it is parsed, and their file has no links. When the template cannot
\* be parsed, or the page cannot be generated, the links of the context found until then
\* are left, and after a failed page no pages are published.
GeneratePage(r) ==
  /\ phase[r] = "page"
  /\ phase' = [phase EXCEPT ![r] = "pages"]
  /\ \/ /\ parsed' = [parsed EXCEPT ![r] = TRUE]
        /\ script' = [script EXCEPT ![r] = IF parsed[r] THEN "bare" ELSE "linked"]
        /\ todo' = [todo EXCEPT ![r] = IF parsed[r] THEN ContextPages ELSE Pages]
        /\ UNCHANGED faults
     \/ /\ Fault
        /\ script' = [script EXCEPT ![r] = "failed"]
        /\ \/ /\ ~parsed[r]
              /\ \E P \in SUBSET ContextPages : todo' = [todo EXCEPT ![r] = P]
              /\ UNCHANGED parsed
           \/ /\ parsed' = [parsed EXCEPT ![r] = TRUE]
              /\ todo' = [todo EXCEPT ![r] = {}]
  /\ UNCHANGED <<source, live, stamp, contexts, hand, seen, record, pageIndex, templateIndex,
                 spread, runVars, tempVars, faulted, damaged, crashes, deployed, promised, lost>>

\* Whether containDistributePage lets a page through; it enters it in the index.
PageIsDue(r, p) == p \notin pageIndex[r]

\* What a failed write leaves in the temporary directory: nothing new, or a file that is
\* not whole.
Leftover(r, f) ==
  \/ UNCHANGED <<temp, broken, damaged>>
  \/ /\ kind[r] = "publish"
     /\ temp' = [temp EXCEPT ![r][f] = 0]
     /\ broken' = [broken EXCEPT ![r] = @ \union {f}]
     /\ damaged' = damaged \union {f}

\* The sub publication of a page writes it to the temporary directory, or fails.
PublishPage(r, p) ==
  /\ phase[r] = "pages" /\ p \in todo[r]
  /\ todo' = [todo EXCEPT ![r] = @ \ {p}]
  /\ IF PageIsDue(r, p)
     THEN /\ pageIndex' = [pageIndex EXCEPT ![r] = @ \union {p}]
          /\ \/ /\ temp' = IF kind[r] = "publish" THEN [temp EXCEPT ![r][p] = source[p]]
                                                  ELSE temp
                /\ UNCHANGED <<broken, faultVars>>
             \/ FaultOf(r) /\ Leftover(r, p)
     ELSE UNCHANGED <<pageIndex, tempVars, faultVars>>
  /\ UNCHANGED <<source, live, stamp, phase, contexts, hand, seen, record, templateVars, runVars,
                 crashes, deployed, promised, lost>>

\* Without a page of the context only the links that it found are left to distribute.
PagesDone(r) ==
  /\ phase[r] = "pages" /\ todo[r] = {}
  /\ IF script[r] = "failed"
     THEN /\ phase' = [phase EXCEPT ![r] = "links"]
          /\ \E L \in SUBSET ContextLinks : todo' = [todo EXCEPT ![r] = L]
     ELSE /\ phase' = [phase EXCEPT ![r] = "attachments"]
          /\ UNCHANGED todo
  /\ UNCHANGED <<source, live, stamp, contexts, hand, seen, record, indexVars, runVars, tempVars, faultVars,
                 crashes, deployed, promised, lost>>

-----------------------------------------------------------------------------
(* A context distributes the files of its template and its own *)

\* Mutant of Attachments: the files of the template's directories are left out.
MNoDirectories(r) ==
  /\ phase[r] = "attachments"
  /\ templateIndex' = [templateIndex EXCEPT ![r] = TRUE]
  /\ IF ~templateIndex[r] /\ script[r] = "linked"
     THEN /\ phase' = [phase EXCEPT ![r] = "template"]
          /\ todo' = [todo EXCEPT ![r] = TemplateLinks]
          /\ spread' = spread \union {r}
     ELSE /\ phase' = [phase EXCEPT ![r] = "links"]
          /\ todo' = [todo EXCEPT ![r] = ContextLinks]
          /\ UNCHANGED spread
  /\ UNCHANGED <<source, live, stamp, contexts, hand, seen, record, pageIndex, parsed, script,
                 runVars, tempVars, faultVars, crashes, deployed, promised, lost>>

\* The context's own attachments are copied first; if that fails, the template is not
\* looked at. Otherwise the template is entered in the index, and a context that finds
\* it missing there distributes the links its file has.
Attachments(r) ==
  /\ phase[r] = "attachments"
  /\ \/ /\ templateIndex' = [templateIndex EXCEPT ![r] = TRUE]
        /\ IF ~templateIndex[r] /\ script[r] = "linked"
           THEN /\ phase' = [phase EXCEPT ![r] = "template"]
                /\ todo' = [todo EXCEPT ![r] = TemplateLinks \union DirFiles]
                /\ spread' = spread \union {r}
           ELSE /\ phase' = [phase EXCEPT ![r] = "links"]
                /\ todo' = [todo EXCEPT ![r] = ContextLinks]
                /\ UNCHANGED spread
        /\ UNCHANGED faults
     \/ /\ Fault
        /\ phase' = [phase EXCEPT ![r] = "links"]
        /\ todo' = [todo EXCEPT ![r] = ContextLinks]
        /\ UNCHANGED <<templateIndex, spread>>
  /\ UNCHANGED <<source, live, stamp, contexts, hand, seen, record, pageIndex, parsed, script,
                 runVars, tempVars, faulted, damaged, crashes, deployed, promised, lost>>

\* Mutant of Modified: a file that was published once is left out for good.
MPublishedOnce(f) == stamp[f] = 0

\* isModified: the file is not the one its stamp was recorded for.
Modified(f) == stamp[f] # source[f]

\* isModified of a directory's file and the first cachTemplateLink of a context's link
\* record the stamp when they are asked; the others are recorded after the copy.
RecordedWhenAsked(f) == f \in DirFiles \/ (f \in ContextLinks /\ stamp[f] = 0)

Skip(r, f) ==
  /\ todo' = [todo EXCEPT ![r] = @ \ {f}]
  /\ UNCHANGED <<stamp, hand, seen, record>>

\* Mutant of Look: a file that has not changed is left out of a forced publication, too.
MForcedInVain(r, f) ==
  /\ phase[r] \in {"template", "links"} /\ f \in todo[r] /\ hand[r] = NoFile
  /\ IF IF kind[r] = "view" THEN f \notin TemplateLinks ELSE ~Modified(f)
     THEN Skip(r, f)
     ELSE /\ hand' = [hand EXCEPT ![r] = f]
          /\ IF Modified(f)
             THEN IF RecordedWhenAsked(f)
                  THEN /\ stamp' = [stamp EXCEPT ![f] = source[f]]
                       /\ record' = [record EXCEPT ![r] = "now"]
                       /\ UNCHANGED seen
                  ELSE /\ record' = [record EXCEPT ![r] = "after"]
                       /\ seen' = [seen EXCEPT ![r] = source[f]]
                       /\ UNCHANGED stamp
             ELSE UNCHANGED <<stamp, seen, record>>
          /\ UNCHANGED todo
  /\ UNCHANGED <<source, live, phase, contexts, indexVars, runVars, tempVars, faultVars, crashes,
                 deployed, promised, lost>>

\* The next link of the context. A preview copies every file, and of the stamps it
\* touches only those of the template's links.
Look(r, f) ==
  /\ phase[r] \in {"template", "links"} /\ f \in todo[r] /\ hand[r] = NoFile
  /\ IF IF kind[r] = "view" THEN f \notin TemplateLinks ELSE ~Modified(f) /\ ~forced[r]
     THEN Skip(r, f)
     ELSE /\ hand' = [hand EXCEPT ![r] = f]
          /\ \/ /\ ~Modified(f)
                /\ UNCHANGED <<stamp, seen, record>>
             \/ /\ Modified(f) /\ RecordedWhenAsked(f)
                /\ stamp' = [stamp EXCEPT ![f] = source[f]]
                /\ record' = [record EXCEPT ![r] = "now"]
                /\ UNCHANGED seen
             \/ /\ Modified(f) /\ ~RecordedWhenAsked(f)
                /\ record' = [record EXCEPT ![r] = "after"]
                /\ seen' = [seen EXCEPT ![r] = source[f]]
                /\ UNCHANGED stamp
          /\ UNCHANGED todo
  /\ UNCHANGED <<source, live, phase, contexts, indexVars, runVars, tempVars, faultVars, crashes,
                 deployed, promised, lost>>

\* The copy takes the file as it is now, which may be newer than when it was looked at.
Copy(r) ==
  /\ hand[r] # NoFile /\ hand[r] \in todo[r]
  /\ temp' = IF kind[r] = "publish" THEN [temp EXCEPT ![r][hand[r]] = source[hand[r]]] ELSE temp
  /\ todo' = [todo EXCEPT ![r] = @ \ {hand[r]}]
  /\ UNCHANGED <<source, live, stamp, phase, contexts, hand, seen, record, indexVars, runVars,
                 broken, faultVars, crashes, deployed, promised, lost>>

\* A copy that fails is not reported: fileCopy swallows the exception, and the link is
\* handled as if it had been copied.
CopyFails(r) ==
  /\ hand[r] # NoFile /\ hand[r] \in todo[r]
  /\ FaultOf(r)
  /\ Leftover(r, hand[r])
  /\ lost' = IF kind[r] = "publish" THEN lost \union {hand[r]} ELSE lost
  /\ todo' = [todo EXCEPT ![r] = @ \ {hand[r]}]
  /\ UNCHANGED <<source, live, stamp, phase, contexts, hand, seen, record, indexVars, runVars,
                 crashes, deployed, promised>>

PutDown(r) ==
  /\ hand' = [hand EXCEPT ![r] = NoFile]
  /\ seen' = [seen EXCEPT ![r] = 0]
  /\ record' = [record EXCEPT ![r] = "no"]

\* setFileTimestamp takes any value; setLastModifiedTime only a greater one.
RecordStamp(f, v) ==
  stamp' = [stamp EXCEPT ![f] = IF f \in ContextLinks /\ @ > v THEN @ ELSE v]

\* Mutant of Finish: the stamp is that of the file as it is after the copy.
MStampsNow(r) ==
  /\ hand[r] # NoFile /\ hand[r] \notin todo[r]
  /\ IF record[r] = "after"
     THEN /\ RecordStamp(hand[r], source[hand[r]])
          /\ lost' = IF kind[r] = "view" THEN lost \union {hand[r]} ELSE lost
     ELSE UNCHANGED <<stamp, lost>>
  /\ PutDown(r)
  /\ UNCHANGED <<source, live, phase, contexts, todo, indexVars, runVars, tempVars, faultVars,
                 crashes, deployed, promised>>

\* The copied file is done; its stamp is recorded if that was left for after the copy.
Finish(r) ==
  /\ hand[r] # NoFile /\ hand[r] \notin todo[r]
  /\ IF record[r] = "after"
     THEN /\ RecordStamp(hand[r], seen[r])
          /\ lost' = IF kind[r] = "view" THEN lost \union {hand[r]} ELSE lost
     ELSE UNCHANGED <<stamp, lost>>
  /\ PutDown(r)
  /\ UNCHANGED <<source, live, phase, contexts, todo, indexVars, runVars, tempVars, faultVars,
                 crashes, deployed, promised>>

TemplateDone(r) ==
  /\ phase[r] = "template" /\ todo[r] = {} /\ hand[r] = NoFile
  /\ phase' = [phase EXCEPT ![r] = "links"]
  /\ todo' = [todo EXCEPT ![r] = ContextLinks]
  /\ UNCHANGED <<source, live, stamp, contexts, hand, seen, record, indexVars, runVars, tempVars,
                 faultVars, crashes, deployed, promised, lost>>

\* Mutant of ContextDone: one context too many.
MOneContextMore(r) ==
  /\ phase[r] = "links" /\ todo[r] = {} /\ hand[r] = NoFile
  /\ contexts' = [contexts EXCEPT ![r] = @ - 1]
  /\ IF contexts[r] >= 0
     THEN phase' = [phase EXCEPT ![r] = "page"]
     ELSE phase' = [phase EXCEPT ![r] = IF kind[r] = "publish" THEN "deploy" ELSE "ended"]
  /\ UNCHANGED <<source, live, stamp, linkVars, indexVars, runVars, tempVars,
                 faultVars, crashes, deployed, promised, lost>>

\* The context ends. After the last one the root context deploys; a preview has nothing
\* to deploy.
ContextDone(r) ==
  /\ phase[r] = "links" /\ todo[r] = {} /\ hand[r] = NoFile
  /\ contexts' = [contexts EXCEPT ![r] = @ - 1]
  /\ IF contexts[r] > 1
     THEN phase' = [phase EXCEPT ![r] = "page"]
     ELSE phase' = [phase EXCEPT ![r] = IF kind[r] = "publish" THEN "deploy" ELSE "ended"]
  /\ UNCHANGED <<source, live, stamp, linkVars, indexVars, runVars, tempVars,
                 faultVars, crashes, deployed, promised, lost>>

-----------------------------------------------------------------------------
(* The root context moves the temporary directory to the published site *)

\* The files in the temporary directory, whole or not.
Waiting(r) == {f \in Files : temp[r][f] > 0} \union broken[r]

\* Whatever became of the contexts, the files are moved, unless the transaction around
\* the moves does not begin.
Deployment(r) ==
  /\ phase[r] = "deploy"
  /\ \/ /\ phase' = [phase EXCEPT ![r] = "move"]
        /\ todo' = [todo EXCEPT ![r] = Waiting(r)]
        /\ UNCHANGED <<faultVars, lost>>
     \/ /\ FaultOf(r)
        /\ lost' = lost \union (Waiting(r) \intersect Stamped)
        /\ phase' = [phase EXCEPT ![r] = "ended"]
        /\ UNCHANGED <<todo, damaged>>
  /\ UNCHANGED <<source, live, stamp, contexts, hand, seen, record, indexVars, runVars, tempVars,
                 crashes, deployed, promised>>

Larger(a, b) == IF a > b THEN a ELSE b

\* Mutant of Move: moveFile deletes the old file first, as the lines that are commented
\* out there did.
MDeleteFirst(r, f) ==
  /\ phase[r] = "move" /\ f \in todo[r]
  /\ IF live[f] > 0
     THEN live' = [live EXCEPT ![f] = 0] /\ UNCHANGED <<todo, deployed>>
     ELSE /\ live' = [live EXCEPT ![f] = temp[r][f]]
          /\ deployed' = [deployed EXCEPT ![f] = Larger(@, temp[r][f])]
          /\ todo' = [todo EXCEPT ![r] = @ \ {f}]
  /\ UNCHANGED <<source, stamp, phase, contexts, hand, seen, record, indexVars, runVars, tempVars,
                 faultVars, crashes, promised, lost>>

\* moveFile copies over the published file, and moveSubFiles goes on after a file that
\* cannot be copied: that one is as it was or no longer whole.
Move(r, f) ==
  /\ phase[r] = "move" /\ f \in todo[r]
  /\ todo' = [todo EXCEPT ![r] = @ \ {f}]
  /\ \/ /\ live' = [live EXCEPT ![f] = temp[r][f]]
        /\ deployed' = [deployed EXCEPT ![f] = Larger(@, temp[r][f])]
        /\ UNCHANGED <<faultVars, lost>>
     \/ /\ FaultOf(r)
        /\ lost' = lost \union ({f} \intersect Stamped)
        /\ damaged' = damaged \union {f}
        /\ live' = live \/ live' = [live EXCEPT ![f] = 0]
        /\ UNCHANGED deployed
  /\ UNCHANGED <<source, stamp, phase, contexts, hand, seen, record, indexVars, runVars, tempVars,
                 crashes, promised>>

MovesDone(r) ==
  /\ phase[r] = "move" /\ todo[r] = {}
  /\ phase' = [phase EXCEPT ![r] = "ended"]
  /\ UNCHANGED <<source, live, stamp, contexts, linkVars, indexVars, runVars, tempVars, faultVars,
                 crashes, deployed, promised, lost>>

\* The variables of a run that is over are cleared.
Forget(R) ==
  /\ kind' = [r \in Runs |-> IF r \in R THEN "publish" ELSE kind[r]]
  /\ forced' = [r \in Runs |-> IF r \in R THEN FALSE ELSE forced[r]]
  /\ contexts' = [r \in Runs |-> IF r \in R THEN 0 ELSE contexts[r]]
  /\ todo' = [r \in Runs |-> IF r \in R THEN {} ELSE todo[r]]
  /\ hand' = [r \in Runs |-> IF r \in R THEN NoFile ELSE hand[r]]
  /\ seen' = [r \in Runs |-> IF r \in R THEN 0 ELSE seen[r]]
  /\ record' = [r \in Runs |-> IF r \in R THEN "no" ELSE record[r]]
  /\ pageIndex' = [r \in Runs |-> IF r \in R THEN {} ELSE pageIndex[r]]
  /\ parsed' = [r \in Runs |-> IF r \in R THEN FALSE ELSE parsed[r]]
  /\ script' = [r \in Runs |-> IF r \in R THEN "bare" ELSE script[r]]
  /\ templateIndex' = [r \in Runs |-> IF r \in R THEN FALSE ELSE templateIndex[r]]
  /\ spread' = spread \ R
  /\ temp' = [r \in Runs |-> IF r \in R THEN NoVersions ELSE temp[r]]
  /\ broken' = [r \in Runs |-> IF r \in R THEN {} ELSE broken[r]]
  /\ began' = [r \in Runs |-> IF r \in R THEN NoVersions ELSE began[r]]
  /\ faulted' = faulted \ R

\* The temporary directory is deleted and the monitor of the run is dropped.
DeleteTemp(r) ==
  /\ phase[r] = "ended"
  /\ phase' = [phase EXCEPT ![r] = "done"]
  /\ promised' = IF kind[r] = "publish" /\ r \in spread \ faulted
                 THEN [f \in Files |-> Larger(promised[f], began[r][f])] ELSE promised
  /\ Forget({r})
  /\ UNCHANGED <<source, live, stamp, faults, damaged, crashes, deployed, lost>>

\* The files that the moves under way may be copying over: one for each, or none.
Cut == {F \in [{r \in Runs : phase[r] = "move"} -> Files \union {NoFile}] :
          \A r \in DOMAIN F : F[r] \in todo[r] \union {NoFile}}

\* The server stops: the runs and the stamps are gone, the published site stays, but for
\* the files a move was copying. What a run left to another one that was under way is no
\* longer promised.
Crash ==
  /\ crashes < MaxCrashes
  /\ crashes' = crashes + 1
  /\ \E r \in Runs : Active(r)
  /\ phase' = [r \in Runs |-> IF Active(r) THEN "dead" ELSE phase[r]]
  /\ stamp' = [f \in Stamped |-> 0]
  /\ promised' = NoVersions
  /\ Forget({r \in Runs : Active(r)})
  /\ \E F \in Cut : LET D == {F[r] : r \in DOMAIN F} \ {NoFile} IN
       /\ damaged' = damaged \union D
       /\ live' = [f \in Files |-> IF f \in D THEN 0 ELSE live[f]]
  /\ UNCHANGED <<source, faults, deployed, lost>>

-----------------------------------------------------------------------------
RunStep(r) ==
  \/ GeneratePage(r)
  \/ \E p \in Pages : PublishPage(r, p)
  \/ PagesDone(r)
  \/ Attachments(r)
  \/ \E f \in Stamped : Look(r, f)
  \/ Copy(r)
  \/ CopyFails(r)
  \/ Finish(r)
  \/ TemplateDone(r)
  \/ ContextDone(r)
  \/ Deployment(r)
  \/ \E f \in Files : Move(r, f)
  \/ MovesDone(r)
  \/ DeleteTemp(r)

DistributionNext ==
  \/ \E f \in Files : SaveSource(f)
  \/ \E r \in Runs : Begin(r) \/ RunStep(r)
  \/ Crash

DistributionSpec == DistributionInit /\ [][DistributionNext]_distVars

-----------------------------------------------------------------------------
\* A version of a file is on its way to the site: in a temporary directory that is still
\* to be moved, or about to be copied after its stamp was recorded.
Carries(r, f, v) == temp[r][f] >= v /\ (phase[r] \in {"move", "ended"} => f \in todo[r])
AboutToCopy(r, f, v) ==
  hand[r] = f /\ f \in todo[r] /\ record[r] = "now" /\ source[f] >= v

OnItsWay(f, v) == \E r \in Runs : Carries(r, f, v) \/ AboutToCopy(r, f, v)

\* A file that has a stamp was published in that version or a newer one, or a run that is
\* under way will publish it - unless it is one of those known as lost. So a stamp that is
\* recorded after the copy never stands for a version that came after it, and a crash costs
\* nothing (HTMLDistribute.java:297-319, CmsLinkProcessor.java:3499-3537).
StampBacked ==
  \A f \in Stamped \ lost : stamp[f] > 0 => deployed[f] >= stamp[f] \/ OnItsWay(f, stamp[f])

\* A publication without a failing copy, linked page or move, one context of which got to
\* distribute the template, has published every file it links to at least as it was when
\* the publication began, whatever became of its other contexts. That includes the files
\* it left out because another run had recorded their stamps: those are published, or on
\* their way, or known as lost (HTMLDistribute.java:296-304).
PublicationTakesEffect ==
  \A f \in Files \ lost :
    promised[f] > 0 => deployed[f] >= promised[f] \/ OnItsWay(f, promised[f])

\* A forced publication of that kind has published every linked file at least as it was
\* when the publication began, whatever stamps earlier failures, previews and other runs
\* have left and whichever of its contexts failed before and after
\* (BaseContextImpl.java:1468-1483).
ForcedRunRepublishes ==
  \A r \in Runs :
    phase[r] = "ended" /\ forced[r] /\ r \in spread \ faulted
      => \A f \in Files : deployed[f] >= began[r][f]

\* What the comments of containDistributeTemplate and of its call say: a template in the
\* index is one whose files the publication has distributed.
IndexedIsDistributed ==
  \A r \in Runs :
    phase[r] = "ended" /\ forced[r] /\ templateIndex[r] /\ r \notin faulted
      => \A f \in TemplateLinks \union DirFiles : deployed[f] >= began[r][f]

Site == INSTANCE Mirror WITH failures <- faults + crashes

\* With one run at a time the published site only moves forward along its sources, and a
\* failure or a crash costs at most the file it hits: Distribution implements Mirror
\* (FileUtil.java:283-308, 342-384).
Mirrored == Site!MirrorSpec

\* What the comment of CMSLink.fileTimestamp says: the stamp is that of the file's last
\* publication, so that a file is only left out when it is published as it is now.
StampIsLastPublication ==
  (\A r \in Runs : ~Active(r))
    => \A f \in TemplateLinks : stamp[f] > 0 => live[f] >= stamp[f]
=============================================================================
