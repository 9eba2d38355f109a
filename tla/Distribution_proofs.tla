------------------------ MODULE Distribution_proofs ------------------------
(***************************************************************************)
(* Proofs about Distribution, for any number of runs and files and any     *)
(* bounds: types, what a recorded stamp and a finished publication are     *)
(* worth, and, for one run at a time, that the site follows its sources.   *)
(***************************************************************************)
EXTENDS Distribution, FiniteSetTheorems, TLAPS

USE DistributionAssumption DEF tempVars, FaultOf

-----------------------------------------------------------------------------
(* Which steps change what *)

\* Which steps change the site, the deployed versions and the lost files.
LEMMA WhoChanges ==
  ASSUME [DistributionNext]_distVars
  PROVE  /\ live' = live \/ Crash \/ \E r \in Runs, f \in Files : Move(r, f)
         /\ deployed' = deployed \/ \E r \in Runs, f \in Files : Move(r, f)
         /\ promised' = promised \/ Crash \/ \E r \in Runs : DeleteTemp(r)
         /\ stamp' = stamp \/ Crash \/ (\E r \in Runs : Finish(r))
              \/ \E r \in Runs, f \in Stamped : Look(r, f)
         /\ lost' = lost \/ (\E r \in Runs : CopyFails(r) \/ Finish(r) \/ Deployment(r))
              \/ \E r \in Runs, f \in Files : Move(r, f)
         /\ temp' = temp \/ Crash
              \/ (\E r \in Runs : DeleteTemp(r) \/ Copy(r) \/ CopyFails(r))
              \/ \E r \in Runs, p \in Pages : PublishPage(r, p)
         /\ UNCHANGED <<broken, damaged>> \/ Crash
              \/ (\E r \in Runs : DeleteTemp(r) \/ CopyFails(r))
              \/ (\E r \in Runs, p \in Pages : PublishPage(r, p))
              \/ \E r \in Runs, f \in Files : Move(r, f)
<1>1. ASSUME NEW f \in Files, SaveSource(f)
      PROVE  UNCHANGED <<live, stamp, temp, broken, damaged, deployed, promised, lost>>
  BY ONLY <1>1 DEF SaveSource, linkVars, indexVars, runVars, tempVars, faultVars
<1>2. ASSUME NEW r \in Runs, Begin(r)
      PROVE  UNCHANGED <<live, stamp, temp, broken, damaged, deployed, promised, lost>>
  BY ONLY <1>2 DEF Begin, linkVars, indexVars, runVars, tempVars, faultVars
<1>3. ASSUME NEW r \in Runs, NEW p \in Pages, PublishPage(r, p)
      PROVE  UNCHANGED <<live, stamp, deployed, promised, lost>>
  BY ONLY <1>3 DEF PublishPage, linkVars, indexVars, runVars, tempVars, faultVars
<1>4. ASSUME NEW r \in Runs, PagesDone(r)
      PROVE  UNCHANGED <<live, stamp, temp, broken, damaged, deployed, promised, lost>>
  BY ONLY <1>4 DEF PagesDone, linkVars, indexVars, runVars, tempVars, faultVars
<1>5. ASSUME NEW r \in Runs, Attachments(r)
      PROVE  UNCHANGED <<live, stamp, temp, broken, damaged, deployed, promised, lost>>
  BY ONLY <1>5 DEF Attachments, linkVars, indexVars, runVars, tempVars, faultVars
<1>6. ASSUME NEW r \in Runs, NEW f \in Stamped, Look(r, f)
      PROVE  UNCHANGED <<live, temp, broken, damaged, deployed, promised, lost>>
  BY ONLY <1>6 DEF Look, linkVars, indexVars, runVars, tempVars, faultVars
<1>7. ASSUME NEW r \in Runs, Copy(r)
      PROVE  UNCHANGED <<live, stamp, broken, damaged, deployed, promised, lost>>
  BY ONLY <1>7 DEF Copy, linkVars, indexVars, runVars, tempVars, faultVars
<1>8. ASSUME NEW r \in Runs, CopyFails(r)
      PROVE  UNCHANGED <<live, stamp, deployed, promised>>
  BY ONLY <1>8 DEF CopyFails, linkVars, indexVars, runVars, tempVars, faultVars
<1>9. ASSUME NEW r \in Runs, Finish(r)
      PROVE  UNCHANGED <<live, temp, broken, damaged, deployed, promised>>
  BY ONLY <1>9 DEF Finish, linkVars, indexVars, runVars, tempVars, faultVars
<1>10. ASSUME NEW r \in Runs, TemplateDone(r)
      PROVE  UNCHANGED <<live, stamp, temp, broken, damaged, deployed, promised, lost>>
  BY ONLY <1>10 DEF TemplateDone, linkVars, indexVars, runVars, tempVars, faultVars
<1>11. ASSUME NEW r \in Runs, ContextDone(r)
      PROVE  UNCHANGED <<live, stamp, temp, broken, damaged, deployed, promised, lost>>
  BY ONLY <1>11 DEF ContextDone, linkVars, indexVars, runVars, tempVars, faultVars
<1>12. ASSUME NEW r \in Runs, Deployment(r)
      PROVE  UNCHANGED <<live, stamp, temp, broken, damaged, deployed, promised>>
  BY ONLY <1>12 DEF Deployment, linkVars, indexVars, runVars, tempVars, faultVars
<1>13. ASSUME NEW r \in Runs, NEW f \in Files, Move(r, f)
      PROVE  UNCHANGED <<stamp, temp, broken, promised>>
  BY ONLY <1>13 DEF Move, linkVars, indexVars, runVars, tempVars, faultVars
<1>14. ASSUME NEW r \in Runs, MovesDone(r)
      PROVE  UNCHANGED <<live, stamp, temp, broken, damaged, deployed, promised, lost>>
  BY ONLY <1>14 DEF MovesDone, linkVars, indexVars, runVars, tempVars, faultVars
<1>15. ASSUME NEW r \in Runs, DeleteTemp(r)
      PROVE  UNCHANGED <<live, stamp, damaged, deployed, lost>>
  BY ONLY <1>15 DEF DeleteTemp, linkVars, indexVars, runVars, tempVars, faultVars
<1>16. ASSUME Crash PROVE UNCHANGED <<deployed, lost>>
  BY ONLY <1>16 DEF Crash
<1>17. ASSUME UNCHANGED distVars
      PROVE  UNCHANGED <<live, stamp, temp, broken, damaged, deployed, promised, lost>>
  BY ONLY <1>17 DEF distVars, tempVars, faultVars
<1>18. ASSUME NEW r \in Runs, GeneratePage(r)
      PROVE  UNCHANGED <<live, stamp, temp, broken, damaged, deployed, promised, lost>>
  BY ONLY <1>18 DEF GeneratePage, runVars, tempVars
<1>19. QED
  <2>1. CASE UNCHANGED distVars BY <1>17, <2>1
  <2>2. ASSUME NEW f \in Files, SaveSource(f)
        PROVE  UNCHANGED <<live, stamp, temp, broken, damaged, deployed, promised, lost>>
    BY <1>1, <2>2
  <2>3. ASSUME NEW r \in Runs,
               \/ Begin(r) \/ GeneratePage(r) \/ PagesDone(r) \/ Attachments(r)
               \/ TemplateDone(r) \/ ContextDone(r) \/ MovesDone(r)
        PROVE  UNCHANGED <<live, stamp, temp, broken, damaged, deployed, promised, lost>>
    BY <1>2, <1>4, <1>5, <1>10, <1>11, <1>14, <1>18, <2>3
  <2>4. CASE Crash BY <1>16, <2>4
  <2>5. \/ UNCHANGED <<live, stamp, temp, broken, damaged, deployed, promised, lost>>
        \/ Crash
        \/ \E r \in Runs : \/ Copy(r) \/ CopyFails(r) \/ Finish(r) \/ Deployment(r) \/ DeleteTemp(r)
                           \/ \E p \in Pages : PublishPage(r, p)
                           \/ \E f \in Stamped : Look(r, f)
                           \/ \E f \in Files : Move(r, f)
    BY <2>1, <2>2, <2>3 DEF DistributionNext, RunStep
  <2>6. CASE \E r \in Runs : Copy(r) \/ CopyFails(r)
    BY <1>7, <1>8, <2>6
  <2>7. CASE \E r \in Runs : Finish(r) \/ Deployment(r) \/ DeleteTemp(r)
    BY <1>9, <1>12, <1>15, <2>7
  <2>8. CASE \E r \in Runs, p \in Pages : PublishPage(r, p)
    BY <1>3, <2>8
  <2>9. CASE \E r \in Runs, f \in Stamped : Look(r, f)
    BY <1>6, <2>9
  <2>10. CASE \E r \in Runs, f \in Files : Move(r, f)
    BY <1>13, <2>10
  <2>11. QED BY <2>4, <2>5, <2>6, <2>7, <2>8, <2>9, <2>10

-----------------------------------------------------------------------------
(* Types *)

\* The types hold at first.
LEMMA InitTypeOK == DistributionInit => DistributionTypeOK
  BY SMT DEF DistributionInit, DistributionTypeOK, NoVersions, Version, Phases, Stamped

\* The types of what PutDown changes.
LEMMA PutDownTypes ==
  ASSUME DistributionTypeOK, NEW r \in Runs, PutDown(r)
  PROVE  /\ hand' \in [Runs -> Files \union {NoFile}]
         /\ seen' \in [Runs -> Version]
         /\ record' \in [Runs -> {"no", "now", "after"}]
  BY DEF DistributionTypeOK, PutDown, Version

\* The types of what Forget changes.
LEMMA ForgetTypes ==
  ASSUME DistributionTypeOK, NEW R \in SUBSET Runs, Forget(R)
  PROVE  /\ kind' \in [Runs -> {"publish", "view"}]
         /\ forced' \in [Runs -> BOOLEAN]
         /\ contexts' \in [Runs -> 0..MaxContexts]
         /\ todo' \in [Runs -> SUBSET Files]
         /\ hand' \in [Runs -> Files \union {NoFile}]
         /\ seen' \in [Runs -> Version]
         /\ record' \in [Runs -> {"no", "now", "after"}]
         /\ pageIndex' \in [Runs -> SUBSET Pages]
         /\ parsed' \in [Runs -> BOOLEAN]
         /\ script' \in [Runs -> {"linked", "bare", "failed"}]
         /\ templateIndex' \in [Runs -> BOOLEAN]
         /\ spread' \subseteq Runs
         /\ temp' \in [Runs -> [Files -> Version]]
         /\ broken' \in [Runs -> SUBSET Files]
         /\ began' \in [Runs -> [Files -> Version]]
         /\ faulted' \subseteq Runs
<1> USE DEF DistributionTypeOK
<1>1. NoVersions \in [Files -> Version] BY DEF NoVersions, Version
<1>2. 0 \in Version BY DEF Version
<1>3. kind' \in [Runs -> {"publish", "view"}] BY DEF Forget
<1>4. forced' \in [Runs -> BOOLEAN] BY DEF Forget
<1>5. contexts' \in [Runs -> 0..MaxContexts] BY DEF Forget
<1>6. todo' \in [Runs -> SUBSET Files] BY DEF Forget
<1>7. hand' \in [Runs -> Files \union {NoFile}] BY DEF Forget
<1>8. seen' \in [Runs -> Version] BY <1>2 DEF Forget
<1>9. record' \in [Runs -> {"no", "now", "after"}] BY DEF Forget
<1>10. pageIndex' \in [Runs -> SUBSET Pages] BY DEF Forget
<1>11. templateIndex' \in [Runs -> BOOLEAN] BY DEF Forget
<1>12. temp' \in [Runs -> [Files -> Version]] BY <1>1 DEF Forget
<1>13. began' \in [Runs -> [Files -> Version]] BY <1>1 DEF Forget
<1>14. faulted' \subseteq Runs BY DEF Forget
<1>15. broken' \in [Runs -> SUBSET Files] BY DEF Forget
<1>16. parsed' \in [Runs -> BOOLEAN] BY DEF Forget
<1>17. script' \in [Runs -> {"linked", "bare", "failed"}] BY DEF Forget
<1>18. spread' \subseteq Runs BY DEF Forget
<1>19. QED
  BY <1>3, <1>4, <1>5, <1>6, <1>7, <1>8, <1>9, <1>10, <1>11, <1>12, <1>13, <1>14, <1>15,
     <1>16, <1>17, <1>18

\* The types of what a failed write leaves.
LEMMA LeftoverTypes ==
  ASSUME DistributionTypeOK, NEW r \in Runs, NEW f \in Files, Leftover(r, f)
  PROVE  /\ temp' \in [Runs -> [Files -> Version]]
         /\ broken' \in [Runs -> SUBSET Files]
         /\ damaged' \subseteq Files
<1>1. /\ temp \in [Runs -> [Files -> Version]] /\ broken \in [Runs -> SUBSET Files]
      /\ damaged \subseteq Files /\ 0 \in Version
  BY DEF DistributionTypeOK, Version
<1>2. [temp EXCEPT ![r][f] = 0] \in [Runs -> [Files -> Version]] BY <1>1
<1>3. CASE UNCHANGED <<temp, broken, damaged>> BY <1>1, <1>3
<1>4. CASE ~UNCHANGED <<temp, broken, damaged>>
  <2>1. /\ temp' = [temp EXCEPT ![r][f] = 0]
        /\ broken' = [broken EXCEPT ![r] = @ \union {f}]
        /\ damaged' = damaged \union {f}
    BY <1>4 DEF Leftover
  <2>2. temp' \in [Runs -> [Files -> Version]] BY <1>2, <2>1
  <2>3. broken' \in [Runs -> SUBSET Files] BY <1>1, <2>1
  <2>4. damaged' \subseteq Files BY <1>1, <2>1
  <2>5. QED BY <2>2, <2>3, <2>4
<1>5. QED BY <1>3, <1>4

\* What a failed write does to the temporary directories: at most it takes the file away.
LEMMA LeftoverTemp ==
  ASSUME DistributionTypeOK, NEW r \in Runs, NEW f \in Files, Leftover(r, f),
         NEW q \in Runs, NEW g \in Files
  PROVE  /\ temp'[q][g] = temp[q][g] \/ temp'[q][g] = 0
         /\ q # r \/ g # f => temp'[q][g] = temp[q][g]
         /\ q # r => broken'[q] = broken[q]
<1>1. temp \in [Runs -> [Files -> Version]] /\ broken \in [Runs -> SUBSET Files]
  BY DEF DistributionTypeOK
<1>2. QED BY <1>1 DEF Leftover

\* A run that is in a context still counts it.
ContextsLeft ==
  \A r \in Runs :
    phase[r] \in {"page", "pages", "attachments", "template", "links"} => contexts[r] > 0

\* Every step keeps that a run before its moves has a context left.
LEMMA NextContextsLeft ==
  ASSUME DistributionTypeOK, ContextsLeft, [DistributionNext]_distVars
  PROVE  ContextsLeft'
<1> USE DEF ContextsLeft
<1>a. phase \in [Runs -> Phases] /\ contexts \in [Runs -> 0..MaxContexts]
  BY DEF DistributionTypeOK
<1>1. ASSUME NEW r \in Runs, Begin(r) PROVE ContextsLeft'
  BY <1>1, <1>a DEF Begin
<1>2. ASSUME NEW r \in Runs,
             \/ GeneratePage(r) \/ PagesDone(r) \/ Attachments(r)
             \/ TemplateDone(r) \/ Deployment(r) \/ MovesDone(r)
      PROVE  ContextsLeft'
  BY <1>2, <1>a DEF GeneratePage, PagesDone, Attachments, TemplateDone, Deployment, MovesDone
<1>3. ASSUME NEW r \in Runs, ContextDone(r) PROVE ContextsLeft'
  BY <1>3, <1>a DEF ContextDone
<1>4. ASSUME NEW r \in Runs, DeleteTemp(r) PROVE ContextsLeft'
  BY <1>4, <1>a DEF DeleteTemp, Forget
<1>5. ASSUME Crash PROVE ContextsLeft'
  BY <1>5, <1>a DEF Crash, Forget, Active
<1>6. ASSUME UNCHANGED <<phase, contexts>> PROVE ContextsLeft'
  BY <1>6
<1>7. QED
  BY <1>1, <1>2, <1>3, <1>4, <1>5, <1>6
     DEF DistributionNext, RunStep, SaveSource, PublishPage, Look, Copy, CopyFails, Finish, Move,
         distVars

\* Every action keeps the types.
LEMMA NextTypeOK ==
  ASSUME DistributionTypeOK, ContextsLeft, [DistributionNext]_distVars
  PROVE  DistributionTypeOK'
<1>0. (\A f \in Files : source[f] \in Version) /\ 0 \in Version
  BY DEF DistributionTypeOK, Version
<1>a. todo \in [Runs -> SUBSET Files] BY DEF DistributionTypeOK
<1>b. phase \in [Runs -> Phases] BY DEF DistributionTypeOK
<1>c. pageIndex \in [Runs -> SUBSET Pages] BY DEF DistributionTypeOK
<1>d. temp \in [Runs -> [Files -> Version]] BY DEF DistributionTypeOK
<1>e. live \in [Files -> Version] /\ deployed \in [Files -> Version] BY DEF DistributionTypeOK
<1>f. stamp \in [Stamped -> Version] BY DEF DistributionTypeOK
<1>g. faults \in 0..MaxFaults /\ faulted \subseteq Runs /\ damaged \subseteq Files /\ lost \subseteq Files
  BY DEF DistributionTypeOK
<1>h. hand \in [Runs -> Files \union {NoFile}] BY DEF DistributionTypeOK
<1>1. ASSUME NEW f \in Files, SaveSource(f) PROVE DistributionTypeOK'
  <2>1. source' \in [Files -> 1..MaxVersion] BY <1>1 DEF SaveSource, DistributionTypeOK
  <2>2. QED BY <1>1, <2>1 DEF SaveSource, linkVars, indexVars, templateVars, runVars, faultVars, DistributionTypeOK
<1>2. ASSUME NEW r \in Runs, Begin(r) PROVE DistributionTypeOK'
  <2>1. kind' \in [Runs -> {"publish", "view"}] BY <1>2 DEF Begin, DistributionTypeOK
  <2>2. forced' \in [Runs -> BOOLEAN] BY <1>2 DEF Begin, DistributionTypeOK
  <2>3. contexts' \in [Runs -> 0..MaxContexts] BY <1>2 DEF Begin, DistributionTypeOK
  <2>4. phase' \in [Runs -> Phases] BY <1>b, <1>2 DEF Begin, Phases
  <2>5. source \in [Files -> Version] BY DEF Version, DistributionTypeOK
  <2>6. began' \in [Runs -> [Files -> Version]] BY <1>2, <2>5 DEF Begin, DistributionTypeOK
  <2>7. QED
    BY <1>2, <2>1, <2>2, <2>3, <2>4, <2>6
       DEF Begin, linkVars, indexVars, templateVars, faultVars, DistributionTypeOK
<1>3. ASSUME NEW r \in Runs, NEW p \in Pages, PublishPage(r, p) PROVE DistributionTypeOK'
  <2>1. todo' \in [Runs -> SUBSET Files] BY <1>a, <1>3 DEF PublishPage
  <2>2. pageIndex' \in [Runs -> SUBSET Pages] BY <1>c, <1>3 DEF PublishPage
  <2>3. /\ temp' \in [Runs -> [Files -> Version]] /\ broken' \in [Runs -> SUBSET Files]
        /\ damaged' \subseteq Files
    <3>1. \/ UNCHANGED <<broken, damaged>> /\ temp' \in {temp, [temp EXCEPT ![r][p] = source[p]]}
          \/ Leftover(r, p)
      BY <1>3 DEF PublishPage, faultVars
    <3>2. source[p] \in Version /\ p \in Files BY <1>0
    <3>3. [temp EXCEPT ![r][p] = source[p]] \in [Runs -> [Files -> Version]] BY <1>d, <3>2
    <3>4. QED BY <1>d, <3>1, <3>2, <3>3, LeftoverTypes DEF DistributionTypeOK
  <2>4. faults' \in 0..MaxFaults /\ faulted' \subseteq Runs
    BY <1>3 DEF PublishPage, Fault, faultVars, DistributionTypeOK
  <2>5. QED BY <1>3, <2>1, <2>2, <2>3, <2>4 DEF PublishPage, templateVars, runVars, DistributionTypeOK
<1>4. ASSUME NEW r \in Runs, PagesDone(r) PROVE DistributionTypeOK'
  <2>1. phase' \in [Runs -> Phases] BY <1>b, <1>4 DEF PagesDone, Phases
  <2>2. todo' \in [Runs -> SUBSET Files] BY <1>a, <1>4 DEF PagesDone, Stamped
  <2>3. QED
    BY <1>4, <2>1, <2>2 DEF PagesDone, indexVars, templateVars, runVars, faultVars, DistributionTypeOK
<1>5. ASSUME NEW r \in Runs, Attachments(r) PROVE DistributionTypeOK'
  <2>1. phase' \in [Runs -> Phases] BY <1>b, <1>5 DEF Attachments, Phases
  <2>2. todo' \in [Runs -> SUBSET Files] BY <1>a, <1>5 DEF Attachments, Stamped
  <2>3. templateIndex' \in [Runs -> BOOLEAN] BY <1>5 DEF Attachments, DistributionTypeOK
  <2>4. faults' \in 0..MaxFaults BY <1>g, <1>5 DEF Attachments, Fault
  <2>5. spread' \subseteq Runs BY <1>5 DEF Attachments, DistributionTypeOK
  <2>6. QED BY <1>5, <2>1, <2>2, <2>3, <2>4, <2>5 DEF Attachments, runVars, DistributionTypeOK
<1>6. ASSUME NEW r \in Runs, NEW f \in Stamped, Look(r, f) PROVE DistributionTypeOK'
  <2>1. f \in Files BY DEF Stamped
  <2>2. todo' \in [Runs -> SUBSET Files] BY <1>a, <1>6 DEF Look, Skip
  <2>3. hand' \in [Runs -> Files \union {NoFile}] BY <1>h, <1>6, <2>1 DEF Look, Skip
  <2>4. seen' \in [Runs -> Version]
    <3>1. seen' = seen \/ seen' = [seen EXCEPT ![r] = source[f]]
      BY ONLY <1>6 DEF Look, Skip
    <3>2. QED BY <1>0, <2>1, <3>1 DEF DistributionTypeOK
  <2>5. record' \in [Runs -> {"no", "now", "after"}]
    <3>1. record' = record \/ \E x \in {"now", "after"} : record' = [record EXCEPT ![r] = x]
      BY ONLY <1>6 DEF Look, Skip
    <3>2. QED BY <3>1 DEF DistributionTypeOK
  <2>6. stamp' \in [Stamped -> Version] BY <1>f, <1>0, <1>6, <2>1 DEF Look, Skip
  <2>7. QED
    BY <1>6, <2>2, <2>3, <2>4, <2>5, <2>6 DEF Look, indexVars, templateVars, runVars, faultVars, DistributionTypeOK
<1>7. ASSUME NEW r \in Runs, Copy(r) PROVE DistributionTypeOK'
  <2>1. todo' \in [Runs -> SUBSET Files] BY <1>a, <1>7 DEF Copy
  <2>2. temp' \in [Runs -> [Files -> Version]] BY <1>d, <1>0, <1>7 DEF Copy
  <2>3. QED BY <1>7, <2>1, <2>2 DEF Copy, indexVars, templateVars, runVars, faultVars, DistributionTypeOK
<1>8. ASSUME NEW r \in Runs, CopyFails(r) PROVE DistributionTypeOK'
  <2>1. todo' \in [Runs -> SUBSET Files] BY <1>a, <1>8 DEF CopyFails
  <2>2. faults' \in 0..MaxFaults /\ faulted' \subseteq Runs BY <1>g, <1>8 DEF CopyFails, Fault
  <2>3. hand[r] \in Files BY <1>h, <1>8 DEF CopyFails
  <2>4. lost' \subseteq Files BY <1>g, <1>8, <2>3 DEF CopyFails
  <2>5. Leftover(r, hand[r]) BY <1>8 DEF CopyFails
  <2>6. /\ temp' \in [Runs -> [Files -> Version]] /\ broken' \in [Runs -> SUBSET Files]
        /\ damaged' \subseteq Files
    BY <2>3, <2>5, LeftoverTypes
  <2>7. QED
    BY <1>8, <2>1, <2>2, <2>4, <2>6 DEF CopyFails, indexVars, templateVars, runVars, DistributionTypeOK
<1>9. ASSUME NEW r \in Runs, Finish(r) PROVE DistributionTypeOK'
  <2>1. stamp' \in [Stamped -> Version]
    <3>1. seen[r] \in Version BY DEF DistributionTypeOK
    <3>2. stamp' = stamp \/ RecordStamp(hand[r], seen[r]) BY <1>9 DEF Finish
    <3>3. QED BY <1>f, <3>1, <3>2 DEF RecordStamp
  <2>2. lost' \subseteq Files BY <1>g, <1>h, <1>9 DEF Finish
  <2>3. QED BY <1>9, <2>1, <2>2, PutDownTypes DEF Finish, indexVars, templateVars, runVars, faultVars, DistributionTypeOK
<1>10. ASSUME NEW r \in Runs, TemplateDone(r) PROVE DistributionTypeOK'
  <2>1. phase' \in [Runs -> Phases] BY <1>b, <1>10 DEF TemplateDone, Phases
  <2>2. todo' \in [Runs -> SUBSET Files] BY <1>a, <1>10 DEF TemplateDone, Stamped
  <2>3. QED BY <1>10, <2>1, <2>2 DEF TemplateDone, indexVars, templateVars, runVars, faultVars, DistributionTypeOK
<1>11. ASSUME NEW r \in Runs, ContextDone(r) PROVE DistributionTypeOK'
  <2>1. phase' \in [Runs -> Phases] BY <1>b, <1>11 DEF ContextDone, Phases
  <2>2. contexts' \in [Runs -> 0..MaxContexts]
    <3>1. contexts[r] > 0 BY <1>11 DEF ContextDone, ContextsLeft
    <3>2. QED BY <1>11, <3>1 DEF ContextDone, DistributionTypeOK
  <2>3. QED
    BY <1>11, <2>1, <2>2
       DEF ContextDone, linkVars, indexVars, templateVars, runVars, faultVars, DistributionTypeOK
<1>12. ASSUME NEW r \in Runs, Deployment(r) PROVE DistributionTypeOK'
  <2>1. phase' \in [Runs -> Phases] BY <1>b, <1>12 DEF Deployment, Phases
  <2>2. todo' \in [Runs -> SUBSET Files]
    <3>1. Waiting(r) \subseteq Files BY DEF Waiting, DistributionTypeOK
    <3>2. QED BY <1>a, <1>12, <3>1 DEF Deployment
  <2>3. /\ faults' \in 0..MaxFaults /\ faulted' \subseteq Runs /\ damaged' \subseteq Files
        /\ lost' \subseteq Files
    BY <1>12 DEF Deployment, Fault, faultVars, Waiting, DistributionTypeOK
  <2>4. QED BY <1>12, <2>1, <2>2, <2>3 DEF Deployment, indexVars, templateVars, runVars, DistributionTypeOK
<1>13. ASSUME NEW r \in Runs, NEW f \in Files, Move(r, f) PROVE DistributionTypeOK'
  <2>1. todo' \in [Runs -> SUBSET Files] BY <1>a, <1>13 DEF Move
  <2>2. live' \in [Files -> Version]
    <3>1. live' \in {live, [live EXCEPT ![f] = temp[r][f]], [live EXCEPT ![f] = 0]}
      BY <1>13 DEF Move
    <3>2. QED BY <1>0, <1>d, <1>e, <3>1
  <2>3. deployed' \in [Files -> Version]
    <3>1. deployed' = deployed \/ deployed' = [deployed EXCEPT ![f] = Larger(@, temp[r][f])]
      BY <1>13 DEF Move
    <3>2. Larger(deployed[f], temp[r][f]) \in Version BY <1>d, <1>e DEF Larger
    <3>3. QED BY <1>e, <3>1, <3>2
  <2>4. /\ faults' \in 0..MaxFaults /\ faulted' \subseteq Runs /\ damaged' \subseteq Files
        /\ lost' \subseteq Files
    BY <1>13 DEF Move, Fault, faultVars, DistributionTypeOK
  <2>5. QED BY <1>13, <2>1, <2>2, <2>3, <2>4 DEF Move, indexVars, templateVars, runVars, DistributionTypeOK
<1>14. ASSUME NEW r \in Runs, MovesDone(r) PROVE DistributionTypeOK'
  <2>1. phase' \in [Runs -> Phases] BY <1>b, <1>14 DEF MovesDone, Phases
  <2>2. QED BY <1>14, <2>1 DEF MovesDone, linkVars, indexVars, templateVars, runVars, faultVars, DistributionTypeOK
<1>15. ASSUME NEW r \in Runs, DeleteTemp(r) PROVE DistributionTypeOK'
  <2>1. phase' \in [Runs -> Phases] BY <1>b, <1>15 DEF DeleteTemp, Phases
  <2>2. promised' \in [Files -> Version] BY <1>15 DEF DeleteTemp, Larger, DistributionTypeOK
  <2>3. Forget({r}) BY <1>15 DEF DeleteTemp
  <2>4. UNCHANGED <<source, live, stamp, faults, damaged, crashes, deployed, lost>>
    BY <1>15 DEF DeleteTemp
  <2>5. {r} \in SUBSET Runs OBVIOUS
  <2>6. /\ kind' \in [Runs -> {"publish", "view"}]
        /\ forced' \in [Runs -> BOOLEAN]
        /\ contexts' \in [Runs -> 0..MaxContexts]
        /\ todo' \in [Runs -> SUBSET Files]
        /\ hand' \in [Runs -> Files \union {NoFile}]
        /\ seen' \in [Runs -> Version]
        /\ record' \in [Runs -> {"no", "now", "after"}]
        /\ pageIndex' \in [Runs -> SUBSET Pages]
        /\ parsed' \in [Runs -> BOOLEAN]
        /\ script' \in [Runs -> {"linked", "bare", "failed"}]
        /\ templateIndex' \in [Runs -> BOOLEAN]
        /\ spread' \subseteq Runs
        /\ temp' \in [Runs -> [Files -> Version]]
        /\ broken' \in [Runs -> SUBSET Files]
        /\ began' \in [Runs -> [Files -> Version]]
        /\ faulted' \subseteq Runs
    BY ONLY DistributionTypeOK, <2>3, <2>5, ForgetTypes
  <2>7. QED BY <2>1, <2>2, <2>4, <2>6 DEF DistributionTypeOK
<1>16. ASSUME Crash PROVE DistributionTypeOK'
  <2>1. phase' \in [Runs -> Phases] BY <1>b, <1>16 DEF Crash, Phases
  <2>2. stamp' \in [Stamped -> Version] BY <1>f, <1>0, <1>16 DEF Crash
  <2>3. promised' \in [Files -> Version] BY <1>0, <1>16 DEF Crash, NoVersions, DistributionTypeOK
  <2>4. crashes' \in 0..MaxCrashes BY <1>16 DEF Crash, DistributionTypeOK
  <2>5. Forget({r \in Runs : Active(r)}) BY <1>16 DEF Crash
  <2>6. live' \in [Files -> Version] /\ damaged' \subseteq Files
    <3>1. PICK F \in Cut : LET D == {F[r] : r \in DOMAIN F} \ {NoFile} IN
            /\ damaged' = damaged \union D
            /\ live' = [f \in Files |-> IF f \in D THEN 0 ELSE live[f]]
      BY <1>16 DEF Crash
    <3>2. \A r \in DOMAIN F : F[r] \in Files \union {NoFile} BY DEF Cut
    <3>3. QED BY <1>0, <1>e, <1>g, <3>1, <3>2
  <2>7. QED BY <1>16, <2>1, <2>2, <2>3, <2>4, <2>5, <2>6, ForgetTypes DEF Crash, DistributionTypeOK
<1>17. ASSUME UNCHANGED distVars PROVE DistributionTypeOK'
  BY <1>17 DEF distVars, linkVars, indexVars, templateVars, runVars, faultVars, DistributionTypeOK
<1>18. ASSUME NEW r \in Runs, GeneratePage(r) PROVE DistributionTypeOK'
  <2>1. phase' \in [Runs -> Phases] BY <1>b, <1>18 DEF GeneratePage, Phases
  <2>2. todo' \in [Runs -> SUBSET Files]
    <3>1. \E P \in SUBSET Pages : todo' = [todo EXCEPT ![r] = P]
      BY ONLY <1>18 DEF GeneratePage, Pages
    <3>2. QED BY <1>a, <3>1
  <2>3. parsed' \in [Runs -> BOOLEAN] BY <1>18 DEF GeneratePage, DistributionTypeOK
  <2>4. script' \in [Runs -> {"linked", "bare", "failed"}]
    BY <1>18 DEF GeneratePage, DistributionTypeOK
  <2>5. faults' \in 0..MaxFaults BY <1>g, <1>18 DEF GeneratePage, Fault
  <2>6. QED
    BY <1>18, <2>1, <2>2, <2>3, <2>4, <2>5 DEF GeneratePage, runVars, DistributionTypeOK
<1>19. QED
  BY <1>1, <1>2, <1>3, <1>4, <1>5, <1>6, <1>7, <1>8, <1>9, <1>10, <1>11, <1>12, <1>13, <1>14,
     <1>15, <1>16, <1>17, <1>18 DEF DistributionNext, RunStep

\* The variables keep their types for any sets of runs and files.
THEOREM DistributionTypeCorrect == DistributionSpec => []DistributionTypeOK
<1>1. DistributionInit => DistributionTypeOK /\ ContextsLeft
  BY InitTypeOK DEF DistributionInit, ContextsLeft
<1>2. DistributionTypeOK /\ ContextsLeft /\ [DistributionNext]_distVars
        => DistributionTypeOK' /\ ContextsLeft'
  BY NextTypeOK, NextContextsLeft
<1>3. QED BY <1>1, <1>2, PTL DEF DistributionSpec

-----------------------------------------------------------------------------
(* The inductive invariant *)

\* A version of a file is not forgotten: it was published, is on its way, or is known as
\* lost.
Safe(f, v) == f \in lost \/ deployed[f] >= v \/ OnItsWay(f, v)

RunShape ==
  \A r \in Runs :
    /\ ~Active(r) \/ kind[r] = "view" => \A f \in Files : temp[r][f] = 0
    /\ hand[r] # NoFile => phase[r] \in {"template", "links"} /\ hand[r] \in Stamped
    /\ record[r] # "no" => hand[r] # NoFile
    /\ record[r] = "now" => kind[r] = "publish" /\ hand[r] \notin TemplateLinks
    /\ phase[r] \in {"deploy", "ended"} => todo[r] = {}
    /\ forced[r] => kind[r] = "publish"
    /\ phase[r] \in {"deploy", "move"} => kind[r] = "publish"

\* What is recorded after a copy is not newer than the copy, unless the copy failed.
CopiedBeforeRecorded ==
  \A r \in Runs :
    record[r] = "after" =>
      /\ seen[r] <= source[hand[r]]
      /\ kind[r] = "publish" /\ hand[r] \notin todo[r] \union lost
           => temp[r][hand[r]] >= seen[r]

\* Sources only get newer.
NotNewerThanSource ==
  \A f \in Files :
    /\ live[f] <= source[f]
    /\ \A r \in Runs : temp[r][f] <= source[f] /\ began[r][f] <= source[f]

\* A run begins with empty indexes.
FreshStart ==
  \A r \in Runs :
    ~Active(r) => /\ r \notin spread
                  /\ pageIndex[r] = {}
                  /\ \A f \in Files : began[r][f] = 0

Structure == RunShape /\ CopiedBeforeRecorded /\ NotNewerThanSource /\ FreshStart

\* Every step keeps that a run not begun has nothing.
LEMMA FreshStartNext ==
  ASSUME DistributionTypeOK, FreshStart, [DistributionNext]_distVars
  PROVE  FreshStart'
<1>a. /\ phase \in [Runs -> Phases] /\ spread \subseteq Runs
      /\ pageIndex \in [Runs -> SUBSET Pages] /\ began \in [Runs -> [Files -> Version]]
  BY DEF DistributionTypeOK
<1> USE DEF FreshStart, Active
<1>1. ASSUME NEW r \in Runs, Begin(r) PROVE FreshStart'
  <2>1. UNCHANGED <<spread, pageIndex>> BY <1>1 DEF Begin, indexVars, templateVars
  <2>2. phase' = [phase EXCEPT ![r] = "page"] /\ began' = [began EXCEPT ![r] = source]
    BY <1>1 DEF Begin
  <2>3. QED BY <1>a, <2>1, <2>2
<1>2. ASSUME NEW r \in Runs, GeneratePage(r) \/ PagesDone(r) \/ TemplateDone(r) \/ MovesDone(r)
      PROVE  FreshStart'
  BY <1>2, <1>a DEF GeneratePage, PagesDone, TemplateDone, MovesDone, indexVars, templateVars, runVars
<1>3. ASSUME NEW r \in Runs, NEW p \in Pages, PublishPage(r, p) PROVE FreshStart'
  BY <1>3, <1>a DEF PublishPage, templateVars, runVars
<1>4. ASSUME NEW r \in Runs, Attachments(r) PROVE FreshStart'
  <2>1. /\ phase[r] = "attachments" /\ UNCHANGED <<pageIndex, began>>
        /\ spread' = spread \/ spread' = spread \union {r}
        /\ \E x \in {"template", "links"} : phase' = [phase EXCEPT ![r] = x]
    BY <1>4 DEF Attachments, runVars
  <2>2. QED BY <1>a, <2>1
<1>5. ASSUME NEW r \in Runs, ContextDone(r) PROVE FreshStart'
  <2>1. /\ phase[r] = "links" /\ UNCHANGED <<spread, pageIndex, began>>
        /\ \E x \in {"page", "deploy", "ended"} : phase' = [phase EXCEPT ![r] = x]
    BY <1>5 DEF ContextDone, indexVars, templateVars, runVars
  <2>2. QED BY <1>a, <2>1
<1>6. ASSUME NEW r \in Runs, Deployment(r) PROVE FreshStart'
  <2>1. /\ phase[r] = "deploy" /\ UNCHANGED <<spread, pageIndex, began>>
        /\ \E x \in {"move", "ended"} : phase' = [phase EXCEPT ![r] = x]
    BY <1>6 DEF Deployment, indexVars, templateVars, runVars
  <2>2. QED BY <1>a, <2>1
<1>7. ASSUME NEW r \in Runs, DeleteTemp(r) PROVE FreshStart'
  BY <1>7, <1>a DEF DeleteTemp, Forget, NoVersions
<1>8. ASSUME Crash PROVE FreshStart'
  BY <1>8, <1>a DEF Crash, Forget, NoVersions
<1>9. ASSUME UNCHANGED <<phase, spread, pageIndex, began>> PROVE FreshStart'
  BY <1>9
<1>10. QED
  BY <1>1, <1>2, <1>3, <1>4, <1>5, <1>6, <1>7, <1>8, <1>9
     DEF DistributionNext, RunStep, SaveSource, Look, Copy, CopyFails, Finish, Move, indexVars, templateVars,
         runVars, distVars

\* Every step keeps that no copy and no stamp is newer than its source.
LEMMA NotNewerNext ==
  ASSUME DistributionTypeOK, NotNewerThanSource, [DistributionNext]_distVars
  PROVE  NotNewerThanSource'
<1>a. /\ temp \in [Runs -> [Files -> Version]] /\ source \in [Files -> 1..MaxVersion]
      /\ live \in [Files -> Version] /\ began \in [Runs -> [Files -> Version]]
      /\ hand \in [Runs -> Files \union {NoFile}]
  BY DEF DistributionTypeOK
<1>b. \A r \in Runs, f \in Files : /\ temp[r][f] <= source[f] /\ began[r][f] <= source[f]
                                   /\ live[f] <= source[f] /\ 0 <= source[f]
  BY <1>a DEF NotNewerThanSource, Version
<1> USE DEF NotNewerThanSource, Version
<1>1. ASSUME NEW f \in Files, SaveSource(f) PROVE NotNewerThanSource'
  BY <1>1, <1>a DEF SaveSource, runVars
<1>2. ASSUME NEW r \in Runs, Begin(r) PROVE NotNewerThanSource'
  BY <1>2, <1>a DEF Begin
<1>3. ASSUME NEW r \in Runs, NEW p \in Pages, PublishPage(r, p) PROVE NotNewerThanSource'
  <2>1. p \in Files /\ (temp' \in {temp, [temp EXCEPT ![r][p] = source[p]]} \/ Leftover(r, p))
    BY <1>3 DEF PublishPage
  <2>2. UNCHANGED <<source, live, began>> BY <1>3 DEF PublishPage, runVars
  <2>3. \A q \in Runs, g \in Files :
          temp'[q][g] = temp[q][g] \/ temp'[q][g] = source[g] \/ temp'[q][g] = 0
    <3>1. CASE temp' = temp BY <3>1
    <3>2. CASE temp' = [temp EXCEPT ![r][p] = source[p]]
      BY <1>a, <3>2
    <3>3. CASE Leftover(r, p) BY <2>1, <3>3, LeftoverTemp
    <3>4. QED BY <2>1, <3>1, <3>2, <3>3
  <2>4. ASSUME NEW q \in Runs, NEW g \in Files PROVE temp'[q][g] <= source'[g]
    <3>1. temp[q][g] <= source[g] /\ 0 <= source[g] /\ source[g] <= source[g] BY <1>a, <1>b
    <3>2. QED BY <2>2, <2>3, <3>1
  <2>5. QED BY <2>2, <2>4
<1>4. ASSUME NEW r \in Runs, Copy(r) PROVE NotNewerThanSource'
  <2>1. temp' = temp \/ temp' = [temp EXCEPT ![r][hand[r]] = source[hand[r]]]
    BY <1>4 DEF Copy
  <2>2. UNCHANGED <<source, live, began>> BY <1>4 DEF Copy, runVars
  <2>3. QED BY <1>4, <1>a, <2>1, <2>2 DEF Copy
<1>5. ASSUME NEW r \in Runs, NEW f \in Files, Move(r, f) PROVE NotNewerThanSource'
  BY <1>5, <1>a DEF Move, indexVars, runVars
<1>6. ASSUME NEW r \in Runs, DeleteTemp(r) PROVE NotNewerThanSource'
  BY <1>6, <1>a DEF DeleteTemp, Forget, NoVersions
<1>7. ASSUME Crash PROVE NotNewerThanSource'
  <2>1. \A f \in Files : live'[f] \in {live[f], 0} BY <1>7 DEF Crash
  <2>2. source' = source /\ Forget({r \in Runs : Active(r)}) BY <1>7 DEF Crash
  <2>3. \A r \in Runs, f \in Files : /\ temp'[r][f] \in {temp[r][f], 0}
                                     /\ began'[r][f] \in {began[r][f], 0}
    BY <2>2, <1>a DEF Forget, NoVersions
  <2>4. \A f \in Files : live'[f] <= source'[f]
    <3>1. \A f \in Files : live[f] <= source[f] /\ 0 <= source[f] BY <1>a
    <3>2. QED BY <2>1, <2>2, <3>1
  <2>5. \A r \in Runs, f \in Files : temp'[r][f] <= source'[f] /\ began'[r][f] <= source'[f]
    BY <1>b, <2>2, <2>3
  <2>6. QED BY <2>4, <2>5
<1>8. ASSUME UNCHANGED <<source, live, temp, began>> PROVE NotNewerThanSource'
  BY <1>8
<1>9. ASSUME NEW r \in Runs, CopyFails(r) PROVE NotNewerThanSource'
  <2>1. hand[r] \in Files /\ Leftover(r, hand[r]) BY <1>9, <1>a DEF CopyFails
  <2>2. \A q \in Runs, f \in Files : temp'[q][f] = temp[q][f] \/ temp'[q][f] = 0
    BY <2>1, LeftoverTemp
  <2>3. UNCHANGED <<source, live, began>> BY <1>9 DEF CopyFails, runVars
  <2>4. \A q \in Runs, f \in Files : temp'[q][f] <= source'[f] BY <1>b, <2>2, <2>3
  <2>5. QED BY <2>3, <2>4
<1>10. QED
  BY <1>1, <1>2, <1>3, <1>4, <1>5, <1>6, <1>7, <1>8, <1>9
     DEF DistributionNext, RunStep, GeneratePage, PagesDone, Attachments, Look, Finish, TemplateDone,
         ContextDone, Deployment, MovesDone, runVars, distVars

\* A file that is lost stays on record as lost.
LEMMA LostGrows ==
  ASSUME [DistributionNext]_distVars
  PROVE  lost \subseteq lost'
<1>1. ASSUME NEW r \in Runs,
             CopyFails(r) \/ Finish(r) \/ Deployment(r) \/ \E f \in Files : Move(r, f)
      PROVE  lost \subseteq lost'
  BY <1>1 DEF CopyFails, Finish, Deployment, Move
<1>2. CASE lost' = lost BY <1>2
<1>3. QED BY <1>1, <1>2, WhoChanges

\* Every step keeps the structure of runs, copies and stamps.
LEMMA StructureNext ==
  ASSUME DistributionTypeOK, Structure, [DistributionNext]_distVars
  PROVE  Structure'
<1>a. /\ phase \in [Runs -> Phases] /\ todo \in [Runs -> SUBSET Files]
      /\ temp \in [Runs -> [Files -> Version]] /\ source \in [Files -> 1..MaxVersion]
      /\ kind \in [Runs -> {"publish", "view"}] /\ forced \in [Runs -> BOOLEAN]
      /\ hand \in [Runs -> Files \union {NoFile}] /\ seen \in [Runs -> Version]
      /\ record \in [Runs -> {"no", "now", "after"}]
  BY DEF DistributionTypeOK
<1>b. NotNewerThanSource' /\ FreshStart' BY NotNewerNext, FreshStartNext DEF Structure
<1> DEFINE Rest == RunShape /\ CopiedBeforeRecorded
<1>c. Rest /\ lost \subseteq lost' BY LostGrows DEF Structure
<1> USE DEF RunShape, CopiedBeforeRecorded, Active, Version
<1>1. ASSUME NEW f \in Files, SaveSource(f) PROVE Rest'
  BY <1>1, <1>a, <1>c DEF SaveSource, linkVars, runVars
<1>2. ASSUME NEW r \in Runs, Begin(r) PROVE Rest'
  BY <1>2, <1>a, <1>c DEF Begin, linkVars
<1>3. ASSUME NEW r \in Runs, NEW p \in Pages, PublishPage(r, p) PROVE Rest'
  <2>1. \/ temp' = temp
        \/ kind[r] = "publish" /\ temp' = [temp EXCEPT ![r][p] = source[p]]
        \/ kind[r] = "publish" /\ temp' = [temp EXCEPT ![r][p] = 0]
    BY <1>3 DEF PublishPage, Leftover
  <2>2. UNCHANGED <<source, phase, hand, seen, record, kind, forced>>
    BY <1>3 DEF PublishPage, runVars
  <2>3. phase[r] = "pages" /\ todo' = [todo EXCEPT ![r] = @ \ {p}] /\ p \in Files
    BY <1>3 DEF PublishPage
  <2>4. \A q \in Runs : hand[q] # NoFile => q # r /\ temp'[q] = temp[q] /\ todo'[q] = todo[q]
    BY <1>a, <1>c, <2>1, <2>3
  <2>5. \A q \in Runs, f \in Files : temp[q][f] = 0 /\ (~Active(q) \/ kind[q] = "view")
           => temp'[q][f] = 0
    BY <1>a, <2>1, <2>3
  <2>6. RunShape' BY <1>a, <1>c, <2>2, <2>3, <2>5
  <2>7. CopiedBeforeRecorded' BY <1>a, <1>c, <2>2, <2>4
  <2>8. QED BY <2>6, <2>7
<1>4. ASSUME NEW r \in Runs, PagesDone(r) PROVE Rest'
  <2>1. UNCHANGED <<source, hand, seen, record, kind, forced, temp>> /\ phase[r] = "pages"
    BY <1>4 DEF PagesDone, runVars
  <2>2. \E x \in {"attachments", "links"}, L \in SUBSET Files :
          phase' = [phase EXCEPT ![r] = x] /\ todo' = [todo EXCEPT ![r] = L]
    BY <1>4, <1>a DEF PagesDone, Stamped
  <2>3. QED BY <1>a, <1>c, <2>1, <2>2
<1>5. ASSUME NEW r \in Runs, Attachments(r) PROVE Rest'
  <2>1. UNCHANGED <<source, hand, seen, record, kind, forced, temp>> /\ phase[r] = "attachments"
    BY <1>5 DEF Attachments, runVars
  <2>2. \/ /\ phase' = [phase EXCEPT ![r] = "template"]
           /\ todo' = [todo EXCEPT ![r] = TemplateLinks \union DirFiles]
        \/ /\ phase' = [phase EXCEPT ![r] = "links"]
           /\ todo' = [todo EXCEPT ![r] = ContextLinks]
    BY ONLY <1>5 DEF Attachments
  <2>3. RunShape' BY <1>a, <1>c, <2>1, <2>2
  <2>4. CopiedBeforeRecorded' BY <1>a, <1>c, <2>1, <2>2
  <2>5. QED BY <2>3, <2>4
<1>6. ASSUME NEW r \in Runs, NEW f \in Stamped, Look(r, f) PROVE Rest'
  <2>1. CASE Skip(r, f) BY <1>6, <1>a, <1>c, <2>1 DEF Look, Skip, runVars
  <2>2. CASE ~Skip(r, f)
    <3>1. /\ hand' = [hand EXCEPT ![r] = f] /\ todo' = todo
          /\ \/ seen' = seen /\ record' = record
             \/ /\ record' = [record EXCEPT ![r] = "now"] /\ seen' = seen
                /\ f \notin TemplateLinks
             \/ record' = [record EXCEPT ![r] = "after"] /\ seen' = [seen EXCEPT ![r] = source[f]]
      BY <1>6, <2>2 DEF Look, RecordedWhenAsked
    <3>2. /\ phase[r] \in {"template", "links"} /\ hand[r] = NoFile /\ f \in todo[r]
          /\ kind[r] = "view" => f \in TemplateLinks
          /\ UNCHANGED <<source, phase, kind, forced, temp>>
      BY <1>6, <2>2 DEF Look, runVars
    <3>3. f \in Files BY DEF Stamped
    <3>4. QED BY <1>a, <1>c, <3>1, <3>2, <3>3
  <2>3. QED BY <2>1, <2>2
<1>7. ASSUME NEW r \in Runs, Copy(r) PROVE Rest'
  BY <1>7, <1>a, <1>c DEF Copy, runVars
<1>8. ASSUME NEW r \in Runs, CopyFails(r) PROVE Rest'
  <2>1. hand[r] \in Files /\ Leftover(r, hand[r]) BY <1>8, <1>a DEF CopyFails
  <2>2. \A q \in Runs, f \in Files : /\ temp'[q][f] = temp[q][f] \/ temp'[q][f] = 0
                                     /\ q # r => temp'[q][f] = temp[q][f]
    BY <2>1, LeftoverTemp
  <2>3. UNCHANGED <<source, phase, hand, seen, record, kind, forced>>
    BY <1>8 DEF CopyFails, runVars
  <2>4. todo' = [todo EXCEPT ![r] = @ \ {hand[r]}] BY <1>8 DEF CopyFails
  <2>5. kind[r] = "publish" => hand[r] \in lost' BY <1>8 DEF CopyFails
  <2>6. \A q \in Runs, f \in Files : temp[q][f] = 0 => temp'[q][f] = 0 BY <2>2
  <2>7. RunShape' BY <1>a, <1>c, <2>3, <2>4, <2>6
  <2>8. ASSUME NEW q \in Runs, record[q] = "after" PROVE
          /\ seen[q] <= source[hand[q]]
          /\ kind[q] = "publish" /\ hand[q] \notin todo'[q] \union lost'
               => temp'[q][hand[q]] >= seen[q]
    <3>1. CASE q = r BY <1>c, <2>5, <2>8, <3>1
    <3>2. CASE q # r
      <4>1. todo'[q] = todo[q] BY <1>a, <2>4, <3>2
      <4>2. hand[q] \in Files BY <1>a, <1>c, <2>8
      <4>3. temp'[q][hand[q]] = temp[q][hand[q]] BY <2>2, <3>2, <4>2
      <4>4. QED BY <1>c, <2>8, <4>1, <4>3
    <3>3. QED BY <3>1, <3>2
  <2>9. CopiedBeforeRecorded' BY <2>3, <2>8
  <2>10. QED BY <2>7, <2>9
<1>9. ASSUME NEW r \in Runs, Finish(r) PROVE Rest'
  BY <1>9, <1>a, <1>c DEF Finish, PutDown, runVars
<1>10. ASSUME NEW r \in Runs, TemplateDone(r) PROVE Rest'
  BY <1>10, <1>a, <1>c DEF TemplateDone, runVars
<1>11. ASSUME NEW r \in Runs, ContextDone(r) PROVE Rest'
  <2>1. CASE contexts[r] > 1
    <3>1. phase' = [phase EXCEPT ![r] = "page"] BY <1>11, <2>1 DEF ContextDone
    <3>2. QED BY <1>11, <1>a, <1>c, <3>1 DEF ContextDone, linkVars, runVars
  <2>2. CASE ~(contexts[r] > 1)
    <3>1. phase' = [phase EXCEPT ![r] = IF kind[r] = "publish" THEN "deploy" ELSE "ended"]
      BY <1>11, <2>2 DEF ContextDone
    <3>2. QED BY <1>11, <1>a, <1>c, <3>1 DEF ContextDone, linkVars, runVars
  <2>3. QED BY <2>1, <2>2
<1>12. ASSUME NEW r \in Runs, Deployment(r) PROVE Rest'
  <2>1. todo' = todo \/ phase' = [phase EXCEPT ![r] = "move"] BY <1>12 DEF Deployment
  <2>2. UNCHANGED <<source, hand, seen, record, kind, forced, temp>> /\ phase[r] = "deploy"
    BY <1>12 DEF Deployment, runVars
  <2>3. /\ \E p \in {"move", "ended"} : phase' = [phase EXCEPT ![r] = p]
        /\ \E T : todo' = [todo EXCEPT ![r] = T]
    <3>1. todo' = todo => todo' = [todo EXCEPT ![r] = todo[r]] BY <1>a
    <3>2. QED BY <1>12, <3>1 DEF Deployment
  <2>4. RunShape' BY <1>a, <1>c, <2>1, <2>2, <2>3
  <2>5. CopiedBeforeRecorded' BY <1>a, <1>c, <2>1, <2>2, <2>3
  <2>6. QED BY <2>4, <2>5
<1>13. ASSUME NEW r \in Runs, NEW f \in Files, Move(r, f) PROVE Rest'
  BY <1>13, <1>a, <1>c DEF Move, runVars
<1>14. ASSUME NEW r \in Runs, MovesDone(r) PROVE Rest'
  BY <1>14, <1>a, <1>c DEF MovesDone, linkVars, runVars
<1>15. ASSUME NEW r \in Runs, DeleteTemp(r) PROVE Rest'
  BY <1>15, <1>a, <1>c DEF DeleteTemp, Forget, NoVersions
<1>16. ASSUME Crash PROVE Rest'
  BY <1>16, <1>a, <1>c DEF Crash, Forget, NoVersions
<1>17. ASSUME UNCHANGED distVars PROVE Rest'
  BY <1>17, <1>c DEF distVars, linkVars, runVars
<1>18. ASSUME NEW r \in Runs, GeneratePage(r) PROVE Rest'
  <2>1. UNCHANGED <<source, hand, seen, record, kind, forced, temp>> /\ phase[r] = "page"
    BY <1>18 DEF GeneratePage, runVars
  <2>2. /\ phase' = [phase EXCEPT ![r] = "pages"]
        /\ \E P \in SUBSET Files : todo' = [todo EXCEPT ![r] = P]
    BY ONLY <1>18, DistributionAssumption DEF GeneratePage, Pages
  <2>3. QED BY <1>a, <1>c, <2>1, <2>2
<1>19. QED
  BY <1>1, <1>2, <1>3, <1>4, <1>5, <1>6, <1>7, <1>8, <1>9, <1>10, <1>11, <1>12, <1>13, <1>14,
     <1>15, <1>16, <1>17, <1>18, <1>b DEF DistributionNext, RunStep, Structure

\* The deployed version of a file never goes back.
LEMMA DeployedGrows ==
  ASSUME DistributionTypeOK, [DistributionNext]_distVars, NEW f \in Files
  PROVE  deployed'[f] >= deployed[f] /\ deployed'[f] \in Nat
<1>1. deployed' = deployed \/ (\E r \in Runs, g \in Files :
         deployed' = [deployed EXCEPT ![g] = Larger(@, temp[r][g])])
  <2>1. ASSUME NEW r \in Runs, NEW g \in Files, Move(r, g)
        PROVE  \/ deployed' = deployed
               \/ deployed' = [deployed EXCEPT ![g] = Larger(@, temp[r][g])]
    BY ONLY <2>1 DEF Move
  <2>2. QED BY <2>1, WhoChanges
<1>2. deployed \in [Files -> Version] /\ temp \in [Runs -> [Files -> Version]]
  BY DEF DistributionTypeOK
<1>3. QED BY <1>1, <1>2 DEF Larger, Version

\* Short of a crash, a version that is safe stays safe whatever any run does: a run only
\* gives up a file by moving it, by marking it as lost, or by a copy it was not counted for.
LEMMA SafeStable ==
  ASSUME DistributionTypeOK, Structure, [DistributionNext]_distVars, ~Crash,
         NEW f \in Stamped, NEW v \in Version, Safe(f, v)
  PROVE  Safe(f, v)'
<1>a. /\ phase \in [Runs -> Phases] /\ todo \in [Runs -> SUBSET Files]
      /\ temp \in [Runs -> [Files -> Version]] /\ source \in [Files -> 1..MaxVersion]
      /\ hand \in [Runs -> Files \union {NoFile}]
      /\ record \in [Runs -> {"no", "now", "after"}]
      /\ deployed \in [Files -> Version] /\ kind \in [Runs -> {"publish", "view"}]
      /\ f \in Files /\ f # NoFile
  BY DEF DistributionTypeOK, Stamped
<1>b. SUFFICES ASSUME NEW q \in Runs, Carries(q, f, v) \/ AboutToCopy(q, f, v),
                      f \notin lost, v > 0, ~(deployed[f] >= v)
               PROVE  Safe(f, v)'
  <2>1. lost \subseteq lost' /\ deployed'[f] >= deployed[f] /\ deployed'[f] \in Nat
    BY <1>a, LostGrows, DeployedGrows
  <2>2. deployed[f] \in Nat BY <1>a DEF Version
  <2>3. QED BY <1>b, <2>1, <2>2 DEF Safe, OnItsWay, Version
<1> USE DEF Carries, AboutToCopy, Version, Structure, RunShape
<1> DEFINE Kept == Carries(q, f, v)' \/ AboutToCopy(q, f, v)'
<1>c. Kept => Safe(f, v)' BY DEF Safe, OnItsWay
<1>1. ASSUME NEW g \in Files, SaveSource(g) PROVE Kept
  BY <1>1, <1>a, <1>b DEF SaveSource, linkVars, runVars
<1>2. ASSUME NEW r \in Runs, Begin(r) PROVE Kept
  BY <1>2, <1>a, <1>b DEF Begin, linkVars, Active
<1>3. ASSUME NEW r \in Runs, NEW p \in Pages, PublishPage(r, p) PROVE Kept
  <2>1. p # f /\ p \in Files BY DEF Stamped
  <2>2. temp' \in {temp, [temp EXCEPT ![r][p] = source[p]]} \/ Leftover(r, p)
    BY <1>3 DEF PublishPage
  <2>3. temp'[q][f] = temp[q][f] BY <1>a, <2>1, <2>2, LeftoverTemp
  <2>4. f \in todo[q] => f \in todo'[q] BY <1>3, <1>a, <2>1 DEF PublishPage
  <2>5. UNCHANGED <<source, phase, hand, record, kind>> BY <1>3 DEF PublishPage, runVars
  <2>6. QED BY <1>b, <2>3, <2>4, <2>5
<1>4. ASSUME NEW r \in Runs, PagesDone(r) PROVE Kept
  BY <1>4, <1>a, <1>b DEF PagesDone, runVars
<1>5. ASSUME NEW r \in Runs, Attachments(r) PROVE Kept
  BY <1>5, <1>a, <1>b DEF Attachments, runVars
<1>6. ASSUME NEW r \in Runs, NEW g \in Stamped, Look(r, g) PROVE Kept
  BY <1>6, <1>a, <1>b DEF Look, Skip, runVars
<1>7. ASSUME NEW r \in Runs, Copy(r) PROVE Kept
  <2>1. temp'[q][f] = temp[q][f] \/ temp'[q][f] = source[f] BY <1>7, <1>a DEF Copy
  <2>2. temp[q][f] <= source[f] BY <1>a DEF NotNewerThanSource
  <2>3. temp[q][f] \in Nat /\ source[f] \in Nat BY <1>a
  <2>4. CASE Carries(q, f, v)
    <3>1. temp'[q][f] >= v BY <2>1, <2>2, <2>3, <2>4
    <3>2. QED BY <1>7, <1>a, <2>4, <3>1 DEF Copy
  <2>5. CASE AboutToCopy(q, f, v)
    <3>1. CASE q = r
      BY <1>7, <1>a, <2>5, <3>1 DEF Copy
    <3>2. CASE q # r
      BY <1>7, <1>a, <2>5, <3>2 DEF Copy
    <3>3. QED BY <3>1, <3>2
  <2>6. QED BY <1>b, <2>4, <2>5
<1>8. ASSUME NEW r \in Runs, CopyFails(r) PROVE Safe(f, v)'
  <2>1. CASE kind[r] = "publish" /\ hand[r] = f
    BY <1>8, <1>a, <2>1 DEF CopyFails, Safe
  <2>2. CASE ~(kind[r] = "publish" /\ hand[r] = f)
    <3>1. temp'[q][f] = temp[q][f]
      <4>1. CASE kind[r] = "publish"
        <5>1. hand[r] \in Files /\ Leftover(r, hand[r]) BY <1>8, <1>a DEF CopyFails
        <5>2. QED BY <1>a, <2>2, <4>1, <5>1, LeftoverTemp
      <4>2. CASE kind[r] # "publish" BY <1>8, <4>2 DEF CopyFails, Leftover
      <4>3. QED BY <4>1, <4>2
    <3>2. UNCHANGED <<source, phase, hand, record, kind>>
      BY <1>8 DEF CopyFails, runVars
    <3>3. todo' = [todo EXCEPT ![r] = @ \ {hand[r]}] BY <1>8 DEF CopyFails
    <3>4. CASE Carries(q, f, v) BY <1>8, <1>a, <1>b, <1>c, <3>1, <3>2, <3>3, <3>4 DEF CopyFails
    <3>5. CASE AboutToCopy(q, f, v)
      <4>1. q # r BY <1>a, <2>2, <3>5
      <4>2. QED BY <1>a, <1>c, <3>2, <3>3, <3>5, <4>1
    <3>6. QED BY <1>b, <3>4, <3>5
  <2>3. QED BY <2>1, <2>2
<1>9. ASSUME NEW r \in Runs, Finish(r) PROVE Kept
  BY <1>9, <1>a, <1>b DEF Finish, PutDown, runVars
<1>10. ASSUME NEW r \in Runs, TemplateDone(r) PROVE Kept
  BY <1>10, <1>a, <1>b DEF TemplateDone, runVars
<1>11. ASSUME NEW r \in Runs, ContextDone(r) PROVE Kept
  BY <1>11, <1>a, <1>b DEF ContextDone, linkVars, runVars
<1>12. ASSUME NEW r \in Runs, Deployment(r) PROVE Safe(f, v)'
  <2>1. CASE r # q \/ phase'[r] = "move"
    <3>1. Kept BY <1>12, <1>a, <1>b, <2>1 DEF Deployment, Waiting, runVars
    <3>2. QED BY <3>1, <1>c
  <2>2. CASE r = q /\ phase'[r] # "move"
    BY <1>12, <1>a, <1>b, <2>2 DEF Deployment, Waiting, Safe
  <2>3. QED BY <2>1, <2>2
<1>13. ASSUME NEW r \in Runs, NEW g \in Files, Move(r, g) PROVE Safe(f, v)'
  <2>1. CASE r # q \/ g # f
    <3>1. Kept BY <1>13, <1>a, <1>b, <2>1 DEF Move, runVars
    <3>2. QED BY <3>1, <1>c
  <2>2. CASE r = q /\ g = f
    BY <1>13, <1>a, <1>b, <2>2 DEF Move, Larger, Safe
  <2>3. QED BY <2>1, <2>2
<1>14. ASSUME NEW r \in Runs, MovesDone(r) PROVE Kept
  BY <1>14, <1>a, <1>b DEF MovesDone, linkVars, runVars
<1>15. ASSUME NEW r \in Runs, DeleteTemp(r) PROVE Kept
  BY <1>15, <1>a, <1>b DEF DeleteTemp, Forget
<1>16. ASSUME UNCHANGED distVars PROVE Kept
  BY <1>16, <1>b DEF distVars, linkVars, runVars
<1>17. ASSUME NEW r \in Runs, GeneratePage(r) PROVE Kept
  <2>1. UNCHANGED <<source, temp, hand, record, kind>> /\ phase[r] = "page"
    BY <1>17 DEF GeneratePage, runVars
  <2>2. /\ phase' = [phase EXCEPT ![r] = "pages"]
        /\ \E P : todo' = [todo EXCEPT ![r] = P]
    BY ONLY <1>17 DEF GeneratePage
  <2>3. QED BY <1>a, <1>b, <2>1, <2>2
<1>18. QED
  BY <1>c, <1>1, <1>2, <1>3, <1>4, <1>5, <1>6, <1>7, <1>8, <1>9, <1>10, <1>11, <1>12, <1>13,
     <1>14, <1>15, <1>16, <1>17 DEF DistributionNext, RunStep

\* A file that is safe in one version is safe in every older one.
LEMMA SafeMonotone ==
  ASSUME DistributionTypeOK, NEW f \in Files, NEW v \in Version, NEW w \in Version, w <= v,
         Safe(f, v)
  PROVE  Safe(f, w)
<1>1. /\ deployed[f] \in Version /\ source[f] \in 1..MaxVersion
      /\ \A r \in Runs : temp[r][f] \in Version
  BY DEF DistributionTypeOK
<1>2. QED BY <1>1 DEF Safe, OnItsWay, Carries, AboutToCopy, Version

-----------------------------------------------------------------------------
(* Stamps *)

StampsSafe == \A f \in Stamped : Safe(f, stamp[f])

\* The stamps are recorded before or after the copy, but never without it.
LEMMA StampsSafeNext ==
  ASSUME DistributionTypeOK, Structure, StampsSafe, [DistributionNext]_distVars
  PROVE  StampsSafe'
<1>a. /\ phase \in [Runs -> Phases] /\ todo \in [Runs -> SUBSET Files]
      /\ temp \in [Runs -> [Files -> Version]] /\ source \in [Files -> 1..MaxVersion]
      /\ hand \in [Runs -> Files \union {NoFile}] /\ seen \in [Runs -> Version]
      /\ record \in [Runs -> {"no", "now", "after"}] /\ stamp \in [Stamped -> Version]
      /\ deployed \in [Files -> Version] /\ kind \in [Runs -> {"publish", "view"}]
  BY DEF DistributionTypeOK
<1>1. CASE Crash
  <2>1. stamp' = [f \in Stamped |-> 0] /\ deployed' = deployed BY <1>1 DEF Crash
  <2>2. QED BY <1>a, <2>1 DEF StampsSafe, Safe, Version, Stamped
<1>2. CASE ~Crash
  <2> SUFFICES ASSUME NEW f \in Stamped PROVE Safe(f, stamp[f])'
    BY DEF StampsSafe
  <2>0. f \in Files /\ f # NoFile /\ stamp[f] \in Version /\ Safe(f, stamp[f])
    BY <1>a DEF StampsSafe, Stamped
  <2>1. Safe(f, stamp[f])'
        \/ stamp'[f] # stamp[f]
    <3>1. ASSUME stamp'[f] = stamp[f] PROVE Safe(f, stamp[f])'
      <4>1. PICK v \in Version : v = stamp[f] BY <2>0
      <4>2. Safe(f, v) BY <2>0, <4>1
      <4>3. Safe(f, v)' BY <1>2, <4>2, SafeStable
      <4>4. QED BY <3>1, <4>1, <4>3 DEF Safe, OnItsWay, Carries, AboutToCopy
    <3>2. QED BY <3>1
  <2>2. ASSUME NEW r \in Runs, Look(r, f), stamp'[f] # stamp[f] PROVE Safe(f, stamp[f])'
    <3>1. /\ hand'[r] = f /\ f \in todo'[r] /\ record'[r] = "now"
          /\ stamp'[f] = source[f] /\ source' = source
      BY <1>a, <2>0, <2>2 DEF Look, Skip
    <3>2. AboutToCopy(r, f, stamp[f])' BY <1>a, <2>0, <3>1 DEF AboutToCopy, Version
    <3>3. QED BY <3>2 DEF Safe, OnItsWay
  <2>3. ASSUME NEW r \in Runs, Finish(r), stamp'[f] # stamp[f] PROVE Safe(f, stamp[f])'
    <3>1. /\ hand[r] = f /\ record[r] = "after" /\ f \notin todo[r] /\ stamp'[f] = seen[r]
          /\ temp' = temp /\ phase' = phase /\ kind' = kind
      BY <1>a, <2>0, <2>3 DEF Finish, RecordStamp, runVars
    <3>2. phase[r] \in {"template", "links"} BY <2>0, <3>1 DEF Structure, RunShape
    <3>3. CASE kind[r] = "view"
      BY <2>3, <3>1, <3>3 DEF Finish, Safe
    <3>4. CASE kind[r] = "publish"
      <4>1. CASE f \in lost BY <4>1, LostGrows DEF Safe
      <4>2. CASE f \notin lost
        <5>1. temp[r][f] >= seen[r] BY <3>1, <3>4, <4>2 DEF Structure, CopiedBeforeRecorded
        <5>2. Carries(r, f, stamp[f])' BY <3>1, <3>2, <5>1 DEF Carries
        <5>3. QED BY <5>2 DEF Safe, OnItsWay
      <4>3. QED BY <4>1, <4>2
    <3>5. QED BY <1>a, <3>3, <3>4
  <2>4. ASSUME NEW r \in Runs, NEW g \in Stamped, Look(r, g), stamp'[f] # stamp[f] PROVE g = f
    BY <1>a, <2>4 DEF Look, Skip
  <2>5. QED BY <1>2, <2>1, <2>2, <2>3, <2>4, WhoChanges
<1>3. QED BY <1>1, <1>2

\* Structure, safe stamps and contexts hold at first.
LEMMA StructureInit == DistributionInit => Structure /\ StampsSafe /\ ContextsLeft
  BY DEF DistributionInit, NoVersions, Structure, RunShape, CopiedBeforeRecorded,
         NotNewerThanSource, FreshStart, Active, StampsSafe, Safe, ContextsLeft, Stamped

\* The inductive invariant behind the theorems about stamps.
StampInv == DistributionTypeOK /\ ContextsLeft /\ Structure /\ StampsSafe

\* The invariant behind the theorems about stamps is inductive.
LEMMA StampInvInductive ==
  /\ DistributionInit => StampInv
  /\ StampInv /\ [DistributionNext]_distVars => StampInv'
  BY InitTypeOK, StructureInit, NextTypeOK, NextContextsLeft, StructureNext, StampsSafeNext
     DEF StampInv

\* A recorded stamp stands for a file that was published in that version, is on its way
\* to the site, or is known as lost, for any number of runs, previews, faults and crashes.
THEOREM StampIsBacked == DistributionSpec => []StampBacked
<1>1. StampInv => StampBacked
  BY DEF StampInv, StampsSafe, StampBacked, Safe
<1>2. QED BY <1>1, StampInvInductive, PTL DEF DistributionSpec

-----------------------------------------------------------------------------
(* What a publication does for each of its files *)

\* A publication one context of which got to distribute the template is through with a
\* link of the template, or of its contexts.
Handled(r, f) ==
  /\ r \in spread
  /\ f \in ContextLinks => phase[r] # "template" /\ (phase[r] = "links" => f \notin todo[r])
  /\ f \notin ContextLinks => (phase[r] = "template" => f \notin todo[r])

\* How a publication can come to be through with a link: it was already, it left the link
\* out because of its stamp, or it has just copied it.
LEMMA HandledStep ==
  ASSUME DistributionTypeOK, Structure, [DistributionNext]_distVars,
         NEW q \in Runs, NEW f \in Stamped,
         kind'[q] = "publish", q \notin faulted', Handled(q, f)'
  PROVE  /\ ~Crash /\ kind[q] = "publish" /\ q \notin faulted
         /\ began'[q] = began[q] /\ forced'[q] = forced[q]
         /\ temp'[q][f] >= temp[q][f]
         /\ \/ Handled(q, f)
            \/ ~forced[q] /\ stamp[f] = source[f]
            \/ temp'[q][f] = source[f] /\ phase'[q] \in {"template", "links"}
<1> DEFINE Goal ==
      /\ kind[q] = "publish" /\ q \notin faulted
      /\ began'[q] = began[q] /\ forced'[q] = forced[q]
      /\ temp'[q][f] >= temp[q][f]
      /\ \/ Handled(q, f)
         \/ ~forced[q] /\ stamp[f] = source[f]
         \/ temp'[q][f] = source[f] /\ phase'[q] \in {"template", "links"}
<1>a. /\ phase \in [Runs -> Phases] /\ todo \in [Runs -> SUBSET Files]
      /\ temp \in [Runs -> [Files -> Version]] /\ source \in [Files -> 1..MaxVersion]
      /\ hand \in [Runs -> Files \union {NoFile}] /\ kind \in [Runs -> {"publish", "view"}]
      /\ spread \subseteq Runs /\ forced \in [Runs -> BOOLEAN]
      /\ began \in [Runs -> [Files -> Version]] /\ faulted \subseteq Runs
      /\ f \in Files /\ f # NoFile
  BY DEF DistributionTypeOK, Stamped
<1>b. temp[q][f] <= source[f] /\ temp[q][f] \in Nat /\ source[f] \in Nat
  BY <1>a DEF Structure, NotNewerThanSource, Version
<1>c. ~Active(q) => q \notin spread
  BY DEF Structure, FreshStart
<1>d. f \in TemplateLinks \union DirFiles \union ContextLinks BY DEF Stamped
<1> USE DEF Handled
<1>0. ~Crash
  <2> SUFFICES ASSUME Crash PROVE FALSE OBVIOUS
  <2>1. q \notin spread' BY <1>c DEF Crash, Forget
  <2>2. QED BY <2>1
<1>1. ASSUME NEW g \in Files, SaveSource(g) PROVE Goal
  BY <1>1, <1>a, <1>b DEF SaveSource, linkVars, indexVars, templateVars, runVars, faultVars
<1>2. ASSUME NEW r \in Runs, Begin(r) PROVE Goal
  <2>1. r # q BY <1>2, <1>a, <1>c DEF Begin, indexVars, templateVars, Active
  <2>2. /\ kind'[q] = kind[q] /\ forced'[q] = forced[q] /\ began'[q] = began[q]
        /\ phase'[q] = phase[q] /\ todo'[q] = todo[q] /\ faulted' = faulted
        /\ temp' = temp /\ spread' = spread
    BY <1>2, <1>a, <2>1 DEF Begin, linkVars, indexVars, templateVars, faultVars
  <2>3. QED BY <1>b, <2>2
<1>3. ASSUME NEW r \in Runs, NEW p \in Pages, PublishPage(r, p) PROVE Goal
  <2>1. temp'[q][f] = temp[q][f]
    <3>1. p # f /\ p \in Files BY <1>d
    <3>2. temp' \in {temp, [temp EXCEPT ![r][p] = source[p]]} \/ Leftover(r, p)
      BY <1>3 DEF PublishPage
    <3>3. QED BY <1>a, <3>1, <3>2, LeftoverTemp
  <2>2. f \in todo[q] => f \in todo'[q] BY <1>3, <1>a, <1>d DEF PublishPage
  <2>3. faulted \subseteq faulted' BY <1>3 DEF PublishPage, faultVars
  <2>4. UNCHANGED <<phase, kind, forced, began, spread>>
    BY <1>3 DEF PublishPage, templateVars, runVars
  <2>5. QED BY <1>b, <2>1, <2>2, <2>3, <2>4
<1>4. ASSUME NEW r \in Runs, PagesDone(r) PROVE Goal
  <2>1. UNCHANGED <<temp, kind, forced, began, faulted, spread>>
    BY <1>4 DEF PagesDone, indexVars, templateVars, runVars, faultVars
  <2>2. CASE r # q BY <1>4, <1>a, <1>b, <2>1, <2>2 DEF PagesDone
  <2>3. CASE r = q
    <3>1. phase[q] = "pages" BY <1>4, <2>3 DEF PagesDone
    <3>2. QED BY <1>b, <2>1, <3>1
  <2>4. QED BY <2>2, <2>3
<1>5. ASSUME NEW r \in Runs, Attachments(r) PROVE Goal
  <2>1. UNCHANGED <<temp, kind, forced, began, faulted>> BY <1>5 DEF Attachments, runVars
  <2>2. CASE r # q
    BY <1>5, <1>a, <1>b, <2>1, <2>2 DEF Attachments
  <2>3. CASE r = q
    <3>1. \/ phase'[q] = "template" /\ todo'[q] = TemplateLinks \union DirFiles
          \/ phase'[q] = "links" /\ todo'[q] = ContextLinks /\ spread' = spread
      BY <1>5, <1>a, <2>3 DEF Attachments
    <3>2. phase[q] = "attachments" BY <1>5, <2>3 DEF Attachments
    <3>3. QED BY <1>b, <1>d, <2>1, <3>1, <3>2
  <2>4. QED BY <2>2, <2>3
<1>6. ASSUME NEW r \in Runs, NEW g \in Stamped, Look(r, g) PROVE Goal
  <2>1. UNCHANGED <<temp, kind, forced, began, faulted, phase, spread>>
    BY <1>6 DEF Look, runVars, indexVars, templateVars, faultVars
  <2>2. CASE f \in todo[q] /\ f \notin todo'[q]
    <3>1. r = q /\ g = f /\ Skip(q, f)
      BY <1>6, <1>a, <2>2 DEF Look, Skip
    <3>2. ~forced[q] /\ stamp[f] = source[f]
      BY <1>6, <2>1, <2>2, <3>1 DEF Look, Modified
    <3>3. QED BY <1>b, <2>1, <3>2
  <2>3. CASE f \notin todo[q] \/ f \in todo'[q]
    BY <1>b, <2>1, <2>3
  <2>4. QED BY <2>2, <2>3
<1>7. ASSUME NEW r \in Runs, Copy(r) PROVE Goal
  <2>1. UNCHANGED <<kind, forced, began, faulted, phase, spread>>
    BY <1>7 DEF Copy, runVars, indexVars, templateVars, faultVars
  <2>2. temp'[q][f] = temp[q][f] \/ temp'[q][f] = source[f] BY <1>7, <1>a DEF Copy
  <2>3. CASE f \in todo[q] /\ f \notin todo'[q]
    <3>1. r = q /\ hand[q] = f BY <1>7, <1>a, <2>3 DEF Copy
    <3>2. temp'[q][f] = source[f] BY <1>7, <1>a, <2>1, <3>1 DEF Copy
    <3>3. phase'[q] \in {"template", "links"}
      BY <1>a, <2>1, <3>1 DEF Structure, RunShape
    <3>4. QED BY <1>b, <2>1, <3>2, <3>3
  <2>4. CASE f \notin todo[q] \/ f \in todo'[q]
    BY <1>b, <2>1, <2>2, <2>4
  <2>5. QED BY <2>3, <2>4
<1>8. ASSUME NEW r \in Runs, CopyFails(r) PROVE Goal
  <2>1. r # q /\ faulted \subseteq faulted' BY <1>8 DEF CopyFails
  <2>2. UNCHANGED <<kind, forced, began, phase, spread>> /\ todo'[q] = todo[q]
    BY <1>8, <1>a, <2>1 DEF CopyFails, runVars, indexVars, templateVars
  <2>3. hand[r] \in Files /\ Leftover(r, hand[r]) BY <1>8, <1>a DEF CopyFails
  <2>4. temp'[q][f] = temp[q][f] BY <1>a, <2>1, <2>3, LeftoverTemp
  <2>5. QED BY <1>b, <2>1, <2>2, <2>4
<1>9. ASSUME NEW r \in Runs, Finish(r) PROVE Goal
  BY <1>9, <1>b DEF Finish, indexVars, templateVars, runVars, faultVars
<1>10. ASSUME NEW r \in Runs, TemplateDone(r) PROVE Goal
  BY <1>10, <1>a, <1>b DEF TemplateDone, indexVars, templateVars, runVars, faultVars
<1>11. ASSUME NEW r \in Runs, ContextDone(r) PROVE Goal
  <2>1. UNCHANGED <<temp, kind, forced, began, faulted, spread, todo>>
    BY <1>11 DEF ContextDone, linkVars, indexVars, templateVars, runVars, faultVars
  <2>2. CASE r # q BY <1>11, <1>a, <1>b, <2>1, <2>2 DEF ContextDone
  <2>3. CASE r = q
    <3>1. phase[q] = "links" /\ todo[q] = {} BY <1>11, <2>3 DEF ContextDone
    <3>2. QED BY <1>b, <2>1, <3>1
  <2>4. QED BY <2>2, <2>3
<1>12. ASSUME NEW r \in Runs, Deployment(r) PROVE Goal
  <2>1. UNCHANGED <<temp, kind, forced, began, spread>> /\ faulted \subseteq faulted'
    BY <1>12 DEF Deployment, indexVars, templateVars, runVars, faultVars
  <2>2. CASE r # q BY <1>12, <1>a, <1>b, <2>1, <2>2 DEF Deployment
  <2>3. CASE r = q
    <3>1. phase[q] = "deploy" BY <1>12, <2>3 DEF Deployment
    <3>2. QED BY <1>b, <2>1, <3>1
  <2>4. QED BY <2>2, <2>3
<1>13. ASSUME NEW r \in Runs, NEW g \in Files, Move(r, g) PROVE Goal
  <2>1. UNCHANGED <<temp, kind, forced, began, spread, phase>> /\ faulted \subseteq faulted'
    BY <1>13 DEF Move, indexVars, templateVars, runVars, faultVars
  <2>2. phase[q] \in {"template", "links"} => todo'[q] = todo[q]
    BY <1>13, <1>a DEF Move
  <2>3. QED BY <1>b, <2>1, <2>2
<1>14. ASSUME NEW r \in Runs, MovesDone(r) PROVE Goal
  BY <1>14, <1>a, <1>b DEF MovesDone, linkVars, indexVars, templateVars, runVars, faultVars
<1>15. ASSUME NEW r \in Runs, DeleteTemp(r) PROVE Goal
  <2>1. r # q
    <3>1. SUFFICES ASSUME r = q PROVE FALSE OBVIOUS
    <3>2. q \notin spread' BY <1>15, <1>a, <3>1 DEF DeleteTemp, Forget
    <3>3. QED BY <3>2
  <2>2. /\ kind'[q] = kind[q] /\ forced'[q] = forced[q] /\ began'[q] = began[q]
        /\ phase'[q] = phase[q] /\ todo'[q] = todo[q] /\ faulted' = faulted \ {r}
        /\ temp'[q] = temp[q] /\ (q \in spread' => q \in spread)
    BY <1>15, <1>a, <2>1 DEF DeleteTemp, Forget
  <2>3. QED BY <1>b, <2>1, <2>2
<1>16. ASSUME UNCHANGED distVars PROVE Goal
  BY <1>16, <1>b DEF distVars, linkVars, indexVars, templateVars, runVars, faultVars
<1>17. ASSUME NEW r \in Runs, GeneratePage(r) PROVE Goal
  <2>1. UNCHANGED <<temp, kind, forced, began, faulted, spread>> /\ phase[r] = "page"
    BY <1>17 DEF GeneratePage, runVars, tempVars
  <2>2. r # q => phase'[q] = phase[q] /\ todo'[q] = todo[q]
    BY <1>17, <1>a DEF GeneratePage
  <2>3. QED BY <1>b, <2>1, <2>2
<1>18. Goal
  BY <1>0, <1>1, <1>2, <1>3, <1>4, <1>5, <1>6, <1>7, <1>8, <1>9, <1>10, <1>11, <1>12, <1>13,
     <1>14, <1>15, <1>16, <1>17 DEF DistributionNext, RunStep
<1>19. QED BY <1>0, <1>18

\* A publication without a failure of its own has seen to the links it is through with; a
\* forced one has copied them itself.
Effects ==
  \A r \in Runs : kind[r] = "publish" /\ r \notin faulted =>
    \A f \in Stamped : Handled(r, f) =>
      /\ Safe(f, began[r][f])
      /\ forced[r] => temp[r][f] >= began[r][f]

\* Every step keeps what the stages of a run have made safe of its links.
LEMMA EffectsNext ==
  ASSUME DistributionTypeOK, DistributionTypeOK', Structure, StampsSafe, Effects,
         [DistributionNext]_distVars
  PROVE  Effects'
<1> SUFFICES ASSUME NEW q \in Runs, NEW f \in Stamped,
                    kind'[q] = "publish", q \notin faulted', Handled(q, f)'
             PROVE  Safe(f, began[q][f])' /\ (forced'[q] => temp'[q][f] >= began'[q][f])
  BY DEF Effects
<1>1. /\ ~Crash /\ kind[q] = "publish" /\ q \notin faulted
      /\ began'[q] = began[q] /\ forced'[q] = forced[q] /\ temp'[q][f] >= temp[q][f]
      /\ \/ Handled(q, f)
         \/ ~forced[q] /\ stamp[f] = source[f]
         \/ temp'[q][f] = source[f] /\ phase'[q] \in {"template", "links"}
  BY HandledStep
<1>2. /\ temp[q][f] \in Nat /\ temp'[q][f] \in Nat /\ began[q][f] \in Version
      /\ source[f] \in Nat /\ began[q][f] <= source[f] /\ stamp[f] \in Version /\ f \in Files
  BY DEF DistributionTypeOK, Stamped, Version, Structure, NotNewerThanSource
<1>3. PICK v \in Version : v = began[q][f] BY <1>2
<1>4. Safe(f, v)' => Safe(f, began[q][f])' BY <1>1, <1>3 DEF Safe, OnItsWay, Carries, AboutToCopy
<1>5. CASE Handled(q, f)
  <2>1. Safe(f, v) /\ (forced[q] => temp[q][f] >= v)
    BY <1>1, <1>3, <1>5 DEF Effects
  <2>2. Safe(f, v)' BY <1>1, <2>1, SafeStable
  <2>3. QED BY <1>1, <1>2, <1>3, <1>4, <2>1, <2>2 DEF Version
<1>6. CASE ~forced[q] /\ stamp[f] = source[f]
  <2>1. PICK w \in Version : w = stamp[f] BY <1>2
  <2>2. Safe(f, w) BY <2>1 DEF StampsSafe
  <2>3. v <= w BY <1>2, <1>3, <1>6, <2>1
  <2>4. Safe(f, v) BY <1>2, <2>2, <2>3, SafeMonotone
  <2>5. Safe(f, v)' BY <1>1, <2>4, SafeStable
  <2>6. QED BY <1>1, <1>4, <1>6, <2>5
<1>7. CASE temp'[q][f] = source[f] /\ phase'[q] \in {"template", "links"}
  <2>1. temp'[q][f] >= began'[q][f] BY <1>1, <1>2, <1>7
  <2>2. Carries(q, f, began[q][f])' BY <1>7, <2>1 DEF Carries
  <2>3. Safe(f, began[q][f])' BY <2>2 DEF Safe, OnItsWay
  <2>4. QED BY <2>1, <2>3
<1>8. QED BY <1>1, <1>5, <1>6, <1>7

\* A context that has the links of the template goes through all pages.
GoneThrough(r, p) ==
  \/ r \in spread
  \/ /\ script[r] = "linked"
     /\ phase[r] = "attachments" \/ (phase[r] = "pages" /\ p \notin todo[r])

\* A publication has entered the pages it has gone through in its index, and without a
\* failure of its own it has generated them.
PageEffects ==
  \A r \in Runs, p \in Pages :
    /\ GoneThrough(r, p) => p \in pageIndex[r]
    /\ p \in pageIndex[r] /\ kind[r] = "publish" /\ r \notin faulted
         => temp[r][p] >= began[r][p]

\* Every step keeps what the stages of a run have made safe of its pages.
LEMMA PageEffectsNext ==
  ASSUME DistributionTypeOK, DistributionTypeOK', Structure, PageEffects,
         [DistributionNext]_distVars
  PROVE  PageEffects'
<1> DEFINE Entered(q, p) == GoneThrough(q, p) => p \in pageIndex[q]
           Generated(q, p) ==
             p \in pageIndex[q] /\ kind[q] = "publish" /\ q \notin faulted
               => temp[q][p] >= began[q][p]
           Goal(q, p) == Entered(q, p)' /\ Generated(q, p)'
<1> SUFFICES ASSUME NEW q \in Runs, NEW p \in Pages PROVE Goal(q, p)
  BY DEF PageEffects
<1>0. Entered(q, p) /\ Generated(q, p) BY DEF PageEffects
<1>a. /\ phase \in [Runs -> Phases] /\ todo \in [Runs -> SUBSET Files]
      /\ temp \in [Runs -> [Files -> Version]] /\ source \in [Files -> 1..MaxVersion]
      /\ began \in [Runs -> [Files -> Version]] /\ kind \in [Runs -> {"publish", "view"}]
      /\ pageIndex \in [Runs -> SUBSET Pages] /\ p \in Files /\ p \notin Stamped
  BY DEF DistributionTypeOK
<1>b. /\ temp[q][p] \in Nat /\ began[q][p] \in Nat /\ source[p] \in Nat
      /\ temp[q][p] <= source[p] /\ began[q][p] <= source[p]
  BY <1>a DEF Structure, NotNewerThanSource, Version
<1>c. script \in [Runs -> {"linked", "bare", "failed"}] /\ spread \subseteq Runs
  BY DEF DistributionTypeOK
<1> USE DEF GoneThrough
<1>1. ASSUME NEW f \in Files, SaveSource(f) PROVE Goal(q, p)
  BY <1>1, <1>0 DEF SaveSource, linkVars, indexVars, templateVars, runVars, faultVars
<1>2. ASSUME NEW r \in Runs, Begin(r) PROVE Goal(q, p)
  <2>1. CASE r = q
    <3>1. phase'[q] = "page" /\ spread' = spread
      BY <1>2, <1>a, <2>1 DEF Begin, indexVars, templateVars
    <3>2. pageIndex' = pageIndex /\ p \notin pageIndex[q] /\ q \notin spread
      BY <1>2, <2>1 DEF Begin, indexVars, Structure, FreshStart, Active
    <3>3. QED BY <3>1, <3>2
  <2>2. CASE r # q
    <3>1. /\ phase'[q] = phase[q] /\ todo'[q] = todo[q] /\ kind'[q] = kind[q]
          /\ began'[q] = began[q] /\ UNCHANGED <<pageIndex, faulted, temp, script, spread>>
      BY <1>2, <1>a, <2>2 DEF Begin, linkVars, indexVars, templateVars, faultVars
    <3>2. QED BY <1>0, <3>1
  <2>3. QED BY <2>1, <2>2
<1>3. ASSUME NEW r \in Runs, NEW g \in Pages, PublishPage(r, g) PROVE Goal(q, p)
  <2>1. /\ UNCHANGED <<phase, kind, began, script, spread>> /\ todo' = [todo EXCEPT ![r] = @ \ {g}]
        /\ faulted \subseteq faulted' /\ pageIndex[q] \subseteq pageIndex'[q]
    <3>1. UNCHANGED <<phase, kind, began, script, spread>> /\ todo' = [todo EXCEPT ![r] = @ \ {g}]
      BY ONLY <1>3 DEF PublishPage, templateVars, runVars
    <3>2. faulted \subseteq faulted'
      BY ONLY <1>3 DEF PublishPage, FaultOf, faultVars
    <3>3. pageIndex' = pageIndex \/ pageIndex' = [pageIndex EXCEPT ![r] = @ \union {g}]
      BY ONLY <1>3 DEF PublishPage
    <3>4. pageIndex[q] \subseteq pageIndex'[q] BY <1>a, <3>3
    <3>5. QED BY <3>1, <3>2, <3>4
  <2>2. q \notin faulted' => temp'[q][p] = temp[q][p] \/ temp'[q][p] = source[p]
    <3>1. g \in Files
          /\ (temp' \in {temp, [temp EXCEPT ![r][g] = source[g]]}
                \/ (Leftover(r, g) /\ r \in faulted'))
      BY <1>3 DEF PublishPage
    <3>2. CASE temp' \in {temp, [temp EXCEPT ![r][g] = source[g]]} BY <1>a, <3>1, <3>2
    <3>3. CASE Leftover(r, g) /\ r \in faulted' BY <1>a, <3>1, <3>3, LeftoverTemp
    <3>4. QED BY <3>1, <3>2, <3>3
  <2>3. CASE r = q /\ g = p
    <3>1. p \in pageIndex'[q] BY <1>3, <1>a, <2>3 DEF PublishPage, PageIsDue
    <3>2. CASE PageIsDue(q, p) /\ kind[q] = "publish" /\ q \notin faulted'
      BY <1>3, <1>a, <1>b, <2>1, <2>3, <3>1, <3>2 DEF PublishPage
    <3>3. CASE ~PageIsDue(q, p)
      BY <1>0, <1>b, <2>1, <2>2, <3>1, <3>3 DEF PageIsDue
    <3>4. CASE kind[q] # "publish" \/ q \in faulted'
      BY <2>1, <3>1, <3>4
    <3>5. QED BY <3>2, <3>3, <3>4
  <2>4. CASE ~(r = q /\ g = p)
    <3>1. p \in todo[q] => p \in todo'[q] BY <1>a, <2>1, <2>4
    <3>2. p \in pageIndex'[q] => p \in pageIndex[q] BY <1>3, <1>a, <2>4 DEF PublishPage
    <3>3. QED BY <1>0, <1>b, <2>1, <2>2, <3>1, <3>2
  <2>5. QED BY <2>3, <2>4
<1>4. ASSUME NEW r \in Runs, PagesDone(r) PROVE Goal(q, p)
  <2>1. UNCHANGED <<pageIndex, kind, faulted, temp, began, script, spread>>
    BY <1>4 DEF PagesDone, indexVars, templateVars, runVars, faultVars
  <2>2. GoneThrough(q, p)' => GoneThrough(q, p) BY <1>4, <1>a, <2>1 DEF PagesDone
  <2>3. QED BY <1>0, <2>1, <2>2
<1>5. ASSUME NEW r \in Runs, Attachments(r) PROVE Goal(q, p)
  <2>1. UNCHANGED <<pageIndex, kind, faulted, temp, began>> BY <1>5 DEF Attachments, runVars
  <2>2. GoneThrough(q, p)' => GoneThrough(q, p) BY <1>5, <1>a, <1>c DEF Attachments
  <2>3. QED BY <1>0, <2>1, <2>2
<1>6. ASSUME NEW r \in Runs, NEW f \in Stamped, Look(r, f) PROVE Goal(q, p)
  <2>1. UNCHANGED <<phase, pageIndex, kind, faulted, temp, began, script, spread>>
    BY <1>6 DEF Look, runVars, indexVars, templateVars, faultVars
  <2>2. p \in todo[q] => p \in todo'[q] BY <1>6, <1>a DEF Look, Skip
  <2>3. QED BY <1>0, <2>1, <2>2
<1>7. ASSUME NEW r \in Runs, Copy(r) PROVE Goal(q, p)
  <2>1. UNCHANGED <<phase, pageIndex, kind, faulted, began, script, spread>>
    BY <1>7 DEF Copy, runVars, indexVars, templateVars, faultVars
  <2>2. hand[r] \in Stamped BY <1>7 DEF Copy, Structure, RunShape
  <2>3. p \in todo[q] => p \in todo'[q] BY <1>7, <1>a, <2>2 DEF Copy
  <2>4. temp'[q][p] = temp[q][p] BY <1>7, <1>a, <2>2 DEF Copy
  <2>5. QED BY <1>0, <2>1, <2>3, <2>4
<1>8. ASSUME NEW r \in Runs, CopyFails(r) PROVE Goal(q, p)
  <2>1. UNCHANGED <<phase, pageIndex, kind, began, script, spread>> /\ faulted \subseteq faulted'
    BY <1>8 DEF CopyFails, runVars, indexVars, templateVars
  <2>2. hand[r] \in Stamped BY <1>8 DEF CopyFails, Structure, RunShape
  <2>3. p \in todo[q] => p \in todo'[q] BY <1>8, <1>a, <2>2 DEF CopyFails
  <2>4. hand[r] \in Files /\ hand[r] # p /\ Leftover(r, hand[r])
    BY <1>8, <1>a, <2>2 DEF CopyFails, Stamped
  <2>5. temp'[q][p] = temp[q][p] BY <1>a, <2>4, LeftoverTemp
  <2>6. QED BY <1>0, <2>1, <2>3, <2>5
<1>9. ASSUME NEW r \in Runs, Finish(r) PROVE Goal(q, p)
  BY <1>9, <1>0 DEF Finish, runVars, indexVars, templateVars, faultVars
<1>10. ASSUME NEW r \in Runs, TemplateDone(r) PROVE Goal(q, p)
  BY <1>10, <1>0, <1>a DEF TemplateDone, runVars, indexVars, templateVars, faultVars
<1>11. ASSUME NEW r \in Runs, ContextDone(r) PROVE Goal(q, p)
  <2>1. UNCHANGED <<pageIndex, kind, faulted, temp, began, script, spread>>
    BY <1>11 DEF ContextDone, indexVars, templateVars, runVars, faultVars
  <2>2. GoneThrough(q, p)' => GoneThrough(q, p) BY <1>11, <1>a, <2>1 DEF ContextDone, linkVars
  <2>3. QED BY <1>0, <2>1, <2>2
<1>12. ASSUME NEW r \in Runs, Deployment(r) PROVE Goal(q, p)
  <2>1. UNCHANGED <<pageIndex, kind, temp, began, script, spread>> /\ faulted \subseteq faulted'
    BY <1>12 DEF Deployment, runVars, indexVars, templateVars, faultVars
  <2>2. GoneThrough(q, p)' => GoneThrough(q, p) BY <1>12, <1>a, <2>1 DEF Deployment
  <2>3. QED BY <1>0, <2>1, <2>2
<1>13. ASSUME NEW r \in Runs, NEW f \in Files, Move(r, f) PROVE Goal(q, p)
  <2>1. UNCHANGED <<phase, pageIndex, kind, temp, began, script, spread>> /\ faulted \subseteq faulted'
    BY <1>13 DEF Move, runVars, indexVars, templateVars, faultVars
  <2>2. phase[q] = "pages" => todo'[q] = todo[q] BY <1>13, <1>a DEF Move
  <2>3. QED BY <1>0, <2>1, <2>2
<1>14. ASSUME NEW r \in Runs, MovesDone(r) PROVE Goal(q, p)
  BY <1>14, <1>0, <1>a DEF MovesDone, linkVars, runVars, indexVars, templateVars, faultVars
<1>15. ASSUME NEW r \in Runs, DeleteTemp(r) PROVE Goal(q, p)
  <2>1. CASE r = q
    <3>1. phase'[q] = "done" /\ pageIndex'[q] = {} /\ q \notin spread' BY <1>15, <1>a, <2>1 DEF DeleteTemp, Forget
    <3>2. QED BY <3>1
  <2>2. CASE r # q
    <3>1. /\ kind'[q] = kind[q] /\ began'[q] = began[q] /\ phase'[q] = phase[q]
          /\ todo'[q] = todo[q] /\ faulted' = faulted \ {r} /\ temp'[q] = temp[q]
          /\ pageIndex'[q] = pageIndex[q] /\ script'[q] = script[q]
          /\ q \in spread' => q \in spread
      BY <1>15, <1>a, <2>2 DEF DeleteTemp, Forget
    <3>2. QED BY <1>0, <2>2, <3>1
  <2>3. QED BY <2>1, <2>2
<1>16. ASSUME Crash PROVE Goal(q, p)
  <2>1. phase'[q] \in {"idle", "done", "dead"} /\ pageIndex'[q] = {} /\ q \notin spread'
    BY <1>16, <1>a DEF Crash, Forget, Structure, FreshStart, Active
  <2>2. QED BY <2>1
<1>17. ASSUME UNCHANGED distVars PROVE Goal(q, p)
  BY <1>17, <1>0 DEF distVars, linkVars, runVars, indexVars, templateVars, faultVars
<1>18. ASSUME NEW r \in Runs, GeneratePage(r) PROVE Goal(q, p)
  <2>1. UNCHANGED <<pageIndex, kind, faulted, temp, began, spread>>
    BY <1>18 DEF GeneratePage, runVars, tempVars
  <2>2. GoneThrough(q, p)' => GoneThrough(q, p)
    <3>1. CASE r # q
      <4>1. phase'[q] = phase[q] /\ todo'[q] = todo[q] /\ script'[q] = script[q]
        BY <1>18, <1>a, <1>c, <3>1 DEF GeneratePage
      <4>2. QED BY <2>1, <4>1
    <3>2. CASE r = q
      <4>1. phase'[q] = "pages" /\ (script'[q] = "linked" => todo'[q] = Pages)
        BY <1>18, <1>a, <1>c, <3>2 DEF GeneratePage
      <4>2. QED BY <2>1, <4>1
    <3>3. QED BY <3>1, <3>2
  <2>3. QED BY <1>0, <2>1, <2>2
<1>19. QED
  BY <1>1, <1>2, <1>3, <1>4, <1>5, <1>6, <1>7, <1>8, <1>9, <1>10, <1>11, <1>12, <1>13, <1>14,
     <1>15, <1>16, <1>17, <1>18 DEF DistributionNext, RunStep

\* What a publication without a failure of its own no longer has to move is on the site.
Moved ==
  \A r \in Runs : kind[r] = "publish" /\ r \notin faulted /\ phase[r] \in {"move", "ended"} =>
    \A f \in Files \ todo[r] : deployed[f] >= temp[r][f]

\* Every step keeps that what a run has moved is deployed.
LEMMA MovedNext ==
  ASSUME DistributionTypeOK, DistributionTypeOK', Structure, Moved, [DistributionNext]_distVars
  PROVE  Moved'
<1> SUFFICES ASSUME NEW q \in Runs, NEW f \in Files, kind'[q] = "publish", q \notin faulted',
                    phase'[q] \in {"move", "ended"}, f \notin todo'[q]
             PROVE  deployed'[f] >= temp'[q][f]
  BY DEF Moved
<1> DEFINE Before ==
      /\ kind[q] = "publish" /\ q \notin faulted /\ phase[q] \in {"move", "ended"}
      /\ f \notin todo[q] /\ temp'[q][f] = temp[q][f]
<1>a. /\ phase \in [Runs -> Phases] /\ todo \in [Runs -> SUBSET Files]
      /\ temp \in [Runs -> [Files -> Version]] /\ deployed \in [Files -> Version]
      /\ kind \in [Runs -> {"publish", "view"}]
      /\ deployed[f] \in Nat /\ deployed'[f] \in Nat /\ temp[q][f] \in Nat /\ temp'[q][f] \in Nat
  BY DEF DistributionTypeOK, Version
<1>b. Before => deployed'[f] >= temp'[q][f]
  <2> SUFFICES ASSUME Before PROVE deployed'[f] >= temp'[q][f] OBVIOUS
  <2>1. deployed[f] >= temp[q][f] BY DEF Moved
  <2>2. deployed'[f] >= deployed[f] BY DeployedGrows
  <2>3. QED BY <1>a, <2>1, <2>2
<1>1. ASSUME NEW r \in Runs, Begin(r) PROVE Before
  <2>1. r # q BY <1>1, <1>a DEF Begin
  <2>2. QED BY <1>1, <1>a, <2>1 DEF Begin, linkVars, faultVars
<1>2. ASSUME NEW r \in Runs, NEW p \in Pages, PublishPage(r, p) PROVE Before
  <2>1. phase' = phase /\ kind' = kind /\ faulted \subseteq faulted'
    BY <1>2 DEF PublishPage, runVars, faultVars
  <2>2. r # q BY <1>2, <2>1 DEF PublishPage
  <2>3. p \in Files /\ (temp' \in {temp, [temp EXCEPT ![r][p] = source[p]]} \/ Leftover(r, p))
    BY <1>2 DEF PublishPage
  <2>4. temp'[q][f] = temp[q][f] BY <1>a, <2>2, <2>3, LeftoverTemp
  <2>5. QED BY <1>2, <1>a, <2>1, <2>2, <2>4 DEF PublishPage
<1>3. ASSUME NEW r \in Runs,
             GeneratePage(r) \/ PagesDone(r) \/ Attachments(r) \/ TemplateDone(r)
      PROVE  Before
  <2>1. UNCHANGED <<kind, faulted, temp>>
    BY <1>3 DEF GeneratePage, PagesDone, Attachments, TemplateDone, runVars, faultVars
  <2>2. r # q /\ phase'[q] = phase[q] /\ todo'[q] = todo[q]
    BY <1>3, <1>a DEF GeneratePage, PagesDone, Attachments, TemplateDone
  <2>3. QED BY <2>1, <2>2
<1>4. ASSUME NEW r \in Runs, NEW g \in Stamped, Look(r, g) PROVE Before
  <2>1. UNCHANGED <<kind, faulted, temp, phase>> BY <1>4 DEF Look, runVars, faultVars
  <2>2. r # q BY <1>4, <2>1 DEF Look
  <2>3. QED BY <1>4, <1>a, <2>1, <2>2 DEF Look, Skip
<1>5. ASSUME NEW r \in Runs, Copy(r) \/ CopyFails(r) PROVE Before
  <2>1. UNCHANGED <<kind, phase>> /\ faulted \subseteq faulted'
    BY <1>5 DEF Copy, CopyFails, runVars, faultVars
  <2>2. phase[r] \in {"template", "links"} BY <1>5 DEF Copy, CopyFails, Structure, RunShape
  <2>3. r # q BY <2>1, <2>2
  <2>4. todo'[q] = todo[q] BY <1>5, <1>a, <2>3 DEF Copy, CopyFails
  <2>5. temp'[q][f] = temp[q][f]
    <3>1. CASE Copy(r) BY <1>a, <2>3, <3>1 DEF Copy
    <3>2. CASE CopyFails(r)
      <4>1. hand[r] \in Files /\ Leftover(r, hand[r]) BY <1>a, <3>2 DEF CopyFails
      <4>2. QED BY <1>a, <2>3, <4>1, LeftoverTemp
    <3>3. QED BY <1>5, <3>1, <3>2
  <2>6. QED BY <2>1, <2>4, <2>5
<1>6. ASSUME NEW r \in Runs, ContextDone(r) PROVE Before
  <2>1. r # q
    <3>1. SUFFICES ASSUME r = q PROVE FALSE OBVIOUS
    <3>2. kind' = kind BY <1>6 DEF ContextDone, runVars
    <3>3. phase'[q] \in {"page", "deploy"} BY <1>6, <1>a, <3>1, <3>2 DEF ContextDone
    <3>4. QED BY <3>3
  <2>2. QED BY <1>6, <1>a, <2>1 DEF ContextDone, linkVars, runVars, faultVars
<1>7. ASSUME NEW r \in Runs, Deployment(r) PROVE deployed'[f] >= temp'[q][f]
  <2>1. temp' = temp BY <1>7 DEF Deployment
  <2>2. CASE r = q
    <3>1. todo'[q] = Waiting(q) BY <1>7, <1>a, <2>2 DEF Deployment
    <3>2. ~(temp[q][f] > 0) BY <3>1 DEF Waiting
    <3>3. QED BY <1>a, <2>1, <3>2
  <2>3. CASE r # q
    <3>1. Before BY <1>7, <1>a, <2>1, <2>3 DEF Deployment, runVars, faultVars
    <3>2. QED BY <1>b, <3>1
  <2>4. QED BY <2>2, <2>3
<1>8. ASSUME NEW r \in Runs, NEW g \in Files, Move(r, g) PROVE deployed'[f] >= temp'[q][f]
  <2>1. UNCHANGED <<temp, kind, phase>> /\ faulted \subseteq faulted'
    BY <1>8 DEF Move, runVars, faultVars
  <2>2. CASE r = q /\ g = f
    BY <1>8, <1>a, <2>1, <2>2 DEF Move, Larger
  <2>3. CASE ~(r = q /\ g = f)
    <3>1. f \notin todo[q] BY <1>8, <1>a, <2>3 DEF Move
    <3>2. QED BY <1>b, <2>1, <3>1
  <2>4. QED BY <2>2, <2>3
<1>9. ASSUME NEW r \in Runs, MovesDone(r) PROVE Before
  BY <1>9, <1>a DEF MovesDone, linkVars, runVars, faultVars
<1>10. ASSUME NEW r \in Runs, DeleteTemp(r) PROVE Before
  <2>1. r # q BY <1>10, <1>a DEF DeleteTemp
  <2>2. QED BY <1>10, <1>a, <2>1 DEF DeleteTemp, Forget
<1>11. ~Crash
  <2> SUFFICES ASSUME Crash PROVE FALSE OBVIOUS
  <2>1. phase'[q] \in {"idle", "done", "dead"} BY <1>a DEF Crash, Active
  <2>2. QED BY <2>1
<1>12. ASSUME UNCHANGED distVars \/ (\E g \in Files : SaveSource(g))
              \/ (\E r \in Runs : Finish(r)) PROVE Before
  BY <1>12 DEF distVars, SaveSource, Finish, linkVars, runVars, faultVars
<1>13. QED
  BY <1>b, <1>1, <1>2, <1>3, <1>4, <1>5, <1>6, <1>7, <1>8, <1>9, <1>10, <1>11, <1>12
     DEF DistributionNext, RunStep

\* What has been promised is kept.
Kept ==
  /\ \A f \in Stamped : Safe(f, promised[f])
  /\ \A p \in Pages : deployed[p] >= promised[p]

\* A publication that ends without a failure of its own, and got as far as its template,
\* has seen to every file.
LEMMA EndedWell ==
  ASSUME DistributionTypeOK, Structure, Effects, PageEffects, Moved,
         NEW r \in Runs, phase[r] = "ended", kind[r] = "publish", r \in spread,
         r \notin faulted
  PROVE  /\ \A f \in Stamped : Safe(f, began[r][f])
         /\ \A f \in Stamped : forced[r] => deployed[f] >= began[r][f]
         /\ \A p \in Pages : deployed[p] >= began[r][p]
<1>a. /\ temp \in [Runs -> [Files -> Version]] /\ deployed \in [Files -> Version]
      /\ began \in [Runs -> [Files -> Version]] /\ todo \in [Runs -> SUBSET Files]
  BY DEF DistributionTypeOK
<1>1. \A f \in Stamped : Handled(r, f) BY DEF Handled
<1>2. todo[r] = {} BY DEF Structure, RunShape
<1>3. \A f \in Files : deployed[f] >= temp[r][f] BY <1>2 DEF Moved
<1>4. \A p \in Pages : temp[r][p] >= began[r][p] BY DEF PageEffects, GoneThrough
<1>5. \A f \in Stamped : Safe(f, began[r][f]) /\ (forced[r] => temp[r][f] >= began[r][f])
  BY <1>1 DEF Effects
<1>6. \A f \in Files : temp[r][f] >= began[r][f] => deployed[f] >= began[r][f]
  BY <1>a, <1>3 DEF Version
<1>7. QED BY <1>4, <1>5, <1>6 DEF Stamped

\* Every step keeps what a run has achieved when it ended.
LEMMA KeptNext ==
  ASSUME DistributionTypeOK, DistributionTypeOK', Structure, Effects, PageEffects, Moved, Kept,
         [DistributionNext]_distVars
  PROVE  Kept'
<1>a. /\ deployed \in [Files -> Version] /\ deployed' \in [Files -> Version]
      /\ promised \in [Files -> Version] /\ promised' \in [Files -> Version]
      /\ began \in [Runs -> [Files -> Version]] /\ Stamped \subseteq Files /\ Pages \subseteq Files
  BY DEF DistributionTypeOK, Stamped
<1>1. CASE Crash
  <2>1. \A f \in Files : promised'[f] = 0 BY <1>1 DEF Crash, NoVersions
  <2>2. \A f \in Files : deployed'[f] >= promised'[f] BY <1>a, <2>1 DEF Version
  <2>3. QED BY <1>a, <2>2 DEF Kept, Safe
<1>2. CASE ~Crash
  \* Each promise is an old one or that of a publication that is just ending.
  <2>1. \A f \in Files : \/ promised'[f] = promised[f]
                         \/ \E r \in Runs : /\ phase[r] = "ended" /\ kind[r] = "publish"
                                            /\ r \in spread /\ r \notin faulted
                                            /\ promised'[f] = began[r][f]
    <3>1. ASSUME NEW r \in Runs, DeleteTemp(r), NEW f \in Files
          PROVE  \/ promised'[f] = promised[f]
                 \/ /\ phase[r] = "ended" /\ kind[r] = "publish" /\ r \in spread
                    /\ r \notin faulted /\ promised'[f] = began[r][f]
      BY <1>a, <3>1 DEF DeleteTemp, Larger
    <3>2. promised' = promised \/ \E r \in Runs : DeleteTemp(r)
      BY <1>2, WhoChanges
    <3>3. QED BY <3>1, <3>2
  <2>2. ASSUME NEW f \in Stamped PROVE Safe(f, promised[f])'
    <3>1. PICK v \in Version : v = promised'[f] BY <1>a
    <3>2. Safe(f, v)
      <4>1. CASE promised'[f] = promised[f] BY <3>1, <4>1 DEF Kept
      <4>2. ASSUME NEW r \in Runs, phase[r] = "ended", kind[r] = "publish", r \in spread,
                   r \notin faulted, promised'[f] = began[r][f]
            PROVE  Safe(f, v)
        <5>1. Safe(f, began[r][f]) BY <4>2, EndedWell
        <5>2. QED BY <3>1, <4>2, <5>1
      <4>3. QED BY <1>a, <2>1, <4>1, <4>2
    <3>3. Safe(f, v)' BY <1>2, <3>2, SafeStable
    <3>4. QED BY <3>1, <3>3 DEF Safe, OnItsWay, Carries, AboutToCopy
  <2>3. ASSUME NEW p \in Pages PROVE deployed'[p] >= promised'[p]
    <3>1. deployed[p] >= promised'[p]
      <4>1. CASE promised'[p] = promised[p] BY <4>1 DEF Kept
      <4>2. ASSUME NEW r \in Runs, phase[r] = "ended", kind[r] = "publish", r \in spread,
                   r \notin faulted, promised'[p] = began[r][p]
            PROVE  deployed[p] >= promised'[p]
        <5>1. deployed[p] >= began[r][p] BY <4>2, EndedWell
        <5>2. QED BY <4>2, <5>1
      <4>3. QED BY <1>a, <2>1, <4>1, <4>2
    <3>2. deployed'[p] >= deployed[p] BY <1>a, DeployedGrows
    <3>3. QED BY <1>a, <3>1, <3>2 DEF Version
  <2>4. QED BY <2>2, <2>3 DEF Kept
<1>3. QED BY <1>1, <1>2

\* The inductive invariant behind the theorems about publications.
PublicationInv == StampInv /\ Effects /\ PageEffects /\ Moved /\ Kept

\* The invariant behind the theorems about publications is inductive.
LEMMA PublicationInvInductive ==
  /\ DistributionInit => PublicationInv
  /\ PublicationInv /\ [DistributionNext]_distVars => PublicationInv'
<1>1. DistributionInit => Effects /\ PageEffects /\ Moved /\ Kept
  BY DEF DistributionInit, NoVersions, Effects, PageEffects, Moved, Kept, Handled,
         GoneThrough, Safe, Stamped
<1>2. ASSUME PublicationInv, [DistributionNext]_distVars PROVE PublicationInv'
  <2>1. DistributionTypeOK /\ Structure /\ StampsSafe BY <1>2 DEF PublicationInv, StampInv
  <2>2. StampInv' BY <1>2, StampInvInductive DEF PublicationInv
  <2>3. DistributionTypeOK' BY <2>2 DEF StampInv
  <2>4. Effects' BY <1>2, <2>1, <2>3, EffectsNext DEF PublicationInv
  <2>5. PageEffects' BY <1>2, <2>1, <2>3, PageEffectsNext DEF PublicationInv
  <2>6. Moved' BY <1>2, <2>1, <2>3, MovedNext DEF PublicationInv
  <2>7. Kept' BY <1>2, <2>1, <2>3, KeptNext DEF PublicationInv
  <2>8. QED BY <2>2, <2>4, <2>5, <2>6, <2>7 DEF PublicationInv
<1>3. QED BY <1>1, <1>2, StampInvInductive DEF PublicationInv

\* A publication one context of which got to distribute the template, and without a failing
\* copy, page or move, has published every file it links to as it was when it began, or left
\* it to a run that is under way, or the file is known as lost - for any number of
\* publications, previews, contexts (those that fail included), files and faults.
THEOREM PublicationsTakeEffect == DistributionSpec => []PublicationTakesEffect
<1>1. PublicationInv => PublicationTakesEffect
  <2> SUFFICES ASSUME PublicationInv, NEW f \in Files \ lost
               PROVE  deployed[f] >= promised[f] \/ OnItsWay(f, promised[f])
    BY DEF PublicationTakesEffect
  <2>1. f \in Stamped \/ f \in Pages OBVIOUS
  <2>2. QED BY <2>1 DEF PublicationInv, Kept, Safe
<1>2. QED BY <1>1, PublicationInvInductive, PTL DEF DistributionSpec

\* A forced publication of that kind has published every file at least as it was when the
\* publication began, whatever stamps it found and whichever of its other contexts failed.
THEOREM ForcedRunsRepublish == DistributionSpec => []ForcedRunRepublishes
<1>1. PublicationInv => ForcedRunRepublishes
  <2> SUFFICES ASSUME PublicationInv, NEW r \in Runs, phase[r] = "ended", forced[r],
                      r \in spread, r \notin faulted, NEW f \in Files
               PROVE  deployed[f] >= began[r][f]
    BY DEF ForcedRunRepublishes
  <2>1. DistributionTypeOK /\ Structure /\ Effects /\ PageEffects /\ Moved
    BY DEF PublicationInv, StampInv
  <2>2. kind[r] = "publish" BY <2>1 DEF Structure, RunShape
  <2>3. f \in Stamped \/ f \in Pages OBVIOUS
  <2>4. QED BY <2>1, <2>2, <2>3, EndedWell
<1>2. QED BY <1>1, PublicationInvInductive, PTL DEF DistributionSpec

-----------------------------------------------------------------------------
(* One run at a time *)

OneActive == \A r, q \in Runs : Active(r) /\ Active(q) => r = q

\* Every step keeps that at most one run is active, if that is the bound.
LEMMA OneActiveNext ==
  ASSUME MaxActive = 1, IsFiniteSet(Runs), DistributionTypeOK, Structure, OneActive,
         [DistributionNext]_distVars
  PROVE  OneActive'
<1>a. phase \in [Runs -> Phases] BY DEF DistributionTypeOK
<1>1. ASSUME NEW r \in Runs, Begin(r) PROVE OneActive'
  <2> DEFINE Now == {q \in Runs : Active(q)}
  <2>1. Now = {}
    <3>1. IsFiniteSet(Now) BY FS_Subset
    <3>2. Cardinality(Now) \in Nat /\ Cardinality(Now) < 1
      BY <1>1, <3>1, FS_CardinalityType DEF Begin
    <3>3. Cardinality(Now) = 0 BY <3>2
    <3>4. QED BY <3>1, <3>3, FS_EmptySet
  <2>2. \A q \in Runs : ~Active(q) BY <2>1
  <2>3. \A q \in Runs \ {r} : phase'[q] = phase[q] BY <1>1, <1>a DEF Begin
  <2>4. \A q \in Runs \ {r} : ~Active(q)' BY <2>2, <2>3 DEF Active
  <2>5. QED BY <2>4 DEF OneActive
<1>2. ASSUME \A q \in Runs : Active(q)' => Active(q) PROVE OneActive'
  BY <1>2 DEF OneActive
<1>3. ASSUME NEW r \in Runs, RunStep(r) PROVE \A q \in Runs : Active(q)' => Active(q)
  <2>1. phase[r] # "idle" /\ phase[r] # "done" /\ phase[r] # "dead"
    <3>1. hand[r] # NoFile => phase[r] \in {"template", "links"} BY DEF Structure, RunShape
    <3>2. QED
      BY <1>3, <3>1 DEF RunStep, GeneratePage, PublishPage, PagesDone, Attachments, Look, Copy, CopyFails, Finish,
                        TemplateDone, ContextDone, Deployment, Move, MovesDone, DeleteTemp
  <2>2. \A q \in Runs \ {r} : phase'[q] = phase[q]
    BY <1>3, <1>a
       DEF RunStep, GeneratePage, PublishPage, PagesDone, Attachments, Look, Copy, CopyFails, Finish,
           TemplateDone, ContextDone, Deployment, Move, MovesDone, DeleteTemp
  <2>3. QED BY <2>1, <2>2 DEF Active
<1>4. ASSUME Crash PROVE \A q \in Runs : Active(q)' => Active(q)
  BY <1>4, <1>a DEF Crash, Active
<1>5. ASSUME UNCHANGED phase PROVE \A q \in Runs : Active(q)' => Active(q)
  BY <1>5 DEF Active
<1>6. QED
  BY <1>1, <1>2, <1>3, <1>4, <1>5 DEF DistributionNext, SaveSource, distVars

\* What waits in a temporary directory is not older than the published copy, only what is
\* there is moved, and what is broken there was hit by a failure.
NotOlder ==
  \A r \in Runs, f \in Files :
    /\ temp[r][f] > 0 => temp[r][f] >= live[f]
    /\ phase[r] = "move" /\ f \in todo[r] => temp[r][f] > 0 \/ f \in broken[r]
    /\ f \in broken[r] => f \in damaged

\* A temporary directory only changes by the copy of a file as it is now, by a copy that
\* fails, or is deleted.
LEMMA TempChanges ==
  ASSUME DistributionTypeOK, Structure, [DistributionNext]_distVars,
         NEW r \in Runs, NEW f \in Files
  PROVE  temp'[r][f] \in {temp[r][f], source[f], 0}
<1>a. temp \in [Runs -> [Files -> Version]] /\ hand \in [Runs -> Files \union {NoFile}]
  BY DEF DistributionTypeOK
<1>1. CASE temp' = temp BY <1>1
<1>2. ASSUME NEW q \in Runs, NEW g \in Files, temp' = [temp EXCEPT ![q][g] = source[g]]
      PROVE  temp'[r][f] \in {temp[r][f], source[f], 0}
  BY <1>2, <1>a
<1>3. ASSUME NEW R \in SUBSET Runs, Forget(R) PROVE temp'[r][f] \in {temp[r][f], source[f], 0}
  BY <1>3, <1>a DEF Forget, NoVersions
<1>4. ASSUME NEW q \in Runs, Copy(q) PROVE temp' = temp \/ \E g \in Files :
                                             temp' = [temp EXCEPT ![q][g] = source[g]]
  BY <1>4, <1>a DEF Copy
<1>5. ASSUME NEW q \in Runs, NEW p \in Pages, PublishPage(q, p)
      PROVE  temp' = temp \/ temp' = [temp EXCEPT ![q][p] = source[p]] \/ Leftover(q, p)
  BY <1>5 DEF PublishPage
<1>6. ASSUME Crash \/ \E q \in Runs : DeleteTemp(q) PROVE \E R \in SUBSET Runs : Forget(R)
  BY <1>6 DEF Crash, DeleteTemp
<1>7. \/ temp' = temp
      \/ Crash \/ (\E q \in Runs : DeleteTemp(q) \/ Copy(q) \/ CopyFails(q))
      \/ \E q \in Runs, p \in Pages : PublishPage(q, p)
  BY WhoChanges
<1>8. CASE \E q \in Runs : Copy(q) BY <1>1, <1>2, <1>4, <1>8
<1>9. CASE \E q \in Runs, p \in Pages : PublishPage(q, p)
  <2>1. PICK q \in Runs, p \in Pages : PublishPage(q, p) BY <1>9
  <2>2. p \in Files OBVIOUS
  <2>3. CASE Leftover(q, p) BY <2>2, <2>3, LeftoverTemp
  <2>4. QED BY <1>1, <1>2, <1>5, <2>1, <2>2, <2>3
<1>10. CASE Crash \/ \E q \in Runs : DeleteTemp(q)
  <2>1. PICK R \in SUBSET Runs : Forget(R) BY <1>6, <1>10
  <2>2. QED BY <1>3, <2>1
<1>11. CASE \E q \in Runs : CopyFails(q)
  <2>1. PICK q \in Runs : hand[q] \in Files /\ Leftover(q, hand[q]) BY <1>a, <1>11 DEF CopyFails
  <2>2. QED BY <2>1, LeftoverTemp
<1>12. QED BY <1>1, <1>7, <1>8, <1>9, <1>10, <1>11

\* A move lists what is there, and goes through the list.
LEMMA MoveListed ==
  ASSUME DistributionTypeOK, Structure, [DistributionNext]_distVars,
         NEW q \in Runs, NEW f \in Files, phase'[q] = "move", f \in todo'[q]
  PROVE  /\ temp'[q][f] = temp[q][f] /\ broken'[q] = broken[q]
         /\ temp[q][f] > 0 \/ f \in broken[q] \/ (phase[q] = "move" /\ f \in todo[q])
<1>a. /\ phase \in [Runs -> Phases] /\ todo \in [Runs -> SUBSET Files]
      /\ temp \in [Runs -> [Files -> Version]] /\ broken \in [Runs -> SUBSET Files]
      /\ hand \in [Runs -> Files \union {NoFile}] /\ kind \in [Runs -> {"publish", "view"}]
  BY DEF DistributionTypeOK
<1> DEFINE Goal ==
      /\ temp'[q][f] = temp[q][f] /\ broken'[q] = broken[q]
      /\ temp[q][f] > 0 \/ f \in broken[q] \/ (phase[q] = "move" /\ f \in todo[q])
<1>1. ASSUME NEW r \in Runs, r # q, RunStep(r) \/ Begin(r) PROVE Goal
  <2> DEFINE Same == /\ phase'[q] = phase[q] /\ todo'[q] = todo[q]
                     /\ temp'[q][f] = temp[q][f] /\ broken'[q] = broken[q]
  <2>1. ASSUME Begin(r) PROVE Same BY <1>1, <1>a, <2>1 DEF Begin, linkVars
  <2>2. ASSUME DeleteTemp(r) PROVE Same BY <1>1, <1>a, <2>2 DEF DeleteTemp, Forget
  <2>3. ASSUME NEW p \in Pages, PublishPage(r, p) PROVE Same
    <3>1. phase' = phase /\ todo'[q] = todo[q] /\ p \in Files BY <1>1, <1>a, <2>3 DEF PublishPage
    <3>2. \/ /\ broken' = broken
             /\ temp' = temp \/ temp' = [temp EXCEPT ![r][p] = source[p]]
          \/ Leftover(r, p)
      BY <2>3 DEF PublishPage
    <3>3. QED BY <1>1, <1>a, <3>1, <3>2, LeftoverTemp
  <2>4. ASSUME NEW g \in Stamped, Look(r, g) PROVE Same BY <1>1, <1>a, <2>4 DEF Look, Skip
  <2>5. ASSUME Attachments(r) \/ ContextDone(r) \/ TemplateDone(r) PROVE Same
    BY <1>1, <1>a, <2>5 DEF Attachments, ContextDone, TemplateDone, linkVars
  <2>6. ASSUME NEW g \in Files, Deployment(r) \/ Move(r, g) PROVE Same
    BY <1>1, <1>a, <2>6 DEF Deployment, Move
  <2>7. ASSUME Copy(r) \/ CopyFails(r) PROVE Same
    <3>1. phase' = phase /\ todo'[q] = todo[q] BY <1>1, <1>a, <2>7 DEF Copy, CopyFails
    <3>2. CASE Copy(r) BY <1>1, <1>a, <3>1, <3>2 DEF Copy
    <3>3. CASE CopyFails(r)
      <4>1. hand[r] \in Files /\ Leftover(r, hand[r]) BY <1>a, <3>3 DEF CopyFails
      <4>2. QED BY <1>1, <3>1, <4>1, LeftoverTemp
    <3>4. QED BY <2>7, <3>2, <3>3
  <2>8. ASSUME GeneratePage(r) \/ PagesDone(r) \/ Finish(r) \/ MovesDone(r) PROVE Same
    BY <1>1, <1>a, <2>8 DEF GeneratePage, PagesDone, Finish, MovesDone, linkVars
  <2>9. Same
    BY <1>1, <2>1, <2>2, <2>3, <2>4, <2>5, <2>6, <2>7, <2>8 DEF RunStep
  <2>10. QED BY <2>9
<1>2. ASSUME Deployment(q) PROVE Goal
  BY <1>2, <1>a DEF Deployment, Waiting
<1>3. ASSUME NEW g \in Files, Move(q, g) PROVE Goal
  BY <1>3, <1>a DEF Move
<1>4. ASSUME RunStep(q), ~Deployment(q), \A g \in Files : ~Move(q, g) PROVE FALSE
  <2>1. CASE phase'[q] = phase[q]
    <3>1. phase[q] = "move" BY <2>1
    <3>2. Copy(q) \/ CopyFails(q) \/ Finish(q)
      BY <1>4, <1>a, <2>1, <3>1
         DEF RunStep, GeneratePage, PublishPage, PagesDone, Attachments, Look, TemplateDone, ContextDone,
             MovesDone, DeleteTemp
    <3>3. hand[q] # NoFile BY <3>2 DEF Copy, CopyFails, Finish
    <3>4. QED BY <3>1, <3>3 DEF Structure, RunShape
  <2>2. CASE phase'[q] # phase[q]
    BY <1>4, <1>a, <2>2
       DEF RunStep, GeneratePage, PublishPage, PagesDone, Attachments, Look, Copy, CopyFails, Finish,
           TemplateDone, ContextDone, MovesDone, DeleteTemp
  <2>3. QED BY <2>1, <2>2
<1>5. ASSUME Begin(q) PROVE FALSE BY <1>5, <1>a DEF Begin
<1>6. ASSUME Crash PROVE FALSE
  <2>1. phase'[q] \in {"dead", "idle", "done"} BY <1>6, <1>a DEF Crash, Active
  <2>2. QED BY <2>1
<1>7. ASSUME UNCHANGED <<phase, todo, temp, broken>> PROVE Goal
  BY <1>7
<1>8. ASSUME NEW g \in Files, SaveSource(g) PROVE UNCHANGED <<phase, todo, temp, broken>>
  BY <1>8 DEF SaveSource, linkVars
<1>9. ASSUME UNCHANGED distVars PROVE UNCHANGED <<phase, todo, temp, broken>>
  BY <1>9 DEF distVars, linkVars
<1>10. QED
  BY <1>1, <1>2, <1>3, <1>4, <1>5, <1>6, <1>7, <1>8, <1>9 DEF DistributionNext

\* What is broken in a temporary directory was hit by a failure.
LEMMA BrokenIsDamaged ==
  ASSUME DistributionTypeOK, NotOlder, [DistributionNext]_distVars,
         NEW q \in Runs, NEW f \in Files, f \in broken'[q]
  PROVE  f \in damaged'
<1>a. broken \in [Runs -> SUBSET Files] BY DEF DistributionTypeOK
<1>b. f \in broken[q] => f \in damaged BY DEF NotOlder
<1>1. ASSUME NEW r \in Runs, NEW g, Leftover(r, g) PROVE f \in damaged'
  BY <1>1, <1>a, <1>b DEF Leftover
<1>2. ASSUME NEW R \in SUBSET Runs, Forget(R), damaged \subseteq damaged' PROVE f \in damaged'
  BY <1>2, <1>a, <1>b DEF Forget
<1>3. CASE broken' = broken /\ damaged \subseteq damaged' BY <1>3, <1>b
<1>4. ASSUME NEW r \in Runs, DeleteTemp(r) PROVE f \in damaged'
  BY <1>2, <1>4 DEF DeleteTemp
<1>5. ASSUME Crash PROVE f \in damaged' BY <1>2, <1>5 DEF Crash
<1>6. ASSUME NEW r \in Runs, NEW p \in Pages, PublishPage(r, p)
      PROVE  UNCHANGED <<broken, damaged>> \/ Leftover(r, p)
  BY <1>6 DEF PublishPage, faultVars
<1>7. ASSUME NEW r \in Runs, CopyFails(r) PROVE Leftover(r, hand[r])
  BY <1>7 DEF CopyFails
<1>8. ASSUME NEW r \in Runs, NEW g \in Files, Move(r, g)
      PROVE  broken' = broken /\ damaged \subseteq damaged'
  BY <1>8 DEF Move, faultVars
<1>9. QED
  BY <1>1, <1>3, <1>4, <1>5, <1>6, <1>7, <1>8, WhoChanges

\* Every step keeps that the active run carries nothing older than what is live.
LEMMA NotOlderNext ==
  ASSUME DistributionTypeOK, DistributionTypeOK', Structure, OneActive, NotOlder,
         [DistributionNext]_distVars
  PROVE  NotOlder'
<1> SUFFICES ASSUME NEW q \in Runs, NEW f \in Files
             PROVE  /\ temp'[q][f] > 0 => temp'[q][f] >= live'[f]
                    /\ phase'[q] = "move" /\ f \in todo'[q]
                         => temp'[q][f] > 0 \/ f \in broken'[q]
                    /\ f \in broken'[q] => f \in damaged'
  BY DEF NotOlder
<1>a. /\ temp \in [Runs -> [Files -> Version]] /\ live \in [Files -> Version]
      /\ temp'[q][f] \in Nat /\ source[f] \in Nat /\ live[f] \in Nat /\ live[f] <= source[f]
      /\ \A r \in Runs : temp[r][f] \in Nat
  <2>1. /\ temp \in [Runs -> [Files -> Version]] /\ live \in [Files -> Version]
        /\ source \in [Files -> 1..MaxVersion]
    BY DEF DistributionTypeOK
  <2>2. temp'[q][f] \in Version BY DEF DistributionTypeOK
  <2>3. live[f] <= source[f] BY DEF Structure, NotNewerThanSource
  <2>4. QED BY <2>1, <2>2, <2>3 DEF Version
<1>1. ASSUME phase'[q] = "move", f \in todo'[q] PROVE temp'[q][f] > 0 \/ f \in broken'[q]
  <2>1. /\ temp'[q][f] = temp[q][f] /\ broken'[q] = broken[q]
        /\ temp[q][f] > 0 \/ f \in broken[q] \/ (phase[q] = "move" /\ f \in todo[q])
    BY <1>1, MoveListed
  <2>2. QED BY <2>1 DEF NotOlder
<1>2. ASSUME temp'[q][f] > 0 PROVE temp'[q][f] >= live'[f]
  <2>1. CASE live' = live
    <3>1. temp'[q][f] \in {temp[q][f], source[f], 0} BY TempChanges
    <3>2. temp[q][f] > 0 => temp[q][f] >= live[f] BY DEF NotOlder
    <3>3. QED BY <1>a, <1>2, <2>1, <3>1, <3>2
  <2>2. ASSUME NEW r \in Runs, NEW g \in Files, Move(r, g) PROVE temp'[q][f] >= live'[f]
    <3>1. temp' = temp /\ Active(r) BY <2>2 DEF Move, Active
    <3>2. temp[q][f] > 0 BY <1>2, <3>1
    <3>3. Active(q) BY <3>2 DEF Structure, RunShape
    <3>4. r = q BY <3>1, <3>3 DEF OneActive
    <3>5. live'[f] = live[f] \/ live'[f] = temp[q][f] \/ live'[f] = 0
      BY <1>a, <2>2, <3>4 DEF Move
    <3>6. temp[q][f] >= live[f] BY <3>2 DEF NotOlder
    <3>7. QED BY <1>a, <3>1, <3>5, <3>6
  <2>3. CASE Crash
    <3>1. temp'[q][f] = temp[q][f] \/ temp'[q][f] = 0
      BY <1>a, <2>3 DEF Crash, Forget, NoVersions
    <3>2. live'[f] = live[f] \/ live'[f] = 0 BY <2>3 DEF Crash
    <3>3. temp[q][f] > 0 => temp[q][f] >= live[f] BY DEF NotOlder
    <3>4. QED BY <1>a, <1>2, <3>1, <3>2, <3>3
  <2>4. QED BY <2>1, <2>2, <2>3, WhoChanges
<1>3. QED BY <1>1, <1>2, BrokenIsDamaged

MirrorInv == StampInv /\ OneActive /\ NotOlder

\* A crash costs at most the file that the one move under way was copying.
LEMMA CrashFails ==
  ASSUME DistributionTypeOK, OneActive, Crash
  PROVE  Site!Fail
<1>1. PICK F \in Cut : LET D == {F[r] : r \in DOMAIN F} \ {NoFile} IN
        /\ damaged' = damaged \union D
        /\ live' = [f \in Files |-> IF f \in D THEN 0 ELSE live[f]]
  BY DEF Crash
<1> DEFINE D == {F[r] : r \in DOMAIN F} \ {NoFile}
<1>2. /\ damaged' = damaged \union D
      /\ live' = [f \in Files |-> IF f \in D THEN 0 ELSE live[f]]
  BY <1>1
<1>3. D \subseteq Files BY DEF Cut
<1>4. \A f, g \in D : f = g
  <2>1. \A r, q \in DOMAIN F : r = q BY DEF Cut, OneActive, Active
  <2>2. QED BY <2>1
<1>5. /\ faults + crashes \in Nat /\ faults' + crashes' = faults + crashes + 1
      /\ source' = source
  BY DEF Crash, DistributionTypeOK
<1>6. live \in [Files -> Version] BY DEF DistributionTypeOK
<1> HIDE DEF D
<1>7. CASE D = {}
  <2>1. damaged' = damaged /\ live' = live BY <1>2, <1>6, <1>7
  <2>2. QED BY <1>5, <2>1 DEF Site!Fail
<1>8. ASSUME NEW f \in D PROVE Site!Fail
  <2>1. D = {f} /\ f \in Files BY <1>3, <1>4, <1>8
  <2>2. damaged' = damaged \union {f} /\ live' = [live EXCEPT ![f] = 0] BY <1>2, <1>6, <2>1
  <2>3. QED BY <1>5, <2>1, <2>2 DEF Site!Fail
<1>9. QED BY <1>7, <1>8

\* Every step of the distribution is one of the mirror, or leaves it alone.
LEMMA StepOfMirror ==
  ASSUME DistributionTypeOK, Structure, OneActive, NotOlder, [DistributionNext]_distVars
  PROVE  [Site!MirrorNext]_Site!mirrorVars
<1> DEFINE Goal == [Site!MirrorNext]_Site!mirrorVars
<1>a. /\ faults \in Nat /\ crashes \in Nat /\ hand \in [Runs -> Files \union {NoFile}]
  BY DEF DistributionTypeOK
<1>b. ASSUME Site!Fail PROVE Goal BY <1>b DEF Site!MirrorNext
<1>c. ASSUME Fault, UNCHANGED <<source, crashes>>, NEW f \in Files,
             \/ UNCHANGED <<live, damaged>>
             \/ /\ damaged' = damaged \union {f}
                /\ live' = live \/ live' = [live EXCEPT ![f] = 0]
      PROVE  Goal
  <2>1. faults' + crashes' = faults + crashes + 1 BY <1>a, <1>c DEF Fault
  <2>2. Site!Fail BY <1>c, <2>1 DEF Site!Fail
  <2>3. QED BY <1>b, <2>2
<1>1. ASSUME NEW f \in Files, SaveSource(f) PROVE Goal
  <2>1. Site!Save(f) BY <1>1 DEF SaveSource, Site!Save, faultVars
  <2>2. QED BY <2>1 DEF Site!MirrorNext
<1>2. ASSUME UNCHANGED <<source, live, faults, crashes, damaged>> PROVE Goal
  BY <1>2 DEF Site!mirrorVars
<1>3. ASSUME NEW r \in Runs, NEW p \in Pages, PublishPage(r, p) PROVE Goal
  <2>1. UNCHANGED <<source, live, crashes>> /\ p \in Files BY <1>3 DEF PublishPage
  <2>2. UNCHANGED <<faults, damaged>> \/ (Fault /\ Leftover(r, p))
    BY <1>3 DEF PublishPage, faultVars
  <2>3. Leftover(r, p) => damaged' = damaged \/ damaged' = damaged \union {p} BY DEF Leftover
  <2>4. QED BY <1>2, <1>c, <2>1, <2>2, <2>3
<1>4. ASSUME NEW r \in Runs, CopyFails(r) PROVE Goal
  <2>1. UNCHANGED <<source, live, crashes>> /\ hand[r] \in Files /\ Fault
    BY <1>4, <1>a DEF CopyFails
  <2>2. damaged' = damaged \/ damaged' = damaged \union {hand[r]}
    BY <1>4 DEF CopyFails, Leftover
  <2>3. QED BY <1>c, <2>1, <2>2
<1>5. ASSUME NEW r \in Runs, GeneratePage(r) \/ Attachments(r) \/ Deployment(r) PROVE Goal
  <2>1. UNCHANGED <<source, live, crashes, damaged>> /\ (faults' = faults \/ Fault)
    BY <1>5 DEF GeneratePage, Attachments, Deployment, faultVars
  <2>2. ASSUME Fault PROVE Site!Fail
    <3>1. faults' + crashes' = faults + crashes + 1 BY <1>a, <2>1, <2>2 DEF Fault
    <3>2. QED BY <2>1, <3>1 DEF Site!Fail
  <2>3. QED BY <1>2, <1>b, <2>1, <2>2
<1>6. ASSUME NEW r \in Runs, NEW f \in Files, Move(r, f) PROVE Goal
  <2>1. UNCHANGED <<source, crashes>> /\ phase[r] = "move" /\ f \in todo[r]
    BY <1>6 DEF Move
  <2>2. \/ UNCHANGED <<faults, damaged>> /\ live' = [live EXCEPT ![f] = temp[r][f]]
        \/ /\ Fault /\ damaged' = damaged \union {f}
           /\ live' = live \/ live' = [live EXCEPT ![f] = 0]
    BY <1>6 DEF Move, faultVars
  <2>3. CASE UNCHANGED <<faults, damaged>> /\ live' = [live EXCEPT ![f] = temp[r][f]]
    <3>1. /\ temp[r][f] \in Nat /\ live[f] \in Nat /\ source[f] \in Nat
          /\ temp[r][f] <= source[f]
      BY DEF DistributionTypeOK, Version, Structure, NotNewerThanSource
    <3>2. CASE temp[r][f] > 0
      <4>1. temp[r][f] \in live[f]..source[f] BY <3>1, <3>2 DEF NotOlder
      <4>2. Site!Deploy(f) BY <2>1, <2>3, <4>1 DEF Site!Deploy
      <4>3. QED BY <4>2 DEF Site!MirrorNext
    <3>3. CASE ~(temp[r][f] > 0)
      <4>1. f \in damaged /\ temp[r][f] = 0 BY <2>1, <3>1, <3>3 DEF NotOlder
      <4>2. Site!Spoil(f) BY <2>1, <2>3, <4>1 DEF Site!Spoil
      <4>3. QED BY <4>2 DEF Site!MirrorNext
    <3>4. QED BY <3>2, <3>3
  <2>4. QED BY <1>c, <2>1, <2>2, <2>3
<1>7. ASSUME Crash PROVE Goal BY <1>7, <1>b, CrashFails
<1>8. ASSUME NEW r \in Runs,
             Begin(r) \/ PagesDone(r) \/ Copy(r) \/ Finish(r) \/ \E f \in Stamped : Look(r, f)
      PROVE  Goal
  <2>1. UNCHANGED <<source, live, faults, crashes, damaged>>
    BY ONLY <1>8 DEF Begin, PagesDone, Look, Copy, Finish, faultVars
  <2>2. QED BY <1>2, <2>1
<1>9. ASSUME NEW r \in Runs,
             TemplateDone(r) \/ ContextDone(r) \/ MovesDone(r) \/ DeleteTemp(r)
      PROVE  Goal
  <2>1. UNCHANGED <<source, live, faults, crashes, damaged>>
    BY ONLY <1>9 DEF TemplateDone, ContextDone, MovesDone, DeleteTemp, faultVars
  <2>2. QED BY <1>2, <2>1
<1>10. ASSUME UNCHANGED distVars PROVE Goal BY <1>2, <1>10 DEF distVars, faultVars
<1> HIDE DEF Goal
<1>11. ASSUME NEW r \in Runs, RunStep(r) PROVE Goal
  <2>1. CASE \E p \in Pages : PublishPage(r, p) BY ONLY <1>3, <2>1
  <2>2. CASE \E f \in Files : Move(r, f) BY ONLY <1>6, <2>2
  <2>3. CASE CopyFails(r) \/ GeneratePage(r) \/ Attachments(r) \/ Deployment(r)
    BY ONLY <1>4, <1>5, <2>3
  <2>4. CASE PagesDone(r) \/ Copy(r) \/ Finish(r) \/ \E f \in Stamped : Look(r, f)
    BY ONLY <1>8, <2>4
  <2>5. CASE TemplateDone(r) \/ ContextDone(r) \/ MovesDone(r) \/ DeleteTemp(r)
    BY ONLY <1>9, <2>5
  <2>6. QED BY ONLY <1>11, <2>1, <2>2, <2>3, <2>4, <2>5 DEF RunStep
<1>12. Goal
  <2>1. CASE \E f \in Files : SaveSource(f) BY ONLY <1>1, <2>1
  <2>2. CASE \E r \in Runs : Begin(r) \/ RunStep(r) BY ONLY <1>8, <1>11, <2>2
  <2>3. CASE DistributionNext BY ONLY <1>7, <2>1, <2>2, <2>3 DEF DistributionNext
  <2>4. QED BY <1>10, <2>3
<1>13. QED BY <1>12 DEF Goal

\* With one run at a time the published site moves only forward along its sources, whatever
\* the number of runs, files and faults: the distribution implements the mirror.
THEOREM SiteFollowsSources ==
  ASSUME MaxActive = 1, IsFiniteSet(Runs)
  PROVE  DistributionSpec => Mirrored
<1>1. DistributionInit => MirrorInv /\ Site!MirrorInit
  <2>1. DistributionInit => OneActive /\ NotOlder
    BY DEF DistributionInit, OneActive, Active, NotOlder, NoVersions
  <2>2. DistributionInit => Site!MirrorInit
    BY DEF DistributionInit, Site!MirrorInit, NoVersions
  <2>3. QED BY <2>1, <2>2, StampInvInductive DEF MirrorInv
<1>2. MirrorInv /\ [DistributionNext]_distVars => MirrorInv'
  <2> SUFFICES ASSUME MirrorInv, [DistributionNext]_distVars PROVE MirrorInv' OBVIOUS
  <2>1. DistributionTypeOK /\ Structure /\ OneActive /\ NotOlder BY DEF MirrorInv, StampInv
  <2>2. StampInv' BY StampInvInductive DEF MirrorInv
  <2>3. DistributionTypeOK' BY <2>2 DEF StampInv
  <2>4. OneActive' BY <2>1, OneActiveNext
  <2>5. NotOlder' BY <2>1, <2>3, NotOlderNext
  <2>6. QED BY <2>2, <2>4, <2>5 DEF MirrorInv
<1>3. MirrorInv /\ [DistributionNext]_distVars => [Site!MirrorNext]_Site!mirrorVars
  BY StepOfMirror DEF MirrorInv, StampInv
<1>4. QED BY <1>1, <1>2, <1>3, PTL DEF DistributionSpec, Mirrored, Site!MirrorSpec
=============================================================================
