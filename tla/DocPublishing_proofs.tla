------------------------ MODULE DocPublishing_proofs ------------------------
(***************************************************************************)
(* Proofs about DocPublishing, for any number of documents, requests,      *)
(* operators and server stops: its types, that a document shown as         *)
(* published was published, that no row outlives a publication, and that   *)
(* a document published by one request alone can be restored.              *)
(***************************************************************************)
EXTENDS DocPublishing, TLAPS

USE DocAssumption

------------------------------------------------------------------------------
(* Types.  What is written into the tables was read before. *)

ContextHasRead == \A r \in Requests : context[r] # "none" => preStatus[r] \in Status

RecoveryHasRead ==
  \A op \in Operators :
    step[op] \in {"set", "delete"} =>
      target[op] \in Objects /\ restored[op] \in Status

DocTypeInv == DocTypeOK /\ ContextHasRead /\ RecoveryHasRead

\* Types and what a context has read hold at first.
LEMMA DocTypeInit == DocInit => DocTypeInv
  BY SMT DEF DocInit, DocTypeInv, DocTypeOK, ContextHasRead, RecoveryHasRead,
     LifecycleInit, LifecycleTypeOK, Phases, Status, FirstStatuses

\* A request moves: TaskLifecycle's actions keep its types.
LEMMA EngineKeepsTypes ==
  ASSUME NEW r \in Requests, LifecycleTypeOK,
         Accept(r) \/ Refuse(r) \/ Fail(r) \/ Start(r) \/ Finish(r)
  PROVE  LifecycleTypeOK' /\ objectId' = objectId
  BY SMT DEF Accept, Refuse, Fail, Start, Finish, Move, LifecycleTypeOK, Phases

\* Every step keeps the types and what a context has read.
LEMMA DocTypeStep == DocTypeInv /\ [DocNext]_docVars => DocTypeInv'
<1> SUFFICES ASSUME DocTypeInv, [DocNext]_docVars
             PROVE  DocTypeInv'
  OBVIOUS
<1> USE DEF DocTypeInv, DocTypeOK, ContextHasRead, RecoveryHasRead, tableVars,
     requestVars, operatorVars, docHistory
<1>1. CASE UNCHANGED docVars
  BY <1>1, SMT DEF docVars, LifecycleTypeOK
<1>2. ASSUME NEW r \in Requests, ReadStatus(r)
      PROVE  DocTypeInv'
  BY <1>2, SMT DEF ReadStatus, LifecycleTypeOK
<1>3. ASSUME NEW r \in Requests, MarkPublishing(r)
      PROVE  DocTypeInv'
  BY <1>3, SMT DEF MarkPublishing, LifecycleTypeOK, Status
<1>4. ASSUME NEW r \in Requests, ContextFails(r)
      PROVE  DocTypeInv'
  <2>1. LifecycleTypeOK'
    BY <1>4, EngineKeepsTypes DEF ContextFails
  <2> QED BY <1>4, <2>1, SMT DEF ContextFails
<1>5. ASSUME NEW r \in Requests, EngineTakes(r)
      PROVE  DocTypeInv'
  <2>1. LifecycleTypeOK'
    BY <1>5, EngineKeepsTypes DEF EngineTakes
  <2> QED BY <1>5, <2>1, SMT DEF EngineTakes
<1>6. ASSUME NEW r \in Requests, After(r)
      PROVE  DocTypeInv'
  BY <1>6, SMT DEF After, LifecycleTypeOK, Status, FirstStatuses
<1>7. ASSUME NEW r \in Requests, AfterFails(r)
      PROVE  DocTypeInv'
  BY <1>7, SMT DEF AfterFails, LifecycleTypeOK
<1>8. ASSUME NEW r \in Requests, EndOfRun(r)
      PROVE  DocTypeInv'
  <2>1. LifecycleTypeOK'
    BY <1>8, EngineKeepsTypes DEF EndOfRun
  <2> QED BY <1>8, <2>1, SMT DEF EndOfRun
<1>9. ASSUME NEW op \in Operators, ListPublishing(op)
      PROVE  DocTypeInv'
  BY <1>9, SMT DEF ListPublishing, LifecycleTypeOK
<1>10. ASSUME NEW op \in Operators, NEW d \in Objects, RecoverDoc(op, d)
       PROVE  DocTypeInv'
  BY <1>10, SMT DEF RecoverDoc, LifecycleTypeOK, Status
<1>11. ASSUME NEW op \in Operators, SetOldStatus(op)
       PROVE  DocTypeInv'
  BY <1>11, SMT DEF SetOldStatus, LifecycleTypeOK
<1>12. ASSUME NEW op \in Operators, DeleteOldStatus(op)
       PROVE  DocTypeInv'
  BY <1>12, SMT DEF DeleteOldStatus, LifecycleTypeOK
<1>13. ASSUME NEW op \in Operators, RecoverAll(op)
       PROVE  DocTypeInv'
  BY <1>13, SMT DEF RecoverAll, LifecycleTypeOK
<1>14. ASSUME NEW op \in Operators, DeleteAllOldStatus(op)
       PROVE  DocTypeInv'
  BY <1>14, SMT DEF DeleteAllOldStatus, LifecycleTypeOK
<1>15. ASSUME NEW op \in Operators, RecoveryFails(op)
       PROVE  DocTypeInv'
  BY <1>15, SMT DEF RecoveryFails, LifecycleTypeOK
<1>16. CASE Crash
  BY <1>16, SMT DEF Crash, LifecycleTypeOK, Phases
<1> QED BY <1>1, <1>2, <1>3, <1>4, <1>5, <1>6, <1>7, <1>8, <1>9, <1>10, <1>11,
         <1>12, <1>13, <1>14, <1>15, <1>16 DEF DocNext

\* They hold always.
LEMMA DocTypeInvariant == DocSpec => []DocTypeInv
  BY DocTypeInit, DocTypeStep, PTL DEF DocSpec

\* Statuses, rows, contexts and recoveries keep their types: in particular no
\* status that was never read is written into the tables.
THEOREM DocTypeCorrect == DocSpec => []DocTypeOK
<1>1. DocTypeInv => DocTypeOK
  BY DEF DocTypeInv
<1> QED BY <1>1, DocTypeInvariant, PTL
------------------------------------------------------------------------------
(* A document shown as published was published. *)

\* "PUBLISHED" may be shown for d.
MayShow(d, s) == s = "PUBLISHED" => d \in completed \/ first[d] = "PUBLISHED"

\* Wherever a status waits to be written back, it may be shown.
SourcesTrue ==
  /\ \A d \in Objects : MayShow(d, docStatus[d]) /\ MayShow(d, oldStatus[d])
  /\ \A r \in Requests : context[r] # "none" => MayShow(objectId[r], preStatus[r])
  /\ \A op \in Operators :
       step[op] \in {"set", "delete"} => MayShow(target[op], restored[op])

\* Every step keeps that a status waiting to be written back may be shown.
LEMMA SourcesStep ==
  DocTypeInv /\ SourcesTrue /\ [DocNext]_docVars => SourcesTrue'
<1> SUFFICES ASSUME DocTypeInv, SourcesTrue, [DocNext]_docVars
             PROVE  SourcesTrue'
  OBVIOUS
<1> USE DEF DocTypeInv, DocTypeOK, LifecycleTypeOK, ContextHasRead, RecoveryHasRead,
     SourcesTrue, MayShow, Status, FirstStatuses, tableVars, requestVars,
     operatorVars, docHistory
<1>1. CASE UNCHANGED docVars
  BY <1>1, SMT DEF docVars
<1>2. ASSUME NEW r \in Requests, ReadStatus(r)
      PROVE  SourcesTrue'
  BY <1>2, SMT DEF ReadStatus
<1>3. ASSUME NEW r \in Requests, MarkPublishing(r)
      PROVE  SourcesTrue'
  BY <1>3, SMT DEF MarkPublishing
<1>4. ASSUME NEW r \in Requests, ContextFails(r)
      PROVE  SourcesTrue'
  BY <1>4, SMT DEF ContextFails, Accept, Refuse, Fail, Start, Finish, Move
<1>5. ASSUME NEW r \in Requests, EngineTakes(r)
      PROVE  SourcesTrue'
  BY <1>5, SMT DEF EngineTakes, Accept, Refuse, Fail, Start, Finish, Move
<1>6. ASSUME NEW r \in Requests, After(r)
      PROVE  SourcesTrue'
  BY <1>6, SMT DEF After
<1>7. ASSUME NEW r \in Requests, AfterFails(r)
      PROVE  SourcesTrue'
  BY <1>7, SMT DEF AfterFails
<1>8. ASSUME NEW r \in Requests, EndOfRun(r)
      PROVE  SourcesTrue'
  BY <1>8, SMT DEF EndOfRun, Accept, Refuse, Fail, Start, Finish, Move
<1>9. ASSUME NEW op \in Operators, ListPublishing(op)
      PROVE  SourcesTrue'
  BY <1>9, SMT DEF ListPublishing
<1>10. ASSUME NEW op \in Operators, NEW d \in Objects, RecoverDoc(op, d)
       PROVE  SourcesTrue'
  BY <1>10, SMT DEF RecoverDoc
<1>11. ASSUME NEW op \in Operators, SetOldStatus(op)
       PROVE  SourcesTrue'
  BY <1>11, SMT DEF SetOldStatus
<1>12. ASSUME NEW op \in Operators, DeleteOldStatus(op)
       PROVE  SourcesTrue'
  BY <1>12, SMT DEF DeleteOldStatus
<1>13. ASSUME NEW op \in Operators, RecoverAll(op)
       PROVE  SourcesTrue'
  BY <1>13, SMT DEF RecoverAll
<1>14. ASSUME NEW op \in Operators, DeleteAllOldStatus(op)
       PROVE  SourcesTrue'
  BY <1>14, SMT DEF DeleteAllOldStatus
<1>15. ASSUME NEW op \in Operators, RecoveryFails(op)
       PROVE  SourcesTrue'
  BY <1>15, SMT DEF RecoveryFails
<1>16. CASE Crash
  BY <1>16, SMT DEF Crash
<1> QED BY <1>1, <1>2, <1>3, <1>4, <1>5, <1>6, <1>7, <1>8, <1>9, <1>10, <1>11, <1>12, <1>13, <1>14, <1>15, <1>16 DEF DocNext

\* A document is shown as published only if a run of it was completed, or it was
\* published at the start.
THEOREM PublishedIsShownTruly == DocSpec => []PublishedIsTrue
<1>1. DocInit => SourcesTrue
  BY SMT DEF DocInit, SourcesTrue, MayShow, Status, FirstStatuses
<1>2. SourcesTrue => PublishedIsTrue
  BY DEF SourcesTrue, MayShow, PublishedIsTrue
<1> QED BY <1>1, <1>2, SourcesStep, DocTypeInvariant, PTL DEF DocSpec
------------------------------------------------------------------------------
(* No row outlives a publication or a recovery. *)

\* Every step keeps that a row belongs to a document being published.
LEMMA RowStep ==
  DocTypeInv /\ RowMeansPublishing /\ [DocNext]_docVars => RowMeansPublishing'
<1> SUFFICES ASSUME DocTypeInv, RowMeansPublishing, [DocNext]_docVars
             PROVE  RowMeansPublishing'
  OBVIOUS
<1> USE DEF DocTypeInv, DocTypeOK, LifecycleTypeOK, ContextHasRead, RecoveryHasRead,
     RowMeansPublishing, tableVars, requestVars, operatorVars, docHistory
<1>1. CASE UNCHANGED docVars
  BY <1>1, SMT DEF docVars
<1>2. ASSUME NEW r \in Requests, ReadStatus(r)
      PROVE  RowMeansPublishing'
  BY <1>2, SMT DEF ReadStatus
<1>3. ASSUME NEW r \in Requests, MarkPublishing(r)
      PROVE  RowMeansPublishing'
  BY <1>3, SMT DEF MarkPublishing
<1>4. ASSUME NEW r \in Requests, ContextFails(r)
      PROVE  RowMeansPublishing'
  BY <1>4, SMT DEF ContextFails, Accept, Refuse, Fail, Start, Finish, Move
<1>5. ASSUME NEW r \in Requests, EngineTakes(r)
      PROVE  RowMeansPublishing'
  BY <1>5, SMT DEF EngineTakes, Accept, Refuse, Fail, Start, Finish, Move
<1>6. ASSUME NEW r \in Requests, After(r)
      PROVE  RowMeansPublishing'
  BY <1>6, SMT DEF After
<1>7. ASSUME NEW r \in Requests, AfterFails(r)
      PROVE  RowMeansPublishing'
  BY <1>7, SMT DEF AfterFails
<1>8. ASSUME NEW r \in Requests, EndOfRun(r)
      PROVE  RowMeansPublishing'
  BY <1>8, SMT DEF EndOfRun, Accept, Refuse, Fail, Start, Finish, Move
<1>9. ASSUME NEW op \in Operators, ListPublishing(op)
      PROVE  RowMeansPublishing'
  BY <1>9, SMT DEF ListPublishing
<1>10. ASSUME NEW op \in Operators, NEW d \in Objects, RecoverDoc(op, d)
       PROVE  RowMeansPublishing'
  BY <1>10, SMT DEF RecoverDoc
<1>11. ASSUME NEW op \in Operators, SetOldStatus(op)
       PROVE  RowMeansPublishing'
  BY <1>11, SMT DEF SetOldStatus
<1>12. ASSUME NEW op \in Operators, DeleteOldStatus(op)
       PROVE  RowMeansPublishing'
  BY <1>12, SMT DEF DeleteOldStatus
<1>13. ASSUME NEW op \in Operators, RecoverAll(op)
       PROVE  RowMeansPublishing'
  BY <1>13, SMT DEF RecoverAll
<1>14. ASSUME NEW op \in Operators, DeleteAllOldStatus(op)
       PROVE  RowMeansPublishing'
  BY <1>14, SMT DEF DeleteAllOldStatus
<1>15. ASSUME NEW op \in Operators, RecoveryFails(op)
       PROVE  RowMeansPublishing'
  BY <1>15, SMT DEF RecoveryFails
<1>16. CASE Crash
  BY <1>16, SMT DEF Crash
<1> QED BY <1>1, <1>2, <1>3, <1>4, <1>5, <1>6, <1>7, <1>8, <1>9, <1>10, <1>11, <1>12, <1>13, <1>14, <1>15, <1>16 DEF DocNext

\* While the server runs and no statement fails, a document with a row is being
\* published or an operator is about to delete the row.
THEOREM RowsAreAccountedFor == DocSpec => []RowMeansPublishing
<1>1. DocInit => RowMeansPublishing
  BY SMT DEF DocInit, RowMeansPublishing
<1> QED BY <1>1, RowStep, DocTypeInvariant, PTL DEF DocSpec
------------------------------------------------------------------------------
(* A document that one request publishes can be restored. *)

\* An operator who is restoring a document has touched it.
BusyIsTouched ==
  \A op \in Operators : step[op] \in {"set", "delete"} => target[op] \in touched

\* What a request that is alone with its document finds and leaves there, by how
\* far its context is.
AloneByContext ==
  \A r \in Requests :
    LET d == objectId[r] IN
    Alone(r) /\ d \notin touched \union faulted =>
      /\ context[r] \in {"none", "read"} => docStatus[d] = first[d] /\ oldStatus[d] = None
      /\ context[r] \in {"read", "built"} => preStatus[r] = first[d]
      /\ context[r] = "built" => docStatus[d] = "PUBLISHING" /\ oldStatus[d] = first[d]
      /\ context[r] = "closed" =>
           \/ docStatus[d] \in {first[d], "PUBLISHED"} /\ oldStatus[d] = None
           \/ docStatus[d] = "PUBLISHING" /\ oldStatus[d] = first[d]

AloneInv == BusyIsTouched /\ AloneByContext

\* Every step keeps what the tables hold at each stage of the only context.
LEMMA AloneStep == DocTypeInv /\ AloneInv /\ [DocNext]_docVars => AloneInv'
<1> SUFFICES ASSUME DocTypeInv, AloneInv, [DocNext]_docVars
             PROVE  AloneInv'
  OBVIOUS
<1> USE DEF DocTypeInv, DocTypeOK, LifecycleTypeOK, ContextHasRead, RecoveryHasRead,
     AloneInv, BusyIsTouched, AloneByContext, Alone, tableVars, requestVars,
     operatorVars, docHistory
<1>1. CASE UNCHANGED docVars
  BY <1>1, SMT DEF docVars
<1>2. ASSUME NEW r \in Requests, ReadStatus(r)
      PROVE  AloneInv'
  BY <1>2, SMT DEF ReadStatus
<1>3. ASSUME NEW r \in Requests, MarkPublishing(r)
      PROVE  AloneInv'
  BY <1>3, SMT DEF MarkPublishing
<1>4. ASSUME NEW r \in Requests, ContextFails(r)
      PROVE  AloneInv'
  BY <1>4, SMT DEF ContextFails, Accept, Refuse, Fail, Start, Finish, Move
<1>5. ASSUME NEW r \in Requests, EngineTakes(r)
      PROVE  AloneInv'
  BY <1>5, SMT DEF EngineTakes, Accept, Refuse, Fail, Start, Finish, Move
<1>6. ASSUME NEW r \in Requests, After(r)
      PROVE  AloneInv'
  BY <1>6, SMT DEF After
<1>7. ASSUME NEW r \in Requests, AfterFails(r)
      PROVE  AloneInv'
  BY <1>7, SMT DEF AfterFails
<1>8. ASSUME NEW r \in Requests, EndOfRun(r)
      PROVE  AloneInv'
  BY <1>8, SMT DEF EndOfRun, Accept, Refuse, Fail, Start, Finish, Move
<1>9. ASSUME NEW op \in Operators, ListPublishing(op)
      PROVE  AloneInv'
  BY <1>9, SMT DEF ListPublishing
<1>10. ASSUME NEW op \in Operators, NEW d \in Objects, RecoverDoc(op, d)
       PROVE  AloneInv'
  BY <1>10, SMT DEF RecoverDoc
<1>11. ASSUME NEW op \in Operators, SetOldStatus(op)
       PROVE  AloneInv'
  BY <1>11, SMT DEF SetOldStatus
<1>12. ASSUME NEW op \in Operators, DeleteOldStatus(op)
       PROVE  AloneInv'
  BY <1>12, SMT DEF DeleteOldStatus
<1>13. ASSUME NEW op \in Operators, RecoverAll(op)
       PROVE  AloneInv'
  BY <1>13, SMT DEF RecoverAll
<1>14. ASSUME NEW op \in Operators, DeleteAllOldStatus(op)
       PROVE  AloneInv'
  BY <1>14, SMT DEF DeleteAllOldStatus
<1>15. ASSUME NEW op \in Operators, RecoveryFails(op)
       PROVE  AloneInv'
  BY <1>15, SMT DEF RecoveryFails
<1>16. CASE Crash
  BY <1>16, SMT DEF Crash
<1> QED BY <1>1, <1>2, <1>3, <1>4, <1>5, <1>6, <1>7, <1>8, <1>9, <1>10, <1>11, <1>12, <1>13, <1>14, <1>15, <1>16 DEF DocNext

\* A document that one request publishes, and no operator touches, is in its
\* first status or published without a row, or marked with its first status in
\* the row, unless a statement about it failed.
THEOREM AloneCanBeRestored == DocSpec => []AloneIsRecoverable
<1>1. DocInit => AloneInv
  BY SMT DEF DocInit, LifecycleInit, AloneInv, BusyIsTouched, AloneByContext
<1>2. DocTypeInv /\ AloneInv => AloneIsRecoverable
  BY SMT DEF DocTypeInv, DocTypeOK, AloneInv, AloneByContext, AloneIsRecoverable
<1> QED BY <1>1, <1>2, AloneStep, DocTypeInvariant, PTL DEF DocSpec
=============================================================================
