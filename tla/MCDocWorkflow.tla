---------------------------- MODULE MCDocWorkflow ----------------------------
(* Instances of DocWorkflow for TLC. *)
EXTENDS DocWorkflow, TLC

\* The flow with an audit of cms-init-1.xml, but the transitions of the
\* statuses 12 and 20, which no document is given.
AuditFlow ==
  {<<"NEW", "UNAUDIT">>, <<"NEW", "RECYCLED">>, <<"NEW", "PREPUBLISH">>,
   <<"UNAUDIT", "AUDITED">>, <<"UNAUDIT", "ROLLBACK">>, <<"UNAUDIT", "NEW">>,
   <<"UNAUDIT", "RECYCLED">>,
   <<"AUDITED", "PREPUBLISH">>, <<"AUDITED", "UNAUDIT">>, <<"AUDITED", "PUBLISHED">>,
   <<"ROLLBACK", "UNAUDIT">>, <<"ROLLBACK", "RECYCLED">>,
   <<"PUBLISHED", "PUBLISHED">>, <<"PUBLISHED", "WITHDRAWPUBLISHED">>,
   <<"PUBLISHED", "ARCHIVED">>, <<"PUBLISHED", "RECYCLED">>,
   <<"WITHDRAWPUBLISHED", "PUBLISHED">>, <<"ARCHIVED", "RECYCLED">>,
   <<"PREPUBLISH", "PUBLISHED">>, <<"PREPUBLISH", "RECYCLED">>}

\* A flow that ends with the audit, small enough for two requests at once
AuditLoop ==
  {<<"NEW", "UNAUDIT">>, <<"UNAUDIT", "AUDITED">>, <<"UNAUDIT", "ROLLBACK">>,
   <<"UNAUDIT", "NEW">>, <<"ROLLBACK", "UNAUDIT">>}

AnyGroup == (SUBSET Users) \ {{}}
Everybody == {Users}
NoOthers == {}

WorkflowSymmetry == Permutations(Users) \union Permutations(Requests)
==============================================================================
