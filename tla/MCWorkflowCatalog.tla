------------------------- MODULE MCWorkflowCatalog -------------------------
(* A small instance of WorkflowCatalog: a walk by name and page numbers,   *)
(* and one by offsets without a limit, for some of the names and in the    *)
(* order a list has unless told otherwise.                                 *)
EXTENDS WorkflowCatalog

MCNames == {1, 2, 3}
MCRenames == {2}
MCDefinitions == [tenant : Tenants, name : Names] \cup [tenant : {NoTenant}, name : {1}]

MCLists ==
  {[search |-> MCNames, by |-> "name", order |-> "desc", paged |-> TRUE, size |-> 1],
   [search |-> {2, 3}, by |-> "created_at", order |-> "desc", paged |-> FALSE, size |-> 0]}
=============================================================================
