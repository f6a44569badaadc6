-------------------------- MODULE WorkflowCatalog --------------------------
(***************************************************************************)
(* The workflow definitions the API keeps (api/internal/services,          *)
(* api/internal/adapters, shared/pkg/storage): their creation, the         *)
(* requests that look one up to update, delete or execute it, and the      *)
(* paged list of a tenant's workflows, which scans the whole store anew    *)
(* for every page.  Clients walk through the pages while others create     *)
(* workflows.                                                              *)
(*                                                                         *)
(* A workflow that is created for a tenant is stored under a key with the  *)
(* tenant, one without a tenant under a plain key.  Executing looks it up  *)
(* under the tenant's key, updating and deleting under the plain one.      *)
(***************************************************************************)
EXTENDS Naturals, FiniteSets

CONSTANTS
  Names,        \* names of workflows, in their order
  Tenants,      \* tenants of the API's routes
  NoTenant,     \* a workflow that was created without a tenant
  Definitions,  \* definitions that are created
  Renames,      \* names an update gives
  Lists,        \* parameters of the lists clients ask for (see ListParams)
  DefaultLimit, \* size of a page nobody gave a size (20 in the code)
  Clients,      \* clients that list workflows
  Requests,     \* requests to update, delete or execute a workflow
  MaxWorkflows, \* bound: workflows that are created
  MaxDisturbed, \* bound: scans of a walk that miss a key or return one twice
  MaxExecutions,\* bound: executions that are created
  MaxPosition   \* bound: pages or rows before the last page of a walk

Definition == [tenant : Tenants \cup {NoTenant}, name : Names]

(* What a client asks for: the names that match its search, the order, and *)
(* pages by their number and size or by an offset and a limit, 0 for none. *)
ListParams ==
  [search : SUBSET Names, by : {"name", "created_at"}, order : {"asc", "desc"},
   paged : BOOLEAN, size : Nat]

ASSUME CatalogAssumption ==
  /\ MaxWorkflows \in Nat
  /\ Names \subseteq Nat /\ Renames \subseteq Names
  /\ Definitions \subseteq Definition
  /\ Lists \subseteq ListParams
  /\ \A l \in Lists : l.paged => l.size > 0
  /\ NoTenant \notin Tenants
  /\ DefaultLimit \in Nat \ {0} /\ MaxPosition \in Nat
  /\ MaxDisturbed \in Nat /\ MaxExecutions \in Nat

VARIABLES
  definition, \* definition[w]: the stored definition of w
  created,    \* identifiers given so far
  executed,   \* executions created: <<tenant, workflow>>
  request,    \* request[r]: what a request has come to
  walk        \* walk[c]: how far a client has come with its list

vars == <<definition, created, executed, request, walk>>

(* An identifier is given to one workflow; here they are numbers, given in *)
(* the order of the creations.                                             *)
Workflows == 1 .. MaxWorkflows

NoDefinition == [tenant |-> "nobody"]

Stored == {w \in Workflows : definition[w] # NoDefinition}

IdleRequest == [phase |-> "idle"]
Request ==
  [phase : {"update", "store"}, workflow : Workflows, definition : Definition]
  \cup [phase : {"delete"}, workflow : Workflows]
  \cup [phase : {"execute"}, workflow : Workflows, tenant : Tenants]

(* A walk: where the next page is, the workflows that were there when it   *)
(* began, those that were there when the present scan began, those it has  *)
(* shown, and the scans so far that were not exact.                        *)
IdleWalk == [phase |-> "idle"]
Walk ==
  [phase : {"ready", "scanning", "over"}, tenant : Tenants, list : Lists,
   next : Nat, initial : SUBSET Workflows, known : SUBSET Workflows,
   shown : SUBSET Workflows, disturbed : 0 .. MaxDisturbed]

Init ==
  /\ definition = [w \in Workflows |-> NoDefinition]
  /\ created = 0
  /\ executed = {}
  /\ request = [r \in Requests |-> IdleRequest]
  /\ walk = [c \in Clients |-> IdleWalk]

-----------------------------------------------------------------------------
(* The store.                                                              *)

UnderKey(t, w) == w \in Stored /\ definition[w].tenant = t

GetWorkflowDefinitionWithTenant(t, w) == UnderKey(t, w)

(* Faulty variant: the tenants' keys are searched as well.                 *)
GetWorkflowDefinitionAnywhere(w) == w \in Stored

GetWorkflowDefinition(w) == UnderKey(NoTenant, w)

(* The tenant is the one the body names, which need not name any.          *)
CreateWorkflow(d) ==
  /\ created < MaxWorkflows
  /\ created' = created + 1
  /\ definition' = [definition EXCEPT ![created + 1] = d]
  /\ UNCHANGED <<executed, request, walk>>

-----------------------------------------------------------------------------
(* Requests for one workflow.  All look it up first, and end there when it *)
(* is not found; what they do with it is another call to Redis.            *)

SetRequest(r, q) == request' = [request EXCEPT ![r] = q]
Answer(r) == SetRequest(r, IdleRequest)

LookUp(r, found, q) ==
  /\ request[r] = IdleRequest
  /\ found
  /\ SetRequest(r, q)
  /\ UNCHANGED <<definition, created, executed, walk>>

UpdateWorkflow(r, w, name) ==
  LookUp(r, GetWorkflowDefinition(w),
         [phase |-> "update", workflow |-> w,
          definition |-> [tenant |-> definition[w].tenant, name |-> name]])

DeleteWorkflow(r, w) ==
  LookUp(r, GetWorkflowDefinition(w), [phase |-> "delete", workflow |-> w])

ExecuteWorkflow(r, t, w) ==
  LookUp(r, GetWorkflowDefinitionWithTenant(t, w),
         [phase |-> "execute", workflow |-> w, tenant |-> t])

(* UpdateWorkflowDefinition: the key is checked, then written.             *)
CheckExistence(r) ==
  LET q == request[r]
  IN  /\ q.phase = "update"
      /\ IF UnderKey(q.definition.tenant, q.workflow)
         THEN SetRequest(r, [q EXCEPT !.phase = "store"])
         ELSE Answer(r)
      /\ UNCHANGED <<definition, created, executed, walk>>

StoreUpdated(r) ==
  LET q == request[r]
  IN  /\ q.phase = "store"
      /\ definition' = [definition EXCEPT ![q.workflow] = q.definition]
      /\ Answer(r)
      /\ UNCHANGED <<created, executed, walk>>

(* DeleteWorkflow of the store removes the workflow from any key it has.   *)
RemoveKeys(r) ==
  LET q == request[r]
  IN  /\ q.phase = "delete"
      /\ definition' = [definition EXCEPT ![q.workflow] = NoDefinition]
      /\ Answer(r)
      /\ UNCHANGED <<created, executed, walk>>

CreateExecution(r) ==
  LET q == request[r]
  IN  /\ q.phase = "execute"
      /\ Cardinality(executed) < MaxExecutions
      /\ executed' = executed \cup {<<q.tenant, q.workflow>>}
      /\ Answer(r)
      /\ UNCHANGED <<definition, created, walk>>

-----------------------------------------------------------------------------
(* The list.  A row is a workflow a scan returned, with a number, since a  *)
(* scan may return a key twice.                                            *)

Rows == Workflows \X {1, 2}
Name(row) == definition[row[1]].name

PageParams(n, size) == [page |-> n + 1, size |-> size, limit |-> 0, offset |-> 0]
OffsetParams(n, limit) == [page |-> 0, size |-> 0, limit |-> limit, offset |-> n]

SetDefaults(p) ==
  IF p.limit = 0 /\ p.size = 0 THEN [p EXCEPT !.limit = DefaultLimit] ELSE p

ByPage(p) == p.page > 0 /\ p.size > 0
Limit(p) == IF ByPage(p) THEN p.size
            ELSE IF p.limit = 0 THEN DefaultLimit ELSE p.limit
Offset(p) == IF ByPage(p) THEN (p.page - 1) * p.size ELSE p.offset

(* Faulty variant: the tenant of the route is no filter.                   *)
ApplyWorkflowFiltersOfAll(rows, t, search) == {row \in rows : Name(row) \in search}

ApplyWorkflowFilters(rows, t, search) ==
  {row \in rows : definition[row[1]].tenant = t /\ Name(row) \in search}

(* Less and its negation, by which sort.Slice sorts in descending order,   *)
(* place rows of different names alike.  Sorting by created_at compares    *)
(* nothing: the case of the switch is empty.                               *)
Before(l, a, b) ==
  /\ l.by = "name"
  /\ IF l.order = "asc" THEN Name(a) < Name(b) ELSE Name(b) < Name(a)

SortWorkflows(rows, l) ==
  {place \in [rows -> 0 .. Cardinality(rows) - 1] :
     \A a, b \in rows : /\ a # b => place[a] # place[b]
                        /\ Before(l, a, b) => place[a] < place[b]}

(* Faulty variant: pages are counted from 0.                               *)
PaginateWorkflowsFromZero(place, p) ==
  LET offset == IF ByPage(p) THEN p.page * p.size ELSE p.offset
  IN  {row[1] : row \in {x \in DOMAIN place :
                           offset <= place[x] /\ place[x] < offset + Limit(p)}}

PaginateWorkflows(place, p) ==
  {row[1] : row \in {x \in DOMAIN place :
                       Offset(p) <= place[x] /\ place[x] < Offset(p) + Limit(p)}}

(* Faulty variant: what comes before the page counts as what comes after.  *)
HasNextOfAll(p, filteredCount) == Limit(p) < filteredCount

HasNext(p, filteredCount) == Offset(p) + Limit(p) < filteredCount

-----------------------------------------------------------------------------
(* A client walks through the pages until there is no next one.            *)

SetWalk(c, q) == walk' = [walk EXCEPT ![c] = q]

Params(l, n) ==
  SetDefaults(IF l.paged THEN PageParams(n, l.size) ELSE OffsetParams(n, l.size))

(* Where the response says the next page is.                               *)
NextPosition(l, n) == IF l.paged THEN n + 1 ELSE n + Limit(Params(l, n))

Matching(t, search) ==
  {w \in Stored : definition[w].tenant = t /\ definition[w].name \in search}

StartWalk(c, t, l) ==
  /\ walk[c] = IdleWalk
  /\ SetWalk(c, [phase |-> "ready", tenant |-> t, list |-> l, next |-> 0,
                 initial |-> Matching(t, l.search), known |-> {}, shown |-> {},
                 disturbed |-> 0])
  /\ UNCHANGED <<definition, created, executed, request>>

(* A scan returns every key that is there from its beginning to its end.   *)
BeginScan(c) ==
  /\ walk[c].phase = "ready"
  /\ walk[c].next <= MaxPosition
  /\ SetWalk(c, [walk[c] EXCEPT !.phase = "scanning", !.known = Stored])
  /\ UNCHANGED <<definition, created, executed, request>>

(* Of a key that was removed, or whose value cannot be read, the scan only *)
(* logs a warning.                                                         *)
Once(S) == {<<w, 1>> : w \in S}

ShowPage(c, scanned, disturbed) ==
  LET q    == walk[c]
      p    == Params(q.list, q.next)
      rows == ApplyWorkflowFilters(scanned, q.tenant, q.list.search)
      more == HasNext(p, Cardinality(rows))
  IN  \E place \in SortWorkflows(rows, q.list) :
        SetWalk(c, [q EXCEPT
          !.phase = IF more THEN "ready" ELSE "over",
          !.next = IF more THEN NextPosition(q.list, q.next) ELSE 0,
          !.known = {},
          !.shown = @ \cup PaginateWorkflows(place, p),
          !.disturbed = disturbed])

ListWorkflows(c) ==
  LET n == walk[c].disturbed
  IN  /\ walk[c].phase = "scanning"
      /\ \E S \in SUBSET Stored :
           /\ walk[c].known \cap Stored \subseteq S
           /\ \/ ShowPage(c, Once(S), n)
              \/ /\ n < MaxDisturbed
                 /\ \E w \in S : \/ ShowPage(c, Once(S \ {w}), n + 1)
                                 \/ ShowPage(c, Once(S) \cup {<<w, 2>>}, n + 1)
      /\ UNCHANGED <<definition, created, executed, request>>

(* A scan that fails is an error, and the client asks for the page again.  *)
ListWorkflowsFails(c) ==
  /\ walk[c].phase = "scanning"
  /\ SetWalk(c, [walk[c] EXCEPT !.phase = "ready", !.known = {}])
  /\ UNCHANGED <<definition, created, executed, request>>

-----------------------------------------------------------------------------
Handle(r) ==
  \/ \E w \in Workflows :
       \/ \E name \in Renames : UpdateWorkflow(r, w, name)
       \/ DeleteWorkflow(r, w)
       \/ \E t \in Tenants : ExecuteWorkflow(r, t, w)
  \/ CheckExistence(r)
  \/ StoreUpdated(r)
  \/ RemoveKeys(r)
  \/ CreateExecution(r)

Turn(c) == BeginScan(c) \/ ListWorkflows(c) \/ ListWorkflowsFails(c)

Next ==
  \/ \E d \in Definitions : CreateWorkflow(d)
  \/ \E r \in Requests : Handle(r)
  \/ \E c \in Clients :
       \/ \E t \in Tenants, l \in Lists : StartWalk(c, t, l)
       \/ Turn(c)

Spec == Init /\ [][Next]_vars
-----------------------------------------------------------------------------
TypeOK ==
  /\ definition \in [Workflows -> Definition \cup {NoDefinition}]
  /\ created \in 0 .. MaxWorkflows /\ Stored \subseteq 1 .. created
  /\ executed \subseteq Tenants \X Workflows
  /\ request \in [Requests -> Request \cup {IdleRequest}]
  /\ walk \in [Clients -> Walk \cup {IdleWalk}]
  /\ \A c \in Clients :
       walk[c] # IdleWalk =>
         \A w \in walk[c].shown : definition[w].tenant = walk[c].tenant

(* A walk by name whose scans missed nothing and repeated nothing has      *)
(* shown, when it is over, every workflow that was there when it began and *)
(* shares its name with no other, whatever others do meanwhile             *)
(* (ListWorkflowsWithFilters scans anew for every page).                   *)
WalkComplete ==
  \A c \in Clients :
    LET q == walk[c]
    IN  q # IdleWalk /\ q.phase = "over" /\ q.list.by = "name" /\ q.disturbed = 0 =>
          \A w \in q.initial :
            w \in q.shown \/ \E v \in Matching(q.tenant, q.list.search) \ {w} :
                                definition[v].name = definition[w].name

(* The definition of a workflow that was executed for a tenant stays where *)
(* the worker looks for it (GetWorkflowDefinitionWithTenant), although     *)
(* DeleteWorkflow does not ask for executions.                             *)
DefinitionKept ==
  \A x \in executed : GetWorkflowDefinitionWithTenant(x[1], x[2])

(* The page that has_next announces is there when the client asks for it,  *)
(* whatever others do meanwhile, unless a scan of the walk returned a key  *)
(* twice (NewPaginationMeta counts the rows of an earlier scan).           *)
NextPageExists ==
  \A c \in Clients :
    LET q == walk[c]
    IN  q # IdleWalk /\ q.phase # "over" /\ q.next > 0 /\ q.disturbed = 0 =>
          Offset(Params(q.list, q.next)) < Cardinality(Matching(q.tenant, q.list.search))
=============================================================================
