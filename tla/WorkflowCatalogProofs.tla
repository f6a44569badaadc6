----------------------- MODULE WorkflowCatalogProofs -----------------------
(***************************************************************************)
(* Proofs about WorkflowCatalog, for any names, tenants, clients, requests *)
(* and lists, and any bounds.                                              *)
(***************************************************************************)
EXTENDS WorkflowCatalog, FiniteSetTheorems, FunctionTheorems, TLAPS

-----------------------------------------------------------------------------
(* The pages of a walk follow each other without a gap.                    *)
LEMMA NextPageFollows ==
  ASSUME NEW l \in Lists, NEW n \in Nat
  PROVE  LET p == Params(l, n)
             k == NextPosition(l, n)
         IN  /\ Offset(p) \in Nat /\ Limit(p) \in Nat /\ Limit(p) > 0
             /\ k \in Nat /\ k > 0
             /\ Offset(Params(l, k)) = Offset(p) + Limit(p)
<1>1. /\ l \in ListParams /\ l.paged \in BOOLEAN /\ l.size \in Nat
      /\ l.paged => l.size > 0
      /\ DefaultLimit \in Nat /\ DefaultLimit > 0
  BY CatalogAssumption DEF ListParams
<1>2. CASE l.paged
  <2>1. /\ \A m \in Nat : m + 1 - 1 = m /\ m + 1 > 0
        /\ (n + 1) * l.size = n * l.size + l.size
        /\ n * l.size \in Nat
    BY <1>1
  <2>2. \A m \in Nat : /\ Limit(Params(l, m)) = l.size
                       /\ Offset(Params(l, m)) = m * l.size
    <3> TAKE m \in Nat
    <3>1. Params(l, m) = [page |-> m + 1, size |-> l.size, limit |-> 0, offset |-> 0]
      BY <1>1, <1>2 DEF Params, PageParams, SetDefaults
    <3>2. ByPage(Params(l, m))
      BY <1>1, <1>2, <2>1, <3>1 DEF ByPage
    <3> QED
      BY <2>1, <3>1, <3>2 DEF Limit, Offset
  <2> QED
    BY <1>1, <1>2, <2>1, <2>2 DEF NextPosition
<1>3. CASE ~l.paged
  <2>1. \A m \in Nat :
          /\ Limit(Params(l, m)) = IF l.size = 0 THEN DefaultLimit ELSE l.size
          /\ Offset(Params(l, m)) = m
    BY <1>1, <1>3 DEF Params, OffsetParams, SetDefaults, ByPage, Limit, Offset
  <2> QED
    BY <1>1, <1>3, <2>1 DEF NextPosition
<1> QED
  BY <1>1, <1>2, <1>3

(* The size of an interval.                                                *)
LEMMA IntervalSize ==
  ASSUME NEW a \in Int, NEW b \in Int, a <= b + 1
  PROVE  IsFiniteSet(a .. b) /\ Cardinality(a .. b) = b - a + 1
<1>1. IsFiniteSet(a .. b) /\ Cardinality(a .. b) = IF a > b THEN 0 ELSE b - a + 1
  BY FS_Interval
<1> QED
  BY <1>1

(* The place of an element in a list is the number of those before it.     *)
LEMMA Rank ==
  ASSUME NEW R, IsFiniteSet(R), NEW f \in [R -> 0 .. Cardinality(R) - 1],
         \A a, b \in R : a # b => f[a] # f[b], NEW r \in R
  PROVE  Cardinality({x \in R : f[x] < f[r]}) = f[r]
<1> DEFINE n == Cardinality(R)
           Low == {x \in R : f[x] < f[r]}
           High == {x \in R : f[x] > f[r]}
<1>1. n \in Nat /\ f[r] \in 0 .. n - 1
  BY FS_CardinalityType
<1>2. IsFiniteSet(Low) /\ Cardinality(Low) \in Nat
  BY FS_Subset, FS_CardinalityType
<1>3. IsFiniteSet(High) /\ Cardinality(High) \in Nat
  BY FS_Subset, FS_CardinalityType
<1>4. Cardinality(Low) <= f[r]
  <2>1. [x \in Low |-> f[x]] \in Injection(Low, 0 .. f[r] - 1)
    BY <1>1 DEF Injection, IsInjective
  <2>2. IsFiniteSet(0 .. f[r] - 1) /\ Cardinality(0 .. f[r] - 1) = f[r]
    <3>1. 0 \in Int /\ f[r] - 1 \in Int /\ 0 <= f[r] - 1 + 1 /\ f[r] - 1 - 0 + 1 = f[r]
      BY <1>1
    <3> HIDE DEF n
    <3>2. IsFiniteSet(0 .. f[r] - 1) /\ Cardinality(0 .. f[r] - 1) = f[r] - 1 - 0 + 1
      BY <3>1, IntervalSize
    <3> QED
      BY <3>1, <3>2
  <2> QED
    BY <2>1, <2>2, FS_Injection
<1>5. Cardinality(High) <= n - 1 - f[r]
  <2>1. [x \in High |-> f[x]] \in Injection(High, f[r] + 1 .. n - 1)
    BY <1>1 DEF Injection, IsInjective
  <2>2. /\ IsFiniteSet(f[r] + 1 .. n - 1)
        /\ Cardinality(f[r] + 1 .. n - 1) = n - 1 - f[r]
    <3>1. /\ f[r] + 1 \in Int /\ n - 1 \in Int /\ f[r] + 1 <= n - 1 + 1
          /\ n - 1 - (f[r] + 1) + 1 = n - 1 - f[r]
      BY <1>1
    <3> HIDE DEF n
    <3>2. /\ IsFiniteSet(f[r] + 1 .. n - 1)
          /\ Cardinality(f[r] + 1 .. n - 1) = n - 1 - (f[r] + 1) + 1
      BY <3>1, IntervalSize
    <3> QED
      BY <3>1, <3>2
  <2> QED
    BY <2>1, <2>2, FS_Injection
<1>6. R = (Low \cup {r}) \cup High
  <2>1. \A x \in R : f[x] \in Int /\ f[x] # f[r] => f[x] < f[r] \/ f[x] > f[r]
    BY <1>1
  <2> QED
    BY <1>1, <2>1
<1>7. IsFiniteSet(Low \cup {r}) /\ Cardinality(Low \cup {r}) = Cardinality(Low) + 1
  <2>1. r \notin Low
    BY <1>1
  <2> QED
    BY <1>2, <2>1, FS_AddElement
<1>8. (Low \cup {r}) \cap High = {}
  BY <1>1
<1>9. n = Cardinality(Low) + 1 + Cardinality(High)
  <2> DEFINE Upto == Low \cup {r}
  <2>1. /\ IsFiniteSet(Upto) /\ Cardinality(Upto) = Cardinality(Low) + 1
        /\ IsFiniteSet(High) /\ Upto \cap High = {} /\ R = Upto \cup High
    BY <1>3, <1>6, <1>7, <1>8
  <2> HIDE DEF Low, High, Upto
  <2>2. Cardinality(Upto \cup High)
          = Cardinality(Upto) + Cardinality(High) - Cardinality(Upto \cap High)
    BY <2>1, FS_Union
  <2>3. Cardinality(Upto \cap High) = 0
    BY <2>1, FS_EmptySet
  <2> QED
    BY <1>2, <1>3, <2>1, <2>2, <2>3
<1> QED
  BY <1>1, <1>2, <1>3, <1>4, <1>5, <1>9

(* A scan that repeats nothing returns as many rows as workflows.          *)
LEMMA OnceSame ==
  ASSUME NEW S, IsFiniteSet(S)
  PROVE  IsFiniteSet(Once(S)) /\ Cardinality(Once(S)) = Cardinality(S)
<1> DEFINE f == [w \in S |-> <<w, 1>>]
<1>1. f \in Bijection(S, Once(S))
  BY DEF Once, Bijection, Injection, Surjection, IsInjective
<1> QED
  BY <1>1, FS_Bijection DEF ExistsBijection
-----------------------------------------------------------------------------
(* Who may touch a definition, and where it is.                            *)

(* No tenant's key holds w.                                                *)
Untenanted(w) == \A t \in Tenants : ~UnderKey(t, w)

(* What a request has found stays true until it has acted on it.           *)
RequestOK(r) ==
  LET q == request[r]
  IN  /\ q.phase \in {"update", "store", "delete"} =>
           q.workflow <= created /\ Untenanted(q.workflow)
      /\ q.phase \in {"update", "store"} => q.definition.tenant = NoTenant
      /\ q.phase = "execute" => UnderKey(q.tenant, q.workflow)

(* The workflows a client knows of are still under its tenant's key.       *)
WalkOK(c) ==
  LET q == walk[c]
  IN  q # IdleWalk =>
        /\ \A w \in q.shown : UnderKey(q.tenant, w)
        /\ q.initial \subseteq Matching(q.tenant, q.list.search)
        /\ q.phase = "scanning" => q.initial \subseteq q.known

CatalogInv ==
  /\ TypeOK
  /\ \A r \in Requests : RequestOK(r)
  /\ \A c \in Clients : WalkOK(c)
  /\ DefinitionKept

(* What a step leaves of a tenant's workflow, and of one no tenant has.    *)
Settled ==
  /\ \A w \in Workflows : \A t \in Tenants :
       UnderKey(t, w) => UnderKey(t, w)' /\ definition'[w] = definition[w]
  /\ \A w \in Workflows : w <= created /\ Untenanted(w) => Untenanted(w)'
  /\ created <= created'

(* The catalog is empty at first.                                          *)
LEMMA InitCatalogInv == Init => CatalogInv
<1> SUFFICES ASSUME Init PROVE CatalogInv
  OBVIOUS
<1> USE CatalogAssumption
<1>1. Stored = {} /\ created = 0 /\ created \in 0 .. MaxWorkflows
  BY DEF Init, Stored
<1>2. TypeOK
  BY <1>1 DEF Init, TypeOK
<1>3. \A r \in Requests : RequestOK(r)
  BY DEF Init, RequestOK, IdleRequest
<1>4. \A c \in Clients : WalkOK(c)
  BY DEF Init, WalkOK, IdleWalk
<1>5. DefinitionKept
  BY DEF Init, DefinitionKept
<1> QED
  BY <1>2, <1>3, <1>4, <1>5 DEF CatalogInv

(* A request that is under way has the fields of its phase.                *)
LEMMA RequestFields ==
  ASSUME TypeOK, NEW r \in Requests
  PROVE  /\ request[r].phase \in {"update", "store", "delete", "execute"} =>
              request[r] \in Request /\ request[r].workflow \in Workflows
         /\ request[r].phase \in {"update", "store"} =>
              request[r].definition \in Definition
         /\ request[r].phase = "execute" => request[r].tenant \in Tenants
  BY DEF TypeOK, Request, IdleRequest

(* What a step does to the store.                                          *)
LEMMA StoreCases ==
  ASSUME [Next]_vars
  PROVE  \/ \E d \in Definitions : CreateWorkflow(d)
         \/ \E r \in Requests : StoreUpdated(r) \/ RemoveKeys(r)
         \/ UNCHANGED <<definition, created>>
<1>1. CASE \E r \in Requests : Handle(r)
  BY <1>1 DEF Handle, UpdateWorkflow, DeleteWorkflow, ExecuteWorkflow, LookUp,
              CheckExistence, CreateExecution
<1>2. CASE \E c \in Clients :
             (\E t \in Tenants, l \in Lists : StartWalk(c, t, l)) \/ Turn(c)
  BY <1>2 DEF StartWalk, Turn, BeginScan, ListWorkflows, ListWorkflowsFails
<1> QED
  BY <1>1, <1>2 DEF Next, vars

(* Only requests that found a workflow under no tenant's key change or     *)
(* remove a definition.                                                    *)
LEMMA Stable == ASSUME CatalogInv, [Next]_vars PROVE Settled
<1> USE CatalogAssumption
<1>1. /\ definition \in [Workflows -> Definition \cup {NoDefinition}]
      /\ created \in 0 .. MaxWorkflows /\ Stored \subseteq 1 .. created
  BY DEF CatalogInv, TypeOK
<1>2. ASSUME NEW d \in Definitions, CreateWorkflow(d) PROVE Settled
  <2>1. /\ created + 1 \in Workflows /\ created + 1 \notin Stored
        /\ created <= created'
        /\ \A w \in Workflows : w # created + 1 => definition'[w] = definition[w]
        /\ \A w \in Workflows : w <= created => w # created + 1
    BY <1>1, <1>2 DEF CreateWorkflow, Workflows
  <2> QED
    BY <2>1 DEF Settled, Untenanted, UnderKey, Stored
<1>3. ASSUME NEW u \in Workflows, Untenanted(u), Untenanted(u)', created' = created,
             \A w \in Workflows : w # u => definition'[w] = definition[w]
      PROVE  Settled
  BY <1>1, <1>3 DEF Settled, Untenanted, UnderKey, Stored
<1>4. ASSUME NEW r \in Requests, StoreUpdated(r) \/ RemoveKeys(r) PROVE Settled
  <2>1. /\ request[r].workflow \in Workflows /\ Untenanted(request[r].workflow)
        /\ StoreUpdated(r) => request[r].definition.tenant = NoTenant
    BY <1>4, RequestFields DEF StoreUpdated, RemoveKeys, CatalogInv, RequestOK
  <2>2. PICK u \in Workflows : u = request[r].workflow
    BY <2>1
  <2>3. /\ created' = created
        /\ \A w \in Workflows : w # u => definition'[w] = definition[w]
        /\ \/ definition'[u] = NoDefinition
           \/ definition'[u].tenant = NoTenant
    BY <1>1, <1>4, <2>1, <2>2 DEF StoreUpdated, RemoveKeys
  <2>4. Untenanted(u)'
    BY <2>3 DEF Untenanted, UnderKey, Stored
  <2>5. Untenanted(u)
    BY <2>1, <2>2 DEF Untenanted
  <2> QED
    BY <1>3, <2>3, <2>4, <2>5
<1>5. ASSUME UNCHANGED <<definition, created>> PROVE Settled
  BY <1>1, <1>5 DEF Settled, Untenanted, UnderKey, Stored
<1> QED
  BY <1>2, <1>4, <1>5, StoreCases

(* The store's part of the invariant.                                      *)
LEMMA StoreStep ==
  ASSUME CatalogInv, [Next]_vars
  PROVE  /\ definition' \in [Workflows -> Definition \cup {NoDefinition}]
         /\ created' \in 0 .. MaxWorkflows /\ Stored' \subseteq 1 .. created'
<1> USE CatalogAssumption
<1>1. /\ definition \in [Workflows -> Definition \cup {NoDefinition}]
      /\ created \in 0 .. MaxWorkflows /\ Stored \subseteq 1 .. created /\ TypeOK
  BY DEF CatalogInv, TypeOK
<1>2. ASSUME NEW d \in Definitions, CreateWorkflow(d)
      PROVE  /\ definition' \in [Workflows -> Definition \cup {NoDefinition}]
             /\ created' \in 0 .. MaxWorkflows /\ Stored' \subseteq 1 .. created'
  BY <1>1, <1>2 DEF CreateWorkflow, Stored, Workflows
<1>3. ASSUME NEW u \in Workflows, u <= created, created' = created,
             NEW d \in Definition \cup {NoDefinition},
             definition' = [definition EXCEPT ![u] = d]
      PROVE  /\ definition' \in [Workflows -> Definition \cup {NoDefinition}]
             /\ created' \in 0 .. MaxWorkflows /\ Stored' \subseteq 1 .. created'
  BY <1>1, <1>3 DEF Stored, Workflows
<1>4. ASSUME NEW r \in Requests, StoreUpdated(r) \/ RemoveKeys(r)
      PROVE  /\ definition' \in [Workflows -> Definition \cup {NoDefinition}]
             /\ created' \in 0 .. MaxWorkflows /\ Stored' \subseteq 1 .. created'
  <2>1. /\ request[r].workflow \in Workflows /\ request[r].workflow <= created
        /\ StoreUpdated(r) => request[r].definition \in Definition
    BY <1>1, <1>4, RequestFields DEF StoreUpdated, RemoveKeys, CatalogInv, RequestOK
  <2> QED
    BY <1>3, <1>4, <2>1 DEF StoreUpdated, RemoveKeys
<1>5. CASE UNCHANGED <<definition, created>>
  BY <1>1, <1>5 DEF Stored
<1> QED
  BY <1>2, <1>4, <1>5, StoreCases

-----------------------------------------------------------------------------
(* One page.                                                               *)

(* Of the rows of an exact scan of S, those that match remain.             *)
LEMMA FilteredOnce ==
  ASSUME NEW S \in SUBSET Stored, NEW t, NEW search
  PROVE  ApplyWorkflowFilters(Once(S), t, search) = Once(Matching(t, search) \cap S)
BY DEF ApplyWorkflowFilters, Once, Matching, Name

(* What a walk that shows a page knew before, what the scan returned and   *)
(* how the rows were placed, and the walk afterwards.                      *)
Shown(c, S, rows, place, more, n) ==
  LET q == walk[c]
      p == Params(q.list, q.next)
      M == Matching(q.tenant, q.list.search)
  IN  /\ q.known \cap Stored \subseteq S
      /\ \A row \in rows : row[1] \in M
      /\ n = 0 => q.disturbed = 0 /\ rows = Once(M \cap S)
      /\ place \in SortWorkflows(rows, q.list)
      /\ more = HasNext(p, Cardinality(rows))
      /\ walk'[c] = [q EXCEPT !.phase = IF more THEN "ready" ELSE "over",
                              !.next = IF more THEN NextPosition(q.list, q.next) ELSE 0,
                              !.known = {},
                              !.shown = @ \cup PaginateWorkflows(place, p),
                              !.disturbed = n]

(* A page is shown from some scan.                                         *)
LEMMA PageShown ==
  ASSUME TypeOK, NEW c \in Clients, ListWorkflows(c)
  PROVE  /\ walk[c] \in Walk /\ walk[c].phase = "scanning"
         /\ \A d \in Clients : d # c => walk'[d] = walk[d]
         /\ \E S \in SUBSET Stored : \E rows, place : \E more \in BOOLEAN :
              \E n \in 0 .. MaxDisturbed : Shown(c, S, rows, place, more, n)
<1> USE CatalogAssumption
<1> DEFINE q == walk[c]
           t == q.tenant
           search == q.list.search
<1>1. q \in Walk /\ q.phase = "scanning" /\ q.disturbed \in 0 .. MaxDisturbed
  BY DEF ListWorkflows, TypeOK, Walk, IdleWalk
<1>2. ASSUME NEW S \in SUBSET Stored, q.known \cap Stored \subseteq S,
             NEW scanned, NEW n \in 0 .. MaxDisturbed, ShowPage(c, scanned, n),
             \A row \in scanned : row[1] \in Stored,
             n = 0 => q.disturbed = 0 /\ scanned = Once(S)
      PROVE  /\ \A d \in Clients : d # c => walk'[d] = walk[d]
             /\ \E rows, place : \E more \in BOOLEAN : Shown(c, S, rows, place, more, n)
  <2> DEFINE rows == ApplyWorkflowFilters(scanned, t, search)
             more == HasNext(Params(q.list, q.next), Cardinality(rows))
  <2>1. PICK place \in SortWorkflows(rows, q.list) :
          walk' = [walk EXCEPT ![c] =
                    [q EXCEPT !.phase = IF more THEN "ready" ELSE "over",
                              !.next = IF more THEN NextPosition(q.list, q.next) ELSE 0,
                              !.known = {},
                              !.shown = @ \cup PaginateWorkflows(place, Params(q.list, q.next)),
                              !.disturbed = n]]
    BY <1>2 DEF ShowPage, SetWalk
  <2>2. \A row \in rows : row[1] \in Matching(t, search)
    BY <1>2 DEF ApplyWorkflowFilters, Matching, Name
  <2>3. n = 0 => rows = Once(Matching(t, search) \cap S)
    BY <1>2, FilteredOnce
  <2>4. more \in BOOLEAN
    BY DEF HasNext
  <2>5. walk \in [Clients -> Walk \cup {IdleWalk}]
    BY DEF TypeOK
  <2> HIDE DEF rows, more
  <2>6. more = HasNext(Params(q.list, q.next), Cardinality(rows))
    BY DEF rows, more
  <2>7. Shown(c, S, rows, place, more, n)
    BY <1>2, <2>1, <2>2, <2>3, <2>5, <2>6 DEF Shown
  <2> QED
    BY <2>1, <2>4, <2>5, <2>7
<1>3. PICK S \in SUBSET Stored :
        /\ q.known \cap Stored \subseteq S
        /\ \/ ShowPage(c, Once(S), q.disturbed)
           \/ /\ q.disturbed < MaxDisturbed
              /\ \E w \in S : \/ ShowPage(c, Once(S \ {w}), q.disturbed + 1)
                              \/ ShowPage(c, Once(S) \cup {<<w, 2>>}, q.disturbed + 1)
  BY DEF ListWorkflows
<1>4. CASE ShowPage(c, Once(S), q.disturbed)
  <2>1. \A row \in Once(S) : row[1] \in Stored
    BY DEF Once
  <2> QED
    BY <1>1, <1>2, <1>3, <1>4, <2>1
<1>5. ASSUME q.disturbed < MaxDisturbed, NEW w \in S,
             \/ ShowPage(c, Once(S \ {w}), q.disturbed + 1)
             \/ ShowPage(c, Once(S) \cup {<<w, 2>>}, q.disturbed + 1)
      PROVE  /\ \A d \in Clients : d # c => walk'[d] = walk[d]
             /\ \E rows, place : \E more \in BOOLEAN :
                  Shown(c, S, rows, place, more, q.disturbed + 1)
  <2>1. /\ \A row \in Once(S \ {w}) : row[1] \in Stored
        /\ \A row \in Once(S) \cup {<<w, 2>>} : row[1] \in Stored
    BY DEF Once
  <2>2. q.disturbed + 1 \in 0 .. MaxDisturbed /\ q.disturbed + 1 # 0
    BY <1>1, <1>5
  <2> QED
    BY <1>2, <1>3, <1>5, <2>1, <2>2
<1>6. q.disturbed < MaxDisturbed => q.disturbed + 1 \in 0 .. MaxDisturbed
  BY <1>1
<1> HIDE DEF q
<1> QED
  BY <1>1, <1>3, <1>4, <1>5, <1>6 DEF q
-----------------------------------------------------------------------------
(* The catalog's invariant.                                                *)

(* What a step does to one walk.                                           *)
LEMMA WalkCases ==
  ASSUME TypeOK, [Next]_vars, NEW c \in Clients
  PROVE  \/ walk'[c] = walk[c]
         \/ /\ UNCHANGED definition
            /\ \/ \E t \in Tenants, l \in Lists : StartWalk(c, t, l)
               \/ BeginScan(c) \/ ListWorkflows(c) \/ ListWorkflowsFails(c)
<1>1. walk \in [Clients -> Walk \cup {IdleWalk}]
  BY DEF TypeOK
<1>2. CASE UNCHANGED walk
  BY <1>2
<1>3. ASSUME NEW d \in Clients,
             (\E t \in Tenants, l \in Lists : StartWalk(d, t, l)) \/ Turn(d)
      PROVE  /\ UNCHANGED definition
             /\ d # c => walk'[c] = walk[c]
  <2>1. CASE ListWorkflows(d)
    BY <2>1, PageShown DEF ListWorkflows
  <2> QED
    BY <1>1, <1>3, <2>1 DEF StartWalk, Turn, BeginScan, ListWorkflowsFails, SetWalk
<1>4. CASE \E d \in Clients :
             (\E t \in Tenants, l \in Lists : StartWalk(d, t, l)) \/ Turn(d)
  BY <1>3, <1>4 DEF Turn
<1>5. CASE \E d \in Definitions : CreateWorkflow(d)
  BY <1>2, <1>5 DEF CreateWorkflow
<1>6. CASE \E r \in Requests : Handle(r)
  BY <1>2, <1>6 DEF Handle, UpdateWorkflow, DeleteWorkflow, ExecuteWorkflow, LookUp,
                    CheckExistence, StoreUpdated, RemoveKeys, CreateExecution
<1> QED
  BY <1>2, <1>4, <1>5, <1>6 DEF Next, vars

(* What a walk knows of the store is kept by a step that leaves the store. *)
LEMMA FrameWalk ==
  ASSUME UNCHANGED definition, NEW c,
         \A w \in walk'[c].shown : UnderKey(walk'[c].tenant, w),
         walk'[c].initial \subseteq Matching(walk'[c].tenant, walk'[c].list.search),
         walk'[c].phase = "scanning" => walk'[c].initial \subseteq walk'[c].known
  PROVE  WalkOK(c)'
<1>1. \A t, w : UnderKey(t, w) => w \in Stored /\ definition[w].tenant = t
  BY DEF UnderKey
<1>2. Stored' = Stored
  BY DEF Stored
<1>3. (\A w \in walk[c].shown : UnderKey(walk[c].tenant, w))'
  BY <1>1, <1>2 DEF UnderKey
<1>4. (walk[c].initial \subseteq Matching(walk[c].tenant, walk[c].list.search))'
  BY <1>2 DEF Matching
<1> QED
  BY <1>3, <1>4 DEF WalkOK

(* The walk's part of the invariant.                                       *)
LEMMA WalkStep ==
  ASSUME CatalogInv, [Next]_vars, NEW c \in Clients
  PROVE  walk'[c] \in Walk \cup {IdleWalk} /\ WalkOK(c)'
<1> USE CatalogAssumption
<1>1. /\ walk \in [Clients -> Walk \cup {IdleWalk}] /\ TypeOK /\ WalkOK(c)
      /\ walk[c] # IdleWalk => walk[c] \in Walk
  BY DEF CatalogInv, TypeOK
<1>2. CASE walk'[c] = walk[c]
  <2>1. ASSUME walk[c] # IdleWalk, NEW w \in Workflows, UnderKey(walk[c].tenant, w)
        PROVE  UnderKey(walk[c].tenant, w)' /\ definition'[w] = definition[w]
    <3>1. walk[c].tenant \in Tenants
      BY <1>1, <2>1 DEF Walk
    <3>2. PICK t \in Tenants : t = walk[c].tenant
      BY <3>1
    <3>3. UnderKey(t, w)' /\ definition'[w] = definition[w]
      BY <2>1, <3>2, Stable DEF Settled
    <3> QED
      BY <1>2, <3>2, <3>3 DEF UnderKey
  <2> QED
    BY <1>1, <1>2, <2>1 DEF WalkOK, Matching, UnderKey, Stored, Walk
<1>3. ASSUME UNCHANGED definition, NEW t \in Tenants, NEW l \in Lists, StartWalk(c, t, l)
      PROVE  walk'[c] \in Walk /\ WalkOK(c)'
  <2>1. walk'[c] = [phase |-> "ready", tenant |-> t, list |-> l, next |-> 0,
                    initial |-> Matching(t, l.search), known |-> {}, shown |-> {},
                    disturbed |-> 0]
    BY <1>1, <1>3 DEF StartWalk, SetWalk
  <2>2. Matching(t, l.search) \in SUBSET Workflows /\ 0 \in 0 .. MaxDisturbed
    BY DEF Matching, Stored
  <2>3. walk'[c] \in Walk
    BY <2>1, <2>2 DEF Walk
  <2> QED
    BY <1>3, <2>1, <2>3 DEF WalkOK, Matching, Stored
<1>4. ASSUME UNCHANGED definition, BeginScan(c) \/ ListWorkflowsFails(c)
      PROVE  walk'[c] \in Walk /\ WalkOK(c)'
  <2>1. \/ walk'[c] = [walk[c] EXCEPT !.phase = "scanning", !.known = Stored]
        \/ walk'[c] = [walk[c] EXCEPT !.phase = "ready", !.known = {}]
    BY <1>1, <1>4 DEF BeginScan, ListWorkflowsFails, SetWalk
  <2>2. walk[c] \in Walk
    BY <1>1, <1>4 DEF BeginScan, ListWorkflowsFails, IdleWalk
  <2>3. /\ walk'[c] \in Walk /\ walk'[c].tenant = walk[c].tenant
        /\ walk'[c].shown = walk[c].shown /\ walk'[c].list = walk[c].list
        /\ walk'[c].initial = walk[c].initial
        /\ walk'[c].phase = "scanning" => walk'[c].known = Stored
    BY <2>1, <2>2 DEF Walk, Stored
  <2>4. walk[c] # IdleWalk
    BY <1>4 DEF BeginScan, ListWorkflowsFails, IdleWalk
  <2>5. /\ \A w \in walk[c].shown : UnderKey(walk[c].tenant, w)
        /\ walk[c].initial \subseteq Matching(walk[c].tenant, walk[c].list.search)
    BY <1>1, <2>4 DEF WalkOK
  <2>6. walk[c].initial \subseteq Stored
    BY <2>5 DEF Matching
  <2>7. WalkOK(c)'
    BY <1>4, <2>3, <2>5, <2>6, FrameWalk
  <2> QED
    BY <2>3, <2>7
<1>5. ASSUME UNCHANGED definition, ListWorkflows(c)
      PROVE  walk'[c] \in Walk /\ WalkOK(c)'
  <2>10. PICK S \in SUBSET Stored : \E rows, place : \E more \in BOOLEAN :
          \E n \in 0 .. MaxDisturbed : Shown(c, S, rows, place, more, n)
    BY <1>1, <1>5, PageShown
  <2>11. PICK rows, place : \E more \in BOOLEAN : \E n \in 0 .. MaxDisturbed :
          Shown(c, S, rows, place, more, n)
    BY <2>10
  <2>1. PICK more \in BOOLEAN, n \in 0 .. MaxDisturbed :
          Shown(c, S, rows, place, more, n)
    BY <2>11
  <2>2. walk[c] \in Walk /\ walk[c].phase = "scanning" /\ walk[c] # IdleWalk
    <3>1. walk[c] \in Walk /\ walk[c].phase = "scanning"
      BY <1>1, <1>5, PageShown
    <3> QED
      BY <3>1 DEF IdleWalk
  <2> DEFINE q == walk[c]
             page == PaginateWorkflows(place, Params(q.list, q.next))
  <2>3. page \subseteq Matching(q.tenant, q.list.search)
    BY <2>1 DEF Shown, PaginateWorkflows, SortWorkflows
  <2>4. NextPosition(q.list, q.next) \in Nat
    BY <2>2, NextPageFollows DEF Walk
  <2> HIDE DEF page
  <2>5. walk'[c] = [q EXCEPT !.phase = IF more THEN "ready" ELSE "over",
                             !.next = IF more THEN NextPosition(q.list, q.next) ELSE 0,
                             !.known = {}, !.shown = @ \cup page, !.disturbed = n]
    BY <2>1 DEF Shown, page
  <2>6. page \subseteq Workflows /\ \A w \in page : UnderKey(q.tenant, w)
    BY <2>3 DEF Matching, Stored, UnderKey
  <2>7. /\ walk'[c] \in Walk /\ walk'[c].tenant = q.tenant /\ walk'[c].list = q.list
        /\ walk'[c].initial = q.initial /\ walk'[c].phase # "scanning"
        /\ walk'[c].shown = q.shown \cup page
    <3>1. PICK m \in Nat, phase \in {"ready", "over"} :
            walk'[c] = [q EXCEPT !.phase = phase, !.next = m, !.known = {},
                                 !.shown = @ \cup page, !.disturbed = n]
      BY <2>4, <2>5
    <3>2. q.shown \cup page \in SUBSET Workflows
      BY <2>2, <2>6 DEF Walk
    <3> HIDE DEF q
    <3> QED
      BY <2>2, <3>1, <3>2 DEF q, Walk
  <2>8. /\ \A w \in q.shown : UnderKey(q.tenant, w)
        /\ q.initial \subseteq Matching(q.tenant, q.list.search)
    BY <1>1, <2>2 DEF WalkOK
  <2> HIDE DEF q
  <2>9. WalkOK(c)'
    BY <1>5, <2>6, <2>7, <2>8, FrameWalk
  <2> QED
    BY <2>7, <2>9
<1> QED
  BY <1>1, <1>2, <1>3, <1>4, <1>5, WalkCases
(* The requests' part: what a request has found stays true, because what   *)
(* could make it false has itself found no tenant.                         *)
LEMMA RequestStep ==
  ASSUME CatalogInv, [Next]_vars, NEW r \in Requests
  PROVE  request'[r] \in Request \cup {IdleRequest} /\ RequestOK(r)'
<1> USE CatalogAssumption
<1>1. /\ request \in [Requests -> Request \cup {IdleRequest}] /\ TypeOK /\ RequestOK(r)
      /\ definition \in [Workflows -> Definition \cup {NoDefinition}]
      /\ created \in 0 .. MaxWorkflows /\ Stored \subseteq 1 .. created
      /\ created' \in 0 .. MaxWorkflows /\ created <= created'
  BY Stable, StoreStep DEF CatalogInv, TypeOK, Settled
<1>2. CASE request'[r] = request[r]
  <2>1. ASSUME NEW w \in Workflows, w <= created, Untenanted(w)
        PROVE  w <= created' /\ Untenanted(w)'
    BY <1>1, <2>1, Stable DEF Settled, Workflows
  <2>2. ASSUME NEW t \in Tenants, NEW w \in Workflows, UnderKey(t, w)
        PROVE  UnderKey(t, w)'
    BY <2>2, Stable DEF Settled
  <2>3. /\ request[r].phase \in {"update", "store", "delete", "execute"} =>
             request[r].workflow \in Workflows
        /\ request[r].phase = "execute" => request[r].tenant \in Tenants
    BY <1>1, RequestFields
  <2>4. (request[r].phase \in {"update", "store", "delete"} =>
           request[r].workflow <= created /\ Untenanted(request[r].workflow))'
    <3>1. SUFFICES ASSUME request[r].phase \in {"update", "store", "delete"}
                   PROVE  (request[r].workflow <= created /\ Untenanted(request[r].workflow))'
      BY <1>2
    <3>2. PICK w \in Workflows : w = request[r].workflow
      BY <2>3, <3>1
    <3>3. w <= created /\ Untenanted(w)
      BY <1>1, <3>1, <3>2 DEF RequestOK, Untenanted
    <3>4. w <= created' /\ Untenanted(w)'
      BY <2>1, <3>3
    <3> QED
      BY <1>2, <3>2, <3>4 DEF Untenanted
  <2>5. (request[r].phase = "execute" => UnderKey(request[r].tenant, request[r].workflow))'
    <3>1. SUFFICES ASSUME request[r].phase = "execute"
                   PROVE  UnderKey(request[r].tenant, request[r].workflow)'
      BY <1>2
    <3>2. PICK w \in Workflows, t \in Tenants :
            w = request[r].workflow /\ t = request[r].tenant
      BY <2>3, <3>1
    <3>3. UnderKey(t, w)
      BY <1>1, <3>1, <3>2 DEF RequestOK
    <3>4. UnderKey(t, w)'
      BY <2>2, <3>3
    <3> QED
      BY <1>2, <3>2, <3>4 DEF UnderKey
  <2> QED
    BY <1>1, <1>2, <2>4, <2>5 DEF RequestOK
<1>3. ASSUME NEW w \in Workflows, GetWorkflowDefinition(w),
             UNCHANGED <<definition, created>>, request'[r].workflow = w,
             \/ request'[r].phase = "delete"
             \/ /\ request'[r].phase \in {"update", "store"}
                /\ request'[r].definition.tenant = NoTenant
      PROVE  RequestOK(r)'
  <2>1. w <= created /\ Untenanted(w)
    BY <1>1, <1>3 DEF GetWorkflowDefinition, UnderKey, Untenanted
  <2>2. w <= created' /\ Untenanted(w)'
    BY <1>3, <2>1 DEF Untenanted, UnderKey, Stored
  <2>3. (request[r].workflow <= created /\ Untenanted(request[r].workflow))'
    BY <1>3, <2>2 DEF Untenanted
  <2> QED
    BY <1>3, <2>3 DEF RequestOK
<1>4. ASSUME NEW w \in Workflows, NEW name \in Renames, UpdateWorkflow(r, w, name)
      PROVE  request'[r] \in Request /\ RequestOK(r)'
  <2>1. /\ request'[r] = [phase |-> "update", workflow |-> w,
                          definition |-> [tenant |-> definition[w].tenant, name |-> name]]
        /\ GetWorkflowDefinition(w) /\ UNCHANGED <<definition, created>>
    BY <1>1, <1>4 DEF UpdateWorkflow, LookUp, SetRequest
  <2>2. definition[w].tenant = NoTenant /\ name \in Names
    BY <2>1 DEF GetWorkflowDefinition, UnderKey
  <2>3. request'[r] \in Request
    BY <2>1, <2>2 DEF Request, Definition
  <2> QED
    BY <1>3, <2>1, <2>2, <2>3
<1>5. ASSUME NEW w \in Workflows, DeleteWorkflow(r, w)
      PROVE  request'[r] \in Request /\ RequestOK(r)'
  <2>1. /\ request'[r] = [phase |-> "delete", workflow |-> w]
        /\ GetWorkflowDefinition(w) /\ UNCHANGED <<definition, created>>
    BY <1>1, <1>5 DEF DeleteWorkflow, LookUp, SetRequest
  <2>2. request'[r] \in Request
    BY <2>1 DEF Request
  <2> QED
    BY <1>3, <2>1, <2>2
<1>6. ASSUME NEW w \in Workflows, NEW t \in Tenants, ExecuteWorkflow(r, t, w)
      PROVE  request'[r] \in Request /\ RequestOK(r)'
  <2>1. /\ request'[r] = [phase |-> "execute", workflow |-> w, tenant |-> t]
        /\ UnderKey(t, w) /\ UNCHANGED definition
    BY <1>1, <1>6 DEF ExecuteWorkflow, LookUp, SetRequest, GetWorkflowDefinitionWithTenant
  <2>2. request'[r] \in Request
    BY <2>1 DEF Request
  <2>3. UnderKey(t, w)'
    BY <2>1 DEF UnderKey, Stored
  <2>4. UnderKey(request[r].tenant, request[r].workflow)'
    BY <2>1, <2>3 DEF UnderKey
  <2> QED
    BY <2>1, <2>2, <2>4 DEF RequestOK
<1>7. ASSUME request'[r] = IdleRequest
      PROVE  request'[r] \in Request \cup {IdleRequest} /\ RequestOK(r)'
  BY <1>7 DEF RequestOK, IdleRequest
<1>8. ASSUME CheckExistence(r)
      PROVE  request'[r] \in Request \cup {IdleRequest} /\ RequestOK(r)'
  <2>1. request'[r] = IdleRequest \/ request'[r] = [request[r] EXCEPT !.phase = "store"]
    BY <1>1, <1>8 DEF CheckExistence, SetRequest, Answer
  <2>2. /\ request[r] \in Request /\ request[r].phase = "update"
        /\ UNCHANGED <<definition, created>>
        /\ request[r].workflow <= created /\ Untenanted(request[r].workflow)
        /\ request[r].definition.tenant = NoTenant
    BY <1>1, <1>8, RequestFields DEF CheckExistence, RequestOK
  <2>3. CASE request'[r] = [request[r] EXCEPT !.phase = "store"]
    <3>1. /\ request'[r] \in Request /\ request'[r].phase = "store"
          /\ request'[r].workflow = request[r].workflow
          /\ request'[r].definition = request[r].definition
      BY <2>2, <2>3 DEF Request
    <3>2. (request[r].workflow <= created /\ Untenanted(request[r].workflow))'
      BY <2>2, <3>1 DEF Untenanted, UnderKey, Stored
    <3> QED
      BY <2>2, <3>1, <3>2 DEF RequestOK
  <2> QED
    BY <1>7, <2>1, <2>3
<1>9. ASSUME NEW s \in Requests, Handle(s), s # r PROVE request'[r] = request[r]
  BY <1>1, <1>9 DEF Handle, UpdateWorkflow, DeleteWorkflow, ExecuteWorkflow, LookUp,
                    CheckExistence, StoreUpdated, RemoveKeys, CreateExecution, SetRequest, Answer
<1>10. CASE Handle(r)
  <2>1. CASE StoreUpdated(r) \/ RemoveKeys(r) \/ CreateExecution(r)
    <3>1. request'[r] = IdleRequest
      BY <1>1, <2>1 DEF StoreUpdated, RemoveKeys, CreateExecution, Answer, SetRequest
    <3> QED
      BY <1>7, <3>1
  <2> QED
    BY <1>4, <1>5, <1>6, <1>8, <1>10, <2>1 DEF Handle
<1>11. CASE UNCHANGED request
  BY <1>2, <1>11
<1> QED
  BY <1>2, <1>9, <1>10, <1>11 DEF Next, vars, CreateWorkflow, StartWalk, Turn, BeginScan,
                                  ListWorkflows, ListWorkflowsFails
(* Executions are created for what a request has found.                    *)
LEMMA ExecutedStep ==
  ASSUME CatalogInv, [Next]_vars
  PROVE  executed' \subseteq Tenants \X Workflows /\ DefinitionKept'
<1>1. executed \subseteq Tenants \X Workflows /\ DefinitionKept /\ TypeOK
  BY DEF CatalogInv, TypeOK
<1>2. ASSUME NEW t \in Tenants, NEW w \in Workflows, UnderKey(t, w) PROVE UnderKey(t, w)'
  BY <1>2, Stable DEF Settled
<1>3. ASSUME NEW X \in SUBSET (Tenants \X Workflows),
             \A x \in X : UnderKey(x[1], x[2]), executed' = X
      PROVE  DefinitionKept'
  <2>1. \A x \in X : UnderKey(x[1], x[2])'
    <3> TAKE x \in X
    <3>1. x[1] \in Tenants /\ x[2] \in Workflows /\ UnderKey(x[1], x[2])
      BY <1>3
    <3> QED
      BY <1>2, <3>1
  <2> QED
    BY <1>3, <2>1 DEF DefinitionKept, GetWorkflowDefinitionWithTenant
<1>4. CASE UNCHANGED executed
  BY <1>1, <1>3, <1>4 DEF DefinitionKept, GetWorkflowDefinitionWithTenant
<1>5. ASSUME NEW r \in Requests, CreateExecution(r)
      PROVE  executed' \subseteq Tenants \X Workflows /\ DefinitionKept'
  <2>1. PICK t \in Tenants, w \in Workflows :
          UnderKey(t, w) /\ executed' = executed \cup {<<t, w>>}
    BY <1>1, <1>5, RequestFields DEF CreateExecution, CatalogInv, RequestOK
  <2>2. /\ executed' \in SUBSET (Tenants \X Workflows)
        /\ \A x \in executed' : UnderKey(x[1], x[2])
    BY <1>1, <2>1 DEF DefinitionKept, GetWorkflowDefinitionWithTenant
  <2>3. PICK X \in SUBSET (Tenants \X Workflows) : X = executed'
    BY <2>2
  <2> QED
    BY <1>3, <2>2, <2>3
<1> QED
  BY <1>4, <1>5 DEF Next, vars, CreateWorkflow, Handle, UpdateWorkflow, DeleteWorkflow,
         ExecuteWorkflow, LookUp, CheckExistence, StoreUpdated, RemoveKeys, StartWalk, Turn,
         BeginScan, ListWorkflows, ListWorkflowsFails

(* Every step keeps the catalog's invariant.                               *)
LEMMA StepCatalogInv == CatalogInv /\ [Next]_vars => CatalogInv'
<1> SUFFICES ASSUME CatalogInv, [Next]_vars PROVE CatalogInv'
  OBVIOUS
<1>1. /\ \A r \in Requests : request'[r] \in Request \cup {IdleRequest} /\ RequestOK(r)'
      /\ \A c \in Clients : walk'[c] \in Walk \cup {IdleWalk} /\ WalkOK(c)'
  BY RequestStep, WalkStep
<1>2. request' \in [Requests -> Request \cup {IdleRequest}]
  <2>1. \/ UNCHANGED request
        \/ \E r \in Requests : \E q : request' = [request EXCEPT ![r] = q]
    BY DEF Next, vars, CreateWorkflow, Handle, UpdateWorkflow, DeleteWorkflow,
           ExecuteWorkflow, LookUp, CheckExistence, StoreUpdated, RemoveKeys, CreateExecution,
           SetRequest, Answer, StartWalk, Turn, BeginScan, ListWorkflows, ListWorkflowsFails
  <2> QED
    BY <1>1, <2>1 DEF CatalogInv, TypeOK
<1>3. walk' \in [Clients -> Walk \cup {IdleWalk}]
  <2>1. \/ UNCHANGED walk
        \/ \E c \in Clients : \E q : walk' = [walk EXCEPT ![c] = q]
    <3>1. ASSUME NEW c \in Clients, NEW scanned, NEW n, ShowPage(c, scanned, n)
          PROVE  \E q : walk' = [walk EXCEPT ![c] = q]
      BY <3>1 DEF ShowPage, SetWalk
    <3>2. ASSUME NEW c \in Clients, ListWorkflows(c)
          PROVE  \E q : walk' = [walk EXCEPT ![c] = q]
      BY <3>1, <3>2 DEF ListWorkflows
    <3>3. ASSUME NEW c \in Clients,
                 \/ \E t \in Tenants, l \in Lists : StartWalk(c, t, l)
                 \/ BeginScan(c) \/ ListWorkflowsFails(c)
          PROVE  \E q : walk' = [walk EXCEPT ![c] = q]
      BY <3>3 DEF StartWalk, BeginScan, ListWorkflowsFails, SetWalk
    <3>4. CASE \E d \in Definitions : CreateWorkflow(d)
      BY <3>4 DEF CreateWorkflow
    <3>5. CASE \E r \in Requests : Handle(r)
      BY <3>5 DEF Handle, UpdateWorkflow, DeleteWorkflow, ExecuteWorkflow, LookUp,
                  CheckExistence, StoreUpdated, RemoveKeys, CreateExecution
    <3> QED
      BY <3>2, <3>3, <3>4, <3>5 DEF Next, vars, Turn
  <2> QED
    BY <1>1, <2>1 DEF CatalogInv, TypeOK
<1>4. (\A c \in Clients : walk[c] # IdleWalk =>
         \A w \in walk[c].shown : definition[w].tenant = walk[c].tenant)'
  BY <1>1 DEF WalkOK, UnderKey
<1>5. TypeOK'
  BY <1>2, <1>3, <1>4, StoreStep, ExecutedStep DEF TypeOK
<1> QED
  BY <1>1, <1>5, ExecutedStep DEF CatalogInv

(* The catalog's state always has its type; in particular a client is only *)
(* ever shown its tenant's workflows (applyWorkflowFilters).               *)
THEOREM TypeCorrect == Spec => []TypeOK
<1>1. CatalogInv => TypeOK
  BY DEF CatalogInv
<1> QED
  BY <1>1, InitCatalogInv, StepCatalogInv, PTL DEF Spec

(* A workflow that was executed for a tenant stays where the worker looks  *)
(* for it (GetWorkflowDefinitionWithTenant), whatever other requests do.   *)
THEOREM DefinitionKeptHolds == Spec => []DefinitionKept
<1>1. CatalogInv => DefinitionKept
  BY DEF CatalogInv
<1> QED
  BY <1>1, InitCatalogInv, StepCatalogInv, PTL DEF Spec
-----------------------------------------------------------------------------
(* Pages of a walk whose scans are exact.                                  *)

(* The workflows of M that a list by name places before w.                 *)
Ahead(l, M, w) == {v \in M : Before(l, <<v, 1>>, <<w, 1>>)}

(* No other workflow of M has the name of w.                               *)
Unique(M, w) == \A v \in M \ {w} : definition[v].name # definition[w].name

(* Sets of workflows are finite.                                           *)
LEMMA FiniteWorkflows ==
  ASSUME NEW M \in SUBSET Workflows
  PROVE  /\ IsFiniteSet(M) /\ Cardinality(M) \in Nat
         /\ \A K \in SUBSET M : /\ IsFiniteSet(K) /\ Cardinality(K) \in Nat
                                /\ Cardinality(K) <= Cardinality(M)
<1>1. IsFiniteSet(Workflows)
  <2>1. 1 \in Int /\ MaxWorkflows \in Int
    BY CatalogAssumption
  <2> QED
    BY <2>1, FS_Interval DEF Workflows
<1>2. IsFiniteSet(M) /\ Cardinality(M) \in Nat
  BY <1>1, FS_Subset, FS_CardinalityType
<1> QED
  BY <1>2, FS_Subset, FS_CardinalityType

(* Which workflows match only grows.                                       *)
LEMMA MatchingGrows ==
  ASSUME CatalogInv, [Next]_vars, NEW t \in Tenants, NEW search
  PROVE  /\ Matching(t, search) \in SUBSET Workflows
         /\ Matching(t, search)' \in SUBSET Workflows
         /\ Matching(t, search) \subseteq Matching(t, search)'
         /\ \A w \in Matching(t, search) : definition'[w] = definition[w]
<1>1. \A w \in Workflows : UnderKey(t, w) => UnderKey(t, w)' /\ definition'[w] = definition[w]
  BY Stable DEF Settled
<1> QED
  BY <1>1 DEF Matching, UnderKey, Stored

(* A row of a name of its own is placed after all rows that precede it by  *)
(* name, and after no other.                                               *)
LEMMA PlaceOfUnique ==
  ASSUME TypeOK, NEW t \in Tenants, NEW l \in Lists, l.by = "name",
         NEW S \in SUBSET Stored, NEW K,
         Matching(t, l.search) \cap K \subseteq S,
         NEW w \in Matching(t, l.search) \cap S, Unique(Matching(t, l.search), w),
         NEW place \in SortWorkflows(Once(Matching(t, l.search) \cap S), l)
  PROVE  /\ <<w, 1>> \in DOMAIN place
         /\ place[<<w, 1>>] \in Nat
         /\ place[<<w, 1>>] < Cardinality(Once(Matching(t, l.search) \cap S))
         /\ Cardinality(Ahead(l, Matching(t, l.search) \cap K, w)) <= place[<<w, 1>>]
         /\ place[<<w, 1>>] <= Cardinality(Ahead(l, Matching(t, l.search), w))
<1> DEFINE M == Matching(t, l.search)
           rows == Once(M \cap S)
           r == <<w, 1>>
           Low == {x \in rows : place[x] < place[r]}
<1>1. /\ M \in SUBSET Workflows /\ M \subseteq Stored
      /\ \A v \in M : definition[v].name \in Nat
  BY CatalogAssumption DEF TypeOK, Matching, Stored, Definition
<1>2. /\ IsFiniteSet(M \cap S) /\ IsFiniteSet(rows) /\ Cardinality(rows) \in Nat
  BY <1>1, FiniteWorkflows, OnceSame, FS_CardinalityType
<1>3. /\ r \in rows
      /\ \A x \in rows : x[1] \in M \cap S /\ x = <<x[1], 1>>
  BY DEF Once
<1>4. /\ place \in [rows -> 0 .. Cardinality(rows) - 1]
      /\ \A a, b \in rows : a # b => place[a] # place[b]
      /\ \A a, b \in rows : Before(l, a, b) /\ a # b => place[a] < place[b]
  BY DEF SortWorkflows
<1>5. Cardinality(Low) = place[r] /\ IsFiniteSet(Low)
  <2> HIDE DEF rows, r
  <2> QED
    BY <1>2, <1>3, <1>4, Rank, FS_Subset
<1>6. \A v \in M : Before(l, <<v, 1>>, r) => v # w
  BY <1>1 DEF Before, Name
<1>7. Once(Ahead(l, M \cap K, w)) \subseteq Low
  <2> SUFFICES ASSUME NEW v \in M \cap K, Before(l, <<v, 1>>, r)
               PROVE  <<v, 1>> \in Low
    BY DEF Once, Ahead
  <2>1. <<v, 1>> \in rows /\ <<v, 1>> # r
    BY <1>6 DEF Once
  <2> QED
    BY <1>3, <1>4, <2>1
<1>8. Low \subseteq Once(Ahead(l, M, w))
  <2> SUFFICES ASSUME NEW x \in Low PROVE x \in Once(Ahead(l, M, w))
    OBVIOUS
  <2>1. x \in rows /\ x # r /\ place[x] < place[r] /\ place[x] \in Nat /\ place[r] \in Nat
    <3> HIDE DEF rows, r
    <3> QED
      BY <1>2, <1>3, <1>4
  <2>2. x[1] \in M /\ x = <<x[1], 1>> /\ x[1] # w
    BY <1>3, <2>1
  <2>3. definition[x[1]].name # definition[w].name
    BY <2>2 DEF Unique
  <2>4. Before(l, x, r) \/ Before(l, r, x)
    <3>1. Name(x) = definition[x[1]].name /\ Name(r) = definition[w].name
      BY DEF Name
    <3>2. Name(x) \in Nat /\ Name(r) \in Nat /\ Name(x) # Name(r)
      BY <1>1, <2>2, <2>3, <3>1
    <3>3. Name(x) < Name(r) \/ Name(r) < Name(x)
      BY <3>2
    <3> QED
      BY <3>3 DEF Before
  <2>5. Before(l, x, r)
    <3>1. Before(l, r, x) => place[r] < place[x]
      BY <1>3, <1>4, <2>1
    <3> HIDE DEF r
    <3> QED
      BY <2>1, <2>4, <3>1
  <2> HIDE DEF r
  <2> QED
    BY <2>2, <2>5 DEF Once, Ahead, r
<1>9. Cardinality(Ahead(l, M \cap K, w)) <= Cardinality(Low)
  <2>1. Ahead(l, M \cap K, w) \in SUBSET Workflows
    BY <1>1 DEF Ahead
  <2>2. /\ IsFiniteSet(Ahead(l, M \cap K, w))
        /\ Cardinality(Once(Ahead(l, M \cap K, w))) = Cardinality(Ahead(l, M \cap K, w))
    BY <2>1, FiniteWorkflows, OnceSame
  <2> HIDE DEF Low, M
  <2>3. Cardinality(Once(Ahead(l, M \cap K, w))) <= Cardinality(Low)
    BY <1>5, <1>7, FS_Subset
  <2> QED
    BY <2>2, <2>3
<1>10. Cardinality(Low) <= Cardinality(Ahead(l, M, w))
  <2>1. Ahead(l, M, w) \in SUBSET Workflows
    BY <1>1 DEF Ahead
  <2>2. /\ IsFiniteSet(Once(Ahead(l, M, w)))
        /\ Cardinality(Once(Ahead(l, M, w))) = Cardinality(Ahead(l, M, w))
    BY <2>1, FiniteWorkflows, OnceSame
  <2> HIDE DEF Low, M
  <2>3. Cardinality(Low) <= Cardinality(Once(Ahead(l, M, w)))
    BY <1>8, <2>2, FS_Subset
  <2> QED
    BY <2>2, <2>3
<1>11. place[r] \in Nat /\ place[r] < Cardinality(rows)
  <2> HIDE DEF r, rows
  <2> QED
    BY <1>2, <1>3, <1>4
<1> QED
  BY <1>3, <1>4, <1>5, <1>9, <1>10, <1>11
(* What is known of the pages that are still to come.                      *)
Seen(q) == IF q.phase = "scanning" THEN q.known ELSE Workflows

NextOK(c) ==
  LET q == walk[c]
  IN  q # IdleWalk /\ q.phase # "over" /\ q.next > 0 /\ q.disturbed = 0 =>
        Offset(Params(q.list, q.next)) < Cardinality(Matching(q.tenant, q.list.search))

(* A workflow of a name of its own that was not shown yet is not behind    *)
(* the next page.                                                          *)
ToComeOK(c) ==
  LET q == walk[c]
      M == Matching(q.tenant, q.list.search)
  IN  q # IdleWalk /\ q.list.by = "name" /\ q.disturbed = 0 =>
        \A w \in q.initial \ q.shown :
          Unique(M, w) =>
            /\ q.phase # "over"
            /\ Offset(Params(q.list, q.next))
                 <= Cardinality(Ahead(q.list, M \cap Seen(q), w))

PagesInv == /\ CatalogInv
            /\ \A c \in Clients : NextOK(c) /\ ToComeOK(c)

(* A page that an exact scan shows leaves the next one where it belongs.   *)
LEMMA PageStep ==
  ASSUME CatalogInv, NEW c \in Clients, NextOK(c), ToComeOK(c),
         walk[c] \in Walk, walk[c].phase = "scanning", UNCHANGED definition,
         NEW S \in SUBSET Stored, NEW rows, NEW place, NEW more \in BOOLEAN,
         NEW n \in 0 .. MaxDisturbed, Shown(c, S, rows, place, more, n)
  PROVE  NextOK(c)' /\ ToComeOK(c)'
<1> DEFINE q == walk[c]
<1>1. PICK l \in Lists, t \in Tenants, k \in Nat : l = q.list /\ t = q.tenant /\ k = q.next
  BY DEF Walk
<1> DEFINE M == Matching(t, l.search)
           page == PaginateWorkflows(place, Params(l, k))
           off == Offset(Params(l, k))
           lim == Limit(Params(l, k))
           next == NextPosition(l, k)
<1>2. /\ off \in Nat /\ lim \in Nat /\ lim > 0 /\ next \in Nat /\ next > 0
      /\ Offset(Params(l, next)) = off + lim
  BY NextPageFollows
<1>3. /\ q.known \cap Stored \subseteq S
      /\ n = 0 => q.disturbed = 0 /\ rows = Once(M \cap S)
      /\ place \in SortWorkflows(rows, l)
      /\ more = (off + lim < Cardinality(rows))
  BY <1>1 DEF Shown, HasNext
<1>4. walk'[c] = [q EXCEPT !.phase = IF more THEN "ready" ELSE "over",
                           !.next = IF more THEN next ELSE 0,
                           !.known = {}, !.shown = @ \cup page, !.disturbed = n]
  BY <1>1 DEF Shown
<1> HIDE DEF page, next
<1>5. /\ walk'[c].phase = IF more THEN "ready" ELSE "over"
      /\ walk'[c].next = IF more THEN next ELSE 0
      /\ walk'[c].shown = q.shown \cup page /\ walk'[c].disturbed = n
      /\ walk'[c].list = l /\ walk'[c].tenant = t /\ walk'[c].initial = q.initial
  BY <1>1, <1>4 DEF Walk
<1>6. M' = M /\ M \in SUBSET Workflows
  BY DEF Matching, Stored
<1>7. (Matching(walk[c].tenant, walk[c].list.search))' = M
  BY <1>5, <1>6 DEF Matching
<1>8. NextOK(c)'
  <2> SUFFICES ASSUME more, n = 0 PROVE off + lim < Cardinality(M)
    BY <1>2, <1>5, <1>7 DEF NextOK
  <2>1. off + lim < Cardinality(Once(M \cap S))
    BY <1>3
  <2>2. M \cap S \in SUBSET M /\ M \cap S \in SUBSET Workflows
    BY <1>6
  <2> HIDE DEF M, off, lim
  <2>3. Cardinality(Once(M \cap S)) = Cardinality(M \cap S)
    BY <2>2, FiniteWorkflows, OnceSame
  <2>4. /\ Cardinality(M \cap S) <= Cardinality(M)
        /\ Cardinality(M \cap S) \in Nat /\ Cardinality(M) \in Nat
    BY <1>6, <2>2, FiniteWorkflows
  <2> QED
    BY <1>2, <2>1, <2>3, <2>4
<1>9. ASSUME l.by = "name", n = 0, NEW w \in q.initial, w \notin q.shown \cup page,
             Unique(M, w)
      PROVE  more /\ off + lim <= Cardinality(Ahead(l, M, w))
  <2>1. /\ q.initial \subseteq M /\ q.initial \subseteq q.known /\ M \subseteq Stored
        /\ q # IdleWalk
    BY <1>1 DEF CatalogInv, WalkOK, Matching, IdleWalk
  <2>2. w \in M \cap S
    BY <1>3, <2>1
  <2>3. off <= Cardinality(Ahead(l, M \cap q.known, w))
    BY <1>1, <1>3, <1>9, <2>1 DEF ToComeOK, Seen
  <2>4. M \cap q.known \subseteq S
    BY <1>3, <2>1
  <2>5. place \in SortWorkflows(Once(M \cap S), l)
    BY <1>3, <1>9
  <2>6. /\ <<w, 1>> \in DOMAIN place /\ place[<<w, 1>>] \in Nat
        /\ place[<<w, 1>>] < Cardinality(rows)
        /\ Cardinality(Ahead(l, M \cap q.known, w)) <= place[<<w, 1>>]
        /\ place[<<w, 1>>] <= Cardinality(Ahead(l, M, w))
    BY <1>3, <1>9, <2>2, <2>4, <2>5, PlaceOfUnique DEF CatalogInv
  <2>7. /\ Ahead(l, M, w) \in SUBSET Workflows
        /\ Ahead(l, M \cap q.known, w) \in SUBSET Workflows
    BY <1>6 DEF Ahead
  <2>8. /\ Cardinality(Ahead(l, M, w)) \in Nat
        /\ Cardinality(Ahead(l, M \cap q.known, w)) \in Nat
    BY <2>7, FiniteWorkflows
  <2>9. Cardinality(rows) \in Nat
    BY <1>3, <1>6, <1>9, FiniteWorkflows, OnceSame, FS_CardinalityType
  <2>10. ~(off <= place[<<w, 1>>] /\ place[<<w, 1>>] < off + lim)
    <3> SUFFICES ASSUME off <= place[<<w, 1>>] /\ place[<<w, 1>>] < off + lim
                 PROVE  w \in page
      BY <1>9
    <3> QED
      BY <2>6 DEF page, PaginateWorkflows
  <2> HIDE DEF off, lim, M
  <2>11. off + lim <= place[<<w, 1>>]
    BY <1>2, <2>3, <2>6, <2>8, <2>10
  <2>12. off + lim < Cardinality(rows)
    BY <1>2, <2>6, <2>9, <2>11
  <2>13. off + lim <= Cardinality(Ahead(l, M, w))
    BY <1>2, <2>6, <2>8, <2>11
  <2>14. more
    BY <1>3, <2>12
  <2> QED
    BY <2>13, <2>14
<1>10. ToComeOK(c)'
  <2>1. SUFFICES ASSUME l.by = "name", n = 0, NEW w \in q.initial, w \notin q.shown \cup page,
                        Unique(Matching(walk[c].tenant, walk[c].list.search), w)'
                 PROVE  (/\ walk[c].phase # "over"
                         /\ Offset(Params(walk[c].list, walk[c].next))
                              <= Cardinality(Ahead(walk[c].list,
                                   Matching(walk[c].tenant, walk[c].list.search)
                                     \cap Seen(walk[c]), w)))'
    BY <1>5 DEF ToComeOK
  <2>2. Unique(M, w)
    BY <1>7, <2>1 DEF Unique
  <2>3. more /\ off + lim <= Cardinality(Ahead(l, M, w))
    BY <1>9, <2>1, <2>2
  <2>4. (Matching(walk[c].tenant, walk[c].list.search) \cap Seen(walk[c]))' = M
    BY <1>5, <1>6, <1>7, <2>3 DEF Seen, Workflows
  <2>5. Ahead(walk[c].list,
              Matching(walk[c].tenant, walk[c].list.search) \cap Seen(walk[c]), w)'
          = Ahead(l, M, w)
    BY <1>5, <2>4 DEF Ahead, Before, Name
  <2>6. Offset(Params(walk[c].list, walk[c].next))' = off + lim
    BY <1>2, <1>5, <2>3
  <2> QED
    BY <1>5, <2>3, <2>5, <2>6
<1> QED
  BY <1>8, <1>10
(* Every other step leaves the next page where it was, or begins a walk.   *)
LEMMA OtherPageStep ==
  ASSUME CatalogInv, [Next]_vars, NEW c \in Clients, NextOK(c), ToComeOK(c),
         walk[c] # IdleWalk, walk[c] \in Walk,
         walk'[c].phase = "over" <=> walk[c].phase = "over",
         walk'[c].next = walk[c].next, walk'[c].list = walk[c].list,
         walk'[c].tenant = walk[c].tenant, walk'[c].initial = walk[c].initial,
         walk'[c].shown = walk[c].shown, walk'[c].disturbed = walk[c].disturbed,
         \/ Stored \subseteq Seen(walk'[c])
         \/ Seen(walk[c]) \subseteq Seen(walk'[c])
  PROVE  NextOK(c)' /\ ToComeOK(c)'
<1>1. PICK l \in Lists, t \in Tenants, k \in Nat :
        l = walk[c].list /\ t = walk[c].tenant /\ k = walk[c].next
  BY DEF Walk
<1> DEFINE M == Matching(t, l.search)
           off == Offset(Params(l, k))
<1>2. /\ M \in SUBSET Workflows /\ M' \in SUBSET Workflows /\ M \subseteq M'
      /\ \A w \in M : definition'[w] = definition[w]
  BY MatchingGrows
<1>3. off \in Nat
  BY NextPageFollows
<1>4. M \subseteq Stored
  BY DEF Matching
<1>5. /\ Matching(walk[c].tenant, walk[c].list.search) = M
      /\ Matching(walk[c].tenant, walk[c].list.search)' = M'
      /\ Offset(Params(walk[c].list, walk[c].next)) = off
      /\ Offset(Params(walk[c].list, walk[c].next))' = off
  BY <1>1 DEF Matching
<1> HIDE DEF off, M
<1>6. M' \in SUBSET Workflows
      /\ Cardinality(M) \in Nat /\ Cardinality(M') \in Nat
      /\ Cardinality(M) <= Cardinality(M')
  BY <1>2, FiniteWorkflows
<1>7. NextOK(c)'
  BY <1>3, <1>5, <1>6 DEF NextOK
<1>8. ToComeOK(c)'
  <2>1. SUFFICES ASSUME l.by = "name", walk[c].disturbed = 0,
                        NEW w \in walk[c].initial, w \notin walk[c].shown,
                        Unique(Matching(walk[c].tenant, walk[c].list.search), w)'
                 PROVE  (/\ walk[c].phase # "over"
                         /\ Offset(Params(walk[c].list, walk[c].next))
                              <= Cardinality(Ahead(walk[c].list,
                                   Matching(walk[c].tenant, walk[c].list.search)
                                     \cap Seen(walk[c]), w)))'
    BY <1>1 DEF ToComeOK
  <2>2. w \in M
    BY <1>5 DEF CatalogInv, WalkOK
  <2>3. Unique(M, w)
    BY <1>2, <1>5, <2>1, <2>2 DEF Unique
  <2>4. /\ walk[c].phase # "over"
        /\ off <= Cardinality(Ahead(l, M \cap Seen(walk[c]), w))
    BY <1>1, <1>5, <2>1, <2>3 DEF ToComeOK
  <2>5. M \cap Seen(walk[c]) \subseteq M' \cap Seen(walk'[c])
    BY <1>2, <1>4
  <2>6. Ahead(l, M \cap Seen(walk[c]), w)
          \subseteq Ahead(walk[c].list, Matching(walk[c].tenant, walk[c].list.search)
                                          \cap Seen(walk[c]), w)'
    BY <1>1, <1>2, <1>5, <2>2, <2>5 DEF Ahead, Before, Name, Seen, Workflows
  <2>7. Ahead(walk[c].list, Matching(walk[c].tenant, walk[c].list.search)
                              \cap Seen(walk[c]), w)' \in SUBSET Workflows
    BY <1>2, <1>5 DEF Ahead
  <2>8. /\ Cardinality(Ahead(l, M \cap Seen(walk[c]), w)) \in Nat
        /\ Cardinality(Ahead(walk[c].list, Matching(walk[c].tenant, walk[c].list.search)
                                             \cap Seen(walk[c]), w))' \in Nat
        /\ Cardinality(Ahead(l, M \cap Seen(walk[c]), w))
             <= Cardinality(Ahead(walk[c].list, Matching(walk[c].tenant, walk[c].list.search)
                                                  \cap Seen(walk[c]), w))'
    BY <2>6, <2>7, FiniteWorkflows
  <2> QED
    BY <1>3, <1>5, <2>4, <2>8
<1> QED
  BY <1>7, <1>8
(* Every step keeps what is known of the pages to come.                    *)
LEMMA StepPagesInv == PagesInv /\ [Next]_vars => PagesInv'
<1> SUFFICES ASSUME PagesInv, [Next]_vars PROVE PagesInv'
  OBVIOUS
<1>1. CatalogInv /\ CatalogInv' /\ TypeOK
  BY StepCatalogInv DEF PagesInv, CatalogInv
<1>2. ASSUME NEW c \in Clients PROVE NextOK(c)' /\ ToComeOK(c)'
  <2>1. /\ NextOK(c) /\ ToComeOK(c)
        /\ walk \in [Clients -> Walk \cup {IdleWalk}]
        /\ walk[c] # IdleWalk => walk[c] \in Walk
    BY <1>1 DEF PagesInv, TypeOK
  <2>2. CASE walk'[c] = walk[c]
    <3>1. CASE walk[c] = IdleWalk
      BY <2>2, <3>1 DEF NextOK, ToComeOK
    <3>2. CASE walk[c] # IdleWalk
      BY <1>1, <2>1, <2>2, <3>2, OtherPageStep
    <3> QED
      BY <3>1, <3>2
  <2>3. ASSUME NEW t \in Tenants, NEW l \in Lists, StartWalk(c, t, l)
        PROVE  NextOK(c)' /\ ToComeOK(c)'
    <3>1. /\ walk'[c].phase = "ready" /\ walk'[c].next = 0
          /\ walk'[c].list = l /\ walk'[c].tenant = t
      BY <2>1, <2>3 DEF StartWalk, SetWalk
    <3>2. Offset(Params(l, 0)) = 0
      BY CatalogAssumption DEF Params, PageParams, OffsetParams, SetDefaults, ByPage, Offset,
                               ListParams
    <3>3. Matching(t, l.search)' \in SUBSET Workflows
      BY DEF Matching, Stored, Workflows
    <3>4. \A w : Ahead(l, Matching(t, l.search) \cap Seen(walk[c]), w)' \in SUBSET Workflows
      BY <3>3 DEF Ahead
    <3>5. \A w : Cardinality(Ahead(l, Matching(t, l.search) \cap Seen(walk[c]), w))' >= 0
      BY <3>4, FiniteWorkflows
    <3>6. NextOK(c)'
      BY <3>1 DEF NextOK
    <3>7. ASSUME NEW w
          PROVE  (Offset(Params(walk[c].list, walk[c].next))
                    <= Cardinality(Ahead(walk[c].list,
                         Matching(walk[c].tenant, walk[c].list.search)
                           \cap Seen(walk[c]), w)))'
      <4>1. Ahead(walk[c].list, Matching(walk[c].tenant, walk[c].list.search)
                                  \cap Seen(walk[c]), w)'
              = Ahead(l, Matching(t, l.search) \cap Seen(walk[c]), w)'
        BY <3>1 DEF Ahead, Matching
      <4>2. Offset(Params(walk[c].list, walk[c].next))' = 0
        BY <3>1, <3>2
      <4> QED
        BY <3>5, <4>1, <4>2
    <3> QED
      BY <3>1, <3>6, <3>7 DEF ToComeOK
  <2>4. CASE BeginScan(c) \/ ListWorkflowsFails(c)
    <3>1. walk[c] # IdleWalk /\ walk[c].phase \in {"ready", "scanning"}
      BY <2>4 DEF BeginScan, ListWorkflowsFails, IdleWalk
    <3>2. \/ walk'[c] = [walk[c] EXCEPT !.phase = "scanning", !.known = Stored]
          \/ walk'[c] = [walk[c] EXCEPT !.phase = "ready", !.known = {}]
      BY <2>1, <2>4 DEF BeginScan, ListWorkflowsFails, SetWalk
    <3>3. /\ walk[c] \in Walk
          /\ walk'[c].phase # "over" /\ walk[c].phase # "over"
          /\ walk'[c].next = walk[c].next /\ walk'[c].list = walk[c].list
          /\ walk'[c].tenant = walk[c].tenant /\ walk'[c].initial = walk[c].initial
          /\ walk'[c].shown = walk[c].shown /\ walk'[c].disturbed = walk[c].disturbed
          /\ Stored \subseteq Seen(walk'[c])
      BY <2>1, <3>1, <3>2 DEF Walk, Seen, Stored
    <3> QED
      BY <1>1, <2>1, <3>1, <3>3, OtherPageStep
  <2>5. ASSUME UNCHANGED definition, ListWorkflows(c) PROVE NextOK(c)' /\ ToComeOK(c)'
    <3>1. /\ walk[c] \in Walk /\ walk[c].phase = "scanning"
          /\ \E S \in SUBSET Stored : \E rows, place : \E more \in BOOLEAN :
               \E n \in 0 .. MaxDisturbed : Shown(c, S, rows, place, more, n)
      BY <1>1, <2>5, PageShown
    <3> QED
      BY <1>1, <2>1, <2>5, <3>1, PageStep
  <2> QED
    BY <1>1, <2>2, <2>3, <2>4, <2>5, WalkCases
<1> QED
  BY <1>1, <1>2 DEF PagesInv

(* No walk has begun at first.                                             *)
LEMMA InitPagesInv == Init => PagesInv
  BY InitCatalogInv DEF PagesInv, Init, NextOK, ToComeOK

(* The page that has_next announces is there when a client asks for it     *)
(* (NewPaginationMeta), as long as scans repeat no key.                    *)
THEOREM NextPageExistsHolds == Spec => []NextPageExists
<1>1. PagesInv => NextPageExists
  BY DEF PagesInv, NextOK, NextPageExists
<1> QED
  BY <1>1, InitPagesInv, StepPagesInv, PTL DEF Spec

(* A walk by name misses no workflow of a name of its own that was there   *)
(* when it began, although every page is cut from a new scan               *)
(* (ListWorkflowsWithFilters).                                             *)
THEOREM WalkCompleteHolds == Spec => []WalkComplete
<1>1. PagesInv => WalkComplete
  BY DEF PagesInv, ToComeOK, WalkComplete, Unique
<1> QED
  BY <1>1, InitPagesInv, StepPagesInv, PTL DEF Spec
=============================================================================
