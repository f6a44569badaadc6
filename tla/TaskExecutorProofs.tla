------------------------- MODULE TaskExecutorProofs -------------------------
(***************************************************************************)
(* Proofs about TaskExecutor, for any tenants, processes, goroutines,      *)
(* tasks, settings and bounds.                                             *)
(***************************************************************************)
EXTENDS TaskExecutor, FiniteSetTheorems, WellFoundedInduction, TLAPS

EventTypes == {"task.requested", "task.completed", "task.dlq", "timer.scheduled",
               "timer.fired", "workflow.dlq"}

Entries == [type : EventTypes, request : Nat, success : BOOLEAN]

AnyTask == UNION {Tasks[r] : r \in Requests}

Typed ==
  /\ stream \in [Keys -> Seq(Entries)]
  /\ cursor \in [Keys -> Nat] /\ \A k \in Keys : cursor[k] <= Len(stream[k])
  /\ group \subseteq Existing
  /\ known \in [Processes -> [keys : SUBSET Existing, size : Nat]]
  /\ closed \in [Processes -> BOOLEAN]
  /\ faults \in Nat /\ losses \in Nat /\ faults + losses <= MaxTroubles
  /\ requests \in Seq(AnyTask)
  /\ Len(requests) \in 0 .. Len(Tasks) /\ DOMAIN requests = 1 .. Len(requests)
  /\ \A i \in 1 .. Len(requests) : requests[i] \in Tasks[i]
  /\ job \in [Processes -> [Permits -> Job]]
  /\ acked \subseteq 1 .. Len(requests)
  /\ cache \in [Processes -> {"absent", "fresh", "expired"}]
  /\ access \in [Processes -> [Permits -> Accesses]]
  /\ calls \in [Requests -> Nat] /\ uncaught \in [Requests -> Nat]
  /\ died \in BOOLEAN

(* The request was given to a goroutine, or lost on the way to one.        *)
Taken(r) == \E x \in Published("task.requested", r) : x[2] <= cursor[x[1]]

AtMostOne(S) == \A x, y \in S : x = y

(* Only requests are requested.                                            *)
Asked == \A r : Published("task.requested", r) # {} => r \in 1 .. Len(requests)

(* Attempts that the policy of the request's task allows.                  *)
Allowed(r, n) ==
  TaskOf(r).type = "try" /\ uncaught[r] = 0 =>
    \A policy \in TaskOf(r).catch.retry : policy.count > 0 => n <= policy.count

Told(r) == Accounted(r) \/ Untold(r)

(* What the streams hold of a request, and how often it was tried.         *)
RequestOK(r) ==
  /\ AtMostOne(Published("task.requested", r))
  /\ AtMostOne(Completions(r)) /\ AtMostOne(DeadLetters(r))
  /\ Completions(r) # {} \/ DeadLetters(r) # {} => Taken(r)
  /\ ~Taken(r) => calls[r] = 0 /\ uncaught[r] = 0
  /\ faults = 0 => Completions(r) = {} \/ DeadLetters(r) = {}
  /\ calls[r] <= MaxTries /\ uncaught[r] <= calls[r]
  /\ r <= Len(requests) => Allowed(r, calls[r])
  /\ r \in acked => Told(r)

Meant(j) ==
  LET filter == TaskOf(j.request).catch.filter
  IN  \A key \in DOMAIN filter : Means(filter[key], WorkflowError(j.error)[key])

(* Nobody else handles the request of a goroutine.                         *)
Alone(p, g) ==
  \A q \in Processes, h \in Permits :
    job[q][h].request = job[p][g].request => q = p /\ h = g

(* A goroutine and its request: nothing is published of it before its      *)
(* phase comes, and on a client that is not closed nothing is forgotten.   *)
Handles(p, g, j, r) ==
  /\ r <= Len(requests) /\ Taken(r) /\ Alone(p, g)
  /\ Completions(r) # {} => \/ j.phase = "acking"
                            \/ j.phase = "dead" /\ faults > 0
  /\ DeadLetters(r) # {} => j.phase = "acking"
  /\ j.phase = "attempting" => /\ j.attempt = calls[r] + 1 /\ Allowed(r, j.attempt)
                               /\ j.attempt <= MaxTries
  /\ j.recovered => TaskOf(r).catch.recovery # {}
  /\ j.phase = "dead" /\ ~closed[p] => MayErr(TaskOf(r)) \/ faults > 0
  /\ j.phase = "acking" /\ ~closed[p] => Told(r)
  /\ j.phase = "publishing" /\ j.success /\ j.error # NoError => Meant(j)

JobOK(p, g) ==
  LET j == job[p][g]
  IN  /\ j.phase = "idle" <=> j.request = NoRequest
      /\ j.request # NoRequest => Handles(p, g, j, j.request)
      /\ access[p][g] # "none" => j.phase = "attempting"

(* Nobody is about to remove a document that has not expired.              *)
DocumentOK(p) == \A g \in Permits : access[p][g] = "deleting" => cache[p] # "fresh"

ExecutorInv ==
  /\ Typed /\ Asked
  /\ \A r \in Requests : RequestOK(r)
  /\ \A p \in Processes, g \in Permits : JobOK(p, g)
  /\ \A p \in Processes : DocumentOK(p)
-----------------------------------------------------------------------------
(* Constants.                                                              *)

(* What the instance's tasks are.                                          *)
LEMMA TaskTyped ==
  ASSUME Typed, NEW r \in 1 .. Len(requests)
  PROVE  /\ r \in Requests /\ r # NoRequest
         /\ TenantOf(r) \in Tenants /\ TenantOf(r) # "" /\ TaskOf(r).call \in CallConfig
         /\ \A a, b \in TaskOf(r).catch.retry : a = b
         /\ TaskOf(r).catch.retry \subseteq Policy
<1>1. r \in DOMAIN Tasks /\ requests[r] \in Tasks[r] /\ r # 0
  BY ExecutorAssumption DEF Typed
<1>2. PICK task \in Tasks[r] : task = requests[r]
  BY <1>1
<1>3. /\ task.tenant \in Tenants /\ task.call \in CallConfig
      /\ task.catch.retry \subseteq Policy
      /\ \A a, b \in task.catch.retry : a = b
  BY <1>1, ExecutorAssumption
<1>4. task.tenant # ""
  BY <1>3, StreamAssumption
<1> QED
  BY <1>1, <1>2, <1>3, <1>4 DEF TaskOf, TenantOf, Requests, NoRequest

(* A set of numbers has a least one (WFMin).                               *)
LEMMA Least ==
  ASSUME NEW S, S \subseteq Nat, S # {}
  PROVE  \E i \in S : \A j \in S : i <= j
<1>1. PICK i \in S : \A j \in S : ~ (<<j, i>> \in OpToRel(<, Nat))
  BY NatLessThanWellFounded, WFMin
<1>2. \A j \in S : ~ (j < i)
  BY <1>1 DEF OpToRel
<1> QED
  BY <1>2

(* Requests are counted from one.                                          *)
LEMMA RequestsAre == /\ Requests = 1 .. Len(Tasks) /\ Len(Tasks) \in Nat
                     /\ NoRequest \notin Requests
BY ExecutorAssumption DEF Requests, NoRequest

(* A set with at most one element (FS_EmptySet, FS_Singleton).             *)
LEMMA AtMostOneCounts ==
  ASSUME NEW S, AtMostOne(S)
  PROVE  Cardinality(S) <= 1
<1>1. CASE S = {}
  BY <1>1, FS_EmptySet
<1>2. CASE S # {}
  <2>1. PICK x : x \in S
    BY <1>2
  <2>2. S = {x}
    BY <2>1 DEF AtMostOne
  <2>3. Cardinality({x}) = 1
    BY FS_Singleton
  <2> QED
    BY <2>2, <2>3
<1> QED
  BY <1>1, <1>2

-----------------------------------------------------------------------------
(* Outcomes.                                                               *)

Outcome1 == [success : BOOLEAN, error : Statuses \cup {NoError, InternalError}]

(* A call may fail with an error or without.                               *)
LEMMA CallOutcomes ==
  ASSUME NEW call \in CallConfig
  PROVE  ExecuteCall(call) \subseteq Outcome1
<1>1. Succeeded \in Outcome1 /\ ErrorResult \in Outcome1
  BY DEF Succeeded, ErrorResult, Outcome, Outcome1
<1>2. \A s \in Statuses : Outcome(FALSE, s) \in Outcome1
  BY DEF Outcome, Outcome1
<1>3. ASSUME NEW c PROVE ExecuteOperation(c) \subseteq Outcome1
  <2>1. CASE BuildHTTPRequest(c)
    BY <1>1, <1>2, <2>1 DEF ExecuteOperation
  <2>2. CASE ~BuildHTTPRequest(c)
    BY <1>1, <2>2 DEF ExecuteOperation
  <2> QED
    BY <2>1, <2>2
<1>4. ExecuteOpenAPICall(call) \subseteq Outcome1
  BY <1>3 DEF ExecuteOpenAPICall
<1>5. ExecuteHTTPCall \subseteq Outcome1
  BY <1>1 DEF ExecuteHTTPCall
<1>6. CASE ~Validate(call)
  <2>1. ExecuteCall(call) = {ErrorResult}
    BY <1>6 DEF ExecuteCall, Validate
  <2> QED
    BY <1>1, <2>1
<1>7. CASE Validate(call) /\ call.type = "openapi"
  <2>1. ExecuteCall(call) = ExecuteOpenAPICall(call)
    BY <1>7 DEF ExecuteCall
  <2> QED
    BY <1>4, <2>1
<1>8. CASE Validate(call) /\ call.type = "http"
  <2>1. ExecuteCall(call) = ExecuteHTTPCall
    BY <1>8 DEF ExecuteCall
  <2> QED
    BY <1>5, <2>1
<1> QED
  BY <1>6, <1>7, <1>8 DEF Validate

(* So may every attempt.                                                   *)
LEMMA AttemptTyped ==
  ASSUME Typed, NEW p \in Processes, NEW g \in Permits,
         Request(p, g) \in 1 .. Len(requests), NEW o \in AttemptOutcomes(p, g)
  PROVE  o \in Outcome1
<1>1. Succeeded \in Outcome1 /\ ErrorResult \in Outcome1
  BY DEF Succeeded, ErrorResult, Outcome, Outcome1
<1>2. Outcome(FALSE, InternalError) \in Outcome1
  BY DEF Outcome, Outcome1
<1> DEFINE task == Task(p, g)
<1>3. task.call \in CallConfig
  BY TaskTyped DEF Task
<1>4. ExecuteCall(task.call) \subseteq Outcome1
  BY <1>3, CallOutcomes
<1>5. ExecuteTryTasks(task.call) \subseteq Outcome1
  BY <1>2, <1>4 DEF ExecuteTryTasks
<1>6. ExecuteSimple \subseteq Outcome1
  BY <1>1 DEF ExecuteSimple
<1>7. Outcomes(task) \subseteq Outcome1
  BY <1>4, <1>5, <1>6 DEF Outcomes
<1> QED
  BY <1>1, <1>7 DEF AttemptOutcomes

(* A recovery says whether it succeeded.                                   *)
LEMMA RecoveryTyped ==
  ASSUME NEW types, NEW o \in ExecuteRecoveryTasks(types)
  PROVE  o.success \in BOOLEAN
<1>1. Succeeded.success = TRUE /\ ErrorResult.success = FALSE
  BY DEF Succeeded, ErrorResult, Outcome
<1>2. \A type : ExecuteRecovery(type) \subseteq {Succeeded, ErrorResult}
  BY DEF ExecuteRecovery, ExecuteHTTPCall, ExecuteSimple
<1>3. ExecuteRecoveryTasks(types) \subseteq {Succeeded, ErrorResult}
  BY <1>2 DEF ExecuteRecoveryTasks
<1> QED
  BY <1>1, <1>3

(* What the handler of errors decides, it has a reason for.                *)
LEMMA HandlingJustified ==
  ASSUME NEW catch, NEW error, NEW attempt, NEW late,
         NEW h \in HandleError(catch, error, attempt, late)
  PROVE  /\ h.action \in {"fail", "retry", "recover", "ignore"}
         /\ h.action # "fail" => MatchesFilter(error, catch.filter)
         /\ h.action = "retry" => ShouldRetry(catch, attempt, late)
         /\ h.action = "recover" => catch.recovery # {}
<1>1. \A action, delay : Handling(action, delay).action = action
  BY DEF Handling
<1>2. \A x \in Retries(catch, attempt) : x.action = "retry"
  BY <1>1 DEF Retries
<1> QED
  BY <1>1, <1>2 DEF HandleError

(* A filter that matches an error means it.                                *)
LEMMA MatchMeans ==
  ASSUME NEW error, NEW filter, MatchesFilter(error, filter), NEW key \in DOMAIN filter
  PROVE  Means(filter[key], WorkflowError(error)[key])
<1> DEFINE expected == filter[key]
           actual   == WorkflowError(error)[key]
<1>1. MatchesValue(actual, expected)
  BY DEF MatchesFilter
<1> SUFFICES Means(expected, actual)
  OBVIOUS
<1> HIDE DEF expected, actual
<1>2. CASE expected.kind = "pattern"
  BY <1>1, <1>2 DEF MatchesValue, Means
<1>3. CASE expected.kind = "list"
  <2>1. \E x \in expected.value : x.value = actual.value
    BY <1>1, <1>3 DEF MatchesValue, SameValue
  <2> QED
    BY <1>3, <2>1 DEF Means
<1>4. CASE expected.kind \notin {"pattern", "list"}
  <2>1. expected.value = actual.value
    BY <1>1, <1>4 DEF MatchesValue, SameValue
  <2> QED
    BY <1>4, <2>1 DEF Means
<1> QED
  BY <1>2, <1>3, <1>4
-----------------------------------------------------------------------------
(* Streams.                                                                *)

(* An entry has a place in a stream.                                       *)
LEMMA PublishedIs ==
  ASSUME NEW type, NEW r, NEW x
  PROVE  x \in Published(type, r) <=>
           \E k \in Keys : \E i \in DOMAIN stream[k] :
             x = <<k, i>> /\ stream[k][i].type = type /\ stream[k][i].request = r
BY DEF Published

StreamGrows ==
  \A k \in Keys :
    /\ Len(stream[k]) <= Len(stream'[k])
    /\ \A i \in 1 .. Len(stream[k]) : stream'[k][i] = stream[k][i]

(* An entry is appended.                                                   *)
LEMMA Appended ==
  ASSUME Typed, NEW k \in Keys, NEW e \in Entries,
         stream' = [stream EXCEPT ![k] = Append(@, e)]
  PROVE  /\ stream' \in [Keys -> Seq(Entries)] /\ StreamGrows
         /\ \A x \in Keys : x # k => stream'[x] = stream[x]
         /\ Len(stream'[k]) = Len(stream[k]) + 1
         /\ stream'[k][Len(stream[k]) + 1] = e
<1>1. stream \in [Keys -> Seq(Entries)]
  BY DEF Typed
<1>2. stream[k] \in Seq(Entries)
  BY <1>1
<1>3. stream'[k] = Append(stream[k], e) /\ \A x \in Keys : x # k => stream'[x] = stream[x]
  BY <1>1
<1>4. /\ Append(stream[k], e) \in Seq(Entries)
      /\ Len(Append(stream[k], e)) = Len(stream[k]) + 1
      /\ Append(stream[k], e)[Len(stream[k]) + 1] = e
      /\ \A i \in 1 .. Len(stream[k]) : Append(stream[k], e)[i] = stream[k][i]
  BY <1>2
<1>5. stream' \in [Keys -> Seq(Entries)]
  BY <1>1, <1>4
<1>6. ASSUME NEW x \in Keys
      PROVE  /\ Len(stream[x]) <= Len(stream'[x])
             /\ \A i \in 1 .. Len(stream[x]) : stream'[x][i] = stream[x][i]
  <2>1. Len(stream[x]) \in Nat
    BY <1>1
  <2>2. CASE x = k
    BY <1>3, <1>4, <2>1, <2>2
  <2>3. CASE x # k
    BY <1>3, <2>1, <2>3
  <2> QED
    BY <2>2, <2>3
<1> QED
  BY <1>3, <1>4, <1>5, <1>6 DEF StreamGrows

(* No entry is lost.                                                       *)
LEMMA GrowsPublished ==
  ASSUME Typed, stream' \in [Keys -> Seq(Entries)], StreamGrows
  PROVE  /\ \A type, r : Published(type, r) \subseteq Published(type, r)'
         /\ \A tenant \in Tenants : Misaddressed(tenant) \subseteq Misaddressed(tenant)'
         /\ Existing \subseteq Existing'
<1>1. \A k \in Keys : /\ DOMAIN stream[k] = 1 .. Len(stream[k]) /\ Len(stream[k]) \in Nat
                      /\ DOMAIN stream'[k] = 1 .. Len(stream'[k]) /\ Len(stream'[k]) \in Nat
  BY DEF Typed
<1>2. ASSUME NEW type, NEW r, NEW x \in Published(type, r) PROVE x \in Published(type, r)'
  <2>1. PICK k \in Keys : \E i \in DOMAIN stream[k] :
          x = <<k, i>> /\ stream[k][i].type = type /\ stream[k][i].request = r
    BY PublishedIs
  <2>2. PICK i \in DOMAIN stream[k] :
          x = <<k, i>> /\ stream[k][i].type = type /\ stream[k][i].request = r
    BY <2>1
  <2>3. i \in DOMAIN stream'[k] /\ stream'[k][i] = stream[k][i]
    BY <1>1 DEF StreamGrows
  <2> QED
    BY <2>2, <2>3 DEF Published
<1>3. ASSUME NEW tenant \in Tenants PROVE Misaddressed(tenant) \subseteq Misaddressed(tenant)'
  <2>1. <<tenant, "default">> \in Keys
    BY DEF Keys
  <2> QED
    BY <1>1, <2>1 DEF Misaddressed, StreamGrows
<1>4. ASSUME NEW k \in Keys, stream[k] # <<>> PROVE stream'[k] # <<>>
  <2>1. Len(stream[k]) > 0
    BY <1>4 DEF Typed
  <2> QED
    BY <1>1, <2>1 DEF StreamGrows
<1> QED
  BY <1>2, <1>3, <1>4 DEF Existing

(* Of the entries of a kind there is at most one more.                     *)
LEMMA AppendedPublished ==
  ASSUME Typed, NEW k \in Keys, NEW e \in Entries,
         stream' = [stream EXCEPT ![k] = Append(@, e)], NEW type, NEW r
  PROVE  /\ e.type # type \/ e.request # r => Published(type, r)' = Published(type, r)
         /\ e.type = type /\ e.request = r =>
              Published(type, r)' = Published(type, r) \cup {<<k, Len(stream[k]) + 1>>}
<1> DEFINE new == <<k, Len(stream[k]) + 1>>
<1>1. /\ stream \in [Keys -> Seq(Entries)] /\ stream' \in [Keys -> Seq(Entries)]
      /\ StreamGrows /\ \A x \in Keys : x # k => stream'[x] = stream[x]
      /\ Len(stream'[k]) = Len(stream[k]) + 1
      /\ stream'[k][Len(stream[k]) + 1] = e
  BY Appended DEF Typed
<1>2. \A x \in Keys : /\ DOMAIN stream[x] = 1 .. Len(stream[x]) /\ Len(stream[x]) \in Nat
                      /\ DOMAIN stream'[x] = 1 .. Len(stream'[x])
  BY <1>1
<1>3. ASSUME NEW x PROVE x \in Published(type, r)' <=>
             x \in Published(type, r) \/ (x = new /\ e.type = type /\ e.request = r)
  <2>1. ASSUME x \in Published(type, r) PROVE x \in Published(type, r)'
    BY <1>1, <2>1, GrowsPublished
  <2>2. ASSUME x = new, e.type = type, e.request = r PROVE x \in Published(type, r)'
    <3>1. PICK i : i = Len(stream[k]) + 1
      OBVIOUS
    <3>2. x = <<k, i>>
      BY <2>2, <3>1
    <3> HIDE DEF new
    <3>3. stream'[k][i] = e
      BY <1>1, <3>1
    <3>4. i \in DOMAIN stream'[k]
      BY <1>1, <1>2, <3>1
    <3> QED
      BY <2>2, <3>2, <3>3, <3>4 DEF Published
  <2>3. ASSUME x \in Published(type, r)'
        PROVE  x \in Published(type, r) \/ (x = new /\ e.type = type /\ e.request = r)
    <3>1. PICK y \in Keys : \E i \in DOMAIN stream'[y] :
            x = <<y, i>> /\ stream'[y][i].type = type /\ stream'[y][i].request = r
      BY <2>3 DEF Published
    <3>2. PICK i \in DOMAIN stream'[y] :
            x = <<y, i>> /\ stream'[y][i].type = type /\ stream'[y][i].request = r
      BY <3>1
    <3>3. CASE y = k /\ i = Len(stream[k]) + 1
      BY <1>1, <3>2, <3>3
    <3>4. CASE ~(y = k /\ i = Len(stream[k]) + 1)
      <4>1. i \in DOMAIN stream[y] /\ stream'[y][i] = stream[y][i]
        BY <1>1, <1>2, <3>4 DEF StreamGrows
      <4> QED
        BY <3>2, <4>1, PublishedIs
    <3> QED
      BY <3>3, <3>4
  <2> QED
    BY <2>1, <2>2, <2>3
<1> QED
  BY <1>3
-----------------------------------------------------------------------------
(* What every step leaves.                                                 *)

(* Requests stay what they are, one that was taken has been taken, one     *)
(* that was told of has been told of, and failures are counted.            *)
Kept ==
  /\ Len(requests) <= Len(requests')
  /\ \A r \in 1 .. Len(requests) : requests'[r] = requests[r]
  /\ faults <= faults' /\ faults' \in Nat
  /\ \A r : Taken(r) => Taken(r)'
  /\ \A r \in 1 .. Len(requests) : Told(r) => Told(r)'

(* Why that is so: streams and the group's cursors only grow.              *)
LEMMA KeptBy ==
  ASSUME Typed, stream' \in [Keys -> Seq(Entries)], StreamGrows,
         \A k \in Keys : cursor'[k] \in Nat /\ cursor[k] <= cursor'[k],
         Len(requests') \in Nat, Len(requests) <= Len(requests'),
         DOMAIN requests' = 1 .. Len(requests'),
         \A r \in 1 .. Len(requests) : requests'[r] = requests[r],
         faults' \in Nat, faults <= faults'
  PROVE  Kept
<1>1. ASSUME NEW r, Taken(r) PROVE Taken(r)'
  <2>1. PICK x \in Published("task.requested", r) : x[2] <= cursor[x[1]]
    BY <1>1 DEF Taken
  <2>2. PICK k \in Keys : \E i \in DOMAIN stream[k] : x = <<k, i>>
    BY PublishedIs
  <2>3. PICK i \in DOMAIN stream[k] : x = <<k, i>>
    BY <2>2
  <2>4. i \in Nat /\ cursor[k] \in Nat /\ i <= cursor[k]
    BY <2>1, <2>3 DEF Typed
  <2>5. i <= cursor'[k]
    BY <2>4
  <2>6. x \in Published("task.requested", r)'
    BY GrowsPublished
  <2>7. x[2] <= cursor'[x[1]]
    BY <2>3, <2>5
  <2> QED
    BY <2>6, <2>7 DEF Taken
<1>2. ASSUME NEW r \in 1 .. Len(requests), Told(r) PROVE Told(r)'
  <2>1. r \in DOMAIN requests /\ r \in DOMAIN requests' /\ TaskOf(r)' = TaskOf(r)
    BY DEF Typed, TaskOf
  <2>2. TaskOf(r).tenant \in Tenants
    BY TaskTyped DEF TenantOf
  <2>3. CASE Accounted(r)
    <3>1. /\ Completions(r) \subseteq Completions(r)'
          /\ DeadLetters(r) \subseteq DeadLetters(r)'
          /\ Misaddressed(TaskOf(r).tenant) \subseteq Misaddressed(TaskOf(r).tenant)'
      <4>1. PICK tenant \in Tenants : tenant = TaskOf(r).tenant
        BY <2>2
      <4>2. Misaddressed(tenant) \subseteq Misaddressed(tenant)'
        BY GrowsPublished
      <4> QED
        BY <2>1, <4>1, <4>2, GrowsPublished DEF Completions, DeadLetters, Misaddressed
    <3> QED
      BY <2>1, <2>3, <3>1 DEF Told, Accounted, Recoverable
  <2>4. CASE Untold(r)
    <3>1. faults > 1 => faults' > 1
      BY DEF Typed
    <3>2. faults > 0 => faults' > 0
      BY DEF Typed
    <3> QED
      BY <2>1, <2>4, <3>1, <3>2 DEF Told, Untold, MayErr
  <2> QED
    BY <1>2, <2>3, <2>4 DEF Told
<1> QED
  BY <1>1, <1>2 DEF Kept

SameFor(r) ==
  /\ Published("task.requested", r)' = Published("task.requested", r)
  /\ Completions(r)' = Completions(r) /\ DeadLetters(r)' = DeadLetters(r)
  /\ Taken(r)' <=> Taken(r)
  /\ calls'[r] = calls[r] /\ uncaught'[r] = uncaught[r]

(* A request that a step is not about.                                     *)
LEMMA RequestStays ==
  ASSUME Typed, Kept, NEW r \in Requests, RequestOK(r), SameFor(r),
         r <= Len(requests') => r <= Len(requests), r \in acked' => r \in acked
  PROVE  RequestOK(r)'
<1>1. r \in Nat /\ 1 <= r /\ Len(requests) \in Nat
  BY RequestsAre DEF Typed
<1>2. r <= Len(requests) => TaskOf(r)' = TaskOf(r)
  BY <1>1 DEF Kept, TaskOf
<1>3. r <= Len(requests)' => Allowed(r, calls[r])'
  BY <1>1, <1>2 DEF RequestOK, Allowed, SameFor
<1>4. r \in acked' => Told(r)'
  <2>1. r \in acked => r \in 1 .. Len(requests)
    BY DEF Typed
  <2> QED
    BY <2>1 DEF Kept, RequestOK
<1>5. faults' = 0 => faults = 0
  BY DEF Kept, Typed
<1> QED
  BY <1>3, <1>4, <1>5 DEF RequestOK, SameFor

(* A goroutine that a step is not about.                                   *)
LEMMA JobStays ==
  ASSUME Typed, Kept, NEW q \in Processes, NEW h \in Permits, JobOK(q, h),
         job'[q][h] = job[q][h], access'[q][h] # "none" => access[q][h] # "none",
         closed[q] => closed'[q],
         job[q][h].request # NoRequest =>
           /\ SameFor(job[q][h].request)
           /\ Alone(q, h)'
  PROVE  JobOK(q, h)'
<1> DEFINE j == job[q][h]
<1>1. PICK r : r = j.request
  OBVIOUS
<1>2. CASE r = NoRequest
  BY <1>1, <1>2 DEF JobOK
<1>3. CASE r # NoRequest
  <2>1. /\ Handles(q, h, j, r) /\ SameFor(r) /\ Alone(q, h)' /\ r \in Requests
    BY <1>1, <1>3 DEF JobOK, Typed, Job
  <2>2. r \in 1 .. Len(requests) /\ r <= Len(requests)'
    BY <2>1, RequestsAre DEF Handles, Kept, Typed
  <2>3. TaskOf(r)' = TaskOf(r) /\ (Told(r) => Told(r)') /\ (Taken(r) => Taken(r)')
    BY <2>2 DEF Kept, TaskOf
  <2>4. faults > 0 => faults' > 0
    BY DEF Kept, Typed
  <2>5. Allowed(r, j.attempt) => Allowed(r, j.attempt)'
    BY <1>1, <2>1, <2>3 DEF Allowed, SameFor
  <2>6. Meant(j) => Meant(j)'
    BY <1>1, <2>3 DEF Meant
  <2>7. Handles(q, h, j, r)'
    BY <1>1, <2>1, <2>2, <2>3, <2>4, <2>5, <2>6 DEF Handles, SameFor
  <2> QED
    BY <1>1, <1>3, <2>7 DEF JobOK
<1> QED
  BY <1>2, <1>3
-----------------------------------------------------------------------------
(* The steps of a goroutine.                                               *)

(* A step of one goroutine alone.                                          *)
OnlyJob(p, g, j) ==
  /\ job' \in [Processes -> [Permits -> Job]] /\ job'[p][g] = j
  /\ \A q \in Processes, h \in Permits :
       q # p \/ h # g => job'[q][h] = job[q][h] /\ access'[q][h] = access[q][h]

SameForOthers(r) == \A x \in Requests : x # r => SameFor(x)

(* What such a step does not touch, given what it may.                     *)
LEMMA OthersStay ==
  ASSUME ExecutorInv, Kept, NEW p \in Processes, NEW g \in Permits, NEW j \in Job,
         NEW r \in Requests, Request(p, g) = r, OnlyJob(p, g, j),
         j.request \in {r, NoRequest}, requests' = requests, closed' = closed,
         SameForOthers(r), acked' \subseteq acked \cup {r}
  PROVE  /\ \A x \in Requests : x # r => RequestOK(x)'
         /\ \A q \in Processes, h \in Permits : q # p \/ h # g => JobOK(q, h)'
         /\ j.request = r => Alone(p, g)'
<1>1. Typed /\ job \in [Processes -> [Permits -> Job]]
  BY DEF ExecutorInv, Typed
<1>2. /\ job' \in [Processes -> [Permits -> Job]] /\ job'[p][g] = j
      /\ \A q \in Processes, h \in Permits :
           q # p \/ h # g => job'[q][h] = job[q][h] /\ access'[q][h] = access[q][h]
      /\ \A x \in Requests : x # r => SameFor(x)
  BY DEF OnlyJob, SameForOthers
<1>3. r # NoRequest /\ Handles(p, g, job[p][g], r)
  BY RequestsAre DEF ExecutorInv, JobOK, Request
<1>4. \A q \in Processes, h \in Permits : q # p \/ h # g => job[q][h].request # r
  BY <1>3 DEF Handles, Alone, Request
<1>5. ASSUME NEW x \in Requests, x # r PROVE RequestOK(x)'
  BY <1>1, <1>2, <1>5, RequestStays DEF ExecutorInv
<1>6. ASSUME NEW q \in Processes, NEW h \in Permits, q # p \/ h # g
      PROVE  JobOK(q, h)'
  <2>1. JobOK(q, h) /\ job'[q][h] = job[q][h] /\ access'[q][h] = access[q][h]
    BY <1>2, <1>6 DEF ExecutorInv
  <2>2. PICK x : x = job[q][h].request
    OBVIOUS
  <2>3. ASSUME x # NoRequest PROVE SameFor(x) /\ Alone(q, h)'
    <3>1. x \in Requests /\ x # r
      BY <1>1, <1>4, <1>6, <2>2, <2>3 DEF Job
    <3>2. Alone(q, h)
      BY <2>1, <2>2, <2>3 DEF JobOK, Handles
    <3>3. \A y \in Processes, z \in Permits : job'[y][z].request = x => y = q /\ z = h
      BY <1>2, <2>2, <2>3, <3>1, <3>2 DEF Alone
    <3> QED
      BY <1>2, <2>1, <2>2, <3>1, <3>3 DEF Alone
  <2> QED
    BY <1>1, <2>1, <2>2, <2>3, JobStays
<1>7. j.request = r => Alone(p, g)'
  BY <1>2, <1>4 DEF Alone
<1> QED
  BY <1>5, <1>6, <1>7

(* A step that leaves the streams and counters of a request.               *)
LEMMA Quiet ==
  ASSUME Typed, stream' = stream, cursor' = cursor, requests' = requests,
         faults' \in Nat, faults <= faults'
  PROVE  /\ Kept
         /\ \A r : /\ Published("task.requested", r)' = Published("task.requested", r)
                   /\ Completions(r)' = Completions(r) /\ DeadLetters(r)' = DeadLetters(r)
                   /\ Taken(r)' <=> Taken(r)
<1>1. \A type, r : Published(type, r)' = Published(type, r)
  BY DEF Published
<1>2. \A r : Taken(r)' <=> Taken(r)
  BY <1>1 DEF Taken
<1>3. StreamGrows
  BY DEF StreamGrows, Typed
<1>4. Kept
  BY <1>3, KeptBy DEF Typed
<1> QED
  BY <1>1, <1>2, <1>4 DEF Completions, DeadLetters

(* An attempt, whatever comes of it, given what it must not.               *)
LEMMA AttemptKeeps ==
  ASSUME ExecutorInv, NEW p \in Processes, NEW g \in Permits, Attempted(p, g),
         NEW r, r = Request(p, g), NEW j \in Job, NEW a \in {"none", "reading"},
         job' = [job EXCEPT ![p][g] = j], access' = [access EXCEPT ![p][g] = a],
         uncaught' = uncaught \/ uncaught' = [uncaught EXCEPT ![r] = @ + 1],
         UNCHANGED <<stream, group, cursor, known, closed, faults, losses, requests, acked,
                     cache, died>>,
         j.request = r, j.phase \in {"attempting", "scheduling", "publishing", "dead"},
         a # "none" => j.phase = "attempting",
         j.phase = "attempting" =>
           /\ j.attempt = job[p][g].attempt + 1 /\ j.attempt <= MaxTries
           /\ Allowed(r, j.attempt)',
         j.recovered => TaskOf(r).catch.recovery # {},
         j.phase = "dead" => MayErr(TaskOf(r)),
         j.phase = "publishing" /\ j.success /\ j.error # NoError => Meant(j)
  PROVE  ExecutorInv'
<1>1. Typed /\ JobOK(p, g) /\ job[p][g].phase = "attempting"
  BY DEF ExecutorInv, Attempted, In
<1>2. /\ r \in Requests /\ r # NoRequest /\ r \in 1 .. Len(requests)
      /\ Handles(p, g, job[p][g], r)
  <2>1. r # NoRequest
    BY <1>1 DEF JobOK, Request
  <2>2. r \in Requests
    BY <1>1, <2>1 DEF Typed, Job, Request
  <2> QED
    BY <1>1, <2>1, <2>2, RequestsAre DEF JobOK, Request, Handles, Typed
<1>3. RequestOK(r) /\ calls[r] \in Nat /\ uncaught[r] \in Nat
  BY <1>1, <1>2 DEF ExecutorInv, Typed
<1>4. /\ Kept
      /\ \A x : /\ Published("task.requested", x)' = Published("task.requested", x)
                /\ Completions(x)' = Completions(x) /\ DeadLetters(x)' = DeadLetters(x)
                /\ Taken(x)' <=> Taken(x)
  BY <1>1, Quiet DEF Typed
<1>5. calls' = [calls EXCEPT ![r] = @ + 1]
  BY DEF Attempted
<1>6. /\ calls' \in [Requests -> Nat] /\ uncaught' \in [Requests -> Nat]
      /\ calls'[r] = calls[r] + 1 /\ uncaught'[r] \in {uncaught[r], uncaught[r] + 1}
      /\ \A x \in Requests : x # r => calls'[x] = calls[x] /\ uncaught'[x] = uncaught[x]
  <2>1. calls \in [Requests -> Nat] /\ uncaught \in [Requests -> Nat]
    BY <1>1 DEF Typed
  <2>2. /\ calls' \in [Requests -> Nat] /\ calls'[r] = calls[r] + 1
        /\ \A x \in Requests : x # r => calls'[x] = calls[x]
    BY <1>2, <1>3, <1>5, <2>1
  <2>3. /\ uncaught' \in [Requests -> Nat] /\ uncaught'[r] \in {uncaught[r], uncaught[r] + 1}
        /\ \A x \in Requests : x # r => uncaught'[x] = uncaught[x]
    <3>1. CASE uncaught' = uncaught
      BY <2>1, <3>1
    <3>2. CASE uncaught' = [uncaught EXCEPT ![r] = @ + 1]
      BY <1>2, <1>3, <2>1, <3>2
    <3> QED
      BY <3>1, <3>2
  <2> QED
    BY <2>2, <2>3
<1>7. /\ access' \in [Processes -> [Permits -> Accesses]] /\ access'[p][g] = a
      /\ \A q \in Processes, h \in Permits :
           q # p \/ h # g => access'[q][h] = access[q][h]
  BY <1>1 DEF Typed, Accesses
<1>8. SameForOthers(r) /\ OnlyJob(p, g, j)
  <2>1. SameForOthers(r)
    BY <1>4, <1>6 DEF SameFor, SameForOthers
  <2>2. OnlyJob(p, g, j)
    BY <1>1, <1>7 DEF OnlyJob, Typed
  <2> QED
    BY <2>1, <2>2
<1>9. /\ \A x \in Requests : x # r => RequestOK(x)'
      /\ \A q \in Processes, h \in Permits : q # p \/ h # g => JobOK(q, h)'
      /\ Alone(p, g)'
      /\ job' \in [Processes -> [Permits -> Job]] /\ job'[p][g] = j
  <2>1. requests' = requests /\ closed' = closed /\ acked' \subseteq acked \cup {r}
    OBVIOUS
  <2>2. Kept /\ Request(p, g) = r /\ j.request \in {r, NoRequest}
    BY <1>4
  <2>3. j.request = r /\ j \in Job
    OBVIOUS
  <2>4. job' \in [Processes -> [Permits -> Job]] /\ job'[p][g] = j
    BY <1>8 DEF OnlyJob
  <2> QED
    BY <1>2, <1>8, <2>1, <2>2, <2>3, <2>4, OthersStay
<1>10. Typed'
  BY <1>1, <1>6, <1>7, <1>9 DEF Typed, Existing
<1>11. TaskOf(r)' = TaskOf(r)
  BY DEF TaskOf
<1>12. RequestOK(r)'
  <2>1. calls'[r] = job[p][g].attempt /\ calls'[r] <= MaxTries /\ uncaught'[r] <= calls'[r]
    BY <1>1, <1>2, <1>3, <1>6 DEF Handles, RequestOK
  <2>2. Allowed(r, calls[r])'
    BY <1>1, <1>2, <1>3, <1>6, <1>11, <2>1 DEF Handles, Allowed
  <2>3. Taken(r) /\ (Told(r) => Told(r)')
    BY <1>2, <1>4 DEF Handles, Kept
  <2> QED
    BY <1>3, <1>4, <2>1, <2>2, <2>3 DEF RequestOK
<1>13. JobOK(p, g)'
  <2>1. Taken(r)' /\ Completions(r)' = {} /\ DeadLetters(r)' = {}
    BY <1>1, <1>2, <1>4 DEF Handles
  <2>2. j.phase = "attempting" => j.attempt = calls'[r] + 1
    BY <1>1, <1>2, <1>6 DEF Handles
  <2>3. Meant(j) => Meant(j)'
    BY <1>11 DEF Meant
  <2>4. Handles(p, g, j, r)'
    BY <1>2, <1>9, <1>11, <2>1, <2>2, <2>3 DEF Handles
  <2> QED
    BY <1>2, <1>7, <1>9, <2>4 DEF JobOK
<1>14. \A q \in Processes : DocumentOK(q)'
  BY <1>7 DEF ExecutorInv, DocumentOK
<1>15. \A x \in Requests : RequestOK(x)'
  BY <1>9, <1>12
<1>16. \A q \in Processes, h \in Permits : JobOK(q, h)'
  BY <1>9, <1>13
<1>17. Asked'
  BY <1>4 DEF ExecutorInv, Asked
<1> QED
  BY <1>10, <1>14, <1>15, <1>16, <1>17 DEF ExecutorInv

(* What a goroutine knows when its attempt comes back.                     *)
LEMMA InAttempt ==
  ASSUME ExecutorInv, NEW p \in Processes, NEW g \in Permits, Attempted(p, g)
  PROVE  \E r \in 1 .. Len(requests), old \in Job :
           /\ r = Request(p, g) /\ old = job[p][g] /\ old.request = r
           /\ old.phase = "attempting" /\ Typed /\ Handles(p, g, old, r)
           /\ r \in Requests /\ uncaught[r] \in Nat /\ Task(p, g) = TaskOf(r)
           /\ \A o \in AttemptOutcomes(p, g) : o \in Outcome1
<1>1. Typed /\ JobOK(p, g) /\ job[p][g] \in Job /\ job[p][g].phase = "attempting"
  BY DEF ExecutorInv, Typed, Attempted, In
<1>2. Request(p, g) \in 1 .. Len(requests) /\ Request(p, g) \in Requests
  <2>1. Request(p, g) # NoRequest
    BY <1>1 DEF JobOK, Request
  <2>2. Request(p, g) \in Requests
    BY <1>1, <2>1 DEF Job, Request
  <2> QED
    BY <1>1, <2>1, <2>2, RequestsAre DEF JobOK, Handles, Request, Typed
<1>3. uncaught[Request(p, g)] \in Nat
  BY <1>1, <1>2 DEF Typed
<1>4. Handles(p, g, job[p][g], Request(p, g))
  BY <1>1, <1>2, RequestsAre DEF JobOK, Request
<1>5. \A o \in AttemptOutcomes(p, g) : o \in Outcome1
  BY <1>1, <1>2, AttemptTyped
<1> QED
  BY <1>1, <1>2, <1>3, <1>4, <1>5 DEF Request, Task

(* A result without an error.                                              *)
LEMMA AttemptReturnsKeeps ==
  ASSUME ExecutorInv, NEW p \in Processes, NEW g \in Permits, AttemptReturns(p, g)
  PROVE  ExecutorInv'
<1>1. Attempted(p, g)
  BY DEF AttemptReturns
<1>2. PICK r \in 1 .. Len(requests), old \in Job :
        /\ r = Request(p, g) /\ old = job[p][g] /\ old.request = r
        /\ old.phase = "attempting" /\ Typed /\ Handles(p, g, old, r)
        /\ \A o \in AttemptOutcomes(p, g) : o \in Outcome1
  BY <1>1, InAttempt
<1>3. PICK o \in AttemptOutcomes(p, g) : Result(p, g, o.success)
  BY DEF AttemptReturns
<1>4. PICK success \in BOOLEAN : success = o.success
  BY <1>2 DEF Outcome1
<1> DEFINE j == [old EXCEPT !.phase = "publishing", !.success = success, !.error = NoError]
<1>5. /\ j \in Job /\ j.request = r /\ j.phase = "publishing" /\ j.error = NoError
      /\ j.recovered = old.recovered
  BY <1>2, <1>4 DEF Job, Phases
<1>6. job' = [job EXCEPT ![p][g] = j]
  BY <1>2, <1>3, <1>4 DEF Result, SetJob
<1>7. j.recovered => TaskOf(r).catch.recovery # {}
  BY <1>2, <1>5 DEF Handles
<1> HIDE DEF j
<1> QED
  BY <1>1, <1>2, <1>5, <1>6, <1>7, AttemptKeeps DEF AttemptReturns, Go, streamVars

(* An error of the processor.                                              *)
LEMMA AttemptErrsKeeps ==
  ASSUME ExecutorInv, NEW p \in Processes, NEW g \in Permits, AttemptErrs(p, g)
  PROVE  ExecutorInv'
<1>1. Attempted(p, g)
  BY DEF AttemptErrs
<1>2. PICK r \in 1 .. Len(requests), old \in Job :
        /\ r = Request(p, g) /\ old = job[p][g] /\ old.request = r
        /\ old.phase = "attempting" /\ Typed /\ Handles(p, g, old, r)
        /\ Task(p, g) = TaskOf(r)
        /\ \A o \in AttemptOutcomes(p, g) : o \in Outcome1
  BY <1>1, InAttempt
<1>3. PICK o \in AttemptOutcomes(p, g) :
        SetJob(p, g, [job[p][g] EXCEPT !.phase = "dead", !.error = o.error])
  BY DEF AttemptErrs
<1>4. PICK error \in Statuses \cup {NoError, InternalError} : error = o.error
  BY <1>2 DEF Outcome1
<1> DEFINE j == [old EXCEPT !.phase = "dead", !.error = error]
<1>5. j \in Job /\ j.request = r /\ j.phase = "dead" /\ j.recovered = old.recovered
  BY <1>2, <1>4 DEF Job, Phases
<1>6. job' = [job EXCEPT ![p][g] = j]
  BY <1>2, <1>3, <1>4 DEF SetJob
<1>7. j.recovered => TaskOf(r).catch.recovery # {}
  BY <1>2, <1>5 DEF Handles
<1>8. MayErr(TaskOf(r))
  BY <1>2 DEF AttemptErrs, MayErr, Executors
<1> HIDE DEF j
<1> QED
  BY <1>1, <1>2, <1>5, <1>6, <1>7, <1>8, AttemptKeeps DEF AttemptErrs, Go, streamVars

(* Another attempt, or the end of them.                                    *)
LEMMA TryAgainKeeps ==
  ASSUME ExecutorInv, NEW p \in Processes, NEW g \in Permits, Attempted(p, g),
         NEW error \in Statuses \cup {NoError, InternalError}, TryAgain(p, g, error),
         NEW r, r = Request(p, g),
         \/ uncaught' = [uncaught EXCEPT ![r] = @ + 1]
         \/ /\ uncaught' = uncaught
            /\ \A policy \in TaskOf(r).catch.retry :
                 policy.count > 0 => job[p][g].attempt < policy.count,
         UNCHANGED <<stream, group, cursor, known, closed, faults, losses, requests, acked,
                     died>>
  PROVE  ExecutorInv'
<1>1. PICK old \in Job :
        /\ r \in 1 .. Len(requests) /\ old = job[p][g] /\ old.request = r
        /\ old.phase = "attempting" /\ Typed /\ Handles(p, g, old, r)
        /\ r \in Requests /\ uncaught[r] \in Nat
  BY InAttempt
<1>2. /\ old.recovered => TaskOf(r).catch.recovery # {}
      /\ old.attempt \in 1 .. MaxTries /\ MaxTries \in Nat
  <2>1. /\ r \in Nat /\ calls[r] \in Nat /\ old.attempt = calls[r] + 1
        /\ old.attempt <= MaxTries
    BY <1>1 DEF Handles, Typed
  <2> QED
    BY <1>1, <2>1, TryAssumption DEF Handles
<1>3. uncaught' = uncaught \/ uncaught' = [uncaught EXCEPT ![r] = @ + 1]
  OBVIOUS
<1>4. CASE old.attempt = MaxTries
  <2> DEFINE j == [old EXCEPT !.phase = "publishing", !.success = FALSE, !.error = error]
  <2>1. /\ j \in Job /\ j.request = r /\ j.phase = "publishing" /\ ~j.success
        /\ j.recovered = old.recovered
    BY <1>1 DEF Job, Phases
  <2>2. /\ job' = [job EXCEPT ![p][g] = j] /\ access' = [access EXCEPT ![p][g] = "none"]
        /\ UNCHANGED cache
    BY <1>1, <1>4 DEF TryAgain, SetJob, Go
  <2> HIDE DEF j
  <2> QED
    BY <1>1, <1>2, <1>3, <2>1, <2>2, AttemptKeeps
<1>5. CASE old.attempt # MaxTries
  <2> DEFINE j == [old EXCEPT !.attempt = old.attempt + 1, !.error = error]
  <2>1. /\ j \in Job /\ j.request = r /\ j.phase = "attempting"
        /\ j.recovered = old.recovered /\ j.attempt = old.attempt + 1
        /\ j.attempt <= MaxTries
    <3>1. PICK n \in 0 .. MaxTries : n = old.attempt + 1
      BY <1>2, <1>5
    <3>2. j = [old EXCEPT !.attempt = n, !.error = error]
      BY <3>1
    <3> HIDE DEF j
    <3>3. j \in Job
      BY <1>1, <3>1, <3>2 DEF Job
    <3>4. j.request = r /\ j.phase = "attempting" /\ j.recovered = old.recovered /\ j.attempt = n
      BY <1>1, <3>2 DEF Job
    <3>5. n <= MaxTries
      BY <1>2, <3>1
    <3> QED
      BY <3>1, <3>3, <3>4, <3>5
  <2>2. PICK a \in {"none", "reading"} :
          /\ job' = [job EXCEPT ![p][g] = j] /\ access' = [access EXCEPT ![p][g] = a]
          /\ UNCHANGED cache
    BY <1>1, <1>5 DEF TryAgain, SetJob, StartAttempt, Go
  <2>3. Allowed(r, j.attempt)'
    <3>1. TaskOf(r)' = TaskOf(r)
      BY DEF TaskOf
    <3>2. CASE uncaught' = [uncaught EXCEPT ![r] = @ + 1]
      <4>1. uncaught'[r] # 0
        BY <1>1, <3>2 DEF Typed
      <4> QED
        BY <4>1 DEF Allowed
    <3>3. ASSUME \A policy \in TaskOf(r).catch.retry :
                   policy.count > 0 => job[p][g].attempt < policy.count
          PROVE  Allowed(r, old.attempt + 1)'
      <4>1. TaskOf(r).catch.retry \subseteq Policy
        BY <1>1, TaskTyped
      <4>2. \A policy \in TaskOf(r).catch.retry : policy.count \in Nat
        BY <4>1 DEF Policy
      <4> QED
        BY <1>1, <1>2, <3>1, <3>3, <4>2 DEF Allowed
    <3> QED
      BY <2>1, <3>2, <3>3
  <2> HIDE DEF j
  <2> QED
    BY <1>1, <1>2, <1>3, <2>1, <2>2, <2>3, AttemptKeeps
<1> QED
  BY <1>4, <1>5

(* The try block is left.                                                  *)
LEMMA LeaveKeeps ==
  ASSUME ExecutorInv, NEW p \in Processes, NEW g \in Permits, Attempted(p, g),
         NEW r, r = Request(p, g), NEW phase \in {"publishing", "scheduling"},
         NEW error \in Statuses \cup {NoError, InternalError},
         NEW success \in BOOLEAN, NEW recovered \in BOOLEAN,
         Leave(p, g, phase, error, success, recovered),
         recovered => TaskOf(r).catch.recovery # {},
         success => MatchesFilter(error, TaskOf(r).catch.filter),
         UNCHANGED <<stream, group, cursor, known, closed, faults, losses, requests, acked,
                     uncaught, died>>
  PROVE  ExecutorInv'
<1>1. PICK old \in Job : old = job[p][g] /\ old.request = r
  BY InAttempt
<1> DEFINE j == [old EXCEPT !.phase = phase, !.error = error, !.success = success,
                            !.recovered = recovered]
<1>2. /\ j \in Job /\ j.request = r /\ j.phase = phase /\ j.error = error
      /\ j.success = success /\ j.recovered = recovered
  BY <1>1 DEF Job, Phases
<1>3. /\ job' = [job EXCEPT ![p][g] = j] /\ access' = [access EXCEPT ![p][g] = "none"]
      /\ UNCHANGED cache
  BY <1>1 DEF Leave, SetJob, Go
<1>4. success => Meant(j)
  BY <1>2, MatchMeans DEF Meant
<1> HIDE DEF j
<1> QED
  BY <1>2, <1>3, <1>4, AttemptKeeps

(* An error of a try block, whatever its handler decides.                  *)
LEMMA AttemptIsHandledKeeps ==
  ASSUME ExecutorInv, NEW p \in Processes, NEW g \in Permits, AttemptIsHandled(p, g)
  PROVE  ExecutorInv'
<1>1. Attempted(p, g) /\ UNCHANGED <<stream, group, cursor, known, closed, faults, losses,
                                     requests, acked, died>>
  BY DEF AttemptIsHandled, streamVars
<1>2. PICK r \in 1 .. Len(requests), old \in Job :
        /\ r = Request(p, g) /\ old = job[p][g] /\ old.request = r
        /\ old.phase = "attempting" /\ Typed /\ Handles(p, g, old, r)
        /\ Task(p, g) = TaskOf(r)
        /\ \A o \in AttemptOutcomes(p, g) : o \in Outcome1
  BY <1>1, InAttempt
<1>3. PICK o \in AttemptOutcomes(p, g), late \in BOOLEAN :
        IF TaskOf(r).catch.malformed
        THEN Leave(p, g, "publishing", o.error, FALSE, FALSE) /\ UNCHANGED uncaught
        ELSE \E h \in HandleError(TaskOf(r).catch, o.error, old.attempt, late) :
               Handle(p, g, o.error, h)
  BY <1>2 DEF AttemptIsHandled
<1>4. PICK error \in Statuses \cup {NoError, InternalError} : error = o.error
  BY <1>2 DEF Outcome1
<1>5. CASE TaskOf(r).catch.malformed
  <2>1. Leave(p, g, "publishing", error, FALSE, FALSE) /\ UNCHANGED uncaught
    BY <1>3, <1>4, <1>5
  <2> QED
    BY <1>1, <1>2, <2>1, LeaveKeeps
<1>6. CASE ~TaskOf(r).catch.malformed
  <2>1. PICK h \in HandleError(TaskOf(r).catch, error, old.attempt, late) :
          Handle(p, g, error, h)
    BY <1>3, <1>4, <1>6
  <2>2. /\ h.action \in {"fail", "retry", "recover", "ignore"}
        /\ h.action # "fail" => MatchesFilter(error, TaskOf(r).catch.filter)
        /\ h.action = "retry" => ShouldRetry(TaskOf(r).catch, old.attempt, late)
        /\ h.action = "recover" => TaskOf(r).catch.recovery # {}
    BY HandlingJustified
  <2>3. CASE h.action = "fail"
    <3>1. TryAgain(p, g, error) /\ uncaught' = [uncaught EXCEPT ![r] = @ + 1]
      BY <1>2, <2>1, <2>3 DEF Handle
    <3> QED
      BY <1>1, <1>2, <3>1, TryAgainKeeps
  <2>4. CASE h.action = "retry"
    <3>1. /\ IF h.delay = 0 THEN TryAgain(p, g, error)
             ELSE Leave(p, g, "scheduling", error, FALSE, FALSE)
          /\ uncaught' = uncaught
      BY <2>1, <2>4 DEF Handle
    <3>2. \A policy \in TaskOf(r).catch.retry :
            policy.count > 0 => job[p][g].attempt < policy.count
      <4>1. PICK policy \in TaskOf(r).catch.retry :
              ~ExceedsRetryLimits(policy, old.attempt, late)
        BY <2>2, <2>4 DEF ShouldRetry
      <4>2. /\ TaskOf(r).catch.retry \subseteq Policy
            /\ \A a, b \in TaskOf(r).catch.retry : a = b
        BY <1>2, TaskTyped
      <4>3. policy.count \in Nat /\ old.attempt \in Nat
        BY <4>2, TryAssumption DEF Policy, Job
      <4>4. policy.count > 0 => old.attempt < policy.count
        BY <4>1, <4>3 DEF ExceedsRetryLimits
      <4> QED
        BY <1>2, <4>2, <4>4
    <3>3. CASE h.delay = 0
      BY <1>1, <1>2, <3>1, <3>2, <3>3, TryAgainKeeps
    <3>4. CASE h.delay # 0
      BY <1>1, <1>2, <3>1, <3>4, LeaveKeeps
    <3> QED
      BY <3>3, <3>4
  <2>5. CASE h.action = "recover"
    <3>1. (\E x \in ExecuteRecoveryTasks(Task(p, g).catch.recovery) :
             Leave(p, g, "publishing", error, x.success, x.success)) /\ UNCHANGED uncaught
      BY <2>1, <2>5 DEF Handle
    <3>2. PICK x \in ExecuteRecoveryTasks(Task(p, g).catch.recovery) :
            Leave(p, g, "publishing", error, x.success, x.success)
      BY <3>1
    <3>3. PICK success \in BOOLEAN : success = x.success
      BY RecoveryTyped
    <3>4. Leave(p, g, "publishing", error, success, success) /\ UNCHANGED uncaught
      BY <3>1, <3>2, <3>3
    <3> QED
      BY <1>1, <1>2, <2>2, <2>5, <3>4, LeaveKeeps
  <2>6. CASE h.action = "ignore"
    <3>1. Leave(p, g, "publishing", error, TRUE, FALSE) /\ UNCHANGED uncaught
      BY <2>1, <2>6 DEF Handle
    <3> QED
      BY <1>1, <1>2, <2>2, <2>6, <3>1, LeaveKeeps
  <2> QED
    BY <2>2, <2>3, <2>4, <2>5, <2>6
<1> QED
  BY <1>5, <1>6
-----------------------------------------------------------------------------
(* Publications and acknowledgements of a goroutine.                       *)

StreamTyped ==
  /\ stream \in [Keys -> Seq(Entries)]
  /\ cursor \in [Keys -> Nat] /\ \A k \in Keys : cursor[k] <= Len(stream[k])
  /\ group \subseteq Existing
  /\ known \in [Processes -> [keys : SUBSET Existing, size : Nat]]
  /\ closed \in [Processes -> BOOLEAN]
  /\ faults \in Nat /\ losses \in Nat /\ faults + losses <= MaxTroubles

(* Streams that grow keep their type.                                      *)
LEMMA StreamTypedStays ==
  ASSUME Typed, stream' \in [Keys -> Seq(Entries)], StreamGrows,
         UNCHANGED <<group, cursor, known, closed>>,
         faults' \in Nat, losses' \in Nat, faults' + losses' <= MaxTroubles
  PROVE  StreamTyped'
<1>1. Existing \subseteq Existing'
  BY GrowsPublished
<1>2. group' \subseteq Existing'
  BY <1>1 DEF Typed
<1>3. known' \in [Processes -> [keys : SUBSET (Existing'), size : Nat]]
  <2>1. known \in [Processes -> [keys : SUBSET Existing, size : Nat]]
    BY DEF Typed
  <2>2. [keys : SUBSET Existing, size : Nat] \subseteq [keys : SUBSET (Existing'), size : Nat]
    BY <1>1
  <2> QED
    BY <2>1, <2>2
<1>4. \A k \in Keys : cursor'[k] <= Len(stream'[k])
  <2> SUFFICES ASSUME NEW k \in Keys PROVE cursor[k] <= Len(stream'[k])
    OBVIOUS
  <2>1. cursor[k] \in Nat /\ Len(stream[k]) \in Nat /\ Len(stream'[k]) \in Nat
    BY DEF Typed
  <2> QED
    BY <2>1 DEF Typed, StreamGrows
<1> QED
  BY <1>2, <1>3, <1>4 DEF StreamTyped, Typed

(* A publication that succeeds or fails.                                   *)
LEMMA Publication ==
  ASSUME Typed, NEW p \in Processes, NEW tenant, NEW workflow, NEW k \in Keys,
         k = GetStreamKey(tenant, workflow), NEW e \in Entries,
         Publish(p, tenant, workflow, e) \/ PublishFails(p, tenant, workflow, e),
         UNCHANGED <<group, cursor, known, closed, requests>>
  PROVE  /\ Kept /\ StreamTyped'
         /\ \A type, r : e.type # type \/ e.request # r =>
              Published(type, r)' = Published(type, r)
         /\ \E x : Published(e.type, e.request)' \subseteq Published(e.type, e.request) \cup {x}
         /\ Publish(p, tenant, workflow, e) => Published(e.type, e.request)' # {}
         /\ ~Publish(p, tenant, workflow, e) =>
              \/ faults' > 0
              \/ closed[p] /\ Published(e.type, e.request)' = Published(e.type, e.request)
<1>1. /\ stream \in [Keys -> Seq(Entries)] /\ faults \in Nat /\ losses \in Nat
      /\ faults + losses <= MaxTroubles /\ MaxTroubles \in Nat
  BY StreamAssumption DEF Typed
<1>2. /\ faults' \in Nat /\ losses' \in Nat /\ faults' + losses' <= MaxTroubles
      /\ faults <= faults'
  BY <1>1 DEF Publish, PublishFails, Succeed, Fault, budgets
<1>3. stream' = stream \/ stream' = [stream EXCEPT ![k] = Append(@, e)]
  BY DEF Publish, PublishFails, Append1
<1>0. /\ Len(requests') \in Nat /\ Len(requests) <= Len(requests')
      /\ DOMAIN requests' = 1 .. Len(requests')
      /\ \A r \in 1 .. Len(requests) : requests'[r] = requests[r]
      /\ \A x \in Keys : cursor'[x] \in Nat /\ cursor[x] <= cursor'[x]
  BY DEF Typed
<1>4. CASE stream' = stream
  <2>1. StreamGrows /\ stream' \in [Keys -> Seq(Entries)]
    BY <1>1, <1>4 DEF StreamGrows
  <2>2. Kept
    BY <1>0, <1>2, <2>1, KeptBy
  <2>3. StreamTyped'
    BY <1>2, <2>1, StreamTypedStays
  <2>4. \A type, r : Published(type, r)' = Published(type, r)
    BY <1>4 DEF Published
  <2>5. ~Publish(p, tenant, workflow, e)
    <3>1. Len(Append(stream[k], e)) # Len(stream[k])
      BY <1>1
    <3> QED
      BY <1>1, <1>4, <3>1 DEF Publish, Append1
  <2>6. faults' > 0 \/ closed[p]
    BY <1>1, <2>5 DEF PublishFails, Fault
  <2> QED
    BY <2>2, <2>3, <2>4, <2>5, <2>6
<1>5. CASE stream' = [stream EXCEPT ![k] = Append(@, e)]
  <2>1. StreamGrows /\ stream' \in [Keys -> Seq(Entries)]
    BY <1>5, Appended
  <2>2. Kept
    BY <1>0, <1>2, <2>1, KeptBy
  <2>3. StreamTyped'
    BY <1>2, <2>1, StreamTypedStays
  <2>4. \A type, r : /\ e.type # type \/ e.request # r =>
                           Published(type, r)' = Published(type, r)
                     /\ e.type = type /\ e.request = r => Published(type, r)' =
                           Published(type, r) \cup {<<k, Len(stream[k]) + 1>>}
    BY <1>5, AppendedPublished
  <2>5. Published(e.type, e.request)' =
          Published(e.type, e.request) \cup {<<k, Len(stream[k]) + 1>>}
    BY <2>4
  <2>6. ~Publish(p, tenant, workflow, e) => faults' > 0
    <3>1. Len(Append(stream[k], e)) # Len(stream[k])
      BY <1>1
    <3>2. stream' # stream
      BY <1>1, <1>5, <3>1
    <3> QED
      BY <1>1, <3>2 DEF PublishFails, Fault
  <2> QED
    BY <2>2, <2>3, <2>4, <2>5, <2>6
<1> QED
  BY <1>3, <1>4, <1>5

(* An answer that names nobody is found with those of its tenant.          *)
LEMMA NamesNobody ==
  ASSUME Typed, NEW p \in Processes, NEW tenant \in Tenants, NEW workflow, NEW e \in Entries,
         GetStreamKey(tenant, workflow) = <<tenant, "default">>,
         e.type = "task.completed", Publish(p, tenant, workflow, e)
  PROVE  Misaddressed(tenant)' # {}
<1>1. PICK k \in Keys : k = <<tenant, "default">>
  BY DEF Keys
<1>2. stream' = [stream EXCEPT ![k] = Append(@, e)] /\ stream \in [Keys -> Seq(Entries)]
  BY <1>1 DEF Publish, Append1, Typed
<1>3. /\ Len(stream'[k]) = Len(stream[k]) + 1 /\ stream'[k][Len(stream[k]) + 1] = e
      /\ Len(stream[k]) \in Nat
  BY <1>2, Appended
<1>4. Len(stream[k]) + 1 \in 1 .. Len(stream'[k])
  BY <1>3
<1> QED
  BY <1>1, <1>3, <1>4 DEF Misaddressed

(* What a busy goroutine knows.                                            *)
LEMMA Busy ==
  ASSUME ExecutorInv, NEW p \in Processes, NEW g \in Permits, ~In(p, g, "idle")
  PROVE  \E r \in 1 .. Len(requests), old \in Job :
           /\ r = Request(p, g) /\ old = job[p][g] /\ old.request = r
           /\ Typed /\ JobOK(p, g) /\ Handles(p, g, old, r)
           /\ r \in Requests /\ r # NoRequest /\ RequestOK(r)
<1>1. Typed /\ JobOK(p, g) /\ job[p][g] \in Job
  BY DEF ExecutorInv, Typed
<1>2. /\ Request(p, g) # NoRequest /\ Request(p, g) \in Requests
      /\ Handles(p, g, job[p][g], Request(p, g))
  BY <1>1 DEF JobOK, Job, Request, In
<1>3. Request(p, g) \in 1 .. Len(requests)
  BY <1>1, <1>2, RequestsAre DEF Handles, Typed
<1> QED
  BY <1>1, <1>2, <1>3 DEF Request, ExecutorInv

(* The stream of events that name no tenant.                               *)
LEMMA KeyOfNobody == GetStreamKey("", "workflow") \in Keys
<1>1. OrDefault("") = "default" /\ OrDefault("workflow") = "workflow"
  BY DEF OrDefault
<1> QED
  BY <1>1 DEF GetStreamKey, Keys

(* The streams of a request's tenant.                                      *)
LEMMA KeyOfTenant ==
  ASSUME NEW tenant \in Tenants, NEW workflow \in {"", "workflow"}
  PROVE  /\ GetStreamKey(tenant, workflow) \in Keys
         /\ workflow = "" => GetStreamKey(tenant, workflow) = <<tenant, "default">>
<1>1. OrDefault(tenant) = tenant
  BY StreamAssumption DEF OrDefault
<1>2. OrDefault("") = "default" /\ OrDefault("workflow") = "workflow"
  BY DEF OrDefault
<1> QED
  BY <1>1, <1>2 DEF GetStreamKey, Keys

(* A publication about a request leaves everything else alone.             *)
LEMMA PublicationKeeps ==
  ASSUME ExecutorInv, NEW p \in Processes, NEW g \in Permits, ~In(p, g, "idle"),
         ~In(p, g, "attempting"), NEW r, r = Request(p, g), NEW tenant, NEW workflow,
         GetStreamKey(tenant, workflow) \in Keys, NEW e \in Entries, NEW j \in Job,
         Publish(p, tenant, workflow, e) \/ PublishFails(p, tenant, workflow, e),
         e.request \in {r, NoRequest},
         e.type \in {"task.completed", "task.dlq", "timer.scheduled"},
         job' = [job EXCEPT ![p][g] = j], j.request = r,
         UNCHANGED <<group, cursor, known, closed, requests, acked, calls, uncaught, cache,
                     access, died>>,
         RequestOK(r)', Alone(p, g)' => JobOK(p, g)'
  PROVE  ExecutorInv'
<1>1. Typed /\ r \in Requests /\ r # NoRequest
  BY Busy
<1>2. PICK k \in Keys : k = GetStreamKey(tenant, workflow)
  OBVIOUS
<1>3. /\ Kept /\ StreamTyped'
      /\ \A type, x : e.type # type \/ e.request # x => Published(type, x)' = Published(type, x)
  BY <1>1, <1>2, Publication
<1>4. SameForOthers(r)
  <2> SUFFICES ASSUME NEW x \in Requests, x # r PROVE SameFor(x)
    BY DEF SameForOthers
  <2>1. e.request # x
    BY <1>1, RequestsAre
  <2>2. \A type : Published(type, x)' = Published(type, x)
    BY <1>3, <2>1
  <2>3. Taken(x)' <=> Taken(x)
    BY <2>2 DEF Taken
  <2> QED
    BY <2>2, <2>3 DEF SameFor, Completions, DeadLetters
<1>5. OnlyJob(p, g, j)
  <2>1. job \in [Processes -> [Permits -> Job]]
    BY <1>1 DEF Typed
  <2> QED
    BY <2>1 DEF OnlyJob
<1>6. /\ \A x \in Requests : x # r => RequestOK(x)'
      /\ \A q \in Processes, h \in Permits : q # p \/ h # g => JobOK(q, h)'
      /\ Alone(p, g)'
  <2>1. requests' = requests /\ closed' = closed /\ acked' \subseteq acked \cup {r}
    OBVIOUS
  <2>2. Request(p, g) = r /\ j.request \in {r, NoRequest} /\ j.request = r
    BY <1>1
  <2> QED
    BY <1>1, <1>3, <1>4, <1>5, <2>1, <2>2, OthersStay
<1>7. Typed'
  BY <1>1, <1>3, <1>5 DEF Typed, StreamTyped, OnlyJob
<1>8. \A q \in Processes : DocumentOK(q)'
  BY DEF ExecutorInv, DocumentOK
<1>9. \A x \in Requests : RequestOK(x)'
  BY <1>6
<1>10. \A q \in Processes, h \in Permits : JobOK(q, h)'
  BY <1>6
<1>11. Asked'
  <2>1. \A x : Published("task.requested", x)' = Published("task.requested", x)
    BY <1>3
  <2> QED
    BY <2>1 DEF ExecutorInv, Asked
<1> QED
  BY <1>7, <1>8, <1>9, <1>10, <1>11 DEF ExecutorInv

(* A retry is scheduled, or is meant to be.                                *)
LEMMA ScheduleRetryKeeps ==
  ASSUME ExecutorInv, NEW p \in Processes, NEW g \in Permits, ScheduleRetry(p, g)
  PROVE  ExecutorInv'
<1>1. PICK r \in 1 .. Len(requests), old \in Job :
        /\ r = Request(p, g) /\ old = job[p][g] /\ old.request = r
        /\ Typed /\ JobOK(p, g) /\ Handles(p, g, old, r)
        /\ r \in Requests /\ r # NoRequest /\ RequestOK(r)
  BY Busy DEF ScheduleRetry, In
<1> DEFINE e == Entry("timer.scheduled", r, FALSE)
           j == [old EXCEPT !.phase = "publishing", !.success = FALSE, !.error = NoError]
<1>2. e \in Entries /\ e.type = "timer.scheduled" /\ e.request = r
  BY DEF Entry, Entries, EventTypes
<1>3. /\ j \in Job /\ j.request = r /\ j.phase = "publishing" /\ ~j.success
      /\ j.recovered = old.recovered
  BY <1>1 DEF Job, Phases
<1>4. /\ Publish(p, "", "workflow", e) \/ PublishFails(p, "", "workflow", e)
      /\ job' = [job EXCEPT ![p][g] = j] /\ old.phase = "scheduling"
      /\ UNCHANGED <<group, cursor, known, closed, requests, acked, calls, uncaught, cache,
                     access, died>>
  BY <1>1 DEF ScheduleRetry, Result, SetJob, In, documentVars
<1>5. PICK k \in Keys : k = GetStreamKey("", "workflow")
  BY KeyOfNobody
<1> HIDE DEF e, j
<1>6. /\ Kept
      /\ \A type, x : e.type # type \/ e.request # x => Published(type, x)' = Published(type, x)
  BY <1>1, <1>2, <1>4, <1>5, Publication
<1>7. SameFor(r)
  <2>1. /\ Published("task.requested", r)' = Published("task.requested", r)
        /\ Published("task.completed", r)' = Published("task.completed", r)
        /\ Published("task.dlq", r)' = Published("task.dlq", r)
    BY <1>2, <1>6
  <2>2. Taken(r)' <=> Taken(r)
    BY <1>4, <2>1 DEF Taken
  <2> QED
    BY <1>4, <2>1, <2>2 DEF SameFor, Completions, DeadLetters
<1>8. RequestOK(r)'
  BY <1>1, <1>4, <1>6, <1>7, RequestStays
<1>9. ASSUME Alone(p, g)' PROVE JobOK(p, g)'
  <2>1. job'[p][g] = j /\ TaskOf(r)' = TaskOf(r) /\ access'[p][g] = "none"
    BY <1>1, <1>4 DEF Typed, TaskOf, JobOK
  <2>2. Handles(p, g, j, r)'
    BY <1>1, <1>3, <1>4, <1>7, <1>9, <2>1 DEF Handles, SameFor
  <2> QED
    BY <1>1, <1>3, <2>1, <2>2 DEF JobOK
<1> QED
  BY <1>1, <1>2, <1>3, <1>4, <1>5, <1>8, <1>9, PublicationKeeps DEF In

(* What a goroutine that has nothing to do knows.                          *)
LEMMA IdleIsIdle ==
  /\ IdleJob \in Job /\ IdleJob.phase = "idle" /\ IdleJob.request = NoRequest
  /\ ~IdleJob.recovered /\ ~IdleJob.success
<1>1. 0 \in 0 .. MaxTries
  BY TryAssumption
<1> QED
  BY <1>1 DEF IdleJob, Job, Phases

(* A request of which more is known.                                       *)
LEMMA AnswerKeepsRequest ==
  ASSUME Typed, Kept, NEW r \in 1 .. Len(requests), RequestOK(r), Taken(r),
         Published("task.requested", r)' = Published("task.requested", r),
         AtMostOne(Completions(r))', AtMostOne(DeadLetters(r))',
         faults' = 0 => Completions(r)' = {} \/ DeadLetters(r)' = {},
         UNCHANGED <<requests, calls, uncaught, acked>>
  PROVE  RequestOK(r)'
<1>1. Taken(r)' /\ (Told(r) => Told(r)')
  BY DEF Kept
<1>2. Allowed(r, calls[r]) => Allowed(r, calls[r])'
  BY DEF Allowed, TaskOf
<1> QED
  BY <1>1, <1>2 DEF RequestOK

(* An answer, or a dead letter.                                            *)
LEMMA Telling ==
  ASSUME ExecutorInv, NEW p \in Processes, NEW g \in Permits,
         NEW r \in 1 .. Len(requests), r \in Requests, r = Request(p, g), r # NoRequest,
         In(p, g, "publishing") \/ In(p, g, "dead"),
         NEW tenant, NEW workflow, NEW e \in Entries, NEW x \in {r, NoRequest},
         NEW type \in {"task.completed", "task.dlq"}, e.type = type, e.request = x,
         GetStreamKey(tenant, workflow) \in Keys,
         Publish(p, tenant, workflow, e) \/ PublishFails(p, tenant, workflow, e),
         type = "task.completed" => In(p, g, "publishing"),
         UNCHANGED <<group, cursor, known, closed, requests, acked, calls, uncaught>>
  PROVE  /\ RequestOK(r)' /\ Taken(r)'
         /\ type = "task.completed" => DeadLetters(r)' = {}
         /\ Publish(p, tenant, workflow, e) /\ x = r => Told(r)'
         /\ PublishFails(p, tenant, workflow, e) => ~Publish(p, tenant, workflow, e)
         /\ PublishFails(p, tenant, workflow, e) /\ ~closed[p] => faults' = faults + 1
         /\ PublishFails(p, tenant, workflow, e) /\ closed[p] =>
              Completions(r)' = Completions(r)
<1>1. /\ Typed /\ RequestOK(r) /\ Handles(p, g, job[p][g], r)
  BY Busy DEF In
<1>2. PICK k \in Keys : k = GetStreamKey(tenant, workflow)
  OBVIOUS
<1>3. /\ Kept
      /\ \A t, y : type # t \/ x # y => Published(t, y)' = Published(t, y)
      /\ \E y : Published(type, x)' \subseteq Published(type, x) \cup {y}
      /\ Publish(p, tenant, workflow, e) => Published(type, x)' # {}
  <2>1. /\ Kept
        /\ \A t, y : e.type # t \/ e.request # y => Published(t, y)' = Published(t, y)
    BY <1>1, <1>2, Publication
  <2>2. Publish(p, tenant, workflow, e) => Published(e.type, e.request)' # {}
    BY <1>1, <1>2, Publication
  <2>3. \E y : Published(e.type, e.request)' \subseteq Published(e.type, e.request) \cup {y}
    BY <1>1, <1>2, Publication
  <2> QED
    BY <2>1, <2>2, <2>3
<1>4. /\ Completions(r) # {} => In(p, g, "dead") /\ faults > 0
      /\ DeadLetters(r) = {} /\ Taken(r)
  BY <1>1 DEF Handles, In
<1>5. faults \in Nat
  BY <1>1 DEF Typed
<1>6. Published("task.requested", r)' = Published("task.requested", r)
  BY <1>3
<1>7. AtMostOne(Published(type, r))'
  <2>1. Published(type, r) = {}
    BY <1>4 DEF Completions, DeadLetters, In
  <2>2. CASE x = r
    <3>1. PICK y : Published(type, r)' \subseteq {y}
      BY <1>3, <2>1, <2>2
    <3> QED
      BY <3>1 DEF AtMostOne
  <2>3. CASE x # r
    <3>1. Published(type, r)' = {}
      BY <1>3, <2>1, <2>3
    <3> QED
      BY <3>1 DEF AtMostOne
  <2> QED
    BY <2>2, <2>3
<1>8. /\ type = "task.completed" => DeadLetters(r)' = {}
      /\ type = "task.dlq" => Completions(r)' = Completions(r)
  BY <1>3, <1>4 DEF Completions, DeadLetters
<1>9. AtMostOne(Completions(r))' /\ AtMostOne(DeadLetters(r))'
  <2>1. AtMostOne({})
    BY DEF AtMostOne
  <2>2. CASE type = "task.completed"
    BY <1>7, <1>8, <2>1, <2>2 DEF Completions
  <2>3. CASE type = "task.dlq"
    <3>1. AtMostOne(Completions(r))
      BY <1>1 DEF RequestOK
    <3> QED
      BY <1>7, <1>8, <2>3, <3>1 DEF DeadLetters
  <2> QED
    BY <2>2, <2>3
<1>10. faults' = 0 => Completions(r)' = {} \/ DeadLetters(r)' = {}
  <2>1. faults' = 0 => faults = 0
    BY <1>3, <1>5 DEF Kept
  <2> QED
    BY <1>4, <1>5, <1>8, <2>1
<1>11. RequestOK(r)'
  BY <1>1, <1>3, <1>4, <1>6, <1>9, <1>10, AnswerKeepsRequest
<1>12. Taken(r)'
  BY <1>3, <1>4 DEF Kept
<1>13. Publish(p, tenant, workflow, e) /\ x = r => Told(r)'
  BY <1>3 DEF Told, Accounted, Completions, DeadLetters
<1>14. PublishFails(p, tenant, workflow, e) => ~Publish(p, tenant, workflow, e)
  BY <1>5 DEF PublishFails, Publish, Succeed, Fault, budgets
<1>15. PublishFails(p, tenant, workflow, e) /\ ~closed[p] => faults' = faults + 1
  BY DEF PublishFails, Fault
<1>16. ASSUME PublishFails(p, tenant, workflow, e), closed[p]
       PROVE  Completions(r)' = Completions(r)
  <2>1. stream' = stream
    BY <1>16 DEF PublishFails
  <2> QED
    BY <2>1 DEF Completions, Published
<1> QED
  BY <1>8, <1>11, <1>12, <1>13, <1>14, <1>15, <1>16

(* A goroutine that has told, or tried to.                                 *)
LEMMA ProceedKeeps ==
  ASSUME ExecutorInv, NEW p \in Processes, NEW g \in Permits,
         NEW r \in 1 .. Len(requests), r = Request(p, g),
         In(p, g, "publishing") \/ In(p, g, "dead"),
         NEW tenant, NEW workflow, NEW e \in Entries, e.request \in {r, NoRequest},
         e.type \in {"task.completed", "task.dlq"},
         GetStreamKey(tenant, workflow) \in Keys,
         Publish(p, tenant, workflow, e) \/ PublishFails(p, tenant, workflow, e),
         NEW phase \in {"acking", "dead"}, Proceed(p, g, phase),
         RequestOK(r)', Taken(r)',
         phase = "dead" => /\ DeadLetters(r)' = {}
                           /\ Completions(r)' # {} => faults' > 0
                           /\ ~closed[p] => faults' > 0,
         phase = "acking" /\ ~closed[p] => Told(r)'
  PROVE  ExecutorInv'
<1>1. PICK old \in Job :
        /\ old = job[p][g] /\ old.request = r /\ Typed /\ JobOK(p, g)
        /\ Handles(p, g, old, r) /\ r \in Requests /\ r # NoRequest
  BY Busy DEF In
<1> DEFINE j == [old EXCEPT !.phase = phase]
<1>2. /\ j \in Job /\ j.request = r /\ j.phase = phase /\ j.recovered = old.recovered
  BY <1>1 DEF Job, Phases
<1>3. /\ job' = [job EXCEPT ![p][g] = j]
      /\ UNCHANGED <<group, cursor, known, closed, requests, acked, calls, uncaught, cache,
                     access, died>>
  BY <1>1 DEF Proceed, SetJob, documentVars
<1> HIDE DEF j
<1>4. ASSUME Alone(p, g)' PROVE JobOK(p, g)'
  <2>1. job'[p][g] = j /\ TaskOf(r)' = TaskOf(r) /\ access'[p][g] = "none"
    BY <1>1, <1>3 DEF Typed, TaskOf, JobOK, In
  <2>2. closed' = closed /\ requests' = requests
    BY <1>3
  <2>3. r <= Len(requests')
    BY <2>2, <1>1 DEF Handles
  <2>4. Handles(p, g, j, r)'
    BY <1>1, <1>2, <1>4, <2>1, <2>2, <2>3 DEF Handles
  <2> QED
    BY <1>1, <1>2, <2>1, <2>4 DEF JobOK
<1>5. ~In(p, g, "idle") /\ ~In(p, g, "attempting")
  BY DEF In
<1>6. \/ e.type = "task.completed" \/ e.type = "task.dlq"
  OBVIOUS
<1> QED
  BY <1>2, <1>3, <1>4, <1>5, <1>6, PublicationKeeps

(* The result is published, or could not be.                               *)
LEMMA PublishResultKeeps ==
  ASSUME ExecutorInv, NEW p \in Processes, NEW g \in Permits,
         PublishResult(p, g) \/ PublishResultFails(p, g)
  PROVE  ExecutorInv'
<1>1. In(p, g, "publishing") /\ ~In(p, g, "idle")
  BY DEF PublishResult, PublishResultFails, In
<1>2. PICK r \in 1 .. Len(requests), old \in Job :
        /\ r = Request(p, g) /\ old = job[p][g] /\ old.request = r
        /\ Typed /\ JobOK(p, g) /\ Handles(p, g, old, r)
        /\ r \in Requests /\ r # NoRequest /\ RequestOK(r)
  BY <1>1, Busy
<1>3. PICK tenant \in Tenants : tenant = TenantOf(r)
  BY <1>2, TaskTyped
<1>4. PICK workflow : /\ workflow = AnswerWorkflow(p, g)
                      /\ old.recovered => workflow = ""
                      /\ workflow \in {"", "workflow"}
  BY <1>2 DEF AnswerWorkflow
<1> DEFINE e == Answer(p, g)
<1>5. /\ e \in Entries /\ e.type = "task.completed"
      /\ old.recovered => e.request = NoRequest
      /\ ~old.recovered => e.request = r
  <2>1. r \in Nat /\ NoRequest \in Nat
    BY <1>2, RequestsAre DEF NoRequest
  <2>2. old.success \in BOOLEAN
    BY <1>2 DEF Job
  <2>3. \A x \in Nat, success \in BOOLEAN :
          /\ Entry("task.completed", x, success) \in Entries
          /\ Entry("task.completed", x, success).type = "task.completed"
          /\ Entry("task.completed", x, success).request = x
    BY DEF Entry, Entries, EventTypes
  <2>4. CASE old.recovered
    <3>1. e = Entry("task.completed", NoRequest, TRUE)
      BY <1>2, <2>4 DEF Answer
    <3> HIDE DEF e
    <3> QED
      BY <2>1, <2>3, <2>4, <3>1
  <2>5. CASE ~old.recovered
    <3>1. e = Entry("task.completed", r, old.success)
      BY <1>2, <2>5 DEF Answer
    <3> HIDE DEF e
    <3> QED
      BY <2>1, <2>2, <2>3, <2>5, <3>1
  <2> QED
    BY <2>4, <2>5
<1>6. PICK entry \in Entries : entry = e
  BY <1>5
<1>7. PICK x \in {r, NoRequest} : x = entry.request /\ (~old.recovered => x = r)
  BY <1>5, <1>6
<1>8. PICK k \in Keys : /\ k = GetStreamKey(tenant, workflow)
                        /\ workflow = "" => k = <<tenant, "default">>
  BY <1>4, KeyOfTenant
<1> HIDE DEF e
<1>9. \/ Publish(p, tenant, workflow, entry) /\ Proceed(p, g, "acking")
      \/ PublishFails(p, tenant, workflow, entry) /\ Proceed(p, g, "dead")
  BY <1>2, <1>3, <1>4, <1>6 DEF PublishResult, PublishResultFails, e
<1>10. UNCHANGED <<group, cursor, known, closed, requests, acked, calls, uncaught>>
  BY <1>9 DEF Proceed
<1>11. entry.type = "task.completed" /\ GetStreamKey(tenant, workflow) \in Keys
  BY <1>5, <1>6, <1>8
<1>12. /\ RequestOK(r)' /\ Taken(r)' /\ DeadLetters(r)' = {}
       /\ Publish(p, tenant, workflow, entry) /\ x = r => Told(r)'
       /\ PublishFails(p, tenant, workflow, entry) =>
            ~Publish(p, tenant, workflow, entry)
       /\ PublishFails(p, tenant, workflow, entry) /\ ~closed[p] => faults' = faults + 1
       /\ PublishFails(p, tenant, workflow, entry) /\ closed[p] =>
            Completions(r)' = Completions(r)
  <2>1. PICK type \in {"task.completed", "task.dlq"} : type = "task.completed"
    OBVIOUS
  <2>2. Publish(p, tenant, workflow, entry) \/ PublishFails(p, tenant, workflow, entry)
    BY <1>9
  <2>3. entry.type = type /\ entry.request = x
    BY <1>7, <1>11, <2>1
  <2> QED
    BY <1>1, <1>2, <1>10, <1>11, <2>1, <2>2, <2>3, Telling
<1>13. entry.request \in {r, NoRequest} /\ entry.type \in {"task.completed", "task.dlq"}
  BY <1>7, <1>11
<1>14. CASE Publish(p, tenant, workflow, entry) /\ Proceed(p, g, "acking")
  <2>1. Told(r)'
    <3>1. CASE old.recovered
      <4>1. TaskOf(r)' = TaskOf(r) /\ DOMAIN requests' = DOMAIN requests /\ r \in DOMAIN requests
        BY <1>2, <1>10 DEF TaskOf, Typed
      <4>2. Recoverable(r)'
        BY <1>2, <3>1, <4>1 DEF Handles, Recoverable
      <4>3. Misaddressed(tenant)' # {}
        <5>1. GetStreamKey(tenant, workflow) = <<tenant, "default">>
          BY <1>4, <1>8, <3>1
        <5> QED
          BY <1>2, <1>11, <1>14, <5>1, NamesNobody
      <4>4. (TaskOf(r).tenant)' = tenant
        BY <1>3, <4>1 DEF TenantOf
      <4> QED
        BY <4>2, <4>3, <4>4 DEF Told, Accounted, Misaddressed
    <3>2. CASE ~old.recovered
      BY <1>7, <1>12, <1>14, <3>2
    <3> QED
      BY <3>1, <3>2
  <2> QED
    BY <1>1, <1>2, <1>11, <1>12, <1>13, <1>14, <2>1, ProceedKeeps
<1>15. CASE PublishFails(p, tenant, workflow, entry) /\ Proceed(p, g, "dead")
  <2>1. ~closed[p] => faults' > 0
    <3> SUFFICES ASSUME ~closed[p] PROVE faults' > 0
      OBVIOUS
    <3>1. faults \in Nat
      BY <1>2 DEF Typed
    <3>2. faults' = faults + 1
      BY <1>12, <1>15
    <3> QED
      BY <3>1, <3>2
  <2>2. Completions(r)' # {} => faults' > 0
    <3>1. Completions(r) = {}
      BY <1>1, <1>2 DEF Handles, In
    <3> QED
      BY <1>12, <1>15, <2>1, <3>1
  <2> QED
    BY <1>1, <1>2, <1>11, <1>12, <1>13, <1>15, <2>1, <2>2, ProceedKeeps
<1> QED
  BY <1>9, <1>14, <1>15

(* A dead letter, published or not.                                        *)
LEMMA DeadLetterKeeps ==
  ASSUME ExecutorInv, NEW p \in Processes, NEW g \in Permits, DeadLetter(p, g)
  PROVE  ExecutorInv'
<1>1. In(p, g, "dead") /\ ~In(p, g, "idle")
  BY DEF DeadLetter, In
<1>2. PICK r \in 1 .. Len(requests), old \in Job :
        /\ r = Request(p, g) /\ old = job[p][g] /\ old.request = r
        /\ Typed /\ JobOK(p, g) /\ Handles(p, g, old, r)
        /\ r \in Requests /\ r # NoRequest /\ RequestOK(r)
  BY <1>1, Busy
<1>3. PICK tenant \in Tenants : tenant = TenantOf(r)
  BY <1>2, TaskTyped
<1>4. GetStreamKey(tenant, "workflow") \in Keys
  BY KeyOfTenant
<1>5. PICK e \in Entries : e = Entry("task.dlq", r, FALSE)
  <2>1. r \in Nat /\ FALSE \in BOOLEAN
    BY <1>2, RequestsAre
  <2> QED
    BY <2>1 DEF Entry, Entries, EventTypes
<1>6. e.type = "task.dlq" /\ e.request = r
  BY <1>5 DEF Entry
<1>7. /\ \/ Publish(p, tenant, "workflow", e)
         \/ PublishFails(p, tenant, "workflow", e)
      /\ Proceed(p, g, "acking")
  BY <1>2, <1>3, <1>5 DEF DeadLetter
<1>8. UNCHANGED <<group, cursor, known, closed, requests, acked, calls, uncaught>>
  BY <1>7 DEF Proceed
<1>9. /\ RequestOK(r)' /\ Taken(r)'
      /\ Publish(p, tenant, "workflow", e) => Told(r)'
      /\ PublishFails(p, tenant, "workflow", e) /\ ~closed[p] => faults' = faults + 1
  <2>1. PICK type \in {"task.completed", "task.dlq"} : type = "task.dlq"
    OBVIOUS
  <2>2. e.type = type
    BY <1>6, <2>1
  <2> QED
    BY <1>1, <1>2, <1>4, <1>6, <1>7, <1>8, <2>1, <2>2, Telling
<1>10. ASSUME ~closed[p] PROVE Told(r)'
  <2>1. CASE Publish(p, tenant, "workflow", e)
    BY <1>9, <2>1
  <2>2. CASE PublishFails(p, tenant, "workflow", e)
    <3>1. MayErr(TaskOf(r)) \/ faults > 0
      BY <1>1, <1>2, <1>10 DEF Handles, In
    <3>2. faults' = faults + 1 /\ faults \in Nat
      BY <1>2, <1>9, <1>10, <2>2 DEF Typed
    <3>3. r \in DOMAIN requests' /\ TaskOf(r)' = TaskOf(r)
      BY <1>2, <1>8 DEF TaskOf, Typed
    <3>4. faults' > (IF MayErr(TaskOf(r)) THEN 0 ELSE 1)
      BY <3>1, <3>2
    <3> QED
      BY <3>3, <3>4 DEF Told, Untold, MayErr
  <2> QED
    BY <1>7, <2>1, <2>2
<1> QED
  BY <1>1, <1>2, <1>4, <1>6, <1>7, <1>9, <1>10, ProceedKeeps

(* The end of a request, whether or not it could be acknowledged.          *)
LEMMA AcknowledgeKeeps ==
  ASSUME ExecutorInv, NEW p \in Processes, NEW g \in Permits,
         AcknowledgeEvent(p, g) \/ AcknowledgeFails(p, g)
  PROVE  ExecutorInv'
<1>1. In(p, g, "acking") /\ ~In(p, g, "idle")
  BY DEF AcknowledgeEvent, AcknowledgeFails, In
<1>2. PICK r \in 1 .. Len(requests), old \in Job :
        /\ r = Request(p, g) /\ old = job[p][g] /\ old.request = r
        /\ Typed /\ JobOK(p, g) /\ Handles(p, g, old, r)
        /\ r \in Requests /\ r # NoRequest /\ RequestOK(r)
  BY <1>1, Busy
<1>3. /\ job' = [job EXCEPT ![p][g] = IdleJob]
      /\ UNCHANGED <<stream, group, cursor, known, closed, requests, calls, uncaught, cache,
                     access, died>>
  BY DEF AcknowledgeEvent, AcknowledgeFails, Finish, SetJob, documentVars
<1>4. /\ faults' \in Nat /\ losses' \in Nat /\ faults' + losses' <= MaxTroubles
      /\ faults <= faults'
      /\ acked' = acked \/ (acked' = acked \cup {r} /\ ~closed[p])
  <2>1. faults \in Nat /\ losses \in Nat /\ faults + losses <= MaxTroubles /\ MaxTroubles \in Nat
    BY <1>2, StreamAssumption DEF Typed
  <2>2. CASE AcknowledgeEvent(p, g)
    BY <1>2, <2>1, <2>2 DEF AcknowledgeEvent, Succeed, budgets
  <2>3. CASE AcknowledgeFails(p, g)
    BY <2>1, <2>3 DEF AcknowledgeFails, Fault, budgets
  <2> QED
    BY <2>2, <2>3
<1>5. /\ Kept
      /\ \A x : /\ Published("task.requested", x)' = Published("task.requested", x)
                /\ Completions(x)' = Completions(x) /\ DeadLetters(x)' = DeadLetters(x)
                /\ Taken(x)' <=> Taken(x)
  BY <1>2, <1>3, <1>4, Quiet
<1>6. \A x \in Requests : SameFor(x)
  BY <1>3, <1>5 DEF SameFor
<1>7. IdleJob \in Job /\ IdleJob.request = NoRequest /\ IdleJob.phase = "idle"
  BY IdleIsIdle
<1>8. OnlyJob(p, g, IdleJob)
  BY <1>2, <1>3, <1>7 DEF OnlyJob, Typed
<1>9. /\ \A x \in Requests : x # r => RequestOK(x)'
      /\ \A q \in Processes, h \in Permits : q # p \/ h # g => JobOK(q, h)'
  <2>1. SameForOthers(r) /\ requests' = requests /\ closed' = closed
        /\ acked' \subseteq acked \cup {r} /\ Kept /\ Request(p, g) = r
        /\ IdleJob.request \in {r, NoRequest} /\ r \in Requests
    BY <1>2, <1>3, <1>4, <1>5, <1>6, <1>7 DEF SameForOthers
  <2> QED
    BY <1>7, <1>8, <2>1, OthersStay
<1>10. RequestOK(r)'
  <2>1. Told(r)' \/ acked' = acked
    <3>1. ~closed[p] => Told(r)
      BY <1>1, <1>2 DEF Handles, In
    <3> QED
      BY <1>2, <1>4, <1>5, <3>1 DEF Kept
  <2>2. CASE acked' = acked
    BY <1>2, <1>3, <1>5, <1>6, <2>2, RequestStays
  <2>3. CASE Told(r)'
    <3>1. faults' = 0 => faults = 0
      BY <1>2, <1>4 DEF Typed
    <3>2. Allowed(r, calls[r]) => Allowed(r, calls[r])'
      BY <1>3 DEF Allowed, TaskOf
    <3> QED
      BY <1>2, <1>3, <1>5, <2>3, <3>1, <3>2 DEF RequestOK
  <2> QED
    BY <2>1, <2>2, <2>3
<1>11. JobOK(p, g)'
  <2>1. access'[p][g] = "none"
    BY <1>1, <1>2, <1>3 DEF JobOK, In
  <2>2. job'[p][g] = IdleJob
    BY <1>8 DEF OnlyJob
  <2> QED
    BY <1>7, <2>1, <2>2 DEF JobOK
<1>12. Typed'
  <2>1. acked' \subseteq 1 .. Len(requests')
    BY <1>2, <1>3, <1>4 DEF Typed
  <2>2. job' \in [Processes -> [Permits -> Job]]
    BY <1>8 DEF OnlyJob
  <2> QED
    BY <1>2, <1>3, <1>4, <2>1, <2>2 DEF Typed, Existing
<1>13. Asked'
  BY <1>3, <1>5 DEF ExecutorInv, Asked
<1>14. \A q \in Processes : DocumentOK(q)'
  BY <1>3 DEF ExecutorInv, DocumentOK
<1>15. \A x \in Requests : RequestOK(x)'
  BY <1>9, <1>10
<1>16. \A q \in Processes, h \in Permits : JobOK(q, h)'
  BY <1>9, <1>11
<1> QED
  BY <1>12, <1>13, <1>14, <1>15, <1>16 DEF ExecutorInv
-----------------------------------------------------------------------------
(* Steps about no request.                                                 *)

(* A goroutine goes on as it was, or is a new process's.                   *)
Calm(q, h) ==
  \/ /\ job'[q][h] = job[q][h] /\ (access'[q][h] # "none" => access[q][h] # "none")
     /\ closed[q] => closed'[q]
  \/ job'[q][h] = IdleJob /\ access'[q][h] = "none"

(* Goroutines that are calm keep what they know.                           *)
LEMMA CalmJobs ==
  ASSUME ExecutorInv, Kept, \A q \in Processes, h \in Permits : Calm(q, h),
         \A r \in Requests : Taken(r) => SameFor(r)
  PROVE  \A q \in Processes, h \in Permits : JobOK(q, h)'
<1> SUFFICES ASSUME NEW q \in Processes, NEW h \in Permits PROVE JobOK(q, h)'
  OBVIOUS
<1>1. Typed /\ JobOK(q, h) /\ Calm(q, h) /\ job[q][h] \in Job
  BY DEF ExecutorInv, Typed
<1>2. CASE job'[q][h] = IdleJob /\ access'[q][h] = "none"
  BY <1>2, IdleIsIdle DEF JobOK
<1>3. CASE /\ job'[q][h] = job[q][h] /\ (access'[q][h] # "none" => access[q][h] # "none")
           /\ closed[q] => closed'[q]
  <2>1. PICK x : x = job[q][h].request
    OBVIOUS
  <2>2. ASSUME x # NoRequest PROVE SameFor(x) /\ Alone(q, h)'
    <3>1. x \in Requests /\ Handles(q, h, job[q][h], x)
      BY <1>1, <2>1, <2>2 DEF Job, JobOK
    <3>2. SameFor(x) /\ Alone(q, h)
      BY <3>1 DEF Handles
    <3>3. \A y \in Processes, z \in Permits : job'[y][z].request = x => y = q /\ z = h
      <4> SUFFICES ASSUME NEW y \in Processes, NEW z \in Permits, job'[y][z].request = x
                   PROVE  y = q /\ z = h
        OBVIOUS
      <4>1. Calm(y, z)
        OBVIOUS
      <4>2. job'[y][z] # IdleJob
        BY <2>2, IdleIsIdle
      <4>3. job[y][z].request = x
        BY <4>1, <4>2 DEF Calm
      <4> QED
        BY <2>1, <3>2, <4>3 DEF Alone
    <3> QED
      BY <1>3, <2>1, <3>2, <3>3 DEF Alone
  <2> QED
    BY <1>1, <1>3, <2>1, <2>2, JobStays
<1> QED
  BY <1>1, <1>2, <1>3 DEF Calm

(* A step that publishes and delivers nothing.                             *)
LEMMA QuietKeeps ==
  ASSUME ExecutorInv, Typed', UNCHANGED <<stream, cursor, requests, acked, calls, uncaught>>,
         faults <= faults', \A q \in Processes, h \in Permits : Calm(q, h),
         \A q \in Processes : DocumentOK(q)'
  PROVE  ExecutorInv'
<1>1. Typed /\ faults' \in Nat
  BY DEF ExecutorInv, Typed
<1>2. /\ Kept
      /\ \A x : /\ Published("task.requested", x)' = Published("task.requested", x)
                /\ Completions(x)' = Completions(x) /\ DeadLetters(x)' = DeadLetters(x)
                /\ Taken(x)' <=> Taken(x)
  BY <1>1, Quiet
<1>3. \A x \in Requests : SameFor(x)
  BY <1>2 DEF SameFor
<1>4. \A q \in Processes, h \in Permits : JobOK(q, h)'
  BY <1>2, <1>3, CalmJobs
<1>5. ASSUME NEW x \in Requests PROVE RequestOK(x)'
  BY <1>1, <1>2, <1>3, RequestStays DEF ExecutorInv
<1>6. Asked'
  BY <1>2 DEF ExecutorInv, Asked
<1> QED
  BY <1>4, <1>5, <1>6 DEF ExecutorInv

(* The budgets stay within their bound.                                    *)
LEMMA Budgets ==
  ASSUME Typed, NEW p \in Processes, Succeed(p) \/ Fault(p) \/ Loss \/ UNCHANGED budgets
  PROVE  /\ faults' \in Nat /\ losses' \in Nat /\ faults' + losses' <= MaxTroubles
         /\ faults <= faults'
<1>1. faults \in Nat /\ losses \in Nat /\ faults + losses <= MaxTroubles /\ MaxTroubles \in Nat
  BY StreamAssumption DEF Typed
<1>2. \/ faults' = faults /\ losses' = losses
      \/ /\ faults + losses < MaxTroubles
         /\ \/ faults' = faults + 1 /\ losses' = losses
            \/ faults' = faults /\ losses' = losses + 1
  BY DEF Succeed, Fault, Loss, budgets
<1> QED
  BY <1>1, <1>2

(* Streams can be counted.                                                 *)
LEMMA CountsExisting ==
  ASSUME NEW keys \in SUBSET Existing
  PROVE  Cardinality(keys) \in Nat
<1>1. IsFiniteSet({"default"}) /\ IsFiniteSet({"workflow", "default"})
  <2>1. IsFiniteSet({"workflow"}) /\ IsFiniteSet({"default"})
    BY FS_Singleton
  <2>2. {"workflow", "default"} = {"workflow"} \cup {"default"}
    OBVIOUS
  <2> QED
    BY <2>1, <2>2, FS_Union
<1>2. IsFiniteSet(Tenants \cup {"default"})
  BY <1>1, StreamAssumption, FS_Union
<1>3. IsFiniteSet(Keys)
  BY <1>1, <1>2, FS_Product DEF Keys
<1>4. keys \subseteq Keys
  BY DEF Existing
<1> QED
  BY <1>3, <1>4, FS_Subset, FS_CardinalityType

(* Looking for streams.                                                    *)
LEMMA DiscoverKeeps ==
  ASSUME ExecutorInv, NEW p \in Processes, Discover(p) \/ DiscoverBadly(p)
  PROVE  ExecutorInv'
<1>1. Typed /\ UNCHANGED <<requests, jobVars, documentVars, died, stream, cursor, closed>>
  BY DEF ExecutorInv, Discover, DiscoverBadly, Rediscover, RediscoverFails, RediscoverRepeats,
         RecreateGroups, SetupStreamsAndGroups
<1>2. Succeed(p) \/ Fault(p) \/ Loss
  BY DEF Discover, DiscoverBadly, Rediscover, RediscoverFails, RediscoverRepeats, RecreateGroups
<1>3. /\ faults' \in Nat /\ losses' \in Nat /\ faults' + losses' <= MaxTroubles
      /\ faults <= faults'
  BY <1>1, <1>2, Budgets
<1>4. \E keys \in SUBSET Existing : group' = group \cup keys
  BY DEF Discover, DiscoverBadly, Rediscover, RediscoverFails, RediscoverRepeats,
         RecreateGroups, SetupStreamsAndGroups
<1>5. group' \subseteq Existing'
  BY <1>1, <1>4 DEF Typed, Existing
<1>6. known' \in [Processes -> [keys : SUBSET Existing, size : Nat]]
  <2>1. \A keys \in SUBSET Existing : Cardinality(keys) \in Nat
    BY CountsExisting
  <2>2. \A keys \in SUBSET Existing, size \in Nat :
          Found(keys, size) \in [keys : SUBSET Existing, size : Nat]
    BY DEF Found
  <2>3. \E keys \in SUBSET Existing, size \in Nat :
          \/ known' = known
          \/ known' = [known EXCEPT ![p] = Found(keys, size)]
    <3>1. CASE \E keys \in SUBSET Existing : Topology(p, Found(keys, Cardinality(keys)))
      BY <2>1, <3>1 DEF Topology
    <3>2. CASE Topology(p, Found(Existing, Cardinality(Existing) + 1))
      <4>1. Existing \in SUBSET Existing /\ Cardinality(Existing) + 1 \in Nat
        BY <2>1
      <4> QED
        BY <3>2, <4>1 DEF Topology
    <3>3. CASE known' = [known EXCEPT ![p] = Found(Existing, Cardinality(Existing))]
      <4>1. Existing \in SUBSET Existing /\ Cardinality(Existing) \in Nat
        BY <2>1
      <4> QED
        BY <3>3, <4>1
    <3> QED
      BY <3>1, <3>2, <3>3 DEF Discover, DiscoverBadly, Rediscover, RediscoverFails,
         RediscoverRepeats, RecreateGroups
  <2>4. known \in [Processes -> [keys : SUBSET Existing, size : Nat]]
    BY <1>1 DEF Typed
  <2> HIDE DEF Found
  <2> QED
    BY <2>2, <2>3, <2>4
<1>7. Existing' = Existing
  BY <1>1 DEF Existing
<1>8. Typed'
  BY <1>1, <1>3, <1>5, <1>6, <1>7 DEF Typed, jobVars, documentVars
<1>9. \A q \in Processes, h \in Permits : Calm(q, h)
  BY <1>1 DEF Calm, jobVars, documentVars
<1>10. \A q \in Processes : DocumentOK(q)'
  BY <1>1 DEF ExecutorInv, DocumentOK, documentVars
<1> QED
  BY <1>1, <1>3, <1>8, <1>9, <1>10, QuietKeeps DEF jobVars

(* What a goroutine does with the document.                                *)
LEMMA LoadKeeps ==
  ASSUME ExecutorInv, NEW p \in Processes, NEW g \in Permits, Load(p, g)
  PROVE  ExecutorInv'
<1>1. /\ Typed /\ UNCHANGED <<stream, group, cursor, known, closed, faults, losses, requests,
                              job, acked, calls, uncaught, died>>
  BY DEF ExecutorInv, Load, streamVars, jobVars
<1>2. LoadDocument(p, g)
  BY DEF Load
<1>3. /\ access[p][g] # "none"
      /\ \E a \in Accesses, c \in {"absent", "fresh", "expired"} :
           /\ access' = [access EXCEPT ![p][g] = a]
           /\ cache' = cache \/ cache' = [cache EXCEPT ![p] = c]
           /\ a = "deleting" => cache[p] # "fresh" /\ cache' = cache
           /\ cache' # cache /\ c = "fresh" => a = "loaded" /\ Reading(p) = {}
  <2>1. CASE GetCachedDocument(p, g)
    <3>1. \/ cache[p] = "absent" \/ cache[p] = "fresh" \/ cache[p] = "expired"
      BY <1>1 DEF Typed
    <3> QED
      BY <2>1, <3>1 DEF GetCachedDocument, Go, Accesses
  <2>2. CASE DeleteExpired(p, g)
    BY <2>2 DEF DeleteExpired, Go, Accesses
  <2>3. CASE FetchDocument(p, g)
    BY <2>3 DEF FetchDocument, Go, Accesses
  <2>4. CASE CacheDocument(p, g)
    BY <2>4 DEF CacheDocument, Go, Accesses
  <2> QED
    BY <1>2, <2>1, <2>2, <2>3, <2>4 DEF LoadDocument
<1>4. PICK a \in Accesses, c \in {"absent", "fresh", "expired"} :
        /\ access' = [access EXCEPT ![p][g] = a]
        /\ cache' = cache \/ cache' = [cache EXCEPT ![p] = c]
        /\ a = "deleting" => cache[p] # "fresh" /\ cache' = cache
        /\ cache' # cache /\ c = "fresh" => a = "loaded" /\ Reading(p) = {}
  BY <1>3
<1>5. /\ access' \in [Processes -> [Permits -> Accesses]] /\ access'[p][g] = a
      /\ \A q \in Processes, h \in Permits :
           q # p \/ h # g => access'[q][h] = access[q][h]
  BY <1>1, <1>4 DEF Typed
<1>6. /\ cache' \in [Processes -> {"absent", "fresh", "expired"}]
      /\ \A q \in Processes : q # p => cache'[q] = cache[q]
      /\ cache' # cache => cache'[p] = c
  BY <1>1, <1>4 DEF Typed
<1>7. Typed'
  BY <1>1, <1>5, <1>6 DEF Typed, Existing
<1>8. \A q \in Processes, h \in Permits : Calm(q, h)
  BY <1>1, <1>3, <1>5 DEF Calm
<1>9. ASSUME NEW q \in Processes PROVE DocumentOK(q)'
  <2> SUFFICES ASSUME NEW h \in Permits, access'[q][h] = "deleting" PROVE cache'[q] # "fresh"
    BY DEF DocumentOK
  <2>1. DocumentOK(q)
    BY DEF ExecutorInv
  <2>2. CASE q = p /\ h = g
    BY <1>4, <1>5, <2>2
  <2>3. CASE q # p
    BY <1>5, <1>6, <2>1, <2>3 DEF DocumentOK
  <2>4. CASE q = p /\ h # g
    <3>1. access[p][h] = "deleting" /\ cache[p] # "fresh"
      BY <1>5, <2>1, <2>4 DEF DocumentOK
    <3>2. h \in Reading(p)
      BY <3>1 DEF Reading
    <3> QED
      BY <1>4, <1>6, <2>4, <3>1, <3>2
  <2> QED
    BY <2>2, <2>3, <2>4
<1> QED
  BY <1>1, <1>7, <1>8, <1>9, QuietKeeps DEF Typed

(* A document that expires, and a process that is told to stop.            *)
LEMMA ExpiryOrStopKeeps ==
  ASSUME ExecutorInv, NEW p \in Processes, DocumentExpires(p) \/ Stop(p)
  PROVE  ExecutorInv'
<1>1. /\ Typed /\ UNCHANGED <<stream, group, cursor, known, requests, job, access, acked,
                              calls, uncaught, died>>
  BY DEF ExecutorInv, DocumentExpires, Expire, Stop, streamVars, jobVars, documentVars
<1>2. /\ faults' \in Nat /\ losses' \in Nat /\ faults' + losses' <= MaxTroubles
      /\ faults <= faults'
  <2>1. Loss \/ UNCHANGED budgets
    BY DEF DocumentExpires, Stop, streamVars, budgets
  <2> QED
    BY <1>1, <2>1, Budgets
<1>3. /\ closed' \in [Processes -> BOOLEAN] /\ \A q \in Processes : closed[q] => closed'[q]
      /\ cache' \in [Processes -> {"absent", "fresh", "expired"}]
      /\ \A q \in Processes : cache'[q] = "fresh" => cache[q] = "fresh"
  <2>1. CASE DocumentExpires(p)
    BY <1>1, <2>1 DEF Typed, DocumentExpires, Expire, streamVars
  <2>2. CASE Stop(p)
    BY <1>1, <2>2 DEF Typed, Stop, documentVars
  <2> QED
    BY <2>1, <2>2
<1>4. Typed'
  BY <1>1, <1>2, <1>3 DEF Typed, Existing
<1>5. \A q \in Processes, h \in Permits : Calm(q, h)
  BY <1>1, <1>3 DEF Calm
<1>6. \A q \in Processes : DocumentOK(q)'
  BY <1>1, <1>3 DEF ExecutorInv, DocumentOK
<1> QED
  BY <1>1, <1>2, <1>4, <1>5, <1>6, QuietKeeps

(* A process that ends and is replaced.                                    *)
LEMMA StartOverKeeps ==
  ASSUME ExecutorInv, NEW p \in Processes, Exit(p) \/ Crash(p) \/ MapRaceIsFatal(p)
  PROVE  ExecutorInv'
<1>1. /\ Typed /\ UNCHANGED <<stream, group, cursor, requests, acked, calls, uncaught>>
      /\ StartOver(p)
  BY DEF ExecutorInv, Exit, Crash, MapRaceIsFatal, StartOver
<1>2. /\ faults' \in Nat /\ losses' \in Nat /\ faults' + losses' <= MaxTroubles
      /\ faults <= faults'
  <2>1. Loss \/ UNCHANGED budgets
    BY DEF Exit, Crash, MapRaceIsFatal
  <2> QED
    BY <1>1, <2>1, Budgets
<1>3. died' \in BOOLEAN
  BY <1>1 DEF Typed, Exit, Crash, MapRaceIsFatal
<1>4. /\ job' \in [Processes -> [Permits -> Job]]
      /\ \A h \in Permits : job'[p][h] = IdleJob
      /\ \A q \in Processes : q # p => job'[q] = job[q]
  BY <1>1, IdleIsIdle DEF Typed, StartOver
<1>5. /\ access' \in [Processes -> [Permits -> Accesses]]
      /\ \A h \in Permits : access'[p][h] = "none"
      /\ \A q \in Processes : q # p => access'[q] = access[q]
  BY <1>1 DEF Typed, StartOver, ForgetDocuments, Accesses
<1>6. /\ cache' \in [Processes -> {"absent", "fresh", "expired"}]
      /\ \A q \in Processes : q # p => cache'[q] = cache[q]
  BY <1>1 DEF Typed, StartOver, ForgetDocuments
<1>7. /\ closed' \in [Processes -> BOOLEAN]
      /\ \A q \in Processes : q # p => closed'[q] = closed[q]
  BY <1>1 DEF Typed, StartOver
<1>8. known' \in [Processes -> [keys : SUBSET Existing, size : Nat]]
  <2>1. Nowhere \in [keys : SUBSET Existing, size : Nat]
    BY DEF Nowhere
  <2>2. known' = [known EXCEPT ![p] = Nowhere]
    BY <1>1 DEF StartOver
  <2> HIDE DEF Nowhere
  <2> QED
    BY <1>1, <2>1, <2>2 DEF Typed
<1>9. Typed'
  BY <1>1, <1>2, <1>3, <1>4, <1>5, <1>6, <1>7, <1>8 DEF Typed, Existing
<1>10. \A q \in Processes, h \in Permits : Calm(q, h)
  BY <1>4, <1>5, <1>7 DEF Calm
<1>11. \A q \in Processes : DocumentOK(q)'
  BY <1>5, <1>6 DEF ExecutorInv, DocumentOK
<1> QED
  BY <1>1, <1>2, <1>9, <1>10, <1>11, QuietKeeps
-----------------------------------------------------------------------------
(* Requests, and what becomes of timers.                                   *)

(* An entry that nobody handles yet.                                       *)
LEMMA Announced ==
  ASSUME ExecutorInv, NEW k \in Keys, NEW e \in Entries,
         stream' = [stream EXCEPT ![k] = Append(@, e)],
         e.type \in {"task.requested", "timer.fired", "workflow.dlq"},
         Len(requests') \in Nat, Len(requests) <= Len(requests'),
         DOMAIN requests' = 1 .. Len(requests'),
         \A r \in 1 .. Len(requests) : requests'[r] = requests[r],
         UNCHANGED <<group, cursor, known, closed, faults, losses, calls, uncaught>>
  PROVE  /\ Kept /\ StreamTyped'
         /\ \A r : e.type # "task.requested" \/ e.request # r => SameFor(r)
         /\ \A r : Completions(r)' = Completions(r) /\ DeadLetters(r)' = DeadLetters(r)
         /\ e.type = "task.requested" =>
              Published("task.requested", e.request)' =
                Published("task.requested", e.request) \cup {<<k, Len(stream[k]) + 1>>}
         /\ \A r : e.type # "task.requested" \/ e.request # r =>
              Published("task.requested", r)' = Published("task.requested", r)
<1>1. Typed
  BY DEF ExecutorInv
<1>2. StreamGrows /\ stream' \in [Keys -> Seq(Entries)]
  BY <1>1, Appended
<1>3. /\ faults' \in Nat /\ faults <= faults' /\ losses' \in Nat
      /\ faults' + losses' <= MaxTroubles
  BY <1>1 DEF Typed
<1>4. \A x \in Keys : cursor'[x] \in Nat /\ cursor[x] <= cursor'[x]
  BY <1>1 DEF Typed
<1>5. Kept
  BY <1>1, <1>2, <1>3, <1>4, KeptBy
<1>6. StreamTyped'
  BY <1>1, <1>2, <1>3, StreamTypedStays
<1>7. \A type, r :
        /\ e.type # type \/ e.request # r => Published(type, r)' = Published(type, r)
        /\ e.type = type /\ e.request = r => Published(type, r)' =
             Published(type, r) \cup {<<k, Len(stream[k]) + 1>>}
  BY <1>1, AppendedPublished
<1>8. \A r : Completions(r)' = Completions(r) /\ DeadLetters(r)' = DeadLetters(r)
  BY <1>7 DEF Completions, DeadLetters
<1>9. \A r : e.type # "task.requested" \/ e.request # r =>
        Published("task.requested", r)' = Published("task.requested", r)
  BY <1>7
<1>10. ASSUME NEW r, e.type # "task.requested" \/ e.request # r PROVE SameFor(r)
  <2>1. Published("task.requested", r)' = Published("task.requested", r)
    BY <1>9, <1>10
  <2>2. Taken(r)' <=> Taken(r)
    BY <2>1 DEF Taken
  <2> QED
    BY <1>8, <2>1, <2>2 DEF SameFor
<1>11. e.type = "task.requested" =>
         Published("task.requested", e.request)' =
           Published("task.requested", e.request) \cup {<<k, Len(stream[k]) + 1>>}
  BY <1>7
<1> QED
  BY <1>5, <1>6, <1>8, <1>9, <1>10, <1>11

(* The answer to a retry's timer.                                          *)
LEMMA FollowsKeeps ==
  ASSUME ExecutorInv, NEW r \in Requests, PublishTimerFired(r) \/ WorkerGivesUp(r)
  PROVE  ExecutorInv'
<1>1. /\ Typed
      /\ UNCHANGED <<group, cursor, known, closed, faults, losses, requests, job, acked, calls,
                     uncaught, cache, access, died>>
  BY DEF ExecutorInv, PublishTimerFired, WorkerGivesUp, Follows, budgets, jobVars, documentVars
<1>2. PICK type : /\ type \in {"timer.fired", "workflow.dlq"}
                  /\ Append1("", "workflow", Entry(type, r, FALSE))
  BY DEF PublishTimerFired, WorkerGivesUp, Follows
<1>3. PICK e \in Entries : e = Entry(type, r, FALSE) /\ e.type = type
  <2>1. r \in Nat
    BY RequestsAre
  <2>2. type \in EventTypes
    BY <1>2 DEF EventTypes
  <2>3. Entry(type, r, FALSE) \in Entries /\ Entry(type, r, FALSE).type = type
    BY <2>1, <2>2 DEF Entry, Entries
  <2> QED
    BY <2>3
<1>4. PICK k \in Keys : k = GetStreamKey("", "workflow")
  BY KeyOfNobody
<1>5. stream' = [stream EXCEPT ![k] = Append(@, e)]
  BY <1>2, <1>3, <1>4 DEF Append1
<1>6. /\ Kept /\ StreamTyped' /\ \A x : SameFor(x)
      /\ \A x : Published("task.requested", x)' = Published("task.requested", x)
  <2>1. e.type \in {"task.requested", "timer.fired", "workflow.dlq"} /\ e.type # "task.requested"
    BY <1>2, <1>3
  <2>2. /\ Len(requests') \in Nat /\ Len(requests) <= Len(requests')
        /\ DOMAIN requests' = 1 .. Len(requests')
        /\ \A x \in 1 .. Len(requests) : requests'[x] = requests[x]
    BY <1>1 DEF Typed
  <2>3. UNCHANGED <<group, cursor, known, closed, faults, losses, calls, uncaught>>
    BY <1>1
  <2> QED
    BY <1>5, <2>1, <2>2, <2>3, Announced
<1>7. Typed'
  BY <1>1, <1>6 DEF Typed, StreamTyped
<1>8. Asked'
  BY <1>1, <1>6 DEF ExecutorInv, Asked
<1>9. \A q \in Processes, h \in Permits : JobOK(q, h)'
  <2>1. \A q \in Processes, h \in Permits : Calm(q, h)
    BY <1>1 DEF Calm
  <2> QED
    BY <1>6, <2>1, CalmJobs
<1>10. ASSUME NEW x \in Requests PROVE RequestOK(x)'
  BY <1>1, <1>6, RequestStays DEF ExecutorInv
<1>11. \A q \in Processes : DocumentOK(q)'
  BY <1>1 DEF ExecutorInv, DocumentOK
<1> QED
  BY <1>7, <1>8, <1>9, <1>10, <1>11 DEF ExecutorInv

(* A worker's request.                                                     *)
LEMMA RequestTaskKeeps ==
  ASSUME ExecutorInv, NEW task, RequestTask(task)
  PROVE  ExecutorInv'
<1>1. /\ Typed
      /\ UNCHANGED <<group, cursor, known, closed, faults, losses, job, acked, calls,
                     uncaught, cache, access, died>>
  BY DEF ExecutorInv, RequestTask, budgets, jobVars, documentVars
<1>2. PICK new \in Requests : new = Len(requests) + 1
  BY <1>1, RequestsAre DEF RequestTask, Typed
<1>3. task \in Tasks[new] /\ task \in AnyTask /\ requests \in Seq(AnyTask)
  BY <1>1, <1>2 DEF RequestTask, AnyTask, Typed
<1>4. /\ requests' \in Seq(AnyTask) /\ Len(requests') = new
      /\ DOMAIN requests' = 1 .. Len(requests') /\ Len(requests') \in 0 .. Len(Tasks)
      /\ \A r \in 1 .. Len(requests) : requests'[r] = requests[r]
      /\ requests'[new] = task
  <2>1. requests' = Append(requests, task)
    BY DEF RequestTask
  <2>2. /\ Append(requests, task) \in Seq(AnyTask)
        /\ Len(Append(requests, task)) = Len(requests) + 1
        /\ Append(requests, task)[Len(requests) + 1] = task
        /\ \A r \in 1 .. Len(requests) : Append(requests, task)[r] = requests[r]
    BY <1>3
  <2> QED
    BY <1>2, <2>1, <2>2, RequestsAre
<1>5. PICK tenant \in Tenants : tenant = task.tenant
  BY <1>2, <1>3, ExecutorAssumption DEF Requests
<1>6. PICK k \in Keys : k = GetStreamKey(tenant, "workflow")
  BY KeyOfTenant
<1>7. PICK e \in Entries : /\ e = Entry("task.requested", new, FALSE)
                           /\ e.type = "task.requested" /\ e.request = new
  <2>1. new \in Nat
    BY RequestsAre
  <2>2. /\ Entry("task.requested", new, FALSE) \in Entries
        /\ Entry("task.requested", new, FALSE).type = "task.requested"
        /\ Entry("task.requested", new, FALSE).request = new
    BY <2>1 DEF Entry, Entries, EventTypes
  <2> QED
    BY <2>2
<1>8. stream' = [stream EXCEPT ![k] = Append(@, e)]
  BY <1>2, <1>5, <1>6, <1>7 DEF RequestTask, Append1
<1>9. /\ Kept /\ StreamTyped' /\ \A r : r # new => SameFor(r)
      /\ \A r : Completions(r)' = Completions(r) /\ DeadLetters(r)' = DeadLetters(r)
      /\ Published("task.requested", new)' =
           Published("task.requested", new) \cup {<<k, Len(stream[k]) + 1>>}
      /\ \A r : r # new => Published("task.requested", r)' = Published("task.requested", r)
  <2>1. Len(requests') \in Nat /\ Len(requests) <= Len(requests')
    BY <1>1, <1>2, <1>4 DEF Typed
  <2>2. UNCHANGED <<group, cursor, known, closed, faults, losses, calls, uncaught>>
    BY <1>1
  <2>3. e.type \in {"task.requested", "timer.fired", "workflow.dlq"}
    BY <1>7
  <2> QED
    BY <1>4, <1>7, <1>8, <2>1, <2>2, <2>3, Announced
<1>10. Published("task.requested", new) = {} /\ new \notin acked
  BY <1>1, <1>2 DEF ExecutorInv, Asked, Typed
<1>11. Published("task.requested", new)' = {<<k, Len(stream[k]) + 1>>}
  BY <1>9, <1>10
<1>12. ~Taken(new) /\ ~Taken(new)'
  <2>1. ~Taken(new)
    BY <1>10 DEF Taken
  <2>2. Len(stream[k]) \in Nat /\ cursor'[k] <= Len(stream[k]) /\ cursor'[k] \in Nat
    BY <1>1 DEF Typed
  <2>3. <<k, Len(stream[k]) + 1>>[1] = k /\ <<k, Len(stream[k]) + 1>>[2] = Len(stream[k]) + 1
    OBVIOUS
  <2>4. ~ (Len(stream[k]) + 1 <= cursor'[k])
    BY <2>2
  <2> QED
    BY <1>11, <2>1, <2>3, <2>4 DEF Taken
<1>13. Typed'
  <2>1. ASSUME NEW i \in 1 .. Len(requests') PROVE requests'[i] \in Tasks[i]
    <3>1. CASE i = new
      BY <1>3, <1>4, <3>1
    <3>2. CASE i # new
      <4>1. i \in 1 .. Len(requests)
        BY <1>1, <1>2, <1>4, <3>2 DEF Typed
      <4> QED
        BY <1>1, <1>4, <4>1 DEF Typed
    <3> QED
      BY <3>1, <3>2
  <2>2. acked' \subseteq 1 .. Len(requests')
    BY <1>1, <1>2, <1>4 DEF Typed
  <2> QED
    BY <1>1, <1>4, <1>9, <2>1, <2>2 DEF Typed, StreamTyped
<1>14. Asked'
  <2> SUFFICES ASSUME NEW r, Published("task.requested", r)' # {}
               PROVE  r \in 1 .. Len(requests')
    BY DEF Asked
  <2>1. CASE r = new
    BY <1>4, <2>1, RequestsAre
  <2>2. CASE r # new
    <3>1. r \in 1 .. Len(requests)
      BY <1>9, <2>2 DEF ExecutorInv, Asked
    <3> QED
      BY <1>1, <1>2, <1>4, <3>1 DEF Typed
  <2> QED
    BY <2>1, <2>2
<1>15. ASSUME NEW r \in Requests PROVE RequestOK(r)'
  <2>1. RequestOK(r)
    BY DEF ExecutorInv
  <2>2. CASE r # new
    <3>1. r <= Len(requests') => r <= Len(requests)
      BY <1>1, <1>2, <1>4, <2>2, RequestsAre DEF Typed
    <3>2. r \in acked' => r \in acked
      BY <1>1
    <3> QED
      BY <1>1, <1>9, <2>1, <2>2, <3>1, <3>2, RequestStays
  <2>3. CASE r = new
    <3>1. /\ Completions(r)' = {} /\ DeadLetters(r)' = {}
          /\ calls'[r] = 0 /\ uncaught'[r] = 0
      BY <1>1, <1>9, <1>12, <2>1, <2>3 DEF RequestOK
    <3>2. AtMostOne(Published("task.requested", r))' /\ AtMostOne({})
      BY <1>11, <2>3 DEF AtMostOne
    <3>3. Allowed(r, calls[r])'
      <4>1. task.catch.retry \subseteq Policy
        BY <1>2, <1>3, ExecutorAssumption DEF Requests
      <4>2. \A policy \in task.catch.retry : 0 <= policy.count
        BY <4>1 DEF Policy
      <4>3. TaskOf(r)' = task
        BY <1>4, <2>3 DEF TaskOf
      <4> QED
        BY <3>1, <4>2, <4>3 DEF Allowed
    <3>4. 0 <= MaxTries /\ 0 <= 0
      BY TryAssumption
    <3>5. r \notin acked'
      BY <1>1, <1>10, <2>3
    <3> QED
      BY <1>12, <2>3, <3>1, <3>2, <3>3, <3>4, <3>5 DEF RequestOK
  <2> QED
    BY <2>2, <2>3
<1>16. \A q \in Processes, h \in Permits : JobOK(q, h)'
  <2>1. \A q \in Processes, h \in Permits : Calm(q, h)
    BY <1>1 DEF Calm
  <2>2. \A r \in Requests : Taken(r) => SameFor(r)
    BY <1>9, <1>12
  <2> QED
    BY <1>9, <2>1, <2>2, CalmJobs
<1>17. \A q \in Processes : DocumentOK(q)'
  BY <1>1 DEF ExecutorInv, DocumentOK
<1> QED
  BY <1>13, <1>14, <1>15, <1>16, <1>17 DEF ExecutorInv
-----------------------------------------------------------------------------
(* Deliveries.                                                             *)

(* The entry that is handed out is one that nobody was given before, and   *)
(* no other request is touched.                                            *)
LEMMA HandedOut ==
  ASSUME ExecutorInv, NEW p \in Processes, NEW k \in Keys, Read(p, k, Subscribed),
         UNCHANGED requests, faults' \in Nat, faults <= faults'
  PROVE  \E r \in Requests :
           /\ r = stream[k][NextEntry(k, Subscribed)].request /\ r <= Len(requests)
           /\ ~Taken(r) /\ Taken(r)' /\ Kept
           /\ \A type, x : Published(type, x)' = Published(type, x)
           /\ \A x : x # r => (Taken(x)' <=> Taken(x))
           /\ cursor' \in [Keys -> Nat] /\ \A x \in Keys : cursor'[x] <= Len(stream'[x])
<1> DEFINE waiting == Waiting(k, Subscribed)
           n == NextEntry(k, Subscribed)
<1>1. /\ Typed /\ stream \in [Keys -> Seq(Entries)] /\ cursor \in [Keys -> Nat]
      /\ stream' = stream /\ waiting # {} /\ cursor' = [cursor EXCEPT ![k] = n]
      /\ Len(stream[k]) \in Nat /\ DOMAIN stream[k] = 1 .. Len(stream[k]) /\ cursor[k] \in Nat
  BY DEF ExecutorInv, Typed, Read, Readable
<1>2. n \in waiting /\ \A j \in waiting : n <= j
  <2>1. waiting \subseteq Nat
    BY <1>1 DEF Waiting
  <2>2. \E i \in waiting : \A j \in waiting : i <= j
    BY <1>1, <2>1, Least
  <2> QED
    BY <2>2 DEF NextEntry
<1>3. /\ n \in DOMAIN stream[k] /\ cursor[k] < n /\ n <= Len(stream[k]) /\ n \in Nat
      /\ stream[k][n].type = "task.requested"
  BY <1>1, <1>2 DEF Waiting, Subscribed
<1>4. PICK m : m = n
  OBVIOUS
<1>5. \A j \in DOMAIN stream[k] :
        stream[k][j].type = "task.requested" /\ cursor[k] < j => m <= j
  BY <1>1, <1>2, <1>4 DEF Waiting, Subscribed
<1> HIDE DEF waiting, n
<1>6. PICK r : r = stream[k][m].request
  OBVIOUS
<1>7. <<k, m>> \in Published("task.requested", r)
  BY <1>3, <1>4, <1>6, PublishedIs
<1>8. r \in Requests /\ r \in 1 .. Len(requests)
  <2>1. r \in 1 .. Len(requests)
    BY <1>7 DEF ExecutorInv, Asked
  <2> QED
    BY <1>1, <2>1, RequestsAre DEF Typed
<1>9. \A type, x : Published(type, x)' = Published(type, x)
  BY <1>1 DEF Published
<1>10. /\ cursor' \in [Keys -> Nat] /\ cursor'[k] = m
       /\ \A x \in Keys : x # k => cursor'[x] = cursor[x]
  BY <1>1, <1>3, <1>4
<1>11. ~Taken(r)
  <2> SUFFICES ASSUME Taken(r) PROVE FALSE
    OBVIOUS
  <2>1. PICK x \in Published("task.requested", r) : x[2] <= cursor[x[1]]
    BY DEF Taken
  <2>2. x = <<k, m>>
    BY <1>7, <1>8 DEF ExecutorInv, RequestOK, AtMostOne
  <2>3. m <= cursor[k]
    BY <2>1, <2>2
  <2> QED
    BY <1>1, <1>3, <1>4, <2>3
<1>12. Taken(r)'
  <2>1. <<k, m>> \in Published("task.requested", r)'
    BY <1>7, <1>9
  <2>2. <<k, m>>[2] <= cursor'[<<k, m>>[1]]
    BY <1>3, <1>4, <1>10
  <2> QED
    BY <2>1, <2>2 DEF Taken
<1>13. Kept
  <2>1. \A x \in Keys : cursor'[x] \in Nat /\ cursor[x] <= cursor'[x]
    BY <1>1, <1>3, <1>4, <1>10
  <2>2. StreamGrows /\ stream' \in [Keys -> Seq(Entries)]
    BY <1>1 DEF StreamGrows
  <2>3. /\ Len(requests') \in Nat /\ Len(requests) <= Len(requests')
        /\ DOMAIN requests' = 1 .. Len(requests')
        /\ \A x \in 1 .. Len(requests) : requests'[x] = requests[x]
    BY <1>1 DEF Typed
  <2> QED
    BY <1>1, <2>1, <2>2, <2>3, KeptBy
<1>14. ASSUME NEW x, x # r, Taken(x)' PROVE Taken(x)
  <2>1. PICK y \in Published("task.requested", x) : y[2] <= cursor'[y[1]]
    BY <1>9, <1>14 DEF Taken
  <2>2. PICK h \in Keys : \E i \in DOMAIN stream[h] :
          y = <<h, i>> /\ stream[h][i].type = "task.requested" /\ stream[h][i].request = x
    BY PublishedIs
  <2>3. PICK i \in DOMAIN stream[h] :
          y = <<h, i>> /\ stream[h][i].type = "task.requested" /\ stream[h][i].request = x
    BY <2>2
  <2>4. i <= cursor[h]
    <3>1. CASE h # k
      BY <1>10, <2>1, <2>3, <3>1
    <3>2. CASE h = k
      <4>1. i <= m /\ i # m
        BY <1>6, <1>10, <1>14, <2>1, <2>3, <3>2
      <4>2. i \in Nat /\ m \in Nat /\ cursor[k] \in Nat
        BY <1>1, <1>3, <1>4, <3>2
      <4>3. ~ (cursor[k] < i)
        BY <1>5, <2>3, <3>2, <4>1, <4>2
      <4> QED
        BY <3>2, <4>2, <4>3
    <3> QED
      BY <3>1, <3>2
  <2>5. y[2] <= cursor[y[1]]
    BY <2>3, <2>4
  <2> QED
    BY <2>5 DEF Taken
<1>15. \A x : x # r => (Taken(x)' <=> Taken(x))
  BY <1>13, <1>14 DEF Kept
<1>16. ASSUME NEW x \in Keys PROVE cursor'[x] <= Len(stream'[x])
  BY <1>1, <1>3, <1>4, <1>10 DEF Typed
<1> QED
  BY <1>1, <1>4, <1>6, <1>8, <1>9, <1>10, <1>11, <1>12, <1>13, <1>15, <1>16 DEF n

(* A request that is handed out was not handled before.                    *)
LEMMA FirstHanded ==
  ASSUME ExecutorInv, NEW r \in Requests, ~Taken(r), Taken(r)', Kept,
         \A type, x : Published(type, x)' = Published(type, x),
         r <= Len(requests), UNCHANGED <<requests, acked, calls, uncaught>>
  PROVE  RequestOK(r)'
<1>1. Typed /\ RequestOK(r)
  BY DEF ExecutorInv
<1>2. Completions(r)' = Completions(r) /\ DeadLetters(r)' = DeadLetters(r)
  BY DEF Completions, DeadLetters
<1>3. faults' = 0 => faults = 0
  BY <1>1 DEF Kept, Typed
<1>4. Allowed(r, calls[r]) => Allowed(r, calls[r])'
  BY DEF Allowed, TaskOf
<1>5. r \in acked' => Told(r)'
  <2>1. r \in acked => r \in 1 .. Len(requests)
    BY <1>1 DEF Typed
  <2> QED
    BY <1>1, <2>1 DEF Kept, RequestOK
<1> QED
  BY <1>1, <1>2, <1>3, <1>4, <1>5 DEF RequestOK

(* An entry whose delivery is lost.                                        *)
LEMMA LoseEntryKeeps ==
  ASSUME ExecutorInv, NEW p \in Processes, NEW k \in Keys, LoseEntry(p, k)
  PROVE  ExecutorInv'
<1>1. /\ Typed /\ Read(p, k, Subscribed) /\ Loss
      /\ UNCHANGED <<stream, group, known, closed, requests, job, acked, calls, uncaught,
                     cache, access, died>>
  BY DEF ExecutorInv, LoseEntry, ReadLost, Read, jobVars, documentVars
<1>2. /\ faults' \in Nat /\ losses' \in Nat /\ faults' + losses' <= MaxTroubles
      /\ faults <= faults'
  BY <1>1, Budgets
<1>3. PICK r \in Requests :
        /\ r <= Len(requests) /\ ~Taken(r) /\ Taken(r)' /\ Kept
        /\ \A type, x : Published(type, x)' = Published(type, x)
        /\ \A x : x # r => (Taken(x)' <=> Taken(x))
        /\ cursor' \in [Keys -> Nat] /\ \A x \in Keys : cursor'[x] <= Len(stream'[x])
  BY <1>1, <1>2, HandedOut
<1>4. \A x : x # r => SameFor(x)
  BY <1>1, <1>3 DEF SameFor, Completions, DeadLetters
<1>5. Typed'
  BY <1>1, <1>2, <1>3 DEF Typed, Existing
<1>6. Asked'
  BY <1>1, <1>3 DEF ExecutorInv, Asked
<1>7. ASSUME NEW x \in Requests PROVE RequestOK(x)'
  <2>1. CASE x = r
    BY <1>1, <1>3, <2>1, FirstHanded
  <2>2. CASE x # r
    BY <1>1, <1>3, <1>4, <2>2, RequestStays DEF ExecutorInv
  <2> QED
    BY <2>1, <2>2
<1>8. \A q \in Processes, h \in Permits : JobOK(q, h)'
  <2>1. \A q \in Processes, h \in Permits : Calm(q, h)
    BY <1>1 DEF Calm
  <2>2. \A x \in Requests : Taken(x) => SameFor(x)
    BY <1>3, <1>4
  <2> QED
    BY <1>3, <2>1, <2>2, CalmJobs
<1>9. \A q \in Processes : DocumentOK(q)'
  BY <1>1 DEF ExecutorInv, DocumentOK
<1> QED
  BY <1>5, <1>6, <1>7, <1>8, <1>9 DEF ExecutorInv

(* A goroutine that is given a request.                                    *)
LEMMA DeliverKeeps ==
  ASSUME ExecutorInv, NEW p \in Processes, NEW g \in Permits, NEW k \in Keys, Deliver(p, g, k)
  PROVE  ExecutorInv'
<1>1. /\ Typed /\ Read(p, k, Subscribed) /\ In(p, g, "idle")
      /\ UNCHANGED <<stream, group, known, closed, faults, losses, requests, acked, calls,
                     uncaught, cache, died>>
  BY DEF ExecutorInv, Deliver, Read, StartAttempt, budgets, documentVars
<1>2. faults' \in Nat /\ faults <= faults'
  BY <1>1 DEF Typed
<1>3. PICK r \in Requests :
        /\ r = stream[k][NextEntry(k, Subscribed)].request
        /\ r <= Len(requests) /\ ~Taken(r) /\ Taken(r)' /\ Kept
        /\ \A type, x : Published(type, x)' = Published(type, x)
        /\ \A x : x # r => (Taken(x)' <=> Taken(x))
        /\ cursor' \in [Keys -> Nat] /\ \A x \in Keys : cursor'[x] <= Len(stream'[x])
  BY <1>1, <1>2, HandedOut
<1>4. /\ r \in 1 .. Len(requests) /\ r # NoRequest
      /\ RequestOK(r) /\ calls[r] = 0 /\ uncaught[r] = 0
      /\ Completions(r) = {} /\ DeadLetters(r) = {}
  BY <1>1, <1>3, RequestsAre DEF ExecutorInv, RequestOK, Typed
<1>5. \A x : x # r => SameFor(x)
  BY <1>1, <1>3 DEF SameFor, Completions, DeadLetters
<1>6. access[p][g] = "none"
  BY <1>1 DEF ExecutorInv, JobOK, In
<1>7. \E j \in Job, a \in Accesses :
        /\ job' = [job EXCEPT ![p][g] = j] /\ access' = [access EXCEPT ![p][g] = a]
        /\ a \in {"none", "reading"}
        /\ j.request = r /\ ~j.recovered
        /\ \/ j.phase = "attempting" /\ j.attempt = 1
           \/ j.phase = "dead" /\ a = "none"
        /\ j.phase = "dead" => MayErr(TaskOf(r))
  <2> DEFINE new == [IdleJob EXCEPT !.request = r]
             j1  == [new EXCEPT !.phase = "attempting", !.attempt = 1]
             j2  == [new EXCEPT !.phase = "dead"]
  <2>1. IdleJob \in Job /\ ~IdleJob.recovered
    BY IdleIsIdle
  <2>2. 1 \in 0 .. MaxTries
    BY TryAssumption
  <2>3. j1 \in Job /\ j1.request = r /\ ~j1.recovered /\ j1.phase = "attempting" /\ j1.attempt = 1
    BY <2>1, <2>2 DEF Job, Phases
  <2>4. j2 \in Job /\ j2.request = r /\ ~j2.recovered /\ j2.phase = "dead"
    BY <2>1 DEF Job, Phases
  <2>5. IF TaskOf(r).type \in Executors \cup {"try"}
        THEN SetJob(p, g, j1) /\ StartAttempt(p, g, TaskOf(r))
        ELSE SetJob(p, g, j2) /\ UNCHANGED documentVars
    BY <1>3 DEF Deliver
  <2> HIDE DEF j1, j2
  <2>6. CASE TaskOf(r).type \in Executors \cup {"try"}
    <3>1. \E a \in Accesses : /\ a \in {"none", "reading"}
                              /\ access' = [access EXCEPT ![p][g] = a]
      BY <2>5, <2>6 DEF StartAttempt, Go, Accesses
    <3>2. job' = [job EXCEPT ![p][g] = j1]
      BY <2>5, <2>6 DEF SetJob
    <3> QED
      BY <2>3, <3>1, <3>2
  <2>7. CASE TaskOf(r).type \notin Executors \cup {"try"}
    <3>1. access' = [access EXCEPT ![p][g] = "none"]
      BY <1>1, <1>6, <2>5, <2>7 DEF documentVars, Typed
    <3>2. job' = [job EXCEPT ![p][g] = j2]
      BY <2>5, <2>7 DEF SetJob
    <3>3. MayErr(TaskOf(r)) /\ "none" \in Accesses
      BY <2>7 DEF MayErr, Accesses
    <3> QED
      BY <2>4, <3>1, <3>2, <3>3
  <2> QED
    BY <2>6, <2>7
<1>8. PICK j \in Job, a \in Accesses :
        /\ job' = [job EXCEPT ![p][g] = j] /\ access' = [access EXCEPT ![p][g] = a]
        /\ a \in {"none", "reading"}
        /\ j.request = r /\ ~j.recovered
        /\ \/ j.phase = "attempting" /\ j.attempt = 1
           \/ j.phase = "dead" /\ a = "none"
        /\ j.phase = "dead" => MayErr(TaskOf(r))
  BY <1>7
<1>9. /\ job' \in [Processes -> [Permits -> Job]] /\ job'[p][g] = j
      /\ access' \in [Processes -> [Permits -> Accesses]] /\ access'[p][g] = a
      /\ \A q \in Processes, h \in Permits :
           q # p \/ h # g => job'[q][h] = job[q][h] /\ access'[q][h] = access[q][h]
  BY <1>1, <1>8 DEF Typed
<1>10. ASSUME NEW q \in Processes, NEW h \in Permits, job[q][h].request # NoRequest
       PROVE  /\ job[q][h].request \in Requests /\ job[q][h].request # r
              /\ Alone(q, h)
  <2>1. JobOK(q, h) /\ job[q][h] \in Job
    BY <1>1 DEF ExecutorInv, Typed
  <2>2. Handles(q, h, job[q][h], job[q][h].request)
    BY <1>10, <2>1 DEF JobOK
  <2>3. Taken(job[q][h].request) /\ Alone(q, h)
    BY <2>2 DEF Handles
  <2> QED
    BY <1>3, <1>10, <2>1, <2>3 DEF Job
<1>11. Alone(p, g)'
  <2> SUFFICES ASSUME NEW q \in Processes, NEW h \in Permits, job'[q][h].request = r
               PROVE  q = p /\ h = g
    BY <1>8, <1>9 DEF Alone
  <2> QED
    BY <1>4, <1>9, <1>10
<1>12. JobOK(p, g)'
  <2>1. Allowed(r, 1)'
    <3>1. TaskOf(r).catch.retry \subseteq Policy /\ TaskOf(r)' = TaskOf(r)
      BY <1>1, <1>4, TaskTyped DEF TaskOf
    <3>2. \A policy \in TaskOf(r).catch.retry : policy.count > 0 => 1 <= policy.count
      BY <3>1 DEF Policy
    <3> QED
      BY <3>1, <3>2 DEF Allowed
  <2>2. 1 <= MaxTries
    BY TryAssumption
  <2>3. Completions(r)' = {} /\ DeadLetters(r)' = {}
    BY <1>3, <1>4 DEF Completions, DeadLetters
  <2>4. TaskOf(r)' = TaskOf(r) /\ calls'[r] = 0 /\ r <= Len(requests')
    BY <1>1, <1>3, <1>4 DEF TaskOf
  <2>5. Handles(p, g, j, r)'
    BY <1>3, <1>8, <1>11, <2>1, <2>2, <2>3, <2>4 DEF Handles
  <2> QED
    BY <1>4, <1>8, <1>9, <2>5 DEF JobOK
<1>13. ASSUME NEW q \in Processes, NEW h \in Permits, q # p \/ h # g PROVE JobOK(q, h)'
  <2>1. JobOK(q, h) /\ job'[q][h] = job[q][h] /\ access'[q][h] = access[q][h]
    BY <1>9, <1>13 DEF ExecutorInv
  <2>2. PICK x : x = job[q][h].request
    OBVIOUS
  <2>3. ASSUME x # NoRequest PROVE SameFor(x) /\ Alone(q, h)'
    <3>1. x # r /\ Alone(q, h)
      BY <1>10, <2>2, <2>3
    <3>2. \A y \in Processes, z \in Permits : job'[y][z].request = x => y = q /\ z = h
      BY <1>8, <1>9, <2>2, <3>1 DEF Alone
    <3> QED
      BY <1>5, <2>1, <2>2, <3>1, <3>2 DEF Alone
  <2>4. closed[q] => closed'[q]
    BY <1>1
  <2> QED
    BY <1>1, <1>3, <2>1, <2>2, <2>3, <2>4, JobStays
<1>14. ASSUME NEW x \in Requests PROVE RequestOK(x)'
  <2>1. CASE x = r
    BY <1>1, <1>3, <2>1, FirstHanded
  <2>2. CASE x # r
    BY <1>1, <1>3, <1>5, <2>2, RequestStays DEF ExecutorInv
  <2> QED
    BY <2>1, <2>2
<1>15. Typed'
  BY <1>1, <1>3, <1>9 DEF Typed, Existing
<1>16. Asked'
  BY <1>1, <1>3 DEF ExecutorInv, Asked
<1>17. ASSUME NEW q \in Processes PROVE DocumentOK(q)'
  <2> SUFFICES ASSUME NEW h \in Permits, access'[q][h] = "deleting" PROVE cache'[q] # "fresh"
    BY DEF DocumentOK
  <2>1. access[q][h] = "deleting"
    BY <1>8, <1>9
  <2> QED
    BY <1>1, <2>1 DEF ExecutorInv, DocumentOK
<1>18. \A q \in Processes, h \in Permits : JobOK(q, h)'
  BY <1>12, <1>13
<1> QED
  BY <1>14, <1>15, <1>16, <1>17, <1>18 DEF ExecutorInv
-----------------------------------------------------------------------------
(* The invariant.                                                          *)

(* It holds at the start: nothing is published.                            *)
LEMMA InitExecutorInv ==
  ASSUME Init PROVE ExecutorInv
<1>1. /\ stream = [k \in Keys |-> <<>>] /\ group = {} /\ cursor = [k \in Keys |-> 0]
      /\ known = [p \in Processes |-> Nowhere] /\ closed = [p \in Processes |-> FALSE]
      /\ faults = 0 /\ losses = 0 /\ requests = <<>> /\ acked = {}
      /\ job = [p \in Processes |-> [g \in Permits |-> IdleJob]]
      /\ cache = [p \in Processes |-> "absent"]
      /\ access = [p \in Processes |-> [g \in Permits |-> "none"]]
      /\ calls = [r \in Requests |-> 0] /\ uncaught = [r \in Requests |-> 0] /\ died = FALSE
  BY DEF Init, StreamInit, LoaderInit
<1>2. Typed
  <2>1. stream \in [Keys -> Seq(Entries)] /\ \A k \in Keys : Len(stream[k]) = 0
    BY <1>1
  <2>2. cursor \in [Keys -> Nat] /\ \A k \in Keys : cursor[k] <= Len(stream[k])
    BY <1>1, <2>1
  <2>3. known \in [Processes -> [keys : SUBSET Existing, size : Nat]]
    <3>1. Nowhere \in [keys : SUBSET Existing, size : Nat]
      BY DEF Nowhere
    <3> QED
      BY <1>1, <3>1
  <2>4. faults \in Nat /\ losses \in Nat /\ faults + losses <= MaxTroubles
    <3>1. MaxTroubles \in Nat
      BY StreamAssumption
    <3>2. faults = 0 /\ losses = 0
      BY <1>1
    <3> QED
      BY <3>1, <3>2
  <2>5. /\ requests \in Seq(AnyTask) /\ Len(requests) = 0 /\ DOMAIN requests = 1 .. Len(requests)
        /\ Len(requests) \in 0 .. Len(Tasks)
    BY <1>1, RequestsAre
  <2>6. job \in [Processes -> [Permits -> Job]]
    BY <1>1, IdleIsIdle
  <2>7. /\ cache \in [Processes -> {"absent", "fresh", "expired"}]
        /\ access \in [Processes -> [Permits -> Accesses]]
    BY <1>1 DEF Accesses
  <2>8. /\ group \subseteq Existing /\ closed \in [Processes -> BOOLEAN]
        /\ calls \in [Requests -> Nat] /\ uncaught \in [Requests -> Nat] /\ died \in BOOLEAN
        /\ acked \subseteq 1 .. Len(requests)
    BY <1>1
  <2>9. \A i \in 1 .. Len(requests) : requests[i] \in Tasks[i]
    <3>1. 1 .. 0 = {}
      OBVIOUS
    <3> QED
      BY <2>5, <3>1
  <2> QED
    BY <2>1, <2>2, <2>3, <2>4, <2>5, <2>6, <2>7, <2>8, <2>9 DEF Typed
<1>3. \A type, r : Published(type, r) = {}
  BY <1>1 DEF Published
<1>4. \A r : ~Taken(r)
  BY <1>3 DEF Taken
<1>5. Asked
  BY <1>3 DEF Asked
<1>6. ASSUME NEW r \in Requests PROVE RequestOK(r)
  <2>1. calls[r] = 0 /\ uncaught[r] = 0 /\ r \notin acked /\ ~(r <= Len(requests))
    <3>1. Len(requests) = 0 /\ 1 <= r /\ r \in Nat
      BY <1>1, RequestsAre
    <3> QED
      BY <1>1, <3>1
  <2>2. 0 <= MaxTries /\ 0 <= 0
    BY TryAssumption
  <2>3. AtMostOne({})
    BY DEF AtMostOne
  <2> QED
    BY <1>3, <1>4, <2>1, <2>2, <2>3 DEF RequestOK, Completions, DeadLetters
<1>7. \A p \in Processes, g \in Permits : JobOK(p, g)
  BY <1>1, IdleIsIdle DEF JobOK
<1>8. \A p \in Processes : DocumentOK(p)
  BY <1>1 DEF DocumentOK
<1> QED
  BY <1>2, <1>5, <1>6, <1>7, <1>8 DEF ExecutorInv

(* Every step keeps it.                                                    *)
LEMMA StepExecutorInv ==
  ASSUME ExecutorInv, [Next]_vars
  PROVE  ExecutorInv'
<1>1. ASSUME NEW p \in Processes, Stream(p) PROVE ExecutorInv'
  BY <1>1, DiscoverKeeps, LoseEntryKeeps DEF Stream
<1>2. ASSUME NEW p \in Processes, NEW g \in Permits, Work(p, g) PROVE ExecutorInv'
  BY <1>2, LoadKeeps, AttemptReturnsKeeps, AttemptErrsKeeps, AttemptIsHandledKeeps,
     ScheduleRetryKeeps, PublishResultKeeps, DeadLetterKeeps, AcknowledgeKeeps DEF Work
<1>3. ASSUME NEW p \in Processes, NEW g \in Permits, NEW k \in Keys, Deliver(p, g, k)
      PROVE  ExecutorInv'
  BY <1>3, DeliverKeeps
<1>4. ASSUME NEW p \in Processes, DocumentExpires(p) \/ Stop(p) PROVE ExecutorInv'
  BY <1>4, ExpiryOrStopKeeps
<1>5. ASSUME NEW p \in Processes, Exit(p) \/ Crash(p) \/ MapRaceIsFatal(p) PROVE ExecutorInv'
  BY <1>5, StartOverKeeps
<1>6. ASSUME NEW r \in Requests, PublishTimerFired(r) \/ WorkerGivesUp(r) PROVE ExecutorInv'
  BY <1>6, FollowsKeeps
<1>7. ASSUME NEW task, RequestTask(task) PROVE ExecutorInv'
  BY <1>7, RequestTaskKeeps
<1>8. CASE UNCHANGED vars
  <2>1. Typed
    BY DEF ExecutorInv
  <2>2. UNCHANGED <<stream, group, cursor, known, closed, faults, losses, requests, job, acked,
                    cache, access, calls, uncaught, died>>
    BY <1>8 DEF vars
  <2>3. Typed' /\ faults <= faults'
    BY <2>1, <2>2 DEF Typed, Existing
  <2>4. \A p \in Processes, g \in Permits : Calm(p, g)
    BY <2>2 DEF Calm
  <2>5. \A p \in Processes : DocumentOK(p)'
    BY <2>2 DEF ExecutorInv, DocumentOK
  <2> QED
    BY <2>2, <2>3, <2>4, <2>5, QuietKeeps
<1> QED
  BY <1>1, <1>2, <1>3, <1>4, <1>5, <1>6, <1>7, <1>8 DEF Next

(* It always holds.                                                        *)
THEOREM Inductive == Spec => []ExecutorInv
<1>1. Init => ExecutorInv
  BY InitExecutorInv
<1>2. ExecutorInv /\ [Next]_vars => ExecutorInv'
  BY StepExecutorInv
<1> QED
  BY <1>1, <1>2, PTL DEF Spec
-----------------------------------------------------------------------------
(* Every variable has its type, and a goroutine is idle exactly when it    *)
(* has no request (eventProcessingLoop's goroutine).                       *)
THEOREM TypeCorrect == Spec => []TypeOK
<1>1. ExecutorInv => TypeOK
  <2> SUFFICES ASSUME ExecutorInv PROVE TypeOK
    OBVIOUS
  <2>1. Typed
    BY DEF ExecutorInv
  <2>2. \A k \in Keys : cursor[k] \in 0 .. Len(stream[k])
    <3> SUFFICES ASSUME NEW k \in Keys PROVE cursor[k] \in 0 .. Len(stream[k])
      OBVIOUS
    <3>1. cursor[k] \in Nat /\ Len(stream[k]) \in Nat /\ cursor[k] <= Len(stream[k])
      BY <2>1 DEF Typed
    <3> QED
      BY <3>1
  <2>3. \A p \in Processes : known[p].keys \subseteq Existing /\ closed[p] \in BOOLEAN
    BY <2>1 DEF Typed
  <2>4. faults + losses \in 0 .. MaxTroubles
    <3>1. MaxTroubles \in Nat
      BY StreamAssumption
    <3>2. faults \in Nat /\ losses \in Nat /\ faults + losses <= MaxTroubles
      BY <2>1 DEF Typed
    <3> QED
      BY <3>1, <3>2
  <2>5. ASSUME NEW p \in Processes, NEW g \in Permits
        PROVE  /\ job[p][g] \in Job /\ access[p][g] \in Accesses
               /\ In(p, g, "idle") <=> Request(p, g) = NoRequest
               /\ access[p][g] # "none" => In(p, g, "attempting")
    <3>1. JobOK(p, g)
      BY DEF ExecutorInv
    <3>2. job[p][g] \in Job /\ access[p][g] \in Accesses
      BY <2>1 DEF Typed
    <3> QED
      BY <3>1, <3>2 DEF JobOK, In, Request
  <2>6. \A r \in Requests : uncaught[r] \in 0 .. calls[r]
    <3> SUFFICES ASSUME NEW r \in Requests PROVE uncaught[r] \in 0 .. calls[r]
      OBVIOUS
    <3>1. uncaught[r] <= calls[r] /\ uncaught[r] \in Nat /\ calls[r] \in Nat
      BY <2>1 DEF ExecutorInv, RequestOK, Typed
    <3> QED
      BY <3>1
  <2>7. /\ group \subseteq Existing /\ acked \subseteq 1 .. Len(requests) /\ died \in BOOLEAN
        /\ \A i \in 1 .. Len(requests) : requests[i] \in Tasks[i]
        /\ \A p \in Processes : cache[p] \in {"absent", "fresh", "expired"}
    BY <2>1 DEF Typed
  <2> QED
    BY <2>2, <2>3, <2>4, <2>5, <2>6, <2>7 DEF TypeOK
<1> QED
  BY <1>1, Inductive, PTL

(* What is acknowledged was answered or made a dead letter of, unless the  *)
(* calls that tell of it failed (processTaskEvent).                        *)
THEOREM NoSilentDropHolds == Spec => []NoSilentDrop
<1>1. ExecutorInv => NoSilentDrop
  <2> SUFFICES ASSUME ExecutorInv, NEW r \in acked PROVE Told(r)
    BY DEF NoSilentDrop, Told
  <2>1. Typed
    BY DEF ExecutorInv
  <2>2. r \in Requests
    BY <2>1, RequestsAre DEF Typed
  <2> QED
    BY <2>2 DEF ExecutorInv, RequestOK
<1> QED
  BY <1>1, Inductive, PTL

(* No task is answered twice: an entry is delivered once, to one goroutine *)
(* of one process, and nothing is published of it before its phase comes.  *)
THEOREM AnsweredOnceHolds == Spec => []AnsweredOnce
<1>1. ExecutorInv => AnsweredOnce
  <2> SUFFICES ASSUME ExecutorInv, NEW r \in Requests
               PROVE  /\ Cardinality(Completions(r)) <= 1
                      /\ Cardinality(DeadLetters(r)) <= 1
                      /\ faults = 0 => Completions(r) = {} \/ DeadLetters(r) = {}
    BY DEF AnsweredOnce
  <2>1. /\ AtMostOne(Completions(r)) /\ AtMostOne(DeadLetters(r))
        /\ faults = 0 => Completions(r) = {} \/ DeadLetters(r) = {}
    BY DEF ExecutorInv, RequestOK
  <2> QED
    BY <2>1, AtMostOneCounts
<1> QED
  BY <1>1, Inductive, PTL

(* A task is tried as often as its policy says, and never more than        *)
(* MaxTries times (executeTryBlock, ShouldRetry).                          *)
THEOREM LimitRespectedHolds == Spec => []LimitRespected
<1>1. ExecutorInv => LimitRespected
  <2> SUFFICES ASSUME ExecutorInv, NEW r \in 1 .. Len(requests)
               PROVE  calls[r] <= MaxTries /\ Allowed(r, calls[r])
    BY DEF LimitRespected, Allowed
  <2>1. Typed
    BY DEF ExecutorInv
  <2>2. r \in Requests /\ r <= Len(requests)
    BY <2>1, RequestsAre DEF Typed
  <2> QED
    BY <2>2 DEF ExecutorInv, RequestOK
<1> QED
  BY <1>1, Inductive, PTL

(* An error that is answered with success is one the catch block means to  *)
(* catch (HandleError, matchesValue).                                      *)
THEOREM CaughtOnlyHolds == Spec => []CaughtOnly
<1>1. ExecutorInv => CaughtOnly
  <2> SUFFICES ASSUME ExecutorInv, NEW p \in Processes, NEW g \in Permits,
                      In(p, g, "publishing"), job[p][g].success, job[p][g].error # NoError
               PROVE  Meant(job[p][g])
    BY DEF CaughtOnly, Meant, Task, Request
  <2>1. ~In(p, g, "idle")
    BY DEF In
  <2>2. Handles(p, g, job[p][g], Request(p, g))
    BY <2>1, Busy
  <2> QED
    BY <2>2 DEF Handles, In
<1> QED
  BY <1>1, Inductive, PTL

(* Goroutines that do not load the document leave it alone.                *)
LEMMA WorkKeepsDocuments ==
  ASSUME NEW p, NEW g, Work(p, g), ~Load(p, g)
  PROVE  cache' = cache
<1>1. ASSUME NEW error, TryAgain(p, g, error) PROVE cache' = cache
  BY <1>1 DEF TryAgain, StartAttempt
<1>2. ASSUME NEW error, NEW h, Handle(p, g, error, h),
             h.action \in {"fail", "retry", "recover", "ignore"}
      PROVE  cache' = cache
  <2>1. CASE h.action = "fail"
    BY <1>1, <1>2, <2>1 DEF Handle
  <2>2. CASE h.action = "retry"
    BY <1>1, <1>2, <2>2 DEF Handle, Leave
  <2>3. CASE h.action = "recover"
    BY <1>2, <2>3 DEF Handle, Leave
  <2>4. CASE h.action = "ignore"
    BY <1>2, <2>4 DEF Handle, Leave
  <2> QED
    BY <1>2, <2>1, <2>2, <2>3, <2>4
<1>3. ASSUME AttemptIsHandled(p, g) PROVE cache' = cache
  <2>1. PICK o \in AttemptOutcomes(p, g), late \in BOOLEAN :
          IF Task(p, g).catch.malformed
          THEN Leave(p, g, "publishing", o.error, FALSE, FALSE)
          ELSE \E h \in HandleError(Task(p, g).catch, o.error, job[p][g].attempt, late) :
                 Handle(p, g, o.error, h)
    BY <1>3 DEF AttemptIsHandled
  <2>2. CASE Task(p, g).catch.malformed
    BY <2>1, <2>2 DEF Leave
  <2>3. CASE ~Task(p, g).catch.malformed
    <3>1. PICK h \in HandleError(Task(p, g).catch, o.error, job[p][g].attempt, late) :
            Handle(p, g, o.error, h)
      BY <2>1, <2>3
    <3>2. h.action \in {"fail", "retry", "recover", "ignore"}
      BY HandlingJustified
    <3> QED
      BY <1>2, <3>1, <3>2
  <2> QED
    BY <2>2, <2>3
<1>4. CASE AttemptReturns(p, g) \/ AttemptErrs(p, g)
  BY <1>4 DEF AttemptReturns, AttemptErrs
<1>5. CASE ScheduleRetry(p, g)
  BY <1>5 DEF ScheduleRetry, documentVars
<1>6. CASE PublishResult(p, g) \/ PublishResultFails(p, g) \/ DeadLetter(p, g)
  BY <1>6 DEF PublishResult, PublishResultFails, DeadLetter, Proceed, documentVars
<1>7. CASE AcknowledgeEvent(p, g) \/ AcknowledgeFails(p, g)
  BY <1>7 DEF AcknowledgeEvent, AcknowledgeFails, Finish, documentVars
<1> QED
  BY <1>3, <1>4, <1>5, <1>6, <1>7 DEF Work

(* A document that has not expired is never removed (getCachedDocument,    *)
(* CacheDocument and their lock).                                          *)
THEOREM FreshIsKeptHolds == Spec => FreshIsKept
<1> DEFINE Kind == \A p \in Processes :
             cache[p] = "fresh" /\ cache'[p] = "absent" =>
               \A g \in Permits : access'[p][g] = "none"
<1>1. ASSUME ExecutorInv, [Next]_vars PROVE Kind
  <2> SUFFICES ASSUME cache' # cache PROVE Kind
    OBVIOUS
  <2>1. Typed
    BY <1>1 DEF ExecutorInv
  <2>2. \/ \E p \in Processes, g \in Permits : Load(p, g)
        \/ \E p \in Processes : \/ DocumentExpires(p)
                                \/ StartOver(p)
    <3>1. Next
      BY <1>1 DEF vars
    <3>2. ASSUME NEW p \in Processes, Stream(p) PROVE FALSE
      BY <3>2 DEF Stream, Discover, DiscoverBadly, LoseEntry, documentVars
    <3>3. ASSUME NEW p \in Processes, NEW g \in Permits, Work(p, g), ~Load(p, g) PROVE FALSE
      BY <3>3, WorkKeepsDocuments
    <3>4. ASSUME NEW p \in Processes, NEW g \in Permits, NEW k \in Keys, Deliver(p, g, k)
          PROVE  FALSE
      BY <3>4 DEF Deliver, StartAttempt, documentVars
    <3>5. ASSUME NEW r, PublishTimerFired(r) \/ WorkerGivesUp(r) PROVE FALSE
      BY <3>5 DEF PublishTimerFired, WorkerGivesUp, Follows, documentVars
    <3>6. ASSUME NEW task, RequestTask(task) PROVE FALSE
      BY <3>6 DEF RequestTask, documentVars
    <3>7. ASSUME NEW p \in Processes, Stop(p) PROVE FALSE
      BY <3>7 DEF Stop, documentVars
    <3>8. ASSUME NEW p \in Processes, Exit(p) \/ Crash(p) \/ MapRaceIsFatal(p)
          PROVE  StartOver(p)
      BY <3>8 DEF Exit, Crash, MapRaceIsFatal
    <3> QED
      BY <3>1, <3>2, <3>3, <3>4, <3>5, <3>6, <3>7, <3>8 DEF Next
  <2>3. ASSUME NEW p \in Processes, NEW g \in Permits, Load(p, g) PROVE Kind
    <3>1. \A q \in Processes : cache'[q] = "absent" => cache[q] # "fresh"
      <4>1. LoadDocument(p, g)
        BY <2>3 DEF Load
      <4>2. CASE DeleteExpired(p, g)
        <5>1. cache[p] # "fresh"
          BY <1>1, <4>2 DEF ExecutorInv, DocumentOK, DeleteExpired
        <5>2. \A q \in Processes : q # p => cache'[q] = cache[q]
          BY <2>1, <4>2 DEF DeleteExpired, Typed
        <5> QED
          BY <5>1, <5>2
      <4>3. CASE GetCachedDocument(p, g) \/ FetchDocument(p, g)
        BY <4>3 DEF GetCachedDocument, FetchDocument
      <4>4. CASE CacheDocument(p, g)
        BY <2>1, <4>4 DEF CacheDocument, Typed
      <4> QED
        BY <4>1, <4>2, <4>3, <4>4 DEF LoadDocument
    <3> QED
      BY <3>1
  <2>4. ASSUME NEW p \in Processes, DocumentExpires(p) PROVE Kind
    BY <2>1, <2>4 DEF DocumentExpires, Expire, Typed
  <2>5. ASSUME NEW p \in Processes, StartOver(p) PROVE Kind
    <3>1. /\ \A g \in Permits : access'[p][g] = "none"
          /\ \A q \in Processes : q # p => cache'[q] = cache[q]
      BY <2>1, <2>5 DEF StartOver, ForgetDocuments, Typed
    <3> QED
      BY <3>1
  <2> QED
    BY <2>2, <2>3, <2>4, <2>5
<1>2. ExecutorInv /\ [Next]_vars => [Kind]_vars
  BY <1>1
<1> QED
  BY <1>2, Inductive, PTL DEF Spec, FreshIsKept
=============================================================================
