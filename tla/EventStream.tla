----------------------------- MODULE EventStream -----------------------------
(***************************************************************************)
(* The Redis event stream (shared/pkg/eventstreaming) as the processes of  *)
(* one consumer group see it: a stream for every tenant and workflow,      *)
(* streams that come into being when something is published, and readers   *)
(* that look for new streams every few seconds.                            *)
(*                                                                         *)
(* A reader keeps a list of the streams it reads and replaces it only by a *)
(* list of another length.                                                 *)
(***************************************************************************)
EXTENDS Naturals, Sequences, FiniteSets

CONSTANTS
  Tenants,      \* tenants (strings); "" stands for an event without one
  Processes,    \* processes that share the consumer group
  MaxTroubles   \* bound: faults and losses

ASSUME StreamAssumption ==
  /\ Tenants \subseteq STRING /\ IsFiniteSet(Tenants)
  /\ "" \notin Tenants /\ "default" \notin Tenants
  /\ MaxTroubles \in Nat

VARIABLES
  stream,    \* stream[k]: entries of k, in publication order
  group,     \* streams on which the consumer group exists
  cursor,    \* cursor[k]: last entry of k the group was given to handle
  known,     \* known[p]: the list of streams p reads, as a set and a length
  closed,    \* closed[p]: Stop has closed p's Redis client
  faults,    \* calls to Redis that failed, which the code handles
  losses     \* crashes, stops, lost answers and repeated scans so far

budgets == <<faults, losses>>
streamVars == <<stream, group, cursor, known, closed, faults, losses>>

(* A key names a tenant and a workflow; there is one workflow, and events  *)
(* that do not name it.                                                    *)
Keys == (Tenants \cup {"default"}) \X {"workflow", "default"}

OrDefault(name) == IF name = "" THEN "default" ELSE name
GetStreamKey(tenant, workflow) == <<OrDefault(tenant), OrDefault(workflow)>>

Nowhere == [keys |-> {}, size |-> 0]

StreamInit ==
  /\ stream = [k \in Keys |-> <<>>]
  /\ group = {}
  /\ cursor = [k \in Keys |-> 0]
  /\ known = [p \in Processes |-> Nowhere]
  /\ closed = [p \in Processes |-> FALSE]
  /\ faults = 0
  /\ losses = 0

Existing == {k \in Keys : stream[k] # <<>>}

(* On a closed client every call fails, and nothing is counted.            *)
Succeed(p) == ~closed[p] /\ UNCHANGED budgets
Fault(p) ==
  IF closed[p] THEN UNCHANGED budgets
  ELSE /\ faults + losses < MaxTroubles
       /\ faults' = faults + 1 /\ UNCHANGED losses
Loss ==
  /\ faults + losses < MaxTroubles
  /\ losses' = losses + 1 /\ UNCHANGED faults

-----------------------------------------------------------------------------
(* Publication.  A failing XADD may have appended its entry, unless it was *)
(* made on a closed client.                                                *)

Append1(tenant, workflow, entry) ==
  LET k == GetStreamKey(tenant, workflow)
  IN  stream' = [stream EXCEPT ![k] = Append(@, entry)]

Publish(p, tenant, workflow, entry) ==
  Succeed(p) /\ Append1(tenant, workflow, entry)

PublishFails(p, tenant, workflow, entry) ==
  /\ Fault(p)
  /\ \/ UNCHANGED stream
     \/ ~closed[p] /\ Append1(tenant, workflow, entry)

-----------------------------------------------------------------------------
(* Discovery.  A group is created at the start of a stream, so that what   *)
(* was published before is delivered too.                                  *)

Found(keys, size) == [keys |-> keys, size |-> size]

SetupStreamsAndGroups(grouped) ==
  /\ group' = group \cup grouped
  /\ UNCHANGED <<stream, cursor, closed>>

(* Faulty variant: the list is replaced only while it is empty.            *)
TopologyOnce(p, found) ==
  known' = IF known[p].size = 0 THEN [known EXCEPT ![p] = found] ELSE known

Topology(p, found) ==
  known' = IF found.size # known[p].size THEN [known EXCEPT ![p] = found] ELSE known

(* Every stream is found, once, and has the group.                         *)
Rediscover(p) ==
  LET found == Found(Existing, Cardinality(Existing))
  IN  /\ Succeed(p)
      /\ SetupStreamsAndGroups(Existing)
      /\ Topology(p, found)

(* A scan breaks off and is used as far as it went, or one group cannot be *)
(* created.                                                                *)
RediscoverFails(p) ==
  /\ ~closed[p]
  /\ Fault(p)
  /\ \/ \E keys \in SUBSET Existing :
          /\ keys # Existing
          /\ SetupStreamsAndGroups(keys)
          /\ Topology(p, Found(keys, Cardinality(keys)))
     \/ \E k \in Existing :
          /\ SetupStreamsAndGroups(Existing \ {k})
          /\ Topology(p, Found(Existing, Cardinality(Existing)))

(* A scan during a resize of the table may return a key twice.             *)
RediscoverRepeats(p) ==
  LET found == Found(Existing, Cardinality(Existing) + 1)
  IN  /\ ~closed[p]
      /\ Existing # {}
      /\ Loss
      /\ SetupStreamsAndGroups(Existing)
      /\ Topology(p, found)

(* Reading a stream without the group fails for all streams read, and the  *)
(* list is made anew, whatever its length.                                 *)
RecreateGroups(p) ==
  /\ ~(known[p].keys \subseteq group)
  /\ Succeed(p)
  /\ SetupStreamsAndGroups(Existing)
  /\ known' = [known EXCEPT ![p] = Found(Existing, Cardinality(Existing))]

-----------------------------------------------------------------------------
(* Reading.  One call delivers what no process of the group has seen, in   *)
(* the order of publication.  An entry of a type that is not subscribed to *)
(* is acknowledged where it is read and goes no further.                   *)

Waiting(k, types) ==
  {i \in cursor[k] + 1 .. Len(stream[k]) : stream[k][i].type \in types}

NextEntry(k, types) ==
  CHOOSE i \in Waiting(k, types) : \A j \in Waiting(k, types) : i <= j

Readable(p, k, types) ==
  /\ ~closed[p]
  /\ k \in known[p].keys
  /\ known[p].keys \subseteq group
  /\ Waiting(k, types) # {}

Read(p, k, types) ==
  /\ Readable(p, k, types)
  /\ cursor' = [cursor EXCEPT ![k] = NextEntry(k, types)]
  /\ UNCHANGED <<stream, group, known, closed>>

(* The answer of a read gets lost after Redis has handed the entry out.    *)
ReadLost(p, k, types) == Loss /\ Read(p, k, types)
=============================================================================
