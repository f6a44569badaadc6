---------------------------- MODULE OpenAPILoader ----------------------------
(***************************************************************************)
(* The cache of OpenAPI documents that the goroutines of a process share   *)
(* (executor/internal/executor/openapi_loader.go).  A look-up holds the    *)
(* read lock, and removes an entry that has expired while it holds only    *)
(* that; storing a document takes the write lock.  One document is enough: *)
(* documents do not interact.                                              *)
(***************************************************************************)
EXTENDS Naturals, FiniteSets

CONSTANTS
  Services,     \* processes of the executor service
  Goroutines    \* permits of a process's semaphore (EXECUTOR_CONCURRENCY)

VARIABLES
  cache,     \* cache[p]: whether p has the document, and whether it expired
  access     \* access[p][g]: what goroutine g does with the cache

loaderVars == <<cache, access>>

Accesses == {"none", "reading", "deleting", "fetching", "storing",
             "loaded", "failed"}

LoaderInit ==
  /\ cache = [p \in Services |-> "absent"]
  /\ access = [p \in Services |-> [g \in Goroutines |-> "none"]]

Go(p, g, a) == access' = [access EXCEPT ![p][g] = a]

(* Goroutines that hold the read lock or wait for it.                      *)
Reading(p) == {g \in Goroutines : access[p][g] \in {"reading", "deleting"}}

(* Five minutes have passed.                                               *)
Expire(p) ==
  /\ cache[p] = "fresh"
  /\ cache' = [cache EXCEPT ![p] = "expired"]
  /\ UNCHANGED access

GetCachedDocument(p, g) ==
  /\ access[p][g] = "reading"
  /\ Go(p, g, CASE cache[p] = "absent"  -> "fetching"
                [] cache[p] = "fresh"   -> "loaded"
                [] cache[p] = "expired" -> "deleting")
  /\ UNCHANGED cache

DeleteExpired(p, g) ==
  /\ access[p][g] = "deleting"
  /\ cache' = [cache EXCEPT ![p] = "absent"]
  /\ Go(p, g, "fetching")

(* Download, parse and validate; each may fail.                            *)
FetchDocument(p, g) ==
  /\ access[p][g] = "fetching"
  /\ Go(p, g, "storing") \/ Go(p, g, "failed")
  /\ UNCHANGED cache

(* Faulty variant: the document is stored without the lock.                *)
CacheDocumentUnlocked(p, g) ==
  /\ access[p][g] = "storing"
  /\ cache' = [cache EXCEPT ![p] = "fresh"]
  /\ Go(p, g, "loaded")

CacheDocument(p, g) ==
  /\ access[p][g] = "storing"
  /\ Reading(p) = {}
  /\ cache' = [cache EXCEPT ![p] = "fresh"]
  /\ Go(p, g, "loaded")

LoadDocument(p, g) ==
  \/ GetCachedDocument(p, g)
  \/ DeleteExpired(p, g)
  \/ FetchDocument(p, g)
  \/ CacheDocument(p, g)

(* Two goroutines are in the map at once, and one of them writes.  The Go  *)
(* runtime may notice, and then the process dies.                          *)
MapRace(p) ==
  \E g, h \in Reading(p) : g # h /\ access[p][g] = "deleting"

(* A process starts with an empty cache.                                   *)
ForgetDocuments(p) ==
  /\ cache' = [cache EXCEPT ![p] = "absent"]
  /\ access' = [access EXCEPT ![p] = [g \in Goroutines |-> "none"]]
=============================================================================
