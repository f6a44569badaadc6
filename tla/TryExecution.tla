---------------------------- MODULE TryExecution ----------------------------
(***************************************************************************)
(* What the executors of the executor service (executor/internal/executor) *)
(* compute: the outcomes of a call, the error the try executor makes of    *)
(* one, and what its error handler decides to do with it.                  *)
(*                                                                         *)
(* A value that a catch filter is compared with carries its Go type:       *)
(* numbers of a definition come from JSON and are float64, the status of   *)
(* an error is an int.  A pattern stands for the strings it matches.       *)
(***************************************************************************)
EXTENDS Naturals, FiniteSets

CONSTANTS
  Statuses,     \* HTTP status codes of failing calls
  MaxTries      \* attempts at a try block (5 in the code)

ASSUME TryAssumption == Statuses \subseteq Nat /\ MaxTries \in Nat \ {0}

-----------------------------------------------------------------------------
(* Errors.  The text of an error is "HTTP request failed with status N",   *)
(* or has no status and counts as 500; the type is read off the text.      *)

NoError == 0
InternalError == 500

ErrorType(status) ==
  CASE status = 401 -> "authentication"
    [] status = 403 -> "authorization"
    [] OTHER        -> "communication"

IntOf(n)    == [kind |-> "int", value |-> n]
FloatOf(n)  == [kind |-> "float", value |-> n]
StringOf(s) == [kind |-> "string", value |-> s]
Pattern(S)  == [kind |-> "pattern", value |-> S]
ListOf(S)   == [kind |-> "list", value |-> S]
Absent      == [kind |-> "nil", value |-> 0]

WorkflowError(status) ==
  [type |-> StringOf(ErrorType(status)), status |-> IntOf(status),
   data |-> Absent]

SameValue(a, b) == a.kind = b.kind /\ a.value = b.value

(* Faulty variant: a number matches whatever its Go type.                  *)
MatchesValueLoosely(actual, expected) ==
  \/ actual.kind = "int" /\ expected.kind = "float"
  \/ /\ expected.kind = "pattern" /\ actual.kind = "string"
     /\ actual.value \in expected.value
  \/ expected.kind = "list" /\ \E x \in expected.value : SameValue(actual, x)

MatchesValue(actual, expected) ==
  \/ /\ expected.kind = "pattern" /\ actual.kind = "string"
     /\ actual.value \in expected.value
  \/ expected.kind = "list" /\ \E x \in expected.value : SameValue(actual, x)
  \/ expected.kind \notin {"list", "pattern"} /\ SameValue(actual, expected)

(* A filter maps properties of an error to what they must be; the empty    *)
(* filter matches every error.                                             *)
MatchesFilter(status, filter) ==
  \A key \in DOMAIN filter :
    MatchesValue(WorkflowError(status)[key], filter[key])

-----------------------------------------------------------------------------
(* Retry policies.  Durations are natural numbers.                         *)

Policy == [count: Nat, timed: BOOLEAN, delay: Nat,
           backoff: {"none", "constant", "exponential", "linear"},
           factor: Nat, cap: Nat, increment: Nat, jitter: Nat \X Nat]

(* Faulty variant: the limit counts retries instead of attempts.           *)
ExceedsRetryLimitsLate(policy, attempt, late) ==
  \/ policy.count > 0 /\ attempt > policy.count
  \/ policy.timed /\ late

ExceedsRetryLimits(policy, attempt, late) ==
  \/ policy.count > 0 /\ attempt >= policy.count
  \/ policy.timed /\ late

Capped(policy, d) == IF policy.cap > 0 /\ d > policy.cap THEN policy.cap ELSE d

Multiplier(policy) == IF policy.factor = 0 THEN 2 ELSE policy.factor

ApplyBackoff(policy, attempt) ==
  CASE policy.backoff = "exponential" ->
         Capped(policy, policy.delay * Multiplier(policy) ^ (attempt - 1))
    [] policy.backoff = "linear" ->
         policy.delay + (attempt - 1) * policy.increment
    [] OTHER -> policy.delay

ApplyJitter(policy, delay) ==
  LET from == policy.jitter[1]
      to   == policy.jitter[2]
  IN  IF from >= to THEN {delay + from} ELSE {delay + j : j \in from .. to - 1}

RetryDelays(policy, attempt) ==
  ApplyJitter(policy, ApplyBackoff(policy, attempt))

-----------------------------------------------------------------------------
(* What is done about an error.  A catch block has a filter, at most one   *)
(* policy, and the types of its recovery tasks, or it is malformed; a      *)
(* missing catch block catches everything and does nothing.                *)

Catch(filter, retry, recovery) ==
  [filter |-> filter, retry |-> retry, recovery |-> recovery,
   malformed |-> FALSE]

Handling(action, delay) == [action |-> action, delay |-> delay]

ShouldRetry(catch, attempt, late) ==
  \E policy \in catch.retry : ~ExceedsRetryLimits(policy, attempt, late)

Retries(catch, attempt) ==
  UNION {{Handling("retry", d) : d \in RetryDelays(policy, attempt)} :
           policy \in catch.retry}

HandleError(catch, status, attempt, late) ==
  IF ~MatchesFilter(status, catch.filter)
  THEN {Handling("fail", 0)}
  ELSE IF ShouldRetry(catch, attempt, late)
  THEN Retries(catch, attempt)
  ELSE IF catch.recovery # {}
  THEN {Handling("recover", 0)}
  ELSE {Handling("ignore", 0)}

-----------------------------------------------------------------------------
(* Outcomes of the executors: whether the result says success, and the     *)
(* error returned besides it, if any.  Whatever goes wrong before a        *)
(* response arrives is a result without an error.                          *)

Outcome(success, error) == [success |-> success, error |-> error]
Succeeded == Outcome(TRUE, NoError)

(* createErrorResult: a failure that is not an error.                      *)
ErrorResult == Outcome(FALSE, NoError)

(* A call has at most one parameter that is not a plain value.  An         *)
(* expression gives a value or, if it cannot be evaluated, stays a text    *)
(* with braces in it.                                                      *)
CallTypes == {"openapi", "http", "invalid", "none"}

CallConfig == [type: CallTypes, operation: {"known", "unknown"},
               parameter: {"value", "missing", "expression", "text"},
               in: {"path", "query"}, authentication: {"complete", "incomplete"}]

Validate(call) == call.type \in {"openapi", "http"}

EvaluateParameterExpressions(call) ==
  IF call.parameter = "expression"
  THEN {[call EXCEPT !.parameter = p] : p \in {"value", "text"}}
  ELSE {call}

ResolveOperation(call)    == call.operation = "known"
ExtractParameters(call)   == call.parameter # "missing"
BuildRequestURL(call)     == ~(call.parameter = "text" /\ call.in = "path")
ApplyAuthentication(call) == call.authentication = "complete"

(* Whether the request is made.                                            *)
BuildHTTPRequest(call) ==
  /\ ResolveOperation(call) /\ ExtractParameters(call)
  /\ BuildRequestURL(call) /\ ApplyAuthentication(call)

(* A response with a status of failure is an error besides a result.       *)
ExecuteOperation(call) ==
  IF BuildHTTPRequest(call)
  THEN {Succeeded, ErrorResult} \cup {Outcome(FALSE, s) : s \in Statuses}
  ELSE {ErrorResult}

ExecuteOpenAPICall(call) ==
  UNION {ExecuteOperation(c) : c \in EvaluateParameterExpressions(call)}

(* Here the status only decides whether the result says success.           *)
ExecuteHTTPCall == {Succeeded, ErrorResult}

ExecuteCall(call) ==
  CASE ~Validate(call)         -> {ErrorResult}
    [] call.type = "openapi"   -> ExecuteOpenAPICall(call)
    [] call.type = "http"      -> ExecuteHTTPCall

(* The try block is one call; anything else is an error.                   *)
ExecuteTryTasks(call) ==
  IF call.type = "none" THEN {Outcome(FALSE, InternalError)} ELSE ExecuteCall(call)

(* A set, inject or wait task cannot fail: no context is ever cancelled.   *)
ExecuteSimple == {Succeeded}

Executors == {"call", "set", "wait", "inject"}

(* A recovery call that returns an error counts as one that failed.        *)
ExecuteRecovery(type) ==
  CASE type = "call"                  -> ExecuteHTTPCall
    [] type \in Executors \ {"call"} -> ExecuteSimple
    [] OTHER                          -> {ErrorResult}

(* Recovery tasks run in map order until one of them fails.                *)
ExecuteRecoveryTasks(types) ==
  IF \E type \in types : Succeeded \notin ExecuteRecovery(type)
  THEN {ErrorResult}
  ELSE UNION {ExecuteRecovery(type) : type \in types}
=============================================================================
