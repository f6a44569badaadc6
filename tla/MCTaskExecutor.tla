--------------------------- MODULE MCTaskExecutor ---------------------------
(* Small instances of TaskExecutor: tasks of every kind.                   *)
EXTENDS TaskExecutor

NoCatch == Catch(<<>>, {}, {})
Call(type) ==
  [type |-> type, operation |-> "known", parameter |-> "value", in |-> "query",
   authentication |-> "complete"]
Task1(type, call, catch) ==
  [tenant |-> "t1", type |-> type, call |-> Call(call), catch |-> catch]
In2(task) == [task EXCEPT !.tenant = "t2"]

Retry(count, delay) ==
  [count |-> count, timed |-> FALSE, delay |-> delay, backoff |-> "exponential",
   factor |-> 0, cap |-> 0, increment |-> 0, jitter |-> <<0, 0>>]

TypeFilter == [type |-> Pattern({"authentication", "authorization"})]
StatusFilter == [status |-> FloatOf(503)]

PlainCall == Task1("call", "openapi", NoCatch)
UnknownTask == Task1("unknown", "none", NoCatch)
ByStatus == Task1("try", "openapi", Catch(StatusFilter, {}, {}))
WithExpression ==
  LET task == Task1("try", "openapi", NoCatch)
  IN  [task EXCEPT !.call.parameter = "expression", !.call.in = "path"]
TwoAttempts ==
  Task1("try", "openapi", Catch(TypeFilter, {Retry(2, 0)}, {"set", "call"}))
Delayed == Task1("try", "openapi", Catch(<<>>, {[Retry(3, 1) EXCEPT !.timed = TRUE]}, {}))
Unsupported == Task1("try", "none", [NoCatch EXCEPT !.malformed = TRUE])

Various ==
  {UnknownTask, TwoAttempts, ByStatus, WithExpression, Delayed, Unsupported}
MCTasks == <<Various, {In2(PlainCall)}>>
DelayedOnly == <<{Delayed}>>
=============================================================================
