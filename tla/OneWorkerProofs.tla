--------------------------- MODULE OneWorkerProofs ---------------------------
(***************************************************************************)
(* What one worker process adds: its mutex makes reading the history,      *)
(* choosing the step and publishing it one action as far as its own        *)
(* goroutines are concerned.  A task is therefore requested once, a failed *)
(* task stops its execution, and the stream takes the steps of             *)
(* SequentialExecution; at rest, every execution is at its end and its     *)
(* record says so; the triggering event changes no decision; and while no  *)
(* call fails, a stored outcome stays.  This fails with two processes, or  *)
(* when a stream that cannot be read is taken for an empty one; OneWorker  *)
(* excludes both, and nothing else: publications, records and              *)
(* acknowledgements may fail, the process may crash, stop and be           *)
(* restarted, events may be given up and answers may get lost.             *)
(***************************************************************************)
EXTENDS SequentialOrderProofs, ExecutionRefinement

OneWorker == (\E w : Workers = {w}) /\ ~SilentReads

(* Event ev asks the executor for task n of e; it is the executor's answer.*)
Requests(ev, e, n) ==
  ev.type = "task.requested" /\ ev.execution = e /\ ev.task = n

Answers(ev, e, n) ==
  /\ ev.type = "task.completed" /\ ev.source = "executor-service"
  /\ ev.execution = e /\ ev.task = n

Requested(s, e, n) == \E i \in DOMAIN s : Requests(s[i], e, n)
Answered(s, e, n)  == \E i \in DOMAIN s : Answers(s[i], e, n)

StartedIn(s, e) ==
  \E i \in DOMAIN s : s[i].execution = e /\ s[i].type = "execution.started"

(* Every event but workflow.created belongs to an execution whose          *)
(* execution.started is in the stream.                                     *)
StartedOK ==
  /\ \A i \in DOMAIN log : log[i].type # "workflow.created" =>
       /\ log[i].execution \in Executions
       /\ replay[log[i].execution].context = log[i].execution
  /\ \A e \in Executions : replay[e].context = e =>
       record[e] # "none" /\ StartedIn(log, e)

(* The event fits the task: the executor is asked for calls and answers    *)
(* them, the timer service handles waits, the worker itself runs sets, and *)
(* only the executor reports failures.                                     *)
KindOK(ev) ==
  /\ ev.type = "task.requested" => TaskKind[ev.task] = "call"
  /\ ev.type \in {"timer.scheduled", "timer.fired"} => TaskKind[ev.task] = "wait"
  /\ ev.type = "timer.fired" => ev.success
  /\ ev.type = "task.completed" =>
       \/ ev.source = "executor-service" /\ TaskKind[ev.task] = "call"
       \/ /\ ev.source = "workflow-engine" /\ TaskKind[ev.task] = "set"
          /\ ev.success

KindsOK == \A i \in DOMAIN log : KindOK(log[i])

(* State st knows of the request of task n: it is pending or completed.    *)
Held(st, n) == st.pending[n] > 0 \/ Done(st, n)

RequestsHeld ==
  \A i \in DOMAIN log : log[i].type = "task.requested" =>
    Held(replay[log[i].execution], log[i].task)

(* An answer belongs to a request that was consumed, and is the only one.  *)
AnswersOK ==
  /\ \A i \in DOMAIN log, e \in Executions, n \in TaskNames :
       Answers(log[i], e, n) =>
         \E h \in DOMAIN log : h \in answered /\ Requests(log[h], e, n)
  /\ \A i, h \in DOMAIN log, e \in Executions, n \in TaskNames :
       Answers(log[i], e, n) /\ Answers(log[h], e, n) => i = h

MutexOK ==
  \A w \in Workers, g \in Permits :
    job[w][g].phase \in HoldsMutex => lock[w] = g

(* A goroutine that is about to publish its step decided when all requests *)
(* of the execution had been answered with success; nobody else publishes  *)
(* a request while it holds the mutex.                                     *)
DecisionOK(j, s, r) ==
  /\ j.phase \in HoldsMutex =>
       /\ j.state.context \in Executions
       /\ r[j.state.context].context = j.state.context
  /\ j.phase = "publishing" =>
       /\ \A n \in TaskNames :
            Requested(s, j.state.context, n) => Done(r[j.state.context], n)
       /\ j.step.action = "request" =>
            ~Requested(s, j.state.context, j.step.task)
       /\ j.step.action # "complete" => j.step.action = DispatchAction(j.step.task)

DecisionsOK == \A w \in Workers, g \in Permits : DecisionOK(job[w][g], log, replay)

OneWorkerInv ==
  /\ StartedOK /\ KindsOK /\ RequestsHeld /\ AnswersOK
  /\ MutexOK /\ DecisionsOK
  /\ SingleRequest /\ FailureStops

-----------------------------------------------------------------------------
(* The engine: a request is remembered, and it keeps the goroutines from   *)
(* choosing another step until it is answered with success.                *)

LEMMA DoneStays ==
  ASSUME NEW st \in EngineState, NEW ev, WellFormed(ev), NEW n, Done(st, n)
  PROVE  Done(ProcessEvent(st, ev), n)
<1> DEFINE c == st.completed
           d == ProcessEvent(st, ev).completed
<1>1. c \in Seq(TaskNames) /\ \E i \in DOMAIN c : c[i] = n
  BY DEF EngineState, Done
<1>2. d = c \/ (IsReport(ev) /\ d = Append(c, ev.task))
  BY CompletedStep
<1>3. IsReport(ev) => ev.task \in TaskNames
  BY DEF IsReport, WellFormed
<1> HIDE DEF c, d
<1>4. \E i \in DOMAIN d : d[i] = n
  <2>1. CASE d = c
    BY <1>1, <2>1
  <2>2. CASE d = Append(c, ev.task)
    BY <1>1, <1>2, <1>3, <2>2
  <2> QED
    BY <1>2, <2>1, <2>2
<1> QED
  BY <1>4 DEF d, Done

(* A success reports the task as done, whether or not it was already.      *)
LEMMA ReportDone ==
  ASSUME NEW st \in EngineState, NEW ev, WellFormed(ev), IsReport(ev)
  PROVE  Done(ProcessEvent(st, ev), ev.task)
<1>1. CASE Done(st, ev.task)
  BY <1>1, DoneStays
<1>2. CASE ~Done(st, ev.task)
  <2> DEFINE c == st.completed
  <2>1. ProcessEvent(st, ev).completed = Append(c, ev.task)
    BY <1>2, CompletedStep
  <2>2. c \in Seq(TaskNames) /\ ev.task \in TaskNames
    BY DEF EngineState, IsReport, WellFormed
  <2>3. /\ Len(c) + 1 \in DOMAIN Append(c, ev.task)
        /\ Append(c, ev.task)[Len(c) + 1] = ev.task
    <3> HIDE DEF c
    <3> QED
      BY <2>2
  <2> QED
    BY <2>1, <2>3 DEF Done
<1> QED
  BY <1>1, <1>2

LEMMA HeldStays ==
  ASSUME NEW st \in EngineState, NEW ev, WellFormed(ev),
         NEW n \in TaskNames, Held(st, n)
  PROVE  Held(ProcessEvent(st, ev), n)
<1>1. CASE Done(st, n)
  BY <1>1, DoneStays DEF Held
<1>2. CASE st.pending[n] > 0
  <2>1. st.pending \in [TaskNames -> Nat]
    BY DEF EngineState
  <2>2. CASE IsReport(ev) /\ ev.task = n
    BY <2>2, ReportDone DEF Held
  <2>3. CASE IsReport(ev) /\ ev.task # n
    <3>1. ProcessEvent(st, ev) = TaskCompleted(st, ev)
      BY <2>3 DEF ProcessEvent, IsReport
    <3>2. TaskCompleted(st, ev).pending =
            [st.pending EXCEPT ![ev.task] = IF @ > 0 THEN @ - 1 ELSE 0]
      BY <2>3 DEF TaskCompleted, EngineState, IsReport
    <3> QED
      BY <1>2, <2>1, <2>3, <3>1, <3>2 DEF Held
  <2>4. CASE ev.type = "task.requested"
    <3>1. ProcessEvent(st, ev).pending = [st.pending EXCEPT ![ev.task] = @ + 1]
      BY <2>4 DEF ProcessEvent, EngineState
    <3>2. ev.task \in TaskNames
      BY <2>4 DEF WellFormed
    <3>3. [st.pending EXCEPT ![ev.task] = @ + 1][n] > 0
      BY <1>2, <2>1, <3>2
    <3> QED
      BY <3>1, <3>3 DEF Held
  <2>5. CASE ~IsReport(ev) /\ ev.type # "task.requested"
    <3>1. ProcessEvent(st, ev).pending = st.pending
      BY <2>5 DEF ProcessEvent, TaskCompleted, EngineState, IsReport
    <3> QED
      BY <1>2, <3>1 DEF Held
  <2> QED
    BY <2>2, <2>3, <2>4, <2>5
<1> QED
  BY <1>1, <1>2 DEF Held

LEMMA RequestHeld ==
  ASSUME NEW st \in EngineState, NEW ev, WellFormed(ev),
         ev.type = "task.requested"
  PROVE  Held(ProcessEvent(st, ev), ev.task)
<1>1. ProcessEvent(st, ev).pending = [st.pending EXCEPT ![ev.task] = @ + 1]
  BY DEF ProcessEvent, EngineState
<1>2. ev.task \in TaskNames /\ st.pending \in [TaskNames -> Nat]
  BY DEF WellFormed, EngineState
<1>3. [st.pending EXCEPT ![ev.task] = @ + 1][ev.task] > 0
  BY <1>2
<1> QED
  BY <1>1, <1>3 DEF Held

(* A pending task whose predecessors are done is the one whose turn it is: *)
(* nothing else is handed out and the workflow is not completed.           *)
LEMMA PendingBlocks ==
  ASSUME NEW st \in EngineState, IsListPrefix(st.completed),
         NEW k \in DOMAIN TaskList, st.pending[TaskList[k]] > 0,
         \A m \in 1 .. k - 1 : Done(st, TaskList[m]),
         ~Done(st, TaskList[k])
  PROVE  NextStep(st).action = "nothing"
<1> DEFINE c == st.completed
<1>1. c \in Seq(TaskNames) /\ Len(c) \in Nat
  BY DEF EngineState
<1>2. Len(c) = k - 1
  <2>1. \A m \in 1 .. k - 1 : \E i \in DOMAIN c : c[i] = TaskList[m]
    BY DEF Done
  <2>2. ~ \E i \in DOMAIN c : c[i] = TaskList[k]
    BY DEF Done
  <2> HIDE DEF c
  <2> QED
    BY <1>1, <2>1, <2>2, PrefixLength DEF c
<1>3. Len(c) + 1 = k
  BY <1>1, <1>2, TaskListFacts
<1>4. GetNextTask(st) = NoTask
  BY <1>3 DEF GetNextTask
<1>5. AnyPending(st)
  BY TaskListFacts DEF AnyPending
<1> QED
  BY <1>4, <1>5 DEF NextStep

(* What executeNextSDLStep chooses to do fits the kind of the task, and    *)
(* the task is not done.                                                   *)
LEMMA NextStepFits ==
  ASSUME NEW st \in EngineState,
         NextStep(st).action \notin {"nothing", "complete"}
  PROVE  /\ NextStep(st).action = DispatchAction(NextStep(st).task)
         /\ ~Done(st, NextStep(st).task)
<1>1. GetNextTask(st) # NoTask
  BY DEF NextStep
<1>2. ~Done(st, GetNextTask(st))
  BY <1>1 DEF GetNextTask
<1> QED
  BY <1>1, <1>2 DEF NextStep

-----------------------------------------------------------------------------
(* The stream: what one more event preserves.                              *)

(* The part of the invariant that speaks of the stream and its replays.    *)
StreamInv == StartedOK /\ KindsOK /\ RequestsHeld /\ SingleRequest /\ FailureStops

(* Event ev may follow stream s, whose replays are r.                      *)
Admissible(ev, s, r) ==
  /\ ev.type # "workflow.created" /\ ev.execution \in Executions
  /\ ev.type # "execution.started" => r[ev.execution].context = ev.execution
  /\ KindOK(ev)
  /\ ev.type = "task.requested" => ~Requested(s, ev.execution, ev.task)
  /\ IsHandOut(ev) \/ ev.type = "workflow.completed" => ~FailedIn(s, ev.execution)

LEMMA PublishFacts ==
  ASSUME TypeInv, NEW ev, WellFormed(ev), Publish(ev)
  PROVE  /\ log \in Seq(Event) /\ ev \in Event /\ log' = Append(log, ev)
         /\ Len(log') \in DOMAIN log' /\ log'[Len(log')] = ev
         /\ \A i \in DOMAIN log : i \in DOMAIN log' /\ log'[i] = log[i]
         /\ \A i \in DOMAIN log' : i \in DOMAIN log \/ i = Len(log')
         /\ \A i \in DOMAIN log : i < Len(log')
         /\ replay \in [Executions -> EngineState]
         /\ \A e \in Executions :
              replay'[e] = IF e = ev.execution THEN ProcessEvent(replay[e], ev)
                                               ELSE replay[e]
<1>1. /\ log \in Seq(Event) /\ ev \in Event /\ log' = Append(log, ev)
      /\ replay \in [Executions -> EngineState]
  BY DEF TypeInv, TypeOK, WellFormed, Publish
<1>2. /\ Len(log') = Len(log) + 1 /\ log'[Len(log')] = ev
      /\ Continues(log, log')
      /\ \A i \in DOMAIN log' : i \in DOMAIN log \/ i = Len(log')
  BY <1>1, AppendFacts
<1>3. DOMAIN log = 1 .. Len(log) /\ Len(log) \in Nat /\ log' \in Seq(Event)
  BY <1>1
<1>4. Len(log') \in DOMAIN log' /\ \A i \in DOMAIN log : i < Len(log')
  BY <1>2, <1>3
<1> QED
  BY <1>1, <1>2, <1>4 DEF Continues, Publish

LEMMA RequestedStep ==
  ASSUME TypeInv, NEW ev, WellFormed(ev), Publish(ev), NEW e, NEW n
  PROVE  Requested(log', e, n) <=> Requested(log, e, n) \/ Requests(ev, e, n)
BY PublishFacts DEF Requested

LEMMA PublishAdmissible ==
  ASSUME TypeInv, StreamInv, NEW ev, WellFormed(ev), Admissible(ev, log, replay),
         Publish(ev),
         ev.type = "execution.started" => record'[ev.execution] # "none",
         \A e \in Executions : record[e] # "none" => record'[e] # "none"
  PROVE  StreamInv'
<1> DEFINE n == Len(log')
           x == ev.execution
<1>1. /\ n \in DOMAIN log' /\ log'[n] = ev
      /\ \A i \in DOMAIN log : i \in DOMAIN log' /\ log'[i] = log[i] /\ i < n
      /\ \A i \in DOMAIN log' : i \in DOMAIN log \/ i = n
  BY PublishFacts
<1>2. /\ x \in Executions
      /\ \A e \in Executions : replay[e] \in EngineState
      /\ replay'[x] = ProcessEvent(replay[x], ev)
      /\ \A e \in Executions : e # x => replay'[e] = replay[e]
  BY PublishFacts DEF Admissible
<1> HIDE DEF n
<1>3. \A i \in DOMAIN log : WellFormed(log[i])
  BY DEF TypeInv, StreamOK
<1>4. /\ replay'[x].context = x
      /\ \A e \in Executions : replay[e].context = e => replay'[e].context = e
  <2>1. replay'[x].context =
          IF ev.type = "execution.started" THEN x ELSE replay[x].context
    BY <1>2, ContextStep
  <2>2. replay'[x].context = x
    BY <2>1 DEF Admissible
  <2> HIDE DEF x
  <2> QED
    BY <1>2, <2>2
<1>5. StartedOK'
  <2>1. ASSUME NEW i \in DOMAIN log', log'[i].type # "workflow.created"
        PROVE  /\ log'[i].execution \in Executions
               /\ replay'[log'[i].execution].context = log'[i].execution
    BY <1>1, <1>2, <1>4, <2>1 DEF StreamInv, StartedOK
  <2>2. ASSUME NEW e \in Executions, replay'[e].context = e
        PROVE  record'[e] # "none" /\ StartedIn(log', e)
    <3>1. CASE replay[e].context = e
      <4>1. record[e] # "none" /\ StartedIn(log, e)
        BY <3>1 DEF StreamInv, StartedOK
      <4> QED
        BY <1>1, <4>1 DEF StartedIn
    <3>2. CASE replay[e].context # e
      <4>1. e = x /\ ev.type = "execution.started"
        BY <1>2, <2>2, <3>2 DEF Admissible
      <4> QED
        BY <1>1, <4>1 DEF StartedIn
    <3> QED
      BY <3>1, <3>2
  <2> QED
    BY <2>1, <2>2 DEF StartedOK
<1>6. KindsOK'
  BY <1>1 DEF StreamInv, KindsOK, Admissible
<1>7. RequestsHeld'
  <2> SUFFICES ASSUME NEW i \in DOMAIN log', log'[i].type = "task.requested"
               PROVE  Held(replay'[log'[i].execution], log'[i].task)
    BY DEF RequestsHeld
  <2>1. CASE i = n
    BY <1>1, <1>2, <2>1, RequestHeld
  <2>2. CASE i \in DOMAIN log
    <3> DEFINE e == log[i].execution
               t == log[i].task
    <3>1. /\ log'[i] = log[i] /\ t \in TaskNames /\ e \in Executions
          /\ Held(replay[e], t)
      BY <1>1, <1>3, <2>2 DEF StreamInv, RequestsHeld, StartedOK, WellFormed
    <3> HIDE DEF e, t
    <3>2. Held(replay'[e], t)
      BY <1>2, <3>1, HeldStays
    <3> QED
      BY <3>1, <3>2 DEF e, t
  <2> QED
    BY <1>1, <2>1, <2>2
<1>8. SingleRequest'
  <2> SUFFICES ASSUME NEW i \in DOMAIN log', NEW h \in DOMAIN log',
                      log'[i].type = "task.requested",
                      log'[h].type = "task.requested",
                      log'[i].execution = log'[h].execution,
                      log'[i].task = log'[h].task
               PROVE  i = h
    BY DEF SingleRequest
  <2>1. \A a \in DOMAIN log : log[a].type = "task.requested" =>
          Requested(log, log[a].execution, log[a].task)
    BY DEF Requested, Requests
  <2> QED
    BY <1>1, <2>1 DEF StreamInv, SingleRequest, Admissible
<1>9. FailureStops'
  <2> SUFFICES ASSUME NEW i \in DOMAIN log', NEW h \in DOMAIN log', i < h,
                      log'[i].type = "task.completed", ~log'[i].success,
                      log'[h].execution = log'[i].execution
               PROVE  ~IsHandOut(log'[h]) /\ log'[h].type # "workflow.completed"
    BY DEF FailureStops, Fails, Is, HandsOut, IsHandOut
  <2>1. CASE h = n
    <3>3. i # n
      <4>1. n \in Nat
        BY PublishFacts DEF n
      <4> QED
        BY <2>1, <4>1
    <3>1. i \in DOMAIN log /\ log'[i] = log[i]
      BY <1>1, <3>3
    <3>2. FailedIn(log, x)
      BY <1>1, <2>1, <3>1 DEF FailedIn
    <3> QED
      BY <1>1, <2>1, <3>2 DEF Admissible
  <2>2. CASE h \in DOMAIN log /\ i \in DOMAIN log
    BY <1>1, <2>2 DEF StreamInv, FailureStops, Fails, Is, HandsOut, IsHandOut
  <2>3. CASE i = n
    <3>1. log' \in Seq(Event)
      BY PublishFacts
    <3>2. h \in 1 .. Len(log') /\ Len(log') \in Nat
      BY <3>1
    <3>3. Len(log') < h
      BY <2>3 DEF n
    <3> QED
      BY <3>2, <3>3
  <2> QED
    BY <1>1, <2>1, <2>2, <2>3
<1> QED
  BY <1>5, <1>6, <1>7, <1>8, <1>9 DEF StreamInv

LEMMA StreamInvKept ==
  ASSUME TypeInv, StreamInv, UNCHANGED streamVars,
         \A e \in Executions : record[e] # "none" => record'[e] # "none"
  PROVE  StreamInv'
BY DEF StreamInv, StartedOK, KindsOK, RequestsHeld, SingleRequest, FailureStops,
       HandsOut, Fails, Is, streamVars

(* The answers: an event that is not the executor's changes nothing.       *)
LEMMA AnswersStep ==
  ASSUME TypeInv, AnswersOK, NEW ev, WellFormed(ev), PublishError(ev),
         answered \subseteq answered',
         \A e \in Executions, n \in TaskNames : Answers(ev, e, n) =>
           /\ ~Answered(log, e, n)
           /\ \E h \in DOMAIN log : h \in answered' /\ Requests(log[h], e, n)
  PROVE  AnswersOK'
<1>1. CASE UNCHANGED streamVars
  <2>1. log' = log
    BY <1>1 DEF streamVars
  <2> QED
    BY <2>1 DEF AnswersOK
<1>2. CASE Publish(ev)
  <2> DEFINE k == Len(log')
  <2>1. /\ k \in DOMAIN log' /\ log'[k] = ev
        /\ \A i \in DOMAIN log : i \in DOMAIN log' /\ log'[i] = log[i]
        /\ \A i \in DOMAIN log' : i \in DOMAIN log \/ i = k
    BY <1>2, PublishFacts
  <2> HIDE DEF k
  <2>2. ASSUME NEW i \in DOMAIN log', NEW e \in Executions, NEW n \in TaskNames,
               Answers(log'[i], e, n)
        PROVE  \E h \in DOMAIN log' : h \in answered' /\ Requests(log'[h], e, n)
    <3>1. \E h \in DOMAIN log : h \in answered' /\ Requests(log[h], e, n)
      <4>1. CASE i = k
        BY <2>1, <2>2, <4>1
      <4>2. CASE i \in DOMAIN log
        <5>1. Answers(log[i], e, n)
          BY <2>1, <2>2, <4>2
        <5> QED
          BY <4>2, <5>1 DEF AnswersOK
      <4> QED
        BY <2>1, <4>1, <4>2
    <3> QED
      BY <2>1, <3>1
  <2>3. ASSUME NEW i \in DOMAIN log', NEW h \in DOMAIN log',
               NEW e \in Executions, NEW n \in TaskNames,
               Answers(log'[i], e, n), Answers(log'[h], e, n)
        PROVE  i = h
    <3>1. CASE i \in DOMAIN log /\ h \in DOMAIN log
      <4>1. Answers(log[i], e, n) /\ Answers(log[h], e, n)
        BY <2>1, <2>3, <3>1
      <4> QED
        BY <3>1, <4>1 DEF AnswersOK
    <3>2. CASE i = k /\ h \in DOMAIN log
      BY <2>1, <2>3, <3>2 DEF Answered
    <3>3. CASE h = k /\ i \in DOMAIN log
      BY <2>1, <2>3, <3>3 DEF Answered
    <3> QED
      BY <2>1, <3>1, <3>2, <3>3
  <2> QED
    BY <2>2, <2>3 DEF AnswersOK
<1> QED
  BY <1>1, <1>2 DEF PublishError

-----------------------------------------------------------------------------
(* The goroutines: the mutex, and the decisions taken under it.            *)

(* A decision survives every event but a request of somebody else.         *)
LEMMA DecisionStays ==
  ASSUME TypeInv, NEW j, DecisionOK(j, log, replay), NEW ev, WellFormed(ev),
         PublishError(ev),
         ev.type # "task.requested" \/ j.phase # "publishing"
  PROVE  DecisionOK(j, log', replay')
<1> DEFINE x == j.state.context
<1>1. CASE UNCHANGED streamVars
  <2>1. log' = log /\ replay' = replay
    BY <1>1 DEF streamVars
  <2> QED
    BY <2>1
<1>2. CASE Publish(ev)
  <2>1. /\ \A e \in Executions : replay[e] \in EngineState
        /\ \A e \in Executions :
             replay'[e] = IF e = ev.execution THEN ProcessEvent(replay[e], ev)
                                              ELSE replay[e]
    BY <1>2, PublishFacts
  <2>2. ASSUME NEW e \in Executions, replay[e].context = e
        PROVE  replay'[e].context = e
    <3>1. e = ev.execution =>
            ProcessEvent(replay[e], ev).context =
              IF ev.type = "execution.started" THEN ev.execution
                                               ELSE replay[e].context
      BY <2>1, ContextStep
    <3> QED
      BY <2>1, <2>2, <3>1
  <2>3. \A e \in Executions : \A n \in TaskNames :
          Done(replay[e], n) => Done(replay'[e], n)
    BY <2>1, DoneStays
  <2>4. ev.type # "task.requested" =>
          \A n : Requested(log', x, n) <=> Requested(log, x, n)
    BY <1>2, RequestedStep DEF Requests
  <2> HIDE DEF x
  <2> QED
    BY <2>2, <2>3, <2>4 DEF DecisionOK, HoldsMutex, x
<1> QED
  BY <1>1, <1>2 DEF PublishError

LEMMA MutexStep ==
  ASSUME TypeInv, MutexOK, NEW w \in Workers, NEW g \in Permits,
         NEW j \in Job, SetJob(w, g, j),
         \/ /\ lock' = lock
            /\ j.phase \in HoldsMutex => job[w][g].phase \in HoldsMutex
         \/ /\ Unlock(w) /\ j.phase \notin HoldsMutex
            /\ job[w][g].phase \in HoldsMutex
         \/ lock[w] = NoPermit /\ lock' = [lock EXCEPT ![w] = g]
  PROVE  MutexOK'
<1> SUFFICES ASSUME NEW v \in Workers, NEW h \in Permits,
                    job'[v][h].phase \in HoldsMutex
             PROVE  lock'[v] = h
  BY DEF MutexOK
<1>1. lock \in [Workers -> Permits \cup {NoPermit}] /\ NoPermit \notin Permits
  BY ProcessorAssumption DEF TypeInv, TypeOK
<1>2. job'[w][g] = j /\ (v # w \/ h # g => job'[v][h] = job[v][h])
  BY SetJobTyped
<1>3. CASE v = w /\ h = g
  BY <1>1, <1>2, <1>3 DEF MutexOK
<1>4. CASE v # w \/ h # g
  <2>1. lock[v] = h
    BY <1>2, <1>4 DEF MutexOK
  <2>2. v = w => lock[w] # NoPermit /\ ~(job[w][g].phase \in HoldsMutex)
    BY <1>1, <1>4, <2>1 DEF MutexOK
  <2> QED
    BY <1>1, <1>2, <2>1, <2>2 DEF Unlock
<1> QED
  BY <1>3, <1>4

LEMMA DecisionsStep ==
  ASSUME TypeInv, DecisionsOK, NEW w \in Workers, NEW g \in Permits,
         NEW j \in Job, SetJob(w, g, j), DecisionOK(j, log', replay'),
         NEW ev, WellFormed(ev), PublishError(ev),
         ev.type = "task.requested" =>
           \A v \in Workers, h \in Permits :
             v # w \/ h # g => job[v][h].phase # "publishing"
  PROVE  DecisionsOK'
<1> SUFFICES ASSUME NEW v \in Workers, NEW h \in Permits
             PROVE  DecisionOK(job'[v][h], log', replay')
  BY DEF DecisionsOK
<1>1. job'[w][g] = j /\ (v # w \/ h # g => job'[v][h] = job[v][h])
  BY SetJobTyped
<1>2. v # w \/ h # g => DecisionOK(job[v][h], log', replay')
  BY DecisionStays DEF DecisionsOK
<1> QED
  BY <1>1, <1>2

(* With one process, the goroutine that publishes is the only one.         *)
LEMMA OnePublisher ==
  ASSUME OneWorker, MutexOK, NEW w \in Workers, NEW g \in Permits,
         job[w][g].phase \in HoldsMutex
  PROVE  \A v \in Workers, h \in Permits :
           v # w \/ h # g => job[v][h].phase \notin HoldsMutex
BY DEF OneWorker, MutexOK

LEMMA NoDecision ==
  ASSUME NEW j, j.phase \notin HoldsMutex, NEW s, NEW r
  PROVE  DecisionOK(j, s, r)
BY DEF DecisionOK, HoldsMutex

(* A step of a goroutine that publishes nothing.                           *)
LEMMA SilentStep ==
  ASSUME TypeInv, OneWorkerInv, NEW w \in Workers, NEW g \in Permits,
         NEW j \in Job, SetJob(w, g, j), DecisionOK(j, log, replay),
         \/ /\ lock' = lock
            /\ j.phase \in HoldsMutex => job[w][g].phase \in HoldsMutex
         \/ /\ Unlock(w) /\ j.phase \notin HoldsMutex
            /\ job[w][g].phase \in HoldsMutex
         \/ lock[w] = NoPermit /\ lock' = [lock EXCEPT ![w] = g],
         UNCHANGED streamVars, answered' = answered,
         \A e \in Executions : record[e] # "none" => record'[e] # "none"
  PROVE  OneWorkerInv'
<1>1. WellFormed(CreatedEvent) /\ CreatedEvent.type = "workflow.created"
  BY DEF CreatedEvent, NewEvent, WellFormed, Event, EventTypes, Sources
<1>2. \A e, n : ~Answers(CreatedEvent, e, n)
  BY <1>1 DEF Answers
<1>3. PublishError(CreatedEvent)
  BY DEF PublishError
<1>4. StreamInv'
  BY StreamInvKept DEF OneWorkerInv, StreamInv
<1>5. AnswersOK'
  BY <1>1, <1>2, <1>3, AnswersStep DEF OneWorkerInv
<1>6. MutexOK'
  BY MutexStep DEF OneWorkerInv
<1>7. DecisionsOK'
  <2>1. log' = log /\ replay' = replay
    BY DEF streamVars
  <2> QED
    BY <1>1, <1>3, <2>1, DecisionsStep DEF OneWorkerInv
<1> QED
  BY <1>4, <1>5, <1>6, <1>7 DEF OneWorkerInv, StreamInv

LEMMA RestStep ==
  ASSUME TypeInv, OneWorkerInv, NEW w \in Workers, NEW g \in Permits,
         Spawn(w, g) \/ Skip(w, g) \/ Acknowledge(w, g)
  PROVE  OneWorkerInv'
<1>1. /\ UNCHANGED streamVars /\ lock' = lock /\ answered' = answered
      /\ record' = record
  BY DEF Spawn, Skip, Acknowledge
<1>2. PICK j \in Job : SetJob(w, g, j) /\ j.phase \notin HoldsMutex
  <2>1. IdleJob \in Job /\ IdleJob.phase = "idle" /\ job[w][g] \in Job
    BY IdleJobTyped DEF IdleJob, TypeInv, TypeOK
  <2>2. CASE Spawn(w, g)
    <3> DEFINE j == [IdleJob EXCEPT !.phase = "locking", !.attempt = 1,
                                    !.entry = Head(inbox[w])]
    <3>1. inbox[w] \in Seq(Positions) /\ inbox[w] # <<>>
      BY <2>2 DEF Spawn, TypeInv, TypeOK
    <3>2. Head(inbox[w]) \in Nat
      BY <3>1 DEF Positions
    <3>3. j \in Job /\ j.phase = "locking"
      BY <2>1, <3>2 DEF Job, Phases
    <3>4. SetJob(w, g, j)
      BY <2>2 DEF Spawn
    <3> HIDE DEF j
    <3> QED
      BY <3>3, <3>4 DEF HoldsMutex
  <2>3. CASE Skip(w, g)
    <3> DEFINE j == [job[w][g] EXCEPT !.phase = "acking"]
    <3>1. j \in Job /\ j.phase = "acking"
      BY <2>1 DEF Job, Phases
    <3>2. SetJob(w, g, j)
      BY <2>3 DEF Skip
    <3> HIDE DEF j
    <3> QED
      BY <3>1, <3>2 DEF HoldsMutex
  <2>4. CASE Acknowledge(w, g)
    BY <2>1, <2>4 DEF Acknowledge, HoldsMutex
  <2> QED
    BY <2>2, <2>3, <2>4
<1> QED
  BY <1>1, <1>2, NoDecision, SilentStep

(* While a requested task has not succeeded, a replay finds nothing to do. *)
LEMMA UnansweredBlocks ==
  ASSUME TypeInv, OrderInv, OneWorkerInv, NEW i \in DOMAIN log,
         log[i].execution \in Executions, NEW n \in TaskNames,
         Requested(log, log[i].execution, n), ~Done(replay[log[i].execution], n)
  PROVE  NextStep(ProcessEvent(replay[log[i].execution], log[i])).action = "nothing"
<1> DEFINE ev == log[i]
           e  == ev.execution
           st == ProcessEvent(replay[e], ev)
<1>1. /\ e \in Executions /\ WellFormed(ev) /\ replay[e] \in EngineState
      /\ st \in EngineState /\ st.completed = replay[e].completed
  BY RebuildOrdered DEF TypeInv, TypeOK, StreamOK
<1>2. PICK h \in DOMAIN log : Requests(log[h], e, n)
  BY DEF Requested
<1>3. ~Done(st, n) /\ Held(replay[e], n)
  BY <1>1, <1>2 DEF Done, OneWorkerInv, RequestsHeld, Requests
<1>4. st.pending[n] > 0
  <2>1. Held(st, n)
    BY <1>1, <1>3, HeldStays
  <2> QED
    BY <1>3, <2>1 DEF Held
<1>5. InOrder(log, e, n)
  <2>1. e # NoExecution
    BY <1>1, ExecutionsAssumption
  <2>2. Justified(log[h], SubSeq(log, 1, h - 1))
    BY DEF OrderInv, EntriesOK
  <2>3. InOrder(SubSeq(log, 1, h - 1), e, n)
    BY <1>2, <2>1, <2>2 DEF Justified, Requests, IsHandOut
  <2>4. Continues(SubSeq(log, 1, h - 1), log)
    BY DEF TypeInv, TypeOK, Continues
  <2> HIDE DEF e
  <2> QED
    BY <2>3, <2>4, AchievedStays
<1>6. PICK k \in DOMAIN TaskList :
        /\ TaskList[k] = n
        /\ \A m \in 1 .. k - 1 : Achieved(log, e, TaskList[m])
  BY <1>5 DEF InOrder
<1>7. \A m \in 1 .. k - 1 : m \in DOMAIN TaskList
  BY TaskListFacts
<1>8. \A m \in 1 .. k - 1 : Done(st, TaskList[m])
  <2>1. \A t \in TaskNames : Achieved(log, e, t) => Done(replay[e], t)
    BY <1>1 DEF OrderInv, ReplayOK
  <2>2. \A t : Done(replay[e], t) => Done(st, t)
    BY <1>1 DEF Done
  <2> HIDE DEF e, st
  <2> QED
    BY <1>6, <1>7, <2>1, <2>2, TaskListFacts
<1>9. IsListPrefix(st.completed)
  BY <1>1 DEF OrderInv, ReplayOK
<1> HIDE DEF st
<1>10. NextStep(st).action = "nothing"
  BY <1>1, <1>3, <1>4, <1>6, <1>8, <1>9, PendingBlocks
<1> QED
  BY <1>10 DEF st

(* The decision: the history is read, and the step chosen, while all       *)
(* requests of the execution are answered or one of them is held.          *)
LEMMA DecideStep ==
  ASSUME TypeInv, OrderInv, OneWorkerInv, OneWorker,
         NEW w \in Workers, NEW g \in Permits,
         Rebuild(w, g) \/ RebuildBlind(w, g) \/ RebuildFails(w, g)
  PROVE  OneWorkerInv'
<1> DEFINE i  == job[w][g].entry
           ev == log[i]
           e  == ev.execution
           st == ProcessEvent(replay[e], ev)
<1>1. /\ job[w][g].phase = "locking" /\ lock[w] = NoPermit /\ ~Skipped(ev)
      /\ UNCHANGED streamVars /\ answered' = answered /\ record' = record
  BY DEF Rebuild, RebuildBlind, RebuildFails, Handles
<1>2. /\ job[w][g] \in Job /\ i \in DOMAIN log /\ WellFormed(ev)
      /\ ev.type # "workflow.created"
  BY <1>1, JobFacts DEF Skipped
<1>3. ASSUME AfterError(w, g), lock' = lock
      PROVE  OneWorkerInv'
  <2>1. PICK j \in Job : SetJob(w, g, j) /\ j.phase \notin HoldsMutex
    BY <1>3, AfterErrorJob DEF HoldsMutex
  <2> QED
    BY <1>1, <1>3, <2>1, NoDecision, SilentStep
<1>4. CASE RebuildFails(w, g)
  BY <1>3, <1>4 DEF RebuildFails
<1>5. CASE RebuildBlind(w, g)
  BY <1>5 DEF RebuildBlind, OneWorker
<1>6. CASE Rebuild(w, g)
  <2>1. e \in Executions /\ Decide(w, g, st) /\ replay[e].context = e
    BY <1>2, <1>6 DEF Rebuild, OneWorkerInv, StartedOK
  <2>2. /\ st \in EngineState /\ st.completed = replay[e].completed
        /\ replay[e] \in EngineState
    BY <1>2, <2>1, RebuildOrdered DEF TypeInv, TypeOK
  <2>3. st.context = e
    <3>1. st.context = IF ev.type = "execution.started" THEN e
                                                        ELSE replay[e].context
      BY <2>2, ContextStep
    <3> QED
      BY <2>1, <3>1
  <2>4. ASSUME NEW n \in TaskNames, Requested(log, e, n), ~Done(replay[e], n)
        PROVE  NextStep(st).action = "nothing"
    BY <1>2, <2>1, <2>4, UnansweredBlocks
  <2>5. CASE AfterError(w, g) /\ lock' = lock
    BY <1>3, <2>5
  <2>6. CASE ~(AfterError(w, g) /\ lock' = lock)
    <3> DEFINE step == NextStep(st)
               phase == IF step.action = "nothing" THEN "recording"
                                                   ELSE "publishing"
               j == [job[w][g] EXCEPT !.phase = phase, !.state = st,
                                      !.step = step]
    <3>1. SetJob(w, g, j) /\ lock' = [lock EXCEPT ![w] = g]
      BY <2>1, <2>6 DEF Decide
    <3>2. /\ step \in Step /\ phase \in {"recording", "publishing"}
          /\ phase = "publishing" => step.action # "nothing"
      BY <2>2, NextStepTyped
    <3>3. phase = "publishing" /\ step.action # "complete" =>
            /\ step.action = DispatchAction(step.task)
            /\ step.task \in TaskNames
            /\ ~Done(st, step.task)
      BY <2>2, <3>2, NextStepFits, NextStepTyped
    <3>4. phase = "publishing" =>
            \A n \in TaskNames : Requested(log, e, n) => Done(replay[e], n)
      BY <2>4, <3>2
    <3>5. \A n : Done(st, n) <=> Done(replay[e], n)
      BY <2>2 DEF Done
    <3> HIDE DEF step, phase, st
    <3>6. /\ j \in Job /\ j.phase = phase /\ j.state = st /\ j.step = step
      BY <1>2, <2>2, <3>2 DEF Job, Phases
    <3> HIDE DEF j, e
    <3>7. DecisionOK(j, log, replay)
      <4>1. j.state.context = e /\ j.step = step /\ j.phase = phase
        BY <2>3, <3>6
      <4>2. e \in Executions /\ replay[e].context = e
        BY <2>1
      <4>3. phase = "publishing" /\ step.action = "request" =>
              ~Requested(log, e, step.task)
        BY <3>3, <3>4, <3>5
      <4> QED
        BY <3>3, <3>4, <4>1, <4>2, <4>3 DEF DecisionOK
    <3> QED
      BY <1>1, <3>1, <3>6, <3>7, SilentStep
  <2> QED
    BY <2>5, <2>6
<1> QED
  BY <1>4, <1>5, <1>6

-----------------------------------------------------------------------------
(* A failure comes from the executor, answers the only request of its task,*)
(* and is the only answer: the task never succeeds.                        *)
LEMMA FailedTask ==
  ASSUME TypeInv, OneWorkerInv, NEW i \in DOMAIN log,
         log[i].type = "task.completed", ~log[i].success
  PROVE  /\ log[i].task \in TaskNames /\ log[i].execution \in Executions
         /\ Answers(log[i], log[i].execution, log[i].task)
         /\ TaskKind[log[i].task] = "call"
         /\ Requested(log, log[i].execution, log[i].task)
         /\ ~Achieved(log, log[i].execution, log[i].task)
<1> DEFINE e == log[i].execution
           n == log[i].task
<1>1. n \in TaskNames /\ e \in Executions
  BY DEF TypeInv, StreamOK, WellFormed, OneWorkerInv, StartedOK
<1>2. Answers(log[i], e, n) /\ TaskKind[n] = "call"
  BY DEF OneWorkerInv, KindsOK, KindOK, Answers
<1>3. Requested(log, e, n)
  BY <1>1, <1>2 DEF OneWorkerInv, AnswersOK, Requested
<1>4. ASSUME NEW h \in DOMAIN log, Reports(log[h], e, n)
      PROVE  FALSE
  <2>1. Answers(log[h], e, n)
    <3>1. KindOK(log[h])
      BY DEF OneWorkerInv, KindsOK
    <3> HIDE DEF e, n
    <3> QED
      BY <1>2, <1>4, <3>1 DEF KindOK, Reports, Answers
  <2>2. h = i
    BY <1>1, <1>2, <2>1 DEF OneWorkerInv, AnswersOK
  <2> QED
    BY <1>4, <2>2 DEF Reports
<1> QED
  BY <1>1, <1>2, <1>3, <1>4 DEF Achieved

(* A goroutine with a step to publish works on an execution without        *)
(* failures: the request of the failed task would still be unanswered by a *)
(* success.                                                                *)
LEMMA PublisherUnfailed ==
  ASSUME TypeInv, OrderInv, OneWorkerInv, NEW w \in Workers, NEW g \in Permits,
         job[w][g].phase = "publishing"
  PROVE  ~FailedIn(log, job[w][g].state.context)
<1> DEFINE e == job[w][g].state.context
<1>1. /\ e \in Executions
      /\ \A n \in TaskNames : Requested(log, e, n) => Done(replay[e], n)
  BY DEF OneWorkerInv, DecisionsOK, DecisionOK, HoldsMutex
<1>2. \A n \in TaskNames : Done(replay[e], n) => Achieved(log, e, n)
  BY <1>1 DEF OrderInv, ReplayOK
<1> HIDE DEF e
<1>3. ASSUME NEW i \in DOMAIN log, log[i].execution = e,
             log[i].type = "task.completed", ~log[i].success
      PROVE  FALSE
  <2>1. /\ log[i].task \in TaskNames /\ Requested(log, e, log[i].task)
        /\ ~Achieved(log, e, log[i].task)
    BY <1>3, FailedTask
  <2> QED
    BY <1>1, <1>2, <2>1
<1> QED
  BY <1>3 DEF FailedIn, e

LEMMA PublisherAdmissible ==
  ASSUME TypeInv, OrderInv, OneWorkerInv, NEW w \in Workers, NEW g \in Permits,
         job[w][g].phase = "publishing"
  PROVE  /\ Admissible(JobEvent(w, g), log, replay)
         /\ WellFormed(JobEvent(w, g))
         /\ \A e, n : ~Answers(JobEvent(w, g), e, n)
         /\ JobEvent(w, g).type # "execution.started"
<1> DEFINE ev == JobEvent(w, g)
           j  == job[w][g]
           e  == j.state.context
<1>1. WellFormed(ev) /\ ev.type # "workflow.created" /\ JobOK(j, log)
  BY JobEventTyped, JobFacts
<1>2. ~FailedIn(log, e)
  BY PublisherUnfailed
<1>3. /\ e \in Executions /\ replay[e].context = e
      /\ j.step.action = "request" => ~Requested(log, e, j.step.task)
      /\ j.step.action # "complete" => j.step.action = DispatchAction(j.step.task)
  BY DEF OneWorkerInv, DecisionsOK, DecisionOK, HoldsMutex
<1>4. ev.execution = e
  BY DEF JobEvent, StepEvent, NewEvent
<1>5. CASE j.step.action = "complete"
  <2>1. ev.type = "workflow.completed"
    BY <1>5 DEF JobEvent, StepEvent, NewEvent
  <2> HIDE DEF ev, e
  <2>2. Admissible(ev, log, replay) /\ \A x, n : ~Answers(ev, x, n)
    BY <1>1, <1>2, <1>3, <1>4, <2>1 DEF Admissible, KindOK, Answers, IsHandOut
  <2> QED
    BY <1>1, <2>1, <2>2 DEF ev
<1>6. CASE j.step.action \in {"run", "schedule", "request"}
  <2>1. /\ ev.task = j.step.task /\ ev.success /\ ev.source # "executor-service"
        /\ ev.type = CASE j.step.action = "run" -> "task.completed"
                        [] j.step.action = "schedule" -> "timer.scheduled"
                        [] OTHER -> "task.requested"
        /\ j.step.action = "run" => ev.source = "workflow-engine"
    BY <1>6 DEF JobEvent, StepEvent, NewEvent
  <2>2. TaskKind[j.step.task] = CASE j.step.action = "run" -> "set"
                                  [] j.step.action = "schedule" -> "wait"
                                  [] OTHER -> "call"
    BY <1>3, <1>6 DEF DispatchAction
  <2>3. KindOK(ev) /\ \A x, n : ~Answers(ev, x, n)
    <3> HIDE DEF ev
    <3> QED
      BY <1>6, <2>1, <2>2 DEF KindOK, Answers
  <2>4. ev.type = "task.requested" => j.step.action = "request"
    <3> HIDE DEF ev
    <3> QED
      BY <1>6, <2>1
  <2>5. ev.type # "execution.started"
    <3> HIDE DEF ev
    <3> QED
      BY <1>6, <2>1
  <2>6. ev.type = "task.requested" => ~Requested(log, e, ev.task)
    BY <1>3, <2>1, <2>4
  <2> HIDE DEF ev, e
  <2>7. Admissible(ev, log, replay)
    BY <1>1, <1>2, <1>3, <1>4, <2>5, <2>3, <2>6 DEF Admissible
  <2> QED
    BY <1>1, <2>3, <2>5, <2>7 DEF ev
<1> QED
  BY <1>1, <1>5, <1>6 DEF JobOK

(* A step of a goroutine or a service that publishes ev, or fails to.      *)
LEMMA StreamStep ==
  ASSUME TypeInv, OneWorkerInv, NEW ev, WellFormed(ev), PublishError(ev),
         Admissible(ev, log, replay),
         ev.type = "execution.started" => record'[ev.execution] # "none",
         \A e \in Executions : record[e] # "none" => record'[e] # "none"
  PROVE  StreamInv'
<1>1. StreamInv
  BY DEF OneWorkerInv, StreamInv
<1>2. CASE Publish(ev)
  BY <1>1, <1>2, PublishAdmissible
<1>3. CASE UNCHANGED streamVars
  BY <1>1, <1>3, StreamInvKept
<1> QED
  BY <1>2, <1>3 DEF PublishError

LEMMA PublishStepOne ==
  ASSUME TypeInv, OrderInv, OneWorkerInv, OneWorker,
         NEW w \in Workers, NEW g \in Permits,
         PublishStep(w, g) \/ PublishStepFails(w, g)
  PROVE  OneWorkerInv'
<1> DEFINE ev == JobEvent(w, g)
<1>1. /\ job[w][g].phase = "publishing" /\ PublishError(ev)
      /\ record' = record /\ answered' = answered
  BY DEF PublishStep, PublishStepFails, PublishFails, PublishError
<1>2. /\ Admissible(ev, log, replay) /\ WellFormed(ev)
      /\ \A e, n : ~Answers(ev, e, n) /\ ev.type # "execution.started"
  BY <1>1, PublisherAdmissible
<1> HIDE DEF ev
<1>3. StreamInv'
  BY <1>1, <1>2, StreamStep
<1>4. AnswersOK'
  BY <1>1, <1>2, AnswersStep DEF OneWorkerInv
<1>5. job[w][g] \in Job /\ DecisionOK(job[w][g], log, replay)
  BY <1>1, JobFacts DEF OneWorkerInv, DecisionsOK
<1>6. PICK j \in Job :
        /\ SetJob(w, g, j) /\ DecisionOK(j, log', replay')
        /\ \/ lock' = lock
           \/ Unlock(w) /\ j.phase \notin HoldsMutex
  <2>1. CASE PublishStepFails(w, g)
    <3>1. PICK j \in Job : SetJob(w, g, j) /\ j.phase \notin HoldsMutex
      BY <2>1, AfterErrorJob DEF PublishStepFails, HoldsMutex
    <3> QED
      BY <2>1, <3>1, NoDecision DEF PublishStepFails
  <2>2. CASE PublishStep(w, g)
    <3> DEFINE st   == job[w][g].state
               done == [job[w][g] EXCEPT !.phase = "completing",
                                         !.state.status = "completed"]
               next == [job[w][g] EXCEPT !.phase = "recording"]
    <3>1. PICK j \in {done, next} : SetJob(w, g, j)
      BY <2>2 DEF PublishStep, AfterPublication
    <3>2. /\ [st EXCEPT !.status = "completed"] \in EngineState
          /\ [st EXCEPT !.status = "completed"].context = st.context
      BY <1>5 DEF Job, EngineState, Statuses
    <3>3. /\ done \in Job /\ done.state.context = st.context
          /\ done.phase = "completing"
          /\ next \in Job /\ next.state.context = st.context
          /\ next.phase = "recording"
      BY <1>5, <3>2 DEF Job, Phases
    <3>4. j \in Job /\ j.state.context = st.context /\ j.phase # "publishing"
      <4> HIDE DEF done, next
      <4> QED
        BY <3>3
    <3>5. DecisionOK(j, log, replay)
      BY <1>1, <1>5, <3>4 DEF DecisionOK, HoldsMutex
    <3>6. DecisionOK(j, log', replay')
      BY <1>1, <1>2, <3>4, <3>5, DecisionStays
    <3> QED
      BY <2>2, <3>1, <3>4, <3>6 DEF PublishStep
  <2> QED
    BY <2>1, <2>2
<1>7. job[w][g].phase \in HoldsMutex
  BY <1>1 DEF HoldsMutex
<1>8. MutexOK'
  BY <1>6, <1>7, MutexStep DEF OneWorkerInv
<1>9. DecisionsOK'
  <2>1. \A v \in Workers, h \in Permits :
          v # w \/ h # g => job[v][h].phase # "publishing"
    BY <1>7, OnePublisher DEF OneWorkerInv, HoldsMutex
  <2> QED
    BY <1>1, <1>2, <1>6, <2>1, DecisionsStep DEF OneWorkerInv
<1> QED
  BY <1>3, <1>4, <1>8, <1>9 DEF OneWorkerInv, StreamInv

LEMMA RecordStepOne ==
  ASSUME TypeInv, OneWorkerInv, NEW w \in Workers, NEW g \in Permits,
         CompleteRecord(w, g) \/ UpdateRecord(w, g) \/ UpdateRecordFails(w, g)
  PROVE  OneWorkerInv'
<1> DEFINE st == job[w][g].state
<1>1. /\ job[w][g].phase \in {"completing", "recording"}
      /\ UNCHANGED streamVars /\ answered' = answered
  BY DEF CompleteRecord, UpdateRecord, UpdateRecordFails
<1>2. /\ job[w][g] \in Job /\ DecisionOK(job[w][g], log, replay)
      /\ job[w][g].phase \in HoldsMutex
  BY <1>1, JobFacts DEF OneWorkerInv, DecisionsOK, HoldsMutex
<1>3. \A e \in Executions : record[e] # "none" => record'[e] # "none"
  <2>1. PICK status : /\ StoreStatus(st.context, status) \/ UNCHANGED record
                      /\ status # "none"
    <3>1. CASE CompleteRecord(w, g)
      <4>1. StoreStatus(st.context, "completed") \/ UNCHANGED record
        BY <3>1 DEF CompleteRecord
      <4> QED
        BY <4>1
    <3>2. CASE UpdateRecord(w, g) \/ UpdateRecordFails(w, g)
      <4>1. StoreStatus(st.context, RecordStatus(st.status)) \/ UNCHANGED record
        BY <3>2 DEF UpdateRecord, UpdateRecordFails, WriteRecord
      <4>2. RecordStatus(st.status) # "none"
        BY <1>2 DEF RecordStatus, Job, EngineState, Statuses
      <4> QED
        BY <4>1, <4>2
    <3> QED
      BY <3>1, <3>2
  <2> QED
    BY <2>1 DEF StoreStatus, TypeInv, TypeOK
<1>4. CASE CompleteRecord(w, g)
  <2> DEFINE j == [job[w][g] EXCEPT !.phase = "recording"]
  <2>1. SetJob(w, g, j) /\ lock' = lock
    BY <1>4 DEF CompleteRecord
  <2>2. j \in Job /\ j.state = st /\ j.phase = "recording"
    BY <1>2 DEF Job, Phases
  <2> HIDE DEF j
  <2>3. DecisionOK(j, log, replay)
    BY <1>2, <2>2 DEF DecisionOK
  <2> QED
    BY <1>1, <1>2, <1>3, <2>1, <2>2, <2>3, SilentStep
<1>5. CASE UpdateRecord(w, g) \/ UpdateRecordFails(w, g)
  <2>1. PICK j \in Job : SetJob(w, g, j) /\ j.phase \notin HoldsMutex
    <3> DEFINE j == [IdleJob EXCEPT !.phase = "acking",
                       !.entry = job[w][g].entry, !.attempt = job[w][g].attempt]
    <3>1. j \in Job /\ j.phase = "acking"
      BY <1>2, IdleJobTyped DEF Job, Phases
    <3>2. SetJob(w, g, j) \/ AfterError(w, g)
      BY <1>5 DEF UpdateRecord, UpdateRecordFails
    <3> HIDE DEF j
    <3> QED
      BY <3>1, <3>2, AfterErrorJob DEF HoldsMutex
  <2>2. Unlock(w)
    BY <1>5 DEF UpdateRecord, UpdateRecordFails
  <2> QED
    BY <1>1, <1>2, <1>3, <2>1, <2>2, NoDecision, SilentStep
<1> QED
  BY <1>4, <1>5

LEMMA DeadLetterOne ==
  ASSUME TypeInv, OneWorkerInv, NEW w \in Workers, NEW g \in Permits,
         DeadLetter(w, g)
  PROVE  OneWorkerInv'
<1> DEFINE ev == [log[job[w][g].entry] EXCEPT !.type = "event.dlq"]
           j  == [job[w][g] EXCEPT !.phase = "acking"]
<1>1. /\ job[w][g].phase = "dlq" /\ PublishError(ev) /\ SetJob(w, g, j)
      /\ record' = record /\ lock' = lock /\ answered' = answered
  BY DEF DeadLetter, PublishFails, PublishError
<1>2. /\ job[w][g] \in Job /\ job[w][g].entry \in DOMAIN log
      /\ WellFormed(log[job[w][g].entry])
      /\ log[job[w][g].entry].type # "workflow.created"
  BY <1>1, JobFacts
<1>3. /\ WellFormed(ev) /\ ev.type = "event.dlq"
      /\ ev.execution = log[job[w][g].entry].execution
  BY <1>2 DEF WellFormed, Event, EventTypes
<1>4. ev.execution \in Executions /\ replay[ev.execution].context = ev.execution
  BY <1>2, <1>3 DEF OneWorkerInv, StartedOK
<1>5. j \in Job /\ j.phase \notin HoldsMutex
  BY <1>2 DEF Job, Phases, HoldsMutex
<1> HIDE DEF ev, j
<1>6. Admissible(ev, log, replay) /\ \A e, n : ~Answers(ev, e, n)
  BY <1>3, <1>4 DEF Admissible, KindOK, IsHandOut, Answers
<1>7. StreamInv' /\ AnswersOK'
  BY <1>1, <1>3, <1>6, StreamStep, AnswersStep DEF OneWorkerInv
<1>8. MutexOK'
  BY <1>1, <1>5, MutexStep DEF OneWorkerInv
<1>9. DecisionsOK'
  BY <1>1, <1>3, <1>5, NoDecision, DecisionsStep DEF OneWorkerInv
<1> QED
  BY <1>7, <1>8, <1>9 DEF OneWorkerInv, StreamInv

(* A crash takes all goroutines of the process and its mutex away.         *)
LEMMA ProcessOne ==
  ASSUME TypeInv, OneWorkerInv, NEW w \in Workers,
         Deliver(w) \/ Crash(w) \/ Stop(w) \/ Restart(w)
  PROVE  OneWorkerInv'
<1>1. /\ UNCHANGED streamVars /\ record' = record /\ answered' = answered
  BY DEF Deliver, Crash, Stop, Restart
<1>2. log' = log /\ replay' = replay
  BY <1>1 DEF streamVars
<1>3. StreamInv'
  BY <1>1, StreamInvKept DEF OneWorkerInv, StreamInv
<1>4. AnswersOK'
  BY <1>1, <1>2 DEF OneWorkerInv, AnswersOK
<1>5. \A v \in Workers, h \in Permits :
        \/ job'[v][h] = job[v][h] /\ lock'[v] = lock[v]
        \/ job'[v][h].phase \notin HoldsMutex
  <2>1. CASE Crash(w)
    <3>1. /\ job' = [job EXCEPT ![w] = [g \in Permits |-> IdleJob]]
          /\ lock' = [lock EXCEPT ![w] = NoPermit]
      BY <2>1 DEF Crash, Unlock
    <3>2. IdleJob.phase \notin HoldsMutex
      BY DEF IdleJob, HoldsMutex
    <3> QED
      BY <3>1, <3>2 DEF TypeInv, TypeOK
  <2>2. CASE ~Crash(w)
    <3>1. job' = job /\ lock' = lock
      BY <2>2 DEF Deliver, Stop, Restart, workerVars
    <3> QED
      BY <3>1
  <2> QED
    BY <2>1, <2>2
<1>6. MutexOK'
  BY <1>5 DEF OneWorkerInv, MutexOK
<1>7. DecisionsOK'
  <2> SUFFICES ASSUME NEW v \in Workers, NEW h \in Permits
               PROVE  DecisionOK(job'[v][h], log, replay)
    BY <1>2 DEF DecisionsOK
  <2> QED
    BY <1>5, NoDecision DEF OneWorkerInv, DecisionsOK
<1> QED
  BY <1>3, <1>4, <1>6, <1>7 DEF OneWorkerInv, StreamInv

(* The services: the API starts an execution, the executor and the timer   *)
(* service answer or drop what they were asked for.                        *)
LEMMA ServiceStep ==
  ASSUME TypeInv, OneWorkerInv, UNCHANGED workerVars,
         NEW ev, WellFormed(ev), PublishError(ev), Admissible(ev, log, replay),
         ev.type # "task.requested",
         ev.type = "execution.started" => record'[ev.execution] # "none",
         \A e \in Executions : record[e] # "none" => record'[e] # "none",
         answered \subseteq answered',
         \A e \in Executions, n \in TaskNames : Answers(ev, e, n) =>
           /\ ~Answered(log, e, n)
           /\ \E h \in DOMAIN log : h \in answered' /\ Requests(log[h], e, n)
  PROVE  OneWorkerInv'
<1>1. StreamInv'
  BY StreamStep
<1>2. AnswersOK'
  BY AnswersStep DEF OneWorkerInv
<1>3. job' = job /\ lock' = lock
  BY DEF workerVars
<1>4. MutexOK'
  BY <1>3 DEF OneWorkerInv, MutexOK
<1>5. DecisionsOK'
  <2> SUFFICES ASSUME NEW v \in Workers, NEW h \in Permits
               PROVE  DecisionOK(job[v][h], log', replay')
    BY <1>3 DEF DecisionsOK
  <2>1. DecisionOK(job[v][h], log, replay)
    BY DEF OneWorkerInv, DecisionsOK
  <2> QED
    BY <2>1, DecisionStays
<1> QED
  BY <1>1, <1>2, <1>4, <1>5 DEF OneWorkerInv, StreamInv

LEMMA ExecuteWorkflowOne ==
  ASSUME TypeInv, OneWorkerInv, NEW e \in Executions, ExecuteWorkflow(e)
  PROVE  OneWorkerInv'
<1> DEFINE ev == NewEvent("execution.started", "api", e, NoTask, TRUE)
<1>1. /\ WellFormed(ev) /\ ev.type = "execution.started" /\ ev.execution = e
  BY DEF NewEvent, WellFormed, Event, EventTypes, Sources
<1>2. /\ PublishError(ev) /\ record' = [record EXCEPT ![e] = "pending"]
      /\ UNCHANGED workerVars /\ answered' = answered
  BY DEF ExecuteWorkflow, PublishError
<1> HIDE DEF ev
<1>3. Admissible(ev, log, replay) /\ \A x, n : ~Answers(ev, x, n)
  BY <1>1 DEF Admissible, KindOK, IsHandOut, Answers
<1>4. \A x \in Executions : record'[x] = IF x = e THEN "pending" ELSE record[x]
  BY <1>2 DEF TypeInv, TypeOK
<1> QED
  BY <1>1, <1>2, <1>3, <1>4, ServiceStep

(* A request that was not consumed yet has no answer: its task has no      *)
(* other request.                                                          *)
LEMMA AnsweredOnce ==
  ASSUME TypeInv, OneWorkerInv, NEW i \in Unanswered("task.requested")
  PROVE  ~Answered(log, log[i].execution, log[i].task)
<1> DEFINE e == log[i].execution
           n == log[i].task
<1>1. i \in DOMAIN log /\ i \notin answered /\ log[i].type = "task.requested"
  BY DEF Unanswered
<1>2. n \in TaskNames /\ e \in Executions /\ Requests(log[i], e, n)
  BY <1>1 DEF TypeInv, StreamOK, WellFormed, OneWorkerInv, StartedOK, Requests
<1> HIDE DEF e, n
<1>3. ASSUME NEW a \in DOMAIN log, Answers(log[a], e, n) PROVE FALSE
  <2>1. PICK h \in DOMAIN log : h \in answered /\ Requests(log[h], e, n)
    BY <1>2, <1>3 DEF OneWorkerInv, AnswersOK
  <2>2. h = i
    BY <1>1, <1>2, <2>1 DEF OneWorkerInv, SingleRequest, Requests
  <2> QED
    BY <1>1, <2>1, <2>2
<1> QED
  BY <1>3 DEF Answered, e, n

LEMMA AnswerOne ==
  ASSUME TypeInv, OneWorkerInv, NEW i \in DOMAIN log, Answer(i) \/ Drop(i)
  PROVE  OneWorkerInv'
<1> DEFINE e == log[i].execution
           n == log[i].task
<1>1. /\ i \in Unanswered("task.requested") \cup Unanswered("timer.scheduled")
      /\ record' = record /\ UNCHANGED workerVars
      /\ answered' = answered \cup {i}
  BY DEF Answer, Drop, ExecutorAnswers, TimerFires, ExecutorDrops, TimerDrops
<1>2. /\ WellFormed(log[i]) /\ KindOK(log[i])
      /\ n \in TaskNames /\ e \in Executions /\ replay[e].context = e
      /\ i \notin answered
  BY <1>1 DEF TypeInv, StreamOK, WellFormed, Unanswered, OneWorkerInv,
              StartedOK, KindsOK
<1>3. ASSUME NEW ev, WellFormed(ev), PublishError(ev), ev.execution = e,
             ev.type \in {"timer.fired", "task.dlq"}, KindOK(ev)
      PROVE  OneWorkerInv'
  <2>1. Admissible(ev, log, replay) /\ \A x, t : ~Answers(ev, x, t)
    BY <1>2, <1>3 DEF Admissible, IsHandOut, Answers
  <2> HIDE DEF e, n
  <2> QED
    BY <1>1, <1>3, <2>1, ServiceStep
<1>4. ASSUME NEW success \in BOOLEAN, ExecutorAnswers(i, success)
      PROVE  OneWorkerInv'
  <2> DEFINE ev == NewEvent("task.completed", "executor-service", e, n, success)
  <2>1. PublishError(ev) /\ log[i].type = "task.requested"
    BY <1>4 DEF ExecutorAnswers, PublishError, Unanswered
  <2>2. WellFormed(ev)
    BY <1>2, <1>4 DEF NewEvent, WellFormed, Event, EventTypes, Sources
  <2>3. /\ ev.type = "task.completed" /\ ev.source = "executor-service"
        /\ ev.execution = e /\ ev.task = n
    BY DEF NewEvent
  <2>4. Requests(log[i], e, n) /\ TaskKind[n] = "call"
    BY <1>2, <2>1 DEF Requests, KindOK
  <2>5. ~Answered(log, e, n)
    BY <1>4, AnsweredOnce DEF ExecutorAnswers
  <2> HIDE DEF ev, e, n
  <2>6. Admissible(ev, log, replay)
    BY <1>2, <2>3, <2>4 DEF Admissible, KindOK, IsHandOut
  <2>7. \A x \in Executions, t \in TaskNames : Answers(ev, x, t) =>
          /\ ~Answered(log, x, t)
          /\ \E h \in DOMAIN log : h \in answered' /\ Requests(log[h], x, t)
    BY <1>1, <2>3, <2>4, <2>5 DEF Answers
  <2> QED
    BY <1>1, <2>1, <2>2, <2>3, <2>6, <2>7, ServiceStep
<1>5. ASSUME TimerFires(i) PROVE OneWorkerInv'
  <2> DEFINE ev == NewEvent("timer.fired", "timer-service", e, n, TRUE)
  <2>1. PublishError(ev) /\ log[i].type = "timer.scheduled"
    BY <1>5 DEF TimerFires, PublishError, Unanswered
  <2>2. WellFormed(ev)
    BY <1>2 DEF NewEvent, WellFormed, Event, EventTypes, Sources
  <2>3. ev.type = "timer.fired" /\ ev.execution = e /\ KindOK(ev)
    BY <1>2, <2>1 DEF NewEvent, KindOK
  <2> HIDE DEF ev, e, n
  <2> QED
    BY <1>3, <2>1, <2>2, <2>3
<1>6. ASSUME ExecutorDrops(i) PROVE OneWorkerInv'
  <2> DEFINE ev == [log[i] EXCEPT !.type = "task.dlq"]
  <2>1. PublishError(ev)
    BY <1>6 DEF ExecutorDrops
  <2>2. WellFormed(ev) /\ ev.type = "task.dlq" /\ ev.execution = e
    BY <1>2 DEF WellFormed, Event, EventTypes
  <2> HIDE DEF ev, e, n
  <2>3. KindOK(ev)
    BY <2>2 DEF KindOK
  <2> QED
    BY <1>3, <2>1, <2>2, <2>3
<1>7. ASSUME TimerDrops(i) PROVE OneWorkerInv'
  <2>1. UNCHANGED streamVars
    BY <1>7 DEF TimerDrops
  <2>2. log' = log /\ replay' = replay
    BY <2>1 DEF streamVars
  <2>3. StreamInv'
    BY <1>1, <2>1, StreamInvKept DEF OneWorkerInv, StreamInv
  <2>4. AnswersOK' /\ MutexOK' /\ DecisionsOK'
    BY <1>1, <2>2 DEF OneWorkerInv, AnswersOK, MutexOK, DecisionsOK, workerVars
  <2> QED
    BY <2>3, <2>4 DEF OneWorkerInv, StreamInv
<1> QED
  BY <1>4, <1>5, <1>6, <1>7 DEF Answer, Drop

-----------------------------------------------------------------------------
LEMMA InitOne == Init => OneWorkerInv
<1> SUFFICES ASSUME Init PROVE OneWorkerInv
  OBVIOUS
<1>1. /\ DOMAIN log = {1} /\ log[1] = CreatedEvent
      /\ CreatedEvent.type = "workflow.created"
  BY DEF Init, CreatedEvent, NewEvent
<1>2. \A e \in Executions : replay[e].context # e
  BY ExecutionsAssumption DEF Init, EmptyState
<1>3. StartedOK /\ RequestsHeld /\ SingleRequest /\ FailureStops
  BY <1>1, <1>2 DEF StartedOK, RequestsHeld, SingleRequest, FailureStops, Fails, Is
<1>4. KindsOK /\ AnswersOK
  BY <1>1 DEF KindsOK, KindOK, AnswersOK, Answers
<1>5. MutexOK /\ DecisionsOK
  BY NoDecision DEF Init, IdleJob, HoldsMutex, MutexOK, DecisionsOK, DecisionOK
<1> QED
  BY <1>3, <1>4, <1>5 DEF OneWorkerInv

LEMMA StepOne ==
  ASSUME OneWorker, TypeInv, OrderInv, OneWorkerInv, [Next]_vars
  PROVE  OneWorkerInv'
<1>1. CASE \E e \in Executions : ExecuteWorkflow(e)
  BY <1>1, ExecuteWorkflowOne
<1>2. CASE \E w \in Workers : Deliver(w) \/ Crash(w) \/ Stop(w) \/ Restart(w)
  BY <1>2, ProcessOne
<1>3. CASE \E w \in Workers, g \in Permits :
             Goroutine(w, g) \/ GoroutineFails(w, g)
  BY <1>3, RestStep, DecideStep, PublishStepOne, RecordStepOne, DeadLetterOne
     DEF Goroutine, GoroutineFails
<1>4. CASE \E i \in DOMAIN log : Answer(i) \/ Drop(i)
  BY <1>4, AnswerOne
<1>5. CASE UNCHANGED vars
  <2>1. UNCHANGED streamVars /\ UNCHANGED <<record, answered, job, lock>>
    BY <1>5 DEF vars, streamVars
  <2>2. StreamInv'
    BY <2>1, StreamInvKept DEF OneWorkerInv, StreamInv
  <2>3. AnswersOK' /\ MutexOK' /\ DecisionsOK'
    BY <2>1 DEF OneWorkerInv, AnswersOK, MutexOK, DecisionsOK, streamVars
  <2> QED
    BY <2>2, <2>3 DEF OneWorkerInv, StreamInv
<1> QED
  BY <1>1, <1>2, <1>3, <1>4, <1>5 DEF Next

(* One process keeps what its mutex is for: requests are unique, remembered*)
(* and answered once, and decisions stay right until they are published.   *)
THEOREM OneWorkerInvariance ==
  ASSUME OneWorker
  PROVE  Spec => [](TypeInv /\ OrderInv /\ OneWorkerInv)
<1>1. Init => TypeInv /\ OrderInv /\ OneWorkerInv
  BY InitTyped, InitOrdered, InitOne
<1>2. TypeInv /\ OrderInv /\ OneWorkerInv /\ [Next]_vars =>
        (TypeInv /\ OrderInv /\ OneWorkerInv)'
  BY StepTyped, StepOrdered, StepOne
<1> QED
  BY <1>1, <1>2, PTL DEF Spec

(* One worker process never asks the executor twice for the same task of   *)
(* an execution, however often an attempt is repeated, whichever of its    *)
(* calls report a failure, and whether it crashes or is restarted.         *)
THEOREM SingleRequestHolds ==
  ASSUME OneWorker
  PROVE  Spec => []SingleRequest
<1>1. OneWorkerInv => SingleRequest
  BY DEF OneWorkerInv
<1> QED
  BY <1>1, OneWorkerInvariance, PTL

(* After a failed task the stream of its execution shows no further task   *)
(* handed out and no completion: a failed task is still pending in every   *)
(* later replay, and its turn never passes.                                *)
THEOREM FailureStopsHolds ==
  ASSUME OneWorker
  PROVE  Spec => []FailureStops
<1>1. OneWorkerInv => FailureStops
  BY DEF OneWorkerInv
<1> QED
  BY <1>1, OneWorkerInvariance, PTL

-----------------------------------------------------------------------------
(* The refinement.  Every event of the stream either leaves the position   *)
(* and the outcome of its execution alone or is one abstract step: the     *)
(* first success of the task whose turn it is advances, its failure fails, *)
(* workflow.completed completes.                                           *)

Position(e) == Len(replay[e].completed)

LEMMA OutcomeFacts ==
  ASSUME NEW e
  PROVE  /\ Completed(e) <=> CompletedIn(log, e)
         /\ Failed(e) <=> FailedIn(log, e)
         /\ StreamOutcome(e) =
              IF CompletedIn(log, e) THEN "completed"
              ELSE IF FailedIn(log, e) THEN "failed"
              ELSE IF StartedIn(log, e) THEN "running" ELSE "none"
BY DEF StreamOutcome, Completed, Failed, Fails, Is, CompletedIn, FailedIn,
       StartedIn

(* Steps that change neither position nor outcome.                         *)
LEMMA Stutters ==
  ASSUME \A e \in Executions : /\ Position(e)' = Position(e)
                               /\ StreamOutcome(e)' = StreamOutcome(e)
  PROVE  [Abstract!Next]_(Abstract!vars)
<1>1. [e \in Executions |-> Len(replay[e].completed)]' =
        [e \in Executions |-> Len(replay[e].completed)]
  BY DEF Position
<1>2. [e \in Executions |-> StreamOutcome(e)]' =
        [e \in Executions |-> StreamOutcome(e)]
  OBVIOUS
<1> QED
  BY <1>1, <1>2 DEF Abstract!vars

(* Steps of one execution.                                                 *)
LEMMA AbstractStep ==
  ASSUME NEW x \in Executions,
         \A e \in Executions : e # x => /\ Position(e)' = Position(e)
                                      /\ StreamOutcome(e)' = StreamOutcome(e),
         \/ /\ Position(x)' = Position(x)
            /\ StreamOutcome(x)' = StreamOutcome(x)
         \/ /\ StreamOutcome(x) = "none" /\ StreamOutcome(x)' = "running"
            /\ Position(x)' = Position(x)
         \/ /\ StreamOutcome(x) = "running" /\ StreamOutcome(x)' = "running"
            /\ Position(x) < Len(TaskList) /\ Position(x)' = Position(x) + 1
         \/ /\ StreamOutcome(x) = "running" /\ StreamOutcome(x)' = "failed"
            /\ Position(x) < Len(TaskList) /\ Position(x)' = Position(x)
         \/ /\ StreamOutcome(x) = "running" /\ StreamOutcome(x)' = "completed"
            /\ Position(x) = Len(TaskList) /\ Position(x)' = Position(x)
  PROVE  [Abstract!Next]_(Abstract!vars)
<1> DEFINE pos == [e \in Executions |-> Len(replay[e].completed)]
           out == [e \in Executions |-> StreamOutcome(e)]
<1>1. /\ \A e \in Executions : pos[e] = Position(e) /\ out[e] = StreamOutcome(e)
      /\ \A e \in Executions : pos'[e] = Position(e)' /\ out'[e] = StreamOutcome(e)'
      /\ pos = [e \in Executions |-> pos[e]] /\ out = [e \in Executions |-> out[e]]
      /\ pos' = [e \in Executions |-> pos'[e]]
      /\ out' = [e \in Executions |-> out'[e]]
  BY DEF Position
<1>2. /\ pos' = [pos EXCEPT ![x] = Position(x)']
      /\ out' = [out EXCEPT ![x] = StreamOutcome(x)']
  <2> HIDE DEF pos, out
  <2> QED
    BY <1>1
<1>3. CASE Position(x)' = Position(x) /\ StreamOutcome(x)' = StreamOutcome(x)
  BY <1>3, Stutters
<1>4. CASE /\ StreamOutcome(x) = "none" /\ StreamOutcome(x)' = "running"
           /\ Position(x)' = Position(x)
  <2>1. pos' = pos /\ out' = [out EXCEPT ![x] = "running"] /\ out[x] = "none"
    BY <1>1, <1>2, <1>4
  <2>2. Abstract!Start(x)
    BY <2>1 DEF Abstract!Start
  <2> QED
    BY <2>2 DEF Abstract!Next
<1>5. CASE /\ StreamOutcome(x) = "running" /\ StreamOutcome(x)' = "running"
           /\ Position(x) < Len(TaskList) /\ Position(x)' = Position(x) + 1
  <2>1. /\ pos' = [pos EXCEPT ![x] = pos[x] + 1] /\ out' = out
        /\ out[x] = "running" /\ pos[x] < Len(TaskList)
    BY <1>1, <1>2, <1>5
  <2>2. Abstract!Advance(x)
    BY <2>1 DEF Abstract!Advance
  <2> QED
    BY <2>2 DEF Abstract!Next
<1>6. CASE /\ StreamOutcome(x) = "running" /\ StreamOutcome(x)' = "failed"
           /\ Position(x) < Len(TaskList) /\ Position(x)' = Position(x)
  <2>1. /\ pos' = pos /\ out' = [out EXCEPT ![x] = "failed"]
        /\ out[x] = "running" /\ pos[x] < Len(TaskList)
    BY <1>1, <1>2, <1>6
  <2>2. Abstract!Fail(x)
    BY <2>1 DEF Abstract!Fail
  <2> QED
    BY <2>2 DEF Abstract!Next
<1>7. CASE /\ StreamOutcome(x) = "running" /\ StreamOutcome(x)' = "completed"
           /\ Position(x) = Len(TaskList) /\ Position(x)' = Position(x)
  <2>1. /\ pos' = pos /\ out' = [out EXCEPT ![x] = "completed"]
        /\ out[x] = "running" /\ pos[x] = Len(TaskList)
    BY <1>1, <1>2, <1>7
  <2>2. Abstract!Complete(x)
    BY <2>1 DEF Abstract!Complete
  <2> QED
    BY <2>2 DEF Abstract!Next
<1> QED
  BY <1>3, <1>4, <1>5, <1>6, <1>7

(* Only one task has its turn: it is in order and has not succeeded.       *)
LEMMA SameTurn ==
  ASSUME NEW s, NEW e, NEW m, NEW n, InOrder(s, e, m), InOrder(s, e, n),
         ~Achieved(s, e, m), ~Achieved(s, e, n)
  PROVE  m = n
<1>1. PICK j \in DOMAIN TaskList :
        TaskList[j] = m /\ \A i \in 1 .. j - 1 : Achieved(s, e, TaskList[i])
  BY DEF InOrder
<1>2. PICK k \in DOMAIN TaskList :
        TaskList[k] = n /\ \A i \in 1 .. k - 1 : Achieved(s, e, TaskList[i])
  BY DEF InOrder
<1>3. j \in Nat /\ j >= 1 /\ k \in Nat /\ k >= 1
  BY TaskListFacts
<1>4. j \notin 1 .. k - 1 /\ k \notin 1 .. j - 1
  BY <1>1, <1>2
<1>5. j = k
  BY <1>3, <1>4
<1> QED
  BY <1>1, <1>2, <1>5

(* While a task has its turn the position is inside the list; when all     *)
(* have succeeded it is at its end.                                        *)
LEMMA PositionFacts ==
  ASSUME TypeInv, OrderInv, NEW e \in Executions
  PROVE  /\ Position(e) \in Nat
         /\ \A n \in TaskNames : InOrder(log, e, n) /\ ~Achieved(log, e, n) =>
              Position(e) < Len(TaskList)
         /\ AllAchieved(log, e) => Position(e) = Len(TaskList)
<1> DEFINE c == replay[e].completed
<1>1. c \in Seq(TaskNames) /\ DOMAIN c = 1 .. Len(c) /\ Len(c) \in Nat
  BY DEF TypeInv, TypeOK, EngineState
<1>2. /\ IsListPrefix(c)
      /\ \A n \in TaskNames : (\E i \in DOMAIN c : c[i] = n) <=> Achieved(log, e, n)
  BY DEF OrderInv, ReplayOK, Done
<1> HIDE DEF c
<1>3. ASSUME NEW n \in TaskNames, InOrder(log, e, n), ~Achieved(log, e, n)
      PROVE  Len(c) < Len(TaskList)
  <2>1. PICK k \in DOMAIN TaskList :
          TaskList[k] = n /\ \A m \in 1 .. k - 1 : Achieved(log, e, TaskList[m])
    BY <1>3 DEF InOrder
  <2>2. \A m \in 1 .. k - 1 : m \in DOMAIN TaskList
    BY TaskListFacts
  <2>3. \A m \in 1 .. k - 1 : \E i \in DOMAIN c : c[i] = TaskList[m]
    BY <1>2, <2>1, <2>2, TaskListFacts
  <2>4. ~ \E i \in DOMAIN c : c[i] = TaskList[k]
    BY <1>2, <1>3, <2>1
  <2>5. Len(c) = k - 1
    BY <1>1, <1>2, <2>3, <2>4, PrefixLength
  <2> QED
    BY <2>1, <2>5, TaskListFacts
<1>4. ASSUME AllAchieved(log, e) PROVE Len(c) = Len(TaskList)
  <2>1. Len(TaskList) \in Nat /\ Len(TaskList) \in DOMAIN TaskList
    BY TaskListAssumption
  <2>2. PICK i \in DOMAIN c : c[i] = TaskList[Len(TaskList)]
    BY <1>2, <1>4, <2>1, TaskListFacts DEF AllAchieved
  <2>3. i = Len(TaskList)
    BY <1>2, <2>1, <2>2, TaskListFacts DEF IsListPrefix
  <2>4. Len(c) <= Len(TaskList)
    <3>1. CASE Len(c) = 0
      BY <2>1, <3>1
    <3>2. CASE Len(c) # 0
      <4>1. Len(c) \in DOMAIN c
        BY <1>1, <3>2
      <4>2. Len(c) \in DOMAIN TaskList
        BY <1>2, <4>1 DEF IsListPrefix
      <4> QED
        BY <4>2, TaskListFacts
    <3> QED
      BY <3>1, <3>2
  <2> QED
    BY <1>1, <2>1, <2>2, <2>3, <2>4
<1> QED
  BY <1>1, <1>3, <1>4 DEF Position, c

(* The turn of a failed task has come and does not pass.                   *)
LEMMA FailedTurn ==
  ASSUME TypeInv, OrderInv, OneWorkerInv, NEW i \in DOMAIN log,
         log[i].type = "task.completed", ~log[i].success
  PROVE  InOrder(log, log[i].execution, log[i].task)
<1> DEFINE e == log[i].execution
           n == log[i].task
<1>1. e \in Executions /\ Requested(log, e, n)
  BY FailedTask
<1> HIDE DEF e, n
<1>2. PICK h \in DOMAIN log : Requests(log[h], e, n)
  BY <1>1 DEF Requested
<1>3. InOrder(SubSeq(log, 1, h - 1), e, n)
  BY <1>1, <1>2, ExecutionsAssumption
     DEF OrderInv, EntriesOK, Justified, Requests, IsHandOut
<1>4. Continues(SubSeq(log, 1, h - 1), log)
  BY DEF TypeInv, TypeOK, Continues
<1>5. InOrder(log, e, n)
  BY <1>3, <1>4, AchievedStays
<1> QED
  BY <1>5 DEF e, n

(* What an event must be for the abstract step it stands for.              *)
Mapped(ev, x) ==
  /\ ev.execution = x
  /\ ev.type = "execution.started" => ~StartedIn(log, x)
  /\ ev.type # "execution.started" => StartedIn(log, x)
  /\ ev.type \in {"task.completed", "timer.fired"} => InOrder(log, x, ev.task)
  /\ ev.type = "timer.fired" => ev.success
  /\ IsReport(ev) => Achieved(log, x, ev.task) \/ ~FailedIn(log, x)
  /\ ev.type = "task.completed" /\ ~ev.success => ~Achieved(log, x, ev.task)
  /\ ev.type = "workflow.completed" => AllAchieved(log, x) /\ ~FailedIn(log, x)

(* Nothing of an execution is in the stream before execution.started, and  *)
(* workflow.completed only after all successes.                            *)
LEMMA EntriesFacts ==
  ASSUME TypeInv, OrderInv, OneWorkerInv, NEW e \in Executions
  PROVE  /\ CompletedIn(log, e) => StartedIn(log, e) /\ AllAchieved(log, e)
         /\ FailedIn(log, e) => StartedIn(log, e)
<1>1. ASSUME NEW i \in DOMAIN log, log[i].execution = e,
             log[i].type # "workflow.created"
      PROVE  StartedIn(log, e)
  BY <1>1 DEF OneWorkerInv, StartedOK
<1>2. ASSUME NEW i \in DOMAIN log, log[i].execution = e,
             log[i].type = "workflow.completed"
      PROVE  AllAchieved(log, e)
  <2>1. AllAchieved(SubSeq(log, 1, i - 1), e)
    BY <1>2, ExecutionsAssumption DEF OrderInv, EntriesOK, Justified
  <2>2. Continues(SubSeq(log, 1, i - 1), log)
    BY DEF TypeInv, TypeOK, Continues
  <2> QED
    BY <2>1, <2>2, AchievedStays
<1> QED
  BY <1>1, <1>2 DEF CompletedIn, FailedIn

(* Event ev completes execution e, fails it, starts it.                    *)
Completes(ev, e) == ev.execution = e /\ ev.type = "workflow.completed"
FailsTask(ev, e) ==
  ev.execution = e /\ ev.type = "task.completed" /\ ~ev.success
Starts(ev, e) == ev.execution = e /\ ev.type = "execution.started"

LEMMA StreamFlags ==
  ASSUME TypeInv, NEW ev, WellFormed(ev), Publish(ev), NEW e
  PROVE  /\ CompletedIn(log', e) <=> (CompletedIn(log, e) \/ Completes(ev, e))
         /\ FailedIn(log', e) <=> (FailedIn(log, e) \/ FailsTask(ev, e))
         /\ StartedIn(log', e) <=> (StartedIn(log, e) \/ Starts(ev, e))
<1>1. /\ Len(log') \in DOMAIN log' /\ log'[Len(log')] = ev
      /\ \A i \in DOMAIN log : i \in DOMAIN log' /\ log'[i] = log[i]
      /\ \A i \in DOMAIN log' : i \in DOMAIN log \/ i = Len(log')
  BY PublishFacts
<1>2. CompletedIn(log', e) <=> (CompletedIn(log, e) \/ Completes(ev, e))
  BY <1>1 DEF CompletedIn, Completes
<1>3. FailedIn(log', e) <=> (FailedIn(log, e) \/ FailsTask(ev, e))
  BY <1>1 DEF FailedIn, FailsTask
<1>4. StartedIn(log', e) <=> (StartedIn(log, e) \/ Starts(ev, e))
  BY <1>1 DEF StartedIn, Starts
<1> QED
  BY <1>2, <1>3, <1>4

(* What the event makes of the outcome of execution e.                     *)
LEMMA OutcomeStep ==
  ASSUME TypeInv, NEW ev, WellFormed(ev), Publish(ev), NEW e
  PROVE  StreamOutcome(e)' =
           IF CompletedIn(log, e) \/ Completes(ev, e) THEN "completed"
           ELSE IF FailedIn(log, e) \/ FailsTask(ev, e) THEN "failed"
           ELSE IF StartedIn(log, e) \/ Starts(ev, e) THEN "running" ELSE "none"
<1>1. StreamOutcome(e)' =
        IF CompletedIn(log', e) THEN "completed"
        ELSE IF FailedIn(log', e) THEN "failed"
        ELSE IF StartedIn(log', e) THEN "running" ELSE "none"
  BY DEF StreamOutcome, Completed, Failed, Fails, Is, CompletedIn, FailedIn,
         StartedIn
<1> QED
  BY <1>1, StreamFlags

LEMMA PublishMaps ==
  ASSUME TypeInv, OrderInv, OneWorkerInv, NEW x \in Executions,
         NEW ev, WellFormed(ev), Mapped(ev, x), Publish(ev)
  PROVE  [Abstract!Next]_(Abstract!vars)
<1> DEFINE st == replay[x]
<1>1. /\ ev.execution = x /\ st \in EngineState
      /\ \A e \in Executions :
           replay'[e] = IF e = x THEN ProcessEvent(st, ev) ELSE replay[e]
  BY PublishFacts DEF Mapped
<1>2. /\ Completes(ev, x) <=> ev.type = "workflow.completed"
      /\ FailsTask(ev, x) <=> (ev.type = "task.completed" /\ ~ev.success)
      /\ Starts(ev, x) <=> ev.type = "execution.started"
  BY <1>1 DEF Completes, FailsTask, Starts
<1>3. ASSUME NEW e \in Executions, e # x
      PROVE  Position(e)' = Position(e) /\ StreamOutcome(e)' = StreamOutcome(e)
  <2>1. ~Completes(ev, e) /\ ~FailsTask(ev, e) /\ ~Starts(ev, e)
    BY <1>1, <1>3 DEF Completes, FailsTask, Starts
  <2>2. StreamOutcome(e)' = StreamOutcome(e)
    BY <2>1, OutcomeStep, OutcomeFacts
  <2>3. Position(e)' = Position(e)
    BY <1>1, <1>3 DEF Position
  <2> QED
    BY <2>2, <2>3
<1>4. Position(x)' = IF IsReport(ev) /\ ~Done(st, ev.task) THEN Position(x) + 1
                                                          ELSE Position(x)
  <2>1. st.completed \in Seq(TaskNames)
    BY <1>1 DEF EngineState
  <2>2. Position(x)' = Len(ProcessEvent(st, ev).completed)
    BY <1>1 DEF Position
  <2>3. ProcessEvent(st, ev).completed =
          IF IsReport(ev) /\ ~Done(st, ev.task) THEN Append(st.completed, ev.task)
                                               ELSE st.completed
    BY <1>1, CompletedStep
  <2>4. Len(Append(st.completed, ev.task)) = Len(st.completed) + 1
    BY <2>1
  <2> QED
    BY <2>2, <2>3, <2>4 DEF Position
<1>5. IsReport(ev) =>
        /\ ev.task \in TaskNames
        /\ Done(st, ev.task) <=> Achieved(log, x, ev.task)
  BY DEF IsReport, WellFormed, OrderInv, ReplayOK
<1> HIDE DEF st
<1>6. /\ CompletedIn(log, x) => StartedIn(log, x) /\ AllAchieved(log, x)
      /\ FailedIn(log, x) => StartedIn(log, x)
  BY EntriesFacts
<1>7. CASE ev.type = "execution.started"
  <2>1. /\ Position(x)' = Position(x) /\ StreamOutcome(x) = "none"
        /\ StreamOutcome(x)' = "running"
    BY <1>1, <1>2, <1>4, <1>6, <1>7, OutcomeStep, OutcomeFacts DEF Mapped, IsReport
  <2> QED
    BY <1>3, <2>1, AbstractStep
<1>8. CASE IsReport(ev)
  <2>1. StreamOutcome(x)' = StreamOutcome(x)
    BY <1>2, <1>8, OutcomeStep, OutcomeFacts DEF IsReport
  <2>2. CASE Achieved(log, x, ev.task)
    <3>1. Position(x)' = Position(x)
      BY <1>4, <1>5, <1>8, <2>2
    <3> QED
      BY <1>3, <2>1, <3>1, AbstractStep
  <2>3. CASE ~Achieved(log, x, ev.task)
    <3>1. Position(x)' = Position(x) + 1
      <4>1. ~Done(st, ev.task)
        BY <1>5, <1>8, <2>3
      <4> QED
        BY <1>4, <1>8, <4>1
    <3>2. InOrder(log, x, ev.task) /\ ~FailedIn(log, x) /\ StartedIn(log, x)
      BY <1>8, <2>3 DEF Mapped, IsReport
    <3>3. Position(x) < Len(TaskList)
      BY <1>5, <1>8, <2>3, <3>2, PositionFacts
    <3>4. ~CompletedIn(log, x)
      BY <1>6, <2>3, <3>2 DEF InOrder, AllAchieved
    <3>5. StreamOutcome(x) = "running"
      BY <3>2, <3>4, OutcomeFacts
    <3> QED
      BY <1>3, <2>1, <3>1, <3>3, <3>5, AbstractStep
  <2> QED
    BY <2>2, <2>3
<1>9. CASE ev.type = "task.completed" /\ ~ev.success
  <2>1. Position(x)' = Position(x)
    BY <1>4, <1>9 DEF IsReport
  <2>2. /\ InOrder(log, x, ev.task) /\ ~Achieved(log, x, ev.task)
        /\ StartedIn(log, x) /\ ev.task \in TaskNames
    BY <1>9 DEF Mapped, WellFormed
  <2>3. Position(x) < Len(TaskList)
    BY <2>2, PositionFacts
  <2>4. CASE CompletedIn(log, x) \/ FailedIn(log, x)
    <3>1. StreamOutcome(x)' = StreamOutcome(x)
      BY <1>1, <1>2, <1>9, <2>4, OutcomeStep, OutcomeFacts
    <3> QED
      BY <1>3, <2>1, <3>1, AbstractStep
  <2>5. CASE ~CompletedIn(log, x) /\ ~FailedIn(log, x)
    <3>1. StreamOutcome(x) = "running" /\ StreamOutcome(x)' = "failed"
      BY <1>1, <1>2, <1>9, <2>2, <2>5, OutcomeStep, OutcomeFacts
    <3> QED
      BY <1>3, <2>1, <2>3, <3>1, AbstractStep
  <2> QED
    BY <2>4, <2>5
<1>10. CASE ev.type = "workflow.completed"
  <2>1. Position(x)' = Position(x)
    BY <1>4, <1>10 DEF IsReport
  <2>2. AllAchieved(log, x) /\ ~FailedIn(log, x) /\ StartedIn(log, x)
    BY <1>10 DEF Mapped
  <2>3. Position(x) = Len(TaskList)
    BY <2>2, PositionFacts
  <2>4. StreamOutcome(x)' = "completed" /\ StreamOutcome(x) \in {"running", "completed"}
    BY <1>1, <1>2, <1>10, <2>2, OutcomeStep, OutcomeFacts
  <2> QED
    BY <1>3, <2>1, <2>3, <2>4, AbstractStep
<1>11. CASE /\ ev.type \notin {"execution.started", "workflow.completed"}
            /\ ~IsReport(ev) /\ ~(ev.type = "task.completed" /\ ~ev.success)
  <2>1. Position(x)' = Position(x) /\ StreamOutcome(x)' = StreamOutcome(x)
    BY <1>1, <1>2, <1>4, <1>11, OutcomeStep, OutcomeFacts
  <2> QED
    BY <1>3, <2>1, AbstractStep
<1> QED
  BY <1>7, <1>8, <1>9, <1>10, <1>11

LEMMA StreamKeptMaps ==
  ASSUME UNCHANGED streamVars
  PROVE  [Abstract!Next]_(Abstract!vars)
<1>1. log' = log /\ replay' = replay
  BY DEF streamVars
<1>2. \A e \in Executions : /\ Position(e)' = Position(e)
                            /\ StreamOutcome(e)' = StreamOutcome(e)
  BY <1>1 DEF Position, StreamOutcome, Completed, Failed, Fails, Is
<1> QED
  BY <1>2, Stutters

LEMMA PublishErrorMaps ==
  ASSUME TypeInv, OrderInv, OneWorkerInv, NEW x \in Executions,
         NEW ev, WellFormed(ev), Mapped(ev, x), PublishError(ev)
  PROVE  [Abstract!Next]_(Abstract!vars)
BY PublishMaps, StreamKeptMaps DEF PublishError

(* A task whose turn it is, in an execution that has failed, is the failed *)
(* one: a call the executor has answered.                                  *)
LEMMA FailedIsTurn ==
  ASSUME TypeInv, OrderInv, OneWorkerInv, NEW e, NEW n, InOrder(log, e, n),
         ~Achieved(log, e, n), FailedIn(log, e)
  PROVE  TaskKind[n] = "call" /\ Answered(log, e, n)
<1>1. PICK i \in DOMAIN log :
        log[i].execution = e /\ log[i].type = "task.completed" /\ ~log[i].success
  BY DEF FailedIn
<1>2. /\ Answers(log[i], e, log[i].task) /\ TaskKind[log[i].task] = "call"
      /\ ~Achieved(log, e, log[i].task)
  BY <1>1, FailedTask
<1>3. InOrder(log, e, log[i].task)
  BY <1>1, FailedTurn
<1>4. log[i].task = n
  BY <1>2, <1>3, SameTurn
<1> QED
  BY <1>2, <1>4 DEF Answered

(* What was handed out still has its turn, or has succeeded.               *)
LEMMA HandOutTurn ==
  ASSUME TypeInv, OrderInv, OneWorkerInv, NEW i \in DOMAIN log,
         log[i].type \in {"task.requested", "timer.scheduled"}
  PROVE  /\ log[i].execution \in Executions /\ StartedIn(log, log[i].execution)
         /\ log[i].task \in TaskNames
         /\ InOrder(log, log[i].execution, log[i].task)
<1> DEFINE e == log[i].execution
           n == log[i].task
<1>1. e \in Executions /\ n \in TaskNames /\ StartedIn(log, e)
  BY DEF TypeInv, StreamOK, WellFormed, OneWorkerInv, StartedOK
<1>2. InOrder(SubSeq(log, 1, i - 1), e, n)
  BY <1>1, ExecutionsAssumption DEF OrderInv, EntriesOK, Justified, IsHandOut
<1>3. Continues(SubSeq(log, 1, i - 1), log)
  BY DEF TypeInv, TypeOK, Continues
<1>4. InOrder(log, e, n)
  BY <1>2, <1>3, AchievedStays
<1> QED
  BY <1>1, <1>4

LEMMA ExecuteWorkflowMaps ==
  ASSUME TypeInv, OrderInv, OneWorkerInv, NEW e \in Executions,
         ExecuteWorkflow(e)
  PROVE  [Abstract!Next]_(Abstract!vars)
<1> DEFINE ev == NewEvent("execution.started", "api", e, NoTask, TRUE)
<1>1. PublishError(ev) /\ record[e] = "none"
  BY DEF ExecuteWorkflow, PublishError
<1>2. /\ WellFormed(ev) /\ ev.type = "execution.started" /\ ev.execution = e
  BY DEF NewEvent, WellFormed, Event, EventTypes, Sources
<1>3. ~StartedIn(log, e)
  BY <1>1 DEF OneWorkerInv, StartedOK, StartedIn
<1> HIDE DEF ev
<1>4. Mapped(ev, e)
  BY <1>2, <1>3 DEF Mapped, IsReport
<1> QED
  BY <1>1, <1>2, <1>4, PublishErrorMaps

LEMMA PublishStepMaps ==
  ASSUME TypeInv, OrderInv, OneWorkerInv, NEW w \in Workers, NEW g \in Permits,
         PublishStep(w, g) \/ PublishStepFails(w, g)
  PROVE  [Abstract!Next]_(Abstract!vars)
<1> DEFINE ev == JobEvent(w, g)
           j  == job[w][g]
           e  == j.state.context
<1>1. j.phase = "publishing" /\ PublishError(ev)
  BY DEF PublishStep, PublishStepFails, PublishFails, PublishError
<1>2. /\ WellFormed(ev) /\ Admissible(ev, log, replay)
      /\ ev.type # "execution.started"
  BY <1>1, PublisherAdmissible
<1>3. ~FailedIn(log, e)
  BY <1>1, PublisherUnfailed
<1>4. ev.execution = e /\ e \in Executions /\ e # NoExecution
  BY <1>1, <1>2, ExecutionsAssumption
     DEF JobEvent, StepEvent, NewEvent, Admissible
<1>5. StartedIn(log, e)
  BY <1>2, <1>4 DEF Admissible, OneWorkerInv, StartedOK
<1>6. IF j.step.action = "complete" THEN AllAchieved(log, e)
                                    ELSE InOrder(log, e, j.step.task)
  BY <1>1, <1>4 DEF OrderInv, StepsOK, StepOK
<1>7. JobOK(j, log)
  BY <1>1, JobFacts
<1>8. CASE j.step.action = "complete"
  <2>1. ev.type = "workflow.completed"
    BY <1>8 DEF JobEvent, StepEvent, NewEvent
  <2> HIDE DEF ev, e
  <2>2. Mapped(ev, e)
    BY <1>3, <1>4, <1>5, <1>6, <1>8, <2>1 DEF Mapped, IsReport
  <2> QED
    BY <1>1, <1>2, <1>4, <2>2, PublishErrorMaps
<1>9. CASE j.step.action \in {"run", "schedule", "request"}
  <2>1. /\ ev.type \in {"task.completed", "timer.scheduled", "task.requested"}
        /\ ev.success /\ ev.task = j.step.task
    BY <1>9 DEF JobEvent, StepEvent, NewEvent
  <2>2. InOrder(log, e, ev.task)
    BY <1>6, <1>9, <2>1
  <2> HIDE DEF ev, e
  <2>3. Mapped(ev, e)
    BY <1>3, <1>4, <1>5, <2>1, <2>2 DEF Mapped
  <2> QED
    BY <1>1, <1>2, <1>4, <2>3, PublishErrorMaps
<1> QED
  BY <1>1, <1>7, <1>8, <1>9 DEF JobOK

LEMMA DeadLetterMaps ==
  ASSUME TypeInv, OrderInv, OneWorkerInv, NEW w \in Workers, NEW g \in Permits,
         DeadLetter(w, g)
  PROVE  [Abstract!Next]_(Abstract!vars)
<1> DEFINE ev == [log[job[w][g].entry] EXCEPT !.type = "event.dlq"]
<1>1. job[w][g].phase = "dlq" /\ PublishError(ev)
  BY DEF DeadLetter, PublishFails, PublishError
<1>2. /\ job[w][g].entry \in DOMAIN log
      /\ WellFormed(log[job[w][g].entry])
      /\ log[job[w][g].entry].type # "workflow.created"
  BY <1>1, JobFacts
<1>3. /\ WellFormed(ev) /\ ev.type = "event.dlq"
      /\ ev.execution = log[job[w][g].entry].execution
  BY <1>2 DEF WellFormed, Event, EventTypes
<1>4. ev.execution \in Executions /\ StartedIn(log, ev.execution)
  BY <1>2, <1>3 DEF OneWorkerInv, StartedOK
<1> HIDE DEF ev
<1>5. Mapped(ev, ev.execution)
  BY <1>3, <1>4 DEF Mapped, IsReport
<1> QED
  BY <1>1, <1>3, <1>4, <1>5, PublishErrorMaps

LEMMA AnswerMaps ==
  ASSUME TypeInv, OrderInv, OneWorkerInv, NEW i \in DOMAIN log,
         Answer(i) \/ Drop(i)
  PROVE  [Abstract!Next]_(Abstract!vars)
<1> DEFINE e == log[i].execution
           n == log[i].task
<1>1. log[i].type \in {"task.requested", "timer.scheduled"}
  BY DEF Answer, Drop, ExecutorAnswers, TimerFires, ExecutorDrops, TimerDrops,
         Unanswered
<1>2. /\ e \in Executions /\ StartedIn(log, e) /\ n \in TaskNames
      /\ InOrder(log, e, n)
  BY <1>1, HandOutTurn
<1>3. WellFormed(log[i]) /\ KindOK(log[i])
  BY DEF TypeInv, StreamOK, OneWorkerInv, KindsOK
<1>4. ASSUME NEW success \in BOOLEAN, ExecutorAnswers(i, success)
      PROVE  [Abstract!Next]_(Abstract!vars)
  <2> DEFINE ev == NewEvent("task.completed", "executor-service", e, n, success)
  <2>1. PublishError(ev) /\ log[i].type = "task.requested"
    BY <1>4 DEF ExecutorAnswers, PublishError, Unanswered
  <2>2. WellFormed(ev)
    BY <1>2, <1>3, <1>4 DEF NewEvent, WellFormed, Event, EventTypes, Sources
  <2>3. /\ ev.type = "task.completed" /\ ev.execution = e /\ ev.task = n
    BY DEF NewEvent
  <2>4. ~Answered(log, e, n) /\ TaskKind[n] = "call"
    BY <1>3, <1>4, <2>1, AnsweredOnce DEF ExecutorAnswers, KindOK
  <2> HIDE DEF ev, e, n
  <2>5. ASSUME NEW h \in DOMAIN log, Reports(log[h], e, n) PROVE FALSE
    <3>1. KindOK(log[h])
      BY DEF OneWorkerInv, KindsOK
    <3>2. Answers(log[h], e, n)
      BY <2>4, <2>5, <3>1 DEF KindOK, Reports, Answers
    <3> QED
      BY <2>4, <3>2 DEF Answered
  <2>6. ~Achieved(log, e, n) /\ ~FailedIn(log, e)
    BY <1>2, <2>4, <2>5, FailedIsTurn DEF Achieved
  <2>7. Mapped(ev, e)
    BY <1>2, <2>3, <2>6 DEF Mapped
  <2> QED
    BY <1>2, <2>1, <2>2, <2>7, PublishErrorMaps
<1>5. ASSUME TimerFires(i) PROVE [Abstract!Next]_(Abstract!vars)
  <2> DEFINE ev == NewEvent("timer.fired", "timer-service", e, n, TRUE)
  <2>1. PublishError(ev) /\ log[i].type = "timer.scheduled"
    BY <1>5 DEF TimerFires, PublishError, Unanswered
  <2>2. WellFormed(ev)
    BY <1>2, <1>3 DEF NewEvent, WellFormed, Event, EventTypes, Sources
  <2>3. ev.type = "timer.fired" /\ ev.execution = e /\ ev.task = n /\ ev.success
    BY DEF NewEvent
  <2>4. TaskKind[n] # "call"
    BY <1>3, <2>1 DEF KindOK
  <2> HIDE DEF ev, e, n
  <2>5. Achieved(log, e, n) \/ ~FailedIn(log, e)
    BY <1>2, <2>4, FailedIsTurn
  <2>6. Mapped(ev, e)
    BY <1>2, <2>3, <2>5 DEF Mapped
  <2> QED
    BY <1>2, <2>1, <2>2, <2>6, PublishErrorMaps
<1>6. ASSUME ExecutorDrops(i) PROVE [Abstract!Next]_(Abstract!vars)
  <2> DEFINE ev == [log[i] EXCEPT !.type = "task.dlq"]
  <2>1. PublishError(ev)
    BY <1>6 DEF ExecutorDrops
  <2>2. WellFormed(ev) /\ ev.type = "task.dlq" /\ ev.execution = e
    BY <1>3 DEF WellFormed, Event, EventTypes
  <2> HIDE DEF ev, e, n
  <2>3. Mapped(ev, e)
    BY <1>2, <2>2 DEF Mapped, IsReport
  <2> QED
    BY <1>2, <2>1, <2>2, <2>3, PublishErrorMaps
<1>7. ASSUME TimerDrops(i) PROVE [Abstract!Next]_(Abstract!vars)
  BY <1>7, StreamKeptMaps DEF TimerDrops
<1> QED
  BY <1>4, <1>5, <1>6, <1>7 DEF Answer, Drop

LEMMA InitMaps == Init => Abstract!Init
<1> SUFFICES ASSUME Init PROVE Abstract!Init
  OBVIOUS
<1>1. /\ DOMAIN log = {1} /\ log[1].type = "workflow.created"
      /\ \A e \in Executions : replay[e].completed = <<>>
  BY DEF Init, CreatedEvent, NewEvent, EmptyState
<1>2. \A e \in Executions : Len(replay[e].completed) = 0
  <2>1. Len(<<>>) = 0
    OBVIOUS
  <2> QED
    BY <1>1, <2>1
<1>3. \A e \in Executions : StreamOutcome(e) = "none"
  BY <1>1, OutcomeFacts DEF CompletedIn, FailedIn, StartedIn
<1> QED
  BY <1>2, <1>3 DEF Abstract!Init

LEMMA StepMaps ==
  ASSUME TypeInv, OrderInv, OneWorkerInv, [Next]_vars
  PROVE  [Abstract!Next]_(Abstract!vars)
<1>1. CASE \E e \in Executions : ExecuteWorkflow(e)
  BY <1>1, ExecuteWorkflowMaps
<1>2. CASE \E w \in Workers : Deliver(w) \/ Crash(w) \/ Stop(w) \/ Restart(w)
  BY <1>2, StreamKeptMaps DEF Deliver, Crash, Stop, Restart
<1>3. ASSUME NEW w \in Workers, NEW g \in Permits,
             Goroutine(w, g) \/ GoroutineFails(w, g)
      PROVE  [Abstract!Next]_(Abstract!vars)
  <2>1. CASE PublishStep(w, g) \/ PublishStepFails(w, g)
    BY <2>1, PublishStepMaps
  <2>2. CASE DeadLetter(w, g)
    BY <2>2, DeadLetterMaps
  <2>3. CASE ~(PublishStep(w, g) \/ PublishStepFails(w, g) \/ DeadLetter(w, g))
    <3>1. UNCHANGED streamVars
      BY <1>3, <2>3 DEF Goroutine, GoroutineFails, Spawn, Skip, Rebuild,
         RebuildBlind, RebuildFails, CompleteRecord, UpdateRecord,
         UpdateRecordFails, Acknowledge
    <3> QED
      BY <3>1, StreamKeptMaps
  <2> QED
    BY <2>1, <2>2, <2>3
<1>4. CASE \E i \in DOMAIN log : Answer(i) \/ Drop(i)
  BY <1>4, AnswerMaps
<1>5. CASE UNCHANGED vars
  BY <1>5, StreamKeptMaps DEF vars, streamVars
<1> QED
  BY <1>1, <1>2, <1>3, <1>4, <1>5 DEF Next

(* One worker process implements SequentialExecution: whatever calls fail  *)
(* and whatever gets lost, the events its goroutines and the services      *)
(* publish take every execution through its tasks in order, to one outcome *)
(* that stays.                                                             *)
THEOREM ImplementsSequenceHolds ==
  ASSUME OneWorker
  PROVE  Spec => ImplementsSequence
<1>1. Init => Abstract!Init
  BY InitMaps
<1>2. TypeInv /\ OrderInv /\ OneWorkerInv /\ [Next]_vars =>
        [Abstract!Next]_(Abstract!vars)
  BY StepMaps
<1> QED
  BY <1>1, <1>2, OneWorkerInvariance, PTL DEF Spec, ImplementsSequence,
     Abstract!Safety

-----------------------------------------------------------------------------
(* The service at rest.  An execution that has not come to its end has     *)
(* something under way: a request or a timer nobody consumed yet, or an    *)
(* event of the execution that no goroutine has handled yet.  It keeps it  *)
(* as long as no process dies, nothing gets lost and no event is given up. *)

Unharmed == losses = 0 /\ dead = {}

(* An entry before its handling publishes or finds nothing to do.          *)
Unhandled(i) ==
  \/ i > cursor
  \/ \E w \in Workers : \E k \in DOMAIN inbox[w] : inbox[w][k] = i
  \/ \E w \in Workers, g \in Permits :
       job[w][g].entry = i /\ job[w][g].phase \in {"locking", "publishing"}

Relevant(ev) == Subscribed(ev) /\ ~Skipped(ev)

UnderWay(i) ==
  \/ log[i].type \in {"task.requested", "timer.scheduled"} /\ i \notin answered
  \/ Relevant(log[i]) /\ Unhandled(i)

Live(e) == \E i \in DOMAIN log : log[i].execution = e /\ UnderWay(i)

(* A pending task was requested, once, and has not succeeded.              *)
PendingOK == \A e \in Executions, n \in TaskNames :
  replay[e].pending[n] > 0 =>
    replay[e].pending[n] = 1 /\ Requested(log, e, n) /\ ~Achieved(log, e, n)

(* A consumed request was answered, unless something got lost.             *)
ConsumedOK ==
  /\ answered \subseteq DOMAIN log
  /\ losses = 0 => \A i \in DOMAIN log :
       i \in answered /\ log[i].type = "task.requested" =>
         Answered(log, log[i].execution, log[i].task)

ClosedOK == \A w \in Workers : closed[w] => losses > 0

(* A goroutine works on a delivered event of a type the worker subscribes  *)
(* to, for that event's execution; if the stream shows the execution       *)
(* completed, it completes it once more.                                   *)
PlaceOK(j, s) ==
  /\ j.phase # "idle" => Subscribed(s[j.entry])
  /\ j.phase \in HoldsMutex =>
       /\ ~Skipped(s[j.entry])
       /\ j.state.context = s[j.entry].execution
       /\ CompletedIn(s, j.state.context) =>
            IF j.phase = "publishing" THEN j.step.action = "complete"
                                      ELSE j.state.status = "completed"

PlacesOK == \A w \in Workers, g \in Permits : PlaceOK(job[w][g], log)

QueueOK ==
  /\ cursor <= Len(log)
  /\ \A w \in Workers : \A k \in DOMAIN inbox[w] : Subscribed(log[inbox[w][k]])

LiveOK == Unharmed => \A e \in Executions :
  record[e] # "none" => CompletedIn(log, e) \/ FailedIn(log, e) \/ Live(e)

(* Some goroutine has an event of e left to handle, or its record to write.*)
Finishing(e) == \E w \in Workers, g \in Permits :
  /\ job[w][g].phase \in {"locking"} \cup HoldsMutex
  /\ log[job[w][g].entry].execution = e /\ ~Skipped(log[job[w][g].entry])

FinishedOK == Unharmed => \A e \in Executions :
  CompletedIn(log, e) => record[e] = "completed" \/ Finishing(e)

RestInv ==
  /\ PendingOK /\ ConsumedOK /\ ClosedOK /\ QueueOK /\ PlacesOK
  /\ LiveOK /\ FinishedOK

(* What the replay of one more event makes of the pending tasks.           *)
LEMMA PendingStep ==
  ASSUME NEW st \in EngineState, NEW ev, WellFormed(ev), NEW n \in TaskNames
  PROVE  ProcessEvent(st, ev).pending[n] =
           IF ev.type = "task.requested" /\ ev.task = n THEN st.pending[n] + 1
           ELSE IF IsReport(ev) /\ ev.task = n /\ st.pending[n] > 0
                THEN st.pending[n] - 1
                ELSE st.pending[n]
<1>1. st.pending \in [TaskNames -> Nat]
  BY DEF EngineState
<1>2. CASE IsReport(ev)
  <2>1. ProcessEvent(st, ev) = TaskCompleted(st, ev) /\ ev.type # "task.requested"
    BY <1>2 DEF ProcessEvent, IsReport
  <2>2. TaskCompleted(st, ev).pending =
          [st.pending EXCEPT ![ev.task] = IF @ > 0 THEN @ - 1 ELSE 0]
    BY <1>2 DEF TaskCompleted, EngineState, IsReport
  <2>3. [st.pending EXCEPT ![ev.task] = IF @ > 0 THEN @ - 1 ELSE 0][n] =
          IF ev.task = n /\ st.pending[n] > 0 THEN st.pending[n] - 1
                                              ELSE st.pending[n]
    <3>1. st.pending[n] \in Nat
      BY <1>1
    <3>2. CASE ev.task = n
      BY <1>1, <3>1, <3>2
    <3>3. CASE ev.task # n
      BY <1>1, <3>3
    <3> QED
      BY <3>2, <3>3
  <2> QED
    BY <1>2, <2>1, <2>2, <2>3
<1>3. CASE ev.type = "task.requested"
  <2>1. ProcessEvent(st, ev).pending = [st.pending EXCEPT ![ev.task] = @ + 1]
    BY <1>3 DEF ProcessEvent, EngineState
  <2>2. ~IsReport(ev)
    BY <1>3 DEF IsReport
  <2> QED
    BY <1>1, <1>3, <2>1, <2>2
<1>4. CASE ~IsReport(ev) /\ ev.type # "task.requested"
  <2>1. ProcessEvent(st, ev).pending = st.pending
    BY <1>4 DEF ProcessEvent, TaskCompleted, EngineState, IsReport
  <2> QED
    BY <1>4, <2>1
<1> QED
  BY <1>2, <1>3, <1>4

(* A call that succeeded was requested.                                    *)
LEMMA CallRequested ==
  ASSUME TypeInv, OneWorkerInv, NEW e \in Executions, NEW n \in TaskNames,
         TaskKind[n] = "call", Achieved(log, e, n)
  PROVE  Requested(log, e, n) /\ Answered(log, e, n)
<1>1. PICK h \in DOMAIN log : Reports(log[h], e, n)
  BY DEF Achieved
<1>2. KindOK(log[h])
  BY DEF OneWorkerInv, KindsOK
<1>3. Answers(log[h], e, n)
  BY <1>1, <1>2 DEF KindOK, Reports, Answers
<1>4. Answered(log, e, n)
  BY <1>3 DEF Answered
<1>5. Requested(log, e, n)
  BY <1>3 DEF OneWorkerInv, AnswersOK, Requested
<1> QED
  BY <1>4, <1>5

LEMMA PendingPublish ==
  ASSUME TypeInv, OneWorkerInv, PendingOK, NEW ev, WellFormed(ev),
         Admissible(ev, log, replay), Publish(ev)
  PROVE  PendingOK'
<1> SUFFICES ASSUME NEW e \in Executions, NEW n \in TaskNames,
                    replay'[e].pending[n] > 0
             PROVE  /\ replay'[e].pending[n] = 1 /\ Requested(log', e, n)
                    /\ ~Achieved(log', e, n)
  BY DEF PendingOK
<1> DEFINE p == replay[e].pending[n]
           q == replay'[e].pending[n]
<1>1. /\ Requested(log', e, n) <=> (Requested(log, e, n) \/ Requests(ev, e, n))
      /\ Achieved(log', e, n) <=> (Achieved(log, e, n) \/ Reports(ev, e, n))
  <2>1. /\ log \in Seq(Event) /\ ev \in Event /\ log' = Append(log, ev)
    BY PublishFacts
  <2>2. Achieved(log', e, n) <=> (Achieved(log, e, n) \/ Reports(ev, e, n))
    BY <2>1, AchievedAppend
  <2> QED
    BY <2>2, RequestedStep
<1>2. p > 0 => p = 1 /\ Requested(log, e, n) /\ ~Achieved(log, e, n)
  BY DEF PendingOK
<1>3. p \in Nat /\ replay[e] \in EngineState
  BY DEF TypeInv, TypeOK, EngineState
<1>4. CASE e # ev.execution
  <2>1. q = p /\ ~Reports(ev, e, n) /\ q > 0
    BY <1>4, PublishFacts DEF Reports
  <2> QED
    BY <1>1, <1>2, <2>1
<1>5. CASE e = ev.execution
  <2>1. q = IF ev.type = "task.requested" /\ ev.task = n THEN p + 1
            ELSE IF IsReport(ev) /\ ev.task = n /\ p > 0 THEN p - 1 ELSE p
    BY <1>3, <1>5, PublishFacts, PendingStep
  <2>2. q > 0
    OBVIOUS
  <2>3. Reports(ev, e, n) <=> (IsReport(ev) /\ ev.task = n)
    BY <1>5 DEF Reports, IsReport
  <2> HIDE DEF p, q
  <2>4. CASE ev.type = "task.requested" /\ ev.task = n
    <3>1. Requests(ev, e, n) /\ ~IsReport(ev)
      BY <1>5, <2>4 DEF Requests, IsReport
    <3>2. ~Requested(log, e, n) /\ TaskKind[n] = "call"
      BY <1>5, <2>4 DEF Admissible, KindOK
    <3>3. ~Achieved(log, e, n)
      BY <3>2, CallRequested
    <3>4. q = 1
      BY <1>2, <1>3, <2>1, <2>4, <3>2
    <3> QED
      BY <1>1, <2>3, <3>1, <3>3, <3>4 DEF q
  <2>5. CASE IsReport(ev) /\ ev.task = n
    <3>1. ev.type # "task.requested"
      BY <2>5 DEF IsReport
    <3>2. q = 0
      BY <1>2, <1>3, <2>1, <2>5, <3>1
    <3> QED
      BY <2>2, <3>2
  <2>6. CASE /\ ~(ev.type = "task.requested" /\ ev.task = n)
             /\ ~(IsReport(ev) /\ ev.task = n)
    <3>1. q = p
      BY <2>1, <2>6
    <3> QED
      BY <1>1, <1>2, <2>2, <2>3, <2>6, <3>1 DEF q
  <2> QED
    BY <2>4, <2>5, <2>6
<1> QED
  BY <1>4, <1>5

-----------------------------------------------------------------------------
(* The decisions.  A goroutine finds nothing to do only while a call is    *)
(* out or has failed, and completes again what the stream shows completed. *)

(* The replay of an event a worker handles makes no task pending.          *)
LEMMA HandledPending ==
  ASSUME TypeInv, OneWorkerInv, PendingOK, NEW i \in DOMAIN log,
         log[i].execution \in Executions, log[i].type # "task.requested",
         NEW n \in TaskNames,
         ProcessEvent(replay[log[i].execution], log[i]).pending[n] > 0
  PROVE  /\ Requested(log, log[i].execution, n)
         /\ ~Achieved(log, log[i].execution, n)
<1> DEFINE e == log[i].execution
           p == replay[e].pending[n]
<1>1. /\ replay[e] \in EngineState /\ WellFormed(log[i]) /\ p \in Nat
  BY DEF TypeInv, TypeOK, StreamOK, EngineState
<1>2. ProcessEvent(replay[e], log[i]).pending[n] =
        IF IsReport(log[i]) /\ log[i].task = n /\ p > 0 THEN p - 1 ELSE p
  BY <1>1, PendingStep
<1>3. p > 0
  <2> DEFINE q == ProcessEvent(replay[e], log[i]).pending[n]
  <2>1. q > 0
    OBVIOUS
  <2> HIDE DEF p, q
  <2>2. q = IF IsReport(log[i]) /\ log[i].task = n /\ p > 0 THEN p - 1 ELSE p
    BY <1>2 DEF p, q
  <2> QED
    BY <1>1, <2>1, <2>2
<1>4. Requested(log, e, n) /\ ~Achieved(log, e, n)
  BY <1>3 DEF PendingOK
<1> QED
  BY <1>4

LEMMA NothingMeans ==
  ASSUME TypeInv, OrderInv, OneWorkerInv, PendingOK, ConsumedOK, losses = 0,
         NEW i \in DOMAIN log, log[i].execution \in Executions,
         log[i].type # "task.requested",
         NextStep(ProcessEvent(replay[log[i].execution], log[i])).action = "nothing"
  PROVE  \/ FailedIn(log, log[i].execution)
         \/ \E h \in DOMAIN log :
              /\ log[h].execution = log[i].execution
              /\ log[h].type = "task.requested" /\ h \notin answered
<1> DEFINE e  == log[i].execution
           st == ProcessEvent(replay[e], log[i])
           c  == st.completed
<1>1. /\ st \in EngineState /\ c = replay[e].completed
  BY RebuildOrdered
<1>2. /\ c \in Seq(TaskNames) /\ DOMAIN c = 1 .. Len(c) /\ Len(c) \in Nat
      /\ IsListPrefix(c)
  BY <1>1 DEF EngineState, OrderInv, ReplayOK
<1>3. GetNextTask(st) = NoTask
  <2>1. \A n : DispatchAction(n) # "nothing"
    BY DEF DispatchAction
  <2> HIDE DEF st, e, c
  <2> QED
    BY <2>1 DEF NextStep, st, e
<1>4. AnyPending(st) \/ Len(c) < Len(TaskList)
  <2> SUFFICES ASSUME ~(AnyPending(st) \/ Len(c) < Len(TaskList)) PROVE FALSE
    OBVIOUS
  <2>1. NextStep(st).action = "complete"
    BY <1>3 DEF NextStep
  <2> QED
    BY <2>1
<1>5. AnyPending(st)
  <2> SUFFICES ASSUME ~AnyPending(st) PROVE FALSE
    OBVIOUS
  <2> DEFINE k == Len(c) + 1
  <2>1. k \in DOMAIN TaskList /\ ~(k > Len(TaskList)) /\ TaskList[k] # NoTask
    <3>1. Len(c) < Len(TaskList) /\ Len(TaskList) \in Nat
      BY <1>4, TaskListAssumption
    <3>2. k \in DOMAIN TaskList /\ ~(k > Len(TaskList))
      BY <1>2, <3>1, TaskListFacts
    <3> QED
      BY <3>2, TaskListFacts, TaskListAssumption
  <2>2. ~(st.pending[TaskList[k]] > 0)
    BY <2>1, TaskListFacts DEF AnyPending
  <2>3. Done(st, TaskList[k])
    BY <1>3, <2>1, <2>2 DEF GetNextTask
  <2>4. PICK j \in DOMAIN c : c[j] = TaskList[k]
    BY <2>3 DEF Done
  <2> HIDE DEF c
  <2>5. j = k
    BY <1>2, <2>1, <2>4, TaskListFacts DEF IsListPrefix
  <2> QED
    BY <1>2, <2>4, <2>5
<1>6. PICK n \in TaskNames : st.pending[n] > 0
  BY <1>5 DEF AnyPending
<1>7. Requested(log, e, n) /\ ~Achieved(log, e, n)
  BY <1>6, HandledPending
<1> HIDE DEF e, st
<1>8. PICK h \in DOMAIN log : Requests(log[h], e, n)
  BY <1>7 DEF Requested
<1>9. CASE h \in answered
  <2>1. Answered(log, e, n)
    BY <1>8, <1>9 DEF ConsumedOK, Requests
  <2>2. PICK a \in DOMAIN log : Answers(log[a], e, n)
    BY <2>1 DEF Answered
  <2>3. ~log[a].success
    BY <1>7, <2>2 DEF Achieved, Reports, Answers
  <2>4. FailedIn(log, e)
    BY <2>2, <2>3 DEF FailedIn, Answers
  <2> QED
    BY <2>4 DEF e
<1> QED
  BY <1>8, <1>9 DEF Requests, e

LEMMA CompleteAgain ==
  ASSUME TypeInv, OrderInv, OneWorkerInv, PendingOK,
         NEW i \in DOMAIN log, log[i].execution \in Executions,
         log[i].type # "task.requested", CompletedIn(log, log[i].execution)
  PROVE  NextStep(ProcessEvent(replay[log[i].execution], log[i])).action = "complete"
<1> DEFINE e  == log[i].execution
           st == ProcessEvent(replay[e], log[i])
<1>1. st.completed = replay[e].completed
  BY RebuildOrdered
<1>2. AllAchieved(log, e)
  BY EntriesFacts
<1>3. Len(st.completed) = Len(TaskList)
  BY <1>1, <1>2, PositionFacts DEF Position
<1>4. ASSUME NEW n \in TaskNames, st.pending[n] > 0
      PROVE  FALSE
  <2>1. Requested(log, e, n) /\ ~Achieved(log, e, n)
    BY <1>4, HandledPending
  <2>2. PICK h \in DOMAIN log : Requests(log[h], e, n)
    BY <2>1 DEF Requested
  <2>3. InOrder(log, e, n)
    BY <2>2, HandOutTurn DEF Requests
  <2> QED
    BY <1>2, <2>1, <2>3 DEF InOrder, AllAchieved
<1>5. GetNextTask(st) = NoTask
  <2>1. Len(TaskList) \in Nat
    BY TaskListAssumption
  <2>2. Len(TaskList) + 1 > Len(TaskList)
    BY <2>1
  <2> QED
    BY <1>3, <2>2 DEF GetNextTask
<1>6. ~AnyPending(st) /\ ~(Len(st.completed) < Len(TaskList))
  <2>1. Len(TaskList) \in Nat
    BY TaskListAssumption
  <2> QED
    BY <1>3, <1>4, <2>1 DEF AnyPending
<1> HIDE DEF st
<1>7. NextStep(st).action = "complete"
  BY <1>5, <1>6 DEF NextStep
<1> QED
  BY <1>7 DEF st

-----------------------------------------------------------------------------
(* What every step does to the stream and to the losses.                   *)

(* A step publishes one event that fits, or leaves the stream alone.       *)
OneEvent ==
  \/ UNCHANGED streamVars
  \/ \E ev : /\ WellFormed(ev) /\ Admissible(ev, log, replay) /\ Publish(ev)

LEMMA AnswerEvent ==
  ASSUME TypeInv, OneWorkerInv, NEW i \in DOMAIN log, Answer(i) \/ Drop(i)
  PROVE  OneEvent
<1> DEFINE e == log[i].execution
           n == log[i].task
<1>1. /\ i \in Unanswered("task.requested") \cup Unanswered("timer.scheduled")
  BY DEF Answer, Drop, ExecutorAnswers, TimerFires, ExecutorDrops, TimerDrops
<1>2. /\ WellFormed(log[i]) /\ KindOK(log[i])
      /\ n \in TaskNames /\ e \in Executions /\ replay[e].context = e
  BY <1>1 DEF TypeInv, StreamOK, WellFormed, Unanswered, OneWorkerInv,
              StartedOK, KindsOK
<1>3. ASSUME NEW ev, WellFormed(ev), PublishError(ev), ev.execution = e,
             KindOK(ev), ev.type \in {"task.completed", "timer.fired", "task.dlq"},
             ev.type = "task.completed" => ev.source = "executor-service"
      PROVE  OneEvent
  <2>1. Admissible(ev, log, replay)
    BY <1>2, <1>3 DEF Admissible, IsHandOut
  <2> QED
    BY <1>3, <2>1 DEF OneEvent, PublishError
<1>4. ASSUME NEW success \in BOOLEAN, ExecutorAnswers(i, success)
      PROVE  OneEvent
  <2> DEFINE ev == NewEvent("task.completed", "executor-service", e, n, success)
  <2>1. PublishError(ev) /\ log[i].type = "task.requested"
    BY <1>4 DEF ExecutorAnswers, PublishError, Unanswered
  <2>2. WellFormed(ev)
    BY <1>2, <1>4 DEF NewEvent, WellFormed, Event, EventTypes, Sources
  <2>3. /\ ev.type = "task.completed" /\ ev.source = "executor-service"
        /\ ev.execution = e /\ KindOK(ev)
    BY <1>2, <2>1 DEF NewEvent, KindOK
  <2> HIDE DEF ev, e, n
  <2> QED
    BY <1>3, <2>1, <2>2, <2>3
<1>5. ASSUME TimerFires(i) PROVE OneEvent
  <2> DEFINE ev == NewEvent("timer.fired", "timer-service", e, n, TRUE)
  <2>1. PublishError(ev) /\ log[i].type = "timer.scheduled"
    BY <1>5 DEF TimerFires, PublishError, Unanswered
  <2>2. WellFormed(ev)
    BY <1>2 DEF NewEvent, WellFormed, Event, EventTypes, Sources
  <2>3. ev.type = "timer.fired" /\ ev.execution = e /\ KindOK(ev)
    BY <1>2, <2>1 DEF NewEvent, KindOK
  <2> HIDE DEF ev, e, n
  <2> QED
    BY <1>3, <2>1, <2>2, <2>3
<1>6. ASSUME ExecutorDrops(i) PROVE OneEvent
  <2> DEFINE ev == [log[i] EXCEPT !.type = "task.dlq"]
  <2>1. PublishError(ev)
    BY <1>6 DEF ExecutorDrops
  <2>2. WellFormed(ev) /\ ev.type = "task.dlq" /\ ev.execution = e
    BY <1>2 DEF WellFormed, Event, EventTypes
  <2> HIDE DEF ev, e, n
  <2>3. KindOK(ev)
    BY <2>2 DEF KindOK
  <2> QED
    BY <1>3, <2>1, <2>2, <2>3
<1>7. CASE TimerDrops(i)
  BY <1>7 DEF TimerDrops, OneEvent
<1> QED
  BY <1>4, <1>5, <1>6, <1>7 DEF Answer, Drop

LEMMA DeadLetterEvent ==
  ASSUME TypeInv, OneWorkerInv, NEW w \in Workers, NEW g \in Permits,
         DeadLetter(w, g)
  PROVE  OneEvent
<1> DEFINE ev == [log[job[w][g].entry] EXCEPT !.type = "event.dlq"]
<1>1. job[w][g].phase = "dlq" /\ PublishError(ev)
  BY DEF DeadLetter, PublishFails, PublishError
<1>2. /\ job[w][g].entry \in DOMAIN log
      /\ WellFormed(log[job[w][g].entry])
      /\ log[job[w][g].entry].type # "workflow.created"
  BY <1>1, JobFacts
<1>3. /\ WellFormed(ev) /\ ev.type = "event.dlq"
      /\ ev.execution = log[job[w][g].entry].execution
  BY <1>2 DEF WellFormed, Event, EventTypes
<1>4. ev.execution \in Executions /\ replay[ev.execution].context = ev.execution
  BY <1>2, <1>3 DEF OneWorkerInv, StartedOK
<1> HIDE DEF ev
<1>5. Admissible(ev, log, replay)
  BY <1>3, <1>4 DEF Admissible, KindOK, IsHandOut
<1> QED
  BY <1>1, <1>3, <1>5 DEF PublishError, OneEvent

LEMMA StepEvents ==
  ASSUME TypeInv, OrderInv, OneWorkerInv, [Next]_vars
  PROVE  OneEvent
<1>1. ASSUME NEW e \in Executions, ExecuteWorkflow(e) PROVE OneEvent
  <2> DEFINE ev == NewEvent("execution.started", "api", e, NoTask, TRUE)
  <2>1. /\ WellFormed(ev) /\ ev.type = "execution.started" /\ ev.execution = e
    BY DEF NewEvent, WellFormed, Event, EventTypes, Sources
  <2>2. PublishError(ev)
    BY <1>1 DEF ExecuteWorkflow, PublishError
  <2> HIDE DEF ev
  <2>3. Admissible(ev, log, replay)
    BY <2>1 DEF Admissible, KindOK, IsHandOut
  <2> QED
    BY <2>1, <2>2, <2>3 DEF PublishError, OneEvent
<1>2. CASE \E w \in Workers : Deliver(w) \/ Crash(w) \/ Stop(w) \/ Restart(w)
  <2>1. UNCHANGED streamVars
    BY <1>2 DEF Deliver, Crash, Stop, Restart
  <2> QED
    BY <2>1 DEF OneEvent
<1>3. ASSUME NEW w \in Workers, NEW g \in Permits,
             Goroutine(w, g) \/ GoroutineFails(w, g)
      PROVE  OneEvent
  <2>1. CASE PublishStep(w, g) \/ PublishStepFails(w, g)
    <3>1. job[w][g].phase = "publishing" /\ PublishError(JobEvent(w, g))
      BY <2>1 DEF PublishStep, PublishStepFails, PublishFails, PublishError
    <3> QED
      BY <3>1, PublisherAdmissible DEF PublishError, OneEvent
  <2>2. CASE DeadLetter(w, g)
    BY <2>2, DeadLetterEvent
  <2>3. CASE ~(PublishStep(w, g) \/ PublishStepFails(w, g) \/ DeadLetter(w, g))
    <3>1. UNCHANGED streamVars
      BY <1>3, <2>3 DEF Goroutine, GoroutineFails, Spawn, Skip, Rebuild,
         RebuildBlind, RebuildFails, CompleteRecord, UpdateRecord,
         UpdateRecordFails, Acknowledge
    <3> QED
      BY <3>1 DEF OneEvent
  <2> QED
    BY <2>1, <2>2, <2>3
<1>4. CASE \E i \in DOMAIN log : Answer(i) \/ Drop(i)
  BY <1>4, AnswerEvent
<1>5. CASE UNCHANGED vars
  <2>1. UNCHANGED streamVars
    BY <1>5 DEF vars, streamVars
  <2> QED
    BY <2>1 DEF OneEvent
<1> QED
  BY <1>1, <1>2, <1>3, <1>4, <1>5 DEF Next

LEMMA EventContinues ==
  ASSUME TypeInv, OneEvent
  PROVE  Continues(log, log')
<1>1. CASE UNCHANGED streamVars
  BY <1>1 DEF streamVars, Continues
<1>2. ASSUME NEW ev, WellFormed(ev), Publish(ev) PROVE Continues(log, log')
  BY <1>2, PublishFacts DEF Continues
<1> QED
  BY <1>1, <1>2 DEF OneEvent

LEMMA PendingHolds ==
  ASSUME TypeInv, OneWorkerInv, PendingOK, OneEvent
  PROVE  PendingOK'
<1>1. CASE UNCHANGED streamVars
  BY <1>1 DEF streamVars, PendingOK
<1> QED
  BY <1>1, PendingPublish DEF OneEvent

(* Losses are counted, and events given up are not taken back.             *)
LEMMA CallsKeepLosses ==
  ASSUME NEW w
  PROVE  Succeed(w) \/ Fault(w) \/ UNCHANGED budgets => losses' = losses
BY DEF Succeed, Fault, budgets

LEMMA GoroutineHarm ==
  ASSUME NEW w \in Workers, NEW g \in Permits,
         Goroutine(w, g) \/ GoroutineFails(w, g)
  PROVE  /\ losses' = losses /\ dead \subseteq dead' /\ closed' = closed
         /\ answered' = answered
<1>1. dead' = dead \/ AfterError(w, g) \/ \E st : Decide(w, g, st)
  BY DEF Goroutine, GoroutineFails, Spawn, Skip, Rebuild, PublishStep,
     CompleteRecord, UpdateRecord, DeadLetter, Acknowledge, RebuildFails,
     RebuildBlind, PublishStepFails, UpdateRecordFails
<1>2. dead \subseteq dead'
  BY <1>1 DEF Decide, AfterError
<1>3. Succeed(w) \/ Fault(w) \/ UNCHANGED budgets
  BY DEF Goroutine, GoroutineFails, Spawn, Skip, Rebuild, PublishStep,
     CompleteRecord, UpdateRecord, DeadLetter, Acknowledge, RebuildFails,
     RebuildBlind, PublishStepFails, UpdateRecordFails, PublishFails
<1>4. closed' = closed /\ answered' = answered
  BY DEF Goroutine, GoroutineFails, Spawn, Skip, Rebuild, PublishStep,
     CompleteRecord, UpdateRecord, DeadLetter, Acknowledge, RebuildFails,
     RebuildBlind, PublishStepFails, UpdateRecordFails
<1> QED
  BY <1>2, <1>3, <1>4, CallsKeepLosses

LEMMA HarmStays ==
  ASSUME TypeInv, [Next]_vars
  PROVE  losses \in Nat /\ losses' >= losses /\ dead \subseteq dead'
<1>1. losses \in Nat
  BY ProcessorAssumption DEF TypeInv, TypeOK
<1>2. CASE \E e \in Executions : ExecuteWorkflow(e)
  <2>1. losses' \in {losses, losses + 1} /\ dead' = dead
    BY <1>2 DEF ExecuteWorkflow, Loss, budgets, workerVars
  <2> QED
    BY <1>1, <2>1
<1>3. CASE \E w \in Workers : Deliver(w) \/ Crash(w) \/ Stop(w) \/ Restart(w)
  <2>1. losses' \in {losses, losses + 1} /\ dead' = dead
    BY <1>3 DEF Deliver, Crash, Stop, Restart, Loss, budgets, workerVars
  <2> QED
    BY <1>1, <2>1
<1>4. CASE \E w \in Workers, g \in Permits :
             Goroutine(w, g) \/ GoroutineFails(w, g)
  <2>1. losses' = losses /\ dead \subseteq dead'
    BY <1>4, GoroutineHarm
  <2> QED
    BY <1>1, <2>1
<1>5. CASE \E i \in DOMAIN log : Answer(i) \/ Drop(i)
  <2>1. losses' \in {losses, losses + 1} /\ dead' = dead
    BY <1>5 DEF Answer, Drop, ExecutorAnswers, TimerFires, ExecutorDrops,
       TimerDrops, Loss, budgets, workerVars
  <2> QED
    BY <1>1, <2>1
<1>6. CASE UNCHANGED vars
  <2>1. losses' = losses /\ dead' = dead
    BY <1>6 DEF vars
  <2> QED
    BY <1>1, <2>1
<1> QED
  BY <1>2, <1>3, <1>4, <1>5, <1>6 DEF Next

LEMMA ClosedHolds ==
  ASSUME TypeInv, ClosedOK, [Next]_vars
  PROVE  ClosedOK'
<1> SUFFICES ASSUME NEW v \in Workers, closed'[v] PROVE losses' > 0
  BY DEF ClosedOK
<1>1. losses \in Nat /\ losses' >= losses /\ losses' \in Nat
  <2>1. TypeInv'
    BY StepTyped
  <2>2. losses' \in Nat
    BY <2>1, ProcessorAssumption DEF TypeInv, TypeOK
  <2> QED
    BY <2>2, HarmStays
<1>2. closed[v] \/ (Loss /\ losses' = losses + 1)
  <2>1. CASE \E e \in Executions : ExecuteWorkflow(e)
    BY <2>1 DEF ExecuteWorkflow, workerVars
  <2>2. ASSUME NEW w \in Workers, Deliver(w) \/ Crash(w) \/ Stop(w) \/ Restart(w)
        PROVE  closed[v] \/ (Loss /\ losses' = losses + 1)
    <3>1. CASE Crash(w) \/ Stop(w)
      BY <3>1 DEF Crash, Stop, Loss
    <3>2. CASE Deliver(w)
      BY <3>2 DEF Deliver, workerVars
    <3>3. CASE Restart(w)
      <4>1. closed' = [closed EXCEPT ![w] = FALSE] /\ closed[w]
        BY <3>3 DEF Restart
      <4>2. v = w \/ closed'[v] = closed[v]
        BY <4>1 DEF TypeInv, TypeOK
      <4> QED
        BY <4>1, <4>2
    <3> QED
      BY <2>2, <3>1, <3>2, <3>3
  <2>3. CASE \E w \in Workers, g \in Permits :
               Goroutine(w, g) \/ GoroutineFails(w, g)
    BY <2>3, GoroutineHarm
  <2>4. CASE \E i \in DOMAIN log : Answer(i) \/ Drop(i)
    BY <2>4 DEF Answer, Drop, ExecutorAnswers, TimerFires, ExecutorDrops,
       TimerDrops, workerVars
  <2>5. CASE UNCHANGED vars
    BY <2>5 DEF vars
  <2> QED
    BY <2>1, <2>2, <2>3, <2>4, <2>5 DEF Next
<1>3. CASE closed[v]
  <2>1. losses > 0
    BY <1>3 DEF ClosedOK
  <2> QED
    BY <1>1, <2>1
<1>4. CASE losses' = losses + 1
  BY <1>1, <1>4
<1> QED
  BY <1>2, <1>3, <1>4

(* The consumed requests.                                                  *)
LEMMA ConsumedKept ==
  ASSUME ConsumedOK, Continues(log, log'), losses' = 0 => losses = 0,
         answered' = answered
  PROVE  ConsumedOK'
<1>1. answered' \subseteq DOMAIN log'
  BY DEF ConsumedOK, Continues
<1>2. ASSUME losses' = 0, NEW i \in DOMAIN log', i \in answered',
             log'[i].type = "task.requested"
      PROVE  Answered(log', log'[i].execution, log'[i].task)
  <2>1. i \in DOMAIN log /\ log'[i] = log[i]
    BY <1>2 DEF ConsumedOK, Continues
  <2>2. Answered(log, log[i].execution, log[i].task)
    BY <1>2, <2>1 DEF ConsumedOK
  <2> QED
    BY <2>1, <2>2 DEF Answered, Continues
<1> QED
  BY <1>1, <1>2 DEF ConsumedOK

LEMMA ConsumedAnswer ==
  ASSUME TypeInv, ConsumedOK, Continues(log, log'), losses' = 0 => losses = 0,
         NEW i \in DOMAIN log, answered' = answered \cup {i},
         \/ losses' # 0
         \/ log[i].type # "task.requested"
         \/ Answered(log', log[i].execution, log[i].task)
  PROVE  ConsumedOK'
<1>1. answered' \subseteq DOMAIN log'
  BY DEF ConsumedOK, Continues
<1>2. ASSUME losses' = 0, NEW h \in DOMAIN log', h \in answered',
             log'[h].type = "task.requested"
      PROVE  Answered(log', log'[h].execution, log'[h].task)
  <2>1. h \in DOMAIN log /\ log'[h] = log[h]
    BY <1>2 DEF ConsumedOK, Continues
  <2>2. CASE h = i
    BY <1>2, <2>1, <2>2
  <2>3. CASE h # i
    <3>1. Answered(log, log[h].execution, log[h].task)
      BY <1>2, <2>1, <2>3 DEF ConsumedOK
    <3> QED
      BY <2>1, <3>1 DEF Answered, Continues
  <2> QED
    BY <2>2, <2>3
<1> QED
  BY <1>1, <1>2 DEF ConsumedOK

LEMMA ConsumedHolds ==
  ASSUME TypeInv, OrderInv, OneWorkerInv, ConsumedOK, [Next]_vars
  PROVE  ConsumedOK'
<1>1. Continues(log, log')
  BY StepEvents, EventContinues
<1>2. losses' = 0 => losses = 0
  <2>1. losses \in Nat /\ losses' >= losses
    BY HarmStays
  <2> QED
    BY <2>1
<1>3. CASE answered' = answered
  BY <1>1, <1>2, <1>3, ConsumedKept
<1>4. ASSUME NEW i \in DOMAIN log, Answer(i) \/ Drop(i)
      PROVE  ConsumedOK'
  <2>1. answered' = answered \cup {i}
    BY <1>4 DEF Answer, Drop, ExecutorAnswers, TimerFires, ExecutorDrops, TimerDrops
  <2>2. CASE Drop(i)
    <3>1. losses' # 0
      <4>1. losses \in Nat /\ losses' = losses + 1
        BY <2>2, HarmStays DEF Drop, ExecutorDrops, TimerDrops, Loss
      <4> QED
        BY <4>1
    <3> QED
      BY <1>1, <1>2, <2>1, <3>1, ConsumedAnswer
  <2>3. CASE TimerFires(i)
    <3>1. log[i].type # "task.requested"
      BY <2>3 DEF TimerFires, Unanswered
    <3> QED
      BY <1>1, <1>2, <2>1, <3>1, ConsumedAnswer
  <2>4. ASSUME NEW success \in BOOLEAN, ExecutorAnswers(i, success)
        PROVE  ConsumedOK'
    <3> DEFINE ev == NewEvent("task.completed", "executor-service",
                              log[i].execution, log[i].task, success)
    <3>1. Publish(ev) /\ Answers(ev, log[i].execution, log[i].task)
      BY <2>4 DEF ExecutorAnswers, Answers, NewEvent
    <3>2. WellFormed(ev)
      <4>1. log[i].type = "task.requested" /\ WellFormed(log[i])
        BY <2>4 DEF ExecutorAnswers, Unanswered, TypeInv, StreamOK
      <4> QED
        BY <2>4, <4>1 DEF NewEvent, WellFormed, Event, EventTypes, Sources
    <3> HIDE DEF ev
    <3>3. Len(log') \in DOMAIN log' /\ log'[Len(log')] = ev
      BY <3>1, <3>2, PublishFacts
    <3>4. Answered(log', log[i].execution, log[i].task)
      BY <3>1, <3>3 DEF Answered
    <3> QED
      BY <1>1, <1>2, <2>1, <3>4, ConsumedAnswer
  <2> QED
    BY <1>4, <2>2, <2>3, <2>4 DEF Answer
<1>5. answered' = answered \/ \E i \in DOMAIN log : Answer(i) \/ Drop(i)
  <2>1. CASE \E e \in Executions : ExecuteWorkflow(e)
    BY <2>1 DEF ExecuteWorkflow
  <2>2. CASE \E w \in Workers : Deliver(w) \/ Crash(w) \/ Stop(w) \/ Restart(w)
    BY <2>2 DEF Deliver, Crash, Stop, Restart
  <2>3. CASE \E w \in Workers, g \in Permits :
               Goroutine(w, g) \/ GoroutineFails(w, g)
    BY <2>3, GoroutineHarm
  <2>4. CASE UNCHANGED vars
    BY <2>4 DEF vars
  <2> QED
    BY <2>1, <2>2, <2>3, <2>4 DEF Next
<1> QED
  BY <1>3, <1>4, <1>5

-----------------------------------------------------------------------------
(* What each step makes of the goroutine's job.                            *)

LEMMA SpawnJob ==
  ASSUME TypeInv, NEW w \in Workers, NEW g \in Permits, Spawn(w, g)
  PROVE  \E j \in Job : /\ SetJob(w, g, j) /\ j.phase = "locking"
                        /\ j.entry = Head(inbox[w])
<1> DEFINE j == [IdleJob EXCEPT !.phase = "locking", !.attempt = 1,
                                !.entry = Head(inbox[w])]
<1>1. inbox[w] \in Seq(Positions) /\ inbox[w] # <<>>
  BY DEF Spawn, TypeInv, TypeOK
<1>2. Head(inbox[w]) \in Nat
  BY <1>1 DEF Positions
<1>3. j \in Job /\ j.phase = "locking" /\ j.entry = Head(inbox[w])
  BY <1>2, IdleJobTyped DEF Job, Phases
<1>4. SetJob(w, g, j)
  BY DEF Spawn
<1> HIDE DEF j
<1> QED
  BY <1>3, <1>4

LEMMA LeaveJob ==
  ASSUME TypeInv, NEW w \in Workers, NEW g \in Permits,
         \/ Skip(w, g) \/ UpdateRecord(w, g) \/ DeadLetter(w, g)
         \/ Acknowledge(w, g)
  PROVE  \E j \in Job : /\ SetJob(w, g, j)
                        /\ \/ j.phase = "acking" /\ j.entry = job[w][g].entry
                           \/ j.phase = "idle"
<1>1. job[w][g] \in Job
  BY DEF TypeInv, TypeOK
<1>2. CASE Skip(w, g) \/ DeadLetter(w, g)
  <2> DEFINE j == [job[w][g] EXCEPT !.phase = "acking"]
  <2>1. j \in Job /\ j.phase = "acking" /\ j.entry = job[w][g].entry
    BY <1>1 DEF Job, Phases
  <2>2. SetJob(w, g, j)
    BY <1>2 DEF Skip, DeadLetter
  <2> HIDE DEF j
  <2> QED
    BY <2>1, <2>2
<1>3. CASE UpdateRecord(w, g)
  <2> DEFINE j == [IdleJob EXCEPT !.phase = "acking",
                     !.entry = job[w][g].entry, !.attempt = job[w][g].attempt]
  <2>1. j \in Job /\ j.phase = "acking" /\ j.entry = job[w][g].entry
    BY <1>1, IdleJobTyped DEF Job, Phases
  <2>2. SetJob(w, g, j)
    BY <1>3 DEF UpdateRecord
  <2> HIDE DEF j
  <2> QED
    BY <2>1, <2>2
<1>4. CASE Acknowledge(w, g)
  <2>1. SetJob(w, g, IdleJob) /\ IdleJob.phase = "idle"
    BY <1>4 DEF Acknowledge, IdleJob
  <2> QED
    BY <2>1, IdleJobTyped
<1> QED
  BY <1>2, <1>3, <1>4

(* An error leads to another attempt, or the event is given up.            *)
LEMMA RetryJob ==
  ASSUME TypeInv, NEW w \in Workers, NEW g \in Permits, AfterError(w, g)
  PROVE  \E j \in Job :
           /\ SetJob(w, g, j) /\ j.entry = job[w][g].entry
           /\ \/ j.phase = "locking"
              \/ j.phase = "dlq" /\ dead' # {}
<1> DEFINE i == job[w][g].entry
           a == job[w][g].attempt
           again == [IdleJob EXCEPT !.entry = i, !.attempt = a + 1]
           retry == [again EXCEPT !.phase = "locking"]
           quit  == [again EXCEPT !.phase = "dlq", !.attempt = a]
<1>1. i \in Nat /\ a \in Nat /\ a + 1 \in Nat /\ IdleJob \in Job
  BY IdleJobTyped DEF TypeInv, TypeOK, Job
<1> HIDE DEF i, a
<1>2. again \in Job /\ again.entry = i
  BY <1>1 DEF Job
<1> HIDE DEF again
<1>3. /\ retry \in Job /\ retry.phase = "locking" /\ retry.entry = i
      /\ quit \in Job /\ quit.phase = "dlq" /\ quit.entry = i
  BY <1>1, <1>2 DEF Job, Phases
<1>4. \/ SetJob(w, g, retry)
      \/ SetJob(w, g, quit) /\ dead' = dead \cup {i}
  <2>1. CASE a < MaxAttempts
    <3>1. SetJob(w, g, retry)
      BY <2>1 DEF AfterError, again, i, a
    <3> QED
      BY <3>1
  <2>2. CASE ~(a < MaxAttempts)
    <3>1. SetJob(w, g, quit)
      BY <2>2 DEF AfterError, again, i, a
    <3>2. dead' = dead \cup {i}
      BY <2>2 DEF AfterError, again, i, a
    <3> QED
      BY <3>1, <3>2
  <2> QED
    BY <2>1, <2>2
<1> HIDE DEF retry, quit
<1>5. CASE SetJob(w, g, retry)
  BY <1>3, <1>5 DEF i
<1>6. CASE SetJob(w, g, quit) /\ dead' = dead \cup {i}
  BY <1>3, <1>6 DEF i
<1> QED
  BY <1>4, <1>5, <1>6

LEMMA DecideJob ==
  ASSUME TypeInv, NEW w \in Workers, NEW g \in Permits, NEW st \in EngineState,
         Decide(w, g, st), ~AfterError(w, g)
  PROVE  \E j \in Job :
           /\ SetJob(w, g, j) /\ j.entry = job[w][g].entry
           /\ j.state = st /\ j.step = NextStep(st)
           /\ j.phase = IF NextStep(st).action = "nothing" THEN "recording"
                                                           ELSE "publishing"
<1> DEFINE step == NextStep(st)
           phase == IF step.action = "nothing" THEN "recording"
                                               ELSE "publishing"
           j == [job[w][g] EXCEPT !.phase = phase, !.state = st, !.step = step]
<1>1. job[w][g] \in Job
  BY DEF TypeInv, TypeOK
<1>2. SetJob(w, g, j)
  BY DEF Decide
<1>3. step \in Step /\ phase \in {"recording", "publishing"}
  BY NextStepTyped
<1> HIDE DEF step, phase
<1>4. /\ j \in Job /\ j.phase = phase /\ j.state = st /\ j.step = step
      /\ j.entry = job[w][g].entry
  BY <1>1, <1>3 DEF Job, Phases
<1> HIDE DEF j
<1>5. \E b \in Job : /\ SetJob(w, g, b) /\ b.entry = job[w][g].entry
                     /\ b.state = st /\ b.step = step /\ b.phase = phase
  BY <1>2, <1>4
<1> QED
  BY <1>5 DEF step, phase

LEMMA PublishedJob ==
  ASSUME TypeInv, NEW w \in Workers, NEW g \in Permits, PublishStep(w, g)
  PROVE  \E j \in Job :
           /\ SetJob(w, g, j) /\ j.entry = job[w][g].entry
           /\ j.state.context = job[w][g].state.context
           /\ IF job[w][g].step.action = "complete"
              THEN j.phase = "completing" /\ j.state.status = "completed"
              ELSE j.phase = "recording" /\ j.state = job[w][g].state
<1> DEFINE st   == job[w][g].state
           done == [job[w][g] EXCEPT !.phase = "completing",
                                     !.state.status = "completed"]
           next == [job[w][g] EXCEPT !.phase = "recording"]
<1>1. job[w][g] \in Job
  BY DEF TypeInv, TypeOK
<1>2. SetJob(w, g, IF job[w][g].step.action = "complete" THEN done ELSE next)
  BY DEF PublishStep, AfterPublication
<1>3. /\ [st EXCEPT !.status = "completed"] \in EngineState
      /\ [st EXCEPT !.status = "completed"].context = st.context
      /\ [st EXCEPT !.status = "completed"].status = "completed"
  BY <1>1 DEF Job, EngineState, Statuses
<1>4. /\ done \in Job /\ done.state.context = st.context
      /\ done.phase = "completing" /\ done.state.status = "completed"
      /\ done.entry = job[w][g].entry
  BY <1>1, <1>3 DEF Job, Phases
<1>5. /\ next \in Job /\ next.state = st
      /\ next.phase = "recording" /\ next.entry = job[w][g].entry
  BY <1>1 DEF Job, Phases
<1> HIDE DEF done, next
<1>6. CASE job[w][g].step.action = "complete"
  <2>1. SetJob(w, g, done)
    BY <1>2, <1>6
  <2> QED
    BY <1>4, <1>6, <2>1
<1>7. CASE job[w][g].step.action # "complete"
  <2>1. SetJob(w, g, next)
    BY <1>2, <1>7
  <2> QED
    BY <1>5, <1>7, <2>1
<1> QED
  BY <1>6, <1>7

LEMMA CompleteJob ==
  ASSUME TypeInv, NEW w \in Workers, NEW g \in Permits, CompleteRecord(w, g)
  PROVE  \E j \in Job :
           /\ SetJob(w, g, j) /\ j.entry = job[w][g].entry
           /\ j.state = job[w][g].state /\ j.phase = "recording"
<1> DEFINE j == [job[w][g] EXCEPT !.phase = "recording"]
<1>1. job[w][g] \in Job
  BY DEF TypeInv, TypeOK
<1>2. /\ j \in Job /\ j.entry = job[w][g].entry /\ j.state = job[w][g].state
      /\ j.phase = "recording"
  BY <1>1 DEF Job, Phases
<1>3. SetJob(w, g, j)
  BY DEF CompleteRecord
<1> HIDE DEF j
<1> QED
  BY <1>2, <1>3

-----------------------------------------------------------------------------
(* Queues and goroutines hold events of the types the worker asked for.    *)

LEMMA QueueHolds ==
  ASSUME TypeInv, OneEvent, QueueOK, [Next]_vars
  PROVE  QueueOK'
<1>1. Continues(log, log') /\ Len(log) \in Nat /\ cursor \in Nat
  BY EventContinues DEF TypeInv, TypeOK
<1>2. Len(log) <= Len(log')
  <2>1. CASE UNCHANGED streamVars
    BY <1>1, <2>1 DEF streamVars
  <2>2. ASSUME NEW ev, WellFormed(ev), Publish(ev) PROVE Len(log) <= Len(log')
    <3>1. log \in Seq(Event) /\ ev \in Event /\ log' = Append(log, ev)
      BY <2>2, PublishFacts
    <3>2. Len(log') = Len(log) + 1
      BY <3>1
    <3> QED
      BY <1>1, <3>2
  <2> QED
    BY <2>1, <2>2 DEF OneEvent
<1>3. ASSUME NEW v \in Workers, NEW k \in DOMAIN inbox[v]
      PROVE  Subscribed(log'[inbox[v][k]])
  <2>1. inbox[v][k] \in DOMAIN log
    BY DEF TypeInv, InboxesOK
  <2>2. Subscribed(log[inbox[v][k]])
    BY DEF QueueOK
  <2> QED
    BY <1>1, <2>1, <2>2 DEF Continues
<1>4. CASE inbox' = inbox /\ cursor' = cursor
  <2>1. cursor <= Len(log)
    BY DEF QueueOK
  <2>2. Len(log') \in Nat
    <3>1. TypeInv'
      BY StepTyped
    <3> QED
      BY <3>1 DEF TypeInv, TypeOK
  <2>3. cursor' <= Len(log')
    BY <1>1, <1>2, <1>4, <2>1, <2>2
  <2> QED
    BY <1>3, <1>4, <2>3 DEF QueueOK
<1>5. ASSUME NEW w \in Workers, Deliver(w) PROVE QueueOK'
  <2>1. /\ log' = log /\ cursor < Len(log) /\ cursor' = cursor + 1
    BY <1>5 DEF Deliver, streamVars
  <2>2. cursor' <= Len(log')
    BY <1>1, <2>1
  <2>3. inbox \in [Workers -> Seq(Positions)]
    BY DEF TypeInv, TypeOK
  <2>4. CASE inbox' = inbox
    BY <1>3, <2>2, <2>4 DEF QueueOK
  <2>5. CASE /\ Subscribed(log[cursor + 1])
             /\ inbox' = [inbox EXCEPT ![w] = Append(@, cursor + 1)]
    <3>1. ASSUME NEW v \in Workers, NEW k \in DOMAIN inbox'[v]
          PROVE  Subscribed(log[inbox'[v][k]])
      <4>1. CASE v # w
        BY <1>3, <2>1, <2>3, <2>5, <4>1
      <4>2. CASE v = w
        <5>1. inbox[w] \in Seq(Positions) /\ cursor + 1 \in Positions
          BY <1>1, <2>3 DEF Positions
        <5>2. inbox'[v] = Append(inbox[w], cursor + 1)
          BY <2>3, <2>5, <4>2
        <5>3. \/ k \in DOMAIN inbox[w] /\ inbox'[v][k] = inbox[w][k]
              \/ inbox'[v][k] = cursor + 1
          BY <5>1, <5>2
        <5> QED
          BY <1>3, <2>1, <2>5, <5>3
      <4> QED
        BY <4>1, <4>2
    <3> QED
      BY <2>1, <2>2, <3>1 DEF QueueOK
  <2> QED
    BY <1>5, <2>4, <2>5 DEF Deliver
<1>6. ASSUME NEW w \in Workers, Crash(w) \/ Restart(w) PROVE QueueOK'
  <2>1. /\ log' = log /\ cursor' = cursor
        /\ inbox' = [inbox EXCEPT ![w] = <<>>]
    BY <1>6 DEF Crash, Restart, streamVars
  <2>2. \A v \in Workers : inbox'[v] = IF v = w THEN <<>> ELSE inbox[v]
    BY <2>1 DEF TypeInv, TypeOK
  <2> QED
    BY <1>3, <2>1, <2>2 DEF QueueOK
<1>7. ASSUME NEW w \in Workers, NEW g \in Permits, Spawn(w, g) PROVE QueueOK'
  <2>1. /\ log' = log /\ cursor' = cursor /\ inbox[w] # <<>>
        /\ inbox' = [inbox EXCEPT ![w] = Tail(@)]
    BY <1>7 DEF Spawn, streamVars
  <2>2. /\ inbox[w] \in Seq(Positions)
        /\ \A v \in Workers : inbox'[v] = IF v = w THEN Tail(inbox[w]) ELSE inbox[v]
    BY <2>1 DEF TypeInv, TypeOK
  <2>3. \A k \in DOMAIN Tail(inbox[w]) :
          k + 1 \in DOMAIN inbox[w] /\ Tail(inbox[w])[k] = inbox[w][k + 1]
    BY <2>1, <2>2
  <2> QED
    BY <1>3, <2>1, <2>2, <2>3 DEF QueueOK
<1>8. \/ inbox' = inbox /\ cursor' = cursor
      \/ \E w \in Workers : Deliver(w) \/ Crash(w) \/ Restart(w)
      \/ \E w \in Workers, g \in Permits : Spawn(w, g)
  <2>1. CASE \E e \in Executions : ExecuteWorkflow(e)
    BY <2>1 DEF ExecuteWorkflow, groupVars
  <2>2. CASE \E w \in Workers : Deliver(w) \/ Crash(w) \/ Stop(w) \/ Restart(w)
    BY <2>2 DEF Stop, groupVars
  <2>3. CASE \E w \in Workers, g \in Permits :
               Goroutine(w, g) \/ GoroutineFails(w, g)
    BY <2>3 DEF Goroutine, GoroutineFails, Skip, Rebuild, PublishStep,
       CompleteRecord, UpdateRecord, DeadLetter, Acknowledge, RebuildFails,
       RebuildBlind, PublishStepFails, UpdateRecordFails, groupVars
  <2>4. CASE \E i \in DOMAIN log : Answer(i) \/ Drop(i)
    BY <2>4 DEF Answer, Drop, ExecutorAnswers, TimerFires, ExecutorDrops,
       TimerDrops, groupVars
  <2>5. CASE UNCHANGED vars
    BY <2>5 DEF vars
  <2> QED
    BY <2>1, <2>2, <2>3, <2>4, <2>5 DEF Next
<1> QED
  BY <1>4, <1>5, <1>6, <1>7, <1>8

(* No execution is newly completed by the step.                            *)
NoCompletion == \A e : CompletedIn(log', e) => CompletedIn(log, e)

LEMMA NotCompleting ==
  ASSUME TypeInv, NEW ev, WellFormed(ev), ev.type # "workflow.completed",
         PublishError(ev)
  PROVE  NoCompletion
<1>1. CASE UNCHANGED streamVars
  BY <1>1 DEF streamVars, NoCompletion
<1>2. CASE Publish(ev)
  BY <1>2, StreamFlags DEF NoCompletion, Completes
<1> QED
  BY <1>1, <1>2 DEF PublishError

LEMMA ServicesComplete ==
  ASSUME TypeInv,
         \/ \E e \in Executions : ExecuteWorkflow(e)
         \/ \E i \in DOMAIN log : Answer(i) \/ Drop(i)
         \/ \E w \in Workers, g \in Permits : DeadLetter(w, g)
  PROVE  NoCompletion
<1>1. ASSUME NEW e \in Executions, ExecuteWorkflow(e) PROVE NoCompletion
  <2> DEFINE ev == NewEvent("execution.started", "api", e, NoTask, TRUE)
  <2>1. WellFormed(ev) /\ ev.type # "workflow.completed"
    BY DEF NewEvent, WellFormed, Event, EventTypes, Sources
  <2>2. PublishError(ev)
    BY <1>1 DEF ExecuteWorkflow, PublishError
  <2> HIDE DEF ev
  <2> QED
    BY <2>1, <2>2, NotCompleting
<1>2. ASSUME NEW i \in DOMAIN log, Answer(i) \/ Drop(i) PROVE NoCompletion
  <2>1. WellFormed(log[i])
    BY DEF TypeInv, StreamOK
  <2>2. log[i].type \in {"task.requested", "timer.scheduled"}
    BY <1>2 DEF Answer, Drop, ExecutorAnswers, TimerFires, ExecutorDrops,
       TimerDrops, Unanswered
  <2>3. ASSUME NEW success \in BOOLEAN, ExecutorAnswers(i, success)
        PROVE  NoCompletion
    <3> DEFINE ev == NewEvent("task.completed", "executor-service",
                              log[i].execution, log[i].task, success)
    <3>1. WellFormed(ev) /\ ev.type # "workflow.completed"
      BY <2>1, <2>2 DEF NewEvent, WellFormed, Event, EventTypes, Sources
    <3>2. PublishError(ev)
      BY <2>3 DEF ExecutorAnswers, PublishError
    <3> HIDE DEF ev
    <3> QED
      BY <3>1, <3>2, NotCompleting
  <2>4. CASE TimerFires(i)
    <3> DEFINE ev == NewEvent("timer.fired", "timer-service",
                              log[i].execution, log[i].task, TRUE)
    <3>1. WellFormed(ev) /\ ev.type # "workflow.completed"
      BY <2>1, <2>2 DEF NewEvent, WellFormed, Event, EventTypes, Sources
    <3>2. PublishError(ev)
      BY <2>4 DEF TimerFires, PublishError
    <3> HIDE DEF ev
    <3> QED
      BY <3>1, <3>2, NotCompleting
  <2>5. CASE ExecutorDrops(i)
    <3> DEFINE ev == [log[i] EXCEPT !.type = "task.dlq"]
    <3>1. WellFormed(ev) /\ ev.type # "workflow.completed"
      BY <2>1 DEF WellFormed, Event, EventTypes
    <3>2. PublishError(ev)
      BY <2>5 DEF ExecutorDrops
    <3> HIDE DEF ev
    <3> QED
      BY <3>1, <3>2, NotCompleting
  <2>6. CASE TimerDrops(i)
    BY <2>6 DEF TimerDrops, streamVars, NoCompletion
  <2> QED
    BY <1>2, <2>3, <2>4, <2>5, <2>6 DEF Answer, Drop
<1>3. ASSUME NEW w \in Workers, NEW g \in Permits, DeadLetter(w, g)
      PROVE  NoCompletion
  <2> DEFINE ev == [log[job[w][g].entry] EXCEPT !.type = "event.dlq"]
  <2>1. job[w][g].phase = "dlq" /\ PublishError(ev)
    BY <1>3 DEF DeadLetter, PublishFails, PublishError
  <2>2. WellFormed(log[job[w][g].entry])
    BY <2>1, JobFacts
  <2>3. WellFormed(ev) /\ ev.type # "workflow.completed"
    BY <2>2 DEF WellFormed, Event, EventTypes
  <2> HIDE DEF ev
  <2> QED
    BY <2>1, <2>3, NotCompleting
<1> QED
  BY <1>1, <1>2, <1>3

(* A goroutine stays where it was when its execution is not completed.     *)
LEMMA PlaceStays ==
  ASSUME TypeInv, PlacesOK, Continues(log, log'), NEW v \in Workers, NEW h \in Permits,
         job[v][h].phase \in HoldsMutex /\ CompletedIn(log', job[v][h].state.context)
           => CompletedIn(log, job[v][h].state.context)
  PROVE  PlaceOK(job[v][h], log')
<1> DEFINE j == job[v][h]
<1>1. PlaceOK(j, log)
  BY DEF PlacesOK
<1>2. j.phase # "idle" => log'[j.entry] = log[j.entry]
  <2> SUFFICES ASSUME j.phase # "idle" PROVE log'[j.entry] = log[j.entry]
    OBVIOUS
  <2>1. j.entry \in DOMAIN log
    BY JobFacts
  <2> HIDE DEF j
  <2> QED
    BY <2>1 DEF Continues
<1>3. j.phase \in HoldsMutex => j.phase # "idle"
  BY DEF HoldsMutex
<1> HIDE DEF j
<1>4. PlaceOK(j, log')
  BY <1>1, <1>2, <1>3 DEF PlaceOK, j
<1> QED
  BY <1>4 DEF j

LEMMA PlacesStep ==
  ASSUME TypeInv, PlacesOK, Continues(log, log'), NEW w \in Workers, NEW g \in Permits,
         NEW j \in Job, SetJob(w, g, j), PlaceOK(j, log'),
         NoCompletion \/ \A v \in Workers, h \in Permits :
                           v # w \/ h # g => job[v][h].phase \notin HoldsMutex
  PROVE  PlacesOK'
<1> SUFFICES ASSUME NEW v \in Workers, NEW h \in Permits
             PROVE  PlaceOK(job'[v][h], log')
  BY DEF PlacesOK
<1>1. job'[w][g] = j /\ (v # w \/ h # g => job'[v][h] = job[v][h])
  BY SetJobTyped
<1>2. v # w \/ h # g => PlaceOK(job[v][h], log')
  BY PlaceStays DEF NoCompletion
<1> QED
  BY <1>1, <1>2

(* A goroutine without the mutex is where its event is.                    *)
LEMMA PlaceLeft ==
  ASSUME TypeInv, PlacesOK, Continues(log, log'), NEW w \in Workers, NEW g \in Permits,
         NEW j, j.phase \notin HoldsMutex,
         \/ j.phase = "idle"
         \/ job[w][g].phase # "idle" /\ j.entry = job[w][g].entry
  PROVE  PlaceOK(j, log')
<1>1. CASE j.phase = "idle"
  BY <1>1 DEF PlaceOK, HoldsMutex
<1>2. CASE job[w][g].phase # "idle" /\ j.entry = job[w][g].entry
  <2>1. job[w][g].entry \in DOMAIN log
    BY <1>2, JobFacts
  <2>2. Subscribed(log[job[w][g].entry])
    BY <1>2 DEF PlacesOK, PlaceOK
  <2>3. Subscribed(log'[j.entry])
    BY <1>2, <2>1, <2>2 DEF Continues
  <2> QED
    BY <2>3 DEF PlaceOK
<1> QED
  BY <1>1, <1>2

LEMMA LeavePlaces ==
  ASSUME TypeInv, OrderInv, OneWorkerInv, PlacesOK, NEW w \in Workers, NEW g \in Permits,
         \/ Skip(w, g) \/ UpdateRecord(w, g) \/ DeadLetter(w, g)
         \/ Acknowledge(w, g)
  PROVE  PlacesOK'
<1>1. job[w][g].phase # "idle"
  BY DEF Skip, UpdateRecord, DeadLetter, Acknowledge
<1>2. Continues(log, log') /\ NoCompletion
  <2>1. CASE DeadLetter(w, g)
    <3>1. OneEvent
      BY <2>1, DeadLetterEvent
    <3> QED
      BY <2>1, <3>1, EventContinues, ServicesComplete
  <2>2. CASE ~DeadLetter(w, g)
    <3>1. log' = log
      BY <2>2 DEF Skip, UpdateRecord, Acknowledge, streamVars
    <3> QED
      BY <3>1 DEF Continues, NoCompletion
  <2> QED
    BY <2>1, <2>2
<1>3. PICK j \in Job : /\ SetJob(w, g, j)
                       /\ \/ j.phase = "acking" /\ j.entry = job[w][g].entry
                          \/ j.phase = "idle"
  BY LeaveJob
<1>4. j.phase \notin HoldsMutex
  BY <1>3 DEF HoldsMutex
<1>5. PlaceOK(j, log')
  BY <1>1, <1>2, <1>3, <1>4, PlaceLeft
<1> QED
  BY <1>2, <1>3, <1>5, PlacesStep

LEMMA RetryPlaces ==
  ASSUME TypeInv, PlacesOK, Continues(log, log'), NEW w \in Workers, NEW g \in Permits,
         job[w][g].phase # "idle", AfterError(w, g),
         NoCompletion \/ \A v \in Workers, h \in Permits :
                           v # w \/ h # g => job[v][h].phase \notin HoldsMutex
  PROVE  PlacesOK'
<1>1. PICK j \in Job : /\ SetJob(w, g, j) /\ j.entry = job[w][g].entry
                       /\ j.phase \in {"locking", "dlq"}
  BY AfterErrorJob
<1>2. j.phase \notin HoldsMutex
  BY <1>1 DEF HoldsMutex
<1>3. PlaceOK(j, log')
  BY <1>1, <1>2, PlaceLeft
<1> QED
  BY <1>1, <1>3, PlacesStep

LEMMA SpawnPlaces ==
  ASSUME TypeInv, QueueOK, PlacesOK, NEW w \in Workers, NEW g \in Permits, Spawn(w, g)
  PROVE  PlacesOK'
<1>1. log' = log /\ inbox[w] # <<>>
  BY DEF Spawn, streamVars
<1>2. Continues(log, log') /\ NoCompletion
  BY <1>1 DEF Continues, NoCompletion
<1>3. PICK j \in Job : /\ SetJob(w, g, j) /\ j.phase = "locking"
                       /\ j.entry = Head(inbox[w])
  BY SpawnJob
<1>4. Subscribed(log[Head(inbox[w])])
  <2>1. inbox[w] \in Seq(Positions)
    BY DEF TypeInv, TypeOK
  <2>2. 1 \in DOMAIN inbox[w] /\ Head(inbox[w]) = inbox[w][1]
    BY <1>1, <2>1
  <2> QED
    BY <2>2 DEF QueueOK
<1>5. PlaceOK(j, log')
  BY <1>1, <1>3, <1>4 DEF PlaceOK, HoldsMutex
<1> QED
  BY <1>2, <1>3, <1>5, PlacesStep

(* The state a goroutine of the only process decides in names its event's  *)
(* execution.                                                              *)
LEMMA DecisionContext ==
  ASSUME TypeInv, OrderInv, OneWorkerInv, NEW i \in DOMAIN log,
         log[i].type # "workflow.created"
  PROVE  LET st == ProcessEvent(replay[log[i].execution], log[i])
         IN  log[i].execution \in Executions /\ st \in EngineState
             /\ st.context = log[i].execution
<1> DEFINE e  == log[i].execution
           st == ProcessEvent(replay[e], log[i])
<1>1. e \in Executions /\ replay[e].context = e
  BY DEF OneWorkerInv, StartedOK
<1>2. st \in EngineState /\ replay[e] \in EngineState
  BY <1>1, RebuildOrdered DEF TypeInv, TypeOK
<1>3. st.context = IF log[i].type = "execution.started" THEN e
                                                        ELSE replay[e].context
  BY <1>2, ContextStep
<1> QED
  BY <1>1, <1>2, <1>3

LEMMA RebuildPlaces ==
  ASSUME OneWorker, TypeInv, OrderInv, OneWorkerInv, PendingOK, PlacesOK,
         NEW w \in Workers, NEW g \in Permits,
         Rebuild(w, g) \/ RebuildBlind(w, g) \/ RebuildFails(w, g)
  PROVE  PlacesOK'
<1> DEFINE i  == job[w][g].entry
           st == ProcessEvent(replay[log[i].execution], log[i])
<1>1. /\ job[w][g].phase = "locking" /\ ~Skipped(log[i]) /\ log' = log
  BY DEF Rebuild, RebuildBlind, RebuildFails, Handles, streamVars
<1>2. Continues(log, log') /\ NoCompletion
  BY <1>1 DEF Continues, NoCompletion
<1>3. CASE AfterError(w, g)
  BY <1>1, <1>2, <1>3, RetryPlaces
<1>4. CASE ~AfterError(w, g)
  <2>1. Rebuild(w, g)
    BY <1>4 DEF RebuildBlind, RebuildFails, OneWorker
  <2>2. /\ i \in DOMAIN log /\ Subscribed(log[i])
        /\ log[i].type \notin {"workflow.created", "task.requested"}
    BY <1>1, JobFacts DEF PlacesOK, PlaceOK, Skipped, Subscribed
  <2>3. /\ log[i].execution \in Executions /\ st \in EngineState
        /\ st.context = log[i].execution
    BY <2>2, DecisionContext
  <2>4. CompletedIn(log, log[i].execution) => NextStep(st).action = "complete"
    BY <2>2, <2>3, CompleteAgain
  <2>5. Decide(w, g, st)
    BY <2>1 DEF Rebuild
  <2> HIDE DEF st
  <2>6. PICK j \in Job :
          /\ SetJob(w, g, j) /\ j.entry = job[w][g].entry
          /\ j.state = st /\ j.step = NextStep(st)
          /\ j.phase = IF NextStep(st).action = "nothing" THEN "recording"
                                                          ELSE "publishing"
    BY <1>4, <2>3, <2>5, DecideJob
  <2>7. PlaceOK(j, log)
    BY <1>1, <2>2, <2>3, <2>4, <2>6 DEF PlaceOK
  <2> QED
    BY <1>1, <1>2, <2>6, <2>7, PlacesStep
<1> QED
  BY <1>3, <1>4

LEMMA PublishPlaces ==
  ASSUME OneWorker, TypeInv, OrderInv, OneWorkerInv, PlacesOK,
         NEW w \in Workers, NEW g \in Permits,
         PublishStep(w, g) \/ PublishStepFails(w, g)
  PROVE  PlacesOK'
<1> DEFINE ev == JobEvent(w, g)
           c  == job[w][g].state.context
<1>1. job[w][g].phase = "publishing" /\ PublishError(ev)
  BY DEF PublishStep, PublishStepFails, PublishFails, PublishError
<1>2. WellFormed(ev) /\ Admissible(ev, log, replay)
  BY <1>1, PublisherAdmissible
<1>3. Continues(log, log')
  <2>1. OneEvent
    BY <1>1, <1>2 DEF OneEvent, PublishError
  <2> QED
    BY <2>1, EventContinues
<1>4. \A v \in Workers, h \in Permits :
        v # w \/ h # g => job[v][h].phase \notin HoldsMutex
  BY <1>1, OnePublisher DEF OneWorkerInv, HoldsMutex
<1>5. CASE PublishStepFails(w, g)
  <2>1. AfterError(w, g)
    BY <1>5 DEF PublishStepFails
  <2> QED
    BY <1>1, <1>3, <1>4, <2>1, RetryPlaces
<1>6. CASE PublishStep(w, g)
  <2>1. PICK j \in Job :
          /\ SetJob(w, g, j) /\ j.entry = job[w][g].entry
          /\ j.state.context = c
          /\ IF job[w][g].step.action = "complete"
             THEN j.phase = "completing" /\ j.state.status = "completed"
             ELSE j.phase = "recording"
    BY <1>6, PublishedJob
  <2>2. /\ Subscribed(log[j.entry]) /\ ~Skipped(log[j.entry])
        /\ c = log[j.entry].execution
        /\ CompletedIn(log, c) => job[w][g].step.action = "complete"
    BY <1>1, <2>1 DEF PlacesOK, PlaceOK, HoldsMutex
  <2>3. log'[j.entry] = log[j.entry]
    <3>1. job[w][g].entry \in DOMAIN log
      BY <1>1, JobFacts
    <3> QED
      BY <1>3, <2>1, <3>1 DEF Continues
  <2>4. job[w][g].step.action # "complete" => NoCompletion
    <3> SUFFICES ASSUME job[w][g].step.action # "complete" PROVE NoCompletion
      OBVIOUS
    <3>1. job[w][g].step.action \in {"run", "schedule", "request"}
      BY <1>1, JobFacts DEF JobOK
    <3>2. ev.type # "workflow.completed"
      BY <3>1 DEF JobEvent, StepEvent, NewEvent
    <3> HIDE DEF ev
    <3> QED
      BY <1>1, <1>2, <3>2, NotCompleting
  <2> HIDE DEF c
  <2>5. PlaceOK(j, log')
    BY <2>1, <2>2, <2>3, <2>4 DEF PlaceOK, HoldsMutex, NoCompletion
  <2> QED
    BY <1>3, <1>4, <2>1, <2>5, PlacesStep
<1> QED
  BY <1>5, <1>6

LEMMA RecordPlaces ==
  ASSUME TypeInv, PlacesOK, NEW w \in Workers, NEW g \in Permits,
         CompleteRecord(w, g) \/ UpdateRecordFails(w, g)
  PROVE  PlacesOK'
<1>1. log' = log /\ job[w][g].phase \in {"completing", "recording"}
  BY DEF CompleteRecord, UpdateRecordFails, streamVars
<1>2. Continues(log, log') /\ NoCompletion
  BY <1>1 DEF Continues, NoCompletion
<1>3. CASE UpdateRecordFails(w, g)
  <2>1. AfterError(w, g)
    BY <1>3 DEF UpdateRecordFails
  <2> QED
    BY <1>1, <1>2, <2>1, RetryPlaces
<1>4. CASE CompleteRecord(w, g)
  <2>1. PICK j \in Job :
          /\ SetJob(w, g, j) /\ j.entry = job[w][g].entry
          /\ j.state = job[w][g].state /\ j.phase = "recording"
    BY <1>4, CompleteJob
  <2>2. job[w][g].phase = "completing"
    BY <1>4 DEF CompleteRecord
  <2>3. PlaceOK(job[w][g], log)
    BY DEF PlacesOK
  <2>4. PlaceOK(j, log')
    BY <1>1, <2>1, <2>2, <2>3 DEF PlaceOK, HoldsMutex
  <2> QED
    BY <1>2, <2>1, <2>4, PlacesStep
<1> QED
  BY <1>3, <1>4

LEMMA PlacesHold ==
  ASSUME OneWorker, TypeInv, OrderInv, OneWorkerInv, PendingOK, QueueOK,
         PlacesOK, [Next]_vars
  PROVE  PlacesOK'
<1>1. Continues(log, log')
  BY StepEvents, EventContinues
<1>2. ASSUME job' = job, NoCompletion PROVE PlacesOK'
  <2>1. \A v \in Workers, h \in Permits : PlaceOK(job[v][h], log')
    BY <1>1, <1>2, PlaceStays DEF NoCompletion
  <2> QED
    BY <1>2, <2>1 DEF PlacesOK
<1>3. CASE \/ \E e \in Executions : ExecuteWorkflow(e)
           \/ \E i \in DOMAIN log : Answer(i) \/ Drop(i)
  <2>1. job' = job
    BY <1>3 DEF ExecuteWorkflow, Answer, Drop, ExecutorAnswers, TimerFires,
       ExecutorDrops, TimerDrops, workerVars
  <2> QED
    BY <1>2, <1>3, <2>1, ServicesComplete
<1>4. ASSUME NEW w \in Workers, Deliver(w) \/ Crash(w) \/ Stop(w) \/ Restart(w)
      PROVE  PlacesOK'
  <2>1. log' = log
    BY <1>4 DEF Deliver, Crash, Stop, Restart, streamVars
  <2>2. CASE Crash(w)
    <3>1. job' = [job EXCEPT ![w] = [g \in Permits |-> IdleJob]]
      BY <2>2 DEF Crash
    <3>2. \A v \in Workers, h \in Permits :
            job'[v][h] = job[v][h] \/ job'[v][h] = IdleJob
      BY <3>1 DEF TypeInv, TypeOK
    <3>3. PlaceOK(IdleJob, log)
      BY DEF PlaceOK, IdleJob, HoldsMutex
    <3> QED
      BY <2>1, <3>2, <3>3 DEF PlacesOK
  <2>3. CASE ~Crash(w)
    <3>1. job' = job
      BY <1>4, <2>3 DEF Deliver, Stop, Restart, workerVars
    <3>2. NoCompletion
      BY <2>1 DEF NoCompletion
    <3> QED
      BY <1>2, <3>1, <3>2
  <2> QED
    BY <2>2, <2>3
<1>5. CASE \E w \in Workers, g \in Permits :
             Goroutine(w, g) \/ GoroutineFails(w, g)
  BY <1>5, LeavePlaces, SpawnPlaces, RebuildPlaces, PublishPlaces, RecordPlaces
     DEF Goroutine, GoroutineFails
<1>6. CASE UNCHANGED vars
  <2>1. job' = job /\ log' = log
    BY <1>6 DEF vars
  <2>2. NoCompletion
    BY <2>1 DEF NoCompletion
  <2> QED
    BY <1>2, <2>1, <2>2
<1> QED
  BY <1>3, <1>4, <1>5, <1>6 DEF Next

-----------------------------------------------------------------------------
(* Nothing of what is under way disappears without a consequence.          *)

Settled(e) == CompletedIn(log, e) \/ FailedIn(log, e) \/ Live(e)

LEMMA SettledStep ==
  ASSUME LiveOK, Unharmed, Continues(log, log'),
         \A e \in Executions :
           record'[e] # "none" => record[e] # "none" \/ Settled(e)',
         \A e \in Executions, i \in DOMAIN log :
           log[i].execution = e /\ UnderWay(i) => UnderWay(i)' \/ Settled(e)'
  PROVE  LiveOK'
<1> SUFFICES ASSUME NEW e \in Executions, record'[e] # "none"
             PROVE  CompletedIn(log', e) \/ FailedIn(log', e) \/ Live(e)'
  BY DEF LiveOK
<1>1. CASE Settled(e)'
  BY <1>1 DEF Settled
<1>2. CASE record[e] # "none"
  <2>1. CompletedIn(log, e) \/ FailedIn(log, e) \/ Live(e)
    BY <1>2 DEF LiveOK
  <2>2. CASE CompletedIn(log, e) \/ FailedIn(log, e)
    BY <2>2 DEF CompletedIn, FailedIn, Continues
  <2>3. CASE Live(e)
    <3>1. PICK i \in DOMAIN log : log[i].execution = e /\ UnderWay(i)
      BY <2>3 DEF Live
    <3>2. CASE UnderWay(i)'
      <4>1. i \in DOMAIN log' /\ log'[i].execution = e
        BY <3>1 DEF Continues
      <4> QED
        BY <3>2, <4>1 DEF Live
    <3>3. CASE Settled(e)'
      BY <3>3 DEF Settled
    <3> QED
      BY <3>1, <3>2, <3>3
  <2> QED
    BY <2>1, <2>2, <2>3
<1> QED
  BY <1>1, <1>2

(* The entry of a new event is under way if somebody handles it.           *)
LEMMA NewEntryLive ==
  ASSUME TypeInv, QueueOK, NEW ev, WellFormed(ev), Publish(ev),
         cursor' = cursor, answered' \subseteq DOMAIN log,
         \/ Relevant(ev)
         \/ ev.type \in {"task.requested", "timer.scheduled"}
  PROVE  \A e : ev.execution = e => Live(e)'
<1>1. /\ Len(log') \in DOMAIN log' /\ log'[Len(log')] = ev
      /\ \A i \in DOMAIN log : i < Len(log')
      /\ log \in Seq(Event) /\ log' = Append(log, ev)
  BY PublishFacts
<1>2. PICK k \in DOMAIN log' : k = Len(log')
  BY <1>1
<1>3. k = Len(log) + 1 /\ Len(log) \in Nat /\ cursor \in Nat
  BY <1>1, <1>2 DEF TypeInv, TypeOK
<1>4. k > cursor'
  BY <1>3 DEF QueueOK
<1>5. k \notin answered'
  BY <1>1, <1>2, <1>3
<1>6. UnderWay(k)'
  BY <1>1, <1>2, <1>4, <1>5 DEF UnderWay, Unhandled
<1> QED
  BY <1>1, <1>2, <1>6 DEF Live

LEMMA GoroutineKeeps ==
  ASSUME TypeInv, Continues(log, log'), NEW w \in Workers, NEW g \in Permits,
         NEW j \in Job, SetJob(w, g, j),
         cursor' = cursor, inbox' = inbox, answered' = answered,
         NEW i \in DOMAIN log, UnderWay(i)
  PROVE  \/ UnderWay(i)'
         \/ /\ i = job[w][g].entry /\ Relevant(log[i])
            /\ job[w][g].phase \in {"locking", "publishing"}
            /\ ~(j.entry = i /\ j.phase \in {"locking", "publishing"})
<1>1. i \in DOMAIN log' /\ log'[i] = log[i]
  BY DEF Continues
<1>2. job'[w][g] = j /\ \A v \in Workers, h \in Permits :
                          v # w \/ h # g => job'[v][h] = job[v][h]
  BY SetJobTyped
<1>3. CASE log[i].type \in {"task.requested", "timer.scheduled"} /\ i \notin answered
  BY <1>1, <1>3 DEF UnderWay
<1>4. CASE Relevant(log[i]) /\ Unhandled(i)
  <2>1. CASE i > cursor \/ \E v \in Workers : \E k \in DOMAIN inbox[v] : inbox[v][k] = i
    <3>1. Unhandled(i)'
      BY <2>1 DEF Unhandled
    <3> QED
      BY <1>1, <1>4, <3>1 DEF UnderWay
  <2>2. ASSUME NEW v \in Workers, NEW h \in Permits, job[v][h].entry = i,
               job[v][h].phase \in {"locking", "publishing"}
        PROVE  \/ UnderWay(i)'
               \/ /\ i = job[w][g].entry /\ Relevant(log[i])
                  /\ job[w][g].phase \in {"locking", "publishing"}
                  /\ ~(j.entry = i /\ j.phase \in {"locking", "publishing"})
    <3>1. CASE v # w \/ h # g
      <4>1. job'[v][h] = job[v][h]
        BY <1>2, <3>1
      <4>2. Unhandled(i)'
        BY <2>2, <4>1 DEF Unhandled
      <4> QED
        BY <1>1, <1>4, <4>2 DEF UnderWay
    <3>2. CASE v = w /\ h = g /\ j.entry = i /\ j.phase \in {"locking", "publishing"}
      <4>1. Unhandled(i)'
        BY <1>2, <3>2 DEF Unhandled
      <4> QED
        BY <1>1, <1>4, <4>1 DEF UnderWay
    <3>3. CASE v = w /\ h = g /\ ~(j.entry = i /\ j.phase \in {"locking", "publishing"})
      BY <1>4, <2>2, <3>3
    <3> QED
      BY <3>1, <3>2, <3>3
  <2> QED
    BY <1>4, <2>1, <2>2 DEF Unhandled
<1> QED
  BY <1>3, <1>4 DEF UnderWay

LEMMA GoroutineLive ==
  ASSUME TypeInv, LiveOK, Unharmed, Continues(log, log'),
         NEW w \in Workers, NEW g \in Permits, NEW j \in Job, SetJob(w, g, j),
         cursor' = cursor, inbox' = inbox, answered' = answered,
         \A e \in Executions : record'[e] # "none" => record[e] # "none",
         \A e \in Executions :
           /\ job[w][g].phase \in {"locking", "publishing"}
           /\ Relevant(log[job[w][g].entry])
           /\ log[job[w][g].entry].execution = e
           => \/ j.entry = job[w][g].entry /\ j.phase \in {"locking", "publishing"}
              \/ Settled(e)'
  PROVE  LiveOK'
<1>1. ASSUME NEW e \in Executions, NEW i \in DOMAIN log, log[i].execution = e,
             UnderWay(i)
      PROVE  UnderWay(i)' \/ Settled(e)'
  BY <1>1, GoroutineKeeps
<1> QED
  BY <1>1, SettledStep

(* A completed execution keeps a goroutine that will record it.            *)
LEMMA GoroutineFinishes ==
  ASSUME TypeInv, FinishedOK, Unharmed, Continues(log, log'),
         NEW w \in Workers, NEW g \in Permits, NEW j \in Job, SetJob(w, g, j),
         \A e \in Executions : CompletedIn(log', e) =>
           /\ CompletedIn(log, e) \/ Finishing(e)'
           /\ record[e] = "completed" => record'[e] = "completed"
           /\ /\ job[w][g].phase \in {"locking"} \cup HoldsMutex
              /\ log[job[w][g].entry].execution = e
              /\ ~Skipped(log[job[w][g].entry])
              => \/ /\ j.entry = job[w][g].entry
                    /\ j.phase \in {"locking"} \cup HoldsMutex
                 \/ record'[e] = "completed"
  PROVE  FinishedOK'
<1> SUFFICES ASSUME NEW e \in Executions, CompletedIn(log', e)
             PROVE  record'[e] = "completed" \/ Finishing(e)'
  BY DEF FinishedOK
<1>1. job'[w][g] = j /\ \A v \in Workers, h \in Permits :
                          v # w \/ h # g => job'[v][h] = job[v][h]
  BY SetJobTyped
<1>2. CASE ~CompletedIn(log, e) \/ record[e] = "completed"
  BY <1>2
<1>3. CASE CompletedIn(log, e) /\ record[e] # "completed"
  <2>1. Finishing(e)
    BY <1>3 DEF FinishedOK
  <2>2. PICK v \in Workers, h \in Permits :
          /\ job[v][h].phase \in {"locking"} \cup HoldsMutex
          /\ log[job[v][h].entry].execution = e
          /\ ~Skipped(log[job[v][h].entry])
    BY <2>1 DEF Finishing
  <2>3. log'[job[v][h].entry] = log[job[v][h].entry]
    <3>1. job[v][h].phase # "idle"
      BY <2>2 DEF HoldsMutex
    <3>2. job[v][h].entry \in DOMAIN log
      BY <3>1, JobFacts
    <3> QED
      BY <3>2 DEF Continues
  <2>4. CASE v # w \/ h # g
    <3>1. job'[v][h] = job[v][h]
      BY <1>1, <2>4
    <3> QED
      BY <2>2, <2>3, <3>1 DEF Finishing
  <2>5. CASE v = w /\ h = g
    <3>1. CASE record'[e] = "completed"
      BY <3>1
    <3>2. CASE j.entry = job[w][g].entry /\ j.phase \in {"locking"} \cup HoldsMutex
      BY <1>1, <2>2, <2>3, <2>5, <3>2 DEF Finishing
    <3> QED
      BY <2>2, <2>5, <3>1, <3>2
  <2> QED
    BY <2>4, <2>5
<1> QED
  BY <1>2, <1>3

(* While a goroutine is at work on an execution its record exists.         *)
LEMMA RecordsKnown ==
  ASSUME TypeInv, OneWorkerInv, NEW w \in Workers, NEW g \in Permits,
         job[w][g].phase \in HoldsMutex
  PROVE  /\ job[w][g].state.context \in Executions
         /\ record[job[w][g].state.context] # "none"
BY DEF OneWorkerInv, DecisionsOK, DecisionOK, StartedOK

(* What a goroutine stores for an execution the stream shows completed.    *)
LEMMA WritesCompleted ==
  ASSUME TypeInv, OneWorkerInv, PlacesOK, NEW w \in Workers, NEW g \in Permits,
         \/ CompleteRecord(w, g) \/ UpdateRecord(w, g)
         \/ UpdateRecordFails(w, g)
  PROVE  /\ \A e \in Executions : record'[e] # "none" => record[e] # "none"
         /\ \A e \in Executions : CompletedIn(log, e) /\ record[e] = "completed"
              => record'[e] = "completed"
         /\ UpdateRecord(w, g) =>
              \A e \in Executions :
                CompletedIn(log, e) /\ log[job[w][g].entry].execution = e
                  => record'[e] = "completed"
<1> DEFINE c  == job[w][g].state.context
           st == job[w][g].state.status
<1>1. job[w][g].phase \in {"completing", "recording"}
  BY DEF CompleteRecord, UpdateRecord, UpdateRecordFails
<1>2. /\ c \in Executions /\ record[c] # "none"
      /\ c = log[job[w][g].entry].execution
      /\ CompletedIn(log, c) => st = "completed"
  BY <1>1, RecordsKnown DEF PlacesOK, PlaceOK, HoldsMutex
<1>3. c # NoExecution /\ record \in [Executions -> RecordStatuses]
  BY <1>2, ExecutionsAssumption DEF TypeInv, TypeOK
<1>4. RecordStatus("completed") = "completed"
  BY DEF RecordStatus
<1>6. CASE CompleteRecord(w, g)
  <2>1. StoreStatus(c, "completed") \/ record' = record
    BY <1>6 DEF CompleteRecord
  <2>2. job[w][g].phase = "completing"
    BY <1>6 DEF CompleteRecord
  <2>3. ~UpdateRecord(w, g)
    BY <2>2 DEF UpdateRecord
  <2> HIDE DEF c, st
  <2>4. CASE StoreStatus(c, "completed")
    <3>1. \A e \in Executions : record'[e] = IF e = c THEN "completed" ELSE record[e]
      BY <2>4, <1>2, <1>3 DEF StoreStatus
    <3> QED
      BY <1>2, <2>3, <3>1
  <2>5. CASE record' = record
    BY <2>3, <2>5
  <2> QED
    BY <2>1, <2>4, <2>5
<1>7. CASE UpdateRecord(w, g) \/ UpdateRecordFails(w, g)
  <2>1. StoreStatus(c, RecordStatus(st)) \/ (record' = record /\ ~UpdateRecord(w, g))
    <3>1. CASE UpdateRecord(w, g)
      BY <3>1 DEF UpdateRecord, WriteRecord
    <3>2. CASE UpdateRecordFails(w, g) /\ ~UpdateRecord(w, g)
      BY <3>2 DEF UpdateRecordFails, WriteRecord
    <3> QED
      BY <1>7, <3>1, <3>2
  <2> HIDE DEF c, st
  <2>2. CASE StoreStatus(c, RecordStatus(st))
    <3>1. \A e \in Executions :
            record'[e] = IF e = c THEN RecordStatus(st) ELSE record[e]
      BY <2>2, <1>2, <1>3 DEF StoreStatus
    <3>2. CompletedIn(log, c) => RecordStatus(st) = "completed"
      BY <1>2, <1>4
    <3> QED
      BY <1>2, <3>1, <3>2
  <2>3. CASE record' = record /\ ~UpdateRecord(w, g)
    BY <2>3
  <2> QED
    BY <2>1, <2>2, <2>3
<1> QED
  BY <1>6, <1>7

(* The step keeps what is under way and what is left to record.            *)
RestKept == LiveOK' /\ FinishedOK'

LEMMA RecordRest ==
  ASSUME TypeInv, OneWorkerInv, PlacesOK, LiveOK, FinishedOK, Unharmed,
         dead' = {}, NEW w \in Workers, NEW g \in Permits,
         \/ CompleteRecord(w, g) \/ UpdateRecord(w, g)
         \/ UpdateRecordFails(w, g)
  PROVE  RestKept
<1> DEFINE i == job[w][g].entry
<1>1. /\ job[w][g].phase \in {"completing", "recording"} /\ log' = log
      /\ cursor' = cursor /\ inbox' = inbox /\ answered' = answered
  BY DEF CompleteRecord, UpdateRecord, UpdateRecordFails, streamVars, groupVars
<1>2. Continues(log, log')
  BY <1>1 DEF Continues
<1>3. PICK j \in Job :
        /\ SetJob(w, g, j)
        /\ \/ UpdateRecord(w, g)
           \/ j.entry = i /\ j.phase \in {"locking"} \cup HoldsMutex
  <2>1. CASE CompleteRecord(w, g)
    BY <2>1, CompleteJob DEF HoldsMutex
  <2>2. CASE UpdateRecord(w, g)
    BY <2>2, LeaveJob
  <2>3. CASE UpdateRecordFails(w, g)
    <3>1. AfterError(w, g)
      BY <2>3 DEF UpdateRecordFails
    <3>2. PICK j \in Job : /\ SetJob(w, g, j) /\ j.entry = i
                           /\ \/ j.phase = "locking"
                              \/ j.phase = "dlq" /\ dead' # {}
      BY <3>1, RetryJob
    <3> QED
      BY <3>2
  <2> QED
    BY <2>1, <2>2, <2>3
<1>4. job[w][g].phase \notin {"locking", "publishing"}
  BY <1>1
<1>5. LiveOK'
  BY <1>1, <1>2, <1>3, <1>4, WritesCompleted, GoroutineLive
<1>6. FinishedOK'
  <2>1. \A e \in Executions : CompletedIn(log, e) =>
          /\ record[e] = "completed" => record'[e] = "completed"
          /\ log[i].execution = e =>
               \/ j.entry = i /\ j.phase \in {"locking"} \cup HoldsMutex
               \/ record'[e] = "completed"
    BY <1>3, WritesCompleted
  <2> QED
    BY <1>1, <1>2, <1>3, <2>1, GoroutineFinishes
<1> QED
  BY <1>5, <1>6 DEF RestKept

LEMMA LeaveRest ==
  ASSUME TypeInv, OrderInv, OneWorkerInv, LiveOK, FinishedOK, Unharmed,
         NEW w \in Workers, NEW g \in Permits,
         Skip(w, g) \/ DeadLetter(w, g) \/ Acknowledge(w, g)
  PROVE  RestKept
<1>1. /\ cursor' = cursor /\ inbox' = inbox /\ answered' = answered
      /\ record' = record
  BY DEF Skip, DeadLetter, Acknowledge, groupVars
<1>2. Continues(log, log') /\ NoCompletion
  <2>1. CASE DeadLetter(w, g)
    <3>1. OneEvent
      BY <2>1, DeadLetterEvent
    <3> QED
      BY <2>1, <3>1, EventContinues, ServicesComplete
  <2>2. CASE ~DeadLetter(w, g)
    <3>1. log' = log
      BY <2>2 DEF Skip, Acknowledge, streamVars
    <3> QED
      BY <3>1 DEF Continues, NoCompletion
  <2> QED
    BY <2>1, <2>2
<1>3. PICK j \in Job : SetJob(w, g, j)
  BY LeaveJob
<1>4. \/ job[w][g].phase = "locking" /\ Skipped(log[job[w][g].entry])
      \/ job[w][g].phase \in {"dlq", "acking"}
  BY DEF Skip, DeadLetter, Acknowledge
<1>5. LiveOK'
  <2>1. ~(/\ job[w][g].phase \in {"locking", "publishing"}
          /\ Relevant(log[job[w][g].entry]))
    BY <1>4 DEF Relevant
  <2> QED
    BY <1>1, <1>2, <1>3, <2>1, GoroutineLive
<1>6. FinishedOK'
  <2>1. ~(/\ job[w][g].phase \in {"locking"} \cup HoldsMutex
          /\ ~Skipped(log[job[w][g].entry]))
    BY <1>4 DEF HoldsMutex
  <2> QED
    BY <1>1, <1>2, <1>3, <2>1, GoroutineFinishes DEF NoCompletion
<1> QED
  BY <1>5, <1>6 DEF RestKept

(* A goroutine that finds nothing to do leaves an execution behind that    *)
(* has failed or whose request is still out.                               *)
LEMMA RebuildRest ==
  ASSUME OneWorker, TypeInv, OrderInv, OneWorkerInv, PendingOK, ConsumedOK,
         PlacesOK, LiveOK, FinishedOK, Unharmed, dead' = {},
         NEW w \in Workers, NEW g \in Permits,
         Rebuild(w, g) \/ RebuildBlind(w, g) \/ RebuildFails(w, g)
  PROVE  RestKept
<1> DEFINE i  == job[w][g].entry
           st == ProcessEvent(replay[log[i].execution], log[i])
<1>1. /\ job[w][g].phase = "locking" /\ ~Skipped(log[i]) /\ log' = log
      /\ cursor' = cursor /\ inbox' = inbox /\ answered' = answered
      /\ record' = record
  BY DEF Rebuild, RebuildBlind, RebuildFails, Handles, streamVars, groupVars
<1>2. Continues(log, log')
  BY <1>1 DEF Continues
<1>3. /\ i \in DOMAIN log /\ Subscribed(log[i])
      /\ log[i].type \notin {"workflow.created", "task.requested"}
  BY <1>1, JobFacts DEF PlacesOK, PlaceOK, Skipped, Subscribed
<1>4. /\ log[i].execution \in Executions /\ st \in EngineState
      /\ st.context = log[i].execution
  BY <1>3, DecisionContext
<1>5. PICK j \in Job :
        /\ SetJob(w, g, j) /\ j.entry = i
        /\ j.phase \in {"locking", "publishing", "recording"}
        /\ j.phase = "recording" => NextStep(st).action = "nothing"
  <2>1. CASE AfterError(w, g)
    <3>1. PICK j \in Job : /\ SetJob(w, g, j) /\ j.entry = i
                           /\ \/ j.phase = "locking"
                              \/ j.phase = "dlq" /\ dead' # {}
      BY <2>1, RetryJob
    <3> QED
      BY <3>1
  <2>2. CASE ~AfterError(w, g)
    <3>1. Decide(w, g, st)
      BY <2>2 DEF Rebuild, RebuildBlind, RebuildFails, OneWorker
    <3> HIDE DEF st
    <3>2. PICK j \in Job :
            /\ SetJob(w, g, j) /\ j.entry = i
            /\ j.phase = IF NextStep(st).action = "nothing" THEN "recording"
                                                            ELSE "publishing"
      BY <1>4, <2>2, <3>1, DecideJob
    <3> QED
      BY <3>2
  <2> QED
    BY <2>1, <2>2
<1>6. ASSUME j.phase = "recording", NEW e \in Executions, log[i].execution = e
      PROVE  Settled(e)'
  <2>1. \/ FailedIn(log, e)
        \/ \E h \in DOMAIN log :
             /\ log[h].execution = e
             /\ log[h].type = "task.requested" /\ h \notin answered
    BY <1>3, <1>4, <1>5, <1>6, NothingMeans DEF Unharmed
  <2>2. CASE FailedIn(log, e)
    <3>1. FailedIn(log', e)
      BY <1>1, <2>2
    <3> QED
      BY <3>1 DEF Settled
  <2>3. ASSUME NEW h \in DOMAIN log, log[h].execution = e,
               log[h].type = "task.requested", h \notin answered
        PROVE  Settled(e)'
    <3>1. h \in DOMAIN log' /\ log'[h].execution = e /\ UnderWay(h)'
      BY <1>1, <2>3 DEF UnderWay
    <3>2. Live(e)'
      BY <3>1 DEF Live
    <3> QED
      BY <3>2 DEF Settled
  <2> QED
    BY <2>1, <2>2, <2>3
<1>7. LiveOK'
  BY <1>1, <1>2, <1>5, <1>6, GoroutineLive
<1>8. FinishedOK'
  <2>1. j.phase \in {"locking"} \cup HoldsMutex
    BY <1>5 DEF HoldsMutex
  <2> QED
    BY <1>1, <1>2, <1>5, <2>1, GoroutineFinishes
<1> QED
  BY <1>7, <1>8 DEF RestKept

(* A published step is itself under way, or the end of the execution.      *)
LEMMA PublishRest ==
  ASSUME OneWorker, TypeInv, OrderInv, OneWorkerInv, ConsumedOK, QueueOK,
         PlacesOK, LiveOK, FinishedOK, Unharmed, dead' = {},
         NEW w \in Workers, NEW g \in Permits,
         PublishStep(w, g) \/ PublishStepFails(w, g)
  PROVE  RestKept
<1> DEFINE i  == job[w][g].entry
           ev == JobEvent(w, g)
<1>1. PICK c : c = job[w][g].state.context
  OBVIOUS
<1>2. /\ job[w][g].phase = "publishing" /\ PublishError(ev)
      /\ cursor' = cursor /\ inbox' = inbox /\ answered' = answered
      /\ record' = record
  BY DEF PublishStep, PublishStepFails, PublishFails, PublishError, groupVars
<1>3. WellFormed(ev) /\ Admissible(ev, log, replay)
  BY <1>2, PublisherAdmissible
<1>4. Continues(log, log')
  <2>1. OneEvent
    BY <1>2, <1>3 DEF OneEvent, PublishError
  <2> QED
    BY <2>1, EventContinues
<1>5. ~Skipped(log[i]) /\ c = log[i].execution
  BY <1>2, <1>1 DEF PlacesOK, PlaceOK, HoldsMutex
<1>6. ev.execution = c
  BY <1>1 DEF JobEvent, StepEvent, NewEvent
<1>7. job[w][g].step.action \in {"complete", "run", "schedule", "request"}
  BY <1>2, JobFacts DEF JobOK
<1>8. \/ ev.type = "workflow.completed"
      \/ ev.type \in {"task.requested", "timer.scheduled"}
      \/ ev.type = "task.completed" /\ ev.source = "workflow-engine"
  BY <1>7 DEF JobEvent, StepEvent, NewEvent
<1>9. PICK j \in Job :
        /\ SetJob(w, g, j) /\ j.entry = i
        /\ \/ j.phase = "locking"
           \/ j.phase \in HoldsMutex /\ Publish(ev)
  <2>1. CASE PublishStepFails(w, g)
    <3>1. AfterError(w, g)
      BY <2>1 DEF PublishStepFails
    <3>2. PICK j \in Job : /\ SetJob(w, g, j) /\ j.entry = i
                           /\ \/ j.phase = "locking"
                              \/ j.phase = "dlq" /\ dead' # {}
      BY <3>1, RetryJob
    <3> QED
      BY <3>2
  <2>2. CASE PublishStep(w, g)
    <3>1. PICK j \in Job :
            /\ SetJob(w, g, j) /\ j.entry = i
            /\ IF job[w][g].step.action = "complete"
               THEN j.phase = "completing" /\ j.state.status = "completed"
               ELSE j.phase = "recording"
      BY <2>2, PublishedJob
    <3>2. Publish(ev)
      BY <2>2 DEF PublishStep
    <3> QED
      BY <3>1, <3>2 DEF HoldsMutex
  <2> QED
    BY <2>1, <2>2
<1> HIDE DEF ev
<1>10. ASSUME j.phase # "locking" PROVE Settled(c)'
  <2>1. Publish(ev)
    BY <1>9, <1>10
  <2>2. CASE ev.type = "workflow.completed"
    <3>1. CompletedIn(log', c)
      BY <1>3, <1>6, <2>1, <2>2, StreamFlags DEF Completes
    <3> QED
      BY <3>1 DEF Settled
  <2>3. CASE \/ ev.type \in {"task.requested", "timer.scheduled"}
             \/ ev.type = "task.completed" /\ ev.source = "workflow-engine"
    <3>1. Relevant(ev) \/ ev.type \in {"task.requested", "timer.scheduled"}
      BY <2>3 DEF Relevant, Subscribed, Skipped
    <3>2. answered' \subseteq DOMAIN log
      BY <1>2 DEF ConsumedOK
    <3>3. \A e : ev.execution = e => Live(e)'
      BY <1>2, <1>3, <2>1, <3>1, <3>2, NewEntryLive
    <3> QED
      BY <1>6, <3>3 DEF Settled
  <2> QED
    BY <1>8, <2>2, <2>3
<1>11. LiveOK'
  <2>1. \A e \in Executions : log[i].execution = e =>
          \/ j.entry = i /\ j.phase \in {"locking", "publishing"}
          \/ Settled(e)'
    <3> SUFFICES ASSUME NEW e \in Executions, log[i].execution = e,
                        j.phase # "locking"
                 PROVE  Settled(e)'
      BY <1>9
    <3>1. e = c
      BY <1>5
    <3> QED
      BY <1>10, <3>1
  <2> QED
    BY <1>2, <1>4, <1>9, <2>1, GoroutineLive
<1>12. FinishedOK'
  <2>1. ASSUME NEW e \in Executions, CompletedIn(log', e), ~CompletedIn(log, e)
        PROVE  Finishing(e)'
    <3>1. Publish(ev)
      BY <1>2, <2>1 DEF PublishError, streamVars
    <3>2. e = c
      BY <1>3, <1>6, <2>1, <3>1, StreamFlags DEF Completes
    <3>3. job'[w][g] = j
      BY <1>9, SetJobTyped
    <3>4. log'[i] = log[i]
      <4>1. i \in DOMAIN log
        BY <1>2, JobFacts
      <4> QED
        BY <1>4, <4>1 DEF Continues
    <3> QED
      BY <1>5, <1>9, <3>2, <3>3, <3>4 DEF Finishing
  <2>2. j.phase \in {"locking"} \cup HoldsMutex
    BY <1>9
  <2> QED
    BY <1>2, <1>4, <1>9, <2>1, <2>2, GoroutineFinishes
<1> QED
  BY <1>11, <1>12 DEF RestKept

LEMMA SpawnRest ==
  ASSUME TypeInv, LiveOK, FinishedOK, Unharmed,
         NEW w \in Workers, NEW g \in Permits, Spawn(w, g)
  PROVE  RestKept
<1>1. /\ log' = log /\ record' = record /\ answered' = answered
      /\ cursor' = cursor /\ job[w][g].phase = "idle" /\ inbox[w] # <<>>
      /\ inbox' = [inbox EXCEPT ![w] = Tail(@)]
  BY DEF Spawn, streamVars
<1>2. Continues(log, log')
  BY <1>1 DEF Continues
<1>3. PICK j \in Job : /\ SetJob(w, g, j) /\ j.phase = "locking"
                       /\ j.entry = Head(inbox[w])
  BY SpawnJob
<1>4. job'[w][g] = j /\ \A v \in Workers, h \in Permits :
                          v # w \/ h # g => job'[v][h] = job[v][h]
  BY <1>3, SetJobTyped
<1>5. /\ inbox[w] \in Seq(Positions)
      /\ \A v \in Workers : inbox'[v] = IF v = w THEN Tail(inbox[w]) ELSE inbox[v]
  BY <1>1 DEF TypeInv, TypeOK
<1>6. ASSUME NEW k \in DOMAIN inbox[w]
      PROVE  \/ inbox[w][k] = j.entry
             \/ \E l \in DOMAIN inbox'[w] : inbox'[w][l] = inbox[w][k]
  <2>1. k = 1 => inbox[w][k] = Head(inbox[w])
    BY <1>1, <1>5
  <2>2. k # 1 => k - 1 \in DOMAIN Tail(inbox[w])
    BY <1>1, <1>5
  <2>3. k # 1 => Tail(inbox[w])[k - 1] = inbox[w][k]
    BY <1>1, <1>5, <2>2
  <2> QED
    BY <1>3, <1>5, <2>1, <2>2, <2>3
<1>7. ASSUME NEW i \in DOMAIN log, Unhandled(i) PROVE Unhandled(i)'
  <2>1. CASE i > cursor
    BY <1>1, <2>1 DEF Unhandled
  <2>2. ASSUME NEW v \in Workers, NEW k \in DOMAIN inbox[v], inbox[v][k] = i
        PROVE  Unhandled(i)'
    <3>1. \/ \E u \in Workers : \E l \in DOMAIN inbox'[u] : inbox'[u][l] = i
          \/ job'[w][g].entry = i /\ job'[w][g].phase \in {"locking", "publishing"}
      BY <1>3, <1>4, <1>5, <1>6, <2>2
    <3> QED
      BY <3>1 DEF Unhandled
  <2>3. ASSUME NEW v \in Workers, NEW h \in Permits, job[v][h].entry = i,
               job[v][h].phase \in {"locking", "publishing"}
        PROVE  Unhandled(i)'
    <3>1. job'[v][h] = job[v][h]
      BY <1>1, <1>4, <2>3
    <3> QED
      BY <2>3, <3>1 DEF Unhandled
  <2> QED
    BY <1>7, <2>1, <2>2, <2>3 DEF Unhandled
<1>8. \A e \in Executions, i \in DOMAIN log :
        log[i].execution = e /\ UnderWay(i) => UnderWay(i)' \/ Settled(e)'
  BY <1>1, <1>7 DEF UnderWay
<1>9. LiveOK'
  BY <1>1, <1>2, <1>8, SettledStep
<1>10. FinishedOK'
  <2>1. job[w][g].phase \notin {"locking"} \cup HoldsMutex
    BY <1>1 DEF HoldsMutex
  <2> QED
    BY <1>1, <1>2, <1>3, <2>1, GoroutineFinishes
<1> QED
  BY <1>9, <1>10 DEF RestKept

(* The worker services and the processes.                                  *)
LEMMA IdleLive ==
  ASSUME LiveOK, Unharmed, Continues(log, log'), job' = job, inbox' = inbox,
         cursor' = cursor, answered' = answered,
         \A e \in Executions :
           record'[e] # "none" => record[e] # "none" \/ Settled(e)'
  PROVE  LiveOK'
<1>1. ASSUME NEW i \in DOMAIN log, Unhandled(i) PROVE Unhandled(i)'
  BY <1>1 DEF Unhandled
<1>2. ASSUME NEW i \in DOMAIN log, UnderWay(i) PROVE UnderWay(i)'
  <2>1. log'[i] = log[i]
    BY DEF Continues
  <2> QED
    BY <1>1, <1>2, <2>1 DEF UnderWay
<1> QED
  BY <1>2, SettledStep

LEMMA IdleFinished ==
  ASSUME TypeInv, FinishedOK, Unharmed, Continues(log, log'), job' = job,
         NoCompletion,
         \A e \in Executions : record[e] = "completed" => record'[e] = "completed"
  PROVE  FinishedOK'
<1> SUFFICES ASSUME NEW e \in Executions, CompletedIn(log', e)
             PROVE  record'[e] = "completed" \/ Finishing(e)'
  BY DEF FinishedOK
<1>1. record[e] = "completed" \/ Finishing(e)
  BY DEF FinishedOK, NoCompletion
<1>2. CASE Finishing(e)
  <2>1. PICK v \in Workers, h \in Permits :
          /\ job[v][h].phase \in {"locking"} \cup HoldsMutex
          /\ log[job[v][h].entry].execution = e
          /\ ~Skipped(log[job[v][h].entry])
    BY <1>2 DEF Finishing
  <2>2. log'[job[v][h].entry] = log[job[v][h].entry]
    <3>1. job[v][h].phase # "idle"
      BY <2>1 DEF HoldsMutex
    <3>2. job[v][h].entry \in DOMAIN log
      BY <3>1, JobFacts
    <3> QED
      BY <3>2 DEF Continues
  <2> QED
    BY <2>1, <2>2 DEF Finishing
<1> QED
  BY <1>1, <1>2

LEMMA StartRest ==
  ASSUME TypeInv, OrderInv, OneWorkerInv, ConsumedOK, QueueOK, LiveOK,
         FinishedOK, Unharmed, losses' = 0,
         NEW e \in Executions, ExecuteWorkflow(e)
  PROVE  RestKept
<1> DEFINE ev == NewEvent("execution.started", "api", e, NoTask, TRUE)
<1>1. /\ job' = job /\ inbox' = inbox /\ cursor' = cursor
      /\ answered' = answered /\ record[e] = "none"
      /\ record' = [record EXCEPT ![e] = "pending"]
  BY DEF ExecuteWorkflow, groupVars, workerVars
<1>2. Publish(ev)
  <2>1. ~Loss
    BY DEF Loss, Unharmed
  <2> QED
    BY <2>1 DEF ExecuteWorkflow
<1>3. /\ WellFormed(ev) /\ ev.type # "workflow.completed" /\ Relevant(ev)
      /\ ev.execution = e
  BY DEF NewEvent, WellFormed, Event, EventTypes, Sources, Relevant,
     Subscribed, Skipped
<1> HIDE DEF ev
<1>4. Continues(log, log')
  BY <1>2, <1>3, PublishFacts DEF Continues
<1>5. Settled(e)'
  <2>1. answered' \subseteq DOMAIN log
    BY <1>1 DEF ConsumedOK
  <2>2. \A x : ev.execution = x => Live(x)'
    BY <1>1, <1>2, <1>3, <2>1, NewEntryLive
  <2> QED
    BY <1>3, <2>2 DEF Settled
<1>6. \A x \in Executions : record'[x] = IF x = e THEN "pending" ELSE record[x]
  BY <1>1 DEF TypeInv, TypeOK
<1>7. LiveOK'
  <2>1. \A x \in Executions :
          record'[x] # "none" => record[x] # "none" \/ Settled(x)'
    BY <1>5, <1>6
  <2> QED
    BY <1>1, <1>4, <2>1, IdleLive
<1>8. FinishedOK'
  <2>1. NoCompletion
    BY ServicesComplete
  <2> QED
    BY <1>1, <1>4, <1>6, <2>1, IdleFinished
<1> QED
  BY <1>7, <1>8 DEF RestKept

(* The answer to a request or a timer is an event the worker handles.      *)
LEMMA AnswerRest ==
  ASSUME TypeInv, OrderInv, OneWorkerInv, ConsumedOK, QueueOK, LiveOK,
         FinishedOK, Unharmed, losses' = 0,
         NEW i \in DOMAIN log, Answer(i) \/ Drop(i)
  PROVE  RestKept
<1>1. /\ job' = job /\ inbox' = inbox /\ cursor' = cursor
      /\ answered' = answered \cup {i} /\ record' = record
      /\ log[i].type \in {"task.requested", "timer.scheduled"}
  BY DEF Answer, Drop, ExecutorAnswers, TimerFires, ExecutorDrops, TimerDrops,
     Unanswered, groupVars, workerVars
<1>2. WellFormed(log[i])
  BY DEF TypeInv, StreamOK
<1>3. PICK ev : /\ WellFormed(ev) /\ Relevant(ev) /\ Publish(ev)
                /\ ev.execution = log[i].execution
  <2>1. CASE \E success \in BOOLEAN : ExecutorAnswers(i, success)
    <3>1. PICK success \in BOOLEAN : ExecutorAnswers(i, success)
      BY <2>1
    <3> DEFINE e1 == NewEvent("task.completed", "executor-service",
                              log[i].execution, log[i].task, success)
    <3>2. Publish(e1)
      BY <3>1 DEF ExecutorAnswers
    <3>3. WellFormed(e1) /\ Relevant(e1) /\ e1.execution = log[i].execution
      BY <1>1, <1>2 DEF NewEvent, WellFormed, Event, EventTypes, Sources,
         Relevant, Subscribed, Skipped
    <3> HIDE DEF e1
    <3> QED
      BY <3>2, <3>3
  <2>2. CASE TimerFires(i)
    <3> DEFINE e2 == NewEvent("timer.fired", "timer-service",
                              log[i].execution, log[i].task, TRUE)
    <3>1. Publish(e2)
      BY <2>2 DEF TimerFires
    <3>2. WellFormed(e2) /\ Relevant(e2) /\ e2.execution = log[i].execution
      BY <1>1, <1>2 DEF NewEvent, WellFormed, Event, EventTypes, Sources,
         Relevant, Subscribed, Skipped
    <3> HIDE DEF e2
    <3> QED
      BY <3>1, <3>2
  <2>3. ~Drop(i)
    BY DEF Drop, ExecutorDrops, TimerDrops, Loss, Unharmed
  <2> QED
    BY <2>1, <2>2, <2>3 DEF Answer
<1>4. Continues(log, log')
  BY <1>3, PublishFacts DEF Continues
<1>5. PICK c : c = log[i].execution
  OBVIOUS
<1>6. Settled(c)'
  <2>1. answered' \subseteq DOMAIN log
    BY <1>1 DEF ConsumedOK
  <2>2. \A x : ev.execution = x => Live(x)'
    BY <1>1, <1>3, <2>1, NewEntryLive
  <2> QED
    BY <1>3, <1>5, <2>2 DEF Settled
<1>7. LiveOK'
  <2>1. ASSUME NEW e \in Executions, NEW k \in DOMAIN log,
               log[k].execution = e, UnderWay(k)
        PROVE  UnderWay(k)' \/ Settled(e)'
    <3>1. CASE k = i
      <4>1. e = c
        BY <1>5, <2>1, <3>1
      <4> QED
        BY <1>6, <4>1
    <3>2. CASE k # i
      <4>1. log'[k] = log[k]
        BY <1>4 DEF Continues
      <4>2. Unhandled(k) => Unhandled(k)'
        BY <1>1 DEF Unhandled
      <4> QED
        BY <1>1, <2>1, <3>2, <4>1, <4>2 DEF UnderWay
    <3> QED
      BY <3>1, <3>2
  <2>2. \A e \in Executions : record'[e] # "none" => record[e] # "none"
    BY <1>1
  <2> QED
    BY <1>4, <2>1, <2>2, SettledStep
<1>8. FinishedOK'
  <2>1. NoCompletion
    BY ServicesComplete
  <2> QED
    BY <1>1, <1>4, <2>1, IdleFinished
<1> QED
  BY <1>7, <1>8 DEF RestKept

(* The subscription: an event on its way to a goroutine stays under way.   *)
LEMMA DeliverRest ==
  ASSUME TypeInv, LiveOK, FinishedOK, Unharmed, NEW w \in Workers, Deliver(w)
  PROVE  RestKept
<1>1. /\ job' = job /\ log' = log /\ record' = record /\ answered' = answered
      /\ cursor' = cursor + 1 /\ cursor \in Nat
  BY DEF Deliver, streamVars, workerVars, TypeInv, TypeOK
<1>2. Continues(log, log') /\ NoCompletion
  BY <1>1 DEF Continues, NoCompletion
<1>3. /\ \A v \in Workers : inbox[v] \in Seq(Positions)
      /\ \A v \in Workers : \A k \in DOMAIN inbox[v] :
           k \in DOMAIN inbox'[v] /\ inbox'[v][k] = inbox[v][k]
      /\ Subscribed(log[cursor + 1]) =>
           \E k \in DOMAIN inbox'[w] : inbox'[w][k] = cursor + 1
  <2>1. /\ inbox \in [Workers -> Seq(Positions)] /\ cursor + 1 \in Positions
    BY <1>1 DEF TypeInv, TypeOK, Positions
  <2>2. CASE Subscribed(log[cursor + 1])
    <3>1. inbox' = [inbox EXCEPT ![w] = Append(@, cursor + 1)]
      BY <2>2 DEF Deliver
    <3>2. \A v \in Workers : inbox'[v] = IF v = w THEN Append(inbox[w], cursor + 1)
                                                  ELSE inbox[v]
      BY <2>1, <3>1
    <3>3. /\ Len(inbox[w]) + 1 \in DOMAIN Append(inbox[w], cursor + 1)
          /\ Append(inbox[w], cursor + 1)[Len(inbox[w]) + 1] = cursor + 1
          /\ \A k \in DOMAIN inbox[w] :
               /\ k \in DOMAIN Append(inbox[w], cursor + 1)
               /\ Append(inbox[w], cursor + 1)[k] = inbox[w][k]
      BY <2>1
    <3> QED
      BY <2>1, <3>2, <3>3
  <2>3. CASE ~Subscribed(log[cursor + 1])
    <3>1. inbox' = inbox
      BY <2>3 DEF Deliver
    <3> QED
      BY <2>1, <2>3, <3>1
  <2> QED
    BY <2>2, <2>3
<1>4. ASSUME NEW i \in DOMAIN log, Relevant(log[i]), Unhandled(i)
      PROVE  Unhandled(i)'
  <2>1. CASE i > cursor
    <3>1. i \in Nat
      BY DEF TypeInv, TypeOK
    <3>2. i = cursor + 1 \/ i > cursor'
      BY <1>1, <2>1, <3>1
    <3>3. Subscribed(log[i])
      BY <1>4 DEF Relevant
    <3> QED
      BY <1>3, <3>2, <3>3 DEF Unhandled
  <2>2. CASE \E v \in Workers : \E k \in DOMAIN inbox[v] : inbox[v][k] = i
    BY <1>3, <2>2 DEF Unhandled
  <2>3. CASE \E v \in Workers, h \in Permits :
               job[v][h].entry = i /\ job[v][h].phase \in {"locking", "publishing"}
    BY <1>1, <2>3 DEF Unhandled
  <2> QED
    BY <1>4, <2>1, <2>2, <2>3 DEF Unhandled
<1>5. LiveOK'
  <2>1. \A e \in Executions, i \in DOMAIN log :
          log[i].execution = e /\ UnderWay(i) => UnderWay(i)' \/ Settled(e)'
    BY <1>1, <1>4 DEF UnderWay
  <2> QED
    BY <1>1, <1>2, <2>1, SettledStep
<1>6. FinishedOK'
  BY <1>1, <1>2, IdleFinished
<1> QED
  BY <1>5, <1>6 DEF RestKept

LEMMA RestHolds ==
  ASSUME OneWorker, TypeInv, OrderInv, OneWorkerInv, RestInv, [Next]_vars
  PROVE  RestInv'
<1>1. PendingOK' /\ ConsumedOK' /\ ClosedOK' /\ QueueOK' /\ PlacesOK'
  <2>1. OneEvent
    BY StepEvents
  <2> QED
    BY <2>1, PendingHolds, ConsumedHolds, ClosedHolds, QueueHolds, PlacesHold
       DEF RestInv
<1>2. CASE ~Unharmed'
  <2>1. LiveOK' /\ FinishedOK'
    BY <1>2 DEF LiveOK, FinishedOK
  <2> QED
    BY <1>1, <2>1 DEF RestInv
<1>3. CASE Unharmed'
  <2>1. losses' = 0 /\ dead' = {} /\ Unharmed
    <3>1. losses \in Nat /\ losses' >= losses /\ dead \subseteq dead'
      BY HarmStays
    <3> QED
      BY <1>3, <3>1 DEF Unharmed
  <2> SUFFICES RestKept
    BY <1>1 DEF RestKept, RestInv
  <2> USE DEF RestInv
  <2>2. CASE \E e \in Executions : ExecuteWorkflow(e)
    BY <2>1, <2>2, StartRest
  <2>3. ASSUME NEW w \in Workers, Deliver(w) \/ Crash(w) \/ Stop(w) \/ Restart(w)
        PROVE  RestKept
    <3>1. ~(Crash(w) \/ Stop(w))
      BY <2>1 DEF Crash, Stop, Loss, Unharmed
    <3>2. ~Restart(w)
      BY <2>1 DEF Restart, ClosedOK, Unharmed
    <3> QED
      BY <2>1, <2>3, <3>1, <3>2, DeliverRest
  <2>4. CASE \E w \in Workers, g \in Permits :
               Goroutine(w, g) \/ GoroutineFails(w, g)
    BY <2>1, <2>4, RecordRest, LeaveRest, RebuildRest, PublishRest, SpawnRest
       DEF Goroutine, GoroutineFails
  <2>5. CASE \E i \in DOMAIN log : Answer(i) \/ Drop(i)
    BY <2>1, <2>5, AnswerRest
  <2>6. CASE UNCHANGED vars
    <3>1. /\ job' = job /\ inbox' = inbox /\ cursor' = cursor
          /\ answered' = answered /\ record' = record /\ log' = log
      BY <2>6 DEF vars
    <3>2. Continues(log, log') /\ NoCompletion
      BY <3>1 DEF Continues, NoCompletion
    <3>3. LiveOK'
      BY <2>1, <3>1, <3>2, IdleLive
    <3>4. FinishedOK'
      BY <2>1, <3>1, <3>2, IdleFinished
    <3> QED
      BY <3>3, <3>4 DEF RestKept
  <2> QED
    BY <2>2, <2>3, <2>4, <2>5, <2>6 DEF Next
<1> QED
  BY <1>2, <1>3

LEMMA InitRest == Init => RestInv
<1> SUFFICES ASSUME Init PROVE RestInv
  OBVIOUS
<1>1. /\ DOMAIN log = {1} /\ log[1].type = "workflow.created" /\ Len(log) = 1
      /\ \A e \in Executions : replay[e] = EmptyState /\ record[e] = "none"
      /\ cursor = 0 /\ answered = {} /\ losses = 0 /\ dead = {}
      /\ \A w \in Workers : inbox[w] = <<>> /\ ~closed[w]
      /\ \A w \in Workers, g \in Permits : job[w][g] = IdleJob
  BY DEF Init, CreatedEvent, NewEvent
<1>2. PendingOK
  BY <1>1 DEF PendingOK, EmptyState
<1>3. ConsumedOK
  BY <1>1 DEF ConsumedOK
<1>4. ClosedOK
  BY <1>1 DEF ClosedOK
<1>5. QueueOK
  BY <1>1 DEF QueueOK
<1>6. PlacesOK
  BY <1>1 DEF PlacesOK, PlaceOK, IdleJob, HoldsMutex
<1>7. LiveOK
  BY <1>1 DEF LiveOK
<1>8. FinishedOK
  BY <1>1 DEF FinishedOK, CompletedIn
<1> QED
  BY <1>2, <1>3, <1>4, <1>5, <1>6, <1>7, <1>8 DEF RestInv

(* One worker process, and what it still has to do: from every state, by   *)
(* every step, whatever fails or gets lost.                                *)
THEOREM RestInvariance ==
  ASSUME OneWorker
  PROVE  Spec => [](TypeInv /\ OrderInv /\ OneWorkerInv /\ RestInv)
<1>1. Init => RestInv
  BY InitRest
<1>2. /\ TypeInv /\ OrderInv /\ OneWorkerInv /\ RestInv /\ [Next]_vars
      => RestInv'
  BY RestHolds
<1> QED
  BY <1>1, <1>2, OneWorkerInvariance, PTL DEF Spec

LEMMA QuietMeans ==
  ASSUME TypeInv, QueueOK, Quiet
  PROVE  /\ \A i \in DOMAIN log : ~UnderWay(i)
         /\ \A e \in Executions : ~Finishing(e)
<1>1. /\ cursor = Len(log) /\ log \in Seq(Event)
      /\ \A w \in Workers : inbox[w] = <<>>
      /\ \A w \in Workers, g \in Permits : job[w][g].phase = "idle"
  BY DEF Quiet, TypeInv, TypeOK
<1>2. \A i \in DOMAIN log : log[i].type \in {"task.requested", "timer.scheduled"}
                              => i \in answered
  BY DEF Quiet, Unanswered
<1>3. ASSUME NEW i \in DOMAIN log PROVE ~(i > cursor)
  BY <1>1
<1>4. \A i \in DOMAIN log : ~Unhandled(i)
  BY <1>1, <1>3 DEF Unhandled
<1>5. \A e \in Executions : ~Finishing(e)
  BY <1>1 DEF Finishing, HoldsMutex
<1> QED
  BY <1>2, <1>4, <1>5 DEF UnderWay

(* A worker service at rest has brought every started execution to its     *)
(* end, if nothing was lost and no event given up: a call to Redis that    *)
(* fails, before or after its effect, costs a repetition and no execution. *)
THEOREM RestMeansDoneHolds ==
  ASSUME OneWorker
  PROVE  Spec => []RestMeansDone
<1>1. TypeInv /\ RestInv => RestMeansDone
  <2> SUFFICES ASSUME TypeInv, RestInv, Quiet, Unharmed,
                      NEW e \in Executions, record[e] # "none"
               PROVE  Completed(e) \/ Failed(e)
    BY DEF RestMeansDone, Unharmed
  <2>1. CompletedIn(log, e) \/ FailedIn(log, e) \/ Live(e)
    BY DEF RestInv, LiveOK
  <2>2. ~Live(e)
    BY QuietMeans DEF RestInv, Live
  <2> QED
    BY <2>1, <2>2, OutcomeFacts
<1> QED
  BY <1>1, RestInvariance, PTL

(* ... and the stored status of every completed execution says so: the     *)
(* goroutine that published workflow.completed, or one that found the      *)
(* execution completed, has written the record after the last of the       *)
(* writes that could have put back an older status.                        *)
THEOREM RestMeansRecordedHolds ==
  ASSUME OneWorker
  PROVE  Spec => []RestMeansRecorded
<1>1. TypeInv /\ RestInv => RestMeansRecorded
  <2> SUFFICES ASSUME TypeInv, RestInv, Quiet, Unharmed,
                      NEW e \in Executions, Completed(e)
               PROVE  record[e] = "completed"
    BY DEF RestMeansRecorded, Unharmed
  <2>1. record[e] = "completed" \/ Finishing(e)
    BY OutcomeFacts DEF RestInv, FinishedOK
  <2>2. ~Finishing(e)
    BY QuietMeans DEF RestInv
  <2> QED
    BY <2>1, <2>2
<1> QED
  BY <1>1, RestInvariance, PTL

(* A stored "completed" is final for one worker process, whatever crashes, *)
(* gets lost or reports a failure, as long as no history is read as empty: *)
(* the stream shows the execution completed, so any later goroutine        *)
(* replays it as completed or completes it once more.                      *)
THEOREM CompletedStays ==
  ASSUME OneWorker
  PROVE  Spec => [][\A e \in Executions :
                      record[e] = "completed" => record'[e] = "completed"]_vars
<1>1. Init => BackedInv
  BY InitBacked
<1>2. TypeInv /\ OrderInv /\ BackedInv /\ [Next]_vars => BackedInv'
  BY StepBacked
<1>3. TypeInv /\ OneWorkerInv /\ RestInv /\ BackedInv /\ [Next]_vars =>
        \A e \in Executions : record[e] = "completed" => record'[e] = "completed"
  <2> SUFFICES ASSUME TypeInv, OneWorkerInv, PlacesOK, BackedInv, [Next]_vars,
                      NEW e \in Executions, record[e] = "completed"
               PROVE  record'[e] = "completed"
    BY DEF RestInv
  <2>1. CompletedIn(log, e)
    BY DEF BackedInv, RecordsBacked, Backed
  <2>2. CASE record' = record
    BY <2>2
  <2>3. ASSUME NEW x \in Executions, ExecuteWorkflow(x)
        PROVE  record'[e] = "completed"
    <3>1. record[x] = "none" /\ record' = [record EXCEPT ![x] = "pending"]
      BY <2>3 DEF ExecuteWorkflow
    <3>2. record \in [Executions -> RecordStatuses]
      BY DEF TypeInv, TypeOK
    <3> QED
      BY <3>1, <3>2
  <2>4. ASSUME NEW w \in Workers, NEW g \in Permits,
               \/ CompleteRecord(w, g) \/ UpdateRecord(w, g)
               \/ UpdateRecordFails(w, g)
        PROVE  record'[e] = "completed"
    BY <2>1, <2>4, WritesCompleted
  <2>5. \/ record' = record
        \/ \E x \in Executions : ExecuteWorkflow(x)
        \/ \E w \in Workers, g \in Permits :
             \/ CompleteRecord(w, g) \/ UpdateRecord(w, g)
             \/ UpdateRecordFails(w, g)
    <3>1. CASE \E w \in Workers : Deliver(w) \/ Crash(w) \/ Stop(w) \/ Restart(w)
      BY <3>1 DEF Deliver, Crash, Stop, Restart
    <3>2. CASE \E w \in Workers, g \in Permits :
                 Goroutine(w, g) \/ GoroutineFails(w, g)
      BY <3>2 DEF Goroutine, GoroutineFails, Spawn, Skip, Rebuild, PublishStep,
         DeadLetter, Acknowledge, RebuildFails, RebuildBlind, PublishStepFails
    <3>3. CASE \E i \in DOMAIN log : Answer(i) \/ Drop(i)
      BY <3>3 DEF Answer, Drop, ExecutorAnswers, TimerFires, ExecutorDrops,
         TimerDrops
    <3>4. CASE UNCHANGED vars
      BY <3>4 DEF vars
    <3> QED
      BY <3>1, <3>2, <3>3, <3>4 DEF Next
  <2> QED
    BY <2>2, <2>3, <2>4, <2>5
<1>4. Spec => []BackedInv
  BY <1>1, <1>2, OrderInvariance, PTL DEF Spec
<1> QED
  BY <1>3, <1>4, RestInvariance, PTL DEF Spec

(* The triggering event, applied a second time to a replay that contains   *)
(* it and perhaps later events, does not change the step that is chosen.   *)
TriggerHarmless == \A i \in DOMAIN log :
  LET st == replay[log[i].execution]
  IN  Relevant(log[i]) => NextStep(ProcessEvent(st, log[i])) = NextStep(st)

(* TriggerIrrelevant for the replays kept with the stream.  A success      *)
(* already counted is not counted twice, and the request it answers left   *)
(* the pending list with it.                                               *)
THEOREM TriggerHarmlessHolds ==
  ASSUME OneWorker
  PROVE  Spec => []TriggerHarmless
<1>1. TypeInv /\ OrderInv /\ OneWorkerInv /\ RestInv => TriggerHarmless
  <2> SUFFICES ASSUME TypeInv, OrderInv, OneWorkerInv, PendingOK,
                      NEW i \in DOMAIN log, Relevant(log[i])
               PROVE  LET st == replay[log[i].execution]
                      IN  NextStep(ProcessEvent(st, log[i])) = NextStep(st)
    BY DEF TriggerHarmless, RestInv
  <2> DEFINE ev == log[i]
             e  == ev.execution
             st == replay[e]
             su == ProcessEvent(st, ev)
  <2>1. /\ ev.type \in {"execution.started", "task.completed", "timer.fired"}
        /\ e \in Executions /\ WellFormed(ev) /\ st \in EngineState
    BY DEF Relevant, Subscribed, Skipped, OneWorkerInv, StartedOK, TypeInv,
       TypeOK, StreamOK
  <2>2. su.completed = st.completed
    BY <2>1, RebuildOrdered
  <2>3. su.pending = st.pending
    <3>1. CASE IsReport(ev)
      <4>1. st.pending \in [TaskNames -> Nat] /\ ev.task \in TaskNames
        BY <2>1, <3>1 DEF EngineState, WellFormed, IsReport
      <4>2. Achieved(log, e, ev.task)
        BY <3>1 DEF Achieved, Reports, IsReport
      <4>3. ~(st.pending[ev.task] > 0)
        BY <2>1, <4>1, <4>2 DEF PendingOK
      <4>4. su.pending = [st.pending EXCEPT ![ev.task] = IF @ > 0 THEN @ - 1 ELSE 0]
        BY <2>1, <3>1 DEF ProcessEvent, IsReport, TaskCompleted, EngineState
      <4>5. st.pending[ev.task] = 0
        BY <4>1, <4>3
      <4> HIDE DEF su, st
      <4> QED
        BY <4>1, <4>4, <4>5
    <3>2. CASE ~IsReport(ev)
      BY <2>1, <3>2 DEF ProcessEvent, IsReport, TaskCompleted, EngineState
    <3> QED
      BY <3>1, <3>2
  <2> HIDE DEF su, st
  <2>4. GetNextTask(su) = GetNextTask(st)
    BY <2>2, <2>3 DEF GetNextTask, Done
  <2>5. AnyPending(su) = AnyPending(st)
    BY <2>3 DEF AnyPending
  <2>6. NextStep(su) = NextStep(st)
    BY <2>2, <2>4, <2>5 DEF NextStep
  <2> QED
    BY <2>6 DEF su, st
<1> QED
  BY <1>1, RestInvariance, PTL

(* TriggerIrrelevant: ProcessWorkflowEvent applies the triggering event to *)
(* a state rebuilt from a history that has it already, and the step that   *)
(* executeNextSDLStep then takes is the step of the history alone.         *)
THEOREM TriggerIrrelevantHolds ==
  ASSUME OneWorker
  PROVE  Spec => []TriggerIrrelevant
<1>1. TypeInv /\ OneWorkerInv /\ TriggerHarmless /\ ReplayIsRebuilt
        => TriggerIrrelevant
  <2> SUFFICES ASSUME OneWorkerInv, TriggerHarmless, ReplayIsRebuilt,
                      NEW i \in DOMAIN log,
                      Subscribed(log[i]), ~Skipped(log[i])
               PROVE  LET st == RebuildState(History(log[i].execution))
                      IN  NextStep(ProcessEvent(st, log[i])) = NextStep(st)
    BY DEF TriggerIrrelevant
  <2>1. Relevant(log[i])
    BY DEF Relevant
  <2>2. log[i].execution \in Executions
    BY <2>1 DEF Relevant, Subscribed, Skipped, OneWorkerInv, StartedOK
  <2>3. replay[log[i].execution] = RebuildState(History(log[i].execution))
    BY <2>2 DEF ReplayIsRebuilt
  <2> QED
    BY <2>1, <2>3 DEF TriggerHarmless
<1> QED
  BY <1>1, OneWorkerInvariance, TriggerHarmlessHolds, ReplayIsRebuiltHolds,
     TypeInvariance, PTL

-----------------------------------------------------------------------------
(* The outcome.  As long as no call to Redis fails, an execution has one   *)
(* thing at a time that a running process will act on, and none once its   *)
(* outcome is stored or about to be.  Crashes, stops and losses only take  *)
(* things away.                                                            *)

(* The group hands an entry to one goroutine.                              *)
DeliveredOnce ==
  /\ \A w \in Workers : \A k \in DOMAIN inbox[w] : inbox[w][k] <= cursor
  /\ \A w \in Workers, g \in Permits :
       job[w][g].phase # "idle" => job[w][g].entry <= cursor
  /\ \A v, w \in Workers : \A k \in DOMAIN inbox[v], l \in DOMAIN inbox[w] :
       inbox[v][k] = inbox[w][l] => v = w /\ k = l
  /\ \A v, w \in Workers, g \in Permits : \A k \in DOMAIN inbox[v] :
       job[w][g].phase # "idle" => job[w][g].entry # inbox[v][k]
  /\ \A v, w \in Workers, g, h \in Permits :
       /\ job[v][g].phase # "idle" /\ job[w][h].phase # "idle"
       /\ job[v][g].entry = job[w][h].entry
       => v = w /\ g = h

(* Somebody will act on entry i: not a process that has been stopped.      *)
Pursued(i) ==
  \/ log[i].type \in {"task.requested", "timer.scheduled"} /\ i \notin answered
  \/ /\ Relevant(log[i])
     /\ \/ i > cursor
        \/ \E w \in Workers : ~closed[w] /\ \E k \in DOMAIN inbox[w] : inbox[w][k] = i
        \/ \E w \in Workers, g \in Permits :
             /\ ~closed[w] /\ job[w][g].entry = i
             /\ job[w][g].phase \in {"locking", "publishing"}

Exhausted(e) == \A i \in DOMAIN log : log[i].execution = e => ~Pursued(i)

OnePursued == \A i, h \in DOMAIN log :
  Pursued(i) /\ Pursued(h) /\ log[i].execution = log[h].execution => i = h

Outcomes == {"completed", "failed"}

(* What goroutine g of process w is about to store, and what is stored.    *)
OutcomeOK(w, g) ==
  LET j == job[w][g]
  IN  /\ j.phase = "publishing" /\ j.state.status \in Outcomes =>
           j.step.action = "complete"
      /\ j.phase = "completing" => j.state.status = "completed"
      /\ j.phase \in {"completing", "recording"} =>
           /\ j.state.status \in Outcomes => Exhausted(j.state.context)
           /\ record[j.state.context] \in Outcomes =>
                j.state.status = record[j.state.context]

OutcomesOK ==
  /\ \A e \in Executions : record[e] \in Outcomes => Exhausted(e)
  /\ \A w \in Workers, g \in Permits : ~closed[w] => OutcomeOK(w, g)

OutcomeInv == DeliveredOnce /\ OnePursued /\ OutcomesOK

LEMMA DeliveredKept ==
  ASSUME DeliveredOnce, cursor' = cursor,
         \A v \in Workers : inbox'[v] \in {inbox[v], <<>>},
         \A v \in Workers, h \in Permits : job'[v][h].phase # "idle" =>
           /\ job[v][h].phase # "idle"
           /\ job'[v][h].entry = job[v][h].entry
  PROVE  DeliveredOnce'
<1>1. \A v \in Workers : \A k \in DOMAIN inbox'[v] :
        k \in DOMAIN inbox[v] /\ inbox'[v][k] = inbox[v][k]
  BY SMT
<1> QED
  BY <1>1 DEF DeliveredOnce

(* The steps of a goroutine that has taken its event.                      *)
LEMMA GoroutineJob ==
  ASSUME TypeInv, NEW w \in Workers, NEW g \in Permits,
         Goroutine(w, g) \/ GoroutineFails(w, g), ~Spawn(w, g)
  PROVE  /\ cursor' = cursor /\ inbox' = inbox /\ job[w][g].phase # "idle"
         /\ \E j \in Job : /\ SetJob(w, g, j)
                           /\ \/ j.entry = job[w][g].entry
                              \/ j.phase = "idle"
<1>1. /\ cursor' = cursor /\ inbox' = inbox
  BY DEF Goroutine, GoroutineFails, Skip, Rebuild, PublishStep,
     CompleteRecord, UpdateRecord, DeadLetter, Acknowledge, RebuildFails,
     RebuildBlind, PublishStepFails, UpdateRecordFails, groupVars
<1>2. job[w][g].phase # "idle"
  BY DEF Goroutine, GoroutineFails, Skip, Rebuild, PublishStep,
     CompleteRecord, UpdateRecord, DeadLetter, Acknowledge, RebuildFails,
     RebuildBlind, PublishStepFails, UpdateRecordFails, Handles
<1>3. \E j \in Job : SetJob(w, g, j) /\ (j.entry = job[w][g].entry \/ j.phase = "idle")
  <2>1. CASE \/ Skip(w, g) \/ UpdateRecord(w, g) \/ DeadLetter(w, g)
             \/ Acknowledge(w, g)
    BY <2>1, LeaveJob
  <2>2. CASE AfterError(w, g)
    BY <2>2, RetryJob
  <2>3. CASE PublishStep(w, g)
    BY <2>3, PublishedJob
  <2>4. CASE CompleteRecord(w, g)
    BY <2>4, CompleteJob
  <2>5. CASE (Rebuild(w, g) \/ RebuildBlind(w, g)) /\ ~AfterError(w, g)
    <3>1. PICK st \in EngineState : Decide(w, g, st)
      <4> DEFINE ev == log[job[w][g].entry]
      <4>1. WellFormed(ev)
        BY <1>2, JobFacts
      <4>2. EmptyState \in EngineState
        BY DEF EmptyState, EngineState, Statuses
      <4>3. ASSUME Rebuild(w, g)
            PROVE  /\ ProcessEvent(replay[ev.execution], ev) \in EngineState
                   /\ Decide(w, g, ProcessEvent(replay[ev.execution], ev))
        <5>1. ev.execution \in Executions
          BY <4>1, <4>3 DEF Rebuild, WellFormed, Event
        <5>2. replay[ev.execution] \in EngineState
          BY <5>1 DEF TypeInv, TypeOK
        <5> QED
          BY <4>1, <4>3, <5>2, ProcessEventTyped DEF Rebuild
      <4>4. ASSUME RebuildBlind(w, g)
            PROVE  /\ ProcessEvent(EmptyState, ev) \in EngineState
                   /\ Decide(w, g, ProcessEvent(EmptyState, ev))
        BY <4>1, <4>2, <4>4, ProcessEventTyped DEF RebuildBlind
      <4> QED
        BY <2>5, <4>3, <4>4
    <3> QED
      BY <2>5, <3>1, DecideJob
  <2> QED
    BY <2>1, <2>2, <2>3, <2>4, <2>5 DEF Goroutine, GoroutineFails,
       RebuildFails, PublishStepFails, UpdateRecordFails
<1> QED
  BY <1>1, <1>2, <1>3

LEMMA DeliverOnce ==
  ASSUME TypeInv, DeliveredOnce, NEW w \in Workers, Deliver(w)
  PROVE  DeliveredOnce'
<1>1. /\ cursor \in Nat /\ cursor' = cursor + 1 /\ job' = job
      /\ inbox \in [Workers -> Seq(Positions)]
      /\ \A v \in Workers : \A k \in DOMAIN inbox[v] : inbox[v][k] \in Nat
      /\ \A v \in Workers, h \in Permits : job[v][h].entry \in Nat
  BY DEF Deliver, workerVars, TypeInv, TypeOK, Positions, Job
<1>2. CASE inbox' = inbox
  BY <1>1, <1>2 DEF DeliveredOnce
<1>3. CASE inbox' = [inbox EXCEPT ![w] = Append(@, cursor + 1)]
  <2> DEFINE n == Len(inbox[w]) + 1
  <2>1. /\ \A v \in Workers : v # w => inbox'[v] = inbox[v]
        /\ inbox'[w] = Append(inbox[w], cursor + 1)
    BY <1>1, <1>3
  <2>2. /\ DOMAIN inbox'[w] = DOMAIN inbox[w] \cup {n}
        /\ \A k \in DOMAIN inbox[w] : inbox'[w][k] = inbox[w][k]
        /\ inbox'[w][n] = cursor + 1
    <3>1. inbox[w] \in Seq(Positions) /\ cursor + 1 \in Positions
      BY <1>1 DEF Positions
    <3> QED
      BY <2>1, <3>1
  <2>3. \A v \in Workers : \A k \in DOMAIN inbox'[v] :
          \/ k \in DOMAIN inbox[v] /\ inbox'[v][k] = inbox[v][k]
          \/ v = w /\ k = n /\ inbox'[v][k] = cursor + 1
    BY <2>1, <2>2
  <2> HIDE DEF n
  <2>4. \A v \in Workers : \A k \in DOMAIN inbox[v] : inbox[v][k] # cursor + 1
    BY <1>1 DEF DeliveredOnce
  <2>5. \A v \in Workers, h \in Permits :
          job[v][h].phase # "idle" => job[v][h].entry # cursor + 1
    BY <1>1 DEF DeliveredOnce
  <2>6. /\ \A v \in Workers : \A k \in DOMAIN inbox'[v] : inbox'[v][k] <= cursor'
        /\ \A v \in Workers, h \in Permits :
             job'[v][h].phase # "idle" => job'[v][h].entry <= cursor'
    BY <1>1, <2>3 DEF DeliveredOnce
  <2>7. \A u, v \in Workers : \A k \in DOMAIN inbox'[u], l \in DOMAIN inbox'[v] :
          inbox'[u][k] = inbox'[v][l] => u = v /\ k = l
    BY <2>3, <2>4 DEF DeliveredOnce
  <2>8. \A u, v \in Workers, h \in Permits : \A k \in DOMAIN inbox'[u] :
          job'[v][h].phase # "idle" => job'[v][h].entry # inbox'[u][k]
    BY <1>1, <2>3, <2>5 DEF DeliveredOnce
  <2>9. \A u, v \in Workers, g, h \in Permits :
          /\ job'[u][g].phase # "idle" /\ job'[v][h].phase # "idle"
          /\ job'[u][g].entry = job'[v][h].entry
          => u = v /\ g = h
    BY <1>1 DEF DeliveredOnce
  <2> QED
    BY <2>6, <2>7, <2>8, <2>9 DEF DeliveredOnce
<1> QED
  BY <1>2, <1>3 DEF Deliver

LEMMA SpawnOnce ==
  ASSUME TypeInv, DeliveredOnce, NEW w \in Workers, NEW g \in Permits, Spawn(w, g)
  PROVE  DeliveredOnce'
<1>1. /\ cursor' = cursor /\ inbox[w] # <<>>
      /\ inbox' = [inbox EXCEPT ![w] = Tail(@)]
  BY DEF Spawn
<1>2. PICK j \in Job : SetJob(w, g, j) /\ j.entry = Head(inbox[w])
  BY SpawnJob
<1>3. job'[w][g] = j /\ \A v \in Workers, h \in Permits :
                          v # w \/ h # g => job'[v][h] = job[v][h]
  BY <1>2, SetJobTyped
<1>4. inbox \in [Workers -> Seq(Positions)]
  BY DEF TypeInv, TypeOK
<1>5. /\ 1 \in DOMAIN inbox[w] /\ inbox[w][1] = j.entry
      /\ \A k \in DOMAIN Tail(inbox[w]) :
           /\ k + 1 \in DOMAIN inbox[w] /\ k + 1 # 1 /\ k \in Nat
           /\ Tail(inbox[w])[k] = inbox[w][k + 1]
  BY <1>1, <1>2, <1>4
<1>6. /\ \A v \in Workers : v # w => inbox'[v] = inbox[v]
      /\ inbox'[w] = Tail(inbox[w])
  BY <1>1, <1>4
<1>7. \A k \in DOMAIN inbox'[w] :
        /\ k + 1 \in DOMAIN inbox[w] /\ k + 1 # 1 /\ k \in Nat
        /\ inbox'[w][k] = inbox[w][k + 1]
  BY <1>5, <1>6
<1>8. /\ \A v \in Workers : \A k \in DOMAIN inbox'[v] : inbox'[v][k] <= cursor'
      /\ \A v \in Workers, h \in Permits :
           job'[v][h].phase # "idle" => job'[v][h].entry <= cursor'
  BY <1>1, <1>3, <1>5, <1>6, <1>7 DEF DeliveredOnce
<1>9. ASSUME NEW u \in Workers, NEW v \in Workers,
             NEW k \in DOMAIN inbox'[u], NEW l \in DOMAIN inbox'[v],
             inbox'[u][k] = inbox'[v][l]
      PROVE  u = v /\ k = l
  <2>1. CASE u = w /\ v = w
    <3>1. k + 1 = l + 1
      BY <1>7, <1>9, <2>1 DEF DeliveredOnce
    <3> QED
      BY <1>7, <2>1, <3>1
  <2>2. CASE u = w /\ v # w
    <3>1. /\ k + 1 \in DOMAIN inbox[w] /\ l \in DOMAIN inbox[v]
          /\ inbox[w][k + 1] = inbox[v][l]
      BY <1>6, <1>7, <1>9, <2>2
    <3> QED
      BY <2>2, <3>1 DEF DeliveredOnce
  <2>3. CASE u # w /\ v = w
    <3>1. /\ l + 1 \in DOMAIN inbox[w] /\ k \in DOMAIN inbox[u]
          /\ inbox[w][l + 1] = inbox[u][k]
      BY <1>6, <1>7, <1>9, <2>3
    <3> QED
      BY <2>3, <3>1 DEF DeliveredOnce
  <2>4. CASE u # w /\ v # w
    BY <1>6, <1>9, <2>4 DEF DeliveredOnce
  <2> QED
    BY <2>1, <2>2, <2>3, <2>4
<1>10. ASSUME NEW u \in Workers, NEW v \in Workers, NEW h \in Permits,
              NEW k \in DOMAIN inbox'[u], job'[v][h].phase # "idle"
       PROVE  job'[v][h].entry # inbox'[u][k]
  <2>1. CASE v = w /\ h = g
    <3>1. CASE u = w
      <4>1. inbox[w][1] # inbox[w][k + 1]
        BY <1>5, <1>7, <1>10, <3>1 DEF DeliveredOnce
      <4> QED
        BY <1>3, <1>5, <1>7, <1>10, <2>1, <3>1, <4>1
    <3>2. CASE u # w
      <4>1. inbox[w][1] # inbox[u][k]
        BY <1>5, <1>6, <1>10, <3>2 DEF DeliveredOnce
      <4> QED
        BY <1>3, <1>5, <1>6, <2>1, <3>2, <4>1
    <3> QED
      BY <3>1, <3>2
  <2>2. CASE v # w \/ h # g
    <3>1. job[v][h].phase # "idle" /\ job'[v][h] = job[v][h]
      BY <1>3, <1>10, <2>2
    <3>2. CASE u = w
      BY <1>7, <1>10, <3>1, <3>2 DEF DeliveredOnce
    <3>3. CASE u # w
      BY <1>6, <1>10, <3>1, <3>3 DEF DeliveredOnce
    <3> QED
      BY <3>2, <3>3
  <2> QED
    BY <2>1, <2>2
<1>11. \A u, v \in Workers, x, h \in Permits :
         /\ job'[u][x].phase # "idle" /\ job'[v][h].phase # "idle"
         /\ job'[u][x].entry = job'[v][h].entry
         => u = v /\ x = h
  <2>1. \A v \in Workers, h \in Permits :
          job[v][h].phase # "idle" => job[v][h].entry # j.entry
    BY <1>5 DEF DeliveredOnce
  <2> QED
    BY <1>3, <2>1 DEF DeliveredOnce
<1> QED
  BY <1>8, <1>9, <1>10, <1>11 DEF DeliveredOnce

LEMMA OnceHolds ==
  ASSUME TypeInv, DeliveredOnce, [Next]_vars
  PROVE  DeliveredOnce'
<1>1. ASSUME NEW w \in Workers, NEW g \in Permits,
             Goroutine(w, g) \/ GoroutineFails(w, g), ~Spawn(w, g)
      PROVE  DeliveredOnce'
  <2>1. /\ cursor' = cursor /\ inbox' = inbox /\ job[w][g].phase # "idle"
        /\ \E j \in Job : /\ SetJob(w, g, j)
                          /\ \/ j.entry = job[w][g].entry
                             \/ j.phase = "idle"
    BY <1>1, GoroutineJob
  <2>2. PICK j \in Job : SetJob(w, g, j) /\ (j.entry = job[w][g].entry \/ j.phase = "idle")
    BY <2>1
  <2>3. job'[w][g] = j /\ \A v \in Workers, h \in Permits :
                            v # w \/ h # g => job'[v][h] = job[v][h]
    BY <2>2, SetJobTyped
  <2> QED
    BY <2>1, <2>2, <2>3, DeliveredKept
<1>2. ASSUME NEW w \in Workers, Crash(w) PROVE DeliveredOnce'
  <2>1. /\ cursor' = cursor
        /\ inbox' = [inbox EXCEPT ![w] = <<>>]
        /\ job' = [job EXCEPT ![w] = [g \in Permits |-> IdleJob]]
    BY <1>2 DEF Crash
  <2>2. \A v \in Workers : inbox'[v] \in {inbox[v], <<>>}
    BY <2>1 DEF TypeInv, TypeOK
  <2>3. \A v \in Workers, h \in Permits :
          job'[v][h] = job[v][h] \/ job'[v][h] = IdleJob
    BY <2>1 DEF TypeInv, TypeOK
  <2>4. IdleJob.phase = "idle"
    BY DEF IdleJob
  <2> QED
    BY <2>1, <2>2, <2>3, <2>4, DeliveredKept
<1>3. ASSUME NEW w \in Workers, Restart(w) PROVE DeliveredOnce'
  <2>1. /\ cursor' = cursor /\ job' = job
        /\ inbox' = [inbox EXCEPT ![w] = <<>>]
    BY <1>3 DEF Restart
  <2>2. \A v \in Workers : inbox'[v] \in {inbox[v], <<>>}
    BY <2>1 DEF TypeInv, TypeOK
  <2> QED
    BY <2>1, <2>2, DeliveredKept
<1>4. CASE cursor' = cursor /\ inbox' = inbox /\ job' = job
  BY <1>4, DeliveredKept
<1>5. \/ cursor' = cursor /\ inbox' = inbox /\ job' = job
      \/ \E w \in Workers : Deliver(w) \/ Crash(w) \/ Restart(w)
      \/ \E w \in Workers, g \in Permits : Goroutine(w, g) \/ GoroutineFails(w, g)
  BY DEF Next, ExecuteWorkflow, Stop, Answer, Drop, ExecutorAnswers,
     TimerFires, ExecutorDrops, TimerDrops, groupVars, workerVars, vars
<1> QED
  BY <1>1, <1>2, <1>3, <1>4, <1>5, SpawnOnce, DeliverOnce

(* With MaxFaults = 0 a call fails only on a connection that Stop closed.  *)
LEMMA FaultMeansClosed ==
  ASSUME TypeInv, MaxFaults = 0, NEW w \in Workers, Fault(w)
  PROVE  closed[w] /\ UNCHANGED budgets
<1>1. faults = 0
  BY DEF TypeInv, TypeOK
<1>2. closed[w]
  BY <1>1 DEF Fault
<1> QED
  BY <1>2 DEF Fault

LEMMA FailingCall ==
  ASSUME TypeInv, OneWorkerInv, MaxFaults = 0, NEW w \in Workers, NEW g \in Permits,
         GoroutineFails(w, g)
  PROVE  closed[w] /\ UNCHANGED streamVars /\ record' = record
<1>1. CASE RebuildFails(w, g)
  <2>1. job[w][g].phase = "locking" /\ ~Skipped(log[job[w][g].entry])
    BY <1>1 DEF RebuildFails, Handles
  <2>2. log[job[w][g].entry].execution \in Executions
    BY <2>1, JobFacts DEF Skipped, OneWorkerInv, StartedOK
  <2>3. Fault(w)
    BY <1>1, <2>2, ExecutionsAssumption DEF RebuildFails
  <2> QED
    BY <1>1, <2>3, FaultMeansClosed DEF RebuildFails
<1>2. CASE RebuildBlind(w, g)
  BY <1>2, FaultMeansClosed DEF RebuildBlind
<1>3. CASE PublishStepFails(w, g)
  <2>1. PublishFails(w, JobEvent(w, g)) /\ record' = record
    BY <1>3 DEF PublishStepFails
  <2>2. closed[w]
    BY <2>1, FaultMeansClosed DEF PublishFails
  <2> QED
    BY <2>1, <2>2 DEF PublishFails
<1>4. CASE UpdateRecordFails(w, g)
  BY <1>4, FaultMeansClosed DEF UpdateRecordFails
<1> QED
  BY <1>1, <1>2, <1>3, <1>4 DEF GoroutineFails

(* A goroutine that has published, or found nothing to do, is done with    *)
(* its entry.                                                              *)
LEMMA HandledGone ==
  ASSUME TypeInv', DeliveredOnce', NEW w \in Workers, NEW g \in Permits,
         job'[w][g].phase \notin {"idle", "locking", "publishing"},
         NEW i, i = job'[w][g].entry, Subscribed(log'[i])
  PROVE  ~Pursued(i)'
<1>1. i \in Nat /\ cursor' \in Nat
  BY DEF TypeInv, TypeOK, Job
<1>2. log'[i].type \notin {"task.requested", "timer.scheduled"}
  BY DEF Subscribed
<1>3. ~(i > cursor')
  BY <1>1 DEF DeliveredOnce
<1>4. \A v \in Workers : \A k \in DOMAIN inbox'[v] : inbox'[v][k] # i
  BY DEF DeliveredOnce
<1>5. \A v \in Workers, h \in Permits :
        job'[v][h].entry = i => job'[v][h].phase \notin {"locking", "publishing"}
  BY DEF DeliveredOnce
<1> QED
  BY <1>2, <1>3, <1>4, <1>5 DEF Pursued

(* An entry pursued belongs to an execution.                               *)
LEMMA PursuedExecution ==
  ASSUME OneWorkerInv, NEW i \in DOMAIN log, Pursued(i)
  PROVE  log[i].execution \in Executions
<1>1. log[i].type # "workflow.created"
  BY DEF Pursued, Relevant, Skipped
<1> QED
  BY <1>1 DEF OneWorkerInv, StartedOK

LEMMA DeliverRevives ==
  ASSUME TypeInv, NEW w \in Workers, Deliver(w), NEW i \in DOMAIN log, Pursued(i)'
  PROVE  Pursued(i)
<1>1. /\ log' = log /\ answered' = answered /\ closed' = closed /\ job' = job
      /\ cursor \in Nat /\ cursor' = cursor + 1 /\ i \in Nat
      /\ inbox \in [Workers -> Seq(Positions)] /\ cursor + 1 \in Positions
  BY DEF Deliver, streamVars, workerVars, TypeInv, TypeOK, Positions
<1>2. ASSUME NEW v \in Workers, NEW k \in DOMAIN inbox'[v], inbox'[v][k] = i
      PROVE  i > cursor \/ \E l \in DOMAIN inbox[v] : inbox[v][l] = i
  <2>1. CASE inbox'[v] = inbox[v]
    BY <1>2, <2>1
  <2>2. CASE inbox'[v] # inbox[v]
    <3>1. inbox'[v] = Append(inbox[v], cursor + 1)
      BY <1>1, <2>2 DEF Deliver
    <3>2. \/ inbox'[v][k] = cursor + 1
          \/ k \in DOMAIN inbox[v] /\ inbox'[v][k] = inbox[v][k]
      BY <1>1, <1>2, <3>1
    <3> QED
      BY <1>1, <1>2, <3>2
  <2> QED
    BY <2>1, <2>2
<1>3. i > cursor' => i > cursor
  BY <1>1
<1> QED
  BY <1>1, <1>2, <1>3 DEF Pursued

(* No step of the system makes a settled entry pursued again.              *)
LEMMA NotRevived ==
  ASSUME TypeInv, OneWorkerInv, MaxFaults = 0, Continues(log, log'), [Next]_vars,
         NEW i \in DOMAIN log, Pursued(i)'
  PROVE  Pursued(i)
<1>1. log'[i] = log[i]
  BY DEF Continues
<1>2. CASE \E w \in Workers : Deliver(w)
  BY <1>2, DeliverRevives
<1>3. ASSUME answered \subseteq answered', cursor' = cursor,
             \A v \in Workers : ~closed'[v] =>
               /\ \A k \in DOMAIN inbox'[v] :
                    inbox'[v][k] = i => ~closed[v] /\ \E l \in DOMAIN inbox[v] : inbox[v][l] = i
               /\ \A h \in Permits :
                    /\ job'[v][h].entry = i
                    /\ job'[v][h].phase \in {"locking", "publishing"}
                    => /\ ~closed[v]
                       /\ \/ \E l \in DOMAIN inbox[v] : inbox[v][l] = i
                          \/ /\ job[v][h].entry = i
                             /\ job[v][h].phase \in {"locking", "publishing"}
      PROVE  Pursued(i)
  BY <1>1, <1>3 DEF Pursued
<1>4. ASSUME answered \subseteq answered', cursor' = cursor, inbox' = inbox,
             job' = job, \A v \in Workers : ~closed'[v] => ~closed[v]
      PROVE  Pursued(i)
  BY <1>3, <1>4
<1>5. ASSUME NEW w \in Workers, Crash(w) \/ Restart(w) PROVE Pursued(i)
  <2>1. /\ cursor' = cursor /\ answered' = answered
        /\ inbox' = [inbox EXCEPT ![w] = <<>>]
        /\ closed' = [closed EXCEPT ![w] = FALSE]
    BY <1>5 DEF Crash, Restart
  <2>2. /\ inbox'[w] = <<>>
        /\ \A v \in Workers : v # w => inbox'[v] = inbox[v] /\ closed'[v] = closed[v]
    BY <2>1 DEF TypeInv, TypeOK
  <2>3. /\ \A h \in Permits : job'[w][h].phase = "idle"
        /\ \A v \in Workers, h \in Permits : v # w => job'[v][h] = job[v][h]
    <3>1. CASE Crash(w)
      <4>1. job' = [job EXCEPT ![w] = [g \in Permits |-> IdleJob]]
        BY <3>1 DEF Crash
      <4>2. IdleJob.phase = "idle"
        BY DEF IdleJob
      <4> QED
        BY <4>1, <4>2 DEF TypeInv, TypeOK
    <3>2. CASE Restart(w)
      BY <3>2 DEF Restart
    <3> QED
      BY <1>5, <3>1, <3>2
  <2> QED
    BY <1>3, <2>1, <2>2, <2>3
<1>6. ASSUME NEW w \in Workers, Stop(w) PROVE Pursued(i)
  <2>1. /\ cursor' = cursor /\ answered' = answered /\ inbox' = inbox
        /\ job' = job /\ closed' = [closed EXCEPT ![w] = TRUE]
    BY <1>6 DEF Stop, groupVars
  <2>2. \A v \in Workers : ~closed'[v] => ~closed[v]
    BY <2>1 DEF TypeInv, TypeOK
  <2> QED
    BY <1>4, <2>1, <2>2
<1>7. ASSUME NEW w \in Workers, NEW g \in Permits, Spawn(w, g) PROVE Pursued(i)
  <2>1. /\ cursor' = cursor /\ answered' = answered /\ closed' = closed
        /\ inbox[w] # <<>> /\ inbox' = [inbox EXCEPT ![w] = Tail(@)]
    BY <1>7 DEF Spawn
  <2>2. PICK j \in Job : SetJob(w, g, j) /\ j.entry = Head(inbox[w])
    BY <1>7, SpawnJob
  <2>3. job'[w][g] = j /\ \A v \in Workers, h \in Permits :
                            v # w \/ h # g => job'[v][h] = job[v][h]
    BY <2>2, SetJobTyped
  <2>4. inbox \in [Workers -> Seq(Positions)]
    BY DEF TypeInv, TypeOK
  <2>5. /\ 1 \in DOMAIN inbox[w] /\ inbox[w][1] = j.entry
        /\ \A k \in DOMAIN Tail(inbox[w]) :
             k + 1 \in DOMAIN inbox[w] /\ Tail(inbox[w])[k] = inbox[w][k + 1]
    BY <2>1, <2>2, <2>4
  <2>6. \A v \in Workers : inbox'[v] = IF v = w THEN Tail(inbox[w]) ELSE inbox[v]
    BY <2>1, <2>4
  <2>7. \A v \in Workers : \A k \in DOMAIN inbox'[v] :
          \E l \in DOMAIN inbox[v] : inbox[v][l] = inbox'[v][k]
    BY <2>5, <2>6
  <2>8. \A v \in Workers, h \in Permits :
          \/ job'[v][h] = job[v][h]
          \/ \E l \in DOMAIN inbox[v] : inbox[v][l] = job'[v][h].entry
    BY <2>3, <2>5
  <2> QED
    BY <1>3, <2>1, <2>7, <2>8
<1>8. ASSUME NEW w \in Workers, NEW g \in Permits,
             Goroutine(w, g) \/ GoroutineFails(w, g), ~Spawn(w, g)
      PROVE  Pursued(i)
  <2>1. cursor' = cursor /\ inbox' = inbox /\ answered' = answered /\ closed' = closed
    BY <1>8, GoroutineJob, GoroutineHarm
  <2>2. PICK j \in Job : SetJob(w, g, j) /\ (j.entry = job[w][g].entry \/ j.phase = "idle")
    BY <1>8, GoroutineJob
  <2>3. job'[w][g] = j /\ \A v \in Workers, h \in Permits :
                            v # w \/ h # g => job'[v][h] = job[v][h]
    BY <2>2, SetJobTyped
  <2>4. \/ closed[w] /\ GoroutineFails(w, g)
        \/ job[w][g].phase \in {"locking", "publishing"}
        \/ j.phase \notin {"locking", "publishing"}
    <3>1. CASE GoroutineFails(w, g)
      BY <3>1, FailingCall
    <3>2. CASE Skip(w, g) \/ Rebuild(w, g) \/ PublishStep(w, g)
      BY <3>2 DEF Skip, Rebuild, Handles, PublishStep
    <3>3. CASE UpdateRecord(w, g) \/ DeadLetter(w, g) \/ Acknowledge(w, g)
      <4>1. PICK b \in Job : SetJob(w, g, b) /\ b.phase \in {"acking", "idle"}
        BY <3>3, LeaveJob
      <4> QED
        BY <2>3, <4>1, SetJobTyped
    <3>4. CASE CompleteRecord(w, g)
      <4>1. PICK b \in Job : SetJob(w, g, b) /\ b.phase = "recording"
        BY <3>4, CompleteJob
      <4> QED
        BY <2>3, <4>1, SetJobTyped
    <3> QED
      BY <1>8, <3>1, <3>2, <3>3, <3>4 DEF Goroutine
  <2>5. ASSUME NEW v \in Workers, NEW h \in Permits, ~closed'[v],
               job'[v][h].entry = i, job'[v][h].phase \in {"locking", "publishing"}
        PROVE  job[v][h].entry = i /\ job[v][h].phase \in {"locking", "publishing"}
    BY <2>1, <2>2, <2>3, <2>4, <2>5
  <2> QED
    BY <1>3, <2>1, <2>5
<1>9. CASE \/ \E e \in Executions : ExecuteWorkflow(e)
           \/ \E k \in DOMAIN log : Answer(k) \/ Drop(k)
           \/ UNCHANGED vars
  <2>1. /\ answered \subseteq answered' /\ cursor' = cursor /\ inbox' = inbox
        /\ job' = job /\ closed' = closed
    BY <1>9 DEF ExecuteWorkflow, Answer, Drop, ExecutorAnswers, TimerFires,
       ExecutorDrops, TimerDrops, groupVars, workerVars, vars
  <2> QED
    BY <1>4, <2>1
<1> QED
  BY <1>2, <1>5, <1>6, <1>7, <1>8, <1>9 DEF Next

(* After a step, only its last entry may be pursued for execution x, and   *)
(* what is pursued for another execution was pursued before.               *)
PursuedOnlyFor(x) == \A i \in DOMAIN log' : Pursued(i)' =>
  \/ i \in DOMAIN log /\ Pursued(i) /\ log[i].execution # x
  \/ i = Len(log') /\ log'[i].execution = x

PursuedNoMore == \A i \in DOMAIN log' :
  Pursued(i)' => i \in DOMAIN log /\ Pursued(i)

(* What is stored changes only for x, to something that may stay.          *)
StoresFinal(x) == \A e \in Executions : record'[e] \in Outcomes =>
  Exhausted(e)' \/ (e # x /\ record'[e] = record[e])

(* A goroutine that holds the mutex either satisfies OutcomeOK after the   *)
(* step, or was not touched by it and is about another execution.          *)
JobsFinal(x) == \A v \in Workers, h \in Permits : ~closed'[v] =>
  \/ job'[v][h].phase \notin HoldsMutex
  \/ OutcomeOK(v, h)'
  \/ /\ ~closed[v] /\ job'[v][h] = job[v][h]
     /\ job[v][h].phase = "publishing" \/ job[v][h].state.context # x

LEMMA OutcomeMoves ==
  ASSUME TypeInv, OneWorkerInv, OnePursued, OutcomesOK, Continues(log, log'), NEW x,
         PursuedOnlyFor(x), StoresFinal(x), JobsFinal(x),
         \A e \in Executions : e # x => record'[e] = record[e]
  PROVE  (OnePursued /\ OutcomesOK)'
<1>1. \A i \in DOMAIN log : i \in DOMAIN log' /\ log'[i] = log[i]
  BY DEF Continues
<1>2. OnePursued'
  BY <1>1 DEF OnePursued, PursuedOnlyFor
<1>3. ASSUME NEW e, e # x, Exhausted(e) PROVE Exhausted(e)'
  BY <1>1, <1>3 DEF Exhausted, PursuedOnlyFor
<1>4. \A e \in Executions : record'[e] \in Outcomes => Exhausted(e)'
  BY <1>3 DEF OutcomesOK, StoresFinal
<1>5. ASSUME NEW v \in Workers, NEW h \in Permits, ~closed'[v]
      PROVE  OutcomeOK(v, h)'
  <2>1. CASE job'[v][h].phase \notin HoldsMutex
    BY <2>1 DEF OutcomeOK, HoldsMutex
  <2>2. CASE ~closed[v] /\ job'[v][h] = job[v][h] /\ job[v][h].phase = "publishing"
    <3>1. OutcomeOK(v, h)
      BY <2>2 DEF OutcomesOK
    <3> QED
      BY <2>2, <3>1 DEF OutcomeOK
  <2>3. CASE /\ ~closed[v] /\ job'[v][h] = job[v][h]
             /\ job[v][h].state.context # x
             /\ job[v][h].phase \in HoldsMutex
    <3>1. PICK c : c = job[v][h].state.context
      OBVIOUS
    <3>2. OutcomeOK(v, h)
      BY <2>3 DEF OutcomesOK
    <3>3. Exhausted(c) => Exhausted(c)'
      BY <1>3, <2>3, <3>1
    <3>4. record'[c] = record[c]
      BY <2>3, <3>1, RecordsKnown
    <3> QED
      BY <2>3, <3>1, <3>2, <3>3, <3>4 DEF OutcomeOK
  <2> QED
    BY <1>5, <2>1, <2>2, <2>3 DEF JobsFinal
<1> QED
  BY <1>2, <1>4, <1>5 DEF OutcomesOK

(* A step that pursues nothing new and stores nothing.                     *)
LEMMA OutcomeQuiet ==
  ASSUME TypeInv, OneWorkerInv, OnePursued, OutcomesOK, Continues(log, log'),
         PursuedNoMore, JobsFinal(NoExecution), record' = record
  PROVE  (OnePursued /\ OutcomesOK)'
<1>1. PursuedOnlyFor(NoExecution)
  BY PursuedExecution, ExecutionsAssumption DEF PursuedNoMore, PursuedOnlyFor
<1>2. StoresFinal(NoExecution)
  BY ExecutionsAssumption DEF StoresFinal
<1> QED
  BY <1>1, <1>2, OutcomeMoves

(* While an entry of e is pursued no outcome of e is stored, or about to   *)
(* be.                                                                     *)
LEMMA PursuedOpen ==
  ASSUME OutcomesOK, NEW i \in DOMAIN log, Pursued(i), log[i].execution \in Executions
  PROVE  /\ record[log[i].execution] \notin Outcomes
         /\ \A v \in Workers, h \in Permits :
              /\ ~closed[v] /\ job[v][h].phase \in {"completing", "recording"}
              /\ job[v][h].state.context = log[i].execution
              => job[v][h].state.status \notin Outcomes
BY DEF OutcomesOK, OutcomeOK, Exhausted

(* What is known of every step.                                            *)
OutcomeTurn ==
  /\ TypeInv /\ TypeInv' /\ OneWorkerInv /\ PlacesOK
  /\ DeliveredOnce' /\ OnePursued /\ OutcomesOK
  /\ Continues(log, log') /\ [Next]_vars

LEMMA StreamGrows ==
  ASSUME TypeInv, NEW ev, WellFormed(ev), PublishError(ev)
  PROVE  \A i \in DOMAIN log' : i \in DOMAIN log \/ (i = Len(log') /\ log'[i] = ev)
<1>1. log \in Seq(Event) /\ ev \in Event
  BY DEF TypeInv, TypeOK, WellFormed
<1>2. CASE Publish(ev)
  <2>1. log' = Append(log, ev)
    BY <1>2 DEF Publish
  <2> QED
    BY <1>1, <2>1, AppendFacts
<1>3. CASE UNCHANGED streamVars
  BY <1>3 DEF streamVars
<1> QED
  BY <1>2, <1>3 DEF PublishError

(* An execution starts with its execution.started as the only entry.       *)
LEMMA StartOutcome ==
  ASSUME OutcomeTurn, MaxFaults = 0, NEW e \in Executions, ExecuteWorkflow(e)
  PROVE  (OnePursued /\ OutcomesOK)'
<1>1. /\ record[e] = "none" /\ record' = [record EXCEPT ![e] = "pending"]
      /\ job' = job /\ closed' = closed
      /\ record \in [Executions -> RecordStatuses]
  BY DEF ExecuteWorkflow, workerVars, OutcomeTurn, TypeInv, TypeOK
<1>2. PICK ev : WellFormed(ev) /\ PublishError(ev) /\ ev.execution = e
  <2> DEFINE started == NewEvent("execution.started", "api", e, NoTask, TRUE)
  <2>1. WellFormed(started) /\ started.execution = e
    BY DEF NewEvent, WellFormed, Event, EventTypes, Sources
  <2>2. PublishError(started)
    BY DEF ExecuteWorkflow, PublishError
  <2> QED
    BY <2>1, <2>2
<1>3. \A i \in DOMAIN log' : i \in DOMAIN log \/ (i = Len(log') /\ log'[i] = ev)
  BY <1>2, StreamGrows DEF OutcomeTurn
<1>4. PursuedOnlyFor(e)
  <2>1. ASSUME NEW i \in DOMAIN log, Pursued(i)'
        PROVE  Pursued(i) /\ log[i].execution # e
    <3>1. Pursued(i)
      BY <2>1, NotRevived DEF OutcomeTurn
    <3>2. log[i].execution \in Executions /\ log[i].type # "workflow.created"
      BY <3>1, PursuedExecution DEF OutcomeTurn, Pursued, Relevant, Skipped
    <3>3. record[log[i].execution] # "none"
      BY <3>2 DEF OutcomeTurn, OneWorkerInv, StartedOK
    <3> QED
      BY <1>1, <3>1, <3>3
  <2> QED
    BY <1>2, <1>3, <2>1 DEF PursuedOnlyFor
<1>5. StoresFinal(e)
  BY <1>1 DEF StoresFinal, Outcomes
<1>6. JobsFinal(e)
  <2>1. \A v \in Workers, h \in Permits :
          job[v][h].phase \in HoldsMutex => job[v][h].state.context # e
    BY <1>1, RecordsKnown DEF OutcomeTurn
  <2> QED
    BY <1>1, <2>1 DEF JobsFinal
<1>7. \A x \in Executions : x # e => record'[x] = record[x]
  BY <1>1
<1> QED
  BY <1>4, <1>5, <1>6, <1>7, OutcomeMoves DEF OutcomeTurn

(* The answer takes the place of the request; a lost request leaves        *)
(* nothing.                                                                *)
LEMMA AnswerOutcome ==
  ASSUME OutcomeTurn, MaxFaults = 0, NEW i \in DOMAIN log, Answer(i) \/ Drop(i)
  PROVE  (OnePursued /\ OutcomesOK)'
<1>1. /\ record' = record /\ job' = job /\ closed' = closed
      /\ answered' = answered \cup {i} /\ i \notin answered
      /\ log[i].type \in {"task.requested", "timer.scheduled"}
  BY DEF Answer, Drop, ExecutorAnswers, TimerFires, ExecutorDrops, TimerDrops,
     Unanswered, workerVars
<1>2. PICK x : x = log[i].execution
  OBVIOUS
<1>3. /\ Pursued(i) /\ x \in Executions /\ WellFormed(log[i])
      /\ log'[i] = log[i] /\ log[i].task \in TaskNames
  <2>1. Pursued(i) /\ WellFormed(log[i])
    BY <1>1 DEF Pursued, OutcomeTurn, TypeInv, StreamOK
  <2> QED
    BY <1>1, <1>2, <2>1, PursuedExecution DEF OutcomeTurn, Continues, WellFormed
<1>4. \A k \in DOMAIN log' :
        k \in DOMAIN log \/ (k = Len(log') /\ log'[k].execution = x)
  <2>1. ASSUME NEW ev, WellFormed(ev), PublishError(ev), ev.execution = x
        PROVE  \A k \in DOMAIN log' :
                 k \in DOMAIN log \/ (k = Len(log') /\ log'[k].execution = x)
    BY <2>1, StreamGrows DEF OutcomeTurn
  <2>2. ASSUME NEW success \in BOOLEAN, ExecutorAnswers(i, success)
        PROVE  \A k \in DOMAIN log' :
                 k \in DOMAIN log \/ (k = Len(log') /\ log'[k].execution = x)
    <3> DEFINE ev == NewEvent("task.completed", "executor-service", x, log[i].task, success)
    <3>1. PublishError(ev)
      BY <1>2, <2>2 DEF ExecutorAnswers, PublishError
    <3>2. WellFormed(ev) /\ ev.execution = x
      BY <1>3, <2>2 DEF NewEvent, WellFormed, Event, EventTypes, Sources
    <3> HIDE DEF ev
    <3> QED
      BY <2>1, <3>1, <3>2
  <2>3. CASE TimerFires(i)
    <3> DEFINE ev == NewEvent("timer.fired", "timer-service", x, log[i].task, TRUE)
    <3>1. PublishError(ev)
      BY <1>2, <2>3 DEF TimerFires, PublishError
    <3>2. WellFormed(ev) /\ ev.execution = x
      BY <1>3 DEF NewEvent, WellFormed, Event, EventTypes, Sources
    <3> HIDE DEF ev
    <3> QED
      BY <2>1, <3>1, <3>2
  <2>4. CASE ExecutorDrops(i)
    <3> DEFINE ev == [log[i] EXCEPT !.type = "task.dlq"]
    <3>1. PublishError(ev)
      BY <2>4 DEF ExecutorDrops
    <3>2. WellFormed(ev) /\ ev.execution = x
      BY <1>2, <1>3 DEF WellFormed, Event, EventTypes
    <3> HIDE DEF ev
    <3> QED
      BY <2>1, <3>1, <3>2
  <2>5. CASE TimerDrops(i)
    BY <2>5 DEF TimerDrops, streamVars
  <2> QED
    BY <2>2, <2>3, <2>4, <2>5 DEF Answer, Drop
<1>5. ~Pursued(i)'
  BY <1>1, <1>3 DEF Pursued, Relevant, Subscribed
<1>6. PursuedOnlyFor(x)
  <2>1. ASSUME NEW k \in DOMAIN log, Pursued(k)'
        PROVE  Pursued(k) /\ log[k].execution # x
    <3>1. Pursued(k)
      BY <2>1, NotRevived DEF OutcomeTurn
    <3>2. k # i
      BY <1>5, <2>1
    <3> QED
      BY <1>2, <1>3, <3>1, <3>2 DEF OutcomeTurn, OnePursued
  <2> QED
    BY <1>4, <2>1 DEF PursuedOnlyFor
<1>7. /\ record[x] \notin Outcomes
      /\ \A v \in Workers, h \in Permits :
           /\ ~closed[v] /\ job[v][h].phase \in {"completing", "recording"}
           /\ job[v][h].state.context = x
           => job[v][h].state.status \notin Outcomes
  BY <1>2, <1>3, PursuedOpen DEF OutcomeTurn
<1>8. StoresFinal(x)
  BY <1>1, <1>7 DEF StoresFinal
<1>9. JobsFinal(x)
  <2>1. ASSUME NEW v \in Workers, NEW h \in Permits, ~closed[v],
               job[v][h].phase \in {"completing", "recording"},
               job[v][h].state.context = x
        PROVE  OutcomeOK(v, h)'
    <3>1. OutcomeOK(v, h)
      BY <2>1 DEF OutcomeTurn, OutcomesOK
    <3> QED
      BY <1>1, <1>7, <2>1, <3>1 DEF OutcomeOK, Outcomes
  <2> QED
    BY <1>1, <2>1 DEF JobsFinal, HoldsMutex
<1> QED
  BY <1>1, <1>6, <1>8, <1>9, OutcomeMoves DEF OutcomeTurn

(* The event a goroutine of a running process works on is the one entry of *)
(* its execution that is pursued; once handled, none is left but what the  *)
(* step itself adds.                                                       *)
LEMMA TriggerPursued ==
  ASSUME OutcomeTurn, MaxFaults = 0, NEW w \in Workers, NEW g \in Permits,
         ~closed[w], job[w][g].phase \in {"locking", "publishing"},
         ~Skipped(log[job[w][g].entry])
  PROVE  /\ job[w][g].entry \in DOMAIN log /\ Relevant(log[job[w][g].entry])
         /\ Pursued(job[w][g].entry)
         /\ log[job[w][g].entry].execution \in Executions
         /\ job'[w][g].phase \notin {"idle", "locking", "publishing"}
            /\ job'[w][g].entry = job[w][g].entry =>
              \A k \in DOMAIN log :
                Pursued(k)' => /\ Pursued(k)
                               /\ log[k].execution # log[job[w][g].entry].execution
<1> DEFINE i == job[w][g].entry
<1>1. i \in DOMAIN log
  BY JobFacts DEF OutcomeTurn
<1>2. Relevant(log[i])
  BY DEF OutcomeTurn, PlacesOK, PlaceOK, Relevant
<1>3. Pursued(i)
  BY <1>2 DEF Pursued
<1>4. log[i].execution \in Executions
  BY <1>1, <1>3, PursuedExecution DEF OutcomeTurn
<1>5. ASSUME job'[w][g].phase \notin {"idle", "locking", "publishing"},
             job'[w][g].entry = i, NEW k \in DOMAIN log, Pursued(k)'
      PROVE  Pursued(k) /\ log[k].execution # log[i].execution
  <2>1. PICK n : n = i
    OBVIOUS
  <2>2. Pursued(k)
    BY <1>5, NotRevived DEF OutcomeTurn
  <2>3. Subscribed(log'[n])
    BY <1>1, <1>2, <2>1 DEF Relevant, OutcomeTurn, Continues
  <2>4. ~Pursued(n)'
    BY <1>5, <2>1, <2>3, HandledGone DEF OutcomeTurn
  <2>5. k # n
    BY <1>5, <2>4
  <2> QED
    BY <1>1, <1>3, <2>1, <2>2, <2>5 DEF OutcomeTurn, OnePursued
<1> QED
  BY <1>1, <1>2, <1>3, <1>4, <1>5

(* The decision: an outcome in the replayed state leaves only completion,  *)
(* or nothing, to do.                                                      *)
LEMMA RebuildOutcome ==
  ASSUME OutcomeTurn, MaxFaults = 0, OrderInv, PendingOK, BackedInv,
         NEW w \in Workers, NEW g \in Permits, Rebuild(w, g), ~AfterError(w, g)
  PROVE  (OnePursued /\ OutcomesOK)'
<1>1. PICK i : i = job[w][g].entry
  OBVIOUS
<1>2. PICK e : e = log[i].execution
  OBVIOUS
<1>3. PICK st : st = ProcessEvent(replay[e], log[i])
  OBVIOUS
<1>4. /\ job[w][g].phase = "locking" /\ ~Skipped(log[i]) /\ ~closed[w]
      /\ log' = log /\ record' = record /\ closed' = closed
      /\ Decide(w, g, st)
  BY <1>1, <1>2, <1>3 DEF Rebuild, Handles, Succeed, streamVars
<1>5. /\ i \in DOMAIN log /\ Relevant(log[i]) /\ Pursued(i) /\ e \in Executions
      /\ WellFormed(log[i]) /\ log[i].type \notin {"workflow.created", "task.requested"}
  BY <1>1, <1>2, <1>4, TriggerPursued
     DEF Relevant, Skipped, Subscribed, OutcomeTurn, TypeInv, StreamOK
<1>6. st \in EngineState /\ st.context = e
  BY <1>2, <1>3, <1>5, DecisionContext DEF OutcomeTurn
<1>7. PICK j \in Job :
        /\ SetJob(w, g, j) /\ j.entry = i
        /\ j.state = st /\ j.step = NextStep(st)
        /\ j.phase = IF NextStep(st).action = "nothing" THEN "recording"
                                                        ELSE "publishing"
  BY <1>1, <1>4, <1>6, DecideJob DEF OutcomeTurn
<1>8. job'[w][g] = j /\ \A v \in Workers, h \in Permits :
                          v # w \/ h # g => job'[v][h] = job[v][h]
  BY <1>7, SetJobTyped DEF OutcomeTurn
<1>9. CompletedIn(log, e) => NextStep(st).action = "complete"
  BY <1>2, <1>3, <1>5, CompleteAgain DEF OutcomeTurn
<1>10. FailedIn(log, e) => NextStep(st).action = "nothing"
  <2>1. ASSUME NEW k \in DOMAIN log, log[k].execution = e,
               log[k].type = "task.completed", ~log[k].success
        PROVE  NextStep(st).action = "nothing"
    <3>1. /\ log[k].task \in TaskNames /\ Requested(log, e, log[k].task)
          /\ ~Achieved(log, e, log[k].task)
      BY <2>1, FailedTask DEF OutcomeTurn
    <3>2. ~Done(replay[e], log[k].task)
      BY <1>5, <3>1 DEF OrderInv, ReplayOK
    <3> QED
      BY <1>2, <1>3, <1>5, <3>1, <3>2, UnansweredBlocks DEF OutcomeTurn
  <2> QED
    BY <2>1 DEF FailedIn
<1>11. Backed(log, e, st.status)
  <2>1. /\ Backed(log, e, replay[e].status) /\ replay[e] \in EngineState
        /\ log[i].type = "timer.fired" => log[i].success
    BY <1>5 DEF BackedInv, ReplaysBacked, TimersSucceed, OutcomeTurn, TypeInv, TypeOK
  <2> QED
    BY <1>2, <1>3, <1>5, <2>1, StatusStep
<1>12. OutcomeOK(w, g)'
  <2>1. CASE j.phase = "publishing"
    <3>1. j.state.status \in Outcomes => j.step.action = "complete"
      BY <1>7, <1>9, <1>10, <1>11, <2>1 DEF Backed, Outcomes
    <3> QED
      BY <1>8, <2>1, <3>1 DEF OutcomeOK
  <2>2. CASE j.phase = "recording"
    <3>1. job'[w][g].entry = job[w][g].entry
      BY <1>1, <1>7, <1>8
    <3>2. Exhausted(e)'
      BY <1>1, <1>2, <1>4, <1>8, <2>2, <3>1, TriggerPursued DEF Exhausted
    <3>3. record[e] \notin Outcomes
      BY <1>2, <1>5, PursuedOpen DEF OutcomeTurn
    <3> QED
      BY <1>4, <1>6, <1>7, <1>8, <2>2, <3>2, <3>3 DEF OutcomeOK
  <2> QED
    BY <1>7, <2>1, <2>2
<1>13. JobsFinal(NoExecution)
  <2>1. \A v \in Workers, h \in Permits :
          job[v][h].phase \in HoldsMutex => job[v][h].state.context # NoExecution
    BY RecordsKnown, ExecutionsAssumption DEF OutcomeTurn
  <2> QED
    BY <1>4, <1>8, <1>12, <2>1 DEF JobsFinal
<1>14. PursuedNoMore
  BY <1>4, NotRevived DEF PursuedNoMore, OutcomeTurn
<1> QED
  BY <1>4, <1>13, <1>14, OutcomeQuiet DEF OutcomeTurn

(* The published step takes the place of the trigger; after                *)
(* workflow.completed there is nothing left to pursue.                     *)
LEMMA PublishOutcome ==
  ASSUME OneWorker, OutcomeTurn, MaxFaults = 0,
         NEW w \in Workers, NEW g \in Permits, PublishStep(w, g)
  PROVE  (OnePursued /\ OutcomesOK)'
<1>1. PICK i : i = job[w][g].entry
  OBVIOUS
<1>2. PICK c : c = job[w][g].state.context
  OBVIOUS
<1>3. /\ job[w][g].phase = "publishing" /\ ~closed[w]
      /\ record' = record /\ closed' = closed /\ job[w][g] \in Job
  BY DEF PublishStep, Succeed, OutcomeTurn, TypeInv, TypeOK
<1>4. ~Skipped(log[i]) /\ c = log[i].execution
  BY <1>1, <1>2, <1>3 DEF OutcomeTurn, PlacesOK, PlaceOK, HoldsMutex
<1>5. i \in DOMAIN log /\ Pursued(i) /\ c \in Executions
  BY <1>1, <1>3, <1>4, TriggerPursued
<1>6. PICK j \in Job :
        /\ SetJob(w, g, j) /\ j.entry = i /\ j.state.context = c
        /\ IF job[w][g].step.action = "complete"
           THEN j.phase = "completing" /\ j.state.status = "completed"
           ELSE j.phase = "recording" /\ j.state = job[w][g].state
  BY <1>1, <1>2, PublishedJob DEF OutcomeTurn
<1>7. job'[w][g] = j /\ \A v \in Workers, h \in Permits :
                          v # w \/ h # g => job'[v][h] = job[v][h]
  BY <1>6, SetJobTyped DEF OutcomeTurn
<1>8. \A k \in DOMAIN log : Pursued(k)' => Pursued(k) /\ log[k].execution # c
  <2>1. /\ job'[w][g].phase \notin {"idle", "locking", "publishing"}
        /\ job'[w][g].entry = job[w][g].entry
    BY <1>1, <1>6, <1>7
  <2> QED
    BY <1>1, <1>3, <1>4, <2>1, TriggerPursued
<1>9. PICK ev : /\ WellFormed(ev) /\ PublishError(ev) /\ ev.execution = c
                /\ job[w][g].step.action = "complete" => ~Relevant(ev)
                     /\ ev.type \notin {"task.requested", "timer.scheduled"}
  <2>1. WellFormed(JobEvent(w, g)) /\ PublishError(JobEvent(w, g))
    BY <1>3, JobEventTyped DEF OutcomeTurn, PublishStep, PublishError
  <2>2. JobEvent(w, g).execution = c
    BY <1>2 DEF JobEvent, StepEvent, NewEvent
  <2>3. job[w][g].step.action = "complete" =>
          JobEvent(w, g).type = "workflow.completed"
    BY DEF JobEvent, StepEvent, NewEvent
  <2> QED
    BY <2>1, <2>2, <2>3 DEF Relevant, Subscribed
<1>10. \A k \in DOMAIN log' : k \in DOMAIN log \/ (k = Len(log') /\ log'[k] = ev)
  BY <1>9, StreamGrows DEF OutcomeTurn
<1>11. PursuedOnlyFor(c)
  BY <1>8, <1>9, <1>10 DEF PursuedOnlyFor
<1>12. record[c] \notin Outcomes
  BY <1>4, <1>5, PursuedOpen DEF OutcomeTurn
<1>13. StoresFinal(c)
  BY <1>3, <1>12 DEF StoresFinal
<1>14. OutcomeOK(w, g)'
  <2>1. CASE job[w][g].step.action = "complete"
    <3>1. ASSUME NEW k \in DOMAIN log', log'[k].execution = c PROVE ~Pursued(k)'
      <4>1. CASE k \in DOMAIN log
        BY <1>8, <3>1, <4>1 DEF OutcomeTurn, Continues
      <4>2. CASE log'[k] = ev
        BY <1>9, <2>1, <4>2 DEF Pursued
      <4> QED
        BY <1>10, <4>1, <4>2
    <3>2. Exhausted(c)'
      BY <3>1 DEF Exhausted
    <3> QED
      BY <1>3, <1>6, <1>7, <1>12, <2>1, <3>2 DEF OutcomeOK
  <2>2. CASE job[w][g].step.action # "complete"
    <3>1. OutcomeOK(w, g)
      BY <1>3 DEF OutcomeTurn, OutcomesOK
    <3>2. j.state.status \notin Outcomes
      BY <1>3, <1>6, <2>2, <3>1 DEF OutcomeOK
    <3> QED
      BY <1>3, <1>6, <1>7, <1>12, <2>2, <3>2 DEF OutcomeOK
  <2> QED
    BY <2>1, <2>2
<1>15. JobsFinal(c)
  <2>1. \A v \in Workers, h \in Permits :
          v # w \/ h # g => job'[v][h].phase \notin HoldsMutex
    BY <1>3, <1>7, OnePublisher DEF HoldsMutex, OutcomeTurn, OneWorkerInv
  <2> QED
    BY <1>14, <2>1 DEF JobsFinal
<1> QED
  BY <1>3, <1>11, <1>13, <1>15, OutcomeMoves DEF OutcomeTurn

(* updateExecutionStatus stores what workflow.completed made certain.      *)
LEMMA CompleteOutcome ==
  ASSUME OneWorker, OutcomeTurn, MaxFaults = 0,
         NEW w \in Workers, NEW g \in Permits, ~closed[w], CompleteRecord(w, g)
  PROVE  /\ (OnePursued /\ OutcomesOK)'
         /\ \A e \in Executions : record[e] \in Outcomes => record'[e] = record[e]
<1>1. PICK c : c = job[w][g].state.context
  OBVIOUS
<1>2. /\ job[w][g].phase = "completing" /\ log' = log /\ closed' = closed
      /\ record \in [Executions -> RecordStatuses]
  BY DEF CompleteRecord, streamVars, OutcomeTurn, TypeInv, TypeOK
<1>3. c \in Executions
  BY <1>1, <1>2, RecordsKnown DEF OutcomeTurn, HoldsMutex
<1>4. record' = [record EXCEPT ![c] = "completed"]
  <2>1. ~Fault(w)
    BY FaultMeansClosed DEF OutcomeTurn
  <2> QED
    BY <1>1, <1>3, <2>1, ExecutionsAssumption DEF CompleteRecord, StoreStatus
<1>5. PICK j \in Job : /\ SetJob(w, g, j) /\ j.phase = "recording"
                       /\ j.state = job[w][g].state
  BY CompleteJob DEF OutcomeTurn
<1>6. job'[w][g] = j /\ \A v \in Workers, h \in Permits :
                          v # w \/ h # g => job'[v][h] = job[v][h]
  BY <1>5, SetJobTyped DEF OutcomeTurn
<1>7. /\ job[w][g].state.status = "completed" /\ Exhausted(c)
      /\ record[c] \in Outcomes => record[c] = "completed"
  BY <1>1, <1>2 DEF OutcomeTurn, OutcomesOK, OutcomeOK, Outcomes
<1>8. \A k \in DOMAIN log : Pursued(k)' => Pursued(k)
  BY NotRevived DEF OutcomeTurn
<1>9. Exhausted(c)'
  BY <1>2, <1>7, <1>8 DEF Exhausted
<1>10. PursuedOnlyFor(c)
  BY <1>2, <1>7, <1>8 DEF Exhausted, PursuedOnlyFor
<1>11. StoresFinal(c)
  BY <1>2, <1>4, <1>9 DEF StoresFinal
<1>12. OutcomeOK(w, g)'
  BY <1>1, <1>2, <1>3, <1>4, <1>5, <1>6, <1>7, <1>9 DEF OutcomeOK
<1>13. JobsFinal(c)
  <2>1. \A v \in Workers, h \in Permits :
          v # w \/ h # g => job'[v][h].phase \notin HoldsMutex
    BY <1>2, <1>6, OnePublisher DEF HoldsMutex, OutcomeTurn, OneWorkerInv
  <2> QED
    BY <1>12, <2>1 DEF JobsFinal
<1>14. (OnePursued /\ OutcomesOK)'
  BY <1>4, <1>10, <1>11, <1>13, OutcomeMoves DEF OutcomeTurn
<1> QED
  BY <1>2, <1>4, <1>7, <1>14

(* updateWorkflowRecord stores an outcome only when nothing is left to     *)
(* change it, and never another one than is stored.                        *)
LEMMA UpdateOutcome ==
  ASSUME OneWorker, OutcomeTurn, MaxFaults = 0,
         NEW w \in Workers, NEW g \in Permits, UpdateRecord(w, g)
  PROVE  /\ (OnePursued /\ OutcomesOK)'
         /\ \A e \in Executions : record[e] \in Outcomes => record'[e] = record[e]
<1>1. PICK c : c = job[w][g].state.context
  OBVIOUS
<1>2. PICK s : s = job[w][g].state.status
  OBVIOUS
<1>3. /\ job[w][g].phase = "recording" /\ log' = log /\ closed' = closed
      /\ ~closed[w] /\ record \in [Executions -> RecordStatuses]
  BY DEF UpdateRecord, Succeed, streamVars, OutcomeTurn, TypeInv, TypeOK
<1>4. c \in Executions
  BY <1>1, <1>3, RecordsKnown DEF OutcomeTurn, HoldsMutex
<1>5. record' = [record EXCEPT ![c] = RecordStatus(s)]
  BY <1>1, <1>2, <1>4, ExecutionsAssumption DEF UpdateRecord, WriteRecord, StoreStatus
<1>6. RecordStatus(s) \in Outcomes => s \in Outcomes /\ RecordStatus(s) = s
  BY DEF RecordStatus, Outcomes
<1>7. PICK j \in Job : SetJob(w, g, j) /\ j.phase \in {"acking", "idle"}
  BY LeaveJob DEF OutcomeTurn
<1>8. job'[w][g] = j /\ \A v \in Workers, h \in Permits :
                          v # w \/ h # g => job'[v][h] = job[v][h]
  BY <1>7, SetJobTyped DEF OutcomeTurn
<1>9. /\ s \in Outcomes => Exhausted(c)
      /\ record[c] \in Outcomes => s = record[c]
  BY <1>1, <1>2, <1>3 DEF OutcomeTurn, OutcomesOK, OutcomeOK
<1>10. \A k \in DOMAIN log : Pursued(k)' => Pursued(k)
  BY NotRevived DEF OutcomeTurn
<1>11. OnePursued'
  BY <1>3, <1>10 DEF OutcomeTurn, OnePursued
<1>12. \A e : Exhausted(e) => Exhausted(e)'
  BY <1>3, <1>10 DEF Exhausted
<1>13. ASSUME NEW e \in Executions, record'[e] \in Outcomes PROVE Exhausted(e)'
  <2>1. CASE e = c
    BY <1>3, <1>5, <1>6, <1>9, <1>12, <1>13, <2>1
  <2>2. CASE e # c
    BY <1>3, <1>5, <1>12, <1>13, <2>2 DEF OutcomeTurn, OutcomesOK
  <2> QED
    BY <2>1, <2>2
<1>14. \A v \in Workers, h \in Permits : OutcomeOK(v, h)'
  <2>1. \A v \in Workers, h \in Permits : job'[v][h].phase \notin HoldsMutex
    BY <1>3, <1>7, <1>8, OnePublisher DEF HoldsMutex, OutcomeTurn, OneWorkerInv
  <2> QED
    BY <2>1 DEF HoldsMutex, OutcomeOK
<1>15. OutcomesOK'
  BY <1>13, <1>14 DEF OutcomesOK
<1>16. record[c] \in Outcomes => RecordStatus(s) = record[c]
  BY <1>9 DEF RecordStatus, Outcomes
<1> QED
  BY <1>3, <1>5, <1>11, <1>15, <1>16

(* Everything else: no job that may still publish or store is new.         *)
LEMMA ProcessOutcome ==
  ASSUME OutcomeTurn, MaxFaults = 0,
         \/ \E w \in Workers : Deliver(w) \/ Crash(w) \/ Stop(w) \/ Restart(w)
         \/ UNCHANGED vars
  PROVE  (OnePursued /\ OutcomesOK)' /\ record' = record
<1>1. log' = log /\ record' = record
  BY DEF Deliver, Crash, Stop, Restart, streamVars, vars
<1>2. PursuedNoMore
  BY <1>1, NotRevived DEF PursuedNoMore, OutcomeTurn
<1>3. ASSUME NEW v \in Workers, NEW h \in Permits, ~closed'[v]
      PROVE  \/ job'[v][h].phase \notin HoldsMutex
             \/ ~closed[v] /\ job'[v][h] = job[v][h]
  <2>1. /\ job \in [Workers -> [Permits -> Job]]
        /\ closed \in [Workers -> BOOLEAN]
    BY DEF OutcomeTurn, TypeInv, TypeOK
  <2>2. IdleJob.phase \notin HoldsMutex
    BY DEF IdleJob, HoldsMutex
  <2>3. ASSUME NEW w \in Workers, Crash(w)
        PROVE  \/ job'[v][h].phase \notin HoldsMutex
               \/ ~closed[v] /\ job'[v][h] = job[v][h]
    <3>1. /\ job' = [job EXCEPT ![w] = [q \in Permits |-> IdleJob]]
          /\ closed' = [closed EXCEPT ![w] = FALSE]
      BY <2>3 DEF Crash
    <3>2. CASE v = w
      <4>1. job'[v][h] = IdleJob
        BY <2>1, <3>1, <3>2
      <4> QED
        BY <2>2, <4>1
    <3>3. CASE v # w
      BY <1>3, <2>1, <3>1, <3>3
    <3> QED
      BY <3>2, <3>3
  <2>4. ASSUME NEW w \in Workers, Restart(w)
        PROVE  \/ job'[v][h].phase \notin HoldsMutex
               \/ ~closed[v] /\ job'[v][h] = job[v][h]
    <3>1. /\ job' = job /\ closed' = [closed EXCEPT ![w] = FALSE]
          /\ \A q \in Permits : job[w][q].phase = "idle"
      BY <2>4 DEF Restart
    <3> QED
      BY <1>3, <2>1, <3>1 DEF HoldsMutex
  <2>5. ASSUME NEW w \in Workers, Stop(w)
        PROVE  ~closed[v] /\ job'[v][h] = job[v][h]
    <3>1. job' = job /\ closed' = [closed EXCEPT ![w] = TRUE]
      BY <2>5 DEF Stop
    <3> QED
      BY <1>3, <2>1, <3>1
  <2>6. CASE \E w \in Workers : Deliver(w)
    BY <1>3, <2>6 DEF Deliver, workerVars
  <2>7. CASE UNCHANGED vars
    BY <1>3, <2>7 DEF vars
  <2> QED
    BY <2>3, <2>4, <2>5, <2>6, <2>7
<1>4. JobsFinal(NoExecution)
  <2>1. \A v \in Workers, h \in Permits :
          job[v][h].phase \in HoldsMutex => job[v][h].state.context # NoExecution
    BY RecordsKnown, ExecutionsAssumption DEF OutcomeTurn
  <2> QED
    BY <1>3, <2>1 DEF JobsFinal
<1> QED
  BY <1>1, <1>2, <1>4, OutcomeQuiet DEF OutcomeTurn

(* The quiet steps of a goroutine: it takes an event, gives it up, or      *)
(* belongs to a process that was stopped.                                  *)
LEMMA QuietOutcome ==
  ASSUME OutcomeTurn, MaxFaults = 0, NEW w \in Workers, NEW g \in Permits,
         NEW j \in Job, SetJob(w, g, j), closed[w] \/ j.phase \notin HoldsMutex,
         record' = record, closed' = closed,
         \A k \in DOMAIN log' : k \in DOMAIN log \/ ~Pursued(k)'
  PROVE  (OnePursued /\ OutcomesOK)'
<1>1. job'[w][g] = j /\ \A v \in Workers, h \in Permits :
                          v # w \/ h # g => job'[v][h] = job[v][h]
  BY SetJobTyped DEF OutcomeTurn
<1>2. PursuedNoMore
  BY NotRevived DEF PursuedNoMore, OutcomeTurn
<1>3. JobsFinal(NoExecution)
  <2>1. \A v \in Workers, h \in Permits :
          job[v][h].phase \in HoldsMutex => job[v][h].state.context # NoExecution
    BY RecordsKnown, ExecutionsAssumption DEF OutcomeTurn
  <2> QED
    BY <1>1, <2>1 DEF JobsFinal
<1> QED
  BY <1>2, <1>3, OutcomeQuiet DEF OutcomeTurn

LEMMA DeadLetterOutcome ==
  ASSUME OutcomeTurn, MaxFaults = 0, NEW w \in Workers, NEW g \in Permits,
         DeadLetter(w, g)
  PROVE  (OnePursued /\ OutcomesOK)'
<1>1. /\ job[w][g].phase = "dlq" /\ record' = record /\ closed' = closed
  BY DEF DeadLetter
<1>2. PICK ev : WellFormed(ev) /\ PublishError(ev) /\ ev.type = "event.dlq"
  <2> DEFINE copy == [log[job[w][g].entry] EXCEPT !.type = "event.dlq"]
  <2>1. WellFormed(log[job[w][g].entry]) /\ log[job[w][g].entry].type # "workflow.created"
    BY <1>1, JobFacts DEF OutcomeTurn
  <2>2. WellFormed(copy) /\ copy.type = "event.dlq"
    BY <2>1 DEF WellFormed, Event, EventTypes
  <2>3. PublishError(copy)
    BY DEF DeadLetter, PublishFails, PublishError
  <2> HIDE DEF copy
  <2> QED
    BY <2>2, <2>3
<1>3. \A k \in DOMAIN log' : k \in DOMAIN log \/ log'[k].type = "event.dlq"
  BY <1>2, StreamGrows DEF OutcomeTurn
<1>4. \A k \in DOMAIN log' : k \in DOMAIN log \/ ~Pursued(k)'
  BY <1>3 DEF Pursued, Relevant, Subscribed
<1>5. PICK j \in Job : SetJob(w, g, j) /\ j.phase \in {"acking", "idle"}
  BY LeaveJob DEF OutcomeTurn
<1> QED
  BY <1>1, <1>4, <1>5, QuietOutcome DEF HoldsMutex

LEMMA GoroutineOutcome ==
  ASSUME OneWorker, OutcomeTurn, OrderInv, PendingOK, BackedInv, MaxFaults = 0,
         NEW w \in Workers, NEW g \in Permits, Goroutine(w, g) \/ GoroutineFails(w, g)
  PROVE  /\ (OnePursued /\ OutcomesOK)'
         /\ \A e \in Executions : record[e] \in Outcomes => record'[e] = record[e]
<1>1. CASE GoroutineFails(w, g)
  <2>1. closed[w] /\ log' = log /\ record' = record
    BY <1>1, FailingCall DEF OutcomeTurn, streamVars
  <2>2. AfterError(w, g) /\ closed' = closed
    BY <1>1, <2>1 DEF GoroutineFails, RebuildFails, RebuildBlind,
       PublishStepFails, UpdateRecordFails
  <2>3. PICK j \in Job : SetJob(w, g, j)
    BY <2>2, RetryJob DEF OutcomeTurn
  <2> QED
    BY <2>1, <2>2, <2>3, QuietOutcome
<1>2. CASE Spawn(w, g)
  <2>1. log' = log /\ record' = record /\ closed' = closed
    BY <1>2 DEF Spawn, streamVars
  <2>2. PICK j \in Job : SetJob(w, g, j) /\ j.phase = "locking"
    BY <1>2, SpawnJob DEF OutcomeTurn
  <2> QED
    BY <2>1, <2>2, QuietOutcome DEF HoldsMutex
<1>3. CASE Skip(w, g) \/ Acknowledge(w, g)
  <2>1. log' = log /\ record' = record /\ closed' = closed
    BY <1>3 DEF Skip, Acknowledge, streamVars
  <2>2. PICK j \in Job : SetJob(w, g, j) /\ j.phase \in {"acking", "idle"}
    BY <1>3, LeaveJob DEF OutcomeTurn
  <2> QED
    BY <2>1, <2>2, QuietOutcome DEF HoldsMutex
<1>4. CASE Rebuild(w, g)
  <2>1. log' = log /\ record' = record /\ closed' = closed
    BY <1>4 DEF Rebuild, streamVars
  <2>2. CASE AfterError(w, g)
    <3>1. PICK j \in Job : SetJob(w, g, j) /\ j.phase \in {"locking", "dlq"}
      BY <2>2, RetryJob DEF OutcomeTurn
    <3> QED
      BY <2>1, <3>1, QuietOutcome DEF HoldsMutex
  <2>3. CASE ~AfterError(w, g)
    BY <1>4, <2>1, <2>3, RebuildOutcome
  <2> QED
    BY <2>2, <2>3
<1>5. CASE PublishStep(w, g)
  BY <1>5, PublishOutcome DEF PublishStep
<1>6. CASE CompleteRecord(w, g)
  <2>1. CASE closed[w]
    <3>1. log' = log /\ record' = record /\ closed' = closed
      BY <1>6, <2>1 DEF CompleteRecord, Succeed, streamVars
    <3>2. PICK j \in Job : SetJob(w, g, j)
      BY <1>6, CompleteJob DEF OutcomeTurn
    <3> QED
      BY <2>1, <3>1, <3>2, QuietOutcome
  <2>2. CASE ~closed[w]
    BY <1>6, <2>2, CompleteOutcome
  <2> QED
    BY <2>1, <2>2
<1>7. CASE UpdateRecord(w, g)
  BY <1>7, UpdateOutcome
<1>8. CASE DeadLetter(w, g)
  BY <1>8, DeadLetterOutcome DEF DeadLetter
<1> QED
  BY <1>1, <1>2, <1>3, <1>4, <1>5, <1>6, <1>7, <1>8 DEF Goroutine

LEMMA OutcomeHolds ==
  ASSUME OneWorker, MaxFaults = 0, TypeInv, OrderInv, OneWorkerInv, RestInv,
         BackedInv, OutcomeInv, [Next]_vars
  PROVE  /\ OutcomeInv'
         /\ \A e \in Executions : record[e] \in Outcomes => record'[e] = record[e]
<1>1. DeliveredOnce'
  BY OnceHolds DEF OutcomeInv
<1>2. OutcomeTurn
  BY <1>1, StepTyped, StepEvents, EventContinues DEF OutcomeTurn, OutcomeInv, RestInv
<1>3. ASSUME NEW e \in Executions, ExecuteWorkflow(e)
      PROVE  \A x \in Executions : record[x] \in Outcomes => record'[x] = record[x]
  <2>1. /\ record[e] = "none" /\ record' = [record EXCEPT ![e] = "pending"]
        /\ record \in [Executions -> RecordStatuses]
    BY <1>3 DEF ExecuteWorkflow, TypeInv, TypeOK
  <2> QED
    BY <2>1 DEF Outcomes
<1>4. \A i \in DOMAIN log : Answer(i) \/ Drop(i) => record' = record
  BY DEF Answer, Drop, ExecutorAnswers, TimerFires, ExecutorDrops, TimerDrops
<1>5. /\ (OnePursued /\ OutcomesOK)'
      /\ \A e \in Executions : record[e] \in Outcomes => record'[e] = record[e]
  <2>1. CASE \E e \in Executions : ExecuteWorkflow(e)
    BY <1>2, <1>3, <2>1, StartOutcome
  <2>2. CASE \/ \E w \in Workers : Deliver(w) \/ Crash(w) \/ Stop(w) \/ Restart(w)
             \/ UNCHANGED vars
    BY <1>2, <2>2, ProcessOutcome
  <2>3. CASE \E w \in Workers, g \in Permits : Goroutine(w, g) \/ GoroutineFails(w, g)
    BY <1>2, <2>3, GoroutineOutcome DEF RestInv
  <2>4. CASE \E i \in DOMAIN log : Answer(i) \/ Drop(i)
    BY <1>2, <1>4, <2>4, AnswerOutcome
  <2> QED
    BY <2>1, <2>2, <2>3, <2>4 DEF Next
<1> QED
  BY <1>1, <1>5 DEF OutcomeInv

LEMMA InitOutcome == Init => OutcomeInv
<1> SUFFICES ASSUME Init PROVE OutcomeInv
  OBVIOUS
<1>1. /\ \A w \in Workers : inbox[w] = <<>>
      /\ \A w \in Workers, g \in Permits : job[w][g].phase = "idle"
      /\ \A e \in Executions : record[e] = "none"
      /\ Len(log) = 1 /\ DOMAIN log = {1}
  BY DEF Init, IdleJob
<1>2. DeliveredOnce
  BY <1>1 DEF DeliveredOnce
<1>3. OnePursued
  BY <1>1 DEF OnePursued
<1>4. OutcomesOK
  BY <1>1 DEF OutcomesOK, OutcomeOK, Outcomes
<1> QED
  BY <1>2, <1>3, <1>4 DEF OutcomeInv

(* Once an execution's stored status is an outcome it is never overwritten:*)
(* updateWorkflowRecord overwrites without looking, but no goroutine is    *)
(* left that would write something else.  One process, and no failing call *)
(* to Redis: after one, a retried goroutine may write "running" over a     *)
(* stored "failed".  Processes may crash and stop, and anything may get    *)
(* lost.                                                                   *)
THEOREM OutcomeIsFinalHolds ==
  ASSUME OneWorker, MaxFaults = 0
  PROVE  Spec => OutcomeIsFinal
<1>1. Init => BackedInv
  BY InitBacked
<1>2. TypeInv /\ OrderInv /\ BackedInv /\ [Next]_vars => BackedInv'
  BY StepBacked
<1>3. Init => OutcomeInv
  BY InitOutcome
<1>4. TypeInv /\ OrderInv /\ OneWorkerInv /\ RestInv /\ BackedInv /\ OutcomeInv
        /\ [Next]_vars =>
        /\ OutcomeInv'
        /\ \A e \in Executions :
             record[e] \in {"completed", "failed"} => record'[e] = record[e]
  BY OutcomeHolds DEF Outcomes
<1>5. Spec => []BackedInv
  BY <1>1, <1>2, OrderInvariance, PTL DEF Spec
<1> QED
  BY <1>3, <1>4, <1>5, OrderInvariance, OneWorkerInvariance, RestInvariance,
     PTL DEF Spec, OutcomeIsFinal
=============================================================================
