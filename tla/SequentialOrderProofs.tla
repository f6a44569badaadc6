------------------------ MODULE SequentialOrderProofs ------------------------
(***************************************************************************)
(* SequentialOrder and CompletionSound hold for any number of worker       *)
(* processes and goroutines, whatever fails or gets lost.  The argument:   *)
(* the completed tasks a replay finds are always a prefix of the task list *)
(* and exactly the tasks whose success is in the stream (ReplayOK); so a   *)
(* step chosen from a replay, however old it is when it is published, is   *)
(* justified by entries that are in the stream already (StepsOK), and so   *)
(* is the answer to it.  A state built without the history names its       *)
(* execution only if it was built from execution.started, and then asks    *)
(* for the first task.  RecordJustified holds as widely: a status that     *)
(* somebody may write is backed by entries of the stream (BackedInv).      *)
(***************************************************************************)
EXTENDS WorkflowProcessorProofs

(* Event ev reports the success of task n of execution e.                  *)
Reports(ev, e, n) ==
  /\ ev.type \in {"task.completed", "timer.fired"}
  /\ ev.execution = e
  /\ ev.task = n
  /\ ev.success

(* Its success is in stream s.                                             *)
Achieved(s, e, n) == \E h \in DOMAIN s : Reports(s[h], e, n)

(* Task n is in the list, and all tasks before it have succeeded.          *)
InOrder(s, e, n) ==
  \E k \in DOMAIN TaskList :
    TaskList[k] = n /\ \A m \in 1 .. k - 1 : Achieved(s, e, TaskList[m])

AllAchieved(s, e) == \A k \in DOMAIN TaskList : Achieved(s, e, TaskList[k])

IsHandOut(ev) ==
  \/ ev.type \in {"task.requested", "timer.scheduled"}
  \/ ev.type = "task.completed" /\ ev.source = "workflow-engine"

IsReport(ev) == ev.type \in {"task.completed", "timer.fired"} /\ ev.success

(* What an event of an execution may be, given the entries before it.      *)
Justified(ev, s) == ev.execution # NoExecution =>
  /\ IsHandOut(ev) \/ IsReport(ev) => InOrder(s, ev.execution, ev.task)
  /\ ev.type = "workflow.completed" => AllAchieved(s, ev.execution)

IsListPrefix(c) ==
  \A i \in DOMAIN c : i \in DOMAIN TaskList /\ c[i] = TaskList[i]

ReplayOK ==
  \A e \in Executions :
    /\ replay[e].context \in {e, NoExecution}
    /\ IsListPrefix(replay[e].completed)
    /\ \A n \in TaskNames : Done(replay[e], n) <=> Achieved(log, e, n)

EntriesOK ==
  \A i \in DOMAIN log : Justified(log[i], SubSeq(log, 1, i - 1))

StepOK(j, s) ==
  j.phase = "publishing" /\ j.state.context # NoExecution =>
    IF j.step.action = "complete"
    THEN AllAchieved(s, j.state.context)
    ELSE InOrder(s, j.state.context, j.step.task)

StepsOK == \A w \in Workers, g \in Permits : StepOK(job[w][g], log)

OrderInv == ReplayOK /\ EntriesOK /\ StepsOK

-----------------------------------------------------------------------------
(* Completed lists that are prefixes of the task list.                     *)

LEMMA TaskListFacts ==
  /\ TaskList \in Seq(TaskNames)
  /\ DOMAIN TaskList = 1 .. Len(TaskList)
  /\ \A k \in DOMAIN TaskList : TaskList[k] \in TaskNames
  /\ \A i, j \in DOMAIN TaskList : TaskList[i] = TaskList[j] => i = j
BY TaskListAssumption

LEMMA PrefixLength ==
  ASSUME NEW c \in Seq(TaskNames), IsListPrefix(c), NEW k \in DOMAIN TaskList,
         \A m \in 1 .. k - 1 : \E i \in DOMAIN c : c[i] = TaskList[m],
         ~ \E i \in DOMAIN c : c[i] = TaskList[k]
  PROVE  Len(c) = k - 1
<1>1. DOMAIN c = 1 .. Len(c) /\ Len(c) \in Nat
  OBVIOUS
<1>2. k \in Nat /\ k >= 1 /\ k <= Len(TaskList)
  BY TaskListFacts
<1>3. ~ (k <= Len(c))
  <2> SUFFICES ASSUME k <= Len(c) PROVE FALSE
    OBVIOUS
  <2>1. k \in DOMAIN c
    BY <1>1, <1>2
  <2> QED
    BY <2>1 DEF IsListPrefix
<1>4. k - 1 <= Len(c)
  <2>1. CASE k = 1
    BY <1>1, <2>1
  <2>2. CASE k # 1
    <3>1. k - 1 \in 1 .. k - 1 /\ k - 1 \in DOMAIN TaskList
      BY <1>2, <2>2, TaskListFacts
    <3>2. PICK i \in DOMAIN c : c[i] = TaskList[k - 1]
      BY <3>1
    <3>3. i \in DOMAIN TaskList /\ TaskList[i] = TaskList[k - 1]
      BY <3>2 DEF IsListPrefix
    <3>4. i = k - 1
      BY <3>1, <3>3, TaskListFacts
    <3> QED
      BY <1>1, <3>4
  <2> QED
    BY <2>1, <2>2
<1> QED
  BY <1>1, <1>2, <1>3, <1>4

(* Only the report of a success that is not recorded yet changes the       *)
(* completed tasks.                                                        *)
LEMMA CompletedStep ==
  ASSUME NEW st \in EngineState, NEW ev, WellFormed(ev)
  PROVE  ProcessEvent(st, ev).completed =
           IF IsReport(ev) /\ ~Done(st, ev.task)
           THEN Append(st.completed, ev.task)
           ELSE st.completed
<1>1. CASE ev.type \in {"task.completed", "timer.fired"}
  <2>1. ProcessEvent(st, ev) = TaskCompleted(st, ev)
    BY <1>1 DEF ProcessEvent
  <2> QED
    BY <1>1, <2>1 DEF TaskCompleted, IsReport, EngineState
<1>2. CASE ev.type \notin {"task.completed", "timer.fired"}
  <2>1. ProcessEvent(st, ev).completed = st.completed
    BY <1>2 DEF ProcessEvent, EngineState
  <2> QED
    BY <1>2, <2>1 DEF IsReport
<1> QED
  BY <1>1, <1>2

(* Only execution.started sets the context.                                *)
LEMMA ContextStep ==
  ASSUME NEW st \in EngineState, NEW ev
  PROVE  ProcessEvent(st, ev).context =
           IF ev.type = "execution.started" THEN ev.execution ELSE st.context
BY DEF ProcessEvent, TaskCompleted, EngineState

(* What executeNextSDLStep chooses is the first task that is not completed,*)
(* or the completion of the workflow when there is none.                   *)
LEMMA NextStepInOrder ==
  ASSUME NEW st \in EngineState, IsListPrefix(st.completed)
  PROVE  /\ NextStep(st).action = "complete" =>
              \A k \in DOMAIN TaskList : Done(st, TaskList[k])
         /\ NextStep(st).action \in {"run", "schedule", "request"} =>
              \E k \in DOMAIN TaskList :
                /\ TaskList[k] = NextStep(st).task
                /\ \A m \in 1 .. k - 1 : Done(st, TaskList[m])
<1> DEFINE c == st.completed
           n == Len(c) + 1
<1>1. c \in Seq(TaskNames) /\ DOMAIN c = 1 .. Len(c) /\ Len(c) \in Nat
  BY DEF EngineState
<1>2. \A m \in 1 .. Len(c) : Done(st, TaskList[m])
  BY <1>1 DEF IsListPrefix, Done
<1>3. CASE GetNextTask(st) # NoTask
  <2>1. n \in DOMAIN TaskList /\ GetNextTask(st) = TaskList[n]
    BY <1>1, <1>3, TaskListFacts DEF GetNextTask
  <2>2. NextStep(st).task = TaskList[n] /\ NextStep(st).action # "complete"
    BY <1>3, <2>1 DEF NextStep, DispatchAction
  <2>3. n - 1 = Len(c)
    BY <1>1
  <2> QED
    BY <1>2, <2>1, <2>2, <2>3
<1>4. CASE GetNextTask(st) = NoTask
  <2>1. NextStep(st).action \in {"nothing", "complete"}
    BY <1>4 DEF NextStep
  <2>2. NextStep(st).action = "complete" => ~(Len(c) < Len(TaskList))
    BY <1>4 DEF NextStep
  <2> QED
    BY <1>1, <1>2, <2>1, <2>2, TaskListFacts
<1> QED
  BY <1>3, <1>4

-----------------------------------------------------------------------------
(* The stream grows, and what was achieved stays achieved.                 *)

LEMMA AchievedStays ==
  ASSUME NEW s, NEW t, Continues(s, t)
  PROVE  /\ \A e, n : Achieved(s, e, n) => Achieved(t, e, n)
         /\ \A e, n : InOrder(s, e, n) => InOrder(t, e, n)
         /\ \A e : AllAchieved(s, e) => AllAchieved(t, e)
<1>1. \A e, n : Achieved(s, e, n) => Achieved(t, e, n)
  BY DEF Achieved, Continues
<1> QED
  BY <1>1 DEF InOrder, AllAchieved

LEMMA AppendFacts ==
  ASSUME NEW s \in Seq(Event), NEW ev \in Event
  PROVE  LET t == Append(s, ev)
         IN  /\ t \in Seq(Event) /\ Len(t) = Len(s) + 1
             /\ t[Len(t)] = ev
             /\ Continues(s, t)
             /\ \A i \in DOMAIN t : i \in DOMAIN s \/ i = Len(t)
             /\ \A i \in DOMAIN s : SubSeq(t, 1, i - 1) = SubSeq(s, 1, i - 1)
             /\ SubSeq(t, 1, Len(t) - 1) = s
<1> DEFINE t == Append(s, ev)
<1>1. /\ t \in Seq(Event) /\ Len(t) = Len(s) + 1 /\ Len(s) \in Nat
      /\ DOMAIN s = 1 .. Len(s) /\ DOMAIN t = 1 .. Len(s) + 1
      /\ t[Len(t)] = ev
      /\ \A i \in 1 .. Len(s) : t[i] = s[i]
  OBVIOUS
<1> HIDE DEF t
<1>2. Continues(s, t) /\ \A i \in DOMAIN t : i \in DOMAIN s \/ i = Len(t)
  BY <1>1 DEF Continues
<1>3. \A i \in DOMAIN s : SubSeq(t, 1, i - 1) = SubSeq(s, 1, i - 1)
  <2> TAKE i \in DOMAIN s
  <2>1. /\ i - 1 \in Nat /\ i - 1 <= Len(s)
    BY <1>1
  <2> QED
    BY <1>1, <2>1
<1>4. SubSeq(t, 1, Len(t) - 1) = s
  BY <1>1
<1> QED
  BY <1>1, <1>2, <1>3, <1>4 DEF t

LEMMA AchievedAppend ==
  ASSUME NEW s \in Seq(Event), NEW ev \in Event, NEW e, NEW n
  PROVE  Achieved(Append(s, ev), e, n) <=> Achieved(s, e, n) \/ Reports(ev, e, n)
<1> DEFINE t == Append(s, ev)
<1>1. /\ \A i \in DOMAIN s : i \in DOMAIN t /\ t[i] = s[i]
      /\ \A i \in DOMAIN t : i \in DOMAIN s \/ i = Len(t)
      /\ t[Len(t)] = ev /\ Len(t) \in DOMAIN t
  BY AppendFacts DEF Continues
<1> HIDE DEF t
<1>2. Achieved(t, e, n) <=> Achieved(s, e, n) \/ Reports(ev, e, n)
  BY <1>1 DEF Achieved
<1> QED
  BY <1>2 DEF t

(* A justified event may be published.                                     *)
LEMMA EntriesOrdered ==
  ASSUME TypeInv, OrderInv, NEW ev, WellFormed(ev), Justified(ev, log),
         Publish(ev)
  PROVE  EntriesOK'
<1>1. log \in Seq(Event) /\ ev \in Event /\ log' = Append(log, ev)
  BY DEF TypeInv, TypeOK, WellFormed, Publish
<1> SUFFICES ASSUME NEW i \in DOMAIN log'
             PROVE  Justified(log'[i], SubSeq(log', 1, i - 1))
  BY DEF EntriesOK
<1>2. CASE i \in DOMAIN log
  <2>1. /\ log'[i] = log[i]
        /\ SubSeq(log', 1, i - 1) = SubSeq(log, 1, i - 1)
    BY <1>1, <1>2, AppendFacts DEF Continues
  <2> QED
    BY <1>2, <2>1 DEF OrderInv, EntriesOK
<1>3. CASE i = Len(log')
  <2>1. log'[i] = ev /\ SubSeq(log', 1, i - 1) = log
    BY <1>1, <1>3, AppendFacts
  <2> QED
    BY <2>1
<1> QED
  BY <1>1, <1>2, <1>3, AppendFacts

(* An event without an execution is in no replay.                          *)
LEMMA PublishElsewhere ==
  ASSUME TypeInv, OrderInv, NEW ev, WellFormed(ev),
         ev.execution \notin Executions, Publish(ev)
  PROVE  ReplayOK'
<1>1. /\ log \in Seq(Event) /\ ev \in Event /\ log' = Append(log, ev)
      /\ \A e \in Executions : replay'[e] = replay[e]
  BY DEF TypeInv, TypeOK, WellFormed, Publish
<1>2. \A e \in Executions : \A n : ~Reports(ev, e, n)
  BY DEF Reports
<1>3. \A e \in Executions : \A n \in TaskNames :
        Achieved(log', e, n) <=> Achieved(log, e, n)
  BY <1>1, <1>2, AchievedAppend
<1> QED
  BY <1>1, <1>3 DEF OrderInv, ReplayOK, Done

(* A justified event keeps every replay a prefix.                          *)
LEMMA PublishOrdered ==
  ASSUME TypeInv, OrderInv, NEW ev, WellFormed(ev),
         ev.execution \in Executions, Justified(ev, log), Publish(ev)
  PROVE  ReplayOK'
<1> DEFINE x  == ev.execution
           st == replay[x]
           c  == st.completed
<1>1. /\ log \in Seq(Event) /\ ev \in Event /\ log' = Append(log, ev)
      /\ x \in Executions /\ st \in EngineState
      /\ replay \in [Executions -> EngineState]
      /\ replay' = [e \in Executions |-> IF e = x THEN ProcessEvent(st, ev)
                                               ELSE replay[e]]
  BY DEF TypeInv, TypeOK, WellFormed, Publish
<1>2. \A e \in Executions : replay'[e].context \in {e, NoExecution}
  <2>1. \A e \in Executions : replay[e].context \in {e, NoExecution}
    BY DEF OrderInv, ReplayOK
  <2>2. ProcessEvent(st, ev).context \in {x, st.context}
    BY <1>1, ContextStep
  <2> QED
    BY <1>1, <2>1, <2>2
<1>3. \A e \in Executions : \A n \in TaskNames :
        Achieved(log', e, n) <=> Achieved(log, e, n) \/ Reports(ev, e, n)
  BY <1>1, AchievedAppend
<1>4. ASSUME NEW e \in Executions, e # x
      PROVE  /\ IsListPrefix(replay'[e].completed)
             /\ \A n \in TaskNames : Done(replay'[e], n) <=> Achieved(log', e, n)
  <2>1. replay'[e] = replay[e] /\ \A n : ~Reports(ev, e, n)
    BY <1>1, <1>4 DEF Reports
  <2> QED
    BY <1>3, <2>1 DEF OrderInv, ReplayOK
<1>5. /\ c \in Seq(TaskNames) /\ IsListPrefix(c)
      /\ \A n \in TaskNames : Done(st, n) <=> Achieved(log, x, n)
  BY <1>1 DEF OrderInv, ReplayOK, EngineState
<1> DEFINE d == replay'[x].completed
<1>6. d = IF IsReport(ev) /\ ~Done(st, ev.task) THEN Append(c, ev.task) ELSE c
  <2>1. replay'[x] = ProcessEvent(st, ev)
    BY <1>1
  <2> QED
    BY <1>1, <2>1, CompletedStep
<1>7. \A n : Reports(ev, x, n) <=> IsReport(ev) /\ n = ev.task
  BY DEF Reports, IsReport
<1>8. CASE ~(IsReport(ev) /\ ~Done(st, ev.task))
  <2>1. d = c
    BY <1>6, <1>8
  <2>2. \A n \in TaskNames : Done(replay'[x], n) <=> Done(st, n)
    BY <2>1 DEF Done
  <2>3. \A n \in TaskNames : Done(replay'[x], n) <=> Achieved(log', x, n)
    BY <1>1, <1>3, <1>5, <1>7, <1>8, <2>2
  <2> QED
    BY <1>2, <1>4, <1>5, <2>1, <2>3 DEF ReplayOK
<1>9. CASE IsReport(ev) /\ ~Done(st, ev.task)
  <2>1. PICK k \in DOMAIN TaskList :
          /\ TaskList[k] = ev.task
          /\ \A m \in 1 .. k - 1 : Achieved(log, x, TaskList[m])
    BY <1>1, <1>9, ExecutionsAssumption DEF Justified, InOrder
  <2>2. \A m \in 1 .. k - 1 : m \in DOMAIN TaskList
    BY TaskListFacts
  <2>3. \A m \in 1 .. k - 1 : Done(st, TaskList[m])
    BY <1>5, <2>1, <2>2, TaskListFacts
  <2>4. Len(c) = k - 1
    <3>1. \A m \in 1 .. k - 1 : \E i \in DOMAIN c : c[i] = TaskList[m]
      BY <2>3 DEF Done
    <3>2. ~ \E i \in DOMAIN c : c[i] = TaskList[k]
      BY <1>9, <2>1 DEF Done
    <3> HIDE DEF c
    <3> QED
      BY <1>5, <3>1, <3>2, PrefixLength
  <2>5. d = Append(c, TaskList[k])
    BY <1>6, <1>9, <2>1
  <2>6. /\ DOMAIN c = 1 .. Len(c) /\ DOMAIN d = 1 .. k /\ k \in Nat
        /\ \A i \in DOMAIN c : d[i] = c[i]
        /\ d[k] = TaskList[k] /\ k \in DOMAIN d
    <3> HIDE DEF c, d
    <3> QED
      BY <1>5, <2>4, <2>5, TaskListFacts
  <2>7. \A i \in DOMAIN d : i \in DOMAIN c \/ i = k
    BY <2>4, <2>6
  <2>8. IsListPrefix(d)
    BY <1>5, <2>6, <2>7 DEF IsListPrefix
  <2>9. \A n \in TaskNames : Done(replay'[x], n) <=> Done(st, n) \/ n = ev.task
    <3> TAKE n \in TaskNames
    <3>1. Done(replay'[x], n) <=> \E i \in DOMAIN d : d[i] = n
      BY DEF Done
    <3>2. Done(st, n) <=> \E i \in DOMAIN c : c[i] = n
      BY DEF Done
    <3>3. \A i \in DOMAIN c : i \in DOMAIN d
      BY <2>4, <2>6
    <3> HIDE DEF c, d
    <3> QED
      BY <2>1, <2>6, <2>7, <3>1, <3>2, <3>3
  <2>10. \A n \in TaskNames : Done(replay'[x], n) <=> Achieved(log', x, n)
    <3> TAKE n \in TaskNames
    <3>1. Achieved(log', x, n) <=> Achieved(log, x, n) \/ Reports(ev, x, n)
      BY <1>1, <1>3
    <3>2. Reports(ev, x, n) <=> n = ev.task
      BY <1>7, <1>9
    <3>3. Achieved(log, x, n) <=> Done(st, n)
      BY <1>5
    <3> QED
      BY <2>9, <3>1, <3>2, <3>3
  <2> QED
    BY <1>2, <1>4, <2>8, <2>10 DEF ReplayOK
<1> QED
  BY <1>8, <1>9

LEMMA PublishErrorOrdered ==
  ASSUME TypeInv, OrderInv, NEW ev, WellFormed(ev),
         ev.type # "workflow.created", Justified(ev, log), PublishError(ev)
  PROVE  ReplayOK' /\ EntriesOK' /\ Continues(log, log')
<1>1. CASE Publish(ev)
  BY <1>1, EntriesOrdered, PublishOrdered, PublishElsewhere, PublishTyped
<1>2. CASE UNCHANGED streamVars
  <2>1. log' = log /\ replay' = replay
    BY <1>2 DEF streamVars
  <2> QED
    BY <2>1 DEF OrderInv, ReplayOK, EntriesOK, Continues
<1> QED
  BY <1>1, <1>2 DEF PublishError

-----------------------------------------------------------------------------
(* The goroutines.                                                         *)

(* A step chosen is still justified when the stream has grown.             *)
LEMMA StepsKept ==
  ASSUME TypeInv, StepsOK, Continues(log, log'),
         \A v \in Workers, h \in Permits :
           job'[v][h] = job[v][h] \/ job'[v][h].phase # "publishing"
  PROVE  StepsOK'
<1> SUFFICES ASSUME NEW v \in Workers, NEW h \in Permits,
                    job'[v][h].phase = "publishing"
             PROVE  StepOK(job'[v][h], log')
  BY DEF StepsOK, StepOK
<1> DEFINE j == job[v][h]
<1>1. job'[v][h] = j /\ j.phase = "publishing"
  OBVIOUS
<1>2. StepOK(j, log)
  BY DEF StepsOK
<1> HIDE DEF j
<1> QED
  BY <1>1, <1>2, AchievedStays DEF StepOK

(* An error of an attempt leaves the goroutine without a state.            *)
LEMMA AfterErrorJob ==
  ASSUME TypeInv, NEW w \in Workers, NEW g \in Permits, AfterError(w, g)
  PROVE  \E j \in Job : /\ SetJob(w, g, j) /\ j.phase \in {"locking", "dlq"}
                        /\ j.entry = job[w][g].entry
<1> DEFINE i == job[w][g].entry
           a == job[w][g].attempt
           again == [IdleJob EXCEPT !.entry = i, !.attempt = a + 1]
           retry == [again EXCEPT !.phase = "locking"]
           quit  == [again EXCEPT !.phase = "dlq", !.attempt = a]
<1>1. i \in Nat /\ a \in Nat /\ a + 1 \in Nat /\ IdleJob \in Job
  BY IdleJobTyped DEF TypeInv, TypeOK, Job
<1> HIDE DEF i, a
<1>2. again \in Job /\ again.entry = i
  BY <1>1 DEF Job
<1> HIDE DEF again
<1>3. /\ retry \in Job /\ retry.phase = "locking" /\ retry.entry = i
      /\ quit \in Job /\ quit.phase = "dlq" /\ quit.entry = i
  BY <1>1, <1>2 DEF Job, Phases
<1>4. SetJob(w, g, retry) \/ SetJob(w, g, quit)
  BY DEF AfterError, again, i, a
<1> HIDE DEF retry, quit
<1> QED
  BY <1>3, <1>4 DEF i

LEMMA AfterErrorOrdered ==
  ASSUME TypeInv, NEW w \in Workers, NEW g \in Permits, AfterError(w, g)
  PROVE  \A v \in Workers, h \in Permits :
           job'[v][h] = job[v][h] \/ job'[v][h].phase # "publishing"
<1>1. PICK j \in Job : SetJob(w, g, j) /\ j.phase # "publishing"
  BY AfterErrorJob
<1> QED
  BY <1>1, SetJobTyped

(* The state a goroutine works on has the completed tasks of the replay:   *)
(* the event it applies once more is in the stream already.                *)
LEMMA RebuildOrdered ==
  ASSUME TypeInv, OrderInv, NEW i \in DOMAIN log,
         log[i].execution \in Executions
  PROVE  LET st == ProcessEvent(replay[log[i].execution], log[i])
         IN  /\ st \in EngineState
             /\ st.completed = replay[log[i].execution].completed
             /\ st.context \in {log[i].execution, NoExecution}
<1> DEFINE ev == log[i]
           st == replay[ev.execution]
<1>1. WellFormed(ev) /\ ev.execution \in Executions
  BY DEF TypeInv, StreamOK, WellFormed
<1>2. st \in EngineState
  BY <1>1 DEF TypeInv, TypeOK
<1>3. IsReport(ev) => Done(st, ev.task)
  <2>1. IsReport(ev) => ev.task \in TaskNames
    BY <1>1 DEF IsReport, WellFormed
  <2>2. IsReport(ev) => Achieved(log, ev.execution, ev.task)
    BY DEF IsReport, Achieved, Reports
  <2> QED
    BY <1>1, <2>1, <2>2 DEF OrderInv, ReplayOK
<1>4. ProcessEvent(st, ev) \in EngineState
  BY <1>1, <1>2, ProcessEventTyped
<1>5. ProcessEvent(st, ev).completed = st.completed
  BY <1>1, <1>2, <1>3, CompletedStep
<1>6. ProcessEvent(st, ev).context \in {ev.execution, NoExecution}
  BY <1>1, <1>2, ContextStep DEF OrderInv, ReplayOK
<1> QED
  BY <1>4, <1>5, <1>6

-----------------------------------------------------------------------------
(* Steps that publish.                                                     *)

LEMMA ExecuteWorkflowOrdered ==
  ASSUME TypeInv, OrderInv, NEW e \in Executions, ExecuteWorkflow(e)
  PROVE  OrderInv'
<1> DEFINE ev == NewEvent("execution.started", "api", e, NoTask, TRUE)
<1>1. WellFormed(ev) /\ ev.type # "workflow.created" /\ Justified(ev, log)
  BY DEF NewEvent, WellFormed, Event, EventTypes, Sources, Justified, IsHandOut,
         IsReport
<1>2. PublishError(ev) /\ job' = job
  BY DEF ExecuteWorkflow, PublishError, workerVars
<1> HIDE DEF ev
<1>3. ReplayOK' /\ EntriesOK' /\ Continues(log, log')
  BY <1>1, <1>2, PublishErrorOrdered
<1> QED
  BY <1>2, <1>3, StepsKept DEF OrderInv

(* An answer is as justified as the request it answers.                    *)
LEMMA AnswerOrdered ==
  ASSUME TypeInv, OrderInv, NEW i \in DOMAIN log, Answer(i) \/ Drop(i)
  PROVE  OrderInv'
<1>1. WellFormed(log[i]) /\ Continues(SubSeq(log, 1, i - 1), log)
  BY DEF TypeInv, TypeOK, StreamOK, Continues
<1>2. ASSUME i \in Unanswered("task.requested") \cup Unanswered("timer.scheduled")
      PROVE  /\ log[i].task \in TaskNames
             /\ log[i].execution \in Executions \cup {NoExecution}
             /\ log[i].execution # NoExecution =>
                  InOrder(log, log[i].execution, log[i].task)
  <2>1. IsHandOut(log[i])
    BY <1>2 DEF Unanswered, IsHandOut
  <2>2. log[i].execution # NoExecution =>
          InOrder(SubSeq(log, 1, i - 1), log[i].execution, log[i].task)
    BY <2>1 DEF OrderInv, EntriesOK, Justified
  <2> QED
    BY <1>1, <1>2, <2>2, AchievedStays DEF Unanswered, WellFormed, Event
<1>3. PICK ev : \/ /\ WellFormed(ev) /\ ev.type # "workflow.created"
                   /\ Justified(ev, log) /\ PublishError(ev)
                \/ UNCHANGED streamVars
  <2>1. ASSUME NEW success \in BOOLEAN, ExecutorAnswers(i, success)
        PROVE  LET ev == NewEvent("task.completed", "executor-service",
                                  log[i].execution, log[i].task, success)
               IN  /\ WellFormed(ev) /\ ev.type # "workflow.created"
                   /\ Justified(ev, log) /\ PublishError(ev)
    BY <1>2, <2>1 DEF ExecutorAnswers, NewEvent, WellFormed, Event, EventTypes,
                      Sources, Justified, PublishError
  <2>2. ASSUME TimerFires(i)
        PROVE  LET ev == NewEvent("timer.fired", "timer-service",
                                  log[i].execution, log[i].task, TRUE)
               IN  /\ WellFormed(ev) /\ ev.type # "workflow.created"
                   /\ Justified(ev, log) /\ PublishError(ev)
    BY <1>2, <2>2 DEF TimerFires, NewEvent, WellFormed, Event, EventTypes,
                      Sources, Justified, PublishError
  <2>3. ASSUME ExecutorDrops(i)
        PROVE  LET ev == [log[i] EXCEPT !.type = "task.dlq"]
               IN  /\ WellFormed(ev) /\ ev.type # "workflow.created"
                   /\ Justified(ev, log) /\ PublishError(ev)
    BY <1>1, <1>2, <2>3 DEF ExecutorDrops, WellFormed, Event, EventTypes,
                            Justified, IsHandOut, IsReport
  <2>4. ASSUME TimerDrops(i) PROVE UNCHANGED streamVars
    BY <2>4 DEF TimerDrops
  <2> QED
    BY <2>1, <2>2, <2>3, <2>4 DEF Answer, Drop
<1>4. job' = job
  BY DEF Answer, Drop, ExecutorAnswers, TimerFires, ExecutorDrops, TimerDrops,
         workerVars
<1>5. ReplayOK' /\ EntriesOK' /\ Continues(log, log')
  <2>1. CASE UNCHANGED streamVars
    BY <2>1 DEF OrderInv, ReplayOK, EntriesOK, Continues, streamVars
  <2> QED
    BY <1>3, <2>1, PublishErrorOrdered
<1> QED
  BY <1>4, <1>5, StepsKept DEF OrderInv

LEMMA PublishStepOrdered ==
  ASSUME TypeInv, OrderInv, NEW w \in Workers, NEW g \in Permits,
         PublishStep(w, g) \/ PublishStepFails(w, g)
  PROVE  OrderInv'
<1> DEFINE j  == job[w][g]
           ev == JobEvent(w, g)
<1>1. j.phase = "publishing" /\ PublishError(ev)
  BY DEF PublishStep, PublishStepFails, PublishFails, PublishError
<1>2. /\ j \in Job /\ StepOK(j, log) /\ JobOK(j, log)
      /\ WellFormed(ev) /\ ev.type # "workflow.created"
  BY <1>1, JobFacts, JobEventTyped DEF OrderInv, StepsOK
<1>3. Justified(ev, log)
  BY <1>1, <1>2 DEF StepOK, JobOK, JobEvent, StepEvent, NewEvent, Justified,
                    IsHandOut, IsReport
<1>4. ReplayOK' /\ EntriesOK' /\ Continues(log, log')
  <2> HIDE DEF ev
  <2> QED
    BY <1>1, <1>2, <1>3, PublishErrorOrdered
<1>5. \A v \in Workers, h \in Permits :
        job'[v][h] = job[v][h] \/ job'[v][h].phase # "publishing"
  <2>1. CASE PublishStep(w, g)
    <3> DEFINE done == [j EXCEPT !.phase = "completing",
                                 !.state.status = "completed"]
               next == [j EXCEPT !.phase = "recording"]
    <3>1. [j.state EXCEPT !.status = "completed"] \in EngineState
      BY <1>2 DEF Job, EngineState, Statuses
    <3>2. /\ done \in Job /\ done.phase # "publishing"
          /\ next \in Job /\ next.phase # "publishing"
      BY <1>2, <3>1 DEF Job, Phases
    <3>3. PICK k \in {done, next} : SetJob(w, g, k)
      BY <2>1 DEF PublishStep, AfterPublication
    <3> HIDE DEF done, next
    <3> QED
      BY <3>2, <3>3, SetJobTyped
  <2>2. CASE PublishStepFails(w, g)
    BY <2>2, AfterErrorOrdered DEF PublishStepFails
  <2> QED
    BY <2>1, <2>2
<1> QED
  BY <1>4, <1>5, StepsKept DEF OrderInv

LEMMA DeadLetterOrdered ==
  ASSUME TypeInv, OrderInv, NEW w \in Workers, NEW g \in Permits,
         DeadLetter(w, g)
  PROVE  OrderInv'
<1> DEFINE ev == [log[job[w][g].entry] EXCEPT !.type = "event.dlq"]
           j  == [job[w][g] EXCEPT !.phase = "acking"]
<1>1. job[w][g].phase = "dlq" /\ PublishError(ev) /\ SetJob(w, g, j)
  BY DEF DeadLetter, PublishFails, PublishError
<1>2. /\ job[w][g] \in Job
      /\ WellFormed(log[job[w][g].entry])
  BY <1>1, JobFacts
<1>3. WellFormed(ev) /\ ev.type # "workflow.created" /\ Justified(ev, log)
  BY <1>2 DEF WellFormed, Event, EventTypes, Justified, IsHandOut, IsReport
<1>4. ReplayOK' /\ EntriesOK' /\ Continues(log, log')
  <2> HIDE DEF ev
  <2> QED
    BY <1>1, <1>3, PublishErrorOrdered
<1>5. j \in Job /\ j.phase # "publishing"
  BY <1>2 DEF Job, Phases
<1> HIDE DEF j
<1>6. \A v \in Workers, h \in Permits :
        job'[v][h] = job[v][h] \/ job'[v][h].phase # "publishing"
  BY <1>1, <1>5, SetJobTyped
<1> QED
  BY <1>4, <1>6, StepsKept DEF OrderInv

-----------------------------------------------------------------------------
(* Steps that publish nothing.                                             *)

LEMMA StreamKeptOrdered ==
  ASSUME TypeInv, OrderInv, UNCHANGED streamVars
  PROVE  ReplayOK' /\ EntriesOK' /\ Continues(log, log')
BY DEF OrderInv, ReplayOK, EntriesOK, Continues, streamVars

(* A step chosen in a state whose completed tasks have succeeded.          *)
LEMMA DecideOrdered ==
  ASSUME TypeInv, OrderInv, NEW w \in Workers, NEW g \in Permits,
         job[w][g].phase = "locking", log' = log, ReplayOK', EntriesOK',
         NEW st \in EngineState, Decide(w, g, st),
         st.context # NoExecution =>
           /\ IsListPrefix(st.completed)
           /\ \A n \in TaskNames : Done(st, n) => Achieved(log, st.context, n)
  PROVE  OrderInv'
<1> DEFINE e    == st.context
           step == NextStep(st)
           j    == [job[w][g] EXCEPT
                      !.phase = IF step.action = "nothing" THEN "recording"
                                                           ELSE "publishing",
                      !.state = st, !.step = step]
<1>1. job[w][g] \in Job
  BY DEF TypeInv, TypeOK
<1>2. CASE AfterError(w, g)
  <2>1. Continues(log, log')
    BY DEF Continues
  <2> QED
    BY <1>2, <2>1, AfterErrorOrdered, StepsKept DEF OrderInv
<1>3. CASE step.action # "error" /\ SetJob(w, g, j)
  <2>1. step \in Step
    BY NextStepTyped
  <2>2. e # NoExecution /\ step.action = "complete" => AllAchieved(log, e)
    BY NextStepInOrder, TaskListFacts DEF AllAchieved
  <2>3. ASSUME e # NoExecution, step.action \in {"run", "schedule", "request"}
        PROVE  InOrder(log, e, step.task)
    <3>1. PICK k \in DOMAIN TaskList :
            /\ TaskList[k] = step.task
            /\ \A m \in 1 .. k - 1 : Done(st, TaskList[m])
      BY <2>3, NextStepInOrder
    <3>2. \A m \in 1 .. k - 1 : m \in DOMAIN TaskList
      BY TaskListFacts
    <3>3. \A m \in 1 .. k - 1 : Achieved(log, e, TaskList[m])
      BY <2>3, <3>1, <3>2, TaskListFacts
    <3> QED
      BY <3>1, <3>3 DEF InOrder
  <2>4. /\ j \in Job /\ j.state = st /\ j.step = step
        /\ j.phase = "publishing" => step.action # "nothing"
    <3> HIDE DEF step
    <3> QED
      BY <1>1, <2>1 DEF Job, Phases
  <2>5. StepOK(j, log)
    <3> HIDE DEF j, step
    <3> QED
      BY <1>3, <2>1, <2>2, <2>3, <2>4 DEF StepOK, Step, Actions
  <2>6. \A v \in Workers, h \in Permits : StepOK(job'[v][h], log)
    <3> HIDE DEF j
    <3> QED
      BY <1>3, <2>4, <2>5, SetJobTyped DEF OrderInv, StepsOK
  <2> QED
    BY <2>6 DEF OrderInv, StepsOK
<1> QED
  BY <1>2, <1>3 DEF Decide

(* The only steps that choose what to publish choose it from the replay,   *)
(* or from the event alone.                                                *)
LEMMA RebuildStepOrdered ==
  ASSUME TypeInv, OrderInv, NEW w \in Workers, NEW g \in Permits,
         Rebuild(w, g) \/ RebuildBlind(w, g) \/ RebuildFails(w, g)
  PROVE  OrderInv'
<1> DEFINE ev == log[job[w][g].entry]
           e  == ev.execution
<1>1. /\ job[w][g].phase = "locking" /\ ~Skipped(ev)
      /\ UNCHANGED streamVars /\ log' = log
  BY DEF Rebuild, RebuildBlind, RebuildFails, Handles, streamVars
<1>2. job[w][g].entry \in DOMAIN log /\ WellFormed(ev)
  BY <1>1, JobFacts
<1>3. e \in Executions \cup {NoExecution}
  BY <1>2 DEF WellFormed, Event
<1>4. ReplayOK' /\ EntriesOK' /\ Continues(log, log')
  BY <1>1, StreamKeptOrdered
<1>5. CASE RebuildFails(w, g)
  BY <1>4, <1>5, AfterErrorOrdered, StepsKept DEF RebuildFails, OrderInv
<1>6. CASE Rebuild(w, g)
  <2> DEFINE st == ProcessEvent(replay[e], ev)
  <2>1. e \in Executions /\ Decide(w, g, st)
    BY <1>3, <1>6 DEF Rebuild
  <2>2. /\ st \in EngineState /\ st.completed = replay[e].completed
        /\ st.context \in {e, NoExecution}
    BY <1>2, <2>1, RebuildOrdered
  <2>3. /\ IsListPrefix(st.completed)
        /\ \A n \in TaskNames : Done(st, n) => Achieved(log, e, n)
    BY <2>1, <2>2 DEF OrderInv, ReplayOK, Done
  <2> HIDE DEF st
  <2> QED
    BY <1>1, <1>4, <2>1, <2>2, <2>3, DecideOrdered
<1>7. CASE RebuildBlind(w, g)
  <2> DEFINE st == ProcessEvent(EmptyState, ev)
  <2>1. Decide(w, g, st) /\ st \in EngineState
    BY <1>2, <1>7, EmptyStateTyped, ProcessEventTyped DEF RebuildBlind
  <2>2. EmptyState.context = NoExecution /\ EmptyState.completed = <<>>
    BY DEF EmptyState
  <2>3. st.context # NoExecution => ev.type = "execution.started"
    BY <2>2, EmptyStateTyped, ContextStep
  <2>4. ev.type = "execution.started" => st.completed = <<>>
    BY <1>2, <2>2, EmptyStateTyped, CompletedStep DEF IsReport
  <2> HIDE DEF st
  <2>5. st.completed = <<>> =>
          IsListPrefix(st.completed) /\ \A n \in TaskNames : ~Done(st, n)
    BY DEF IsListPrefix, Done
  <2> QED
    BY <1>1, <1>4, <2>1, <2>3, <2>4, <2>5, DecideOrdered
<1> QED
  BY <1>5, <1>6, <1>7

LEMMA RecordOrdered ==
  ASSUME TypeInv, OrderInv, NEW w \in Workers, NEW g \in Permits,
         \/ Spawn(w, g) \/ Skip(w, g) \/ Acknowledge(w, g)
         \/ CompleteRecord(w, g) \/ UpdateRecord(w, g)
         \/ UpdateRecordFails(w, g)
  PROVE  OrderInv'
<1>1. UNCHANGED streamVars
  BY DEF Spawn, Skip, CompleteRecord, UpdateRecord, UpdateRecordFails,
         Acknowledge
<1>2. ReplayOK' /\ EntriesOK' /\ Continues(log, log')
  BY <1>1, StreamKeptOrdered
<1>3. job[w][g] \in Job /\ IdleJob \in Job /\ IdleJob.phase = "idle"
  BY IdleJobTyped DEF TypeInv, TypeOK, IdleJob
<1>4. CASE UpdateRecordFails(w, g)
  BY <1>2, <1>4, AfterErrorOrdered, StepsKept DEF UpdateRecordFails, OrderInv
<1>5. ASSUME NEW j \in Job, SetJob(w, g, j), j.phase # "publishing"
      PROVE  OrderInv'
  <2>1. \A v \in Workers, h \in Permits :
          job'[v][h] = job[v][h] \/ job'[v][h].phase # "publishing"
    BY <1>5, SetJobTyped
  <2> QED
    BY <1>2, <2>1, StepsKept DEF OrderInv
<1>6. CASE Skip(w, g) \/ CompleteRecord(w, g)
  <2> DEFINE skip == [job[w][g] EXCEPT !.phase = "acking"]
             next == [job[w][g] EXCEPT !.phase = "recording"]
  <2>1. /\ skip \in Job /\ skip.phase # "publishing"
        /\ next \in Job /\ next.phase # "publishing"
    BY <1>3 DEF Job, Phases
  <2>2. SetJob(w, g, skip) \/ SetJob(w, g, next)
    BY <1>6 DEF Skip, CompleteRecord
  <2> HIDE DEF skip, next
  <2> QED
    BY <1>5, <2>1, <2>2
<1>7. CASE UpdateRecord(w, g)
  <2> DEFINE j == [IdleJob EXCEPT !.phase = "acking",
                     !.entry = job[w][g].entry, !.attempt = job[w][g].attempt]
  <2>1. j \in Job /\ j.phase # "publishing"
    BY <1>3 DEF Job, Phases
  <2>2. SetJob(w, g, j)
    BY <1>7 DEF UpdateRecord
  <2> HIDE DEF j
  <2> QED
    BY <1>5, <2>1, <2>2
<1>8. CASE Acknowledge(w, g)
  BY <1>3, <1>5, <1>8 DEF Acknowledge
<1>9. CASE Spawn(w, g)
  <2> DEFINE j == [IdleJob EXCEPT !.phase = "locking", !.attempt = 1,
                                  !.entry = Head(inbox[w])]
  <2>1. Head(inbox[w]) \in Nat
    <3>1. inbox[w] \in Seq(Positions) /\ inbox[w] # <<>>
      BY <1>9 DEF Spawn, TypeInv, TypeOK
    <3>2. Head(inbox[w]) \in Positions
      BY <3>1
    <3> QED
      BY <3>2 DEF Positions
  <2>2. j \in Job /\ j.phase # "publishing"
    BY <1>3, <2>1 DEF Job, Phases
  <2>3. SetJob(w, g, j)
    BY <1>9 DEF Spawn
  <2> HIDE DEF j
  <2> QED
    BY <1>5, <2>2, <2>3
<1> QED
  BY <1>4, <1>6, <1>7, <1>8, <1>9

LEMMA ProcessOrdered ==
  ASSUME TypeInv, OrderInv, NEW w \in Workers,
         Deliver(w) \/ Crash(w) \/ Stop(w) \/ Restart(w)
  PROVE  OrderInv'
<1>1. UNCHANGED streamVars
  BY DEF Deliver, Crash, Stop, Restart
<1>2. ReplayOK' /\ EntriesOK' /\ Continues(log, log')
  BY <1>1, StreamKeptOrdered
<1>3. \/ job' = job
      \/ job' = [job EXCEPT ![w] = [g \in Permits |-> IdleJob]]
  BY DEF Deliver, Crash, Stop, Restart, workerVars
<1>4. \A v \in Workers, h \in Permits :
        job'[v][h] = job[v][h] \/ job'[v][h].phase # "publishing"
  <2>1. job \in [Workers -> [Permits -> Job]] /\ IdleJob.phase = "idle"
    BY DEF TypeInv, TypeOK, IdleJob
  <2> QED
    BY <1>3, <2>1
<1> QED
  BY <1>2, <1>4, StepsKept DEF OrderInv

-----------------------------------------------------------------------------
LEMMA InitOrdered == Init => OrderInv
<1> SUFFICES ASSUME Init PROVE OrderInv
  OBVIOUS
<1>1. log = <<CreatedEvent>>
  BY DEF Init
<1>2. /\ CreatedEvent.type = "workflow.created"
      /\ \A e, n : ~Reports(CreatedEvent, e, n)
  BY DEF CreatedEvent, NewEvent, Reports
<1>3. DOMAIN log = {1} /\ log[1] = CreatedEvent
  BY <1>1
<1>4. EntriesOK
  BY <1>2, <1>3 DEF EntriesOK, Justified, IsHandOut, IsReport
<1>5. ReplayOK
  <2> SUFFICES ASSUME NEW e \in Executions
               PROVE  /\ replay[e].context \in {e, NoExecution}
                      /\ IsListPrefix(replay[e].completed)
                      /\ \A n \in TaskNames :
                           Done(replay[e], n) <=> Achieved(log, e, n)
    BY DEF ReplayOK
  <2>1. replay[e].completed = <<>> /\ replay[e].context = NoExecution
    BY DEF Init, EmptyState
  <2>2. \A n : ~Achieved(log, e, n)
    BY <1>2, <1>3 DEF Achieved
  <2> QED
    BY <2>1, <2>2 DEF IsListPrefix, Done
<1>6. StepsOK
  BY DEF Init, StepsOK, StepOK, IdleJob
<1> QED
  BY <1>4, <1>5, <1>6 DEF OrderInv

LEMMA StepOrdered == TypeInv /\ OrderInv /\ [Next]_vars => OrderInv'
<1> SUFFICES ASSUME TypeInv, OrderInv, [Next]_vars PROVE OrderInv'
  OBVIOUS
<1>1. CASE \E e \in Executions : ExecuteWorkflow(e)
  BY <1>1, ExecuteWorkflowOrdered
<1>2. CASE \E w \in Workers : Deliver(w) \/ Crash(w) \/ Stop(w) \/ Restart(w)
  BY <1>2, ProcessOrdered
<1>3. CASE \E w \in Workers, g \in Permits :
             Goroutine(w, g) \/ GoroutineFails(w, g)
  BY <1>3, RebuildStepOrdered, PublishStepOrdered, RecordOrdered,
     DeadLetterOrdered DEF Goroutine, GoroutineFails
<1>4. CASE \E i \in DOMAIN log : Answer(i) \/ Drop(i)
  BY <1>4, AnswerOrdered
<1>5. CASE UNCHANGED vars
  BY <1>5 DEF vars, OrderInv, ReplayOK, EntriesOK, StepsOK
<1> QED
  BY <1>1, <1>2, <1>3, <1>4, <1>5 DEF Next

(* The completed tasks of every replay are a prefix of the task list, and  *)
(* they are the tasks whose success is in the stream.                      *)
THEOREM OrderInvariance == Spec => [](TypeInv /\ OrderInv)
<1>1. Init => TypeInv /\ OrderInv
  BY InitTyped, InitOrdered
<1>2. TypeInv /\ OrderInv /\ [Next]_vars => (TypeInv /\ OrderInv)'
  BY StepTyped, StepOrdered
<1> QED
  BY <1>1, <1>2, PTL DEF Spec

(* What was achieved before entry i is among the entries before it.        *)
LEMMA AchievedBefore ==
  ASSUME TypeInv, NEW i \in DOMAIN log, NEW e, NEW n,
         Achieved(SubSeq(log, 1, i - 1), e, n)
  PROVE  \E h \in 1 .. i - 1 : Succeeds(h, e, n)
<1>1. \A h \in DOMAIN SubSeq(log, 1, i - 1) :
        h \in 1 .. i - 1 /\ SubSeq(log, 1, i - 1)[h] = log[h]
  BY DEF TypeInv, TypeOK
<1> QED
  BY <1>1 DEF Achieved, Reports, Succeeds

(* No task is handed out, to the executor, to the timer service or to the  *)
(* worker itself, before all tasks that precede it in the "do" list have   *)
(* succeeded in the same execution: for any number of worker processes and *)
(* goroutines, under retries, dead letters, crashes and lost answers.      *)
THEOREM SequentialOrderHolds == Spec => []SequentialOrder
<1>1. TypeInv /\ OrderInv => SequentialOrder
  <2> SUFFICES ASSUME TypeInv, OrderInv,
                      NEW i \in DOMAIN log, NEW k \in DOMAIN TaskList,
                      HandsOut(i), log[i].task = TaskList[k],
                      log[i].execution # NoExecution,
                      NEW m \in 1 .. k - 1
               PROVE  \E h \in 1 .. i - 1 :
                        Succeeds(h, log[i].execution, TaskList[m])
    BY DEF SequentialOrder
  <2>1. InOrder(SubSeq(log, 1, i - 1), log[i].execution, TaskList[k])
    BY DEF OrderInv, EntriesOK, Justified, HandsOut, IsHandOut
  <2>2. Achieved(SubSeq(log, 1, i - 1), log[i].execution, TaskList[m])
    BY <2>1, TaskListFacts DEF InOrder
  <2> QED
    BY <2>2, AchievedBefore
<1> QED
  BY <1>1, OrderInvariance, PTL

(* workflow.completed is never published before every task of the list has *)
(* succeeded, whichever goroutine publishes it and however often.          *)
THEOREM CompletionSoundHolds == Spec => []CompletionSound
<1>1. TypeInv /\ OrderInv => CompletionSound
  <2> SUFFICES ASSUME TypeInv, OrderInv,
                      NEW i \in DOMAIN log, NEW k \in DOMAIN TaskList,
                      log[i].type = "workflow.completed",
                      log[i].execution # NoExecution
               PROVE  \E h \in 1 .. i - 1 :
                        Succeeds(h, log[i].execution, TaskList[k])
    BY DEF CompletionSound
  <2>1. Achieved(SubSeq(log, 1, i - 1), log[i].execution, TaskList[k])
    BY DEF OrderInv, EntriesOK, Justified, AllAchieved
  <2> QED
    BY <2>1, AchievedBefore
<1> QED
  BY <1>1, OrderInvariance, PTL

-----------------------------------------------------------------------------
(* The stored record follows the stream.  Every status a replay or a       *)
(* goroutine may write is backed by the entries that produced it; a        *)
(* goroutine that read an unreadable stream as empty either names no       *)
(* execution or was woken by execution.started, and then writes "running". *)

HoldsMutex == {"publishing", "completing", "recording"}

CompletedIn(s, e) ==
  \E i \in DOMAIN s : s[i].execution = e /\ s[i].type = "workflow.completed"

FailedIn(s, e) ==
  \E i \in DOMAIN s :
    s[i].execution = e /\ s[i].type = "task.completed" /\ ~s[i].success

Backed(s, e, status) ==
  /\ status = "completed" => CompletedIn(s, e)
  /\ status = "failed" => FailedIn(s, e)

(* What goroutine j may still write is backed.                             *)
JobBacked(j, s) ==
  j.phase \in HoldsMutex /\ j.state.context # NoExecution =>
    /\ Backed(s, j.state.context, j.state.status)
    /\ j.phase = "completing" => CompletedIn(s, j.state.context)

(* A timer that fired always reports success: only the executor fails.     *)
TimersSucceed == \A i \in DOMAIN log : log[i].type = "timer.fired" => log[i].success

ReplaysBacked == \A e \in Executions : Backed(log, e, replay[e].status)
RecordsBacked == \A e \in Executions : Backed(log, e, record[e])
JobsBacked    == \A w \in Workers, g \in Permits : JobBacked(job[w][g], log)

BackedInv == TimersSucceed /\ ReplaysBacked /\ RecordsBacked /\ JobsBacked

LEMMA BackedStays ==
  ASSUME NEW s, NEW t, Continues(s, t)
  PROVE  /\ \A e, status : Backed(s, e, status) => Backed(t, e, status)
         /\ \A j : JobBacked(j, s) => JobBacked(j, t)
<1>1. \A e : CompletedIn(s, e) => CompletedIn(t, e)
  BY DEF CompletedIn, Continues
<1>2. \A e : FailedIn(s, e) => FailedIn(t, e)
  BY DEF FailedIn, Continues
<1>3. \A e, status : Backed(s, e, status) => Backed(t, e, status)
  BY <1>1, <1>2 DEF Backed
<1> QED
  BY <1>1, <1>3 DEF JobBacked

(* The status an event of the stream leaves is the old one or its own.     *)
LEMMA StatusStep ==
  ASSUME NEW st \in EngineState, NEW s, NEW i \in DOMAIN s, WellFormed(s[i]),
         s[i].type = "timer.fired" => s[i].success,
         Backed(s, s[i].execution, st.status)
  PROVE  Backed(s, s[i].execution, ProcessEvent(st, s[i]).status)
<1> DEFINE ev == s[i]
<1>1. CASE ev.type \in {"task.completed", "timer.fired"}
  <2>1. ProcessEvent(st, ev) = TaskCompleted(st, ev)
    BY <1>1 DEF ProcessEvent
  <2>2. CASE ev.success
    <3>1. TaskCompleted(st, ev).status = st.status
      BY <2>2 DEF TaskCompleted, EngineState
    <3> QED
      BY <2>1, <3>1
  <2>3. CASE ~ev.success
    <3>1. TaskCompleted(st, ev).status = "failed"
      BY <2>3 DEF TaskCompleted, EngineState
    <3>2. FailedIn(s, ev.execution)
      BY <1>1, <2>3 DEF FailedIn
    <3> QED
      BY <2>1, <3>1, <3>2 DEF Backed
  <2> QED
    BY <2>2, <2>3
<1>2. CASE ev.type = "workflow.completed"
  <2>1. ProcessEvent(st, ev).status = "completed"
    BY <1>2 DEF ProcessEvent, EngineState
  <2>2. CompletedIn(s, ev.execution)
    BY <1>2 DEF CompletedIn
  <2> QED
    BY <2>1, <2>2 DEF Backed
<1>3. CASE ev.type \in {"workflow.created", "execution.started"}
  <2>1. ProcessEvent(st, ev).status \in {"created", "running"}
    BY <1>3 DEF ProcessEvent, EngineState
  <2> QED
    BY <2>1 DEF Backed
<1>4. CASE ev.type \notin {"task.completed", "timer.fired", "workflow.completed",
                          "workflow.created", "execution.started"}
  <2>1. ProcessEvent(st, ev).status = st.status
    BY <1>4 DEF ProcessEvent, EngineState
  <2> QED
    BY <2>1
<1> QED
  BY <1>1, <1>2, <1>3, <1>4

(* A publication backs the state it leaves in the replay.                  *)
LEMMA PublishBacked ==
  ASSUME TypeInv, BackedInv, NEW ev, WellFormed(ev),
         ev.type # "workflow.created", ev.type = "timer.fired" => ev.success,
         PublishError(ev)
  PROVE  /\ TimersSucceed' /\ ReplaysBacked' /\ Continues(log, log')
         /\ \A e \in Executions : Backed(log', e, record[e])
<1>1. Continues(log, log')
  BY PublishErrorTyped
<1>2. \A e \in Executions : /\ Backed(log', e, record[e])
                            /\ Backed(log', e, replay[e].status)
  BY <1>1, BackedStays DEF BackedInv, RecordsBacked, ReplaysBacked
<1>3. CASE UNCHANGED streamVars
  BY <1>1, <1>2, <1>3 DEF BackedInv, TimersSucceed, ReplaysBacked, streamVars
<1>4. CASE Publish(ev)
  <2> DEFINE n == Len(log')
  <2>1. /\ log \in Seq(Event) /\ ev \in Event /\ log' = Append(log, ev)
    BY <1>4 DEF TypeInv, TypeOK, WellFormed, Publish
  <2>2. /\ n \in DOMAIN log' /\ log'[n] = ev
        /\ \A i \in DOMAIN log' : i \in DOMAIN log \/ i = n
    BY <2>1, AppendFacts
  <2>3. TimersSucceed'
    BY <1>1, <2>2 DEF BackedInv, TimersSucceed, Continues
  <2>4. ASSUME NEW e \in Executions
        PROVE  Backed(log', e, replay'[e].status)
    <3>1. replay[e] \in EngineState
      BY DEF TypeInv, TypeOK
    <3>2. CASE e # ev.execution
      BY <1>2, <1>4, <3>2 DEF Publish
    <3>3. CASE e = ev.execution
      <4>1. replay'[e] = ProcessEvent(replay[e], ev)
        BY <1>4, <3>3 DEF Publish
      <4> HIDE DEF n
      <4>2. Backed(log', e, ProcessEvent(replay[e], log'[n]).status)
        BY <1>2, <2>2, <3>1, <3>3, StatusStep
      <4> QED
        BY <2>2, <4>1, <4>2
    <3> QED
      BY <3>2, <3>3
  <2> QED
    BY <1>1, <1>2, <2>3, <2>4 DEF ReplaysBacked
<1> QED
  BY <1>3, <1>4 DEF PublishError

(* Goroutines that hold no mutex, or the state they had, write nothing new.*)
LEMMA JobsBackedKept ==
  ASSUME TypeInv, JobsBacked, Continues(log, log'),
         \A v \in Workers, h \in Permits :
           \/ job'[v][h] = job[v][h]
           \/ job'[v][h].phase \notin HoldsMutex
           \/ JobBacked(job'[v][h], log')
  PROVE  JobsBacked'
<1>1. ASSUME NEW v \in Workers, NEW h \in Permits
      PROVE  JobBacked(job'[v][h], log')
  <2>1. CASE job'[v][h] = job[v][h]
    BY <2>1, BackedStays DEF JobsBacked
  <2>2. CASE job'[v][h].phase \notin HoldsMutex
    BY <2>2 DEF JobBacked
  <2> QED
    BY <2>1, <2>2
<1> QED
  BY <1>1 DEF JobsBacked

LEMMA ServiceBacked ==
  ASSUME TypeInv, OrderInv, BackedInv,
         \/ \E e \in Executions : ExecuteWorkflow(e)
         \/ \E i \in DOMAIN log : Answer(i) \/ Drop(i)
  PROVE  BackedInv'
<1>1. job' = job
  BY DEF ExecuteWorkflow, Answer, Drop, ExecutorAnswers, TimerFires,
         ExecutorDrops, TimerDrops, workerVars
<1>2. CASE \E e \in Executions : ExecuteWorkflow(e)
  <2>1. PICK e \in Executions : ExecuteWorkflow(e)
    BY <1>2
  <2> DEFINE ev == NewEvent("execution.started", "api", e, NoTask, TRUE)
  <2>2. WellFormed(ev) /\ ev.type \notin {"workflow.created", "timer.fired"}
    BY DEF NewEvent, WellFormed, Event, EventTypes, Sources
  <2>3. PublishError(ev) /\ record' = [record EXCEPT ![e] = "pending"]
    BY <2>1 DEF ExecuteWorkflow, PublishError
  <2> HIDE DEF ev
  <2>4. /\ TimersSucceed' /\ ReplaysBacked' /\ Continues(log, log')
        /\ \A x \in Executions : Backed(log', x, record[x])
    BY <2>2, <2>3, PublishBacked
  <2>5. RecordsBacked'
    <3>1. \A x \in Executions : record'[x] \in {record[x], "pending"}
      BY <2>3 DEF TypeInv, TypeOK
    <3> QED
      BY <2>4, <3>1 DEF RecordsBacked, Backed
  <2> QED
    BY <1>1, <2>4, <2>5, JobsBackedKept DEF BackedInv
<1>3. CASE \E i \in DOMAIN log : Answer(i) \/ Drop(i)
  <2>1. PICK i \in DOMAIN log : Answer(i) \/ Drop(i)
    BY <1>3
  <2>2. WellFormed(log[i]) /\ record' = record
    BY <2>1 DEF TypeInv, StreamOK, Answer, Drop, ExecutorAnswers, TimerFires,
                ExecutorDrops, TimerDrops
  <2>3. ASSUME i \in Unanswered("task.requested") \cup Unanswered("timer.scheduled")
        PROVE  /\ log[i].task \in TaskNames
               /\ log[i].execution \in Executions \cup {NoExecution}
    BY <2>2, <2>3 DEF Unanswered, WellFormed, Event
  <2>4. PICK ev : \/ /\ WellFormed(ev) /\ ev.type # "workflow.created"
                     /\ ev.type = "timer.fired" => ev.success
                     /\ PublishError(ev)
                  \/ UNCHANGED streamVars
    <3>1. ASSUME NEW success \in BOOLEAN, ExecutorAnswers(i, success)
          PROVE  LET ev == NewEvent("task.completed", "executor-service",
                                    log[i].execution, log[i].task, success)
                 IN  /\ WellFormed(ev)
                     /\ ev.type \notin {"workflow.created", "timer.fired"}
                     /\ PublishError(ev)
      BY <2>3, <3>1 DEF ExecutorAnswers, NewEvent, WellFormed, Event,
                        EventTypes, Sources, PublishError
    <3>2. ASSUME TimerFires(i)
          PROVE  LET ev == NewEvent("timer.fired", "timer-service",
                                    log[i].execution, log[i].task, TRUE)
                 IN  /\ WellFormed(ev) /\ ev.type # "workflow.created"
                     /\ ev.success /\ PublishError(ev)
      BY <2>3, <3>2 DEF TimerFires, NewEvent, WellFormed, Event, EventTypes,
                        Sources, PublishError
    <3>3. ASSUME ExecutorDrops(i)
          PROVE  LET ev == [log[i] EXCEPT !.type = "task.dlq"]
                 IN  /\ WellFormed(ev)
                     /\ ev.type \notin {"workflow.created", "timer.fired"}
                     /\ PublishError(ev)
      BY <2>2, <2>3, <3>3 DEF ExecutorDrops, WellFormed, Event, EventTypes
    <3>4. ASSUME TimerDrops(i) PROVE UNCHANGED streamVars
      BY <3>4 DEF TimerDrops
    <3> QED
      BY <2>1, <3>1, <3>2, <3>3, <3>4 DEF Answer, Drop
  <2>5. /\ TimersSucceed' /\ ReplaysBacked' /\ Continues(log, log')
        /\ \A x \in Executions : Backed(log', x, record[x])
    <3>1. CASE UNCHANGED streamVars
      BY <3>1 DEF BackedInv, TimersSucceed, ReplaysBacked, RecordsBacked,
                  Continues, streamVars
    <3> QED
      BY <2>4, <3>1, PublishBacked
  <2> QED
    BY <1>1, <2>2, <2>5, JobsBackedKept DEF BackedInv, RecordsBacked
<1> QED
  BY <1>2, <1>3

LEMMA StreamKeptBacked ==
  ASSUME BackedInv, UNCHANGED streamVars
  PROVE  /\ TimersSucceed' /\ ReplaysBacked' /\ Continues(log, log')
         /\ \A e \in Executions : Backed(log', e, record[e])
BY DEF BackedInv, TimersSucceed, ReplaysBacked, RecordsBacked, Continues,
       streamVars

(* The state a goroutine decides in is a replay, or names no execution, or *)
(* is the one execution.started leaves.                                    *)
LEMMA RebuildBacked ==
  ASSUME TypeInv, OrderInv, BackedInv, NEW w \in Workers, NEW g \in Permits,
         Rebuild(w, g) \/ RebuildBlind(w, g) \/ RebuildFails(w, g)
  PROVE  BackedInv'
<1> DEFINE i  == job[w][g].entry
           ev == log[i]
           e  == ev.execution
<1>1. /\ job[w][g].phase = "locking" /\ record' = record
      /\ UNCHANGED streamVars /\ log' = log
  BY DEF Rebuild, RebuildBlind, RebuildFails, Handles, streamVars
<1>2. i \in DOMAIN log /\ WellFormed(ev) /\ job[w][g] \in Job
  BY <1>1, JobFacts
<1>3. /\ TimersSucceed' /\ ReplaysBacked' /\ Continues(log, log')
      /\ RecordsBacked'
  BY <1>1, StreamKeptBacked DEF RecordsBacked
<1>4. ASSUME NEW st \in EngineState, Decide(w, g, st),
             st.context # NoExecution => Backed(log, st.context, st.status)
      PROVE  BackedInv'
  <2>1. PICK j \in Job : /\ SetJob(w, g, j)
                         /\ j.phase \notin HoldsMutex \/ JobBacked(j, log)
    <3>1. CASE AfterError(w, g)
      BY <3>1, AfterErrorJob DEF HoldsMutex
    <3>2. CASE ~AfterError(w, g)
      <4> DEFINE step == NextStep(st)
                 phase == IF step.action = "nothing" THEN "recording"
                                                     ELSE "publishing"
                 j == [job[w][g] EXCEPT !.phase = phase, !.state = st,
                                        !.step = step]
      <4>1. SetJob(w, g, j)
        BY <1>4, <3>2 DEF Decide
      <4>2. step \in Step /\ phase \in {"recording", "publishing"}
        BY NextStepTyped
      <4> HIDE DEF step, phase
      <4>3. j \in Job /\ j.phase # "completing" /\ j.state = st
        BY <1>2, <4>2 DEF Job, Phases
      <4> HIDE DEF j
      <4>4. JobBacked(j, log)
        BY <1>4, <4>3 DEF JobBacked
      <4> QED
        BY <4>1, <4>3, <4>4
    <3> QED
      BY <3>1, <3>2
  <2> QED
    BY <1>1, <1>3, <2>1, SetJobTyped, JobsBackedKept DEF BackedInv
<1>5. CASE RebuildFails(w, g)
  <2>1. PICK j \in Job : SetJob(w, g, j) /\ j.phase \notin HoldsMutex
    BY <1>5, AfterErrorJob DEF RebuildFails, HoldsMutex
  <2> QED
    BY <1>3, <2>1, SetJobTyped, JobsBackedKept DEF BackedInv
<1>6. CASE Rebuild(w, g)
  <2> DEFINE st == ProcessEvent(replay[e], ev)
  <2>1. e \in Executions /\ Decide(w, g, st)
    BY <1>2, <1>6 DEF Rebuild, WellFormed, Event
  <2>2. /\ st \in EngineState /\ replay[e] \in EngineState
        /\ st.context \in {e, NoExecution}
    BY <1>2, <2>1, RebuildOrdered DEF TypeInv, TypeOK
  <2>3. Backed(log, e, st.status)
    <3>1. Backed(log, e, replay[e].status)
      BY <2>1 DEF BackedInv, ReplaysBacked
    <3>2. ev.type = "timer.fired" => ev.success
      BY <1>2 DEF BackedInv, TimersSucceed
    <3> HIDE DEF i
    <3> QED
      BY <1>2, <2>2, <3>1, <3>2, StatusStep
  <2> HIDE DEF st, e
  <2> QED
    BY <1>4, <2>1, <2>2, <2>3
<1>7. CASE RebuildBlind(w, g)
  <2> DEFINE st == ProcessEvent(EmptyState, ev)
  <2>1. Decide(w, g, st) /\ st \in EngineState
    BY <1>2, <1>7, EmptyStateTyped, ProcessEventTyped DEF RebuildBlind
  <2>2. st.context # NoExecution => ev.type = "execution.started"
    <3>1. EmptyState.context = NoExecution
      BY DEF EmptyState
    <3> QED
      BY <3>1, EmptyStateTyped, ContextStep
  <2>3. ev.type = "execution.started" => st.status = "running"
    BY EmptyStateTyped DEF ProcessEvent, EngineState
  <2>4. st.context # NoExecution => Backed(log, st.context, st.status)
    BY <2>2, <2>3 DEF Backed
  <2> HIDE DEF st
  <2> QED
    BY <1>4, <2>1, <2>4
<1> QED
  BY <1>5, <1>6, <1>7

LEMMA PublishStepBacked ==
  ASSUME TypeInv, OrderInv, BackedInv, NEW w \in Workers, NEW g \in Permits,
         PublishStep(w, g) \/ PublishStepFails(w, g)
  PROVE  BackedInv'
<1> DEFINE ev == JobEvent(w, g)
           st == job[w][g].state
<1>1. /\ job[w][g].phase = "publishing" /\ PublishError(ev)
      /\ record' = record
  BY DEF PublishStep, PublishStepFails, PublishFails, PublishError
<1>2. /\ job[w][g] \in Job /\ JobBacked(job[w][g], log)
      /\ WellFormed(ev) /\ ev.type # "workflow.created"
  BY <1>1, JobFacts, JobEventTyped DEF BackedInv, JobsBacked
<1>3. ev.type # "timer.fired"
  BY DEF JobEvent, StepEvent, NewEvent
<1>4. /\ TimersSucceed' /\ ReplaysBacked' /\ Continues(log, log')
      /\ RecordsBacked'
  <2> HIDE DEF ev
  <2> QED
    BY <1>1, <1>2, <1>3, PublishBacked DEF RecordsBacked
<1>5. CASE PublishStepFails(w, g)
  <2>1. PICK j \in Job : SetJob(w, g, j) /\ j.phase \notin HoldsMutex
    BY <1>5, AfterErrorJob DEF PublishStepFails, HoldsMutex
  <2> QED
    BY <1>4, <2>1, SetJobTyped, JobsBackedKept DEF BackedInv
<1>6. CASE PublishStep(w, g)
  <2>1. st \in EngineState
    BY <1>2 DEF Job
  <2>2. CASE job[w][g].step.action = "complete"
    <3> DEFINE j == [job[w][g] EXCEPT !.phase = "completing",
                                      !.state.status = "completed"]
    <3>1. SetJob(w, g, j)
      BY <1>6, <2>2 DEF PublishStep, AfterPublication
    <3>2. [st EXCEPT !.status = "completed"] \in EngineState
      BY <2>1 DEF EngineState, Statuses
    <3>3. /\ j \in Job /\ j.state.context = st.context
          /\ j.state.status = "completed"
      BY <1>2, <2>1, <3>2 DEF Job, Phases, EngineState
    <3>4. ev.type = "workflow.completed" /\ ev.execution = st.context
      BY <2>2 DEF JobEvent, StepEvent, NewEvent
    <3>5. CompletedIn(log', st.context)
      <4>1. /\ log \in Seq(Event) /\ ev \in Event
            /\ log' = Append(log, ev)
        BY <1>2, <1>6 DEF TypeInv, TypeOK, WellFormed, PublishStep, Publish
      <4>2. Len(log') \in DOMAIN log' /\ log'[Len(log')] = ev
        BY <4>1, AppendFacts
      <4> QED
        BY <3>4, <4>2 DEF CompletedIn
    <3> HIDE DEF j
    <3>6. JobBacked(j, log')
      BY <3>3, <3>5 DEF JobBacked, Backed
    <3> QED
      BY <1>4, <3>1, <3>3, <3>6, SetJobTyped, JobsBackedKept DEF BackedInv
  <2>3. CASE job[w][g].step.action # "complete"
    <3> DEFINE j == [job[w][g] EXCEPT !.phase = "recording"]
    <3>1. SetJob(w, g, j)
      BY <1>6, <2>3 DEF PublishStep, AfterPublication
    <3>2. j \in Job /\ j.state = st /\ j.phase = "recording"
      BY <1>2 DEF Job, Phases
    <3> HIDE DEF j
    <3>3. JobBacked(j, log)
      BY <1>1, <1>2, <3>2 DEF JobBacked, HoldsMutex
    <3>4. JobBacked(j, log')
      BY <1>4, <3>3, BackedStays
    <3> QED
      BY <1>4, <3>1, <3>2, <3>4, SetJobTyped, JobsBackedKept DEF BackedInv
  <2> QED
    BY <2>2, <2>3
<1> QED
  BY <1>5, <1>6

(* The records: a goroutine writes the status it holds.                    *)
LEMMA RecordStepBacked ==
  ASSUME TypeInv, BackedInv, NEW w \in Workers, NEW g \in Permits,
         CompleteRecord(w, g) \/ UpdateRecord(w, g) \/ UpdateRecordFails(w, g)
  PROVE  BackedInv'
<1> DEFINE st == job[w][g].state
<1>1. /\ job[w][g].phase \in {"completing", "recording"}
      /\ UNCHANGED streamVars /\ log' = log
  BY DEF CompleteRecord, UpdateRecord, UpdateRecordFails, streamVars
<1>2. /\ job[w][g] \in Job /\ JobBacked(job[w][g], log)
  BY <1>1, JobFacts DEF BackedInv, JobsBacked
<1>3. TimersSucceed' /\ ReplaysBacked' /\ Continues(log, log')
  BY <1>1, StreamKeptBacked
<1>4. RecordsBacked'
  <2>1. PICK status : /\ StoreStatus(st.context, status) \/ UNCHANGED record
                      /\ st.context # NoExecution =>
                           Backed(log, st.context, status)
    <3>1. CASE CompleteRecord(w, g)
      <4>1. st.context # NoExecution => Backed(log, st.context, "completed")
        BY <1>1, <1>2, <3>1
           DEF CompleteRecord, JobBacked, HoldsMutex, Backed
      <4>2. StoreStatus(st.context, "completed") \/ UNCHANGED record
        BY <3>1 DEF CompleteRecord
      <4> QED
        BY <4>1, <4>2
    <3>2. CASE UpdateRecord(w, g) \/ UpdateRecordFails(w, g)
      <4> DEFINE status == RecordStatus(st.status)
      <4>1. st.context # NoExecution => Backed(log, st.context, status)
        BY <1>1, <1>2 DEF JobBacked, HoldsMutex, Backed, RecordStatus
      <4>2. StoreStatus(st.context, status) \/ UNCHANGED record
        BY <3>2 DEF UpdateRecord, UpdateRecordFails, WriteRecord
      <4> QED
        BY <4>1, <4>2
    <3> QED
      BY <3>1, <3>2
  <2>2. st.context \in Executions \cup {NoExecution}
    BY <1>2 DEF Job, EngineState
  <2>3. record \in [Executions -> RecordStatuses]
    BY DEF TypeInv, TypeOK
  <2>4. ASSUME NEW e \in Executions PROVE Backed(log', e, record'[e])
    <3>1. Backed(log, e, record[e])
      BY DEF BackedInv, RecordsBacked
    <3>2. \/ record'[e] = record[e]
          \/ e = st.context /\ e # NoExecution /\ record'[e] = status
      BY <2>1, <2>2, <2>3, ExecutionsAssumption DEF StoreStatus
    <3> QED
      BY <1>1, <2>1, <3>1, <3>2
  <2> QED
    BY <2>4 DEF RecordsBacked
<1>5. PICK j \in Job : /\ SetJob(w, g, j)
                       /\ j.phase \notin HoldsMutex \/ JobBacked(j, log')
  <2>1. CASE CompleteRecord(w, g)
    <3> DEFINE j == [job[w][g] EXCEPT !.phase = "recording"]
    <3>1. SetJob(w, g, j)
      BY <2>1 DEF CompleteRecord
    <3>2. j \in Job /\ j.state = st /\ j.phase = "recording"
      BY <1>2 DEF Job, Phases
    <3> HIDE DEF j
    <3>3. JobBacked(j, log')
      BY <1>1, <1>2, <3>2 DEF JobBacked, HoldsMutex
    <3> QED
      BY <3>1, <3>2, <3>3
  <2>2. CASE UpdateRecord(w, g)
    <3> DEFINE j == [IdleJob EXCEPT !.phase = "acking",
                       !.entry = job[w][g].entry, !.attempt = job[w][g].attempt]
    <3>1. SetJob(w, g, j)
      BY <2>2 DEF UpdateRecord
    <3>2. j \in Job /\ j.phase = "acking"
      BY <1>2, IdleJobTyped DEF Job, Phases
    <3> HIDE DEF j
    <3> QED
      BY <3>1, <3>2 DEF HoldsMutex
  <2>3. CASE UpdateRecordFails(w, g)
    BY <2>3, AfterErrorJob DEF UpdateRecordFails, HoldsMutex
  <2> QED
    BY <2>1, <2>2, <2>3
<1> QED
  BY <1>3, <1>4, <1>5, SetJobTyped, JobsBackedKept DEF BackedInv

LEMMA OtherStepBacked ==
  ASSUME TypeInv, BackedInv, NEW w \in Workers, NEW g \in Permits,
         Spawn(w, g) \/ Skip(w, g) \/ DeadLetter(w, g) \/ Acknowledge(w, g)
  PROVE  BackedInv'
<1>1. record' = record
  BY DEF Spawn, Skip, DeadLetter, Acknowledge
<1>2. /\ TimersSucceed' /\ ReplaysBacked' /\ Continues(log, log')
      /\ RecordsBacked'
  <2>1. CASE DeadLetter(w, g)
    <3> DEFINE ev == [log[job[w][g].entry] EXCEPT !.type = "event.dlq"]
    <3>1. job[w][g].phase = "dlq" /\ PublishError(ev)
      BY <2>1 DEF DeadLetter, PublishFails, PublishError
    <3>2. WellFormed(log[job[w][g].entry])
      BY <3>1, JobFacts
    <3>3. /\ WellFormed(ev)
          /\ ev.type \notin {"workflow.created", "timer.fired"}
      BY <3>2 DEF WellFormed, Event, EventTypes
    <3> HIDE DEF ev
    <3> QED
      BY <1>1, <3>1, <3>3, PublishBacked DEF RecordsBacked
  <2>2. CASE UNCHANGED streamVars
    BY <1>1, <2>2, StreamKeptBacked DEF RecordsBacked
  <2> QED
    BY <2>1, <2>2 DEF Spawn, Skip, Acknowledge
<1>3. PICK j \in Job : SetJob(w, g, j) /\ j.phase \notin HoldsMutex
  <2>1. IdleJob \in Job /\ IdleJob.phase = "idle" /\ job[w][g] \in Job
    BY IdleJobTyped DEF IdleJob, TypeInv, TypeOK
  <2>2. CASE Spawn(w, g)
    <3> DEFINE j == [IdleJob EXCEPT !.phase = "locking", !.attempt = 1,
                                    !.entry = Head(inbox[w])]
    <3>1. inbox[w] \in Seq(Positions) /\ inbox[w] # <<>>
      BY <2>2 DEF Spawn, TypeInv, TypeOK
    <3>2. Head(inbox[w]) \in Nat
      BY <3>1 DEF Positions
    <3>3. j \in Job /\ j.phase = "locking"
      BY <2>1, <3>2 DEF Job, Phases
    <3>4. SetJob(w, g, j)
      BY <2>2 DEF Spawn
    <3> HIDE DEF j
    <3> QED
      BY <3>3, <3>4 DEF HoldsMutex
  <2>3. CASE Skip(w, g) \/ DeadLetter(w, g)
    <3> DEFINE j == [job[w][g] EXCEPT !.phase = "acking"]
    <3>1. j \in Job /\ j.phase = "acking"
      BY <2>1 DEF Job, Phases
    <3>2. SetJob(w, g, j)
      BY <2>3 DEF Skip, DeadLetter
    <3> HIDE DEF j
    <3> QED
      BY <3>1, <3>2 DEF HoldsMutex
  <2>4. CASE Acknowledge(w, g)
    BY <2>1, <2>4 DEF Acknowledge, HoldsMutex
  <2> QED
    BY <2>2, <2>3, <2>4
<1> QED
  BY <1>2, <1>3, SetJobTyped, JobsBackedKept DEF BackedInv

LEMMA ProcessBacked ==
  ASSUME TypeInv, BackedInv, NEW w \in Workers,
         Deliver(w) \/ Crash(w) \/ Stop(w) \/ Restart(w)
  PROVE  BackedInv'
<1>1. UNCHANGED streamVars /\ record' = record
  BY DEF Deliver, Crash, Stop, Restart
<1>2. /\ TimersSucceed' /\ ReplaysBacked' /\ Continues(log, log')
      /\ RecordsBacked'
  BY <1>1, StreamKeptBacked DEF RecordsBacked
<1>3. \/ job' = job
      \/ job' = [job EXCEPT ![w] = [g \in Permits |-> IdleJob]]
  BY DEF Deliver, Crash, Stop, Restart, workerVars
<1>4. \A v \in Workers, h \in Permits :
        job'[v][h] = job[v][h] \/ job'[v][h].phase \notin HoldsMutex
  <2>1. job \in [Workers -> [Permits -> Job]] /\ IdleJob.phase \notin HoldsMutex
    BY DEF TypeInv, TypeOK, IdleJob, HoldsMutex
  <2> QED
    BY <1>3, <2>1
<1> QED
  BY <1>2, <1>4, JobsBackedKept DEF BackedInv

LEMMA InitBacked == Init => BackedInv
<1> SUFFICES ASSUME Init PROVE BackedInv
  OBVIOUS
<1>1. log = <<CreatedEvent>> /\ CreatedEvent.type = "workflow.created"
  BY DEF Init, CreatedEvent, NewEvent
<1>2. TimersSucceed
  BY <1>1 DEF TimersSucceed
<1>3. ReplaysBacked /\ RecordsBacked
  BY DEF Init, EmptyState, ReplaysBacked, RecordsBacked, Backed
<1>4. JobsBacked
  BY DEF Init, IdleJob, JobsBacked, JobBacked, HoldsMutex
<1> QED
  BY <1>2, <1>3, <1>4 DEF BackedInv

LEMMA StepBacked == TypeInv /\ OrderInv /\ BackedInv /\ [Next]_vars => BackedInv'
<1> SUFFICES ASSUME TypeInv, OrderInv, BackedInv, [Next]_vars PROVE BackedInv'
  OBVIOUS
<1>1. CASE \E e \in Executions : ExecuteWorkflow(e)
  BY <1>1, ServiceBacked
<1>2. CASE \E w \in Workers : Deliver(w) \/ Crash(w) \/ Stop(w) \/ Restart(w)
  BY <1>2, ProcessBacked
<1>3. CASE \E w \in Workers, g \in Permits :
             Goroutine(w, g) \/ GoroutineFails(w, g)
  BY <1>3, RebuildBacked, PublishStepBacked, RecordStepBacked, OtherStepBacked
     DEF Goroutine, GoroutineFails
<1>4. CASE \E i \in DOMAIN log : Answer(i) \/ Drop(i)
  BY <1>4, ServiceBacked
<1>5. CASE UNCHANGED vars
  BY <1>5 DEF vars, BackedInv, TimersSucceed, ReplaysBacked, RecordsBacked,
              JobsBacked
<1> QED
  BY <1>1, <1>2, <1>3, <1>4, <1>5 DEF Next

(* A stored execution is "completed" only when its workflow.completed is   *)
(* in the stream and "failed" only when a failed task of it is: for any    *)
(* number of worker processes that overwrite each other's records, with    *)
(* publications and record updates that fail, and streams that read as     *)
(* empty.                                                                  *)
THEOREM RecordJustifiedHolds == Spec => []RecordJustified
<1>1. Init => BackedInv
  BY InitBacked
<1>2. TypeInv /\ OrderInv /\ BackedInv /\ [Next]_vars => BackedInv'
  BY StepBacked
<1>3. BackedInv => RecordJustified
  BY DEF BackedInv, RecordsBacked, Backed, CompletedIn, FailedIn,
         RecordJustified, Is, Fails
<1> QED
  BY <1>1, <1>2, <1>3, OrderInvariance, PTL DEF Spec
=============================================================================
