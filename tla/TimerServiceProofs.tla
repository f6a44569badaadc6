------------------------- MODULE TimerServiceProofs -------------------------
(***************************************************************************)
(* Proofs about TimerService, for any timers, processes and permits, any   *)
(* settings of look-ahead, sleep and batch, and any bounds.                *)
(***************************************************************************)
EXTENDS TimerService, TLAPS

(* Only a scheduler in the middle of a batch holds a timer.                *)
HeldOK == \A s \in Services :
  sched[s].phase = "holding" <=> sched[s].held # NoTimer

(* Goroutines, acknowledgements and dead letters refer to requests.        *)
JobsOK == \A s \in Services, g \in Permits :
  job[s][g].phase # "idle" => job[s][g].entry \in DOMAIN requests

AckedOK == acked \subseteq DOMAIN requests

(* A member of the set is the payload of a request.                        *)
Asked(m, reqs) == \E k \in DOMAIN reqs : MemberOf(reqs[k]) = m

AskedOK ==
  /\ \A m \in timers : Asked(m, requests)
  /\ \A s \in Services : sched[s].held # NoTimer => Asked(sched[s].held, requests)
  /\ \A i \in DOMAIN fired : Asked(fired[i].member, requests)

(* The scheduler's second look at the time before it publishes.            *)
FiredOK == \A i \in DOMAIN fired :
  fired[i].member.fireAt <= fired[i].at + Lookahead

TimerInv == TypeOK /\ HeldOK /\ JobsOK /\ AckedOK /\ AskedOK /\ FiredOK

-----------------------------------------------------------------------------
(* How long a scheduler sleeps is a number.                                *)
LEMMA SleepForTyped ==
  ASSUME now \in Nat, NEW at \in Nat
  PROVE  SleepFor(at) \in Nat
<1>1. CASE at <= now
  BY <1>1 DEF SleepFor
<1>2. CASE ~(at <= now)
  <2>1. at - now \in Nat /\ MaxSleep \in Nat
    BY <1>2, TimerAssumption
  <2>2. PICK x \in {at - now, MaxSleep} : \A y \in {at - now, MaxSleep} : x <= y
    BY <2>1
  <2>3. Min({at - now, MaxSleep}) \in {at - now, MaxSleep}
    BY <2>2 DEF Min
  <2> QED
    BY <1>2, <2>1, <2>3 DEF SleepFor
<1> QED
  BY <1>1, <1>2

LEMMA ElementTyped ==
  ASSUME NEW S, NEW q \in Seq(S), NEW i \in DOMAIN q
  PROVE  q[i] \in S
  OBVIOUS

LEMMA FireAtTyped ==
  ASSUME NEW r \in Request, Durations \subseteq Nat
  PROVE  /\ MemberOf(r) \in Member
         /\ FireAt(r) \in Nat
         /\ Due(r) < FireAt(r) + Second
<1>1. Due(r) \in Nat /\ Second \in Nat \ {0}
  BY TimerAssumption DEF Request, Due
<1>2. Due(r) % Second \in 0 .. (Second - 1) /\ Due(r) % Second <= Due(r)
  BY <1>1
<1> QED
  BY <1>1, <1>2 DEF FireAt, MemberOf, Request, Member

(* Budgets stay within their bound, whatever becomes of a call.            *)
LEMMA BudgetsTyped ==
  ASSUME TypeOK, NEW s \in Services,
         Loss \/ Fault(s) \/ Spoil(s) \/ UNCHANGED budgets
  PROVE  faults' \in Nat /\ losses' \in Nat /\ faults' + losses' <= MaxFailures
  BY TimerAssumption DEF TypeOK, Loss, Fault, Spoil, Budget, budgets

LEMMA InitTimerInv == Init => TimerInv
<1> SUFFICES ASSUME Init PROVE TimerInv
  OBVIOUS
<1>1. TypeOK
  BY TimerAssumption
  DEF Init, TypeOK, IdleJob, Job, AtTop, Sched, Entries
<1> QED
  BY <1>1 DEF Init, TimerInv, HeldOK, JobsOK, AckedOK, AskedOK, FiredOK, AtTop, IdleJob

-----------------------------------------------------------------------------
(* The shape of the state, action by action.                               *)

(* What the goroutines and the schedulers refer to.                        *)
Shape == TypeOK /\ HeldOK /\ JobsOK /\ AckedOK

(* A goroutine that goes on, and a scheduler that does.                    *)
LEMMA SetJobShape ==
  ASSUME TypeOK, JobsOK, NEW s \in Services, NEW g \in Permits, NEW j \in Job,
         j.phase # "idle" => j.entry \in DOMAIN requests,
         SetJob(s, g, j), UNCHANGED requests
  PROVE  job' \in [Services -> [Permits -> Job]] /\ JobsOK'
<1>1. job \in [Services -> [Permits -> Job]]
  BY DEF TypeOK
<1>2. job' = [job EXCEPT ![s] = [job[s] EXCEPT ![g] = j]]
  BY <1>1 DEF SetJob
<1>3. [job[s] EXCEPT ![g] = j] \in [Permits -> Job]
  BY <1>1
<1>4. job' \in [Services -> [Permits -> Job]]
  BY <1>1, <1>2, <1>3
<1>5. \A t \in Services, h \in Permits :
        job'[t][h] = IF t = s /\ h = g THEN j ELSE job[t][h]
  BY <1>1, <1>2
<1> QED
  BY <1>4, <1>5 DEF JobsOK

LEMMA SetSchedShape ==
  ASSUME TypeOK, HeldOK, NEW s \in Services, NEW c \in Sched,
         c.phase = "holding" <=> c.held # NoTimer,
         sched' = [sched EXCEPT ![s] = c]
  PROVE  sched' \in [Services -> Sched] /\ HeldOK'
  BY DEF TypeOK, HeldOK

LEMMA SleepingShape ==
  ASSUME NEW ph \in {"asleep", "backoff"}, NEW u \in Nat
  PROVE  [AtTop EXCEPT !.phase = ph, !.until = u] \in Sched
  BY DEF AtTop, Sched

LEMMA HoldingShape ==
  ASSUME NEW c \in Sched, c.left > 0, NEW m \in Member
  PROVE  [c EXCEPT !.phase = "holding", !.held = m, !.left = @ - 1] \in Sched
<1>1. c.left - 1 \in Nat
  BY DEF Sched
<1> QED
  BY <1>1 DEF Sched

LEMMA RegistrationShape ==
  ASSUME TimerInv, NEW s \in Services, NEW g \in Permits, Registration(s, g)
  PROVE  Shape'
<1> USE DEF TimerInv, groupVars
<1>1. /\ requests \in Seq(Request) /\ requests' = requests
      /\ DOMAIN requests = 1 .. Len(requests)
      /\ job \in [Services -> [Permits -> Job]]
      /\ now \in Nat
  BY SMTT(30), TimerAssumption
  DEF TypeOK, Registration, Deliver, Register, RegisterFails, Acknowledge
<1>2. faults' \in Nat /\ losses' \in Nat /\ faults' + losses' <= MaxFailures
  BY BudgetsTyped
  DEF Registration, Deliver, Register, RegisterFails, Acknowledge, Succeed
<1>3. \A i \in DOMAIN requests : MemberOf(requests[i]) \in Member
  BY <1>1, FireAtTyped, TimerAssumption
<1>4. job[s][g].phase # "idle" => job[s][g].entry \in DOMAIN requests
  BY DEF JobsOK
<1>5. job' \in [Services -> [Permits -> Job]] /\ JobsOK'
  <2> DEFINE j == job[s][g]
  <2>1. j \in Job
    BY <1>1
  <2>2. CASE Deliver(s, g)
    <3>1. cursor + 1 \in DOMAIN requests
      BY <1>1, <2>2 DEF Deliver, TypeOK
    <3>2. [phase |-> "registering", entry |-> cursor + 1, attempt |-> 1] \in Job
      BY <1>1, <3>1 DEF Job
    <3> QED
      BY <1>1, <2>2, <3>1, <3>2, SetJobShape DEF Deliver
  <2>3. CASE Register(s, g) \/ RegisterFails(s, g)
    <3>1. PICK k \in Job : SetJob(s, g, k) /\ k.entry = j.entry
      <4>1. [j EXCEPT !.phase = "acking"] \in Job
        BY <2>1 DEF Job
      <4>2. [j EXCEPT !.attempt = @ + 1] \in Job
        BY <2>1 DEF Job
      <4>3. /\ [j EXCEPT !.phase = "acking"].entry = j.entry
            /\ [j EXCEPT !.attempt = @ + 1].entry = j.entry
        BY <2>1 DEF Job
      <4>4. \/ SetJob(s, g, [j EXCEPT !.phase = "acking"])
            \/ SetJob(s, g, [j EXCEPT !.attempt = @ + 1])
        BY <2>3 DEF Register, RegisterFails
      <4> HIDE DEF j
      <4> QED
        BY <4>1, <4>2, <4>3, <4>4
    <3>2. j.entry \in DOMAIN requests
      BY <1>4, <2>3 DEF Register, RegisterFails
    <3> QED
      BY <1>1, <3>1, <3>2, SetJobShape
  <2>4. CASE Acknowledge(s, g)
    <3>1. IdleJob \in Job /\ IdleJob.phase = "idle"
      BY DEF Job, IdleJob
    <3> QED
      BY <1>1, <2>4, <3>1, SetJobShape DEF Acknowledge
  <2> QED
    BY <2>2, <2>3, <2>4 DEF Registration
<1>6. timers' \subseteq Member
  BY <1>1, <1>3, <1>4
  DEF TypeOK, Registration, Deliver, Register, RegisterFails, Acknowledge
<1>7. acked' \subseteq DOMAIN requests /\ acked' \subseteq Entries
  BY <1>1, <1>4
  DEF TypeOK, AckedOK, Entries, Registration, Deliver, Register,
      RegisterFails, Acknowledge
<1>8. dead' \subseteq Entries
  BY <1>1, <1>4
  DEF TypeOK, Entries, Registration, Deliver, Register, RegisterFails,
      Acknowledge
<1>9. cursor' \in 0 .. Len(requests)
  BY <1>1
  DEF TypeOK, Registration, Deliver, Register, RegisterFails, Acknowledge
<1>10. UNCHANGED <<now, requests, sched, fired, closed>>
  BY DEF Registration, Deliver, Register, RegisterFails, Acknowledge, groupVars
<1> QED
  BY <1>2, <1>5, <1>6, <1>7, <1>8, <1>9, <1>10
  DEF Shape, TypeOK, HeldOK, AckedOK

LEMMA SchedulerShape ==
  ASSUME TimerInv, NEW s \in Services, Scheduler(s)
  PROVE  Shape'
<1> USE DEF TimerInv
<1> USE DEF Scheduler, Peek, PeekFails, Wake, EndBatch, Pop, Fire, PushBack
<1>1. UNCHANGED <<now, requests, cursor, acked, job, dead, closed>>
  BY DEF groupVars, registerVars
<1>2. faults' \in Nat /\ losses' \in Nat /\ faults' + losses' <= MaxFailures
  BY BudgetsTyped DEF Succeed
<1>3. /\ now \in Nat /\ sched \in [Services -> Sched] /\ timers \subseteq Member
      /\ fired \in Seq([member: Member, at: Nat])
      /\ sched[s] \in Sched
      /\ NoTimer \notin Member /\ BatchSize \in Nat /\ MaxSleep \in Nat
      /\ Second \in Nat
  <2> HIDE DEF Scheduler, Peek, PeekFails, Wake, EndBatch, Pop, Fire, PushBack
  <2> QED
    BY TimerAssumption DEF TypeOK
<1>4. Holding(s) => sched[s].held \in Member
  BY <1>3 DEF HeldOK, Holding, Sched
<1>5. \A m \in timers : m.fireAt \in Nat /\ SleepFor(m.fireAt) \in Nat
  BY <1>3, SleepForTyped DEF Member
<1>6. sched' \in [Services -> Sched] /\ HeldOK'
  <2>1. CASE Peek(s) \/ PeekFails(s)
    <3>1. PICK d \in Nat, ph \in {"asleep", "backoff"} : Sleep(s, ph, d)
      BY <1>3, <1>5, <2>1
    <3> HIDE DEF Scheduler, Peek, PeekFails, Wake, EndBatch, Pop, Fire, PushBack
    <3>2. now + d \in Nat
      BY <1>3, <3>1
    <3>3. [AtTop EXCEPT !.phase = ph, !.until = now + d] \in Sched
      BY <3>1, <3>2, SleepingShape
    <3> QED
      BY <3>1, <3>3, SetSchedShape DEF Sleep, AtTop
  <2>2. CASE Wake(s) \/ EndBatch(s) \/ PushBack(s)
    <3>1. /\ AtTop \in Sched
          /\ [AtTop EXCEPT !.phase = "pop", !.left = BatchSize] \in Sched
      BY <1>3 DEF AtTop, Sched
    <3>2. \/ sched' = [sched EXCEPT ![s] = AtTop]
          \/ sched' = [sched EXCEPT ![s] =
                         [AtTop EXCEPT !.phase = "pop", !.left = BatchSize]]
      BY <2>2
    <3> QED
      BY <3>1, <3>2, SetSchedShape DEF AtTop
  <2>3. CASE Pop(s)
    <3>1. PICK m \in timers :
            /\ sched[s].left > 0
            /\ sched' = [sched EXCEPT ![s].phase = "holding",
                                      ![s].held = m, ![s].left = @ - 1]
      BY <2>3
    <3> HIDE DEF Scheduler, Peek, PeekFails, Wake, EndBatch, Pop, Fire, PushBack
    <3> DEFINE c == [sched[s] EXCEPT !.phase = "holding", !.held = m,
                                     !.left = @ - 1]
    <3>2. sched' = [sched EXCEPT ![s] = c]
      BY <1>3, <3>1
    <3>3. c \in Sched
      BY <1>3, <3>1, HoldingShape
    <3>4. c.phase = "holding" /\ c.held = m /\ m # NoTimer
      BY <1>3, <3>1 DEF Sched
    <3> HIDE DEF c
    <3> QED
      BY <3>2, <3>3, <3>4, SetSchedShape
  <2>4. CASE Fire(s)
    <3> DEFINE c == [sched[s] EXCEPT !.phase = "pop", !.held = NoTimer]
    <3>1. sched' = [sched EXCEPT ![s] = c]
      BY <1>3, <2>4
    <3>2. c \in Sched /\ c.phase = "pop" /\ c.held = NoTimer
      BY <1>3 DEF Sched
    <3> HIDE DEF c
    <3> QED
      BY <3>1, <3>2, SetSchedShape
  <2> QED
    BY <2>1, <2>2, <2>3, <2>4
<1>7. timers' \subseteq Member
  BY <1>3, <1>4
<1>8. fired' \in Seq([member: Member, at: Nat])
  <2>1. CASE Publish(sched[s].held) /\ Holding(s)
    <3>1. [member |-> sched[s].held, at |-> now] \in [member: Member, at: Nat]
      BY <1>3, <1>4, <2>1
    <3>2. fired' = Append(fired, [member |-> sched[s].held, at |-> now])
      BY <2>1 DEF Publish
    <3> HIDE DEF Scheduler, Peek, PeekFails, Wake, EndBatch, Pop, Fire, PushBack
    <3> QED
      BY <1>3, <3>1, <3>2
  <2>2. CASE UNCHANGED fired
    BY <1>3, <2>2
  <2> QED
    BY <2>1, <2>2
<1> QED
  BY <1>1, <1>2, <1>6, <1>7, <1>8 DEF Shape, TypeOK, JobsOK, AckedOK

LEMMA ServiceShape ==
  ASSUME TimerInv, NEW s \in Services, Crash(s) \/ Stop(s) \/ Restart(s)
  PROVE  Shape'
<1> USE DEF TimerInv
<1>1. UNCHANGED <<now, requests, cursor, acked, dead, timers, fired>>
  BY DEF Crash, Stop, Restart, groupVars, registerVars
<1>2. faults' \in Nat /\ losses' \in Nat /\ faults' + losses' <= MaxFailures
  BY BudgetsTyped DEF Crash, Stop, Restart
<1>3. closed' \in [Services -> BOOLEAN]
  BY DEF Crash, Stop, Restart, TypeOK
<1>4. job' \in [Services -> [Permits -> Job]] /\ JobsOK'
  <2>1. CASE UNCHANGED job
    BY <1>1, <2>1 DEF TypeOK, JobsOK
  <2>2. CASE Crash(s)
    <3>1. [g \in Permits |-> IdleJob] \in [Permits -> Job]
      BY DEF Job, IdleJob
    <3>2. job' = [job EXCEPT ![s] = [g \in Permits |-> IdleJob]]
      BY <2>2 DEF Crash
    <3>3. \A t \in Services, g \in Permits :
            job'[t][g] = IF t = s THEN IdleJob ELSE job[t][g]
      BY <3>2 DEF TypeOK
    <3> QED
      BY <1>1, <3>1, <3>2, <3>3 DEF TypeOK, JobsOK, IdleJob
  <2> QED
    BY <2>1, <2>2 DEF Stop, Restart, registerVars
<1>5. sched' \in [Services -> Sched] /\ HeldOK'
  <2>1. AtTop \in Sched /\ AtTop.phase # "holding" /\ AtTop.held = NoTimer
    BY DEF Sched, AtTop
  <2> QED
    BY <2>1, SetSchedShape DEF Crash, Stop, Restart, TypeOK, HeldOK
<1> QED
  BY <1>1, <1>2, <1>3, <1>4, <1>5 DEF Shape, TypeOK, AckedOK

LEMMA ClockShape == TimerInv /\ Tick => Shape'
  BY TimerAssumption
  DEF TimerInv, Tick, Shape, TypeOK, HeldOK, JobsOK, AckedOK, groupVars,
      registerVars, budgets

LEMMA ScheduleShape ==
  ASSUME TimerInv, NEW t \in Timers, NEW d \in Durations, Schedule(t, d)
  PROVE  Shape'
<1>1. [timer |-> t, at |-> now, duration |-> d] \in Request
  BY TimerAssumption DEF TimerInv, TypeOK, Request
<1>2. /\ requests' \in Seq(Request)
      /\ Len(requests') = Len(requests) + 1
      /\ DOMAIN requests \subseteq DOMAIN requests'
  BY <1>1 DEF TimerInv, TypeOK, Schedule
<1> QED
  BY <1>2
  DEF TimerInv, Schedule, Shape, TypeOK, HeldOK, JobsOK, AckedOK,
      registerVars, budgets

LEMMA NextShape == TimerInv /\ [Next]_vars => Shape'
<1> SUFFICES ASSUME TimerInv, [Next]_vars PROVE Shape'
  OBVIOUS
<1>1. CASE Next
  BY <1>1, RegistrationShape, SchedulerShape, ServiceShape, ClockShape,
     ScheduleShape DEF Next
<1>2. CASE UNCHANGED vars
  BY <1>2
  DEF vars, groupVars, registerVars, budgets, TimerInv, Shape, TypeOK, HeldOK,
      JobsOK, AckedOK
<1> QED
  BY <1>1, <1>2

-----------------------------------------------------------------------------
(* Where the timers come from: what was asked for stays asked for ...      *)
LEMMA RequestsGrow ==
  ASSUME TypeOK, [Next]_vars
  PROVE  /\ DOMAIN requests \subseteq DOMAIN requests'
         /\ \A k \in DOMAIN requests : requests'[k] = requests[k]
<1>1. CASE \E t \in Timers, d \in Durations : Schedule(t, d)
  <2>1. PICK r : requests' = Append(requests, r)
    BY <1>1 DEF Schedule
  <2>2. DOMAIN requests = 1 .. Len(requests) /\ Len(requests) \in Nat
    BY DEF TypeOK
  <2> QED
    BY <2>1, <2>2 DEF TypeOK
<1>2. CASE UNCHANGED requests
  BY <1>2
<1> QED
  BY <1>1, <1>2
  DEF Next, Tick, Registration, Deliver, Register, RegisterFails,
      Acknowledge, Scheduler, Peek, PeekFails, Wake, EndBatch, Pop, Fire,
      PushBack, Crash, Stop, Restart, groupVars, vars

LEMMA AskedPersists ==
  ASSUME TypeOK, [Next]_vars, NEW m, Asked(m, requests)
  PROVE  Asked(m, requests')
<1>1. /\ DOMAIN requests \subseteq DOMAIN requests'
      /\ \A k \in DOMAIN requests : requests'[k] = requests[k]
  BY RequestsGrow
<1>2. PICK k \in DOMAIN requests : MemberOf(requests[k]) = m
  BY DEF Asked
<1>3. MemberOf(requests'[k]) = m
  BY <1>1, <1>2
<1> QED
  BY <1>1, <1>2, <1>3 DEF Asked, MemberOf, FireAt, Due

(* ... a timer enters the set from a request or from a scheduler's hands,  *)
LEMMA SetOrigin ==
  ASSUME TimerInv, [Next]_vars, NEW m \in timers'
  PROVE  Asked(m, requests)
<1>1. CASE m \in timers
  BY <1>1 DEF TimerInv, AskedOK
<1>2. CASE \E s \in Services, g \in Permits :
             /\ job[s][g].phase = "registering"
             /\ m = MemberOf(requests[job[s][g].entry])
  BY <1>2 DEF TimerInv, JobsOK, Asked
<1>3. CASE \E s \in Services : Holding(s) /\ m = sched[s].held
  BY <1>3 DEF TimerInv, HeldOK, AskedOK, Holding
<1>4. CASE \E s \in Services, g \in Permits : Registration(s, g)
  BY <1>1, <1>2, <1>4
  DEF Registration, Deliver, Register, RegisterFails, Acknowledge
<1>5. CASE \E s \in Services : Scheduler(s)
  BY <1>1, <1>3, <1>5
  DEF Scheduler, Peek, PeekFails, Wake, EndBatch, Pop, Fire, PushBack
<1>6. CASE UNCHANGED timers
  BY <1>1, <1>6
<1> QED
  BY <1>4, <1>5, <1>6 DEF Next, Tick, Schedule, Crash, Stop, Restart, vars

(* ... a scheduler takes one only from the set,                            *)
LEMMA HeldOrigin ==
  ASSUME TimerInv, [Next]_vars, NEW s \in Services, sched'[s].held # NoTimer
  PROVE  sched'[s].held = sched[s].held \/ sched'[s].held \in timers
<1>1. sched \in [Services -> Sched] /\ AtTop.held = NoTimer
  BY DEF TimerInv, TypeOK, AtTop
<1>2. CASE UNCHANGED sched
  BY <1>2
<1>3. ASSUME NEW t \in Services, Scheduler(t) \/ Crash(t)
      PROVE  sched'[s].held = sched[s].held \/ sched'[s].held \in timers
  <2>1. CASE Pop(t)
    BY <1>1, <2>1 DEF Pop
  <2>2. CASE Fire(t)
    BY <1>1, <2>2 DEF Fire
  <2>3. CASE Peek(t) \/ PeekFails(t)
    <3>1. PICK ph, d : Sleep(t, ph, d)
      BY <2>3 DEF Peek, PeekFails
    <3>2. sched'[t].held = NoTimer
      BY <1>1, <3>1 DEF Sleep, AtTop
    <3>3. s # t => sched'[s] = sched[s]
      BY <1>1, <3>1 DEF Sleep
    <3> QED
      BY <3>2, <3>3
  <2>4. CASE Wake(t)
    BY <1>1, <2>4 DEF Wake, AtTop
  <2>5. CASE EndBatch(t) \/ PushBack(t) \/ Crash(t)
    BY <1>1, <2>5 DEF EndBatch, PushBack, Crash
  <2> QED
    BY <1>3, <2>1, <2>2, <2>3, <2>4, <2>5 DEF Scheduler
<1> QED
  BY <1>2, <1>3
  DEF Next, Tick, Schedule, Registration, Deliver, Register, RegisterFails,
      Acknowledge, Stop, Restart, vars

(* ... and fires only what it holds and what is due.                       *)
LEMMA FiredOrigin ==
  ASSUME TimerInv, [Next]_vars
  PROVE  \/ UNCHANGED fired
         \/ \E s \in Services : /\ Holding(s)
                               /\ DueNow(sched[s].held)
                               /\ Publish(sched[s].held)
  BY DEF Next, Tick, Schedule, Registration, Deliver, Register, RegisterFails,
         Acknowledge, Scheduler, Peek, PeekFails, Wake, EndBatch, Pop, Fire,
         PushBack, Crash, Stop, Restart, vars, registerVars

LEMMA OriginsStep == TimerInv /\ [Next]_vars => AskedOK' /\ FiredOK'
<1> SUFFICES ASSUME TimerInv, [Next]_vars PROVE AskedOK' /\ FiredOK'
  OBVIOUS
<1>1. TypeOK /\ HeldOK /\ AskedOK /\ FiredOK
  BY DEF TimerInv
<1>2. \A m \in timers' : Asked(m, requests')
  BY <1>1, SetOrigin, AskedPersists
<1>3. ASSUME NEW s \in Services, sched'[s].held # NoTimer
      PROVE  Asked(sched'[s].held, requests')
  <2>1. Asked(sched'[s].held, requests)
    BY <1>1, <1>3, HeldOrigin DEF AskedOK
  <2> QED
    BY <1>1, <2>1, AskedPersists
<1>4. ASSUME NEW i \in DOMAIN fired'
      PROVE  /\ Asked(fired'[i].member, requests')
             /\ fired'[i].member.fireAt <= fired'[i].at + Lookahead
  <2>1. CASE i \in DOMAIN fired /\ fired'[i] = fired[i]
    BY <1>1, <2>1, AskedPersists DEF AskedOK, FiredOK
  <2>2. CASE ~(i \in DOMAIN fired /\ fired'[i] = fired[i])
    <3>1. PICK s \in Services : /\ Holding(s)
                              /\ DueNow(sched[s].held)
                              /\ Publish(sched[s].held)
      BY <1>4, <2>2, FiredOrigin
    <3>2. fired \in Seq([member: Member, at: Nat])
      BY <1>1 DEF TypeOK
    <3>3. fired'[i] = [member |-> sched[s].held, at |-> now]
      BY <1>4, <2>2, <3>1, <3>2 DEF Publish
    <3>4. Asked(sched[s].held, requests)
      BY <1>1, <3>1 DEF AskedOK, HeldOK, Holding
    <3> QED
      BY <1>1, <3>1, <3>3, <3>4, AskedPersists DEF DueNow
  <2> QED
    BY <2>1, <2>2
<1> QED
  BY <1>2, <1>3, <1>4 DEF AskedOK, FiredOK

-----------------------------------------------------------------------------
(* The invariant of the timer service holds in every reachable state: the  *)
(* set, the schedulers and the stream hold only timers that were asked for.*)
THEOREM TimerInvariance == Spec => []TimerInv
<1>1. TimerInv /\ [Next]_vars => TimerInv'
  BY NextShape, OriginsStep DEF TimerInv, Shape
<1> QED
  BY InitTimerInv, <1>1, PTL DEF Spec

(* The state of the timer service has its type, whatever the interleaving. *)
THEOREM TimerTypeCorrect == Spec => []TypeOK
<1>1. TimerInv => TypeOK
  BY DEF TimerInv
<1> QED
  BY <1>1, TimerInvariance, PTL

(* A timer.fired answers a wait that ends less than a second and a         *)
(* look-ahead later, whatever crashes, and whichever calls fail.           *)
THEOREM NotTooEarlyHolds == Spec => []NotTooEarly
<1>1. TimerInv => NotTooEarly
  <2> SUFFICES ASSUME TimerInv, NEW i \in DOMAIN fired
               PROVE  \E k \in DOMAIN requests :
                        /\ MemberOf(requests[k]) = fired[i].member
                        /\ Due(requests[k]) < fired[i].at + Lookahead + Second
    BY DEF NotTooEarly
  <2>1. PICK k \in DOMAIN requests : MemberOf(requests[k]) = fired[i].member
    BY DEF TimerInv, AskedOK, Asked
  <2>2. requests[k] \in Request /\ fired[i].at \in Nat
    <3>1. requests \in Seq(Request) /\ fired \in Seq([member: Member, at: Nat])
      BY DEF TimerInv, TypeOK
    <3>2. requests[k] \in Request
      BY <2>1, <3>1
    <3>3. fired[i] \in [member: Member, at: Nat]
      BY <3>1, ElementTyped
    <3> QED
      BY <3>2, <3>3
  <2>3. /\ FireAt(requests[k]) \in Nat
        /\ Due(requests[k]) \in Nat
        /\ Due(requests[k]) < FireAt(requests[k]) + Second
    BY <2>2, FireAtTyped, TimerAssumption DEF Due, Request
  <2>4. FireAt(requests[k]) <= fired[i].at + Lookahead
    BY <2>1 DEF TimerInv, FiredOK, MemberOf
  <2> QED
    BY <2>1, <2>2, <2>3, <2>4, TimerAssumption
<1> QED
  BY <1>1, TimerInvariance, PTL

-----------------------------------------------------------------------------
(* What was accepted is kept, while nothing is lost.                       *)

(* A request's timer is in the set, with a scheduler, or fired.            *)
Kept(k) ==
  LET m == MemberOf(requests[k])
  IN  \/ m \in timers
      \/ \E s \in Services : sched[s].held = m
      \/ HasFired(k)

(* A goroutine past its registration, and what it acknowledged; a client   *)
(* is closed by Stop only, which counts as a loss.                         *)
KeptInv ==
  /\ \A s \in Services : closed[s] => losses > 0
  /\ losses = 0 =>
       /\ \A k \in acked \ dead : Kept(k)
       /\ \A s \in Services, g \in Permits :
            job[s][g].phase = "acking" =>
              job[s][g].entry \in dead \/ Kept(job[s][g].entry)

(* Losses are never taken back, and without one no client is closed.       *)
LEMMA LossesGrow ==
  ASSUME TimerInv, KeptInv, [Next]_vars
  PROVE  /\ losses <= losses'
         /\ \A s \in Services : closed'[s] => losses' > 0
<1>1. losses \in Nat /\ closed \in [Services -> BOOLEAN]
  BY DEF TimerInv, TypeOK
<1>2. losses' = losses \/ losses' = losses + 1
  BY <1>1
  DEF Next, Tick, Schedule, Registration, Deliver, Register, RegisterFails,
      Acknowledge, Scheduler, Peek, PeekFails, Wake, EndBatch, Pop, Fire,
      PushBack, Crash, Stop, Restart, vars, budgets, Succeed, Fault, Spoil, Loss
<1>3. \A s \in Services : closed'[s] => closed[s] \/ losses' = losses + 1
  BY <1>1
  DEF Next, Tick, Schedule, Registration, Deliver, Register, RegisterFails,
      Acknowledge, Scheduler, Peek, PeekFails, Wake, EndBatch, Pop, Fire,
      PushBack, Crash, Stop, Restart, vars, Loss
<1> QED
  BY <1>1, <1>2, <1>3 DEF KeptInv


(* Each step that takes a timer from one place puts it in the next.        *)
LEMMA KeptPersists ==
  ASSUME TimerInv, KeptInv, [Next]_vars, losses' = 0,
         NEW k \in DOMAIN requests, Kept(k)
  PROVE  Kept(k)'
<1> DEFINE m == MemberOf(requests[k])
<1>1. /\ k \in DOMAIN requests' /\ MemberOf(requests'[k]) = m
      /\ MemberOf(requests[k])' = m
  BY RequestsGrow DEF MemberOf, FireAt, Due, TimerInv
<1>2. /\ losses = 0 /\ \A s \in Services : ~closed[s]
      /\ sched \in [Services -> Sched]
      /\ fired \in Seq([member: Member, at: Nat]) /\ now \in Nat
  BY LossesGrow DEF KeptInv, TimerInv, TypeOK
<1>3. m \in Member /\ m # NoTimer
  <2>1. requests[k] \in Request
    BY DEF TimerInv, TypeOK
  <2> QED
    BY <2>1, FireAtTyped, TimerAssumption
<1>4. ~Loss /\ \A s \in Services : ~Spoil(s)
  BY <1>2 DEF Loss, Spoil
<1>5. SUFFICES \/ m \in timers'
               \/ \E s \in Services : sched'[s].held = m
               \/ \E i \in DOMAIN fired' : fired'[i].member = m
  BY <1>1 DEF Kept, HasFired
<1> HIDE DEF m
<1>6. CASE \E i \in DOMAIN fired : fired[i].member = m
  <2>1. \A i \in DOMAIN fired : i \in DOMAIN fired' /\ fired'[i] = fired[i]
    <3>1. fired' = fired \/ \E r : fired' = Append(fired, r)
      BY FiredOrigin DEF Publish
    <3> QED
      BY <1>2, <3>1, SMTT(30)
  <2> QED
    BY <1>6, <2>1
<1>7. CASE \E s \in Services : sched[s].held = m
  <2>1. PICK s \in Services : sched[s].held = m
    BY <1>7
  <2>2. Holding(s)
    BY <1>3, <2>1 DEF TimerInv, HeldOK, Holding
  <2>3. CASE Fire(s)
    <3>1. Publish(m)
      BY <1>4, <2>1, <2>3 DEF Fire
    <3>2. fired'[Len(fired) + 1].member = m /\ Len(fired) + 1 \in DOMAIN fired'
      BY <1>2, <1>3, <3>1 DEF Publish
    <3> QED
      BY <3>2
  <2>4. CASE PushBack(s)
    BY <1>4, <2>1, <2>4 DEF PushBack
  <2>5. CASE sched'[s] = sched[s]
    BY <2>1, <2>5
  <2>6. \A t \in Services : Scheduler(t) =>
          (t = s /\ (Fire(s) \/ PushBack(s))) \/ sched'[s] = sched[s]
    BY <1>2, <2>2
    DEF Holding, Scheduler, Peek, PeekFails, Sleep, Wake, EndBatch, Pop, Fire,
        PushBack
  <2> QED
    BY <1>4, <2>3, <2>4, <2>5, <2>6
    DEF Next, Tick, Schedule, Registration, Deliver, Register, RegisterFails,
        Acknowledge, Crash, Stop, Restart, vars
<1>8. CASE m \in timers
  <2>1. CASE \E s \in Services : Pop(s)
    <3>1. PICK s \in Services, n \in timers :
            /\ timers' = timers \ {n}
            /\ sched' = [sched EXCEPT ![s].phase = "holding",
                                      ![s].held = n, ![s].left = @ - 1]
      BY <2>1 DEF Pop
    <3>2. sched'[s].held = n
      BY <1>2, <3>1 DEF Sched
    <3> QED
      BY <1>8, <3>1, <3>2
  <2>2. CASE timers \subseteq timers'
    BY <1>8, <2>2
  <2> QED
    BY <1>4, <2>1, <2>2
    DEF Next, Tick, Schedule, Registration, Deliver, Register, RegisterFails,
        Acknowledge, Scheduler, Peek, PeekFails, Wake, EndBatch, Fire,
        PushBack, Crash, Stop, Restart, vars, registerVars
<1> QED
  BY <1>6, <1>7, <1>8 DEF Kept, HasFired, m

LEMMA KeptStep == TimerInv /\ KeptInv /\ [Next]_vars => KeptInv'
<1> SUFFICES ASSUME TimerInv, KeptInv, [Next]_vars PROVE KeptInv'
  OBVIOUS
<1>1. SUFFICES ASSUME losses' = 0
      PROVE  /\ \A k \in acked' \ dead' : Kept(k)'
             /\ \A s \in Services, g \in Permits :
                  job'[s][g].phase = "acking" =>
                    job'[s][g].entry \in dead' \/ Kept(job[s][g].entry)'
  <2>1. \A s \in Services : closed'[s] => losses' > 0
    BY LossesGrow
  <2> QED
    BY <1>1, <2>1 DEF KeptInv
<1>2. losses = 0 /\ acked \subseteq DOMAIN requests
  BY <1>1, LossesGrow DEF KeptInv, TimerInv, TypeOK, AckedOK
<1>3. dead \subseteq dead'
  BY DEF Next, Tick, Schedule, Registration, Deliver, Register, RegisterFails,
         Acknowledge, Scheduler, Peek, PeekFails, Wake, EndBatch, Pop, Fire,
         PushBack, Crash, Stop, Restart, vars, registerVars
<1>4. \A k \in DOMAIN requests : Kept(k) => Kept(k)'
  BY <1>1, KeptPersists
<1>5. job \in [Services -> [Permits -> Job]]
  BY DEF TimerInv, TypeOK
<1>6. ASSUME NEW k \in acked' \ dead'
      PROVE  Kept(k)'
  <2>1. CASE k \in acked
    BY <1>2, <1>3, <1>4, <1>6, <2>1 DEF KeptInv
  <2>2. CASE k \notin acked
    <3>1. PICK s \in Services, g \in Permits :
            job[s][g].phase = "acking" /\ k = job[s][g].entry
      BY <1>6, <2>2
      DEF Next, Tick, Schedule, Registration, Deliver, Register,
          RegisterFails, Acknowledge, Scheduler, Peek, PeekFails, Wake,
          EndBatch, Pop, Fire, PushBack, Crash, Stop, Restart, vars, groupVars
    <3>2. k \in DOMAIN requests
      BY <3>1 DEF TimerInv, JobsOK
    <3> QED
      BY <1>2, <1>3, <1>4, <1>6, <3>1, <3>2 DEF KeptInv
  <2> QED
    BY <2>1, <2>2
<1>7. ASSUME NEW s \in Services, NEW g \in Permits,
             job'[s][g].phase = "acking"
      PROVE  \/ job'[s][g].entry \in dead'
             \/ \E k \in DOMAIN requests : k = job'[s][g].entry /\ Kept(k)'
  <2>1. CASE job'[s][g] = job[s][g]
    <3>1. job[s][g].entry \in DOMAIN requests
      BY <1>7, <2>1 DEF TimerInv, JobsOK
    <3> QED
      BY <1>2, <1>3, <1>4, <1>7, <2>1, <3>1 DEF KeptInv
  <2>2. CASE Register(s, g)
    <3>1. PICK k \in DOMAIN requests :
            k = job[s][g].entry /\ job'[s][g].entry = k
      BY <1>5, <2>2 DEF Register, SetJob, TimerInv, JobsOK
    <3>2. MemberOf(requests'[k]) \in timers'
      BY <2>2, <3>1 DEF Register, groupVars, MemberOf, FireAt, Due
    <3>3. Kept(k)'
      BY <3>2 DEF Kept, MemberOf, FireAt, Due
    <3> QED
      BY <3>1, <3>3
  <2>3. CASE RegisterFails(s, g)
    <3> DEFINE j == job[s][g]
    <3>1. j \in Job /\ j.phase = "registering"
      BY <1>5, <2>3 DEF RegisterFails
    <3>2. CASE SetJob(s, g, [j EXCEPT !.attempt = @ + 1])
      <4>1. job'[s][g] = [j EXCEPT !.attempt = @ + 1]
        BY <1>5, <3>2 DEF SetJob
      <4> QED
        BY <1>7, <3>1, <4>1 DEF Job
    <3>3. CASE /\ SetJob(s, g, [j EXCEPT !.phase = "acking"])
               /\ dead' = dead \cup {j.entry}
      <4>1. job'[s][g] = [j EXCEPT !.phase = "acking"]
        BY <1>5, <3>3 DEF SetJob
      <4> QED
        BY <3>1, <3>3, <4>1 DEF Job
    <3> QED
      BY <2>3, <3>2, <3>3 DEF RegisterFails
  <2>4. \A t \in Services, h \in Permits : Registration(t, h) =>
          \/ job'[s][g] = job[s][g]
          \/ t = s /\ h = g /\ (Register(s, g) \/ RegisterFails(s, g))
    <3> SUFFICES ASSUME NEW t \in Services, NEW h \in Permits,
                        Registration(t, h), job'[s][g] # job[s][g]
                 PROVE  t = s /\ h = g /\ (Register(s, g) \/ RegisterFails(s, g))
      OBVIOUS
    <3>1. PICK j : SetJob(t, h, j) /\ (Deliver(t, h) \/ Acknowledge(t, h) =>
                                         j.phase # "acking")
      BY DEF Registration, Deliver, Register, RegisterFails, Acknowledge, IdleJob
    <3>2. t = s /\ h = g /\ job'[s][g] = j
      BY <1>5, <3>1 DEF SetJob
    <3> QED
      BY <1>7, <3>1, <3>2 DEF Registration
  <2>5. \A t \in Services : Crash(t) => FALSE
    BY <1>1, <1>2 DEF Crash, Loss
  <2>6. UNCHANGED job \/ \E t \in Services, h \in Permits : Registration(t, h)
    BY <2>5
    DEF Next, Tick, Schedule, Scheduler, Peek, PeekFails, Wake, EndBatch, Pop,
        Fire, PushBack, Stop, Restart, vars, registerVars
  <2>7. job'[s][g] = job[s][g] \/ Register(s, g) \/ RegisterFails(s, g)
    BY <2>4, <2>6
  <2> QED
    BY <2>1, <2>2, <2>3, <2>7
<1> QED
  BY <1>6, <1>7

(* A timer that was accepted, that is, whose event was acknowledged and    *)
(* not given up, is never missing while no process dies and no popped      *)
(* timer meets a failing call, however the schedulers interleave.          *)
THEOREM AcceptedIsKeptHolds == Spec => []AcceptedIsKept
<1>1. Init => KeptInv
  BY DEF Init, KeptInv, IdleJob
<1>2. TimerInv /\ KeptInv /\ [Next]_vars => KeptInv'
  BY KeptStep
<1>3. KeptInv => AcceptedIsKept
  BY DEF KeptInv, Kept, AcceptedIsKept
<1> QED
  BY <1>1, <1>2, <1>3, TimerInvariance, PTL DEF Spec

-----------------------------------------------------------------------------
(* Lateness.  The instant of the latest request counts, and a scheduler's  *)
(* nap ends in time for what it saw and for what is registered meanwhile.  *)

Calm == faults + losses = 0

(* Time x is within MaxSleep of the end of some wait with payload m.       *)
Within(m, x, reqs) == \E k \in DOMAIN reqs :
  /\ MemberOf(reqs[k]) = m
  /\ x <= Max({reqs[k].at, FireAt(reqs[k])}) + MaxSleep

(* Registrations happen in the tick of their request.                      *)
FreshOK ==
  /\ \A k \in DOMAIN requests : k > cursor => requests[k].at = now
  /\ \A s \in Services, g \in Permits :
       job[s][g].phase = "registering" => requests[job[s][g].entry].at = now

SleepersOK == \A s \in Services :
  /\ ~closed[s] /\ sched[s].phase # "backoff"
  /\ sched[s].phase = "asleep" =>
       /\ sched[s].until <= now + MaxSleep
       /\ \/ sched[s].until <= now
          \/ \A m \in timers : Within(m, sched[s].until, requests)

SetOK ==
  /\ timers # {} => Services # {}
  /\ \A m \in timers : Within(m, now, requests)

PunctualInv == Calm => FreshOK /\ SleepersOK /\ SetOK

PromptNext == Next /\ (now' # now => Settled)

LEMMA MaxFacts ==
  ASSUME NEW a \in Nat, NEW b \in Nat
  PROVE  Max({a, b}) \in Nat /\ a <= Max({a, b}) /\ b <= Max({a, b})
<1>1. PICK x \in {a, b} : \A y \in {a, b} : x >= y
  OBVIOUS
<1>2. /\ Max({a, b}) \in {a, b}
      /\ \A y \in {a, b} : Max({a, b}) >= y
  BY <1>1 DEF Max
<1> QED
  BY <1>2

LEMMA SleepForBounds ==
  ASSUME now \in Nat, NEW at \in Nat
  PROVE  /\ SleepFor(at) \in Nat /\ SleepFor(at) <= MaxSleep
         /\ now + SleepFor(at) <= now \/ now + SleepFor(at) <= at
<1>1. CASE at <= now
  BY <1>1, TimerAssumption DEF SleepFor
<1>2. CASE ~(at <= now)
  <2>1. at - now \in Nat /\ MaxSleep \in Nat
    BY <1>2, TimerAssumption
  <2>2. PICK x \in {at - now, MaxSleep} : \A y \in {at - now, MaxSleep} : x <= y
    BY <2>1
  <2>3. /\ Min({at - now, MaxSleep}) \in {at - now, MaxSleep}
        /\ \A y \in {at - now, MaxSleep} : Min({at - now, MaxSleep}) <= y
    BY <2>2 DEF Min
  <2>4. SleepFor(at) = Min({at - now, MaxSleep})
    BY <1>2 DEF SleepFor
  <2> QED
    BY <2>1, <2>3, <2>4
<1> QED
  BY <1>1, <1>2

(* A request made now, or one for later, allows a nap of MaxSleep.         *)
LEMMA RequestWithin ==
  ASSUME TypeOK, NEW k \in DOMAIN requests, NEW x \in Nat,
         \/ x <= requests[k].at + MaxSleep
         \/ x <= FireAt(requests[k]) + MaxSleep
  PROVE  Within(MemberOf(requests[k]), x, requests)
<1>1. requests[k] \in Request
  BY ElementTyped DEF TypeOK
<1>2. requests[k].at \in Nat /\ FireAt(requests[k]) \in Nat /\ MaxSleep \in Nat
  BY <1>1, FireAtTyped, TimerAssumption DEF Request
<1>3. x <= Max({requests[k].at, FireAt(requests[k])}) + MaxSleep
  BY <1>2, MaxFacts
<1> QED
  BY <1>3 DEF Within

LEMMA WithinEarlier ==
  ASSUME TypeOK, NEW m, NEW x \in Nat, NEW y \in Nat, y <= x,
         Within(m, x, requests)
  PROVE  Within(m, y, requests)
<1>1. PICK k \in DOMAIN requests :
        /\ MemberOf(requests[k]) = m
        /\ x <= Max({requests[k].at, FireAt(requests[k])}) + MaxSleep
  BY DEF Within
<1>2. requests[k] \in Request
  BY ElementTyped DEF TypeOK
<1>3. requests[k].at \in Nat /\ FireAt(requests[k]) \in Nat /\ MaxSleep \in Nat
  BY <1>2, FireAtTyped, TimerAssumption DEF Request
<1>4. Max({requests[k].at, FireAt(requests[k])}) \in Nat
  BY <1>3, MaxFacts
<1>5. y <= Max({requests[k].at, FireAt(requests[k])}) + MaxSleep
  BY <1>1, <1>3, <1>4
<1> QED
  BY <1>1, <1>5 DEF Within

LEMMA WithinPersists ==
  ASSUME TypeOK, [Next]_vars, NEW m, NEW x, Within(m, x, requests)
  PROVE  Within(m, x, requests')
<1>1. /\ DOMAIN requests \subseteq DOMAIN requests'
      /\ \A k \in DOMAIN requests : requests'[k] = requests[k]
  BY RequestsGrow
<1>2. PICK k \in DOMAIN requests :
        /\ MemberOf(requests[k]) = m
        /\ x <= Max({requests[k].at, FireAt(requests[k])}) + MaxSleep
  BY DEF Within
<1>3. k \in DOMAIN requests' /\ requests'[k] = requests[k]
  BY <1>1
<1> QED
  BY <1>2, <1>3 DEF Within

(* Failures are never taken back: a calm state comes from a calm one, by a *)
(* step in which nothing fails.                                            *)
LEMMA CalmBefore ==
  ASSUME TimerInv, [Next]_vars, Calm'
  PROVE  Calm /\ ~Loss /\ \A s \in Services : ~closed[s] => ~Fault(s) /\ ~Spoil(s)
<1>1. faults \in Nat /\ losses \in Nat
  BY DEF TimerInv, TypeOK
<1>2. /\ faults' = faults \/ faults' = faults + 1
      /\ losses' = losses \/ losses' = losses + 1
  BY DEF Next, Tick, Schedule, Registration, Deliver, Register, RegisterFails,
      Acknowledge, Scheduler, Peek, PeekFails, Wake, EndBatch, Pop, Fire,
      PushBack, Crash, Stop, Restart, vars, budgets, Succeed, Fault, Spoil, Loss
<1>3. faults' + losses' = 0
  BY DEF Calm
<1>4. faults = 0 /\ losses = 0 /\ faults' = 0 /\ losses' = 0
  BY <1>1, <1>2, <1>3
<1> QED
  BY <1>4 DEF Calm, Loss, Fault, Spoil

(* A timer enters the set in the tick of its request, or before its time.  *)
LEMMA EntersInTime ==
  ASSUME TimerInv, FreshOK, [Next]_vars, NEW m \in timers' \ timers,
         NEW x \in Nat, x <= now + MaxSleep
  PROVE  Within(m, x, requests)
<1>1. TypeOK /\ now \in Nat /\ MaxSleep \in Nat /\ Lookahead \in Nat
  BY TimerAssumption DEF TimerInv, TypeOK
<1>2. CASE \E s \in Services, g \in Permits :
             /\ job[s][g].phase = "registering"
             /\ m = MemberOf(requests[job[s][g].entry])
  <2>1. PICK k \in DOMAIN requests :
          requests[k].at = now /\ m = MemberOf(requests[k])
    BY <1>2 DEF FreshOK, TimerInv, JobsOK
  <2> QED
    BY <1>1, <2>1, RequestWithin
<1>3. CASE \E s \in Services :
             Holding(s) /\ ~DueNow(sched[s].held) /\ m = sched[s].held
  <2>1. Asked(m, requests) /\ ~(m.fireAt <= now + Lookahead)
    BY <1>3 DEF TimerInv, HeldOK, AskedOK, Holding, DueNow
  <2>2. PICK k \in DOMAIN requests : MemberOf(requests[k]) = m
    BY <2>1 DEF Asked
  <2>3. requests[k] \in Request
    BY <1>1, ElementTyped DEF TypeOK
  <2>4. FireAt(requests[k]) \in Nat /\ m.fireAt = FireAt(requests[k])
    BY <2>2, <2>3, FireAtTyped, TimerAssumption DEF MemberOf
  <2>5. x <= FireAt(requests[k]) + MaxSleep
    BY <1>1, <2>1, <2>4
  <2> QED
    BY <1>1, <2>2, <2>5, RequestWithin
<1>4. \/ \E s \in Services, g \in Permits : Register(s, g) \/ RegisterFails(s, g)
      \/ \E s \in Services : PushBack(s)
  BY DEF Next, Tick, Schedule, Registration, Deliver, Acknowledge, Scheduler,
         Peek, PeekFails, Wake, EndBatch, Pop, Fire, Crash, Stop, Restart, vars
<1> QED
  BY <1>2, <1>3, <1>4 DEF Register, RegisterFails, PushBack

LEMMA NapInTime ==
  ASSUME TimerInv, NEW s \in Services, Peek(s)
  PROVE  /\ sched'[s].until \in Nat /\ sched'[s].until <= now + MaxSleep
         /\ \/ sched'[s].until <= now
            \/ \A m \in timers : Within(m, sched'[s].until, requests)
<1>1. /\ TypeOK /\ now \in Nat /\ MaxSleep \in Nat
      /\ timers \subseteq Member /\ sched \in [Services -> Sched]
  BY TimerAssumption DEF TimerInv, TypeOK
<1>2. ASSUME NEW d \in Nat, Sleep(s, "asleep", d)
      PROVE  sched'[s].until = now + d
  BY <1>1, <1>2 DEF Sleep, AtTop
<1>3. CASE timers = {}
  <2>1. sched'[s].until = now + MaxSleep
    BY <1>1, <1>2, <1>3 DEF Peek
  <2> QED
    BY <1>1, <1>3, <2>1
<1>4. CASE timers # {}
  <2>1. PICK n \in timers : First(n) /\ Sleep(s, "asleep", SleepFor(n.fireAt))
    BY <1>4 DEF Peek
  <2>2. n.fireAt \in Nat
    BY <1>1 DEF Member
  <2>3. /\ SleepFor(n.fireAt) \in Nat /\ SleepFor(n.fireAt) <= MaxSleep
        /\ \/ now + SleepFor(n.fireAt) <= now
           \/ now + SleepFor(n.fireAt) <= n.fireAt
    BY <1>1, <2>2, SleepForBounds
  <2> DEFINE u == now + SleepFor(n.fireAt)
  <2>4. sched'[s].until = u
    BY <1>2, <2>1, <2>3
  <2>5. u \in Nat /\ u <= now + MaxSleep /\ (u <= now \/ u <= n.fireAt)
    BY <1>1, <2>3
  <2> HIDE DEF u
  <2>6. ASSUME NEW m \in timers, u <= n.fireAt
        PROVE  Within(m, u, requests)
    <3>1. n.fireAt <= m.fireAt /\ m.fireAt \in Nat
      BY <1>1, <2>1 DEF First, Member
    <3>2. PICK k \in DOMAIN requests : MemberOf(requests[k]) = m
      BY DEF TimerInv, AskedOK, Asked
    <3>3. m.fireAt = FireAt(requests[k])
      BY <3>2 DEF MemberOf
    <3>4. u <= m.fireAt + MaxSleep
      BY <1>1, <2>2, <2>5, <2>6, <3>1
    <3>5. u <= FireAt(requests[k]) + MaxSleep
      BY <3>3, <3>4
    <3> QED
      BY <1>1, <2>5, <3>2, <3>5, RequestWithin
  <2> QED
    BY <2>4, <2>5, <2>6
<1> QED
  BY <1>3, <1>4

(* The step of a calm state: no call fails, no client is closed.           *)
CalmStep ==
  /\ TimerInv /\ FreshOK /\ SleepersOK /\ SetOK
  /\ [PromptNext]_vars
  /\ ~Loss /\ \A s \in Services : ~closed[s] /\ ~Fault(s) /\ ~Spoil(s)

LEMMA CalmFacts ==
  ASSUME CalmStep
  PROVE  /\ TypeOK /\ [Next]_vars
         /\ now \in Nat /\ MaxSleep \in Nat
         /\ now' = now \/ (Tick /\ Settled /\ now' = now + 1)
         /\ sched \in [Services -> Sched]
         /\ job \in [Services -> [Permits -> Job]]
         /\ requests \in Seq(Request) /\ Len(requests) \in Nat
         /\ DOMAIN requests = 1 .. Len(requests)
         /\ cursor \in 0 .. Len(requests)
<1>1. TypeOK /\ now \in Nat /\ MaxSleep \in Nat
  BY TimerAssumption DEF CalmStep, TimerInv, TypeOK
<1>2. [Next]_vars
  BY DEF CalmStep, PromptNext
<1>3. now' = now \/ (Tick /\ now' = now + 1)
  BY <1>2
  DEF Next, Tick, Schedule, Registration, Deliver, Register, RegisterFails,
      Acknowledge, Scheduler, Peek, PeekFails, Wake, EndBatch, Pop, Fire,
      PushBack, Crash, Stop, Restart, vars
<1>4. now' # now => Settled
  BY DEF CalmStep, PromptNext, vars
<1> QED
  BY <1>1, <1>2, <1>3, <1>4 DEF TypeOK

LEMMA FreshStep ==
  ASSUME CalmStep
  PROVE  FreshOK'
<1>1. [Next]_vars /\ FreshOK /\ JobsOK /\ ~Loss
      /\ \A s \in Services : ~Fault(s)
  BY CalmFacts DEF CalmStep, TimerInv
<1>2. CASE now' # now
  <2>1. Tick /\ Settled
    BY <1>2, CalmFacts
  <2>2. requests' = requests /\ cursor' = cursor /\ job' = job
    BY <2>1 DEF Tick, groupVars, registerVars
  <2>3. \A k \in DOMAIN requests : ~(k > cursor)
    BY <2>1, CalmFacts DEF Settled
  <2>4. \A s \in Services, g \in Permits : job[s][g].phase = "idle"
    BY <2>1 DEF Settled
  <2> QED
    BY <2>2, <2>3, <2>4 DEF FreshOK
<1>3. CASE \E t \in Timers, d \in Durations : Schedule(t, d)
  <2>1. PICK r : requests' = Append(requests, r) /\ r.at = now
    BY <1>3 DEF Schedule
  <2>2. now' = now /\ cursor' = cursor /\ job' = job
    BY <1>3 DEF Schedule, registerVars
  <2>3. /\ \A k \in DOMAIN requests : requests'[k] = requests[k]
        /\ \A k \in DOMAIN requests' :
             k \in DOMAIN requests \/ requests'[k].at = now
    BY <2>1, CalmFacts
  <2> QED
    BY <1>1, <2>2, <2>3 DEF FreshOK, JobsOK
<1>4. CASE \E s \in Services, g \in Permits : Deliver(s, g)
  <2>1. PICK s \in Services, g \in Permits : Deliver(s, g)
    BY <1>4
  <2> DEFINE j == [phase |-> "registering", entry |-> cursor + 1, attempt |-> 1]
  <2>2. /\ now' = now /\ requests' = requests /\ cursor' = cursor + 1
        /\ SetJob(s, g, j) /\ cursor + 1 \in DOMAIN requests
    BY <2>1, CalmFacts DEF Deliver
  <2>3. requests[cursor + 1].at = now
    BY <1>1, <2>2, CalmFacts DEF FreshOK
  <2>4. \A t \in Services, h \in Permits :
          job'[t][h] = IF t = s /\ h = g THEN j ELSE job[t][h]
    BY <2>2, CalmFacts DEF SetJob
  <2>5. \A k \in DOMAIN requests : k > cursor + 1 => k > cursor
    BY CalmFacts
  <2> QED
    BY <1>1, <2>2, <2>3, <2>4, <2>5 DEF FreshOK
<1>5. CASE \E s \in Services, g \in Permits : Register(s, g) \/ Acknowledge(s, g)
  <2>1. PICK s \in Services, g \in Permits : Register(s, g) \/ Acknowledge(s, g)
    BY <1>5
  <2>2. now' = now /\ requests' = requests /\ cursor' = cursor
    BY <2>1 DEF Register, Acknowledge, groupVars
  <2>3. \A t \in Services, h \in Permits :
          job'[t][h] = job[t][h] \/ job'[t][h].phase # "registering"
    <3>1. job[s][g] \in Job
      BY CalmFacts
    <3>2. PICK j : SetJob(s, g, j) /\ j.phase # "registering"
      BY <2>1, <3>1 DEF Register, Acknowledge, IdleJob, Job
    <3>3. \A t \in Services, h \in Permits :
            job'[t][h] = IF t = s /\ h = g THEN j ELSE job[t][h]
      BY <3>2, CalmFacts DEF SetJob
    <3> QED
      BY <3>2, <3>3
  <2> QED
    BY <1>1, <2>2, <2>3 DEF FreshOK
<1>6. CASE now' = now /\ requests' = requests /\ cursor' = cursor /\ job' = job
  BY <1>1, <1>6 DEF FreshOK
<1>7. \/ \E t \in Timers, d \in Durations : Schedule(t, d)
      \/ \E s \in Services, g \in Permits :
           Deliver(s, g) \/ Register(s, g) \/ Acknowledge(s, g)
      \/ now' # now
      \/ now' = now /\ requests' = requests /\ cursor' = cursor /\ job' = job
  BY <1>1
  DEF Next, Tick, Registration, RegisterFails, Scheduler, Peek, PeekFails,
      Wake, EndBatch, Pop, Fire, PushBack, Crash, Stop, Restart, vars,
      groupVars, registerVars
<1> QED
  BY <1>2, <1>3, <1>4, <1>5, <1>6, <1>7

(* The naps: a new one is short enough for all that is in the set, an old  *)
(* one for what enters it.                                                 *)
LEMMA SleepersStep ==
  ASSUME CalmStep
  PROVE  SleepersOK'
<1> SUFFICES ASSUME NEW s \in Services
             PROVE  /\ ~closed'[s] /\ sched'[s].phase # "backoff"
                    /\ sched'[s].phase = "asleep" =>
                         /\ sched'[s].until <= now' + MaxSleep
                         /\ \/ sched'[s].until <= now'
                            \/ \A m \in timers' :
                                 Within(m, sched'[s].until, requests')
  BY DEF SleepersOK
<1>1. /\ TimerInv /\ FreshOK /\ SleepersOK /\ ~Loss /\ [Next]_vars
      /\ \A t \in Services : ~closed[t] /\ ~Fault(t) /\ ~Spoil(t)
  BY CalmFacts DEF CalmStep
<1>2. ~closed'[s]
  BY <1>1
  DEF Next, Tick, Schedule, Registration, Deliver, Register, RegisterFails,
      Acknowledge, Scheduler, Peek, PeekFails, Wake, EndBatch, Pop, Fire,
      PushBack, Crash, Stop, Restart, vars
<1>3. \/ sched'[s] = sched[s] \/ Peek(s)
      \/ sched'[s].phase \notin {"asleep", "backoff"}
  <2>1. CASE sched' = sched
    BY <2>1
  <2>2. ASSUME NEW t \in Services, Scheduler(t)
        PROVE  \/ sched'[s] = sched[s] \/ Peek(s)
               \/ sched'[s].phase \notin {"asleep", "backoff"}
    <3>1. CASE t = s
      <4>1. sched[s] \in Sched /\ AtTop \in Sched /\ AtTop.phase = "peek"
        BY CalmFacts, TimerAssumption DEF AtTop, Sched
      <4>2. ~PeekFails(s)
        BY <1>1 DEF PeekFails
      <4>3. CASE Wake(s) \/ EndBatch(s) \/ PushBack(s)
        <5> DEFINE popping == [AtTop EXCEPT !.phase = "pop", !.left = BatchSize]
        <5>1. PICK c \in {AtTop, popping} : sched' = [sched EXCEPT ![s] = c]
          BY <4>3 DEF Wake, EndBatch, PushBack
        <5>2. popping.phase = "pop" /\ AtTop.phase = "peek"
          BY DEF AtTop
        <5> HIDE DEF popping
        <5>3. c.phase \in {"peek", "pop"}
          BY <5>1, <5>2
        <5> QED
          BY <5>1, <5>3, CalmFacts
      <4>4. CASE Pop(s)
        <5>1. PICK m : sched'[s] = [sched[s] EXCEPT !.phase = "holding",
                                      !.held = m, !.left = @ - 1]
          BY <4>4, CalmFacts DEF Pop
        <5>2. sched'[s].phase = "holding"
          BY <4>1, <5>1 DEF Sched
        <5> QED
          BY <5>2
      <4>5. CASE Fire(s)
        <5>1. sched'[s] = [sched[s] EXCEPT !.phase = "pop", !.held = NoTimer]
          BY <4>5, CalmFacts DEF Fire
        <5>2. sched'[s].phase = "pop"
          BY <4>1, <5>1 DEF Sched
        <5> QED
          BY <5>2
      <4> QED
        BY <2>2, <3>1, <4>2, <4>3, <4>4, <4>5 DEF Scheduler
    <3>2. CASE t # s
      BY <2>2, <3>2, CalmFacts
      DEF Scheduler, Peek, PeekFails, Sleep, Wake, EndBatch, Pop, Fire, PushBack
    <3> QED
      BY <3>1, <3>2
  <2>3. sched' = sched \/ \E t \in Services : Scheduler(t)
    BY <1>1
    DEF Next, Tick, Schedule, Registration, Deliver, Register, RegisterFails,
        Acknowledge, Crash, Stop, Restart, vars
  <2> QED
    BY <2>1, <2>2, <2>3
<1>4. CASE Peek(s)
  <2>1. now' = now /\ timers' = timers /\ requests' = requests
    BY <1>4 DEF Peek, groupVars
  <2>2. sched'[s].phase = "asleep"
    BY <1>4, CalmFacts DEF Peek, Sleep, AtTop
  <2> QED
    BY <1>1, <1>2, <1>4, <2>1, <2>2, NapInTime
<1>5. CASE sched'[s] = sched[s]
  <2> SUFFICES ASSUME sched[s].phase = "asleep"
               PROVE  /\ sched[s].until <= now' + MaxSleep
                      /\ \/ sched[s].until <= now'
                         \/ \A m \in timers' :
                              Within(m, sched[s].until, requests')
    BY <1>1, <1>2, <1>5 DEF SleepersOK
  <2>1. /\ sched[s].until <= now + MaxSleep
        /\ \/ sched[s].until <= now
           \/ \A m \in timers : Within(m, sched[s].until, requests)
    BY <1>1 DEF SleepersOK
  <2>2. sched[s].until \in Nat
    BY CalmFacts DEF Sched
  <2>3. /\ sched[s].until <= now' + MaxSleep
        /\ sched[s].until <= now => sched[s].until <= now'
    BY <2>1, <2>2, CalmFacts
  <2>4. CASE \A m \in timers : Within(m, sched[s].until, requests)
    <3> SUFFICES ASSUME NEW m \in timers'
                 PROVE  Within(m, sched[s].until, requests')
      BY <2>3
    <3>1. Within(m, sched[s].until, requests)
      BY <1>1, <2>1, <2>2, <2>4, EntersInTime
    <3> QED
      BY <1>1, <3>1, WithinPersists, CalmFacts
  <2> QED
    BY <2>1, <2>3, <2>4
<1> QED
  BY <1>2, <1>3, <1>4, <1>5

(* The clock moves when every scheduler sleeps past it, and none sleeps    *)
(* past what is in the set.                                                *)
LEMMA SetStep ==
  ASSUME CalmStep
  PROVE  SetOK'
<1>1. /\ TimerInv /\ FreshOK /\ SleepersOK /\ SetOK /\ [Next]_vars
  BY CalmFacts DEF CalmStep
<1>2. timers' # {} => Services # {}
  <2>1. timers' = timers \/ \E s \in Services : TRUE
    BY <1>1
    DEF Next, Tick, Schedule, Crash, Stop, Restart, vars
  <2> QED
    BY <1>1, <2>1 DEF SetOK
<1>3. ASSUME NEW m \in timers' PROVE Within(m, now', requests)
  <2>1. CASE now' = now
    <3>1. CASE m \in timers
      BY <1>1, <2>1, <3>1 DEF SetOK
    <3>2. CASE m \notin timers
      BY <1>1, <1>3, <2>1, <3>2, EntersInTime, CalmFacts
    <3> QED
      BY <3>1, <3>2
  <2>2. CASE now' # now
    <3>1. Settled /\ now' = now + 1 /\ timers' = timers
      BY <2>2, CalmFacts DEF Tick
    <3>2. PICK s \in Services : TRUE
      BY <1>2, <1>3
    <3>3. /\ sched[s].phase = "asleep" /\ sched[s].until > now
          /\ sched[s].until \in Nat
      BY <1>1, <3>1, CalmFacts DEF Settled, SleepersOK, Sched
    <3>4. ~(sched[s].until <= now)
      BY <3>3, CalmFacts
    <3>5. Within(m, sched[s].until, requests)
      BY <1>1, <1>3, <3>1, <3>3, <3>4 DEF SleepersOK
    <3>6. now + 1 \in Nat /\ now + 1 <= sched[s].until
      BY <3>3, CalmFacts
    <3> QED
      BY <3>1, <3>3, <3>5, <3>6, WithinEarlier, CalmFacts
  <2> QED
    BY <2>1, <2>2
<1>4. \A m \in timers' : Within(m, now', requests')
  BY <1>1, <1>3, WithinPersists, CalmFacts
<1> QED
  BY <1>2, <1>4 DEF SetOK

LEMMA PunctualStep ==
  ASSUME TimerInv, PunctualInv, [PromptNext]_vars
  PROVE  PunctualInv'
<1> SUFFICES ASSUME Calm' PROVE (FreshOK /\ SleepersOK /\ SetOK)'
  BY DEF PunctualInv
<1>1. [Next]_vars
  BY DEF PromptNext
<1>2. /\ Calm /\ ~Loss
      /\ \A s \in Services : ~closed[s] => ~Fault(s) /\ ~Spoil(s)
  BY <1>1, CalmBefore
<1>3. FreshOK /\ SleepersOK /\ SetOK
  BY <1>2 DEF PunctualInv
<1>4. CalmStep
  BY <1>2, <1>3 DEF CalmStep, SleepersOK
<1> QED
  BY <1>4, FreshStep, SleepersStep, SetStep

(* When calls take no time and nothing fails, no timer in the set is       *)
(* overdue by more than MaxSleep, however many schedulers pop, push back   *)
(* and sleep: each one that sleeps saw the set, or wakes soon enough for   *)
(* whatever entered it since.                                              *)
THEOREM PunctualHolds == PromptSpec => []Punctual
<1>1. Init => PunctualInv
  BY DEF Init, PunctualInv, FreshOK, SleepersOK, SetOK, IdleJob, AtTop
<1>2. TimerInv /\ PunctualInv /\ [PromptNext]_vars => PunctualInv'
  BY PunctualStep
<1>3. PunctualInv => Punctual
  BY DEF PunctualInv, Punctual, Calm, SetOK, Within
<1>4. [PromptNext]_vars => [Next]_vars
  BY DEF PromptNext
<1>5. PromptSpec => Init /\ [][PromptNext]_vars
  BY PTL DEF PromptSpec, PromptNext
<1>6. PromptSpec => Spec
  BY <1>4, <1>5, PTL DEF Spec
<1> QED
  BY <1>1, <1>2, <1>3, <1>5, <1>6, TimerInvariance, PTL
=============================================================================
