----------------------------- MODULE TimerService -----------------------------
(***************************************************************************)
(* The timer service (timer/internal/processor).  Every process has        *)
(* goroutines that enter timer.scheduled events in one sorted set in       *)
(* Redis, shared by all processes, and a scheduler loop that sleeps until  *)
(* the first timer is due, pops timers in small batches, publishes         *)
(* timer.fired for each, and pushes one back that it popped too soon.      *)
(*                                                                         *)
(* Time is a discrete clock that all services share.                       *)
(***************************************************************************)
EXTENDS Naturals, Sequences, FiniteSets, FiniteSetsExt

CONSTANTS
  Timers,       \* what a wait is for: execution and task
  NoTimer,      \* a scheduler holds no timer
  Durations,    \* the lengths of waits, in ticks
  Second,       \* ticks of a second: fire_at is written in whole seconds
  Lookahead,    \* TIMER_LOOKAHEAD, in ticks
  MaxSleep,     \* TIMER_MAX_SLEEP, in ticks
  BatchSize,    \* timers popped between two looks at the stop signal
  Services,     \* processes of the timer service
  Permits,      \* events a process registers or buffers at a time
  MaxAttempts,  \* attempts to register before the dead letter queue
  MaxRequests,  \* bound: waits requested
  Horizon,      \* bound: the clock stops here, and every sleeper wakes
  MaxFailures   \* bound: failing calls, crashes and stops

Member == [timer: Timers, fireAt: Nat, duration: Nat]

ASSUME TimerAssumption ==
  /\ NoTimer \notin Member
  /\ Durations \subseteq Nat
  /\ Second \in Nat \ {0}
  /\ Lookahead \in Nat
  /\ MaxSleep \in Nat \ {0}
  /\ BatchSize \in Nat \ {0}
  /\ MaxAttempts \in Nat \ {0}
  /\ MaxRequests \in Nat
  /\ Horizon \in Nat
  /\ MaxFailures \in Nat

VARIABLES
  now,       \* the clock
  requests,  \* the timer.scheduled entries of the stream
  cursor,    \* last entry delivered to the group "timer-service"
  acked,     \* entries acknowledged
  job,       \* job[s][g]: the goroutine that registers an entry
  dead,      \* entries given up after MaxAttempts
  timers,    \* the sorted set "flunq:timers:all"
  sched,     \* sched[s]: the scheduler loop of s
  fired,     \* the timer.fired entries of the stream
  closed,    \* closed[s]: Stop has closed s's Redis client
  faults,    \* failing calls that the code handles
  losses     \* crashes, stops, and failing calls that drop a timer

groupVars == <<requests, cursor, acked>>
registerVars == <<job, dead>>
budgets == <<faults, losses>>
vars == <<now, requests, cursor, acked, job, dead, timers, sched, fired,
          closed, faults, losses>>

Request == [timer: Timers, at: Nat, duration: Nat]

(* The instant a wait asks for, and what is written in the event: RFC3339  *)
(* has whole seconds.                                                      *)
Due(r) == r.at + r.duration
FireAt(r) == Due(r) - (Due(r) % Second)

(* The set's member is the payload: equal payloads are one member.  Its    *)
(* score is the payload's fire_at.                                         *)
MemberOf(r) ==
  [timer |-> r.timer, fireAt |-> FireAt(r), duration |-> r.duration]

Job == [phase: {"idle", "registering", "acking"}, entry: Nat, attempt: Nat]
IdleJob == [phase |-> "idle", entry |-> 0, attempt |-> 0]

Sched == [phase: {"peek", "backoff", "asleep", "pop", "holding"},
          until: Nat, left: Nat, held: Member \cup {NoTimer}]
AtTop == [phase |-> "peek", until |-> 0, left |-> 0, held |-> NoTimer]

Init ==
  /\ now = 0
  /\ requests = <<>>
  /\ cursor = 0
  /\ acked = {}
  /\ job = [s \in Services |-> [g \in Permits |-> IdleJob]]
  /\ dead = {}
  /\ timers = {}
  /\ sched = [s \in Services |-> AtTop]
  /\ fired = <<>>
  /\ closed = [s \in Services |-> FALSE]
  /\ faults = 0
  /\ losses = 0

Tick ==
  /\ now < Horizon
  /\ now' = now + 1
  /\ UNCHANGED <<groupVars, registerVars, timers, sched, fired, closed, budgets>>

(* A worker schedules a wait that ends before the horizon.                 *)
Schedule(t, d) ==
  /\ Len(requests) < MaxRequests
  /\ now + d <= Horizon
  /\ requests' = Append(requests, [timer |-> t, at |-> now, duration |-> d])
  /\ UNCHANGED <<now, cursor, acked, registerVars, timers, sched, fired,
                 closed, budgets>>

-----------------------------------------------------------------------------
(* Calls to Redis.  A failing call may have taken effect, unless it was    *)
(* made on a closed client; one that Close cuts off fails just before.     *)

Budget == faults + losses < MaxFailures
Loss == Budget /\ losses' = losses + 1 /\ UNCHANGED faults
Succeed(s) == ~closed[s] /\ UNCHANGED budgets
Fault(s) ==
  IF closed[s]
  THEN UNCHANGED budgets
  ELSE Budget /\ faults' = faults + 1 /\ UNCHANGED losses

(* A failing call whose error the code ignores while it holds a timer.     *)
Spoil(s) == IF closed[s] THEN UNCHANGED budgets ELSE Loss

-----------------------------------------------------------------------------
(* Registration.  What the subscription buffers counts as a goroutine that *)
(* has not called Redis yet.                                               *)

SetJob(s, g, j) == job' = [job EXCEPT ![s][g] = j]

Deliver(s, g) ==
  /\ ~closed[s]
  /\ cursor < Len(requests)
  /\ job[s][g].phase = "idle"
  /\ cursor' = cursor + 1
  /\ SetJob(s, g, [phase |-> "registering", entry |-> cursor + 1, attempt |-> 1])
  /\ UNCHANGED <<now, requests, acked, dead, timers, sched, fired, closed, budgets>>

Register(s, g) ==
  /\ job[s][g].phase = "registering"
  /\ Succeed(s)
  /\ timers' = timers \cup {MemberOf(requests[job[s][g].entry])}
  /\ SetJob(s, g, [job[s][g] EXCEPT !.phase = "acking"])
  /\ UNCHANGED <<now, groupVars, dead, sched, fired, closed>>

(* Faulty variant: a timer that cannot be registered is acknowledged.      *)
RegisterGivesUp(s, g) ==
  /\ job[s][g].phase = "registering"
  /\ Fault(s)
  /\ SetJob(s, g, [job[s][g] EXCEPT !.phase = "acking"])
  /\ UNCHANGED <<now, groupVars, dead, timers, sched, fired, closed>>

(* ZADD fails: another attempt, or the dead letter queue, which nobody     *)
(* reads.                                                                  *)
RegisterFails(s, g) ==
  LET j == job[s][g]
  IN  /\ j.phase = "registering"
      /\ Fault(s)
      /\ \/ ~closed[s] /\ timers' = timers \cup {MemberOf(requests[j.entry])}
         \/ UNCHANGED timers
      /\ IF j.attempt < MaxAttempts
         THEN SetJob(s, g, [j EXCEPT !.attempt = @ + 1]) /\ UNCHANGED dead
         ELSE /\ SetJob(s, g, [j EXCEPT !.phase = "acking"])
              /\ dead' = dead \cup {j.entry}
      /\ UNCHANGED <<now, groupVars, sched, fired, closed>>

Acknowledge(s, g) ==
  /\ job[s][g].phase = "acking"
  /\ \/ acked' = acked \cup {job[s][g].entry} /\ Succeed(s)
     \/ Fault(s) /\ UNCHANGED acked
  /\ SetJob(s, g, IdleJob)
  /\ UNCHANGED <<now, requests, cursor, dead, timers, sched, fired, closed>>

-----------------------------------------------------------------------------
(* The scheduler loop.                                                     *)

First(m) == m \in timers /\ \A n \in timers : m.fireAt <= n.fireAt

Sleep(s, phase, ticks) ==
  sched' = [sched EXCEPT ![s] = [AtTop EXCEPT !.phase = phase,
                                              !.until = now + ticks]]

(* How long to sleep when the set's first score is at: not past MaxSleep,  *)
(* because an earlier timer may be registered meanwhile.                   *)
SleepFor(at) ==
  IF at <= now THEN 0 ELSE Min({at - now, MaxSleep})

(* Faulty variant: the scheduler sleeps until the first timer is due.      *)
PeekSleepsThrough(s) ==
  /\ sched[s].phase = "peek"
  /\ Succeed(s)
  /\ IF timers = {}
     THEN Sleep(s, "asleep", MaxSleep)
     ELSE \E m \in timers : First(m) /\ Sleep(s, "asleep",
            IF m.fireAt <= now THEN 0 ELSE m.fireAt - now)
  /\ UNCHANGED <<now, groupVars, registerVars, timers, fired, closed>>

Peek(s) ==
  /\ sched[s].phase = "peek"
  /\ Succeed(s)
  /\ IF timers = {}
     THEN Sleep(s, "asleep", MaxSleep)
     ELSE \E m \in timers : First(m) /\ Sleep(s, "asleep", SleepFor(m.fireAt))
  /\ UNCHANGED <<now, groupVars, registerVars, timers, fired, closed>>

PeekFails(s) ==
  /\ sched[s].phase = "peek"
  /\ ~closed[s]
  /\ Fault(s)
  /\ Sleep(s, "backoff", Second)
  /\ UNCHANGED <<now, groupVars, registerVars, timers, fired, closed>>

Wake(s) ==
  /\ sched[s].phase \in {"asleep", "backoff"}
  /\ sched[s].until <= now \/ now = Horizon
  /\ sched' = [sched EXCEPT ![s] =
       IF sched[s].phase = "backoff"
       THEN AtTop
       ELSE [AtTop EXCEPT !.phase = "pop", !.left = BatchSize]]
  /\ UNCHANGED <<now, groupVars, registerVars, timers, fired, closed, budgets>>

(* Back to the top of the loop: the batch is spent, the set is empty, or   *)
(* ZPOPMIN fails, which may lose the timer it popped.                      *)
EndBatch(s) ==
  /\ sched[s].phase = "pop"
  /\ \/ sched[s].left = 0 /\ UNCHANGED <<timers, budgets>>
     \/ timers = {} /\ Succeed(s) /\ UNCHANGED timers
     \/ sched[s].left > 0 /\ Fault(s) /\ UNCHANGED timers
     \/ /\ sched[s].left > 0
        /\ ~closed[s] /\ Loss
        /\ \E m \in timers : First(m) /\ timers' = timers \ {m}
  /\ sched' = [sched EXCEPT ![s] = AtTop]
  /\ UNCHANGED <<now, groupVars, registerVars, fired, closed>>

(* Faulty variant: the timer stays in the set until it is published.       *)
PopPeeks(s) ==
  /\ sched[s].phase = "pop"
  /\ sched[s].left > 0
  /\ Succeed(s)
  /\ \E m \in timers :
       /\ First(m)
       /\ sched' = [sched EXCEPT ![s].phase = "holding", ![s].held = m,
                                 ![s].left = @ - 1]
  /\ UNCHANGED <<now, groupVars, registerVars, timers, fired, closed>>

(* Faulty variant: the batch has no end.                                   *)
PopUnbounded(s) ==
  /\ sched[s].phase = "pop"
  /\ Succeed(s)
  /\ \E m \in timers :
       /\ First(m)
       /\ timers' = timers \ {m}
       /\ sched' = [sched EXCEPT ![s].phase = "holding", ![s].held = m,
                                 ![s].left = @ - 1]
  /\ UNCHANGED <<now, groupVars, registerVars, fired, closed>>

(* ZPOPMIN: from here on only this process knows of the timer.             *)
Pop(s) ==
  /\ sched[s].phase = "pop"
  /\ sched[s].left > 0
  /\ Succeed(s)
  /\ \E m \in timers :
       /\ First(m)
       /\ timers' = timers \ {m}
       /\ sched' = [sched EXCEPT ![s].phase = "holding", ![s].held = m,
                                 ![s].left = @ - 1]
  /\ UNCHANGED <<now, groupVars, registerVars, fired, closed>>

(* Faulty variant: one popped too soon is fired nevertheless.              *)
DueNowAny(m) == m \in Member

DueNow(m) == m.fireAt <= now + Lookahead

Holding(s) == sched[s].phase = "holding"

Publish(m) == fired' = Append(fired, [member |-> m, at |-> now])

(* A publication that fails is not repeated.                               *)
Fire(s) ==
  /\ Holding(s)
  /\ DueNow(sched[s].held)
  /\ \/ Publish(sched[s].held) /\ Succeed(s)
     \/ Loss /\ ~closed[s] /\ Publish(sched[s].held)
     \/ Spoil(s) /\ UNCHANGED fired
  /\ sched' = [sched EXCEPT ![s].phase = "pop", ![s].held = NoTimer]
  /\ UNCHANGED <<now, groupVars, registerVars, timers, closed>>

(* Faulty variant: a timer popped too soon is forgotten.                   *)
PushBackForgets(s) ==
  /\ Holding(s)
  /\ ~DueNow(sched[s].held)
  /\ Succeed(s)
  /\ sched' = [sched EXCEPT ![s] = AtTop]
  /\ UNCHANGED <<now, groupVars, registerVars, timers, fired, closed>>

(* A push back that fails loses the timer.                                 *)
PushBack(s) ==
  /\ Holding(s)
  /\ ~DueNow(sched[s].held)
  /\ \/ timers' = timers \cup {sched[s].held} /\ Succeed(s)
     \/ Loss /\ ~closed[s] /\ timers' = timers \cup {sched[s].held}
     \/ Spoil(s) /\ UNCHANGED timers
  /\ sched' = [sched EXCEPT ![s] = AtTop]
  /\ UNCHANGED <<now, groupVars, registerVars, fired, closed>>

-----------------------------------------------------------------------------
Crash(s) ==
  /\ Loss
  /\ job' = [job EXCEPT ![s] = [g \in Permits |-> IdleJob]]
  /\ sched' = [sched EXCEPT ![s] = AtTop]
  /\ closed' = [closed EXCEPT ![s] = FALSE]
  /\ UNCHANGED <<now, groupVars, dead, timers, fired>>

(* Stop closes the client the scheduler pops with, and then waits for      *)
(* scheduler and goroutines.                                               *)
Stop(s) ==
  /\ ~closed[s]
  /\ Loss
  /\ closed' = [closed EXCEPT ![s] = TRUE]
  /\ UNCHANGED <<now, groupVars, registerVars, timers, sched, fired>>

Restart(s) ==
  /\ closed[s]
  /\ sched[s].phase = "peek"
  /\ \A g \in Permits : job[s][g].phase = "idle"
  /\ closed' = [closed EXCEPT ![s] = FALSE]
  /\ UNCHANGED <<now, groupVars, registerVars, timers, sched, fired, budgets>>

Registration(s, g) ==
  Deliver(s, g) \/ Register(s, g) \/ RegisterFails(s, g) \/ Acknowledge(s, g)

Scheduler(s) ==
  \/ Peek(s) \/ PeekFails(s) \/ Wake(s) \/ EndBatch(s)
  \/ Pop(s)  \/ Fire(s)      \/ PushBack(s)

Next ==
  \/ Tick
  \/ \E t \in Timers, d \in Durations : Schedule(t, d)
  \/ \E s \in Services : Scheduler(s) \/ Crash(s) \/ Stop(s) \/ Restart(s)
  \/ \E s \in Services, g \in Permits : Registration(s, g)

Spec == Init /\ [][Next]_vars

Fairness ==
  /\ WF_vars(Tick)
  /\ \A s \in Services : WF_vars(Scheduler(s)) /\ WF_vars(Restart(s))
  /\ \A s \in Services, g \in Permits : WF_vars(Registration(s, g))

(* Calls and goroutines that take no time compared with a tick: the clock  *)
(* moves only when every goroutine is idle and every scheduler sleeps.     *)
Settled ==
  /\ cursor = Len(requests)
  /\ \A s \in Services : /\ sched[s].phase \in {"asleep", "backoff"}
                         /\ sched[s].until > now
                         /\ \A g \in Permits : job[s][g].phase = "idle"

PromptSpec == Init /\ [][Next /\ (now' # now => Settled)]_vars /\ Fairness

-----------------------------------------------------------------------------
(* Properties.                                                             *)

Entries == Nat \ {0}

(* The shape of the state of timer/internal/processor and its sorted set.  *)
TypeOK ==
  /\ now \in 0 .. Horizon
  /\ requests \in Seq(Request)
  /\ cursor \in 0 .. Len(requests)
  /\ acked \subseteq Entries
  /\ job \in [Services -> [Permits -> Job]]
  /\ dead \subseteq Entries
  /\ timers \subseteq Member
  /\ sched \in [Services -> Sched]
  /\ fired \in Seq([member: Member, at: Nat])
  /\ closed \in [Services -> BOOLEAN]
  /\ faults \in Nat /\ losses \in Nat /\ faults + losses <= MaxFailures

(* The two roundings of a wait's end, by the fire_at of the event and by  *)
(* the look-ahead, never add up to a second and a look-ahead:              *)
(* every timer.fired answers a wait that is that close to its end.         *)
NotTooEarly ==
  \A i \in DOMAIN fired :
    \E k \in DOMAIN requests :
      /\ MemberOf(requests[k]) = fired[i].member
      /\ Due(requests[k]) < fired[i].at + Lookahead + Second

(* ZPOPMIN hands a timer to one scheduler.  While ZADD does not fail after *)
(* taking effect, a wait is not resumed more often than it was scheduled.  *)
FiredOnce ==
  faults = 0 =>
    \A m \in {fired[i].member : i \in DOMAIN fired} :
      Cardinality({i \in DOMAIN fired : fired[i].member = m})
        <= Cardinality({k \in DOMAIN requests : MemberOf(requests[k]) = m})

HasFired(k) ==
  \E i \in DOMAIN fired :
    k \in DOMAIN requests /\ fired[i].member = MemberOf(requests[k])

(* While no process dies and no call fails under a popped timer, a request *)
(* that was acknowledged is in the set, in the hands of a scheduler, fired *)
(* or reported dead.                                                       *)
AcceptedIsKept ==
  losses = 0 =>
    \A i \in acked \ dead :
      LET m == MemberOf(requests[i])
      IN  \/ m \in timers
          \/ \E s \in Services : sched[s].held = m
          \/ HasFired(i)

(* However the schedulers interleave, what is in the set is overdue by at  *)
(* most MaxSleep, as long as nothing fails: a scheduler that saw nothing,  *)
(* or a later timer, wakes by then.  Of the requests with one payload,     *)
(* which are one member, the latest counts: the timer may have fired for   *)
(* the others.                                                             *)
Punctual ==
  faults + losses = 0 => \A m \in timers : \E k \in DOMAIN requests :
    /\ MemberOf(requests[k]) = m
    /\ now <= Max({requests[k].at, FireAt(requests[k])}) + MaxSleep

(* A wait that is scheduled ends: its timer fires while nothing is lost,   *)
(* unless it was given up.                                                 *)
EveryTimerFires ==
  \A k \in 1 .. MaxRequests :
    k \in DOMAIN requests ~> losses > 0 \/ k \in dead \/ HasFired(k)
=============================================================================
