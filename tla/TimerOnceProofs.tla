--------------------------- MODULE TimerOnceProofs ---------------------------
(***************************************************************************)
(* A wait of TimerService is not resumed more often than it was scheduled, *)
(* for any timers, processes, permits, settings and bounds.                *)
(***************************************************************************)
EXTENDS TimerServiceProofs, FiniteSetTheorems

(* Where a timer m can be: in the stream, with a scheduler, in the set.    *)
FiredAt(fs, m) == {i \in DOMAIN fs : fs[i].member = m}
HeldBy(c, m) == {s \in Services : c[s].held = m}

Copies(fs, c, ts, m) ==
  Cardinality(FiredAt(fs, m)) + Cardinality(HeldBy(c, m))
    + Cardinality(ts \cap {m})

AskedBy(m) == {k \in DOMAIN requests : MemberOf(requests[k]) = m}

Registering(s, g, k) ==
  job[s][g].phase = "registering" /\ job[s][g].entry = k

(* The requests for m that a goroutine took and is done with.              *)
Registered(m) ==
  {k \in AskedBy(m) : k <= cursor /\
     \A s \in Services, g \in Permits : ~Registering(s, g, k)}

(* An entry is delivered once: no two goroutines register it, and no       *)
(* goroutine one that the group has not handed out.                        *)
DeliveredOnce ==
  \A s, t \in Services, g, h \in Permits, k \in DOMAIN requests :
    Registering(s, g, k) =>
      k <= cursor /\ (Registering(t, h, k) => s = t /\ g = h)

(* A registration makes one copy of the timer, and no other step makes     *)
(* one: not a pop, not a push back, not a firing.                          *)
OnceInv ==
  /\ DeliveredOnce
  /\ faults = 0 => \A m \in Member :
       /\ IsFiniteSet(HeldBy(sched, m))
       /\ Copies(fired, sched, timers, m) <= Cardinality(Registered(m))

-----------------------------------------------------------------------------
(* Counting copies, place by place.                                        *)

Is(x, y) == IF x = y THEN 1 ELSE 0
In(x, S) == IF x \in S THEN 1 ELSE 0

LEMMA Indicators ==
  /\ \A x, y : Is(x, y) \in {0, 1} /\ (x = y <=> Is(x, y) = 1)
  /\ \A x, S : In(x, S) \in {0, 1} /\ (x \in S <=> In(x, S) = 1)
  BY DEF Is, In

LEMMA FiredFinite ==
  ASSUME NEW S, NEW fs \in Seq(S), NEW m
  PROVE  IsFiniteSet(FiredAt(fs, m)) /\ Cardinality(FiredAt(fs, m)) \in Nat
<1>1. FiredAt(fs, m) \in SUBSET (1 .. Len(fs)) /\ Len(fs) \in Nat
  BY DEF FiredAt
<1>2. IsFiniteSet(1 .. Len(fs))
  BY <1>1, FS_Interval
<1> QED
  BY <1>1, <1>2, FS_Subset, FS_CardinalityType

LEMMA FiredCounted ==
  ASSUME NEW S, NEW fs \in Seq(S), NEW r \in S, NEW m
  PROVE  Cardinality(FiredAt(Append(fs, r), m)) =
           Cardinality(FiredAt(fs, m)) + Is(r.member, m)
<1> DEFINE n == Len(fs) + 1
<1>1. n \notin FiredAt(fs, m)
  BY DEF FiredAt
<1>2. FiredAt(Append(fs, r), m) =
        IF r.member = m THEN FiredAt(fs, m) \cup {n} ELSE FiredAt(fs, m)
  BY DEF FiredAt
<1> HIDE DEF n
<1>3. IsFiniteSet(FiredAt(fs, m)) /\ Cardinality(FiredAt(fs, m)) \in Nat
  BY FiredFinite
<1>4. Cardinality(FiredAt(fs, m) \cup {n}) = Cardinality(FiredAt(fs, m)) + 1
  BY <1>1, <1>3, FS_AddElement
<1> QED
  BY <1>2, <1>3, <1>4 DEF Is

OnlyMoves(c, d, s) == \A t \in Services \ {s} : d[t].held = c[t].held

LEMMA HeldCounted ==
  ASSUME NEW c, NEW d, NEW s \in Services, NEW m, OnlyMoves(c, d, s),
         IsFiniteSet(HeldBy(c, m))
  PROVE  /\ IsFiniteSet(HeldBy(d, m))
         /\ Cardinality(HeldBy(c, m)) \in Nat
         /\ Cardinality(HeldBy(d, m)) + Is(c[s].held, m) =
              Cardinality(HeldBy(c, m)) + Is(d[s].held, m)
         /\ Cardinality(HeldBy(d, m)) \in Nat
<1>1. HeldBy(d, m) =
        IF d[s].held = m THEN HeldBy(c, m) \cup {s} ELSE HeldBy(c, m) \ {s}
  BY DEF HeldBy, OnlyMoves
<1>2. s \in HeldBy(c, m) <=> c[s].held = m
  BY DEF HeldBy
<1>3. Cardinality(HeldBy(c, m)) \in Nat
  BY FS_CardinalityType
<1>4. IsFiniteSet(HeldBy(d, m))
  BY <1>1, FS_AddElement, FS_RemoveElement
<1>5. Cardinality(HeldBy(d, m)) \in Nat
  BY <1>4, FS_CardinalityType
<1>6. /\ Cardinality(HeldBy(c, m) \cup {s}) =
           IF c[s].held = m THEN Cardinality(HeldBy(c, m))
                            ELSE Cardinality(HeldBy(c, m)) + 1
      /\ Cardinality(HeldBy(c, m) \ {s}) =
           IF c[s].held = m THEN Cardinality(HeldBy(c, m)) - 1
                            ELSE Cardinality(HeldBy(c, m))
  BY <1>2, FS_AddElement, FS_RemoveElement
<1> QED
  BY <1>1, <1>3, <1>4, <1>5, <1>6 DEF Is

LEMMA SetCounted ==
  ASSUME NEW ts, NEW m
  PROVE  Cardinality(ts \cap {m}) = In(m, ts)
<1>1. CASE m \in ts
  <2>1. ts \cap {m} = {m}
    BY <1>1
  <2> QED
    BY <1>1, <2>1, FS_Singleton DEF In
<1>2. CASE m \notin ts
  <2>1. ts \cap {m} = {}
    BY <1>2
  <2> QED
    BY <1>2, <2>1, FS_EmptySet DEF In
<1> QED
  BY <1>1, <1>2

LEMMA RegisteredFinite ==
  ASSUME TypeOK, NEW m
  PROVE  IsFiniteSet(Registered(m)) /\ Cardinality(Registered(m)) \in Nat
<1>1. Registered(m) \in SUBSET (1 .. Len(requests)) /\ Len(requests) \in Nat
  BY DEF Registered, AskedBy, TypeOK
<1>2. IsFiniteSet(1 .. Len(requests))
  BY <1>1, FS_Interval
<1> QED
  BY <1>1, <1>2, FS_Subset, FS_CardinalityType

-----------------------------------------------------------------------------
(* What a goroutine registers after a step it registered before, unless it *)
(* is the next entry of the stream, which this one goroutine took.         *)
LEMMA RegisteringOrigin ==
  ASSUME TimerInv, [Next]_vars, NEW s \in Services, NEW g \in Permits, NEW k,
         Registering(s, g, k)'
  PROVE  \/ Registering(s, g, k)
         \/ /\ k = cursor + 1 /\ cursor' = cursor + 1
            /\ \A t \in Services, h \in Permits :
                 <<t, h>> # <<s, g>> => job'[t][h] = job[t][h]
<1>1. job \in [Services -> [Permits -> Job]] /\ requests \in Seq(Request)
  BY DEF TimerInv, TypeOK
<1>2. ASSUME NEW t \in Services, NEW h \in Permits, Registration(t, h)
      PROVE  \/ Registering(s, g, k)
             \/ /\ k = cursor + 1 /\ cursor' = cursor + 1
                /\ \A u \in Services, i \in Permits :
                     <<u, i>> # <<s, g>> => job'[u][i] = job[u][i]
  <2>1. ASSUME NEW j, SetJob(t, h, j)
        PROVE  /\ job'[t][h] = j
               /\ \A u \in Services, i \in Permits :
                    <<u, i>> # <<t, h>> => job'[u][i] = job[u][i]
    BY <1>1, <2>1 DEF SetJob
  <2>2. CASE Deliver(t, h)
    <3>1. /\ job'[t][h].entry = cursor + 1 /\ cursor' = cursor + 1
          /\ \A u \in Services, i \in Permits :
               <<u, i>> # <<t, h>> => job'[u][i] = job[u][i]
      BY <2>1, <2>2 DEF Deliver
    <3> QED
      BY <1>2, <3>1 DEF Registering
  <2>3. CASE Register(t, h) \/ RegisterFails(t, h) \/ Acknowledge(t, h)
    <3>1. PICK j : /\ SetJob(t, h, j)
                   /\ j.phase = "registering" =>
                        job[t][h].phase = "registering" /\ j.entry = job[t][h].entry
      <4>1. job[t][h] \in Job
        BY <1>1
      <4>2. /\ [job[t][h] EXCEPT !.phase = "acking"].phase # "registering"
            /\ [job[t][h] EXCEPT !.attempt = @ + 1].entry = job[t][h].entry
            /\ IdleJob.phase # "registering"
        BY <4>1 DEF Job, IdleJob
      <4> QED
        BY <2>3, <4>2 DEF Register, RegisterFails, Acknowledge
    <3>2. /\ job'[t][h] = j
          /\ \A u \in Services, i \in Permits :
               <<u, i>> # <<t, h>> => job'[u][i] = job[u][i]
      BY <2>1, <3>1
    <3> QED
      BY <3>1, <3>2 DEF Registering
  <2> QED
    BY <1>2, <2>2, <2>3 DEF Registration
<1>3. CASE UNCHANGED job
  BY <1>3 DEF Registering
<1>4. ASSUME NEW t \in Services, Crash(t)
      PROVE  Registering(s, g, k)
  <2>1. job'[s][g] = IF s = t THEN IdleJob ELSE job[s][g]
    BY <1>1, <1>4 DEF Crash
  <2> QED
    BY <2>1 DEF Registering, IdleJob
<1> QED
  BY <1>2, <1>3, <1>4
  DEF Next, Tick, Schedule, Scheduler, Peek, PeekFails, Wake, EndBatch, Pop,
      Fire, PushBack, Stop, Restart, vars, registerVars

LEMMA CursorGrows ==
  ASSUME TimerInv, [Next]_vars
  PROVE  cursor \in Nat /\ cursor' \in Nat /\ cursor <= cursor'
<1>1. cursor' = cursor \/ cursor' = cursor + 1
  BY DEF Next, Tick, Schedule, Registration, Deliver, Register, RegisterFails,
         Acknowledge, Scheduler, Peek, PeekFails, Wake, EndBatch, Pop, Fire,
         PushBack, Crash, Stop, Restart, groupVars, vars
<1>2. cursor \in Nat
  BY DEF TimerInv, TypeOK
<1> QED
  BY <1>1, <1>2

LEMMA DeliveredOnceStep ==
  ASSUME TimerInv, DeliveredOnce, [Next]_vars
  PROVE  DeliveredOnce'
<1> SUFFICES ASSUME NEW s \in Services, NEW g \in Permits,
                    NEW k \in DOMAIN requests', Registering(s, g, k)'
             PROVE  /\ k <= cursor'
                    /\ \A t \in Services, h \in Permits :
                         Registering(t, h, k)' => s = t /\ g = h
  BY DEF DeliveredOnce, Registering
<1>1. cursor \in Nat /\ cursor' \in Nat /\ cursor <= cursor'
  BY CursorGrows
<1>2. \A t \in Services, h \in Permits :
        Registering(t, h, k) => k \in DOMAIN requests /\ k <= cursor
  BY DEF TimerInv, JobsOK, DeliveredOnce, Registering
<1>3. CASE Registering(s, g, k)
  <2>1. k \in DOMAIN requests /\ k <= cursor /\ k \in Nat
    BY <1>2, <1>3 DEF TimerInv, TypeOK
  <2>2. \A t \in Services, h \in Permits :
          Registering(t, h, k)' => Registering(t, h, k)
    <3>1. k # cursor + 1
      BY <1>1, <2>1
    <3> QED
      BY <3>1, RegisteringOrigin
  <2> QED
    BY <1>1, <1>3, <2>1, <2>2 DEF DeliveredOnce
<1>4. CASE /\ k = cursor + 1 /\ cursor' = cursor + 1
           /\ \A t \in Services, h \in Permits :
                <<t, h>> # <<s, g>> => job'[t][h] = job[t][h]
  <2>1. \A t \in Services, h \in Permits : ~Registering(t, h, k)
    BY <1>1, <1>2, <1>4
  <2>2. \A t \in Services, h \in Permits :
          <<t, h>> # <<s, g>> => ~Registering(t, h, k)'
    BY <1>4, <2>1 DEF Registering
  <2> QED
    BY <1>1, <1>4, <2>2
<1> QED
  BY <1>3, <1>4, RegisteringOrigin

(* A request that was registered stays registered.                         *)
LEMMA RegisteredGrows ==
  ASSUME TimerInv, [Next]_vars, NEW m
  PROVE  Registered(m) \subseteq Registered(m)'
<1> SUFFICES ASSUME NEW k \in Registered(m) PROVE k \in Registered(m)'
  OBVIOUS
<1>1. k \in DOMAIN requests /\ MemberOf(requests[k]) = m /\ k <= cursor
  BY DEF Registered, AskedBy
<1>2. k \in DOMAIN requests' /\ requests'[k] = requests[k]
  BY <1>1, RequestsGrow DEF TimerInv
<1>3. MemberOf(requests'[k]) = m
  BY <1>1, <1>2
<1>4. cursor \in Nat /\ cursor' \in Nat /\ cursor <= cursor' /\ k \in Nat
  BY <1>1, CursorGrows DEF TimerInv, TypeOK
<1>5. k <= cursor' /\ k # cursor + 1
  BY <1>1, <1>4
<1>6. \A s \in Services, g \in Permits : ~Registering(s, g, k)'
  BY <1>5, RegisteringOrigin DEF Registered
<1> QED
  BY <1>2, <1>3, <1>5, <1>6
  DEF Registered, AskedBy, Registering, MemberOf, FireAt, Due

-----------------------------------------------------------------------------
(* What a step of one scheduler does to the number of copies of m.         *)
Published(m, p) ==
  \/ fired' = fired /\ p = 0
  \/ \E t \in Member : Publish(t) /\ p = Is(t, m)

LEMMA StepCounted ==
  ASSUME TimerInv, NEW m \in Member, NEW s \in Services, NEW p,
         IsFiniteSet(HeldBy(sched, m)), Published(m, p),
         OnlyMoves(sched, sched', s)
  PROVE  /\ IsFiniteSet(HeldBy(sched', m))
         /\ Copies(fired, sched, timers, m) \in Nat
         /\ Copies(fired', sched', timers', m) \in Nat
         /\ Copies(fired', sched', timers', m)
              + Is(sched[s].held, m) + In(m, timers)
            = Copies(fired, sched, timers, m)
                + p + Is(sched'[s].held, m) + In(m, timers')
<1>1. /\ Cardinality(FiredAt(fired, m)) \in Nat /\ p \in {0, 1}
      /\ Cardinality(FiredAt(fired', m)) = Cardinality(FiredAt(fired, m)) + p
  <2>1. fired \in Seq([member : Member, at : Nat]) /\ now \in Nat
    BY DEF TimerInv, TypeOK
  <2>2. Cardinality(FiredAt(fired, m)) \in Nat
    BY <2>1, FiredFinite
  <2>3. CASE fired' = fired /\ p = 0
    BY <2>2, <2>3
  <2>4. ASSUME NEW t \in Member, Publish(t), p = Is(t, m)
        PROVE  /\ p \in {0, 1}
               /\ Cardinality(FiredAt(fired', m)) =
                    Cardinality(FiredAt(fired, m)) + p
    <3> DEFINE r == [member |-> t, at |-> now]
    <3>1. r \in [member : Member, at : Nat] /\ r.member = t
      BY <2>1
    <3>2. fired' = Append(fired, r)
      BY <2>4 DEF Publish
    <3> HIDE DEF r
    <3>3. Cardinality(FiredAt(Append(fired, r), m)) =
            Cardinality(FiredAt(fired, m)) + Is(r.member, m)
      BY <2>1, <3>1, FiredCounted
    <3> QED
      BY <2>4, <3>1, <3>2, <3>3, Indicators
  <2> QED
    BY <2>2, <2>3, <2>4 DEF Published
<1>2. /\ IsFiniteSet(HeldBy(sched', m))
      /\ Cardinality(HeldBy(sched, m)) \in Nat
      /\ Cardinality(HeldBy(sched', m)) \in Nat
      /\ Cardinality(HeldBy(sched', m)) + Is(sched[s].held, m) =
           Cardinality(HeldBy(sched, m)) + Is(sched'[s].held, m)
  BY HeldCounted
<1>3. /\ Cardinality(timers \cap {m}) = In(m, timers)
      /\ Cardinality(timers' \cap {m}) = In(m, timers')
  BY SetCounted
<1>4. /\ Is(sched[s].held, m) \in {0, 1} /\ Is(sched'[s].held, m) \in {0, 1}
      /\ In(m, timers) \in {0, 1} /\ In(m, timers') \in {0, 1}
  BY Indicators
<1> QED
  BY <1>1, <1>2, <1>3, <1>4 DEF Copies

(* A timer changes hands one copy at a time, as long as nothing registers. *)
LEMMA HandedOn ==
  ASSUME TimerInv, NEW m \in Member, NEW s \in Services,
         IsFiniteSet(HeldBy(sched, m)), Scheduler(s) \/ Crash(s)
  PROVE  /\ IsFiniteSet(HeldBy(sched', m))
         /\ Copies(fired', sched', timers', m)
              <= Copies(fired, sched, timers, m)
<1>1. /\ sched \in [Services -> Sched] /\ timers \subseteq Member
      /\ NoTimer \notin Member /\ AtTop.held = NoTimer
      /\ sched[s] \in Sched
      /\ sched[s].phase # "holding" => sched[s].held = NoTimer
  BY TimerAssumption DEF TimerInv, TypeOK, HeldOK, AtTop
<1>2. m # NoTimer
  BY <1>1
<1>3. ASSUME NEW c, sched' = [sched EXCEPT ![s] = c]
      PROVE  sched'[s] = c /\ OnlyMoves(sched, sched', s)
  BY <1>1, <1>3 DEF OnlyMoves
<1>4. ASSUME NEW p \in {0, 1}, Published(m, p), OnlyMoves(sched, sched', s),
             p + Is(sched'[s].held, m) + In(m, timers')
               <= Is(sched[s].held, m) + In(m, timers)
      PROVE  /\ IsFiniteSet(HeldBy(sched', m))
             /\ Copies(fired', sched', timers', m)
                  <= Copies(fired, sched, timers, m)
  <2>1. /\ Is(sched[s].held, m) \in {0, 1} /\ Is(sched'[s].held, m) \in {0, 1}
        /\ In(m, timers) \in {0, 1} /\ In(m, timers') \in {0, 1}
    BY Indicators
  <2> QED
    BY <1>4, <2>1, StepCounted
<1>5. CASE \/ Peek(s) \/ PeekFails(s) \/ Wake(s) \/ EndBatch(s) \/ Crash(s)
  <2>1. /\ fired' = fired /\ timers' \subseteq timers
        /\ \E c : sched' = [sched EXCEPT ![s] = c] /\ c.held = NoTimer
    <3>1. fired' = fired /\ timers' \subseteq timers
      BY <1>5 DEF Peek, PeekFails, Wake, EndBatch, Crash
    <3>2. \A ph, u : [AtTop EXCEPT !.phase = ph, !.until = u].held = NoTimer
      BY DEF AtTop
    <3>3. CASE Peek(s) \/ PeekFails(s)
      <4>1. PICK ph, d : Sleep(s, ph, d)
        BY <3>3 DEF Peek, PeekFails
      <4> QED
        BY <3>1, <3>2, <4>1 DEF Sleep
    <3>4. [AtTop EXCEPT !.phase = "pop", !.left = BatchSize].held = NoTimer
      BY DEF AtTop
    <3>5. CASE Wake(s) \/ EndBatch(s) \/ Crash(s)
      BY <1>1, <3>1, <3>4, <3>5 DEF Wake, EndBatch, Crash
    <3> QED
      BY <1>5, <3>3, <3>5
  <2>2. /\ sched'[s].held = NoTimer
        /\ OnlyMoves(sched, sched', s)
    BY <1>3, <2>1
  <2>3. Published(m, 0)
    BY <2>1 DEF Published
  <2>4. 0 + Is(sched'[s].held, m) + In(m, timers')
          <= Is(sched[s].held, m) + In(m, timers)
    BY <1>2, <2>1, <2>2 DEF Is, In
  <2> QED
    BY <1>4, <2>2, <2>3, <2>4
<1>6. CASE Pop(s)
  <2>1. PICK n \in timers :
          /\ timers' = timers \ {n}
          /\ sched' = [sched EXCEPT ![s] = [sched[s] EXCEPT
               !.phase = "holding", !.held = n, !.left = sched[s].left - 1]]
    BY <1>1, <1>6 DEF Pop
  <2>2. [sched[s] EXCEPT !.phase = "holding", !.held = n,
                         !.left = sched[s].left - 1].held = n
    BY <1>1 DEF Sched
  <2>3. /\ sched'[s].held = n /\ sched[s].held = NoTimer
        /\ OnlyMoves(sched, sched', s)
    BY <1>1, <1>3, <1>6, <2>1, <2>2 DEF Pop
  <2>4. Published(m, 0)
    BY <1>6 DEF Published, Pop
  <2>5. 0 + Is(sched'[s].held, m) + In(m, timers')
          <= Is(sched[s].held, m) + In(m, timers)
    BY <1>2, <2>1, <2>3 DEF Is, In
  <2> QED
    BY <1>4, <2>3, <2>4, <2>5
<1>7. CASE Fire(s)
  <2>1. sched' = [sched EXCEPT ![s] = [sched[s] EXCEPT
               !.phase = "pop", !.held = NoTimer]]
    BY <1>1, <1>7 DEF Fire
  <2>2. [sched[s] EXCEPT !.phase = "pop", !.held = NoTimer].held = NoTimer
    BY <1>1 DEF Sched
  <2>3. /\ sched'[s].held = NoTimer /\ timers' = timers
        /\ OnlyMoves(sched, sched', s)
    BY <1>3, <1>7, <2>1, <2>2 DEF Fire
  <2>4. sched[s].held \in Member
    BY <1>1, <1>7 DEF Fire, Holding, TimerInv, HeldOK, Sched
  <2>5. PICK p \in {0, 1} : /\ Published(m, p)
                            /\ p <= Is(sched[s].held, m)
    <3>1. CASE fired' = fired
      BY <3>1, Indicators DEF Published
    <3>2. CASE Publish(sched[s].held)
      BY <2>4, <3>2, Indicators DEF Published
    <3> QED
      BY <1>7, <3>1, <3>2 DEF Fire
  <2>6. p + Is(sched'[s].held, m) + In(m, timers')
          <= Is(sched[s].held, m) + In(m, timers)
    BY <1>2, <2>3, <2>5 DEF Is, In
  <2> QED
    BY <1>4, <2>3, <2>5, <2>6
<1>8. CASE PushBack(s)
  <2>1. /\ sched' = [sched EXCEPT ![s] = AtTop] /\ fired' = fired
        /\ timers' \subseteq timers \cup {sched[s].held}
    BY <1>8 DEF PushBack
  <2>2. /\ sched'[s].held = NoTimer
        /\ OnlyMoves(sched, sched', s)
    BY <1>1, <1>3, <2>1
  <2>3. Published(m, 0)
    BY <2>1 DEF Published
  <2>4. 0 + Is(sched'[s].held, m) + In(m, timers')
          <= Is(sched[s].held, m) + In(m, timers)
    BY <1>2, <2>1, <2>2 DEF Is, In
  <2> QED
    BY <1>4, <2>2, <2>3, <2>4
<1> QED
  BY <1>5, <1>6, <1>7, <1>8 DEF Scheduler

(* A registration makes one copy, and is one more request registered.      *)
LEMMA RegisterCounted ==
  ASSUME TimerInv, DeliveredOnce, [Next]_vars, NEW m \in Member,
         NEW s \in Services, NEW g \in Permits,
         IsFiniteSet(HeldBy(sched, m)), Register(s, g)
  PROVE  \/ Copies(fired', sched', timers', m)
              <= Copies(fired, sched, timers, m)
         \/ /\ Copies(fired', sched', timers', m)
                 <= Copies(fired, sched, timers, m) + 1
            /\ \E k \in Registered(m)' : k \notin Registered(m)
<1>1. PICK k : k = job[s][g].entry
  OBVIOUS
<1>2. /\ fired' = fired /\ sched' = sched /\ requests' = requests
      /\ cursor' = cursor
      /\ timers' = timers \cup {MemberOf(requests[k])}
      /\ job[s][g].phase = "registering" /\ k \in DOMAIN requests
      /\ job \in [Services -> [Permits -> Job]]
  BY <1>1 DEF Register, groupVars, TimerInv, TypeOK, JobsOK
<1>3. /\ Copies(fired, sched, timers, m) \in Nat
      /\ Copies(fired', sched', timers', m) \in Nat
      /\ Copies(fired', sched', timers', m) + In(m, timers) =
           Copies(fired, sched, timers, m) + In(m, timers')
  <2>1. Published(m, 0) /\ OnlyMoves(sched, sched', s)
    BY <1>2 DEF Published, OnlyMoves
  <2>2. /\ Is(sched[s].held, m) \in {0, 1} /\ Is(sched'[s].held, m) \in {0, 1}
        /\ In(m, timers) \in {0, 1} /\ In(m, timers') \in {0, 1}
    BY Indicators
  <2>3. Is(sched[s].held, m) = Is(sched'[s].held, m)
    BY <1>2
  <2> QED
    BY <2>1, <2>2, <2>3, StepCounted
<1>4. CASE MemberOf(requests[k]) # m
  BY <1>2, <1>3, <1>4 DEF In
<1>5. CASE MemberOf(requests[k]) = m
  <2>1. In(m, timers) \in {0, 1} /\ In(m, timers') \in {0, 1}
    BY Indicators
  <2>2. Registering(s, g, k)
    BY <1>2, <1>1 DEF Registering
  <2>3. k \notin Registered(m)
    BY <2>2 DEF Registered
  <2>4. k <= cursor
    BY <1>2, <2>2 DEF DeliveredOnce
  <2>5. ~Registering(s, g, k)'
    <3>1. job[s][g] \in Job
      BY <1>2
    <3>2. job'[s][g] = [job[s][g] EXCEPT !.phase = "acking"]
      BY <1>2 DEF Register, SetJob
    <3>3. job'[s][g].phase = "acking"
      BY <3>1, <3>2 DEF Job
    <3> QED
      BY <3>3 DEF Registering
  <2>6. \A t \in Services, h \in Permits : ~Registering(t, h, k)'
    <3> SUFFICES ASSUME NEW t \in Services, NEW h \in Permits,
                        <<t, h>> # <<s, g>>
                 PROVE  ~Registering(t, h, k)'
      BY <2>5
    <3>1. job'[t][h] = job[t][h]
      BY <1>2 DEF Register, SetJob
    <3>2. ~Registering(t, h, k)
      BY <1>2, <2>2 DEF DeliveredOnce
    <3> QED
      BY <3>1, <3>2, <1>2 DEF Registering, Register
  <2>7. k \in Registered(m)'
    BY <1>2, <1>5, <2>4, <2>6
    DEF Registered, AskedBy, Registering, MemberOf, FireAt, Due
  <2> QED
    BY <1>3, <2>1, <2>3, <2>7
<1> QED
  BY <1>4, <1>5

-----------------------------------------------------------------------------
(* No step makes a copy that no registration pays for.                     *)
LEMMA OnceStep ==
  ASSUME TimerInv, OnceInv, [Next]_vars
  PROVE  OnceInv'
<1>1. DeliveredOnce /\ DeliveredOnce'
  BY DeliveredOnceStep DEF OnceInv
<1>2. SUFFICES ASSUME faults' = 0, NEW m \in Member
               PROVE  /\ IsFiniteSet(HeldBy(sched', m))
                      /\ Copies(fired', sched', timers', m)
                           <= Cardinality(Registered(m)')
  BY <1>1 DEF OnceInv, Copies, HeldBy, FiredAt
<1>3. faults = 0
  <2>1. faults' = faults \/ faults' = faults + 1
    BY DEF Next, Tick, Schedule, Registration, Deliver, Register,
           RegisterFails, Acknowledge, Scheduler, Peek, PeekFails, Wake,
           EndBatch, Pop, Fire, PushBack, Crash, Stop, Restart, budgets,
           Succeed, Fault, Spoil, Loss, vars
  <2>2. faults \in Nat
    BY DEF TimerInv, TypeOK
  <2> QED
    BY <1>2, <2>1, <2>2
<1>4. /\ IsFiniteSet(HeldBy(sched, m))
      /\ Copies(fired, sched, timers, m) <= Cardinality(Registered(m))
  BY <1>3 DEF OnceInv
<1>5. /\ Copies(fired, sched, timers, m) \in Nat
      /\ fired' = fired /\ sched' = sched /\ timers' \subseteq timers =>
           Copies(fired', sched', timers', m)
             <= Copies(fired, sched, timers, m)
  <2>1. /\ Cardinality(FiredAt(fired, m)) \in Nat
        /\ Cardinality(HeldBy(sched, m)) \in Nat
    BY <1>4, FiredFinite, FS_CardinalityType DEF TimerInv, TypeOK
  <2>2. /\ Cardinality(timers \cap {m}) = In(m, timers)
        /\ Cardinality(timers' \cap {m}) = In(m, timers')
        /\ In(m, timers) \in {0, 1} /\ In(m, timers') \in {0, 1}
        /\ timers' \subseteq timers => In(m, timers') <= In(m, timers)
    BY SetCounted, Indicators
  <2> QED
    BY <2>1, <2>2 DEF Copies
<1>6. /\ IsFiniteSet(HeldBy(sched', m))
      /\ \/ Copies(fired', sched', timers', m)
              <= Copies(fired, sched, timers, m)
         \/ /\ Copies(fired', sched', timers', m)
                 <= Copies(fired, sched, timers, m) + 1
            /\ \E k \in Registered(m)' : k \notin Registered(m)
  <2>1. CASE \E s \in Services : Scheduler(s) \/ Crash(s)
    BY <1>4, <2>1, HandedOn
  <2>2. CASE \E s \in Services, g \in Permits : Register(s, g)
    <3>1. sched' = sched
      BY <2>2 DEF Register
    <3> QED
      BY <1>1, <1>4, <2>2, <3>1, RegisterCounted
  <2>3. CASE UNCHANGED <<fired, sched, timers>>
    BY <1>4, <1>5, <2>3
  <2>4. \A s \in Services, g \in Permits :
          RegisterFails(s, g) => UNCHANGED <<fired, sched, timers>>
    <3> SUFFICES ASSUME NEW s \in Services, NEW g \in Permits,
                        RegisterFails(s, g)
                 PROVE  UNCHANGED <<fired, sched, timers>>
      OBVIOUS
    <3>1. closed[s]
      BY <1>2, <1>3 DEF RegisterFails, Fault
    <3> QED
      BY <3>1 DEF RegisterFails
  <2> QED
    BY <2>1, <2>2, <2>3, <2>4
    DEF Next, Tick, Schedule, Registration, Deliver, Acknowledge, Stop,
        Restart, registerVars, vars
<1>7. /\ Cardinality(Registered(m)) \in Nat
      /\ Cardinality(Registered(m)') \in Nat
      /\ Cardinality(Registered(m)) <= Cardinality(Registered(m)')
      /\ (\E k \in Registered(m)' : k \notin Registered(m)) =>
           Cardinality(Registered(m)) + 1 <= Cardinality(Registered(m)')
  <2>1. IsFiniteSet(Registered(m)')
    <3>1. requests' \in Seq(Request)
      BY NextShape DEF Shape, TypeOK
    <3>2. Registered(m)' \in SUBSET (1 .. Len(requests')) /\ Len(requests') \in Nat
      BY <3>1 DEF Registered, AskedBy
    <3>3. IsFiniteSet(1 .. Len(requests'))
      BY <3>2, FS_Interval
    <3> QED
      BY <3>2, <3>3, FS_Subset
  <2>2. Registered(m) \in SUBSET (Registered(m)')
    BY RegisteredGrows
  <2>3. /\ Cardinality(Registered(m)) \in Nat
        /\ Cardinality(Registered(m)') \in Nat
        /\ Cardinality(Registered(m)) <= Cardinality(Registered(m)')
        /\ Cardinality(Registered(m)) = Cardinality(Registered(m)') =>
             Registered(m) = Registered(m)'
    BY <2>1, <2>2, FS_Subset, FS_CardinalityType
  <2> QED
    BY <2>3
<1>8. Copies(fired', sched', timers', m) \in Nat
  <2>1. fired' \in Seq([member : Member, at : Nat])
    BY NextShape DEF Shape, TypeOK
  <2>2. Cardinality(FiredAt(fired', m)) \in Nat
    BY <2>1, FiredFinite
  <2>3. Cardinality(HeldBy(sched', m)) \in Nat
    BY <1>6, FS_CardinalityType
  <2>4. Cardinality(timers' \cap {m}) \in {0, 1}
    BY SetCounted, Indicators
  <2> QED
    BY <2>2, <2>3, <2>4 DEF Copies
<1> QED
  BY <1>4, <1>5, <1>6, <1>7, <1>8

(* However the schedulers, crashes and stops interleave, a wait fires no   *)
(* more often than it was scheduled, while no ZADD fails after taking      *)
(* effect.                                                                 *)
THEOREM FiredOnceHolds == Spec => []FiredOnce
<1>1. Init => OnceInv
  <2> SUFFICES ASSUME Init PROVE OnceInv
    OBVIOUS
  <2>1. DeliveredOnce
    BY DEF Init, DeliveredOnce
  <2>2. ASSUME NEW m \in Member
        PROVE  /\ HeldBy(sched, m) = {} /\ FiredAt(fired, m) = {}
               /\ timers \cap {m} = {} /\ Registered(m) = {}
    <3>1. NoTimer # m
      BY TimerAssumption
    <3>2. HeldBy(sched, m) = {}
      BY <3>1 DEF Init, HeldBy, AtTop
    <3>3. FiredAt(fired, m) = {} /\ timers \cap {m} = {} /\ Registered(m) = {}
      BY DEF Init, FiredAt, Registered, AskedBy
    <3> QED
      BY <3>2, <3>3
  <2>3. IsFiniteSet({}) /\ Cardinality({}) = 0
    BY FS_EmptySet
  <2> QED
    BY <2>1, <2>2, <2>3 DEF OnceInv, Copies
<1>2. TimerInv /\ OnceInv /\ [Next]_vars => OnceInv'
  BY OnceStep
<1>3. TimerInv /\ OnceInv => FiredOnce
  <2> SUFFICES ASSUME TimerInv, OnceInv, faults = 0, NEW j \in DOMAIN fired
               PROVE  Cardinality(FiredAt(fired, fired[j].member))
                        <= Cardinality(AskedBy(fired[j].member))
    BY DEF FiredOnce, FiredAt, AskedBy
  <2>1. PICK m \in Member : m = fired[j].member
    <3>1. fired \in Seq([member : Member, at : Nat])
      BY DEF TimerInv, TypeOK
    <3>2. fired[j] \in [member : Member, at : Nat]
      BY <3>1, ElementTyped
    <3> QED
      BY <3>2
  <2>2. /\ IsFiniteSet(HeldBy(sched, m))
        /\ Copies(fired, sched, timers, m) <= Cardinality(Registered(m))
    BY DEF OnceInv
  <2>3. /\ Cardinality(FiredAt(fired, m)) \in Nat
        /\ Cardinality(HeldBy(sched, m)) \in Nat
        /\ Cardinality(timers \cap {m}) \in {0, 1}
        /\ Cardinality(Registered(m)) \in Nat
    BY <2>2, FiredFinite, FS_CardinalityType, SetCounted, Indicators,
       RegisteredFinite DEF TimerInv, TypeOK
  <2>4. /\ Cardinality(AskedBy(m)) \in Nat
        /\ Cardinality(Registered(m)) <= Cardinality(AskedBy(m))
    <3>1. AskedBy(m) \in SUBSET (1 .. Len(requests)) /\ Len(requests) \in Nat
      BY DEF AskedBy, TimerInv, TypeOK
    <3>2. IsFiniteSet(AskedBy(m))
      <4>1. IsFiniteSet(1 .. Len(requests))
        BY <3>1, FS_Interval
      <4> QED
        BY <3>1, <4>1, FS_Subset
    <3>3. Registered(m) \in SUBSET AskedBy(m)
      BY DEF Registered
    <3>4. Cardinality(AskedBy(m)) \in Nat
      BY <3>2, FS_CardinalityType
    <3>5. Cardinality(Registered(m)) <= Cardinality(AskedBy(m))
      BY <3>2, <3>3, FS_Subset
    <3> QED
      BY <3>4, <3>5
  <2> QED
    BY <2>1, <2>2, <2>3, <2>4 DEF Copies
<1> QED
  BY <1>1, <1>2, <1>3, TimerInvariance, PTL DEF Spec
=============================================================================
