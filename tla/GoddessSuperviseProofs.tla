------------------------ MODULE GoddessSuperviseProofs ------------------------
(* Proofs about GoddessSupervise, for any tasks, limits, windows and faults:   *)
(* the types, and that a critical service which keeps failing is not restarted *)
(* for ever.                                                                   *)
EXTENDS GoddessSupervise, TLAPS

(* --------------------------------- Types --------------------------------- *)

\* Until GODDESS gives up, no critical task has failed too often.
TypeInv ==
    /\ TypeOK
    /\ pc # "fatal" => \A n \in Critical : svc[n].fails <= RestartLimit

\* The assumptions on the limits, in the form the proofs cite.
LEMMA Numbers ==
    /\ RestartLimit \in Nat \ {0} /\ RestartWindow \in Nat /\ HealthyReset \in Nat
    /\ HealthyReset > RestartWindow /\ MediaLimit \in Nat /\ MediaDelay \in Nat
    /\ MaxTime \in Nat \ {0} /\ MaxFaults \in Nat
BY SuperviseAssumption

\* The assumptions on the tasks, in the form the proofs cite.
LEMMA Names ==
    /\ Order \in Seq(Tasks) /\ Critical \subseteq Tasks /\ Limited \subseteq Tasks
    /\ WS \in Tasks /\ EX \in Tasks /\ WS \in Critical
    /\ \A n \in Limited : n \notin Critical
BY SuperviseAssumption

\* The first states have the right types.
LEMMA TypeInit == Init => TypeInv
<1> SUFFICES ASSUME Init PROVE TypeInv
  OBVIOUS
<1>1. svc \in [Tasks -> Service]
  BY Numbers DEF Init, Service
<1>2. times \in [Critical -> Seq(1 .. MaxTime)]
  BY DEF Init
<1>3. now \in 1 .. MaxTime /\ faults \in 0 .. MaxFaults
  BY Numbers DEF Init
<1>4. \A n \in Critical : svc[n].fails <= RestartLimit
  BY Numbers, Names DEF Init
<1> QED BY <1>1, <1>2, <1>3, <1>4, Names DEF Init, TypeInv, TypeOK, Backends

\* The fields of a task.
LEMMA Fields ==
    ASSUME TypeInv, NEW n \in Tasks
    PROVE  /\ svc[n] \in Service /\ svc[n].up \in BOOLEAN /\ svc[n].graphics \in BOOLEAN
           /\ svc[n].fails \in 0 .. RestartLimit + 1 /\ svc[n].win \in 0 .. MaxTime
           /\ svc[n].started \in 0 .. MaxTime
           /\ svc[n].tries \in 0 .. MediaLimit /\ svc[n].after \in 0 .. MaxTime + MediaDelay
           /\ now \in 1 .. MaxTime
BY DEF TypeInv, TypeOK, Service

\* The count of a dead critical task.
LEMMA CountedType ==
    ASSUME TypeInv, NEW n \in Critical, pc # "fatal"
    PROVE  Counted(n) \in Service
<1>1. n \in Tasks
  BY Names
<1>2. svc[n].fails \in 0 .. RestartLimit
  BY <1>1, Fields, Numbers DEF TypeInv
<1>3. svc[n].fails + 1 \in 0 .. RestartLimit + 1 /\ 1 \in 0 .. RestartLimit + 1 /\ now \in 0 .. MaxTime
  BY <1>1, <1>2, Fields, Numbers
<1> QED BY <1>1, <1>3, Fields DEF Counted, Service

\* A restarted service has an entry of the right type.
LEMMA RestartedType ==
    ASSUME TypeInv, NEW n \in Tasks, Restartable(n)
    PROVE  Restarted(n) \in Service
<1> DEFINE s == IF n \in Critical THEN Counted(n) ELSE svc[n]
<1>1. s \in Service
  BY Fields, CountedType DEF Restartable, Looks
<1>2. s.tries = svc[n].tries
  BY Fields, Names DEF Counted, Service
<1>3. (n \in Limited => s.tries + 1 \in 0 .. MediaLimit) /\ now + MediaDelay \in 0 .. MaxTime + MediaDelay
      /\ now \in 0 .. MaxTime
  BY <1>2, Fields, Numbers DEF Restartable
<1> HIDE DEF s
<1>4. [s EXCEPT !.up = TRUE, !.graphics = FALSE,
              !.started = IF n \in Critical THEN now ELSE @,
              !.tries = IF n \in Limited THEN @ + 1 ELSE @,
              !.after = IF n \in Limited THEN now + MediaDelay ELSE @] \in Service
  BY <1>1, <1>3 DEF Service
<1> QED BY <1>4 DEF Restarted, s

\* What remains of a round is a sequence of tasks.
LEMMA TodoType == TypeInv /\ todo # <<>> => Tail(todo) \in Seq(Tasks)
BY DEF TypeInv, TypeOK

\* A task that is changed keeps the services in order.
LEMMA SvcType ==
    ASSUME TypeInv, NEW n \in Tasks, NEW s \in Service, svc' = [svc EXCEPT ![n] = s]
    PROVE  svc' \in [Tasks -> Service] /\ svc'[n] = s /\ \A m \in Tasks \ {n} : svc'[m] = svc[m]
BY DEF TypeInv, TypeOK

\* Marking a service as ended leaves the counters of all services alone.
LEMMA DownType ==
    ASSUME TypeInv, NEW n \in Tasks, NEW graphics \in BOOLEAN, svc' = Down(n, graphics)
    PROVE  /\ svc' \in [Tasks -> Service]
           /\ \A m \in Tasks : svc'[m].fails = svc[m].fails /\ svc'[m].win = svc[m].win
                                /\ svc'[m].started = svc[m].started
<1>1. svc \in [Tasks -> Service]
  BY DEF TypeInv, TypeOK
<1> QED BY <1>1 DEF Down, Service

\* The counters that the limits on restarts depend on.
SameCounts == \A m \in Critical : /\ svc'[m].fails = svc[m].fails /\ svc'[m].win = svc[m].win
                                  /\ svc'[m].started = svc[m].started

\* Steps that leave the counters of the critical tasks alone.
LEMMA HelloEffect ==
    ASSUME TypeInv, NEW answers \in BOOLEAN, Hello(answers)
    PROVE  TypeInv' /\ SameCounts
<1> DEFINE n == IF answers THEN EX ELSE WS
<1>1. svc' \in [Tasks -> Service] /\ SameCounts
  <2>1. n \in Tasks
    BY Names
  <2>2. svc' = Down(n, FALSE) \/ svc' = svc
    BY DEF Hello
  <2> HIDE DEF n
  <2>3. CASE svc' = svc
    BY <2>3 DEF SameCounts, TypeInv, TypeOK
  <2>4. CASE svc' = Down(n, FALSE)
    BY <2>1, <2>4, DownType, Names DEF SameCounts
  <2> QED BY <2>2, <2>3, <2>4
<1> QED BY <1>1 DEF Hello, TypeInv, TypeOK, SameCounts

\* The end of a service leaves the counters alone.
LEMMA ExitEffect ==
    ASSUME TypeInv, NEW n \in Tasks, NEW graphics \in BOOLEAN, Exit(n, graphics)
    PROVE  TypeInv' /\ SameCounts
<1>1. svc' \in [Tasks -> Service] /\ SameCounts
  BY DownType, Names DEF Exit, SameCounts
<1> QED BY <1>1 DEF Exit, TypeInv, TypeOK, SameCounts

\* sigchldhandler leaves the counters alone.
LEMMA ReapEffect ==
    ASSUME TypeInv, Reap
    PROVE  TypeInv' /\ SameCounts
<1>1. svc' \in [Tasks -> Service] /\ SameCounts
  <2>1. svc \in [Tasks -> Service]
    BY DEF TypeInv, TypeOK
  <2>2. \A n \in Tasks : [svc[n] EXCEPT !.graphics = FALSE] \in Service
    BY <2>1 DEF Service
  <2>3. \A n \in Tasks : svc'[n] = [svc[n] EXCEPT !.graphics = FALSE]
    BY DEF Reap
  <2>4. svc' \in [Tasks -> Service]
    BY <2>2 DEF Reap
  <2> QED BY <2>1, <2>3, <2>4, Names DEF SameCounts, Service
<1> QED BY <1>1 DEF Reap, TypeInv, TypeOK, SameCounts

\* The type invariant is inductive.
LEMMA TypeNext == TypeInv /\ [Next]_vars => TypeInv'
<1> SUFFICES ASSUME TypeInv, [Next]_vars PROVE TypeInv'
  OBVIOUS
<1>0. svc \in [Tasks -> Service] /\ times \in [Critical -> Seq(1 .. MaxTime)]
  BY DEF TypeInv, TypeOK
<1>1. CASE UNCHANGED vars
  BY <1>1 DEF vars, TypeInv, TypeOK
<1>2. ASSUME NEW n \in Tasks, ScanUp(n) PROVE TypeInv'
  <2>1. svc' \in [Tasks -> Service] /\ \A m \in Critical : svc'[m].fails <= RestartLimit
    <3>1. CASE svc' = svc
      BY <1>2, <3>1 DEF ScanUp, Looks, TypeInv, TypeOK
    <3>2. CASE svc' # svc
      <4>1. svc' = [svc EXCEPT ![n].fails = 0, ![n].win = 0]
        BY <1>2, <3>2 DEF ScanUp
      <4>2. svc' = [svc EXCEPT ![n] = [svc[n] EXCEPT !.fails = 0, !.win = 0]]
        BY <1>0, <4>1
      <4>3. [svc[n] EXCEPT !.fails = 0, !.win = 0] \in Service
        <5>1. 0 \in 0 .. RestartLimit + 1 /\ 0 \in 0 .. MaxTime
          BY Numbers
        <5>2. svc[n] \in Service
          BY <1>0
        <5> QED BY <5>1, <5>2 DEF Service
      <4>4. svc' \in [Tasks -> Service] /\ svc'[n] = [svc[n] EXCEPT !.fails = 0, !.win = 0]
            /\ \A m \in Tasks \ {n} : svc'[m] = svc[m]
        BY <4>2, <4>3, SvcType
      <4>5. svc'[n].fails = 0
        BY <4>4, Fields DEF Service
      <4> QED BY <1>2, <4>4, <4>5, Names, Numbers DEF ScanUp, Looks, TypeInv
    <3> QED BY <3>1, <3>2
  <2>2. todo' \in Seq(Tasks)
    BY <1>2, TodoType DEF ScanUp, Looks
  <2> QED BY <1>2, <2>1, <2>2 DEF ScanUp, TypeInv, TypeOK
<1>3. ASSUME NEW n \in Tasks, ScanFatal(n) PROVE TypeInv'
  <2>1. svc' \in [Tasks -> Service]
    BY <1>3, CountedType, SvcType DEF ScanFatal, Looks
  <2> QED BY <1>3, <2>1 DEF ScanFatal, TypeInv, TypeOK
<1>4. ASSUME NEW n \in Tasks, ScanSkip(n) PROVE TypeInv'
  <2>1. todo' \in Seq(Tasks)
    BY <1>4, TodoType DEF ScanSkip, Looks
  <2> QED BY <1>4, <2>1 DEF ScanSkip, TypeInv, TypeOK
<1>5. ASSUME NEW n \in Tasks, ScanRestart(n) PROVE TypeInv'
  <2>1. svc' \in [Tasks -> Service] /\ svc'[n] = Restarted(n) /\ \A m \in Tasks \ {n} : svc'[m] = svc[m]
    BY <1>5, RestartedType, SvcType DEF ScanRestart
  <2>2. \A m \in Critical : svc'[m].fails <= RestartLimit
    <3>1. n \in Critical => Restarted(n).fails <= RestartLimit
      <4> SUFFICES ASSUME n \in Critical PROVE Restarted(n).fails <= RestartLimit
        OBVIOUS
      <4>1. Counted(n) \in Service /\ Counted(n).fails <= RestartLimit
        BY <1>5, CountedType DEF ScanRestart, Restartable, Looks
      <4> QED BY <4>1 DEF Restarted, Service
    <3> QED BY <1>5, <2>1, <3>1, Names DEF ScanRestart, Restartable, Looks, TypeInv
  <2>3. times' \in [Critical -> Seq(1 .. MaxTime)]
    <3>1. \A m \in Critical : times[m] \in Seq(1 .. MaxTime)
      BY <1>0
    <3>2. now \in 1 .. MaxTime
      BY DEF TypeInv, TypeOK
    <3>3. \A T \in Seq(1 .. MaxTime) : Append(T, now) \in Seq(1 .. MaxTime)
      BY <3>2
    <3>4. Span \in Nat \ {0}
      BY Numbers DEF Span
    <3>5. \A T \in Seq(1 .. MaxTime) : ~(Len(T) < Span) => Append(Tail(T), now) \in Seq(1 .. MaxTime)
      BY <3>2, <3>4
    <3> QED BY <1>5, <3>1, <3>3, <3>5 DEF ScanRestart
  <2>4. todo' \in Seq(Tasks)
    BY <1>5, TodoType DEF ScanRestart, Restartable, Looks
  <2> QED BY <1>5, <2>1, <2>2, <2>3, <2>4 DEF ScanRestart, Fallback, TypeInv, TypeOK, Backends
<1>6. ASSUME NEW n \in Tasks, ScanStartFails(n) PROVE TypeInv'
  <2>1. svc' \in [Tasks -> Service] /\ \A m \in Critical : svc'[m].fails <= RestartLimit
    <3>1. CASE n \notin Critical
      BY <1>6, <3>1 DEF ScanStartFails, Restartable, Looks, TypeInv, TypeOK
    <3>2. CASE n \in Critical
      <4>1. Counted(n) \in Service /\ Counted(n).fails <= RestartLimit
        BY <1>6, <3>2, CountedType DEF ScanStartFails, Restartable, Looks
      <4>2. svc' \in [Tasks -> Service] /\ svc'[n] = Counted(n) /\ \A m \in Tasks \ {n} : svc'[m] = svc[m]
        BY <1>6, <3>2, <4>1, SvcType DEF ScanStartFails
      <4> QED BY <1>6, <4>1, <4>2, Names DEF ScanStartFails, Restartable, Looks, TypeInv
    <3> QED BY <3>1, <3>2
  <2>2. faults' \in 0 .. MaxFaults
    <3>1. faults \in 0 .. MaxFaults
      BY DEF TypeInv, TypeOK
    <3> QED BY <1>6, <3>1, Numbers DEF ScanStartFails, Fault
  <2>3. todo' \in Seq(Tasks)
    BY <1>6, TodoType DEF ScanStartFails, Restartable, Looks
  <2> QED BY <1>6, <2>1, <2>2, <2>3 DEF ScanStartFails, Fallback, TypeInv, TypeOK, Backends
<1>7. CASE Round
  BY <1>7, Names DEF Round, TypeInv, TypeOK
<1>8. CASE Tick
  <2>1. now' \in 1 .. MaxTime
    <3>1. now \in 1 .. MaxTime
      BY DEF TypeInv, TypeOK
    <3> QED BY <1>8, <3>1, Numbers DEF Tick
  <2> QED BY <1>8, <2>1 DEF Tick, TypeInv, TypeOK
<1> QED
  BY <1>1, <1>2, <1>3, <1>4, <1>5, <1>6, <1>7, <1>8, HelloEffect, ReapEffect, ExitEffect
  DEF Next, Supervise

\* GODDESS keeps its types and its limits: no task is restarted once more than it may be,
\* and no failure is counted past the one that ends in operationalfatal.
THEOREM TypeCorrect == Spec => []TypeOK
<1>1. TypeInv => TypeOK
  BY DEF TypeInv
<1> QED BY <1>1, TypeInit, TypeNext, PTL DEF Spec

(* ----------------------------- Restart storms ----------------------------- *)

\* The last r of the restarts T fell in the window that began at w, in which the task
\* failed f times, the earlier ones not after it began; with r = f the window began with a
\* restart.  RestartLimit restarts before the window are enough to span the one before it.
Window(T, w, f, r) ==
    /\ r <= f /\ r <= Len(T)
    /\ \A i \in 1 .. Len(T) - r : T[i] <= w
    /\ \A i \in Len(T) - r + 1 .. Len(T) : T[i] >= w
    /\ r = f => T[Len(T) - r + 1] = w
    /\ Len(T) - r >= RestartLimit => w > T[Len(T) - r - RestartLimit + 1] + RestartWindow

Ordered(T) == \A i, j \in 1 .. Len(T) : i <= j => T[i] <= T[j]
Before(T, t) == \A i \in 1 .. Len(T) : T[i] <= t
Past(T, t) == \A i \in 1 .. Len(T) : t > T[i] + RestartWindow
Spread(T) == Len(T) = Span => T[Span] > T[1] + RestartWindow

\* How the restarts of a critical task relate to its counters.
Restarts(n) ==
    LET T == times[n]  s == svc[n] IN
    /\ Len(T) <= Span /\ Ordered(T) /\ Before(T, s.started) /\ s.started <= now
    /\ s.fails = 0 <=> s.win = 0
    /\ s.win <= now
    /\ s.win = 0 => Past(T, now)
    /\ s.win # 0 => \E r \in 0 .. RestartLimit : Window(T, s.win, s.fails, r)
    /\ Spread(T)

RestartsHold == \A n \in Critical : Restarts(n)

\* The restarts after one more, as ScanRestart keeps them.
Push(T, t) == IF Len(T) < Span THEN Append(T, t) ELSE Append(Tail(T), t)

\* The history keeps twice RestartLimit restarts.
LEMMA SpanIsTwice == Span \in Nat \ {0} /\ Span = RestartLimit + RestartLimit
BY Numbers DEF Span

\* One more restart comes last, and the oldest may be dropped.
LEMMA PushShifts ==
    ASSUME NEW T \in Seq(Nat), NEW t \in Nat, Len(T) <= Span
    PROVE  /\ Push(T, t) \in Seq(Nat)
           /\ Len(Push(T, t)) <= Span
           /\ Push(T, t)[Len(Push(T, t))] = t
           /\ \E d \in {0, 1} : /\ Len(Push(T, t)) = Len(T) + 1 - d
                                /\ d = 1 => Len(T) = Span
                                /\ \A i \in 1 .. Len(T) - d : Push(T, t)[i] = T[i + d]
<1>1. CASE Len(T) < Span
  <2>1. Push(T, t) = Append(T, t)
    BY <1>1 DEF Push
  <2>2. /\ Append(T, t) \in Seq(Nat) /\ Len(Append(T, t)) = Len(T) + 1
        /\ Append(T, t)[Len(T) + 1] = t
        /\ \A i \in 1 .. Len(T) : Append(T, t)[i] = T[i]
    OBVIOUS
  <2>3. /\ Len(Push(T, t)) = Len(T) + 1 - 0
        /\ \A i \in 1 .. Len(T) - 0 : Push(T, t)[i] = T[i + 0]
    BY <2>1, <2>2
  <2> QED BY <1>1, <2>1, <2>2, <2>3, SpanIsTwice
<1>2. CASE Len(T) = Span
  <2> DEFINE R == Tail(T)
  <2>1. Push(T, t) = Append(R, t)
    BY <1>2, SpanIsTwice DEF Push
  <2>2. R \in Seq(Nat) /\ Len(R) = Len(T) - 1 /\ \A i \in 1 .. Len(T) - 1 : R[i] = T[i + 1]
    BY <1>2, SpanIsTwice
  <2> HIDE DEF R
  <2>3. /\ Append(R, t) \in Seq(Nat) /\ Len(Append(R, t)) = Len(R) + 1
        /\ Append(R, t)[Len(R) + 1] = t
        /\ \A i \in 1 .. Len(R) : Append(R, t)[i] = R[i]
    BY <2>2
  <2>4. /\ Len(Push(T, t)) = Len(T) + 1 - 1
        /\ \A i \in 1 .. Len(T) - 1 : Push(T, t)[i] = T[i + 1]
    BY <2>1, <2>2, <2>3
  <2> QED BY <1>2, <2>1, <2>2, <2>3, <2>4, SpanIsTwice
<1> QED BY <1>1, <1>2, SpanIsTwice

\* A restart now keeps the history in order.
LEMMA PushOrdered ==
    ASSUME NEW T \in Seq(Nat), NEW t \in Nat, Len(T) <= Span, Ordered(T), Before(T, t)
    PROVE  Ordered(Push(T, t)) /\ Before(Push(T, t), t)
<1> DEFINE P == Push(T, t)
<1>1. PICK d \in {0, 1} : /\ Len(P) = Len(T) + 1 - d
                          /\ \A i \in 1 .. Len(T) - d : P[i] = T[i + d]
  BY PushShifts
<1>2. P[Len(P)] = t /\ P \in Seq(Nat)
  BY PushShifts
<1> HIDE DEF P
<1>3. \A i \in 1 .. Len(P) : i # Len(P) => i \in 1 .. Len(T) - d /\ i + d \in 1 .. Len(T)
  BY <1>1
<1>4. Before(P, t)
  <2> SUFFICES ASSUME NEW i \in 1 .. Len(P) PROVE P[i] <= t
    BY DEF Before
  <2>1. CASE i = Len(P)
    BY <1>2, <2>1
  <2>2. CASE i # Len(P)
    BY <1>1, <1>3, <2>2 DEF Before
  <2> QED BY <2>1, <2>2
<1>5. Ordered(P)
  <2> SUFFICES ASSUME NEW i \in 1 .. Len(P), NEW j \in 1 .. Len(P), i <= j
               PROVE  P[i] <= P[j]
    BY DEF Ordered
  <2>1. CASE j = Len(P)
    BY <1>2, <1>4, <2>1 DEF Before
  <2>2. CASE j # Len(P)
    <3>1. i # Len(P)
      BY <2>2, <1>2
    <3>2. P[i] = T[i + d] /\ P[j] = T[j + d] /\ i + d \in 1 .. Len(T) /\ j + d \in 1 .. Len(T)
      BY <1>1, <1>3, <2>2, <3>1
    <3>3. i + d <= j + d
      OBVIOUS
    <3> QED BY <3>2, <3>3 DEF Ordered
  <2> QED BY <2>1, <2>2
<1> QED BY <1>4, <1>5 DEF P

\* A failure that opens a window.
LEMMA OpenWindow ==
    ASSUME NEW T \in Seq(Nat), NEW t \in Nat, Before(T, t),
           \/ Past(T, t)
           \/ \E w \in Nat, f \in 0 .. RestartLimit, r \in 0 .. RestartLimit :
                 Window(T, w, f, r) /\ t > w + RestartWindow
    PROVE  Window(T, t, 1, 0)
<1>1. Len(T) >= RestartLimit => t > T[Len(T) - RestartLimit + 1] + RestartWindow
  <2> SUFFICES ASSUME Len(T) >= RestartLimit PROVE t > T[Len(T) - RestartLimit + 1] + RestartWindow
    OBVIOUS
  <2>0. Len(T) - RestartLimit + 1 \in 1 .. Len(T)
    BY Numbers
  <2>1. CASE Past(T, t)
    BY <2>0, <2>1 DEF Past
  <2>2. CASE \E w \in Nat, f \in 0 .. RestartLimit, r \in 0 .. RestartLimit :
                 Window(T, w, f, r) /\ t > w + RestartWindow
    <3>1. PICK w \in Nat, f \in 0 .. RestartLimit, r \in 0 .. RestartLimit :
                 Window(T, w, f, r) /\ t > w + RestartWindow
      BY <2>2
    <3>2. T[Len(T) - RestartLimit + 1] <= w
      <4>1. CASE r = RestartLimit
        <5>1. r = f
          BY <3>1, <4>1, Numbers DEF Window
        <5> QED BY <2>0, <3>1, <4>1, <5>1 DEF Window
      <4>2. CASE r # RestartLimit
        <5>1. Len(T) - RestartLimit + 1 \in 1 .. Len(T) - r
          BY <2>0, <4>2, Numbers
        <5> QED BY <3>1, <5>1 DEF Window
      <4> QED BY <4>1, <4>2
    <3>3. T[Len(T) - RestartLimit + 1] \in Nat
      BY <2>0
    <3> QED BY <3>1, <3>2, <3>3, Numbers
  <2> QED BY <2>1, <2>2
<1> QED BY <1>1 DEF Window, Before

\* A failure that is counted in the window without a restart.
LEMMA MoreFailures ==
    ASSUME NEW T \in Seq(Nat), NEW w \in Nat, NEW f \in Nat, NEW r \in Nat, Window(T, w, f, r)
    PROVE  Window(T, w, f + 1, r)
BY DEF Window

\* A restart in the window: the first one, which opened it, or one more.
LEMMA PushWindow ==
    ASSUME NEW T \in Seq(Nat), NEW t \in Nat, NEW w \in Nat, NEW f \in Nat, NEW g \in Nat,
           NEW r \in 0 .. RestartLimit - 1, Len(T) <= Span, w <= t, Window(T, w, f, r),
           r + 1 <= g,
           r + 1 = g => r = f \/ (r = 0 /\ w = t),
           r = f => r # 0
    PROVE  Window(Push(T, t), w, g, r + 1)
<1> DEFINE P == Push(T, t)
<1>1. PICK d \in {0, 1} : /\ Len(P) = Len(T) + 1 - d
                          /\ d = 1 => Len(T) = Span
                          /\ \A i \in 1 .. Len(T) - d : P[i] = T[i + d]
  BY PushShifts
<1>2. P[Len(P)] = t /\ P \in Seq(Nat)
  BY PushShifts
<1> HIDE DEF P
<1>3. Len(P) - (r + 1) = Len(T) - r - d
  BY <1>1
<1>4. r + 1 <= Len(P)
  <2>1. r <= Len(T)
    BY DEF Window
  <2>2. CASE d = 0
    BY <1>1, <2>1, <2>2
  <2>3. CASE d = 1
    <3>1. Len(P) = Span
      BY <1>1, <2>3, SpanIsTwice
    <3> QED BY <3>1, SpanIsTwice, Numbers
  <2> QED BY <2>2, <2>3
<1>5. \A i \in 1 .. Len(P) - (r + 1) : P[i] <= w
  <2> TAKE i \in 1 .. Len(P) - (r + 1)
  <2>1. i \in 1 .. Len(T) - d /\ i + d \in 1 .. Len(T) - r
    BY <1>3
  <2> QED BY <1>1, <2>1 DEF Window
<1>6. \A i \in Len(P) - (r + 1) + 1 .. Len(P) : P[i] >= w
  <2> TAKE i \in Len(P) - (r + 1) + 1 .. Len(P)
  <2>1. CASE i = Len(P)
    BY <1>2, <2>1
  <2>2. CASE i # Len(P)
    <3>1. i \in 1 .. Len(T) - d /\ i + d \in Len(T) - r + 1 .. Len(T)
      BY <1>1, <1>3, <1>4, <2>2
    <3> QED BY <1>1, <3>1 DEF Window
  <2> QED BY <2>1, <2>2
<1>7. r + 1 = g => P[Len(P) - (r + 1) + 1] = w
  <2> SUFFICES ASSUME r + 1 = g PROVE P[Len(P) - (r + 1) + 1] = w
    OBVIOUS
  <2>1. CASE r = 0 /\ w = t
    <3>1. Len(P) - (r + 1) + 1 = Len(P)
      BY <2>1, <1>2
    <3> QED BY <1>2, <2>1, <3>1
  <2>2. CASE r = f /\ r # 0
    <3>1. Len(P) - (r + 1) + 1 = Len(T) - r + 1 - d
      BY <1>3
    <3>2. Len(T) - r + 1 - d \in 1 .. Len(T) - d
      BY <1>3, <1>4, <2>2
    <3>3. P[Len(T) - r + 1 - d] = T[Len(T) - r + 1 - d + d]
      BY <1>1, <3>2
    <3>4. Len(T) - r + 1 - d + d = Len(T) - r + 1
      OBVIOUS
    <3> QED BY <2>2, <3>1, <3>3, <3>4 DEF Window
  <2> QED BY <2>1, <2>2
<1>8. Len(P) - (r + 1) >= RestartLimit
      => w > P[Len(P) - (r + 1) - RestartLimit + 1] + RestartWindow
  <2> SUFFICES ASSUME Len(P) - (r + 1) >= RestartLimit
               PROVE  w > P[Len(P) - (r + 1) - RestartLimit + 1] + RestartWindow
    OBVIOUS
  <2> DEFINE k == Len(T) - r - RestartLimit + 1
  <2>1. Len(P) - (r + 1) - RestartLimit + 1 = k - d /\ k - d \in 1 .. Len(T) - d /\ k - d + d = k
    BY <1>3, Numbers
  <2>2. P[k - d] = T[k]
    BY <1>1, <2>1
  <2>3. Len(T) - r >= RestartLimit
    BY <1>3, Numbers
  <2> QED BY <2>1, <2>2, <2>3 DEF Window
<1> QED BY <1>4, <1>5, <1>6, <1>7, <1>8 DEF Window, P

\* With a restart in the window, twice RestartLimit restarts are spread out.
LEMMA WindowSpreads ==
    ASSUME NEW P \in Seq(Nat), NEW w \in Nat, NEW f \in Nat, NEW r \in 1 .. RestartLimit,
           Ordered(P), Window(P, w, f, r)
    PROVE  Spread(P)
<1> SUFFICES ASSUME Len(P) = Span PROVE P[Span] > P[1] + RestartWindow
  BY DEF Spread
<1> DEFINE k == Len(P) - r - RestartLimit + 1
<1>1. k \in 1 .. Len(P) /\ 1 \in 1 .. Len(P) /\ Len(P) - r >= RestartLimit /\ 1 <= k
  BY SpanIsTwice, Numbers
<1>2. P[1] <= P[k]
  BY <1>1 DEF Ordered
<1>3. w > P[k] + RestartWindow
  BY <1>1 DEF Window
<1>4. Span \in Len(P) - r + 1 .. Len(P)
  BY SpanIsTwice
<1>5. P[Span] >= w
  BY <1>4 DEF Window
<1>6. P[Span] \in Nat /\ P[1] \in Nat /\ P[k] \in Nat
  BY <1>1, SpanIsTwice
<1> HIDE DEF k
<1> QED BY <1>2, <1>3, <1>5, <1>6, Numbers

(* The steps, for a critical task. *)

\* The counters of a critical service are numbers.
LEMMA CountFields ==
    ASSUME TypeInv, NEW n \in Critical
    PROVE  /\ times[n] \in Seq(Nat) /\ now \in Nat /\ now # 0
           /\ svc[n].fails \in Nat /\ svc[n].win \in Nat /\ svc[n].started \in Nat
<1>1. n \in Tasks
  BY Names
<1>2. times[n] \in Seq(1 .. MaxTime)
  BY DEF TypeInv, TypeOK
<1>3. times[n] \in Seq(Nat)
  BY <1>2, Numbers
<1> QED BY <1>1, <1>3, Fields, Numbers

\* Counting a failure keeps the window, or opens one.
LEMMA CountedWindow ==
    ASSUME TypeInv, NEW n \in Critical, Restarts(n), pc # "fatal"
    PROVE  /\ Counted(n).started = svc[n].started
           /\ Counted(n).fails \in Nat \ {0} /\ Counted(n).win \in Nat \ {0} /\ Counted(n).win <= now
           /\ \/ /\ Counted(n).win = now /\ Counted(n).fails = 1
                 /\ Window(times[n], now, 1, 0)
              \/ /\ Counted(n).win = svc[n].win /\ Counted(n).fails = svc[n].fails + 1
                 /\ svc[n].fails # 0
                 /\ \E r \in 0 .. RestartLimit : Window(times[n], svc[n].win, svc[n].fails, r)
<1> DEFINE T == times[n]  s == svc[n]  fresh == s.win = 0 \/ now > s.win + RestartWindow
<1>0. n \in Tasks
  BY Names
<1>1. T \in Seq(Nat) /\ now \in Nat /\ now # 0 /\ s.fails \in Nat /\ s.win \in Nat /\ s.started \in Nat
  BY CountFields
<1>2. s \in Service
  BY <1>0, Fields
<1>3. s.fails \in 0 .. RestartLimit
  BY <1>1, Numbers DEF TypeInv
<1>4. Before(T, now)
  <2>1. Before(T, s.started) /\ s.started <= now
    BY DEF Restarts
  <2>2. \A i \in 1 .. Len(T) : T[i] \in Nat
    BY <1>1
  <2> HIDE DEF T, s
  <2> QED BY <1>1, <2>1, <2>2 DEF Before
<1>5. CASE fresh
  <2>1. Counted(n).win = now /\ Counted(n).fails = 1 /\ Counted(n).started = s.started
    BY <1>2, <1>5 DEF Counted, Service
  <2>2. Past(T, now) \/ \E w \in Nat, f \in 0 .. RestartLimit, r \in 0 .. RestartLimit :
                           Window(T, w, f, r) /\ now > w + RestartWindow
    BY <1>1, <1>3, <1>5 DEF Restarts
  <2>3. Window(T, now, 1, 0)
    BY <1>1, <1>4, <2>2, OpenWindow
  <2> QED BY <1>1, <2>1, <2>3
<1>6. CASE ~fresh
  <2>1. Counted(n).win = s.win /\ Counted(n).fails = s.fails + 1 /\ Counted(n).started = s.started
    BY <1>2, <1>6 DEF Counted, Service
  <2>2. s.win # 0 /\ s.fails # 0 /\ s.win <= now
        /\ \E r \in 0 .. RestartLimit : Window(T, s.win, s.fails, r)
    BY <1>6 DEF Restarts
  <2> QED BY <1>1, <2>1, <2>2
<1> QED BY <1>5, <1>6

\* A failure that is counted without a restart.
LEMMA FailureCounted ==
    ASSUME TypeInv, NEW n \in Critical, Restarts(n), pc # "fatal",
           svc'[n] = Counted(n), UNCHANGED <<times, now>>
    PROVE  Restarts(n)'
<1> DEFINE T == times[n]  c == Counted(n)
<1>0. T \in Seq(Nat) /\ svc[n].fails \in Nat /\ svc[n].win \in Nat
  BY CountFields
<1>1. /\ c.started = svc[n].started /\ c.fails # 0 /\ c.win # 0 /\ c.win <= now
  BY CountedWindow
<1>2. \E r \in 0 .. RestartLimit : Window(T, c.win, c.fails, r)
  <2>1. CASE c.win = now /\ c.fails = 1 /\ Window(times[n], now, 1, 0)
    BY <2>1, Numbers
  <2>2. CASE /\ c.win = svc[n].win /\ c.fails = svc[n].fails + 1
             /\ \E r \in 0 .. RestartLimit : Window(times[n], svc[n].win, svc[n].fails, r)
    <3>1. PICK r \in 0 .. RestartLimit : Window(T, svc[n].win, svc[n].fails, r)
      BY <2>2
    <3>2. Window(T, svc[n].win, svc[n].fails + 1, r)
      BY <1>0, <3>1, MoreFailures, Numbers
    <3> QED BY <2>2, <3>2
  <2> QED BY <2>1, <2>2, CountedWindow
<1> HIDE DEF c
<1>3. svc'[n] = c /\ times'[n] = T /\ now' = now
  BY DEF c
<1> QED BY <1>1, <1>2, <1>3 DEF Restarts

\* A restart.
LEMMA FailureRestarted ==
    ASSUME TypeInv, NEW n \in Critical, Restarts(n), pc # "fatal",
           Counted(n).fails <= RestartLimit, svc'[n] = Restarted(n), now' = now,
           times'[n] = Push(times[n], now)
    PROVE  Restarts(n)'
<1> DEFINE T == times[n]  P == Push(T, now)  c == Counted(n)
<1>0. T \in Seq(Nat) /\ svc[n].fails \in Nat /\ svc[n].win \in Nat /\ now \in Nat
  BY CountFields
<1>1. /\ c.started = svc[n].started /\ c.fails \in Nat \ {0} /\ c.win \in Nat \ {0} /\ c.win <= now
  BY CountedWindow
<1>2. Len(T) <= Span /\ Ordered(T) /\ Before(T, svc[n].started) /\ svc[n].started <= now
  BY DEF Restarts
<1>3. Before(T, now)
  <2>1. svc[n].started \in Nat /\ \A i \in 1 .. Len(T) : T[i] \in Nat
    BY <1>0, CountFields
  <2> HIDE DEF T
  <2> QED BY <1>0, <1>2, <2>1 DEF Before
<1>4. P \in Seq(Nat) /\ Len(P) <= Span /\ Ordered(P) /\ Before(P, now)
  BY <1>0, <1>2, <1>3, PushShifts, PushOrdered
<1>5. \E r \in 1 .. RestartLimit : Window(P, c.win, c.fails, r)
  <2>1. CASE c.win = now /\ c.fails = 1 /\ Window(T, now, 1, 0)
    <3>1. Window(P, now, 1, 0 + 1)
      BY <1>0, <1>2, <2>1, PushWindow, Numbers
    <3> QED BY <2>1, <3>1, Numbers
  <2>2. CASE /\ c.win = svc[n].win /\ c.fails = svc[n].fails + 1 /\ svc[n].fails # 0
             /\ \E r \in 0 .. RestartLimit : Window(T, svc[n].win, svc[n].fails, r)
    <3>1. PICK r \in 0 .. RestartLimit : Window(T, svc[n].win, svc[n].fails, r)
      BY <2>2
    <3>2. r <= svc[n].fails
      BY <3>1 DEF Window
    <3>3. r \in 0 .. RestartLimit - 1
      BY <1>0, <2>2, <3>2, Numbers
    <3>4. r + 1 <= svc[n].fails + 1 /\ (r + 1 = svc[n].fails + 1 => r = svc[n].fails)
      BY <1>0, <3>2, <3>3, Numbers
    <3>5. svc[n].win <= now /\ (r = svc[n].fails => r # 0)
      BY <1>1, <2>2
    <3>6. svc[n].fails + 1 \in Nat
      BY <1>0
    <3>7. Window(P, svc[n].win, svc[n].fails + 1, r + 1)
      BY <1>0, <1>2, <3>1, <3>3, <3>4, <3>5, <3>6, PushWindow
    <3>8. r + 1 \in 1 .. RestartLimit
      BY <3>3, Numbers
    <3> QED BY <2>2, <3>7, <3>8
  <2> QED BY <2>1, <2>2, CountedWindow
<1>6. Spread(P)
  BY <1>1, <1>4, <1>5, WindowSpreads
<1>7. n \in Tasks /\ c \in Service
  BY Names, CountedType
<1>8. Restarted(n).started = now /\ Restarted(n).fails = c.fails /\ Restarted(n).win = c.win
  BY <1>7 DEF Restarted, Service
<1>9. \E r \in 0 .. RestartLimit : Window(P, c.win, c.fails, r)
  BY <1>5
<1>10. svc'[n].started = now /\ svc'[n].fails = c.fails /\ svc'[n].win = c.win /\ times'[n] = P
  BY <1>8
<1> HIDE DEF c, P
<1> QED BY <1>0, <1>1, <1>4, <1>6, <1>9, <1>10 DEF Restarts

\* A step that leaves the counters alone, when time may pass.
LEMMA CountsKept ==
    ASSUME TypeInv, RestartsHold, SameCounts, UNCHANGED times,
           now' = now \/ (now' = now + 1)
    PROVE  RestartsHold'
<1> SUFFICES ASSUME NEW n \in Critical PROVE Restarts(n)'
  BY DEF RestartsHold
<1> DEFINE T == times[n]  s == svc[n]
<1>1. Restarts(n)
  BY DEF RestartsHold
<1>2. T \in Seq(Nat) /\ now \in Nat /\ s.win \in Nat /\ s.started \in Nat
  BY CountFields
<1>3. svc'[n].fails = s.fails /\ svc'[n].win = s.win /\ svc'[n].started = s.started
  BY DEF SameCounts
<1>4. s.started <= now' /\ s.win <= now'
  BY <1>1, <1>2 DEF Restarts
<1>5. s.win = 0 => Past(T, now')
  <2>1. \A i \in 1 .. Len(T) : T[i] \in Nat
    BY <1>2
  <2>2. s.win = 0 => Past(T, now)
    BY <1>1 DEF Restarts
  <2> HIDE DEF T, s
  <2> QED BY <1>2, <2>1, <2>2, Numbers DEF Past
<1> QED BY <1>1, <1>3, <1>4, <1>5 DEF Restarts

\* No restarts at first.
LEMMA StormInit == Init => RestartsHold
<1> SUFFICES ASSUME Init, NEW n \in Critical PROVE Restarts(n)
  BY DEF RestartsHold
<1>1. times[n] = <<>> /\ Len(times[n]) = 0
  BY DEF Init
<1>2. svc[n].fails = 0 /\ svc[n].win = 0 /\ svc[n].started = 1 /\ now = 1
  BY Names DEF Init
<1>3. Len(times[n]) <= Span /\ Len(times[n]) # Span
  BY <1>1, SpanIsTwice
<1>4. Ordered(times[n]) /\ Before(times[n], 1) /\ Past(times[n], 1)
  BY <1>1 DEF Ordered, Before, Past
<1> QED BY <1>2, <1>3, <1>4 DEF Restarts, Spread

\* The invariant on the history of restarts is inductive.
LEMMA StormNext == TypeInv /\ TypeInv' /\ RestartsHold /\ [Next]_vars => RestartsHold'
<1> SUFFICES ASSUME TypeInv, TypeInv', RestartsHold, [Next]_vars PROVE RestartsHold'
  OBVIOUS
<1>0. svc \in [Tasks -> Service] /\ times \in [Critical -> Seq(1 .. MaxTime)]
  BY DEF TypeInv, TypeOK
<1>1. CASE UNCHANGED vars
  BY <1>1, CountsKept DEF vars, SameCounts
<1>2. ASSUME NEW n \in Tasks, ScanUp(n) PROVE RestartsHold'
  <2>1. CASE svc' = svc
    BY <1>2, <2>1, CountsKept DEF ScanUp, SameCounts
  <2>2. CASE svc' # svc
    <3>1. n \in Critical /\ now >= svc[n].started + HealthyReset
          /\ svc' = [svc EXCEPT ![n].fails = 0, ![n].win = 0] /\ times' = times /\ now' = now
      BY <1>2, <2>2 DEF ScanUp
    <3>2. svc[n] \in Service
      BY <1>0
    <3>3. /\ svc'[n].fails = 0 /\ svc'[n].win = 0 /\ svc'[n].started = svc[n].started
          /\ \A m \in Tasks \ {n} : svc'[m] = svc[m]
      BY <1>0, <3>1, <3>2 DEF Service
    <3>4. Past(times[n], now)
      <4>1. Before(times[n], svc[n].started)
        BY <3>1 DEF RestartsHold, Restarts
      <4>2. times[n] \in Seq(Nat) /\ svc[n].started \in Nat /\ now \in Nat
        BY <3>1, CountFields
      <4>3. \A i \in 1 .. Len(times[n]) : times[n][i] \in Nat
        BY <4>2
      <4> SUFFICES ASSUME NEW i \in 1 .. Len(times[n]) PROVE now > times[n][i] + RestartWindow
        BY DEF Past
      <4>4. times[n][i] <= svc[n].started /\ times[n][i] \in Nat
        BY <4>1, <4>3 DEF Before
      <4>5. now >= svc[n].started + HealthyReset
        BY <3>1
      <4> QED BY <4>2, <4>4, <4>5, Numbers
    <3>5. now >= 0
      BY <3>1, CountFields
    <3>6. Restarts(n)'
      BY <3>1, <3>3, <3>4, <3>5 DEF RestartsHold, Restarts
    <3>7. \A m \in Critical \ {n} : Restarts(m)'
      BY <3>1, <3>3, Names DEF RestartsHold, Restarts
    <3> QED BY <3>6, <3>7 DEF RestartsHold
  <2> QED BY <2>1, <2>2
<1>3. ASSUME NEW n \in Tasks, n \in Critical, pc # "fatal", svc' = [svc EXCEPT ![n] = Counted(n)],
             UNCHANGED <<times, now>>
      PROVE  RestartsHold'
  <2>1. svc'[n] = Counted(n) /\ \A m \in Tasks \ {n} : svc'[m] = svc[m]
    BY <1>0, <1>3
  <2>2. Restarts(n)'
    BY <1>3, <2>1, FailureCounted DEF RestartsHold
  <2>3. \A m \in Critical \ {n} : Restarts(m)'
    BY <1>3, <2>1, Names DEF RestartsHold, Restarts
  <2> QED BY <2>2, <2>3 DEF RestartsHold
<1>4. ASSUME NEW n \in Tasks, ScanFatal(n) PROVE RestartsHold'
  BY <1>3, <1>4 DEF ScanFatal, Looks
<1>5. ASSUME NEW n \in Tasks, ScanSkip(n) PROVE RestartsHold'
  BY <1>5, CountsKept DEF ScanSkip, SameCounts
<1>6. ASSUME NEW n \in Tasks, ScanRestart(n) PROVE RestartsHold'
  <2>1. pc # "fatal" /\ now' = now /\ (n \in Critical => Counted(n).fails <= RestartLimit)
    BY <1>6 DEF ScanRestart, Restartable, Looks
  <2>2. svc'[n] = Restarted(n) /\ \A m \in Tasks \ {n} : svc'[m] = svc[m]
    BY <1>0, <1>6 DEF ScanRestart
  <2>3. /\ \A m \in Critical \ {n} : times'[m] = times[m]
        /\ n \in Critical => times'[n] = Push(times[n], now)
    BY <1>6 DEF ScanRestart, Push
  <2>4. \A m \in Critical \ {n} : Restarts(m)'
    BY <2>1, <2>2, <2>3, Names DEF RestartsHold, Restarts
  <2>5. n \in Critical => Restarts(n)'
    BY <2>1, <2>2, <2>3, FailureRestarted DEF RestartsHold
  <2> QED BY <2>4, <2>5 DEF RestartsHold
<1>7. ASSUME NEW n \in Tasks, ScanStartFails(n) PROVE RestartsHold'
  <2>1. CASE n \in Critical
    BY <1>3, <1>7, <2>1 DEF ScanStartFails, Restartable, Looks
  <2>2. CASE n \notin Critical
    BY <1>7, <2>2, CountsKept DEF ScanStartFails, SameCounts
  <2> QED BY <2>1, <2>2
<1>8. ASSUME NEW answers \in BOOLEAN, Hello(answers) PROVE RestartsHold'
  BY <1>8, HelloEffect, CountsKept DEF Hello
<1>9. CASE Reap
  BY <1>9, ReapEffect, CountsKept DEF Reap
<1>10. CASE Round
  BY <1>10, CountsKept DEF Round, SameCounts
<1>11. ASSUME NEW n \in Tasks, NEW graphics \in BOOLEAN, Exit(n, graphics) PROVE RestartsHold'
  BY <1>11, ExitEffect, CountsKept DEF Exit
<1>12. CASE Tick
  BY <1>12, CountsKept DEF Tick, SameCounts
<1> QED
  BY <1>1, <1>2, <1>4, <1>5, <1>6, <1>7, <1>8, <1>9, <1>10, <1>11, <1>12 DEF Next, Supervise

\* However its services fail and whenever their starts fail, GODDESS never restarts a
\* critical one 2 * RestartLimit times within RestartWindow.
THEOREM StormSafe == Spec => []NoRestartStorm
<1>1. RestartsHold => NoRestartStorm
  BY DEF RestartsHold, Restarts, Spread, NoRestartStorm
<1> QED BY <1>1, TypeInit, TypeNext, StormInit, StormNext, PTL DEF Spec
=============================================================================
