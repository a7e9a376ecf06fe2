--------------------------- MODULE GoddessSupervise ---------------------------
(* supervise, the loop of GODDESS as PID 1 of a running desktop               *)
(* (source/build software/GODDESS/GODDESS.py): it restarts the services of    *)
(* TASKS and gives up on a critical one that keeps failing.                   *)
(*                                                                            *)
(* GODDESS is one thread; its steps interleave with the ends of services and  *)
(* with the clock.  What it does with power requests at the end of a round    *)
(* and after giving up is GoddessPower's; logs and the Operations snapshot    *)
(* (see OperationsRegistry) are left out.                                     *)
EXTENDS Naturals, Sequences, FiniteSets

CONSTANTS Order,      \* names in TASKS, in the order they were started
          Critical,   \* OPERATIONALCRITICALTASKS
          Limited,    \* tasks with a restart_limit: media
          WS, EX,     \* window server, expanse
          RestartLimit,      \* OPERATIONALRESTARTLIMIT
          RestartWindow,     \* OPERATIONALRESTARTWINDOW
          HealthyReset,      \* OPERATIONALHEALTHYRESET
          MediaLimit,        \* restart_limit
          MediaDelay,        \* restart_delay
          MaxTime,    \* bound: the clock
          MaxFaults   \* bound: starts that fail

Tasks == {Order[i] : i \in DOMAIN Order}

ASSUME SuperviseAssumption ==
    /\ Order \in Seq(Tasks)
    /\ Critical \subseteq Tasks /\ Limited \subseteq Tasks \ Critical
    /\ WS \in Critical /\ EX \in Critical /\ WS # EX
    /\ RestartLimit \in Nat \ {0} /\ RestartWindow \in Nat
    /\ HealthyReset \in Nat /\ HealthyReset > RestartWindow
    /\ MediaLimit \in Nat /\ MediaDelay \in Nat
    /\ MaxTime \in Nat \ {0} /\ MaxFaults \in Nat

VARIABLES
    svc,       \* task -> whether its process is there, its exit status and its counters
    backend,   \* graphics_backend of the window server
    pc,        \* where GODDESS is: "fatal" in operationalfatal, which never returns
    todo,      \* the tasks its round has yet to look at
    now, faults,
    times      \* history: critical task -> times of its last restarts

vars == <<svc, backend, pc, todo, now, faults, times>>

Backends == {"opengl", "kms-framebuffer", "framebuffer"}
Service == [up : BOOLEAN,
            graphics : BOOLEAN,   \* its exit status blames the graphics: 70, 71 or 72
            fails : 0 .. RestartLimit + 1, win : 0 .. MaxTime, started : 0 .. MaxTime,
            tries : 0 .. MediaLimit, after : 0 .. MaxTime + MediaDelay]
Span == 2 * RestartLimit

\* GODDESS keeps these types and stays within its limits.
TypeOK ==
    /\ svc \in [Tasks -> Service]
    /\ backend \in Backends
    /\ pc \in {"scan", "hello", "poll", "fatal"}
    /\ todo \in Seq(Tasks)
    /\ now \in 1 .. MaxTime /\ faults \in 0 .. MaxFaults
    /\ times \in [Critical -> Seq(1 .. MaxTime)]

Init ==
    /\ svc = [n \in Tasks |-> [up |-> TRUE, graphics |-> FALSE, fails |-> 0, win |-> 0,
                               started |-> IF n \in Critical THEN 1 ELSE 0,
                               tries |-> 0, after |-> 0]]
    /\ backend = "opengl"
    /\ pc = "scan" /\ todo = Order
    /\ now = 1 /\ faults = 0
    /\ times = [n \in Critical |-> <<>>]

Fault == faults < MaxFaults /\ faults' = faults + 1
Down(n, graphics) == [svc EXCEPT ![n].up = FALSE, ![n].graphics = graphics]
Looks(n) == pc = "scan" /\ todo # <<>> /\ n = Head(todo)

(* ------------------------------- supervise ------------------------------- *)

\* Mutant: every failure opens a window of its own.
CountedAlone(n) == [svc[n] EXCEPT !.win = now, !.fails = 1]

\* The count of a critical task that is found dead: a new window when the last one is over.
Counted(n) ==
    LET s == svc[n]  fresh == s.win = 0 \/ now > s.win + RestartWindow IN
    [s EXCEPT !.win = IF fresh THEN now ELSE @, !.fails = IF fresh THEN 1 ELSE @ + 1]

\* A task that runs: after HealthyReset its failures are forgotten.
ScanUp(n) ==
    /\ Looks(n) /\ svc[n].up
    /\ todo' = Tail(todo)
    /\ svc' = IF n \in Critical /\ svc[n].fails > 0 /\ now >= svc[n].started + HealthyReset
                THEN [svc EXCEPT ![n].fails = 0, ![n].win = 0] ELSE svc
    /\ UNCHANGED <<backend, pc, now, faults, times>>

\* Mutant: a critical task that failed too often is left alone.
ScanGivesUp(n) ==
    /\ Looks(n) /\ n \in Critical /\ ~svc[n].up
    /\ Counted(n).fails > RestartLimit
    /\ todo' = Tail(todo)
    /\ UNCHANGED <<svc, backend, pc, now, faults, times>>

\* A dead critical task that failed too often: operationalfatal, which never returns.
ScanFatal(n) ==
    /\ Looks(n) /\ n \in Critical /\ ~svc[n].up
    /\ Counted(n).fails > RestartLimit
    /\ svc' = [svc EXCEPT ![n] = Counted(n)]
    /\ pc' = "fatal" /\ todo' = <<>>
    /\ UNCHANGED <<backend, now, faults, times>>

\* A dead task that is not restarted now: its limit is reached, or its delay not over.
ScanSkip(n) ==
    /\ Looks(n) /\ n \in Limited /\ ~svc[n].up
    /\ svc[n].tries >= MediaLimit \/ now < svc[n].after
    /\ todo' = Tail(todo)
    /\ UNCHANGED <<svc, backend, pc, now, faults, times>>

\* Mutant: the limit of restarts is off by one.
RestartableOnceMore(n) ==
    /\ Looks(n) /\ ~svc[n].up
    /\ n \in Critical => Counted(n).fails <= RestartLimit
    /\ n \in Limited => svc[n].tries <= MediaLimit /\ now >= svc[n].after

Restarted(n) ==
    LET s == IF n \in Critical THEN Counted(n) ELSE svc[n] IN
    [s EXCEPT !.up = TRUE, !.graphics = FALSE,
              !.started = IF n \in Critical THEN now ELSE @,
              !.tries = IF n \in Limited THEN @ + 1 ELSE @,
              !.after = IF n \in Limited THEN now + MediaDelay ELSE @]

Fallback == CASE backend = "opengl" -> "kms-framebuffer" [] OTHER -> "framebuffer"

Restartable(n) ==
    /\ Looks(n) /\ ~svc[n].up
    /\ n \in Critical => Counted(n).fails <= RestartLimit
    /\ n \in Limited => svc[n].tries < MediaLimit /\ now >= svc[n].after

\* A dead task is started again; a window server whose status says that its graphics
\* failed gets the next backend, and GODDESS waits for its answer.
ScanRestart(n) ==
    /\ Restartable(n)
    /\ svc' = [svc EXCEPT ![n] = Restarted(n)]
    /\ times' = [m \in Critical |->
          IF m # n THEN times[m]
          ELSE IF Len(times[n]) < Span THEN Append(times[n], now)
          ELSE Append(Tail(times[n]), now)]
    /\ backend' = IF n = WS /\ svc[n].graphics THEN Fallback ELSE backend
    /\ todo' = Tail(todo)
    /\ pc' = IF n = WS THEN "hello" ELSE "scan"
    /\ UNCHANGED <<now, faults>>

\* popenisolated fails: the round goes on, the failure is counted.
ScanStartFails(n) ==
    /\ Restartable(n) /\ Fault
    /\ svc' = IF n \in Critical THEN [svc EXCEPT ![n] = Counted(n)] ELSE svc
    /\ backend' = IF n = WS /\ svc[n].graphics THEN Fallback ELSE backend
    /\ todo' = Tail(todo)
    /\ UNCHANGED <<pc, now, times>>

\* The restarted window server answers, and expanse is terminated to start anew with it;
\* or it does not answer in time, and is terminated itself.
Hello(answers) ==
    /\ pc = "hello"
    /\ answers => svc[WS].up
    /\ LET n == IF answers THEN EX ELSE WS IN
       svc' = IF svc[n].up THEN Down(n, FALSE) ELSE svc
    /\ pc' = "scan"
    /\ UNCHANGED <<backend, todo, now, faults, times>>

\* sigchldhandler collects every zombie, also a task that ended since its poll(), whose
\* status is then lost: poll() will say 0.
Reap ==
    /\ pc = "scan" /\ todo = <<>>
    /\ svc' = [n \in Tasks |-> [svc[n] EXCEPT !.graphics = FALSE]]
    /\ pc' = "poll"
    /\ UNCHANGED <<backend, todo, now, faults, times>>

\* The rest of the round: syncoperations, pollpowerrequest.
Round ==
    /\ pc = "poll"
    /\ pc' = "scan" /\ todo' = Order
    /\ UNCHANGED <<svc, backend, now, faults, times>>

\* A service ends, the window server perhaps with a status that blames its graphics.
Exit(n, graphics) ==
    /\ svc[n].up /\ pc # "fatal"
    /\ graphics => n = WS
    /\ svc' = Down(n, graphics)
    /\ UNCHANGED <<backend, pc, todo, now, faults, times>>

Tick ==
    /\ now < MaxTime /\ now' = now + 1 /\ pc # "fatal"
    /\ UNCHANGED <<svc, backend, pc, todo, faults, times>>

Supervise ==
    \/ \E n \in Tasks : ScanUp(n) \/ ScanFatal(n) \/ ScanSkip(n) \/ ScanRestart(n)
    \/ \E answers \in BOOLEAN : Hello(answers)
    \/ Reap \/ Round

Next ==
    \/ Supervise
    \/ \E n \in Tasks : ScanStartFails(n)
    \/ \E n \in Tasks, graphics \in BOOLEAN : Exit(n, graphics)
    \/ Tick

\* GODDESS runs on, and time passes.
Fairness == WF_vars(Supervise) /\ WF_vars(Tick)

Spec == Init /\ [][Next]_vars
FairSpec == Spec /\ Fairness

(* ------------------------------- Properties ------------------------------- *)

\* A critical service that keeps failing does not keep the machine restarting it: any
\* 2 * RestartLimit restarts in a row take longer than the window.
NoRestartStorm ==
    \A n \in Critical : Len(times[n]) = Span => times[n][Span] > times[n][1] + RestartWindow

\* When a critical service is down, all of them are up again at some time, or GODDESS
\* gives up and restarts the machine.
DesktopComesBack ==
    (\E n \in Critical : ~svc[n].up) ~> ((\A n \in Critical : svc[n].up) \/ pc = "fatal")
=============================================================================
