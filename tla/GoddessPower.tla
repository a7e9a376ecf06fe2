----------------------------- MODULE GoddessPower -----------------------------
(* The end of a running desktop (source/build software/GODDESS/GODDESS.py):   *)
(* the power requests GODDESS takes between two rounds of supervise, and      *)
(* shutdownsequence, which stops everything, arms the shutdown health gate    *)
(* and hands over to the kernel; with the clients of the power socket         *)
(* (operations.py), which wait a bounded time.                                *)
(*                                                                            *)
(* A round of supervise is one step: any service may have ended or been       *)
(* restarted, or it gives up (GoddessSupervise).  Peers that are not          *)
(* authorised and malformed requests, which change nothing, animations and    *)
(* logs are left out.  processdescendants sees the process tree of one moment.*)
EXTENDS Naturals, FiniteSets

CONSTANTS Tasks,      \* names in TASKS
          WS, EX, DS, \* window server, expanse, driver server
          Strays,     \* processes that others started: not in TASKS
          Clients,    \* calls of requestpower
          POWERHANDOFF,      \* "direct" or "roothealth"
          MaxFaults   \* bound: calls that fail

ASSUME PowerAssumption ==
    /\ {WS, EX, DS} \subseteq Tasks /\ WS # EX /\ WS # DS /\ EX # DS
    /\ Strays \cap Tasks = {}
    /\ POWERHANDOFF \in {"direct", "roothealth"}
    /\ MaxFaults \in Nat

Procs == Tasks \cup Strays

VARIABLES
    alive,     \* which of these are there
    targets,   \* what the stage under way listed and signals
    listed,    \* whether it has
    pc,        \* where GODDESS is
    SYSTEMSTATE,
    action,    \* the action shutdownsequence was called with
    client,    \* client -> its request and what became of it
    armed,     \* a recovery request is on the boot partition
    gate,      \* action of the shutdown health request, "none" without one
    kernel,    \* what the kernel was asked for, "none" before
    left,      \* those that outlived SIGKILL
    late,      \* history: those started after stopstragglers listed what it stops
    faults

stopping == <<targets, listed, left, late>>
vars == <<alive, stopping, pc, SYSTEMSTATE, action, client, armed, gate, kernel, faults>>

Actions == {"restart", "poweroff"}
Stages == {"session", "services", "storage", "stragglers", "display", "handoff", "kernel"}
Stopping == {"fatal", "stop"} \cup Stages \cup {"off", "idle"}
Request == [state : {"none", "sent", "gone", "ok", "refused", "failed"}, action : Actions,
            recovery : BOOLEAN]

\* GODDESS and its clients keep these types.
TypeOK ==
    /\ alive \subseteq Procs /\ targets \subseteq Procs /\ left \subseteq Procs
    /\ late \subseteq Strays /\ listed \in {"no", "yes"}
    /\ pc \in {"scan", "poll"} \cup Stopping
    /\ SYSTEMSTATE \in {"running", "request accepted", "stopping", "kernel handoff",
                        "kernel handoff failed"}
    /\ action \in Actions \cup {"none"}
    /\ client \in [Clients -> Request]
    /\ armed \in BOOLEAN
    /\ gate \in Actions \cup {"none"} /\ kernel \in Actions \cup {"none"}
    /\ faults \in 0 .. MaxFaults

Init ==
    /\ alive = Tasks /\ targets = {} /\ listed = "no" /\ left = {} /\ late = {}
    /\ pc = "scan"
    /\ SYSTEMSTATE = "running" /\ action = "none"
    /\ client = [c \in Clients |-> [state |-> "none", action |-> "restart", recovery |-> FALSE]]
    /\ armed = FALSE /\ gate = "none" /\ kernel = "none"
    /\ faults = 0

Fault == faults < MaxFaults /\ faults' = faults + 1

\* A round of supervise, which may end in operationalfatal.
Round(now) ==
    /\ pc = "scan"
    /\ alive' = now
    /\ pc' \in {"poll", "fatal"}
    /\ UNCHANGED <<SYSTEMSTATE, action, client, armed, gate, kernel, stopping, faults>>

(* ----------------------------- Power requests ----------------------------- *)

Pending == {c \in Clients : client[c].state \in {"sent", "gone"}}
Answer(c, s) ==
    client' = [client EXCEPT ![c].state = IF @ = "sent" THEN s ELSE "failed"]

\* pollpowerrequest: no request within SUPERVISERATE.
NoRequest ==
    /\ pc = "poll" /\ Pending = {}
    /\ pc' = "scan"
    /\ UNCHANGED <<alive, SYSTEMSTATE, action, client, armed, gate, kernel, stopping, faults>>

\* receivepowerrequest while SYSTEMSTATE is not running.
Refuse(c) ==
    /\ pc = "poll" /\ c \in Pending
    /\ SYSTEMSTATE # "running"
    /\ Answer(c, "refused")
    /\ pc' = "scan"
    /\ UNCHANGED <<alive, SYSTEMSTATE, action, armed, gate, kernel, stopping, faults>>

\* The recovery request cannot be recorded.
ArmFails(c) ==
    /\ pc = "poll" /\ c \in Pending
    /\ SYSTEMSTATE = "running" /\ client[c].recovery
    /\ Fault
    /\ Answer(c, "failed")
    /\ armed' \in {armed, TRUE}
    /\ pc' = "scan"
    /\ UNCHANGED <<alive, SYSTEMSTATE, action, gate, kernel, stopping>>

\* The request is accepted and answered.
Accept(c) ==
    /\ pc = "poll" /\ c \in Pending
    /\ SYSTEMSTATE = "running" /\ client[c].state = "sent"
    /\ SYSTEMSTATE' = "request accepted"
    /\ armed' = (armed \/ client[c].recovery)
    /\ Answer(c, "ok")
    /\ pc' = "stop" /\ action' = client[c].action
    /\ UNCHANGED <<alive, gate, kernel, stopping, faults>>

\* The request is accepted, and the answer fails because the client gave up: the exception
\* ends in pollpowerrequest, which returns no action.
AcceptUnanswered(c) ==
    /\ pc = "poll" /\ c \in Pending
    /\ SYSTEMSTATE = "running" /\ client[c].state = "gone"
    /\ SYSTEMSTATE' = "request accepted"
    /\ armed' = (armed \/ client[c].recovery)
    /\ Answer(c, "failed")
    /\ pc' = "scan"
    /\ UNCHANGED <<alive, action, gate, kernel, stopping, faults>>

(* -------------------------------- Shutdown -------------------------------- *)

\* operationalfatal: a window server for the message, if one will start, then
\* shutdownsequence('restart').
Fatal(shows) ==
    /\ pc = "fatal"
    /\ alive' = IF shows THEN alive \cup {WS} ELSE alive \ {WS}
    /\ action' = "restart" /\ pc' = "stop"
    /\ UNCHANGED <<SYSTEMSTATE, client, armed, gate, kernel, stopping, faults>>

\* shutdownsequence up to its first stage: the power socket is closed.
Stop ==
    /\ pc = "stop" /\ pc' = "session"
    /\ SYSTEMSTATE' = "stopping"
    /\ client' = [c \in Clients |->
          IF c \in Pending THEN [client[c] EXCEPT !.state = "failed"] ELSE client[c]]
    /\ UNCHANGED <<alive, action, armed, gate, kernel, stopping, faults>>

\* stopphase and stopstragglers first list what they will stop, once.
List(at, S) ==
    /\ pc = at /\ listed = "no" /\ listed' = "yes"
    /\ targets' = S \cap alive
    /\ UNCHANGED <<alive, left, late, pc, SYSTEMSTATE, action, client, armed, gate, kernel, faults>>

\* The stages in their order, with the descendants S of their services; the session stage
\* takes the children of the window server too.
Session(S) == List("session", {EX} \cup S)
Services(S) == List("services", (Tasks \ {WS, EX, DS}) \cup S)
Storage(S) == List("storage", {DS} \cup S)
\* Mutant: the stage leaves what is not in TASKS alone.
StragglersOfTasks == List("stragglers", Tasks \ {WS})

\* stopstragglers: every descendant of GODDESS, which adopts the orphans, but the window
\* server.
Stragglers == List("stragglers", Procs \ {WS})
Display(S) == List("display", {WS} \cup S)

Following == [session |-> "services", services |-> "storage", storage |-> "stragglers",
              stragglers |-> "display", display |-> "handoff"]

\* Mutant: the stage waits for its processes without a limit.
StageWaits(stuck) ==
    /\ pc \in DOMAIN Following /\ listed = "yes" /\ listed' = "no"
    /\ targets \cap alive = {} /\ stuck = {}
    /\ targets' = {} /\ pc' = Following[pc]
    /\ UNCHANGED <<alive, left, late, SYSTEMSTATE, action, client, armed, gate, kernel, faults>>

\* What was listed gets SIGTERM, a bounded wait, SIGKILL, another; what is left then is
\* reported and left.
Stage(stuck) ==
    /\ pc \in DOMAIN Following /\ listed = "yes" /\ listed' = "no"
    /\ stuck \subseteq targets \cap alive
    /\ alive' = (alive \ targets) \cup stuck
    /\ left' = left \cup stuck
    /\ targets' = {} /\ pc' = Following[pc]
    /\ UNCHANGED <<late, SYSTEMSTATE, action, client, armed, gate, kernel, faults>>

\* Mutant: the gate is armed for the name of the stage instead of the action.
HandoffStage(ok) ==
    /\ pc = "handoff" /\ pc' = "kernel"
    /\ gate' = SYSTEMSTATE
    /\ UNCHANGED <<alive, SYSTEMSTATE, action, client, armed, kernel, stopping, faults>>

\* os.sync, then powerhandoffaction: directly, or through the gate, armed on the boot
\* partition; a failure, before or after the record is in place, means a restart.
Handoff(ok) ==
    /\ pc = "handoff" /\ pc' = "kernel"
    /\ IF POWERHANDOFF = "direct"
         THEN ok /\ UNCHANGED <<gate, faults>>
         ELSE IF ok THEN gate' = action /\ UNCHANGED faults
              ELSE Fault /\ gate' \in {gate, action}
    /\ UNCHANGED <<alive, SYSTEMSTATE, action, client, armed, kernel, stopping>>

\* Mutant: the requested action goes to the kernel past the gate.
KernelPastGate ==
    /\ pc = "kernel" /\ pc' = "off"
    /\ SYSTEMSTATE' = "kernel handoff"
    /\ kernel' = action
    /\ UNCHANGED <<alive, action, client, armed, gate, stopping, faults>>

\* The unmounts, the read-only remount and kernelpower.
Kernel ==
    /\ pc = "kernel" /\ pc' = "off"
    /\ SYSTEMSTATE' = "kernel handoff"
    /\ kernel' = IF POWERHANDOFF = "direct" THEN action ELSE "restart"
    /\ UNCHANGED <<alive, action, client, armed, gate, stopping, faults>>

KernelFails ==
    /\ pc = "kernel" /\ pc' = "idle"
    /\ Fault
    /\ SYSTEMSTATE' = "kernel handoff failed"
    /\ UNCHANGED <<alive, action, client, armed, gate, kernel, stopping>>

\* requestpower.
Send(c, a, recovery) ==
    /\ client[c].state = "none"
    /\ recovery => a = "restart"
    /\ client' = [client EXCEPT ![c] =
          [state |-> IF pc \in Stopping \ {"fatal", "stop"} THEN "failed" ELSE "sent",
           action |-> a, recovery |-> recovery]]
    /\ UNCHANGED <<alive, pc, SYSTEMSTATE, action, armed, gate, kernel, stopping, faults>>

\* Its timeout: the connection is closed, the request stays in GODDESS's backlog.
Timeout(c) ==
    /\ client[c].state = "sent"
    /\ client' = [client EXCEPT ![c].state = "gone"]
    /\ UNCHANGED <<alive, pc, SYSTEMSTATE, action, armed, gate, kernel, stopping, faults>>

Serve ==
    \/ \E S \in SUBSET Procs : Round(S)
    \/ NoRequest
    \/ \E c \in Clients : Refuse(c) \/ Accept(c) \/ AcceptUnanswered(c)

Shutdown ==
    \/ \E shows \in BOOLEAN : Fatal(shows)
    \/ Stop
    \/ \E S \in SUBSET Strays : Session(S) \/ Services(S) \/ Storage(S) \/ Display(S)
    \/ Stragglers
    \/ \E stuck \in SUBSET targets : Stage(stuck)
    \/ \E ok \in BOOLEAN : Handoff(ok)
    \/ Kernel

\* Meanwhile a process ends, or one starts another: any process can, the window server
\* and one that was signalled too, but not one with SIGKILL pending.
Exit(n) ==
    /\ pc \in Stages \cup {"idle"} /\ n \in alive \ left
    /\ alive' = alive \ {n}
    /\ UNCHANGED <<stopping, pc, SYSTEMSTATE, action, client, armed, gate, kernel, faults>>

StragglersListed ==
    \/ pc = "stragglers" /\ listed = "yes"
    \/ pc \in {"display", "handoff", "kernel", "idle"}

Fork(p) ==
    /\ pc \in Stages \cup {"idle"} /\ alive \ left # {}
    /\ p \in Strays \ (alive \cup targets \cup left)
    /\ alive' = alive \cup {p}
    /\ late' = IF StragglersListed THEN late \cup {p} ELSE late
    /\ UNCHANGED <<targets, listed, left, pc, SYSTEMSTATE, action, client, armed, gate, kernel,
                   faults>>

Next ==
    \/ Serve \/ Shutdown
    \/ \E c \in Clients : ArmFails(c)
    \/ KernelFails
    \/ (\E n \in Procs : Exit(n)) \/ (\E p \in Strays : Fork(p))
    \/ \E c \in Clients, a \in Actions, recovery \in BOOLEAN : Send(c, a, recovery)
    \/ \E c \in Clients : Timeout(c)

\* GODDESS runs on.
Fairness == WF_vars(Serve) /\ WF_vars(Shutdown)

Spec == Init /\ [][Next]_vars
FairSpec == Spec /\ Fairness

(* ------------------------------- Properties ------------------------------- *)

\* The kernel gets what was asked for and answered: in the direct mode that action; else
\* always a restart, with the action in the gate unless arming it failed.
KernelDoesWhatWasAnswered ==
    \A c \in Clients : client[c].state = "ok" /\ kernel # "none" =>
        \/ POWERHANDOFF = "direct" /\ kernel = client[c].action
        \/ /\ POWERHANDOFF = "roothealth" /\ kernel = "restart"
           /\ gate = client[c].action \/ (gate = "none" /\ faults > 0)

\* When the gate is armed and the kernel called, every service and every process that
\* stopstragglers could list has stopped or outlived SIGKILL, in whichever stage it was
\* started and by whom; only what was started after that last listing, by a process being
\* stopped or by the window server, may be there still, since nothing looks again.
GateAfterServices ==
    gate # "none" \/ kernel # "none" => alive \subseteq left \cup late

\* A power request that was answered ok ends in the kernel, or with the kernel's refusal.
AnsweredIsCarriedOut ==
    \A c \in Clients : client[c].state = "ok" ~> pc \in {"off", "idle"}

\* A request refused with 'power transition already in progress' is refused because the
\* machine is going down.
RefusalIsTrue ==
    \A c \in Clients : client[c].state = "refused" ~> pc \in Stopping
=============================================================================
