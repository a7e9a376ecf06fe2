-------------------------- MODULE GoddessPowerProofs --------------------------
(* Proofs about GoddessPower, for any tasks, clients and faults and both       *)
(* values of POWERHANDOFF: the types, that the gate is armed and the kernel    *)
(* called only when what was listed has stopped, and that the kernel gets what *)
(* the client was answered.                                                    *)
EXTENDS GoddessPower, TLAPS

(* --------------------------------- Types --------------------------------- *)

\* One more fault is within the bound.
LEMMA FaultType ==
    ASSUME TypeOK, Fault
    PROVE  faults' \in 0 .. MaxFaults /\ faults' > 0
<1>1. MaxFaults \in Nat
  BY PowerAssumption
<1>2. faults \in 0 .. MaxFaults
  BY DEF TypeOK
<1> QED BY <1>1, <1>2 DEF Fault

\* The first states have the right types.
LEMMA TypeInit == Init => TypeOK
<1>1. MaxFaults \in Nat
  BY PowerAssumption
<1> SUFFICES ASSUME Init PROVE TypeOK
  OBVIOUS
<1>2. 0 \in 0 .. MaxFaults
  BY <1>1
<1>3. client \in [Clients -> Request]
  BY DEF Init, Request, Actions
<1> QED BY <1>2, <1>3 DEF Init, TypeOK, Procs

\* A listing keeps the types.
LEMMA TypeList ==
    ASSUME TypeOK, NEW at, NEW S, List(at, S)
    PROVE  TypeOK'
BY DEF List, TypeOK

\* Every stage is followed by one.
LEMMA FollowingType ==
    ASSUME NEW x \in DOMAIN Following
    PROVE  /\ x \in {"session", "services", "storage", "stragglers", "display"}
           /\ Following[x] = CASE x = "session" -> "services" [] x = "services" -> "storage"
                               [] x = "storage" -> "stragglers" [] x = "stragglers" -> "display"
                               [] x = "display" -> "handoff"
           /\ Following[x] \in Stages
BY DEF Following, Stages

\* Every stage, whatever it stops, keeps the types.
LEMMA TypeStage ==
    ASSUME TypeOK, NEW stuck, Stage(stuck)
    PROVE  TypeOK'
<1>1. pc' \in Stages
  BY FollowingType DEF Stage
<1> QED BY <1>1 DEF Stage, TypeOK, Stopping

\* Answering a client leaves it a client.
LEMMA TypeAnswer ==
    ASSUME TypeOK, NEW c \in Clients, NEW s \in {"ok", "refused", "failed"}, Answer(c, s)
    PROVE  client' \in [Clients -> Request]
BY DEF Answer, TypeOK, Request

\* The type invariant is inductive.
LEMMA TypeNext == TypeOK /\ [Next]_vars => TypeOK'
<1> SUFFICES ASSUME TypeOK, [Next]_vars PROVE TypeOK'
  OBVIOUS
<1> USE DEF stopping
<1>1. CASE UNCHANGED vars
  BY <1>1 DEF TypeOK, vars, stopping
<1>2. ASSUME NEW S \in SUBSET Procs, Round(S) PROVE TypeOK'
  BY <1>2 DEF Round, TypeOK, Stopping
<1>3. CASE NoRequest
  BY <1>3 DEF NoRequest, TypeOK
<1>4. ASSUME NEW c \in Clients, Refuse(c) PROVE TypeOK'
  <2>1. client' \in [Clients -> Request]
    BY <1>4, TypeAnswer DEF Refuse
  <2> QED BY <1>4, <2>1 DEF Refuse, TypeOK
<1>5. ASSUME NEW c \in Clients, Accept(c) PROVE TypeOK'
  <2>1. client' \in [Clients -> Request]
    BY <1>5, TypeAnswer DEF Accept
  <2>2. client[c].action \in Actions /\ client[c].recovery \in BOOLEAN
    BY DEF TypeOK, Request
  <2> QED BY <1>5, <2>1, <2>2 DEF Accept, TypeOK, Stopping
<1>6. ASSUME NEW c \in Clients, AcceptUnanswered(c) PROVE TypeOK'
  <2>1. client' \in [Clients -> Request]
    BY <1>6, TypeAnswer DEF AcceptUnanswered
  <2>2. client[c].recovery \in BOOLEAN
    BY DEF TypeOK, Request
  <2> QED BY <1>6, <2>1, <2>2 DEF AcceptUnanswered, TypeOK
<1>7. ASSUME NEW shows \in BOOLEAN, Fatal(shows) PROVE TypeOK'
  <2>1. WS \in Procs
    BY PowerAssumption DEF Procs
  <2> QED BY <1>7, <2>1 DEF Fatal, TypeOK, Stopping, Actions
<1>8. CASE Stop
  <2>1. client' \in [Clients -> Request]
    BY <1>8 DEF Stop, TypeOK, Request
  <2> QED BY <1>8, <2>1 DEF Stop, TypeOK, Stopping, Stages
<1>9. ASSUME NEW S \in SUBSET Strays, Session(S) \/ Services(S) \/ Storage(S) \/ Display(S)
      PROVE TypeOK'
  BY <1>9, TypeList DEF Session, Services, Storage, Display
<1>18. CASE Stragglers
  BY <1>18, TypeList DEF Stragglers
<1>19. ASSUME NEW stuck \in SUBSET targets, Stage(stuck) PROVE TypeOK'
  BY <1>19, TypeStage
<1>10. ASSUME NEW ok \in BOOLEAN, Handoff(ok) PROVE TypeOK'
  <2>1. faults' \in 0 .. MaxFaults
    BY <1>10, FaultType DEF Handoff, TypeOK
  <2>2. gate' \in Actions \cup {"none"}
    BY <1>10 DEF Handoff, TypeOK
  <2> QED BY <1>10, <2>1, <2>2 DEF Handoff, TypeOK, Stopping, Stages
<1>11. CASE Kernel
  BY <1>11 DEF Kernel, TypeOK, Stopping, Actions
<1>12. ASSUME NEW c \in Clients, ArmFails(c) PROVE TypeOK'
  <2>1. client' \in [Clients -> Request]
    BY <1>12, TypeAnswer DEF ArmFails
  <2>2. faults' \in 0 .. MaxFaults
    BY <1>12, FaultType DEF ArmFails
  <2> QED BY <1>12, <2>1, <2>2 DEF ArmFails, TypeOK
<1>13. CASE KernelFails
  <2>1. faults' \in 0 .. MaxFaults
    BY <1>13, FaultType DEF KernelFails
  <2> QED BY <1>13, <2>1 DEF KernelFails, TypeOK, Stopping
<1>14. ASSUME NEW n \in Procs, Exit(n) PROVE TypeOK'
  BY <1>14 DEF Exit, TypeOK
<1>15. ASSUME NEW p \in Strays, Fork(p) PROVE TypeOK'
  BY <1>15 DEF Fork, TypeOK, Procs
<1>16. ASSUME NEW c \in Clients, NEW a \in Actions, NEW recovery \in BOOLEAN, Send(c, a, recovery)
       PROVE TypeOK'
  BY <1>16 DEF Send, TypeOK, Request
<1>17. ASSUME NEW c \in Clients, Timeout(c) PROVE TypeOK'
  BY <1>17 DEF Timeout, TypeOK, Request
<1> QED
  BY <1>1, <1>2, <1>3, <1>4, <1>5, <1>6, <1>7, <1>8, <1>9, <1>10, <1>11, <1>12, <1>13,
     <1>14, <1>15, <1>16, <1>17, <1>18, <1>19 DEF Next, Serve, Shutdown

\* GODDESS, its clients and its shutdown keep their types (supervise, receivepowerrequest
\* and shutdownsequence, with every fault).
THEOREM TypeCorrect == Spec => []TypeOK
BY TypeInit, TypeNext, PTL DEF Spec

(* ------------------------------- The stages ------------------------------- *)

AfterHandoff == {"kernel", "off", "idle"}
AfterDisplay == {"handoff"} \cup AfterHandoff
AfterStragglers == {"display"} \cup AfterDisplay

\* What stopstragglers lists is everything but the window server; what is started after it
\* is late, so that once the stage is over the window server is the only process that is
\* neither late nor past SIGKILL, and the display stage lists that one.  The gate and the
\* kernel come last.
StagesHold ==
    /\ pc = "stragglers" /\ listed = "yes" => alive \subseteq targets \cup late \cup {WS}
    /\ pc \in AfterStragglers => alive \subseteq left \cup late \cup {WS}
    /\ pc = "display" /\ listed = "yes" /\ WS \in alive => WS \in targets
    /\ pc \in AfterDisplay => alive \subseteq left \cup late
    /\ gate # "none" \/ kernel # "none" => pc \in AfterHandoff

\* Before the sequence no stage has stopped anything.
LEMMA StagesInit == Init => StagesHold
BY DEF Init, StagesHold, AfterStragglers, AfterDisplay, AfterHandoff

\* A step before the last two stages.
LEMMA StagesEarly ==
    ASSUME StagesHold, UNCHANGED <<gate, kernel>>,
           pc \in {"scan", "poll", "fatal", "stop", "session", "services", "storage"},
           pc' \in {"scan", "poll", "fatal", "stop", "session", "services", "storage"}
    PROVE  StagesHold'
BY DEF StagesHold, AfterStragglers, AfterDisplay, AfterHandoff

\* A step that touches no process and no stage keeps what the stages guarantee.
LEMMA StagesSame ==
    ASSUME StagesHold, UNCHANGED <<alive, targets, listed, left, late, pc, gate, kernel>>
    PROVE  StagesHold'
BY DEF StagesHold

\* Each stage leaves what it listed gone or past SIGKILL.
LEMMA StagesStop == ASSUME TypeOK, StagesHold, NEW stuck, Stage(stuck) PROVE StagesHold'
<1> USE DEF AfterStragglers, AfterDisplay, AfterHandoff
<1>1. /\ pc \in {"session", "services", "storage", "stragglers", "display"} /\ listed' = "no"
      /\ pc' = Following[pc] /\ UNCHANGED <<gate, kernel, late>>
      /\ alive' = (alive \ targets) \cup stuck /\ left' = left \cup stuck /\ listed = "yes"
  BY FollowingType DEF Stage
<1>2. gate = "none" /\ kernel = "none"
  BY <1>1 DEF StagesHold
<1>3. CASE pc \in {"session", "services", "storage"}
  <2>1. pc' \in {"services", "storage", "stragglers"}
    BY <1>1, <1>3, FollowingType DEF Stage
  <2> QED BY <1>1, <1>2, <2>1 DEF StagesHold
<1>4. CASE pc = "stragglers"
  <2>1. pc' = "display"
    BY <1>1, <1>4, FollowingType DEF Stage
  <2>2. alive' \subseteq left' \cup late' \cup {WS}
    BY <1>1, <1>4 DEF StagesHold
  <2> QED BY <1>1, <1>2, <2>1, <2>2 DEF StagesHold
<1>5. CASE pc = "display"
  <2>1. pc' = "handoff"
    BY <1>1, <1>5, FollowingType DEF Stage
  <2>2. alive' \subseteq left' \cup late'
    BY <1>1, <1>5 DEF StagesHold
  <2> QED BY <1>1, <1>2, <2>1, <2>2 DEF StagesHold
<1> QED BY <1>1, <1>3, <1>4, <1>5

\* Whatever runs, ends or is started meanwhile, no step brings back what was stopped.
LEMMA StagesNext == TypeOK /\ StagesHold /\ [Next]_vars => StagesHold'
<1> SUFFICES ASSUME TypeOK, StagesHold, [Next]_vars PROVE StagesHold'
  OBVIOUS
<1> USE DEF AfterStragglers, AfterDisplay, AfterHandoff, stopping
<1>1. CASE UNCHANGED vars
  BY <1>1, StagesSame DEF vars
<1>2. ASSUME NEW S \in SUBSET Procs, Round(S) PROVE StagesHold'
  BY <1>2, StagesEarly DEF Round
<1>3. CASE NoRequest
  BY <1>3, StagesEarly DEF NoRequest
<1>4. ASSUME NEW c \in Clients,
             Refuse(c) \/ Accept(c) \/ AcceptUnanswered(c) \/ ArmFails(c)
      PROVE StagesHold'
  BY <1>4, StagesEarly DEF Refuse, Accept, AcceptUnanswered, ArmFails
<1>5. ASSUME NEW shows \in BOOLEAN, Fatal(shows) PROVE StagesHold'
  BY <1>5, StagesEarly DEF Fatal
<1>6. CASE Stop
  BY <1>6, StagesEarly DEF Stop
<1>7. ASSUME NEW S \in SUBSET Strays, Session(S) \/ Services(S) \/ Storage(S) PROVE StagesHold'
  BY <1>7, StagesEarly DEF Session, Services, Storage, List
<1>8. CASE Stragglers
  BY <1>8 DEF Stragglers, List, StagesHold, TypeOK
<1>9. ASSUME NEW S \in SUBSET Strays, Display(S) PROVE StagesHold'
  BY <1>9 DEF Display, List, StagesHold
<1>10. ASSUME NEW stuck \in SUBSET targets, Stage(stuck) PROVE StagesHold'
  BY <1>10, StagesStop
<1>11. ASSUME NEW ok \in BOOLEAN, Handoff(ok) PROVE StagesHold'
  BY <1>11 DEF Handoff, StagesHold
<1>12. CASE Kernel
  BY <1>12 DEF Kernel, StagesHold
<1>13. CASE KernelFails
  BY <1>13 DEF KernelFails, StagesHold
<1>14. ASSUME NEW n \in Procs, Exit(n) PROVE StagesHold'
  BY <1>14 DEF Exit, StagesHold
<1>15. ASSUME NEW p \in Strays, Fork(p) PROVE StagesHold'
  <2>1. p # WS
    BY PowerAssumption
  <2> QED BY <1>15, <2>1 DEF Fork, StragglersListed, StagesHold, Stages
<1>16. ASSUME NEW c \in Clients, NEW a \in Actions, NEW recovery \in BOOLEAN, Send(c, a, recovery)
       PROVE StagesHold'
  BY <1>16, StagesSame DEF Send
<1>17. ASSUME NEW c \in Clients, Timeout(c) PROVE StagesHold'
  BY <1>17, StagesSame DEF Timeout
<1> QED
  BY <1>1, <1>2, <1>3, <1>4, <1>5, <1>6, <1>7, <1>8, <1>9, <1>10, <1>11, <1>12, <1>13,
     <1>14, <1>15, <1>16, <1>17 DEF Next, Serve, Shutdown

\* When the shutdown health gate is armed and kernelpower called, every service and every
\* process that stopstragglers could list has stopped or outlived SIGKILL; what else is there
\* was started after that listing (shutdownsequence, stopphase, stopstragglers).
THEOREM GateSafe == Spec => []GateAfterServices
<1>1. StagesHold => GateAfterServices
  BY DEF StagesHold, GateAfterServices, AfterHandoff, AfterDisplay
<1> QED BY <1>1, TypeInit, TypeNext, StagesInit, StagesNext, PTL DEF Spec

(* ------------------------------- The answer ------------------------------- *)

Answered == {"stop"} \cup Stages \cup {"off", "idle"}

\* An answered client's action is the one shutdownsequence was called with, and no second
\* request is accepted; the gate and the kernel are only ever given that action.
AnswerHolds ==
    /\ \A c \in Clients : client[c].state = "ok" => pc \in Answered /\ client[c].action = action
    /\ pc \in Answered => action # "none"
    /\ gate \in {"none", action}
    /\ kernel # "none" => kernel = (IF POWERHANDOFF = "direct" THEN action ELSE "restart")
    /\ gate # "none" \/ kernel # "none" => pc \in AfterHandoff
    /\ pc \in AfterHandoff /\ POWERHANDOFF = "roothealth" /\ gate = "none" => faults > 0

\* Nobody is answered at first.
LEMMA AnswerInit == Init => AnswerHolds
BY DEF Init, AnswerHolds, Answered, Stages, AfterHandoff

\* A step before the hand-over that answers nobody ok and keeps the action, or one before
\* any answer.
LEMMA AnswerEarly ==
    ASSUME AnswerHolds, pc \notin AfterHandoff, pc' \notin AfterHandoff, UNCHANGED <<gate, kernel>>,
           \A c \in Clients : client'[c].state = "ok" =>
                pc' \in Answered /\ client'[c].action = action',
           pc' \in Answered => action' # "none"
    PROVE  AnswerHolds'
BY DEF AnswerHolds

\* The action under way stays the one that was answered.
LEMMA AnswerNext == TypeOK /\ AnswerHolds /\ [Next]_vars => AnswerHolds'
<1> SUFFICES ASSUME TypeOK, AnswerHolds, [Next]_vars PROVE AnswerHolds'
  OBVIOUS
<1> USE DEF AfterHandoff, Answered, Stages, stopping
<1>0. \A c \in Clients : client[c].state = "ok" => pc \in Answered /\ client[c].action = action
  BY DEF AnswerHolds
<1>18. pc \in Answered => action # "none"
  BY DEF AnswerHolds
<1>1. CASE UNCHANGED vars
  BY <1>1 DEF AnswerHolds, vars
<1>2. ASSUME NEW S \in SUBSET Procs, Round(S) PROVE AnswerHolds'
  BY <1>0, <1>2, AnswerEarly DEF Round
<1>3. CASE NoRequest
  BY <1>0, <1>3, AnswerEarly DEF NoRequest
<1>4. ASSUME NEW c \in Clients, Refuse(c) \/ AcceptUnanswered(c) \/ ArmFails(c)
      PROVE AnswerHolds'
  <2>1. pc = "poll" /\ pc' = "scan" /\ UNCHANGED <<gate, kernel>>
    BY <1>4 DEF Refuse, AcceptUnanswered, ArmFails
  <2>2. \E s \in {"refused", "failed"} : Answer(c, s)
    BY <1>4 DEF Refuse, AcceptUnanswered, ArmFails
  <2>3. \A d \in Clients : client'[d].state # "ok"
    BY <1>0, <2>1, <2>2 DEF Answer, TypeOK, Request
  <2> QED BY <2>1, <2>3, AnswerEarly
<1>5. ASSUME NEW c \in Clients, Accept(c) PROVE AnswerHolds'
  <2>1. pc = "poll" /\ pc' = "stop" /\ UNCHANGED <<gate, kernel>> /\ action' = client[c].action
    BY <1>5 DEF Accept
  <2>4. action' # "none"
    BY <2>1 DEF TypeOK, Request, Actions
  <2>2. \A d \in Clients \ {c} : client'[d].state # "ok"
    BY <1>0, <1>5, <2>1 DEF Accept, Answer, TypeOK, Request
  <2>3. client'[c].action = action'
    BY <1>5, <2>1 DEF Accept, Answer, TypeOK, Request
  <2> QED BY <2>1, <2>2, <2>3, <2>4, AnswerEarly
<1>6. ASSUME NEW shows \in BOOLEAN, Fatal(shows) PROVE AnswerHolds'
  BY <1>0, <1>6, AnswerEarly DEF Fatal
<1>7. CASE Stop
  <2>1. \A d \in Clients : client'[d].state = "ok" => client'[d] = client[d]
    BY <1>7 DEF Stop, TypeOK, Request
  <2> QED BY <1>0, <1>18, <1>7, <2>1, AnswerEarly DEF Stop
<1>8. ASSUME NEW S \in SUBSET Strays,
             Session(S) \/ Services(S) \/ Storage(S) \/ Stragglers \/ Display(S)
      PROVE AnswerHolds'
  <2>1. /\ pc' = pc /\ pc \in {"session", "services", "storage", "stragglers", "display"}
        /\ UNCHANGED <<action, client, gate, kernel>>
    BY <1>8 DEF Session, Services, Storage, Stragglers, Display, List
  <2> QED BY <1>0, <1>18, <2>1, AnswerEarly
<1>16. ASSUME NEW stuck \in SUBSET targets, Stage(stuck) PROVE AnswerHolds'
  <2>1. /\ pc \in {"session", "services", "storage", "stragglers", "display"}
        /\ pc' \in {"services", "storage", "stragglers", "display", "handoff"}
        /\ UNCHANGED <<action, client, gate, kernel>>
    BY <1>16, FollowingType DEF Stage
  <2> QED BY <1>0, <1>18, <2>1, AnswerEarly
<1>9. ASSUME NEW ok \in BOOLEAN, Handoff(ok) PROVE AnswerHolds'
  <2>1. gate' = "none" /\ POWERHANDOFF = "roothealth" => faults' > 0 \/ action = "none"
    BY <1>9, FaultType, PowerAssumption DEF Handoff
  <2>2. gate' \in {"none", action'} /\ kernel' = "none"
    BY <1>9 DEF Handoff, AnswerHolds
  <2> QED BY <1>0, <1>9, <2>1, <2>2 DEF Handoff, AnswerHolds
<1>10. CASE Kernel
  BY <1>10 DEF Kernel, AnswerHolds
<1>11. CASE KernelFails
  <2>1. faults' > 0
    BY <1>11, FaultType DEF KernelFails
  <2> QED BY <1>11, <2>1 DEF KernelFails, AnswerHolds
<1>12. ASSUME NEW n \in Procs, Exit(n) PROVE AnswerHolds'
  BY <1>12 DEF Exit, AnswerHolds
<1>13. ASSUME NEW p \in Strays, Fork(p) PROVE AnswerHolds'
  BY <1>13 DEF Fork, AnswerHolds
<1>14. ASSUME NEW c \in Clients, NEW a \in Actions, NEW recovery \in BOOLEAN, Send(c, a, recovery)
       PROVE AnswerHolds'
  <2>1. \A d \in Clients : client'[d].state = "ok" => client'[d] = client[d]
    BY <1>14 DEF Send, TypeOK, Request
  <2> QED BY <1>0, <1>14, <2>1 DEF Send, AnswerHolds
<1>15. ASSUME NEW c \in Clients, Timeout(c) PROVE AnswerHolds'
  <2>1. \A d \in Clients : client'[d].state = "ok" => client'[d] = client[d]
    BY <1>15 DEF Timeout, TypeOK, Request
  <2> QED BY <1>0, <1>15, <2>1 DEF Timeout, AnswerHolds
<1> QED
  BY <1>1, <1>2, <1>3, <1>4, <1>5, <1>6, <1>7, <1>8, <1>9, <1>10, <1>11, <1>12, <1>13,
     <1>14, <1>15, <1>16 DEF Next, Serve, Shutdown

\* The kernel is asked for what the answered client asked for, directly or as the action of
\* the shutdown health gate (receivepowerrequest to kernelpower).
THEOREM AnswerSafe == Spec => []KernelDoesWhatWasAnswered
<1>1. TypeOK /\ AnswerHolds => KernelDoesWhatWasAnswered
  BY PowerAssumption DEF TypeOK, AnswerHolds, KernelDoesWhatWasAnswered
<1> QED BY <1>1, TypeInit, TypeNext, AnswerInit, AnswerNext, PTL DEF Spec
=============================================================================
