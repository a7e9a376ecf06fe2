----------------------- MODULE OperationsRegistryProofs -----------------------
(* Proofs about OperationsRegistry, for any pids, worker threads, limit of     *)
(* COMPLETED, processes, crashes and failing checkpoints.                      *)
EXTENDS OperationsRegistry, FiniteSetTheorems, TLAPS

(* --------------------------- COMPLETED's ages --------------------------- *)

Distinct(C) == \A p, q \in Pids : p # q /\ C[p] # None /\ C[q] # None => C[p].age # C[q].age

\* The assumptions on the constants, in the form the proofs cite.
LEMMA Numbers ==
    /\ Pids \subseteq Nat \ {0} /\ IsFiniteSet(Pids) /\ Main \notin Workers
    /\ KEEP \in Nat \ {0} /\ MaxId \in Nat /\ MaxCrashes \in Nat /\ MaxFails \in Nat
    /\ None \notin Active /\ None \notin Done /\ None \notin Threads
BY RegistryAssumption, NoneAssumption

\* A proper part of a finite set has fewer elements.
LEMMA Fewer ==
    ASSUME NEW S, IsFiniteSet(S), NEW T \in SUBSET S, T # S
    PROVE  Cardinality(T) \in Nat /\ Cardinality(S) \in Nat /\ Cardinality(T) < Cardinality(S)
<1>1. IsFiniteSet(T) /\ Cardinality(T) <= Cardinality(S) /\ Cardinality(S) # Cardinality(T)
  BY FS_Subset
<1> QED BY <1>1, FS_CardinalityType

\* The entries that end now are the youngest, those that were there keep their order, and no
\* two have one age: what Ended returns is again a table of completed entries.
LEMMA EndedFacts ==
    ASSUME NEW C \in [Pids -> Done \cup {None}], NEW S \in SUBSET Pids,
           NEW ids, \A q \in S : ids[q] \in Ids \cup {0}
    PROVE  /\ Ended(C, S, ids) \in [Pids -> Done \cup {None}]
           /\ \A q \in Pids : Ended(C, S, ids)[q] # None => q \in S \/ C[q] # None
           /\ Distinct(C) => Distinct(Ended(C, S, ids))
<1> DEFINE kept == {q \in Pids \ S : C[q] # None}
           newer(q) == {r \in S : r > q}
           younger(q) == {r \in kept : C[r].age < C[q].age}
           age == [q \in Pids |-> IF q \in S THEN Cardinality(newer(q))
                                  ELSE Cardinality(S) + Cardinality(younger(q))]
           E == Ended(C, S, ids)
<1>1. \A q \in Pids : E[q] = IF q \in S /\ age[q] < KEEP THEN [id |-> ids[q], age |-> age[q]]
                             ELSE IF q \in kept /\ age[q] < KEEP THEN [C[q] EXCEPT !.age = age[q]]
                             ELSE None
  BY DEF Ended
<1>2. IsFiniteSet(S) /\ IsFiniteSet(kept) /\ Cardinality(S) \in Nat /\ Pids \subseteq Nat
  BY Numbers, FS_Subset, FS_CardinalityType
<1>3. \A q \in S : Cardinality(newer(q)) \in Nat /\ Cardinality(newer(q)) < Cardinality(S)
  <2> TAKE q \in S
  <2>1. newer(q) \in SUBSET S /\ q \notin newer(q)
    BY <1>2
  <2> QED BY <2>1, <1>2, Fewer
<1>4. \A q \in kept : Cardinality(younger(q)) \in Nat
  BY <1>2, FS_Subset, FS_CardinalityType
<1>5. \A q \in S \cup kept : age[q] \in Nat
  BY <1>2, <1>3, <1>4
<1>6. \A q \in S, r \in kept : age[q] < age[r]
  BY <1>2, <1>3, <1>4
<1>7. ASSUME NEW a \in S, NEW b \in S, a > b PROVE age[a] < age[b]
  <2>1. a \in Nat /\ b \in Nat /\ \A r \in S : r \in Nat
    BY <1>2
  <2>2. ASSUME NEW r \in newer(a) PROVE r \in newer(b)
    <3>1. r \in S /\ r > a /\ r \in Nat
      BY <2>1
    <3> QED BY <1>7, <2>1, <3>1
  <2>3. a \in newer(b) /\ a \notin newer(a) /\ newer(b) \in SUBSET S
    BY <1>7, <2>1
  <2>4. IsFiniteSet(newer(b))
    BY <2>3, <1>2, FS_Subset
  <2> QED BY <2>2, <2>3, <2>4, Fewer
<1>8. \A q \in kept : C[q] \in Done /\ C[q].age \in Nat
  BY Numbers DEF Done
<1>9. ASSUME NEW a \in kept, NEW b \in kept, C[a].age < C[b].age PROVE age[a] < age[b]
  <2>1. younger(a) \in SUBSET younger(b) /\ a \in younger(b) /\ a \notin younger(a)
        /\ younger(b) \in SUBSET kept
    BY <1>8, <1>9
  <2>2. IsFiniteSet(younger(b))
    BY <2>1, <1>2, FS_Subset
  <2>3. Cardinality(younger(a)) < Cardinality(younger(b))
    BY <2>1, <2>2, Fewer
  <2> QED BY <2>3, <1>2, <1>4
<1>10. kept \in SUBSET Pids /\ \A q \in kept : q \notin S /\ C[q] # None
  OBVIOUS
<1>11. \A q \in Pids : q \notin S /\ C[q] # None => q \in kept
  OBVIOUS
<1> HIDE DEF kept, newer, younger, age, E
<1>12. \A q \in Pids : E[q] # None => q \in S \cup kept /\ E[q] \in Done /\ E[q].age = age[q]
  <2> TAKE q \in Pids
  <2>1. CASE q \in S /\ age[q] < KEEP
    <3>1. E[q] = [id |-> ids[q], age |-> age[q]]
      BY <1>1, <2>1
    <3>2. ids[q] \in Ids \cup {0} /\ age[q] \in 0 .. KEEP - 1
      BY <1>5, <2>1, Numbers
    <3> QED BY <3>1, <3>2, <2>1 DEF Done
  <2>2. CASE q \in kept /\ age[q] < KEEP
    <3>1. E[q] = [C[q] EXCEPT !.age = age[q]]
      BY <1>1, <1>10, <2>2
    <3>2. C[q] \in Done /\ age[q] \in 0 .. KEEP - 1
      BY <1>5, <1>8, <2>2, Numbers
    <3> QED BY <3>1, <3>2, <2>2 DEF Done
  <2> QED BY <1>1, <2>1, <2>2
<1>13. E \in [Pids -> Done \cup {None}]
  <2>1. E = [q \in Pids |-> E[q]]
    BY DEF E, Ended
  <2>2. \A q \in Pids : E[q] \in Done \cup {None}
    BY <1>12
  <2> QED BY <2>1, <2>2
<1>14. ASSUME Distinct(C), NEW p \in S \cup kept, NEW q \in S \cup kept, p # q
       PROVE  age[p] # age[q]
  <2>1. age[p] \in Nat /\ age[q] \in Nat
    BY <1>5
  <2>2. CASE p \in S /\ q \in S
    <3>1. p > q \/ q > p
      BY <2>2, <1>2, <1>14
    <3> QED BY <2>1, <2>2, <3>1, <1>7
  <2>3. CASE p \in kept /\ q \in kept
    <3>1. C[p].age < C[q].age \/ C[q].age < C[p].age
      BY <2>3, <1>8, <1>10, <1>14 DEF Distinct
    <3> QED BY <2>1, <2>3, <3>1, <1>9
  <2>4. CASE p \in S /\ q \in kept
    BY <2>1, <2>4, <1>6
  <2>5. CASE p \in kept /\ q \in S
    BY <2>1, <2>5, <1>6
  <2> QED BY <2>2, <2>3, <2>4, <2>5
<1>15. Distinct(C) => Distinct(E)
  BY <1>12, <1>14 DEF Distinct
<1>16. \A q \in Pids : E[q] # None => q \in S \/ C[q] # None
  BY <1>10, <1>12
<1> QED BY <1>13, <1>15, <1>16 DEF E

\* Dropping pids from COMPLETED leaves the other entries and their ages.
LEMMA ForgetFacts ==
    ASSUME NEW C \in [Pids -> Done \cup {None}], NEW S \in SUBSET Pids
    PROVE  /\ Forget(C, S) \in [Pids -> Done \cup {None}]
           /\ \A q \in Pids : Forget(C, S)[q] # None => q \notin S /\ C[q] # None
           /\ Distinct(C) => Distinct(Forget(C, S))
<1> DEFINE D == [q \in Pids |-> IF q \in S THEN None ELSE C[q]]
<1>1. D \in [Pids -> Done \cup {None}] /\ \A q \in Pids : D[q] # None => q \notin S /\ C[q] # None
  OBVIOUS
<1>2. Distinct(C) => Distinct(D)
  BY DEF Distinct
<1>3. Forget(C, S) = Ended(D, {}, <<>>)
  BY DEF Forget
<1>4. \A q \in {} : <<>>[q] \in Ids \cup {0}
  OBVIOUS
<1> HIDE DEF D
<1>5. /\ Ended(D, {}, <<>>) \in [Pids -> Done \cup {None}]
      /\ \A q \in Pids : Ended(D, {}, <<>>)[q] # None => q \in {} \/ D[q] # None
      /\ Distinct(D) => Distinct(Ended(D, {}, <<>>))
  BY <1>1, <1>4, EndedFacts
<1> QED BY <1>1, <1>2, <1>3, <1>5

(* --------------------------------- Types --------------------------------- *)

\* What the program points say of the locals of thread t: whose job gets there, and which
\* of them are set.
LocalOK(t, l) ==
    /\ l.pc \in {"poll", "look", "match", "sweep"} \/ l.ret \in {"poll", "look", "sweep"} =>
          l.job \in {"reap", "kill", "wait"} /\ (l.job # "reap" => l.pid \in Pids)
    /\ l.pc \in {"kill", "mark", "wait"} => l.pid \in Pids
    /\ l.pc = "wait" => l.job = "wait"
    /\ l.pc \in {"match", "done", "complete", "amend"} => l.cur \in Pids
    /\ l.job \in {"launch", "register"} <=> l.pc = "record" \/ l.ret = "ack"
    /\ l.ret = "ack" => l.pc \in {"save", "write"}
    /\ l.ret # "idle" => l.pc \in {"done", "save", "write"}
    /\ l.seen # 0 => l.pc = "match"
    /\ l.job \in {"launch", "register"} => t \in Workers /\ l.pid \in Pids /\ l.id \in Ids
    /\ l.pc = "bootapply" => l.todo \subseteq Pids \X Ids

TypeInv ==
    /\ TypeOK
    /\ \A t \in Threads : LocalOK(t, th[t])
    /\ ~up => \A t \in Threads : th[t] = Idle

\* An idle thread has locals of the right type and none that a program point relies on.
LEMMA IdleOK == Idle \in Local /\ \A t : LocalOK(t, Idle)
BY DEF Idle, Local, LocalOK, PCs, Jobs

\* A thread takes new locals; the others keep theirs.
LEMMA ThreadStep ==
    ASSUME TypeInv, NEW t \in Threads, NEW l \in Local, LocalOK(t, l), Local_(t, l), up
    PROVE  /\ th' \in [Threads -> Local]
           /\ \A u \in Threads : LocalOK(u, th'[u])
           /\ th'[t] = l /\ \A u \in Threads \ {t} : th'[u] = th[u]
BY DEF TypeInv, TypeOK, Local_

\* It changes nothing else.
LEMMA ThinkType ==
    ASSUME TypeInv, NEW t \in Threads, NEW l \in Local, LocalOK(t, l), Local_(t, l), up,
           UNCHANGED <<kernel, registry, saving, history>>, Quiet
    PROVE  TypeInv'
<1>1. /\ th' \in [Threads -> Local]
      /\ \A u \in Threads : LocalOK(u, th'[u])
  BY ThreadStep
<1>2. TypeOK'
  BY <1>1 DEF TypeInv, TypeOK, kernel, registry, saving, history, Quiet
<1> QED BY <1>1, <1>2 DEF TypeInv, Quiet

\* The locals of a thread, by the type invariant.
LEMMA LocalType ==
    ASSUME TypeInv, NEW t \in Threads
    PROVE  th[t] \in Local /\ LocalOK(t, th[t])
BY DEF TypeInv, TypeOK

\* The locals a sweep begins with: the children PROCESSES tracked at that moment.
LEMMA SweepLocal ==
    ASSUME TypeInv, NEW job \in {"reap", "kill", "wait"}, NEW p \in Pids \cup {0},
           job # "reap" => p \in Pids
    PROVE  LET l == [Idle EXCEPT !.pc = "poll", !.job = job, !.pid = p,
                       !.todo = {<<q, PROCESSES[q]>> : q \in {r \in Pids : PROCESSES[r] # 0}}]
           IN l \in Local /\ \A t : LocalOK(t, l)
<1> DEFINE S == {<<q, PROCESSES[q]>> : q \in {r \in Pids : PROCESSES[r] # 0}}
<1>1. S \in SUBSET (Pids \X (Ids \cup {0}))
  BY DEF TypeInv, TypeOK
<1> HIDE DEF S
<1>2. [Idle EXCEPT !.pc = "poll", !.job = job, !.pid = p, !.todo = S] \in Local
  BY <1>1 DEF Idle, Local, PCs, Jobs
<1>3. \A t : LocalOK(t, [Idle EXCEPT !.pc = "poll", !.job = job, !.pid = p, !.todo = S])
  BY DEF Idle, LocalOK
<1> QED BY <1>2, <1>3 DEF S

\* Beginning a sweep keeps the types.
LEMMA TypeBegin ==
    ASSUME TypeInv, NEW t \in Threads, NEW job \in {"reap", "kill", "wait"},
           NEW p \in Pids \cup {0}, Begin(t, job, p)
    PROVE  TypeInv'
<1>1. job # "reap" => p \in Pids
  BY DEF Begin, Known
<1> QED BY <1>1, SweepLocal, ThinkType DEF Begin, Sweep, At

\* Beginning the sweep of WAIT once more keeps the types.
LEMMA TypeAgain ==
    ASSUME TypeInv, NEW t \in Threads, Again(t)
    PROVE  TypeInv'
<1>1. /\ th[t].job \in {"reap", "kill", "wait"} /\ th[t].pid \in Pids \cup {0}
      /\ th[t].job # "reap" => th[t].pid \in Pids
  BY LocalType DEF Again, At, LocalOK, Local
<1> QED BY <1>1, SweepLocal, ThinkType DEF Again, Sweep, At

\* The steps that change a thread's locals and nothing else.
LEMMA TypeThink ==
    ASSUME TypeInv, NEW t \in Threads,
           \/ External(t) \/ Match(t) \/ CompleteEntry(t) \/ Amend(t) \/ Wait(t)
           \/ \E x \in th[t].todo : Look(t, x)
           \/ \E p \in Pids : Complete(t, p)
           \/ \E p \in Pids, s \in BOOLEAN : Register(t, p, s)
           \/ Bootstrap(t) \/ BootstrapCheck(t)
    PROVE  TypeInv'
<1> DEFINE l == th'[t]
<1>1. up /\ UNCHANGED <<kernel, registry, saving, history>> /\ Quiet
  BY DEF External, Match, CompleteEntry, Amend, Wait, Look, Complete, Register, Bootstrap,
         BootstrapCheck, At
<1>2. th[t] \in Local /\ LocalOK(t, th[t]) /\ th \in [Threads -> Local]
  BY LocalType DEF TypeInv, TypeOK
<1> SUFFICES \E m \in Local : LocalOK(t, m) /\ Local_(t, m)
  BY <1>1, ThinkType
<1> USE DEF At
<1>3. CASE External(t)
  <2> DEFINE S == {<<p, 0>> : p \in {q \in Pids : OPMETA[q] # None /\ PROCESSES[q] = 0}}
  <2>1. S \in SUBSET (Pids \X (Ids \cup {0}))
    OBVIOUS
  <2>2. Local_(t, [th[t] EXCEPT !.pc = "look", !.todo = S])
    BY <1>3 DEF External
  <2> HIDE DEF S
  <2>3. [th[t] EXCEPT !.pc = "look", !.todo = S] \in Local
    BY <1>2, <2>1 DEF Local, PCs
  <2>4. LocalOK(t, [th[t] EXCEPT !.pc = "look", !.todo = S])
    BY <1>2, <1>3 DEF LocalOK, Local, External
  <2> QED BY <2>2, <2>3, <2>4
<1>4. CASE Match(t)
  <2>1. th[t].pc = "match"
    BY <1>4 DEF Match
  <2>2. [th[t] EXCEPT !.pc = "look", !.cur = 0, !.seen = 0] \in Local
        /\ [th[t] EXCEPT !.pc = "done", !.seen = 0, !.ret = "look"] \in Local
    BY <1>2 DEF Local, PCs
  <2>3. LocalOK(t, [th[t] EXCEPT !.pc = "look", !.cur = 0, !.seen = 0])
        /\ LocalOK(t, [th[t] EXCEPT !.pc = "done", !.seen = 0, !.ret = "look"])
    BY <1>2, <2>1 DEF LocalOK, Local
  <2>4. \/ Local_(t, [th[t] EXCEPT !.pc = "look", !.cur = 0, !.seen = 0])
        \/ Local_(t, [th[t] EXCEPT !.pc = "done", !.seen = 0, !.ret = "look"])
    BY <1>4 DEF Match
  <2> QED BY <2>2, <2>3, <2>4
<1>5. CASE CompleteEntry(t)
  <2>1. th[t].pc = "complete"
    BY <1>5 DEF CompleteEntry
  <2>2. [th[t] EXCEPT !.pc = "done"] \in Local /\ [th[t] EXCEPT !.pc = "amend"] \in Local
    BY <1>2 DEF Local, PCs
  <2>3. LocalOK(t, [th[t] EXCEPT !.pc = "done"]) /\ LocalOK(t, [th[t] EXCEPT !.pc = "amend"])
    BY <1>2, <2>1 DEF LocalOK, Local
  <2>4. \/ Local_(t, [th[t] EXCEPT !.pc = "done"]) \/ Local_(t, [th[t] EXCEPT !.pc = "amend"])
        \/ Local_(t, Idle)
    BY <1>5 DEF CompleteEntry, Goto, Finish
  <2> QED BY <2>2, <2>3, <2>4, IdleOK
<1>6. CASE Amend(t)
  <2>1. [Idle EXCEPT !.pc = "save"] \in Local /\ LocalOK(t, [Idle EXCEPT !.pc = "save"])
    BY DEF Idle, Local, LocalOK, PCs, Jobs
  <2>2. Local_(t, [Idle EXCEPT !.pc = "save"]) \/ Local_(t, Idle)
    BY <1>6 DEF Amend, Finish
  <2> QED BY <2>1, <2>2, IdleOK
<1>7. CASE Wait(t)
  <2>1. th[t].pc = "wait" /\ th[t].pid \in Pids /\ th[t].job = "wait"
    BY <1>2, <1>7 DEF Wait, LocalOK
  <2> DEFINE d == [th[t] EXCEPT !.pc = "done", !.cur = th[t].pid, !.ret = "sweep"]
             s == [th[t] EXCEPT !.pc = "sweep"]
  <2>2. d \in Local /\ s \in Local
    BY <1>2, <2>1 DEF Local, PCs
  <2>3. LocalOK(t, d) /\ LocalOK(t, s)
    BY <1>2, <2>1 DEF LocalOK, Local
  <2>4. Local_(t, d) \/ Local_(t, s) \/ Local_(t, Idle)
    BY <1>7 DEF Wait, Finish, Goto
  <2> QED BY <2>2, <2>3, <2>4, IdleOK
<1>8. CASE \E x \in th[t].todo : Look(t, x)
  <2>1. PICK x \in th[t].todo : Look(t, x)
    BY <1>8
  <2> DEFINE seen == IF Running(x[1]) THEN occ[x[1]] ELSE 0
             m == [th[t] EXCEPT !.pc = "match", !.todo = @ \ {x}, !.cur = x[1], !.seen = seen]
  <2>2. x \in Pids \X (Ids \cup {0}) /\ th[t].pc = "look"
    BY <1>2, <2>1 DEF Local, Look
  <2>3. x[1] \in Pids /\ seen \in Ids \cup {0}
    BY <2>2 DEF TypeInv, TypeOK
  <2>4. Local_(t, m)
    BY <2>1 DEF Look
  <2> HIDE DEF seen
  <2>5. m \in Local
    BY <1>2, <2>3 DEF Local, PCs
  <2>6. LocalOK(t, m)
    BY <1>2, <2>2, <2>3 DEF LocalOK, Local
  <2> QED BY <2>4, <2>5, <2>6
<1>9. CASE \E p \in Pids : Complete(t, p)
  <2>1. PICK p \in Pids : Complete(t, p)
    BY <1>9
  <2> DEFINE m == [Idle EXCEPT !.pc = "complete", !.job = "complete", !.cur = p]
  <2>2. m \in Local
    BY DEF Local, Idle, PCs, Jobs
  <2>3. LocalOK(t, m)
    BY DEF LocalOK, Idle
  <2> QED BY <2>1, <2>2, <2>3 DEF Complete
<1>10. CASE \E p \in Pids, s \in BOOLEAN : Register(t, p, s)
  <2>1. PICK p \in Pids, s \in BOOLEAN : Register(t, p, s)
    BY <1>10
  <2> DEFINE m == [Idle EXCEPT !.pc = "record", !.job = "register", !.pid = p,
                               !.id = occ[p], !.starting = s]
  <2>2. occ[p] \in Ids /\ t \in Workers
    BY <2>1 DEF Register, Running, TypeInv, TypeOK, Threads
  <2>3. m \in Local
    BY <2>2 DEF Local, Idle, PCs, Jobs
  <2>4. LocalOK(t, m)
    BY <2>2 DEF LocalOK, Idle
  <2> QED BY <2>1, <2>3, <2>4 DEF Register
<1>11. CASE Bootstrap(t)
  <2> DEFINE S == {<<p, occ[p]>> : p \in {q \in Pids : Running(q) /\ born[occ[q]].kind = "goddess"}}
             m == [Idle EXCEPT !.pc = "boot", !.job = "bootstrap", !.todo = S]
  <2>1. S \in SUBSET (Pids \X (Ids \cup {0}))
    BY DEF TypeInv, TypeOK
  <2>2. Local_(t, m)
    BY <1>11 DEF Bootstrap
  <2> HIDE DEF S
  <2>3. m \in Local
    BY <2>1 DEF Local, Idle, PCs, Jobs
  <2>4. LocalOK(t, m)
    BY DEF LocalOK, Idle
  <2> QED BY <2>2, <2>3, <2>4
<1>12. CASE BootstrapCheck(t)
  <2> DEFINE P == {x[1] : x \in th[t].todo}
             S == {<<p, occ[p]>> : p \in {q \in P : Running(q)}}
             m == [th[t] EXCEPT !.pc = "bootapply", !.todo = S]
  <2>1. P \in SUBSET Pids
    BY <1>2 DEF Local
  <2>2. \A q \in P : Running(q) => occ[q] \in Ids
    BY <2>1 DEF TypeInv, TypeOK, Running
  <2>3. Local_(t, m) \/ Local_(t, Idle)
    BY <1>12 DEF BootstrapCheck, Finish
  <2> HIDE DEF P
  <2>4. S \in SUBSET (Pids \X Ids)
    BY <2>1, <2>2
  <2> HIDE DEF S
  <2>5. m \in Local
    BY <1>2, <2>4 DEF Local, PCs
  <2>6. LocalOK(t, m)
    BY <1>2, <1>12, <2>4 DEF LocalOK, Local, BootstrapCheck
  <2> QED BY <2>3, <2>5, <2>6, IdleOK
<1> QED BY <1>3, <1>4, <1>5, <1>6, <1>7, <1>8, <1>9, <1>10, <1>11, <1>12

\* A thread that goes to savestate, with nothing to come back to.
LEMMA SaveLocal ==
    [Idle EXCEPT !.pc = "save"] \in Local /\ \A t : LocalOK(t, [Idle EXCEPT !.pc = "save"])
BY DEF Idle, Local, LocalOK, PCs, Jobs

\* What a thread does after savestate.
LEMMA ResumeType ==
    ASSUME TypeInv, NEW t \in Threads, At(t, "write"), Resume(t)
    PROVE  /\ \E m \in Local : LocalOK(t, m) /\ Local_(t, m)
           /\ acked' \subseteq Ids
<1>1. th[t] \in Local /\ LocalOK(t, th[t]) /\ th[t].pc = "write"
  BY LocalType DEF At
<1>2. CASE th[t].ret = "ack"
  <2>1. th[t].id \in Ids /\ Local_(t, Idle) /\ acked' = acked \cup ({th[t].id} \ dead)
    BY <1>1, <1>2 DEF LocalOK, Resume, Finish
  <2> QED BY <2>1, IdleOK DEF TypeInv, TypeOK
<1>3. CASE th[t].ret = "idle"
  <2>1. Local_(t, Idle) /\ acked' = acked
    BY <1>3 DEF Resume, Finish
  <2> QED BY <2>1, IdleOK DEF TypeInv, TypeOK
<1>4. CASE th[t].ret \in {"sweep", "poll", "look"}
  <2> DEFINE m == [th[t] EXCEPT !.pc = th[t].ret, !.ret = "idle"]
  <2>1. Local_(t, m) /\ acked' = acked
    BY <1>4 DEF Resume
  <2>2. m \in Local
    BY <1>1, <1>4 DEF Local, PCs
  <2>3. LocalOK(t, m)
    BY <1>1, <1>4 DEF Local, LocalOK
  <2> QED BY <2>1, <2>2, <2>3 DEF TypeInv, TypeOK
<1> QED BY <1>1, <1>2, <1>3, <1>4 DEF Local

\* The steps of savestate keep the types.
LEMMA TypeSaving ==
    ASSUME TypeInv, NEW t \in Threads, SaveSnapshot(t) \/ SaveReplace(t) \/ SaveFails(t)
    PROVE  TypeInv'
<1>1. CASE SaveSnapshot(t)
  <2> DEFINE m == [th[t] EXCEPT !.pc = "write"]
  <2>1. m \in Local
    BY LocalType DEF Local, PCs
  <2>2. LocalOK(t, m)
    BY LocalType, <1>1 DEF Local, LocalOK, SaveSnapshot, At
  <2>3. Local_(t, m) /\ up
    BY <1>1 DEF SaveSnapshot, Goto, At
  <2> HIDE DEF m
  <2>4. th' \in [Threads -> Local] /\ \A u \in Threads : LocalOK(u, th'[u])
    BY <2>1, <2>2, <2>3, ThreadStep
  <2>5. snap' \in Checkpoint
    BY <1>1 DEF SaveSnapshot, Checkpoint, TypeInv, TypeOK
  <2> QED BY <2>4, <2>5, <1>1 DEF TypeInv, TypeOK, SaveSnapshot, kernel, registry, history, Quiet, At
<1>2. CASE SaveReplace(t) \/ SaveFails(t)
  <2>1. At(t, "write") /\ Resume(t) /\ up
    BY <1>2 DEF SaveReplace, SaveFails, At
  <2>2. PICK m \in Local : LocalOK(t, m) /\ Local_(t, m)
    BY <2>1, ResumeType
  <2>3. th' \in [Threads -> Local] /\ \A u \in Threads : LocalOK(u, th'[u])
    BY <2>1, <2>2, ThreadStep
  <2>4. acked' \subseteq Ids
    BY <2>1, ResumeType
  <2>5. /\ disk' \in Checkpoint /\ snap' \in Checkpoint /\ wlock' \in Threads \cup {None}
        /\ fails' \in 0 .. MaxFails
    BY <1>2, Numbers DEF SaveReplace, SaveFails, TypeInv, TypeOK, Quiet
  <2>6. UNCHANGED <<kernel, registry, edge, up, crashes>>
    BY <1>2 DEF SaveReplace, SaveFails, Quiet
  <2> QED BY <2>1, <2>3, <2>4, <2>5, <2>6 DEF TypeInv, TypeOK, kernel, registry
<1> QED BY <1>1, <1>2

\* The entry of an ended process.
LEMMA RecordDoneFacts ==
    ASSUME TypeInv, NEW p \in Pids, recorddone(p)
    PROVE  /\ OPMETA' \in [Pids -> Active \cup {None}] /\ COMPLETED' \in [Pids -> Done \cup {None}]
           /\ PROCESSES' \in [Pids -> Ids \cup {0}] /\ READYPENDING' = READYPENDING \ {p}
           /\ OPMETA'[p] = None /\ \A q \in Pids \ {p} : OPMETA'[q] = OPMETA[q]
           /\ PROCESSES'[p] = 0 /\ \A q \in Pids \ {p} : PROCESSES'[q] = PROCESSES[q]
           /\ \A q \in Pids : COMPLETED'[q] # None => q = p \/ COMPLETED[q] # None
           /\ Distinct(COMPLETED) => Distinct(COMPLETED')
<1> DEFINE ids == [q \in {p} |-> IF OPMETA[p] = None THEN 0 ELSE OPMETA[p].id]
<1>1. OPMETA \in [Pids -> Active \cup {None}] /\ COMPLETED \in [Pids -> Done \cup {None}]
      /\ PROCESSES \in [Pids -> Ids \cup {0}]
  BY DEF TypeInv, TypeOK
<1>2. \A q \in {p} : ids[q] \in Ids \cup {0}
  BY <1>1 DEF Active
<1>3. COMPLETED' = Ended(COMPLETED, {p}, ids)
  BY DEF recorddone
<1> HIDE DEF ids
<1>4. /\ COMPLETED' \in [Pids -> Done \cup {None}]
      /\ \A q \in Pids : COMPLETED'[q] # None => q \in {p} \/ COMPLETED[q] # None
      /\ Distinct(COMPLETED) => Distinct(COMPLETED')
  BY <1>1, <1>2, <1>3, EndedFacts
<1>5. /\ OPMETA' = [OPMETA EXCEPT ![p] = None] /\ PROCESSES' = [PROCESSES EXCEPT ![p] = 0]
      /\ READYPENDING' = READYPENDING \ {p}
  BY DEF recorddone
<1> QED BY <1>1, <1>4, <1>5

\* recorddone keeps the types.
LEMMA TypeRecordDone ==
    ASSUME TypeInv, NEW t \in Threads, RecordDone(t)
    PROVE  TypeInv'
<1> DEFINE m == [th[t] EXCEPT !.pc = "save", !.cur = 0]
<1>1. th[t] \in Local /\ LocalOK(t, th[t]) /\ th[t].pc = "done" /\ up /\ Local_(t, m)
  BY LocalType DEF RecordDone, At
<1>2. m \in Local
  BY <1>1 DEF Local, PCs
<1>3. LocalOK(t, m)
  BY <1>1 DEF LocalOK, Local
<1> HIDE DEF m
<1>4. th' \in [Threads -> Local] /\ \A u \in Threads : LocalOK(u, th'[u])
  BY <1>1, <1>2, <1>3, ThreadStep
<1>5. th[t].cur \in Pids /\ recorddone(th[t].cur)
  BY <1>1 DEF LocalOK, RecordDone
<1>6. /\ OPMETA' \in [Pids -> Active \cup {None}] /\ COMPLETED' \in [Pids -> Done \cup {None}]
      /\ PROCESSES' \in [Pids -> Ids \cup {0}] /\ READYPENDING' = READYPENDING \ {th[t].cur}
  BY <1>5, RecordDoneFacts
<1> QED BY <1>1, <1>4, <1>6 DEF TypeInv, TypeOK, RecordDone, kernel, saving, history, Quiet

\* The entry of a launched or registered process.
LEMMA RecordStartFacts ==
    ASSUME TypeInv, NEW p \in Pids, NEW i \in Ids, NEW s \in BOOLEAN, NEW child,
           recordstart(p, i, s, child)
    PROVE  /\ OPMETA' \in [Pids -> Active \cup {None}] /\ COMPLETED' \in [Pids -> Done \cup {None}]
           /\ PROCESSES' \in [Pids -> Ids \cup {0}] /\ READYPENDING' = READYPENDING \ {p}
           /\ OPMETA'[p] # None /\ OPMETA'[p].id = i
           /\ OPMETA'[p].starting => s /\ p \notin READYPENDING
           /\ \A q \in Pids \ {p} : OPMETA'[q] = OPMETA[q]
           /\ PROCESSES'[p] \in {i, PROCESSES[p]} /\ \A q \in Pids \ {p} : PROCESSES'[q] = PROCESSES[q]
           /\ \A q \in Pids : COMPLETED'[q] # None => q # p /\ COMPLETED[q] # None
           /\ Distinct(COMPLETED) => Distinct(COMPLETED')
<1> DEFINE b == s /\ p \notin READYPENDING
           e == [id |-> i, starting |-> b]
<1>1. OPMETA \in [Pids -> Active \cup {None}] /\ COMPLETED \in [Pids -> Done \cup {None}]
      /\ PROCESSES \in [Pids -> Ids \cup {0}]
  BY DEF TypeInv, TypeOK
<1>3. OPMETA' = [OPMETA EXCEPT ![p] = e]
  BY DEF recordstart
<1>9. b \in BOOLEAN /\ (b => s /\ p \notin READYPENDING)
  OBVIOUS
<1> HIDE DEF b
<1>2. e \in Active /\ e # None /\ e.id = i /\ e.starting = b
  BY <1>9, Numbers DEF Active
<1>4. COMPLETED' = Forget(COMPLETED, {p})
  BY DEF recordstart
<1> HIDE DEF e
<1>5. /\ COMPLETED' \in [Pids -> Done \cup {None}]
      /\ \A q \in Pids : COMPLETED'[q] # None => q \notin {p} /\ COMPLETED[q] # None
      /\ Distinct(COMPLETED) => Distinct(COMPLETED')
  BY <1>1, <1>4, ForgetFacts
<1>6. /\ PROCESSES' = IF child THEN [PROCESSES EXCEPT ![p] = i] ELSE PROCESSES
      /\ READYPENDING' = READYPENDING \ {p}
  BY DEF recordstart
<1>7. /\ OPMETA' \in [Pids -> Active \cup {None}] /\ OPMETA'[p] = e
      /\ \A q \in Pids \ {p} : OPMETA'[q] = OPMETA[q]
  BY <1>1, <1>2, <1>3
<1>8. /\ PROCESSES' \in [Pids -> Ids \cup {0}] /\ PROCESSES'[p] \in {i, PROCESSES[p]}
      /\ \A q \in Pids \ {p} : PROCESSES'[q] = PROCESSES[q]
  BY <1>1, <1>6
<1>10. OPMETA'[p].starting = b
  BY <1>2, <1>7
<1> QED BY <1>2, <1>5, <1>6, <1>7, <1>8, <1>9, <1>10

\* recordstart keeps the types.
LEMMA TypeRecordStart ==
    ASSUME TypeInv, NEW t \in Threads, RecordStart(t)
    PROVE  TypeInv'
<1> DEFINE m == [th[t] EXCEPT !.pc = "save", !.ret = "ack"]
<1>1. th[t] \in Local /\ LocalOK(t, th[t]) /\ th[t].pc = "record" /\ up /\ Local_(t, m)
  BY LocalType DEF RecordStart, At, Saves
<1>2. m \in Local
  BY <1>1 DEF Local, PCs
<1>3. LocalOK(t, m)
  BY <1>1 DEF LocalOK, Local
<1> HIDE DEF m
<1>4. th' \in [Threads -> Local] /\ \A u \in Threads : LocalOK(u, th'[u])
  BY <1>1, <1>2, <1>3, ThreadStep
<1>5. /\ th[t].pid \in Pids /\ th[t].id \in Ids /\ th[t].starting \in BOOLEAN
      /\ recordstart(th[t].pid, th[t].id, th[t].starting, th[t].job = "launch")
  BY <1>1 DEF LocalOK, Local, RecordStart
<1>6. /\ OPMETA' \in [Pids -> Active \cup {None}] /\ COMPLETED' \in [Pids -> Done \cup {None}]
      /\ PROCESSES' \in [Pids -> Ids \cup {0}] /\ READYPENDING' = READYPENDING \ {th[t].pid}
  BY <1>5, RecordStartFacts
<1> QED BY <1>1, <1>4, <1>6 DEF TypeInv, TypeOK, RecordStart, kernel, saving, history, Quiet

\* Polling a tracked child keeps the types.
LEMMA TypePoll ==
    ASSUME TypeInv, NEW t \in Threads, NEW x \in th[t].todo, Poll(t, x)
    PROVE  TypeInv'
<1> DEFINE a == [th[t] EXCEPT !.todo = @ \ {x}]
           b == [a EXCEPT !.pc = "done", !.cur = x[1], !.ret = "poll"]
<1>1. th[t] \in Local /\ LocalOK(t, th[t]) /\ th[t].pc = "poll" /\ up
  BY LocalType DEF Poll, At
<1>2. x \in Pids \X (Ids \cup {0}) /\ x[1] \in Pids /\ (Local_(t, a) \/ Local_(t, b))
  BY <1>1 DEF Local, Poll
<1>3. a \in Local /\ b \in Local
  BY <1>1, <1>2 DEF Local, PCs
<1>4. LocalOK(t, a) /\ LocalOK(t, b)
  BY <1>1, <1>2 DEF LocalOK, Local
<1>5. occ' \in [Pids -> Ids \cup {0}] /\ mine' \subseteq Ids
  BY DEF Poll, TypeInv, TypeOK
<1> HIDE DEF a, b
<1>6. th' \in [Threads -> Local] /\ \A u \in Threads : LocalOK(u, th'[u])
  BY <1>1, <1>2, <1>3, <1>4, ThreadStep
<1> QED BY <1>1, <1>5, <1>6 DEF TypeInv, TypeOK, Poll, registry, saving, history, Quiet

\* The end of a sweep, which drops READYPENDING entries, keeps the types.
LEMMA TypeSweepEnd ==
    ASSUME TypeInv, NEW t \in Threads, NEW S, SweepEnd(t, S)
    PROVE  TypeInv'
<1> DEFINE a == [th[t] EXCEPT !.pc = th[t].job]
<1>1. th[t] \in Local /\ LocalOK(t, th[t]) /\ th[t].pc = "look" /\ up
  BY LocalType DEF SweepEnd, At
<1>2. Local_(t, Idle) \/ (th[t].job # "reap" /\ Local_(t, a))
  BY DEF SweepEnd, Finish, Goto
<1>3. th[t].job # "reap" => th[t].job \in {"kill", "wait"} /\ th[t].pid \in Pids
  BY <1>1 DEF LocalOK, Local
<1>4. th[t].job # "reap" => a \in Local
  BY <1>1, <1>3 DEF Local, PCs
<1>5. th[t].job # "reap" => LocalOK(t, a)
  BY <1>1, <1>3 DEF LocalOK, Local
<1> HIDE DEF a
<1>6. th' \in [Threads -> Local] /\ \A u \in Threads : LocalOK(u, th'[u])
  BY <1>1, <1>2, <1>4, <1>5, IdleOK, ThreadStep
<1> QED BY <1>1, <1>6 DEF TypeInv, TypeOK, SweepEnd, kernel, saving, history, Quiet

\* A new process has the next identity.
LEMMA StartType ==
    ASSUME TypeInv, NEW p \in Pids, NEW kind \in Kinds, Start(p, kind)
    PROVE  /\ nid + 1 \in Ids /\ nid' = nid + 1 /\ nid' \in 0 .. MaxId /\ nid \in Nat
           /\ occ' \in [Pids -> Ids \cup {0}]
           /\ born' \in [Ids -> [pid : Pids \cup {0}, kind : Kinds]]
           /\ occ'[p] = nid + 1 /\ \A q \in Pids \ {p} : occ'[q] = occ[q]
           /\ born'[nid + 1] = [pid |-> p, kind |-> kind]
           /\ \A i \in Ids \ {nid + 1} : born'[i] = born[i]
           /\ occ[p] = 0
<1>1. nid \in 0 .. MaxId /\ nid < MaxId /\ MaxId \in Nat /\ nid' = nid + 1
  BY Numbers DEF Start, Reusable, TypeInv, TypeOK
<1>2. nid + 1 \in Ids /\ nid' \in 0 .. MaxId /\ nid \in Nat
  BY <1>1 DEF Ids
<1>3. occ' \in [Pids -> Ids \cup {0}] /\ occ'[p] = nid + 1 /\ \A q \in Pids \ {p} : occ'[q] = occ[q]
  BY <1>2 DEF Start, TypeInv, TypeOK
<1> DEFINE b == [pid |-> p, kind |-> kind]
<1>4. b \in [pid : Pids \cup {0}, kind : Kinds] /\ born' = [born EXCEPT ![nid + 1] = b]
      /\ born \in [Ids -> [pid : Pids \cup {0}, kind : Kinds]]
  BY DEF Start, TypeInv, TypeOK
<1> HIDE DEF b
<1>5. /\ born' \in [Ids -> [pid : Pids \cup {0}, kind : Kinds]]
      /\ born'[nid + 1] = b /\ \A i \in Ids \ {nid + 1} : born'[i] = born[i]
  BY <1>2, <1>4
<1> QED BY <1>1, <1>2, <1>3, <1>5 DEF b, Start, Reusable

\* Launching a child keeps the types.
LEMMA TypeLaunch ==
    ASSUME TypeInv, NEW t \in Threads, NEW p \in Pids, Launch(t, p)
    PROVE  TypeInv'
<1> DEFINE m == [Idle EXCEPT !.pc = "record", !.job = "launch", !.pid = p,
                             !.id = nid + 1, !.starting = TRUE]
<1>1. /\ nid + 1 \in Ids /\ nid' \in 0 .. MaxId /\ occ' \in [Pids -> Ids \cup {0}]
      /\ born' \in [Ids -> [pid : Pids \cup {0}, kind : Kinds]]
  BY StartType DEF Launch, Kinds
<1>2. up /\ t \in Workers /\ Local_(t, m)
  BY DEF Launch, At, Threads
<1>3. m \in Local
  BY <1>1 DEF Local, Idle, PCs, Jobs
<1>4. LocalOK(t, m)
  BY <1>1, <1>2 DEF LocalOK, Idle
<1> HIDE DEF m
<1>5. th' \in [Threads -> Local] /\ \A u \in Threads : LocalOK(u, th'[u])
  BY <1>2, <1>3, <1>4, ThreadStep
<1>6. mine' \subseteq Ids
  BY <1>1 DEF Launch, TypeInv, TypeOK
<1> QED BY <1>1, <1>2, <1>5, <1>6 DEF TypeInv, TypeOK, Launch, registry, saving, history, Quiet

\* A process started elsewhere keeps the types.
LEMMA TypeSpawn ==
    ASSUME TypeInv, NEW p \in Pids, NEW kind \in Kinds, Spawn(p, kind)
    PROVE  TypeInv'
<1>1. /\ nid' \in 0 .. MaxId /\ occ' \in [Pids -> Ids \cup {0}]
      /\ born' \in [Ids -> [pid : Pids \cup {0}, kind : Kinds]]
  BY StartType DEF Spawn
<1> QED BY <1>1 DEF TypeInv, TypeOK, Spawn, registry, saving, history

\* An entry that no longer is starting.
LEMMA StartedFacts ==
    ASSUME TypeInv, NEW p \in Pids, OPMETA[p] # None,
           OPMETA' = [OPMETA EXCEPT ![p].starting = FALSE]
    PROVE  /\ OPMETA' \in [Pids -> Active \cup {None}]
           /\ OPMETA'[p] # None /\ OPMETA'[p].id = OPMETA[p].id /\ ~OPMETA'[p].starting
           /\ \A q \in Pids \ {p} : OPMETA'[q] = OPMETA[q]
<1>1. OPMETA \in [Pids -> Active \cup {None}] /\ OPMETA[p] \in Active
  BY DEF TypeInv, TypeOK
<1> DEFINE e == [OPMETA[p] EXCEPT !.starting = FALSE]
<1>2. e \in Active /\ e.id = OPMETA[p].id /\ ~e.starting /\ e # None
  BY <1>1, Numbers DEF Active
<1>3. OPMETA' = [OPMETA EXCEPT ![p] = e]
  OBVIOUS
<1> HIDE DEF e
<1>4. OPMETA' \in [Pids -> Active \cup {None}] /\ OPMETA'[p] = e
      /\ \A q \in Pids \ {p} : OPMETA'[q] = OPMETA[q]
  BY <1>1, <1>2, <1>3
<1> QED BY <1>2, <1>4

\* A readiness report keeps the types.
LEMMA TypeReady ==
    ASSUME TypeInv, NEW t \in Threads, NEW p \in Pids, Ready(t, p)
    PROVE  TypeInv'
<1>1. up /\ Running(p)
  BY DEF Ready, At
<1>2. th' \in [Threads -> Local] /\ \A u \in Threads : LocalOK(u, th'[u])
  <2>1. Local_(t, [Idle EXCEPT !.pc = "save"]) \/ th' = th
    BY DEF Ready
  <2>2. CASE th' = th
    BY <2>2 DEF TypeInv, TypeOK
  <2> QED BY <2>1, <2>2, <1>1, SaveLocal, ThreadStep
<1>3. OPMETA' \in [Pids -> Active \cup {None}] /\ READYPENDING' \subseteq Pids
  BY StartedFacts DEF Ready, TypeInv, TypeOK
<1>4. edge' \subseteq Ids
  BY DEF Ready, Running, TypeInv, TypeOK
<1> QED BY <1>1, <1>2, <1>3, <1>4 DEF TypeInv, TypeOK, Ready, kernel, saving, Quiet

\* Marking the entry of a process that is being stopped keeps the types.
LEMMA TypeMark ==
    ASSUME TypeInv, NEW t \in Threads, Mark(t)
    PROVE  TypeInv'
<1>1. up /\ th[t].pid \in Pids
  BY LocalType DEF Mark, At, LocalOK
<1>2. th' \in [Threads -> Local] /\ \A u \in Threads : LocalOK(u, th'[u])
  BY <1>1, SaveLocal, ThreadStep DEF Mark
<1>3. OPMETA' \in [Pids -> Active \cup {None}]
  BY <1>1, StartedFacts DEF Mark, TypeInv, TypeOK
<1> QED BY <1>1, <1>2, <1>3 DEF TypeInv, TypeOK, Mark, kernel, saving, history, Quiet

\* Ending a process by request keeps the types.
LEMMA TypeKill ==
    ASSUME TypeInv, NEW t \in Threads, Kill(t)
    PROVE  TypeInv'
<1>1. th[t] \in Local /\ LocalOK(t, th[t]) /\ th[t].pc = "kill" /\ up /\ th[t].pid \in Pids
  BY LocalType DEF Kill, At, LocalOK
<1> DEFINE m == [th[t] EXCEPT !.pc = "mark"]
<1>2. m \in Local
  BY <1>1 DEF Local, PCs
<1>3. LocalOK(t, m)
  BY <1>1 DEF LocalOK, Local
<1>4. Local_(t, m) \/ Local_(t, Idle)
  BY DEF Kill, Goto, Finish
<1> HIDE DEF m
<1>5. th' \in [Threads -> Local] /\ \A u \in Threads : LocalOK(u, th'[u])
  BY <1>1, <1>2, <1>3, <1>4, IdleOK, ThreadStep
<1>6. dead' \subseteq Ids /\ acked' \subseteq Ids /\ edge' \subseteq Ids
  BY <1>1 DEF Kill, Die, history, TypeInv, TypeOK, Active
<1> QED BY <1>1, <1>5, <1>6 DEF TypeInv, TypeOK, Kill, registry, saving, Quiet

\* The end of a process, and its zombie's, keep the types.
LEMMA TypeProcess ==
    ASSUME TypeInv, NEW p \in Pids, Exit(p) \/ Reaped(p)
    PROVE  TypeInv'
<1>1. dead' \subseteq Ids /\ acked' \subseteq Ids /\ edge' \subseteq Ids /\ occ' \in [Pids -> Ids \cup {0}]
  BY DEF Exit, Reaped, Die, Running, history, TypeInv, TypeOK
<1> QED BY <1>1 DEF TypeInv, TypeOK, Exit, Reaped, registry, saving, history

\* loadstate builds entries of the right type.
LEMMA RecoveredType ==
    ASSUME TypeInv
    PROVE  Recovered \in [Pids -> Active \cup {None}]
BY DEF TypeInv, TypeOK, Checkpoint, Recovered

\* A crash of the server and its restart keep the types.
LEMMA TypeCrash == TypeInv /\ (Crash \/ Restart) => TypeInv'
<1> SUFFICES ASSUME TypeInv, Crash \/ Restart PROVE TypeInv'
  OBVIOUS
<1>1. CASE Crash
  <2>1. \A u \in Threads : th'[u] = Idle
    BY <1>1 DEF Crash
  <2>2. th' \in [Threads -> Local] /\ \A u \in Threads : LocalOK(u, th'[u])
    BY <2>1, <1>1, IdleOK DEF Crash
  <2>3. /\ OPMETA' \in [Pids -> Active \cup {None}] /\ COMPLETED' \in [Pids -> Done \cup {None}]
        /\ PROCESSES' \in [Pids -> Ids \cup {0}] /\ READYPENDING' \subseteq Pids
    BY <1>1 DEF Crash, Empty
  <2>4. crashes' \in 0 .. MaxCrashes /\ snap' \in Checkpoint /\ up' = FALSE
    BY <1>1, Numbers DEF Crash, TypeInv, TypeOK
  <2> QED BY <1>1, <2>1, <2>2, <2>3, <2>4 DEF TypeInv, TypeOK, Crash
<1>2. CASE Restart
  <2>1. OPMETA' \in [Pids -> Active \cup {None}] /\ COMPLETED' \in [Pids -> Done \cup {None}]
    BY <1>2, RecoveredType DEF Restart, TypeInv, TypeOK, Checkpoint
  <2> QED BY <1>2, <2>1 DEF TypeInv, TypeOK, Restart, kernel, saving, history
<1> QED BY <1>1, <1>2

\* What GODDESS's list does to the registry: its entries that are not on the list end, and a
\* pid on the list has an entry for the process the list names.
LEMMA ApplyFacts ==
    ASSUME TypeInv, NEW t \in Threads, BootstrapApply(t)
    PROVE  /\ OPMETA' \in [Pids -> Active \cup {None}] /\ COMPLETED' \in [Pids -> Done \cup {None}]
           /\ PROCESSES' \in [Pids -> Ids \cup {0}] /\ READYPENDING' \subseteq READYPENDING
           /\ \A p \in Pids :
                \/ /\ OPMETA[p] # None /\ born[OPMETA[p].id].kind = "goddess"
                   /\ OPMETA'[p] = None /\ PROCESSES'[p] = 0
                \/ /\ OPMETA'[p] # None /\ <<p, OPMETA'[p].id>> \in th[t].todo
                   /\ ~OPMETA'[p].starting /\ COMPLETED'[p] = None
                   /\ PROCESSES'[p] = PROCESSES[p] /\ (p \in READYPENDING => p \in READYPENDING')
                \/ /\ OPMETA'[p] = OPMETA[p] /\ PROCESSES'[p] = PROCESSES[p]
                   /\ (p \in READYPENDING => p \in READYPENDING')
                   /\ (COMPLETED[p] = None => COMPLETED'[p] = None)
           /\ Distinct(COMPLETED) => Distinct(COMPLETED')
<1> DEFINE todo == th[t].todo
           accepted == {x[1] : x \in todo}
           gone == {p \in Pids \ accepted : OPMETA[p] # None /\ born[OPMETA[p].id].kind = "goddess"}
           same(p) == OPMETA[p] # None /\ <<p, OPMETA[p].id>> \in todo
           i(p) == CHOOSE j \in Ids : <<p, j>> \in todo
           new(p) == [id |-> i(p), starting |-> FALSE]
           ids == [p \in gone |-> OPMETA[p].id]
<1>1. OPMETA \in [Pids -> Active \cup {None}] /\ COMPLETED \in [Pids -> Done \cup {None}]
      /\ PROCESSES \in [Pids -> Ids \cup {0}] /\ READYPENDING \subseteq Pids
  BY DEF TypeInv, TypeOK
<1>2. todo \subseteq Pids \X Ids /\ accepted \in SUBSET Pids /\ gone \in SUBSET Pids
  <2>1. todo \subseteq Pids \X Ids
    BY LocalType DEF BootstrapApply, At, LocalOK
  <2> QED BY <2>1
<1>3. /\ OPMETA' = [p \in Pids |-> IF p \in gone THEN None
                                   ELSE IF p \in accepted /\ ~same(p) THEN new(p) ELSE OPMETA[p]]
      /\ COMPLETED' = Ended(Forget(COMPLETED, accepted), gone, ids)
      /\ PROCESSES' = [p \in Pids |-> IF p \in gone THEN 0 ELSE PROCESSES[p]]
      /\ READYPENDING' = READYPENDING \ gone
  BY DEF BootstrapApply
<1>4. \A p \in gone : /\ OPMETA[p] # None /\ born[OPMETA[p].id].kind = "goddess"
                      /\ ids[p] \in Ids \cup {0} /\ p \notin accepted
  BY <1>1 DEF Active
<1>5. \A p \in accepted : \E j \in Ids : <<p, j>> \in todo
  BY <1>2
<1>6. \A p \in accepted : i(p) \in Ids /\ <<p, i(p)>> \in todo
  BY <1>5
<1>7. \A p \in Pids : p \notin accepted => ~same(p)
  <2> TAKE p \in Pids
  <2>1. ASSUME same(p) PROVE p \in accepted
    <3>1. <<p, OPMETA[p].id>> \in todo /\ <<p, OPMETA[p].id>>[1] = p
      BY <2>1
    <3> QED BY <3>1
  <2> QED BY <2>1
<1> HIDE DEF accepted, gone, i, ids
<1>8. \A p \in accepted : new(p) \in Active /\ new(p) # None /\ new(p).id = i(p) /\ ~new(p).starting
  <2> TAKE p \in accepted
  <2>1. i(p) \in Ids
    BY <1>6
  <2> HIDE DEF i
  <2>2. new(p) \in Active /\ new(p).id = i(p) /\ ~new(p).starting
    BY <2>1 DEF Active
  <2> QED BY <2>2, Numbers
<1>9. \A p \in Pids : same(p) => OPMETA[p] # None /\ <<p, OPMETA[p].id>> \in todo
  OBVIOUS
<1> HIDE DEF new, same, todo
<1>10. /\ Forget(COMPLETED, accepted) \in [Pids -> Done \cup {None}]
       /\ \A q \in Pids : Forget(COMPLETED, accepted)[q] # None => q \notin accepted /\ COMPLETED[q] # None
       /\ Distinct(COMPLETED) => Distinct(Forget(COMPLETED, accepted))
  BY <1>1, <1>2, ForgetFacts
<1>11. /\ COMPLETED' \in [Pids -> Done \cup {None}]
       /\ \A q \in Pids : COMPLETED'[q] # None => q \in gone \/ Forget(COMPLETED, accepted)[q] # None
       /\ Distinct(Forget(COMPLETED, accepted)) => Distinct(COMPLETED')
  <2> DEFINE F == Forget(COMPLETED, accepted)
  <2>1. F \in [Pids -> Done \cup {None}] /\ gone \in SUBSET Pids
    BY <1>2, <1>10
  <2>2. \A p \in gone : ids[p] \in Ids \cup {0}
    BY <1>4
  <2>3. COMPLETED' = Ended(F, gone, ids)
    BY <1>3
  <2> HIDE DEF F
  <2>4. /\ COMPLETED' \in [Pids -> Done \cup {None}]
        /\ \A q \in Pids : COMPLETED'[q] # None => q \in gone \/ F[q] # None
        /\ Distinct(F) => Distinct(COMPLETED')
    BY <2>1, <2>2, <2>3, EndedFacts
  <2> QED BY <2>4 DEF F
<1>12. \A q \in Pids : COMPLETED'[q] # None => q \in gone \/ (q \notin accepted /\ COMPLETED[q] # None)
  BY <1>10, <1>11
<1>13. /\ OPMETA' \in [Pids -> Active \cup {None}] /\ PROCESSES' \in [Pids -> Ids \cup {0}]
       /\ READYPENDING' \subseteq READYPENDING
  BY <1>1, <1>3, <1>8
<1>14. ASSUME NEW p \in Pids
       PROVE \/ /\ OPMETA[p] # None /\ born[OPMETA[p].id].kind = "goddess"
                /\ OPMETA'[p] = None /\ PROCESSES'[p] = 0
             \/ /\ OPMETA'[p] # None /\ <<p, OPMETA'[p].id>> \in todo
                /\ ~OPMETA'[p].starting /\ COMPLETED'[p] = None
                /\ PROCESSES'[p] = PROCESSES[p] /\ (p \in READYPENDING => p \in READYPENDING')
             \/ /\ OPMETA'[p] = OPMETA[p] /\ PROCESSES'[p] = PROCESSES[p]
                /\ (p \in READYPENDING => p \in READYPENDING')
                /\ (COMPLETED[p] = None => COMPLETED'[p] = None)
  <2>1. CASE p \in gone
    <3>1. OPMETA'[p] = None /\ PROCESSES'[p] = 0
      BY <2>1, <1>3
    <3> QED BY <2>1, <3>1, <1>4
  <2>2. CASE p \notin gone /\ p \in accepted /\ ~same(p)
    <3>1. OPMETA'[p] = new(p) /\ PROCESSES'[p] = PROCESSES[p] /\ (p \in READYPENDING => p \in READYPENDING')
      BY <2>2, <1>3
    <3>2. COMPLETED'[p] = None
      BY <2>2, <1>12
    <3> QED BY <2>2, <3>1, <3>2, <1>6, <1>8
  <2>3. CASE p \notin gone /\ (p \notin accepted \/ same(p))
    <3>1. OPMETA'[p] = OPMETA[p] /\ PROCESSES'[p] = PROCESSES[p] /\ (p \in READYPENDING => p \in READYPENDING')
      BY <2>3, <1>3
    <3>2. COMPLETED[p] = None => COMPLETED'[p] = None
      BY <2>3, <1>12
    <3> QED BY <3>1, <3>2
  <2> QED BY <2>1, <2>2, <2>3
<1> QED BY <1>10, <1>11, <1>13, <1>14 DEF todo

\* Applying a list of GODDESS's processes keeps the types.
LEMMA TypeApply ==
    ASSUME TypeInv, NEW t \in Threads, BootstrapApply(t)
    PROVE  TypeInv'
<1>1. up /\ Local_(t, [Idle EXCEPT !.pc = "save"])
  BY DEF BootstrapApply, At
<1>2. th' \in [Threads -> Local] /\ \A u \in Threads : LocalOK(u, th'[u])
  BY <1>1, SaveLocal, ThreadStep
<1>3. /\ OPMETA' \in [Pids -> Active \cup {None}] /\ COMPLETED' \in [Pids -> Done \cup {None}]
      /\ PROCESSES' \in [Pids -> Ids \cup {0}] /\ READYPENDING' \subseteq READYPENDING
  BY ApplyFacts
<1>4. UNCHANGED <<kernel, saving, history>> /\ Quiet
  BY DEF BootstrapApply
<1> QED BY <1>1, <1>2, <1>3, <1>4 DEF TypeInv, TypeOK, kernel, saving, history, Quiet

\* The steps that change nothing but a thread's locals.
Thinking(t) ==
    \/ \E job \in {"reap", "kill", "wait"}, p \in Pids \cup {0} : Begin(t, job, p)
    \/ Again(t) \/ External(t) \/ Match(t) \/ CompleteEntry(t) \/ Amend(t) \/ Wait(t)
    \/ \E x \in th[t].todo : Look(t, x)
    \/ \E p \in Pids : Complete(t, p)
    \/ \E p \in Pids, s \in BOOLEAN : Register(t, p, s)
    \/ Bootstrap(t) \/ BootstrapCheck(t)

\* Such a step leaves kernel, registry and checkpoint alone.
LEMMA ThinkingFacts ==
    ASSUME NEW t \in Threads, Thinking(t)
    PROVE  /\ up /\ UNCHANGED <<kernel, registry, saving, history>> /\ Quiet
           /\ \E m : Local_(t, m)
<1>1. up /\ UNCHANGED <<kernel, registry, saving, history>> /\ Quiet
  BY DEF Thinking, Begin, Again, External, Match, CompleteEntry, Amend, Wait, Look, Complete, Register,
         Bootstrap, BootstrapCheck, At
<1>2. \E m : Local_(t, m)
  BY DEF Thinking, Begin, Again, External, Match, CompleteEntry, Amend, Wait, Look, Complete, Register,
         Bootstrap, BootstrapCheck, Sweep, Goto, Finish
<1> QED BY <1>1, <1>2

\* Every step, by what it is; the proofs below go through these cases.
LEMMA Steps ==
    ASSUME [Next]_vars
    PROVE  \/ \E t \in Threads :
                \/ Thinking(t)
                \/ SaveSnapshot(t) \/ SaveReplace(t) \/ SaveFails(t)
                \/ \E x \in th[t].todo : Poll(t, x)
                \/ RecordDone(t)
                \/ \E S : SweepEnd(t, S)
                \/ \E p \in Pids : Launch(t, p)
                \/ RecordStart(t)
                \/ \E p \in Pids : Ready(t, p)
                \/ Kill(t) \/ Mark(t) \/ BootstrapApply(t)
           \/ \E p \in Pids, kind \in Kinds : Spawn(p, kind)
           \/ \E p \in Pids : Exit(p) \/ Reaped(p)
           \/ Crash \/ Restart \/ UNCHANGED vars
<1>1. CASE \E t \in Threads : Serve(t)
  BY <1>1 DEF Serve, Thinking
<1>2. CASE \E t \in Threads : Request(t)
  BY <1>2 DEF Request, Thinking
<1>3. "prog" \in Kinds /\ "goddess" \in Kinds
  BY DEF Kinds
<1> QED BY <1>1, <1>2, <1>3 DEF Next

\* The type invariant is inductive.
LEMMA TypeNext ==
    ASSUME TypeInv, [Next]_vars
    PROVE  TypeInv'
<1>1. CASE UNCHANGED vars
  BY <1>1 DEF TypeInv, TypeOK, vars, kernel, registry, saving, history
<1>2. ASSUME NEW t \in Threads, \E x \in th[t].todo : Poll(t, x)
      PROVE  TypeInv'
  BY <1>2, TypePoll
<1>3. ASSUME NEW t \in Threads, \E S : SweepEnd(t, S)
      PROVE  TypeInv'
  BY <1>3, TypeSweepEnd
<1>4. ASSUME NEW t \in Threads, Thinking(t)
      PROVE  TypeInv'
  BY <1>4, TypeBegin, TypeAgain, TypeThink DEF Thinking
<1> QED BY <1>1, <1>2, <1>3, <1>4, Steps, TypeSaving, TypeRecordDone, TypeRecordStart, TypeLaunch,
           TypeSpawn, TypeReady, TypeMark, TypeKill, TypeApply, TypeProcess, TypeCrash

\* The empty registry has the right types.
LEMMA TypeInit == Init => TypeInv
<1> SUFFICES ASSUME Init PROVE TypeInv
  OBVIOUS
<1>1. th \in [Threads -> Local] /\ \A u \in Threads : th[u] = Idle /\ LocalOK(u, th[u])
  BY IdleOK DEF Init
<1>2. [pid |-> 0, kind |-> "prog"] \in [pid : Pids \cup {0}, kind : Kinds]
  BY DEF Kinds
<1>3. born \in [Ids -> [pid : Pids \cup {0}, kind : Kinds]]
  BY <1>2 DEF Init
<1>4. disk \in Checkpoint /\ snap \in Checkpoint
  BY DEF Init, Checkpoint, Empty
<1> QED BY <1>1, <1>3, <1>4, Numbers DEF Init, TypeInv, TypeOK, Empty

\* Every handler, sweep, checkpoint, crash and restart keeps the registry's types, and the
\* locals a thread uses at a program point are set when it gets there.
THEOREM RegistryTypeCorrect == Spec => []TypeOK
<1>1. TypeInv /\ [Next]_vars => TypeInv'
  BY TypeNext
<1>2. TypeInv => TypeOK
  BY DEF TypeInv
<1> QED BY TypeInit, <1>1, <1>2, PTL DEF Spec

(* --------------------------- One record per pid --------------------------- *)

One(A, C) == (\A p \in Pids : A[p] # None => C[p] = None) /\ Distinct(C)

RecordsHold ==
    /\ One(OPMETA, COMPLETED)
    /\ One(disk.active, disk.completed)
    /\ One(snap.active, snap.completed)
    /\ \A p \in Pids : PROCESSES[p] # 0 => up /\ OPMETA[p] # None

\* The steps that leave the registry's entries and the checkpoint alone, and the others.
LEMMA EntriesKept ==
    ASSUME [Next]_vars
    PROVE  \/ UNCHANGED <<OPMETA, COMPLETED, PROCESSES, disk, wlock, snap, up, fails>>
           \/ \E t \in Threads : \/ SaveSnapshot(t) \/ SaveReplace(t) \/ SaveFails(t)
                                 \/ RecordDone(t) \/ RecordStart(t) \/ (\E p \in Pids : Ready(t, p))
                                 \/ Mark(t) \/ BootstrapApply(t)
           \/ Crash \/ Restart
<1> DEFINE Same == UNCHANGED <<OPMETA, COMPLETED, PROCESSES, disk, wlock, snap, up, fails>>
<1> USE DEF registry, saving, Quiet
<1>1. UNCHANGED vars => Same
  BY DEF vars
<1>2. ASSUME NEW p \in Pids, (\E kind \in Kinds : Spawn(p, kind)) \/ Exit(p) \/ Reaped(p)
      PROVE  Same
  BY <1>2 DEF Spawn, Exit, Reaped
<1>3. ASSUME NEW t \in Threads, NEW x, Poll(t, x) \/ SweepEnd(t, x) \/ Launch(t, x) \/ Kill(t)
      PROVE  Same
  BY <1>3 DEF Poll, SweepEnd, Launch, Kill
<1>4. ASSUME NEW t \in Threads, Thinking(t)
      PROVE  Same
  BY <1>4, ThinkingFacts
<1> HIDE DEF Same, registry, saving, Quiet
<1>6. \/ Same
      \/ \E t \in Threads : \/ SaveSnapshot(t) \/ SaveReplace(t) \/ SaveFails(t)
                            \/ RecordDone(t) \/ RecordStart(t) \/ (\E p \in Pids : Ready(t, p))
                            \/ Mark(t) \/ BootstrapApply(t)
      \/ Crash \/ Restart
  BY <1>1, <1>2, <1>3, <1>4, Steps
<1> QED BY <1>6 DEF Same

\* The empty registry has no two records of a pid.
LEMMA RecordsInit == Init => RecordsHold
BY DEF Init, RecordsHold, One, Distinct, Empty

\* No step makes two records of a pid, whatever it decided from an old copy.
LEMMA RecordsNext ==
    ASSUME TypeInv, RecordsHold, [Next]_vars
    PROVE  RecordsHold'
<1> USE DEF RecordsHold, One
<1>1. CASE UNCHANGED <<OPMETA, COMPLETED, PROCESSES, disk, wlock, snap, up, fails>>
  BY <1>1 DEF Distinct
<1>2. ASSUME NEW t \in Threads, SaveSnapshot(t)
      PROVE  RecordsHold'
  <2>1. UNCHANGED <<OPMETA, COMPLETED, PROCESSES, disk, up>>
        /\ snap' = [active |-> OPMETA, completed |-> COMPLETED]
    BY <1>2 DEF SaveSnapshot, registry, Quiet
  <2> QED BY <2>1 DEF Distinct
<1>3. ASSUME NEW t \in Threads, SaveReplace(t) \/ SaveFails(t)
      PROVE  RecordsHold'
  <2>1. /\ UNCHANGED <<OPMETA, COMPLETED, PROCESSES, up>>
        /\ snap' \in {disk, snap} /\ disk' \in {disk, snap}
    BY <1>3 DEF SaveReplace, SaveFails, registry, Quiet
  <2> QED BY <2>1 DEF Distinct
<1>4. ASSUME NEW t \in Threads, RecordDone(t)
      PROVE  RecordsHold'
  <2> DEFINE p == th[t].cur
  <2>1. p \in Pids /\ recorddone(p) /\ UNCHANGED <<disk, snap, up>>
    BY <1>4, LocalType DEF RecordDone, At, LocalOK, saving, Quiet
  <2> HIDE DEF p
  <2>2. /\ OPMETA'[p] = None /\ \A q \in Pids \ {p} : OPMETA'[q] = OPMETA[q]
        /\ PROCESSES'[p] = 0 /\ \A q \in Pids \ {p} : PROCESSES'[q] = PROCESSES[q]
        /\ \A q \in Pids : COMPLETED'[q] # None => q = p \/ COMPLETED[q] # None
        /\ Distinct(COMPLETED) => Distinct(COMPLETED')
    BY <2>1, RecordDoneFacts
  <2>3. One(OPMETA', COMPLETED')
    BY <2>2
  <2>4. One(disk.active, disk.completed)' /\ One(snap.active, snap.completed)'
    BY <2>1 DEF Distinct
  <2> QED BY <2>1, <2>2, <2>3, <2>4 DEF Distinct
<1>5. ASSUME NEW t \in Threads, RecordStart(t)
      PROVE  RecordsHold'
  <2> DEFINE p == th[t].pid
  <2>1. /\ p \in Pids /\ th[t].id \in Ids /\ th[t].starting \in BOOLEAN
        /\ recordstart(p, th[t].id, th[t].starting, th[t].job = "launch")
        /\ UNCHANGED <<disk, snap, up>> /\ up
    BY <1>5, LocalType DEF RecordStart, At, LocalOK, Local, saving, Quiet
  <2> HIDE DEF p
  <2>2. /\ OPMETA'[p] # None /\ \A q \in Pids \ {p} : OPMETA'[q] = OPMETA[q]
        /\ \A q \in Pids \ {p} : PROCESSES'[q] = PROCESSES[q]
        /\ \A q \in Pids : COMPLETED'[q] # None => q # p /\ COMPLETED[q] # None
        /\ Distinct(COMPLETED) => Distinct(COMPLETED')
    BY <2>1, RecordStartFacts
  <2>3. One(OPMETA', COMPLETED')
    BY <2>2
  <2>4. One(disk.active, disk.completed)' /\ One(snap.active, snap.completed)'
    BY <2>1 DEF Distinct
  <2> QED BY <2>1, <2>2, <2>3, <2>4 DEF Distinct
<1>6. ASSUME NEW t \in Threads, (\E p \in Pids : Ready(t, p)) \/ Mark(t)
      PROVE  RecordsHold'
  <2>1. UNCHANGED <<COMPLETED, PROCESSES, disk, snap, up>>
    BY <1>6 DEF Ready, Mark, saving, Quiet
  <2>2. \A q \in Pids : OPMETA'[q] = None <=> OPMETA[q] = None
    <3>1. CASE Mark(t)
      <4>1. th[t].pid \in Pids
        BY <3>1, LocalType DEF Mark, At, LocalOK
      <4> QED BY <3>1, <4>1, StartedFacts DEF Mark
    <3>2. ASSUME NEW p \in Pids, Ready(t, p)
          PROVE  \A q \in Pids : OPMETA'[q] = None <=> OPMETA[q] = None
      BY <3>2, StartedFacts DEF Ready
    <3> QED BY <1>6, <3>1, <3>2
  <2> QED BY <2>1, <2>2 DEF Distinct
<1>7. ASSUME NEW t \in Threads, BootstrapApply(t)
      PROVE  RecordsHold'
  <2>1. UNCHANGED <<disk, snap, up>> /\ up
    BY <1>7 DEF BootstrapApply, saving, Quiet, At
  <2>2. \A p \in Pids : OPMETA'[p] # None => COMPLETED'[p] = None
    BY <1>7, ApplyFacts
  <2>3. \A p \in Pids : PROCESSES'[p] # 0 => OPMETA'[p] # None
    BY <1>7, ApplyFacts
  <2>4. Distinct(COMPLETED')
    BY <1>7, ApplyFacts
  <2>5. One(disk.active, disk.completed)' /\ One(snap.active, snap.completed)'
    BY <2>1 DEF Distinct
  <2> QED BY <2>1, <2>2, <2>3, <2>4, <2>5 DEF Distinct
<1>8. CASE Crash
  BY <1>8 DEF Crash, Empty, Distinct
<1>9. CASE Restart
  <2>1. /\ ~up /\ up' /\ OPMETA' = Recovered /\ COMPLETED' = disk.completed
        /\ UNCHANGED <<PROCESSES, disk, snap>>
    BY <1>9 DEF Restart, saving
  <2>2. \A p \in Pids : Recovered[p] # None => disk.active[p] # None
    BY DEF Recovered
  <2> QED BY <2>1, <2>2 DEF Distinct
<1> QED BY <1>1, <1>2, <1>3, <1>4, <1>5, <1>6, <1>7, <1>8, <1>9, EntriesKept

\* A pid is never both active and completed, every tracked child has an active entry, and the
\* completed entries have KEEP different ages at most: recordstart, recorddone, handlebootstrap
\* and loadstate keep OPMETA, COMPLETED and PROCESSES in step, whoever interleaves with them.
THEOREM RegistryOneRecordPerPid == Spec => []OneRecordPerPid
<1> DEFINE I == TypeInv /\ RecordsHold
<1>1. Init => I
  BY TypeInit, RecordsInit
<1>2. I /\ [Next]_vars => I'
  BY TypeNext, RecordsNext
<1>3. I => OneRecordPerPid
  BY DEF RecordsHold, One, Distinct, OneRecordPerPid
<1> QED BY <1>1, <1>2, <1>3, PTL DEF Spec

(* --------------------- What a thread's own steps tell --------------------- *)

\* A step of one thread leaves the locals of the others alone.
LEMMA NewLocal ==
    ASSUME TypeInv, NEW t \in Threads, NEW m, Local_(t, m)
    PROVE  th'[t] = m /\ \A u \in Threads \ {t} : th'[u] = th[u]
BY DEF TypeInv, TypeOK, Local_

\* The new locals m of thread t, by what they rest on: the process a registration is about,
\* the pids a sweep or a list still has to go through, and why an entry is to be completed.
Thought(t, m) ==
    /\ th[t].pc \notin {"save", "write", "record"} /\ th[t].ret # "ack"
    /\ m.pc # "write" /\ m.ret # "ack"
    /\ m.job # "launch"
    /\ m.job = "register" =>
         /\ t \in Workers
         /\ m.pc = "record" /\ m.pid \in Pids /\ Running(m.pid) /\ m.id = occ[m.pid]
         /\ born[m.id].kind = "prog" /\ m.id \notin acked
         /\ \A u \in Workers : th[u].job = "register" => th[u].id # m.id
    /\ m.job = "register" \/ m.id \in {0, th[t].id}
    /\ \A x \in m.todo :
         \/ x \in th[t].todo \/ x[2] = 0
         \/ x[1] \in Pids /\ (x[2] = PROCESSES[x[1]] \/ x[2] = occ[x[1]])
    /\ \/ m.seen = 0
       \/ m.seen = th[t].seen /\ m.cur = th[t].cur
       \/ m.cur \in Pids /\ m.seen = occ[m.cur]
    /\ m.pc \in {"done", "complete"} =>
         \/ ~Running(m.cur)
         \/ th[t].pc = "complete" /\ m.cur = th[t].cur
         \/ /\ th[t].pc = "match" /\ m.cur = th[t].cur
            /\ th[t].seen = 0 \/ OPMETA[m.cur] = None \/ OPMETA[m.cur].id # th[t].seen
    /\ m.pc = "match" =>
         /\ th[t].pc = "look" /\ m.todo \subseteq th[t].todo
         /\ \E x \in th[t].todo : m.cur = x[1]
         /\ m.seen = IF Running(m.cur) THEN occ[m.cur] ELSE 0
    /\ m.pc = "look" \/ m.ret = "look" =>
         \/ th[t].pc = "match" /\ m.todo = th[t].todo
         \/ th[t].pc = "poll" /\ \A x \in m.todo : OPMETA[x[1]] # None
    /\ m.pc = "bootapply" =>
         \A x \in m.todo : x[1] \in Pids /\ x[2] = occ[x[1]] /\ born[x[2]].kind = "goddess"

\* Locals of a thread that has no registration, sweep or completion under way.
LEMMA ThoughtPlain ==
    ASSUME TypeInv, NEW t \in Threads, NEW m \in Local,
           th[t].pc \notin {"save", "write", "record"},
           m.pc \in {"idle", "save", "amend", "kill", "wait", "sweep", "boot"},
           m.job \notin {"launch", "register"}, m.ret = "idle", m.id \in {0, th[t].id}, m.seen = 0,
           \A x \in m.todo : x \in th[t].todo \/ (x[1] \in Pids /\ x[2] = occ[x[1]])
    PROVE  Thought(t, m)
<1>1. th[t].ret # "ack"
  BY LocalType DEF LocalOK
<1> QED BY <1>1 DEF Thought

\* Each step that only changes locals leaves them as Thought says.
LEMMA ThinkingThought ==
    ASSUME TypeInv, NEW t \in Threads, Thinking(t)
    PROVE  Thought(t, th'[t])
<1>1. th[t] \in Local /\ LocalOK(t, th[t])
  BY LocalType
<1>2. th' \in [Threads -> Local]
  <2>1. TypeInv'
    BY TypeBegin, TypeAgain, TypeThink DEF Thinking
  <2> QED BY <2>1 DEF TypeInv, TypeOK
<1>3. th'[t] \in Local
  BY <1>2
<1>4. \A m : Local_(t, m) => th'[t] = m
  BY NewLocal
<1>5. /\ Idle.pc = "idle" /\ Idle.job = "reap" /\ Idle.ret = "idle" /\ Idle.id = 0 /\ Idle.seen = 0
      /\ Idle.todo = {} /\ Idle.cur = 0
  BY DEF Idle
<1> USE DEF At
<1>6. ASSUME th[t].pc \notin {"save", "write", "record"}, NEW S,
             NEW job \in {"reap", "kill", "wait"}, NEW p \in Pids \cup {0},
             th'[t] = [Idle EXCEPT !.pc = "poll", !.job = job, !.pid = p, !.todo = S],
             \A x \in S : x[1] \in Pids /\ x[2] = PROCESSES[x[1]]
      PROVE  Thought(t, th'[t])
  <2>1. /\ th'[t].pc = "poll" /\ th'[t].job \in {"reap", "kill", "wait"} /\ th'[t].ret = "idle"
        /\ th'[t].id = 0 /\ th'[t].seen = 0 /\ th'[t].todo = S
    BY <1>6 DEF Idle
  <2>2. th[t].ret # "ack"
    BY <1>1, <1>6 DEF LocalOK
  <2>3. \A x \in th'[t].todo : x[1] \in Pids /\ x[2] = PROCESSES[x[1]]
    BY <1>6, <2>1
  <2> HIDE DEF At
  <2> QED BY ONLY <1>6, <2>1, <2>2, <2>3 DEF Thought
<1>7. ASSUME Local_(t, Idle), th[t].pc \notin {"save", "write", "record"}
      PROVE  Thought(t, th'[t])
  BY <1>3, <1>4, <1>5, <1>7, ThoughtPlain
<1>8. CASE \E job \in {"reap", "kill", "wait"}, p \in Pids \cup {0} : Begin(t, job, p)
  <2> DEFINE S == {<<q, PROCESSES[q]>> : q \in {r \in Pids : PROCESSES[r] # 0}}
  <2>1. \A x \in S : x[1] \in Pids /\ x[2] = PROCESSES[x[1]]
    OBVIOUS
  <2>2. PICK job \in {"reap", "kill", "wait"}, p \in Pids \cup {0} :
                   th[t].pc = "idle" /\ th'[t] = [Idle EXCEPT !.pc = "poll", !.job = job, !.pid = p, !.todo = S]
    BY <1>4, <1>8 DEF Begin, Sweep
  <2> HIDE DEF S
  <2> QED BY <1>6, <2>1, <2>2
<1>9. CASE Again(t)
  <2> DEFINE S == {<<q, PROCESSES[q]>> : q \in {r \in Pids : PROCESSES[r] # 0}}
  <2>1. \A x \in S : x[1] \in Pids /\ x[2] = PROCESSES[x[1]]
    OBVIOUS
  <2>2. /\ th[t].pc = "sweep" /\ th[t].job \in {"reap", "kill", "wait"} /\ th[t].pid \in Pids \cup {0}
        /\ th'[t] = [Idle EXCEPT !.pc = "poll", !.job = th[t].job, !.pid = th[t].pid, !.todo = S]
    BY <1>1, <1>4, <1>9 DEF Again, Sweep, LocalOK, Local
  <2> HIDE DEF S
  <2>3. PICK job \in {"reap", "kill", "wait"}, p \in Pids \cup {0} :
                   th[t].pc = "sweep" /\ th'[t] = [Idle EXCEPT !.pc = "poll", !.job = job, !.pid = p, !.todo = S]
    BY <2>2
  <2> QED BY <1>6, <2>1, <2>3
<1>10. CASE External(t)
  <2> DEFINE S == {<<p, 0>> : p \in {q \in Pids : OPMETA[q] # None /\ PROCESSES[q] = 0}}
  <2>1. th[t].pc = "poll" /\ th'[t] = [th[t] EXCEPT !.pc = "look", !.todo = S]
    BY <1>4, <1>10 DEF External
  <2>2. \A x \in S : x[2] = 0 /\ OPMETA[x[1]] # None
    OBVIOUS
  <2> HIDE DEF S
  <2>3. /\ th'[t].pc = "look" /\ th'[t].todo = S /\ th'[t].job = th[t].job /\ th'[t].ret = th[t].ret
        /\ th'[t].id = th[t].id /\ th'[t].seen = th[t].seen /\ th'[t].cur = th[t].cur
    BY <1>1, <2>1 DEF Local
  <2>4. th[t].job \notin {"launch", "register"} /\ th[t].ret = "idle"
    BY <1>1, <2>1 DEF LocalOK
  <2> QED BY <2>1, <2>2, <2>3, <2>4 DEF Thought
<1>11. CASE Match(t)
  <2> DEFINE p == th[t].cur
             expected == IF OPMETA[p] = None THEN 0 ELSE OPMETA[p].id
  <2>1. th[t].pc = "match" /\ th[t].job \notin {"launch", "register"} /\ th[t].ret = "idle"
    BY <1>1, <1>11 DEF Match, LocalOK
  <2>2. CASE th[t].seen # 0 /\ th[t].seen = expected
    <3>1. th'[t] = [th[t] EXCEPT !.pc = "look", !.cur = 0, !.seen = 0]
      BY <1>4, <1>11, <2>2 DEF Match
    <3>2. /\ th'[t].pc = "look" /\ th'[t].todo = th[t].todo /\ th'[t].job = th[t].job
          /\ th'[t].ret = "idle" /\ th'[t].id = th[t].id /\ th'[t].seen = 0
      BY <1>1, <3>1, <2>1 DEF Local
    <3> QED BY <2>1, <3>2 DEF Thought
  <2>3. CASE ~(th[t].seen # 0 /\ th[t].seen = expected)
    <3>1. th'[t] = [th[t] EXCEPT !.pc = "done", !.seen = 0, !.ret = "look"]
      BY <1>4, <1>11, <2>3 DEF Match
    <3>2. /\ th'[t].pc = "done" /\ th'[t].todo = th[t].todo /\ th'[t].job = th[t].job
          /\ th'[t].ret = "look" /\ th'[t].id = th[t].id /\ th'[t].seen = 0 /\ th'[t].cur = p
      BY <1>1, <3>1, <2>1 DEF Local
    <3>3. th[t].seen = 0 \/ OPMETA[p] = None \/ OPMETA[p].id # th[t].seen
      BY <2>3
    <3> HIDE DEF expected
    <3> QED BY <2>1, <3>2, <3>3 DEF Thought
  <2> QED BY <2>2, <2>3
<1>12. CASE CompleteEntry(t)
  <2>1. th[t].pc = "complete" /\ th[t].job \notin {"launch", "register"} /\ th[t].ret = "idle"
    BY <1>1, <1>12 DEF CompleteEntry, LocalOK
  <2>2. \/ th'[t] = [th[t] EXCEPT !.pc = "done"] \/ th'[t] = [th[t] EXCEPT !.pc = "amend"]
        \/ Local_(t, Idle)
    BY <1>4, <1>12 DEF CompleteEntry, Goto, Finish
  <2>3. CASE \/ th'[t] = [th[t] EXCEPT !.pc = "done"] \/ th'[t] = [th[t] EXCEPT !.pc = "amend"]
    <3>1. /\ th'[t].pc \in {"done", "amend"} /\ th'[t].todo = th[t].todo /\ th'[t].job = th[t].job
          /\ th'[t].ret = "idle" /\ th'[t].id = th[t].id /\ th'[t].seen = th[t].seen
          /\ th'[t].cur = th[t].cur
      BY <1>1, <2>1, <2>3 DEF Local
    <3> QED BY <2>1, <3>1 DEF Thought
  <2> QED BY <1>7, <2>1, <2>2, <2>3
<1>13. CASE Amend(t)
  <2>1. th[t].pc = "amend" /\ (Local_(t, [Idle EXCEPT !.pc = "save"]) \/ Local_(t, Idle))
    BY <1>13 DEF Amend, Finish
  <2>2. ASSUME Local_(t, [Idle EXCEPT !.pc = "save"])
        PROVE  Thought(t, th'[t])
    <3>1. /\ th'[t].pc = "save" /\ th'[t].job = "reap" /\ th'[t].ret = "idle" /\ th'[t].id = 0
          /\ th'[t].seen = 0 /\ th'[t].todo = {}
      BY <1>4, <2>2 DEF Idle
    <3> QED BY <1>3, <2>1, <3>1, ThoughtPlain
  <2> QED BY <1>7, <2>1, <2>2
<1>14. CASE Wait(t)
  <2> DEFINE p == th[t].pid
  <2>1. th[t].pc = "wait" /\ th[t].job = "wait" /\ th[t].ret = "idle"
    BY <1>1, <1>14 DEF Wait, LocalOK
  <2>2. \/ ~Running(p) /\ th'[t] = [th[t] EXCEPT !.pc = "done", !.cur = p, !.ret = "sweep"]
        \/ th'[t] = [th[t] EXCEPT !.pc = "sweep"]
        \/ Local_(t, Idle)
    BY <1>4, <1>14 DEF Wait, Goto, Finish
  <2>3. CASE ~Running(p) /\ th'[t] = [th[t] EXCEPT !.pc = "done", !.cur = p, !.ret = "sweep"]
    <3>1. /\ th'[t].pc = "done" /\ th'[t].todo = th[t].todo /\ th'[t].job = "wait" /\ th'[t].cur = p
          /\ th'[t].ret = "sweep" /\ th'[t].id = th[t].id /\ th'[t].seen = th[t].seen
      BY <1>1, <2>1, <2>3 DEF Local
    <3>2. th[t].seen = 0
      BY <1>1, <2>1 DEF LocalOK
    <3> QED BY <2>1, <2>3, <3>1, <3>2 DEF Thought
  <2>4. CASE th'[t] = [th[t] EXCEPT !.pc = "sweep"]
    <3>1. /\ th'[t].pc = "sweep" /\ th'[t].todo = th[t].todo /\ th'[t].job = "wait"
          /\ th'[t].cur = th[t].cur
          /\ th'[t].ret = "idle" /\ th'[t].id = th[t].id /\ th'[t].seen = th[t].seen
      BY <1>1, <2>1, <2>4 DEF Local
    <3> QED BY <2>1, <3>1 DEF Thought
  <2> QED BY <1>7, <2>1, <2>2, <2>3, <2>4
<1>15. CASE \E x \in th[t].todo : Look(t, x)
  <2>1. PICK x \in th[t].todo : Look(t, x)
    BY <1>15
  <2> DEFINE seen == IF Running(x[1]) THEN occ[x[1]] ELSE 0
  <2>2. /\ th[t].pc = "look" /\ x[1] \in Pids
        /\ th'[t] = [th[t] EXCEPT !.pc = "match", !.todo = @ \ {x}, !.cur = x[1], !.seen = seen]
    BY <1>1, <1>4, <2>1 DEF Look, Local
  <2>3. seen = 0 \/ seen = occ[x[1]]
    OBVIOUS
  <2>4. th[t].job \notin {"launch", "register"} /\ th[t].ret = "idle"
    BY <1>1, <2>2 DEF LocalOK
  <2> HIDE DEF seen
  <2>5. /\ th'[t].pc = "match" /\ th'[t].todo = th[t].todo \ {x} /\ th'[t].job = th[t].job
        /\ th'[t].cur = x[1] /\ th'[t].ret = "idle" /\ th'[t].id = th[t].id /\ th'[t].seen = seen
    BY <1>1, <2>2, <2>4 DEF Local
  <2>6. th'[t].seen = IF Running(th'[t].cur) THEN occ[th'[t].cur] ELSE 0
    BY <2>5 DEF seen
  <2> QED BY <2>2, <2>3, <2>4, <2>5, <2>6 DEF Thought
<1>16. CASE \E p \in Pids : Complete(t, p)
  <2>1. PICK p \in Pids : Complete(t, p)
    BY <1>16
  <2>2. th[t].pc = "idle" /\ ~Running(p)
        /\ th'[t] = [Idle EXCEPT !.pc = "complete", !.job = "complete", !.cur = p]
    BY <1>4, <2>1 DEF Complete, Running
  <2>3. /\ th'[t].pc = "complete" /\ th'[t].job = "complete" /\ th'[t].ret = "idle" /\ th'[t].id = 0
        /\ th'[t].seen = 0 /\ th'[t].todo = {} /\ th'[t].cur = p
    BY <2>2 DEF Idle
  <2>4. th[t].ret # "ack"
    BY <1>1, <2>2 DEF LocalOK
  <2> QED BY <2>2, <2>3, <2>4 DEF Thought
<1>17. CASE \E p \in Pids, s \in BOOLEAN : Register(t, p, s)
  <2>1. PICK p \in Pids, s \in BOOLEAN : Register(t, p, s)
    BY <1>17
  <2>2. /\ th[t].pc = "idle" /\ t \in Workers
        /\ Running(p) /\ born[occ[p]].kind = "prog" /\ occ[p] \notin acked
        /\ \A u \in Workers : th[u].job = "register" => th[u].id # occ[p]
        /\ th'[t] = [Idle EXCEPT !.pc = "record", !.job = "register", !.pid = p,
                                 !.id = occ[p], !.starting = s]
    BY <1>4, <2>1 DEF Register, Threads
  <2>3. /\ th'[t].pc = "record" /\ th'[t].job = "register" /\ th'[t].ret = "idle" /\ th'[t].id = occ[p]
        /\ th'[t].pid = p /\ th'[t].seen = 0 /\ th'[t].todo = {}
    BY <2>2 DEF Idle
  <2>4. th[t].ret # "ack"
    BY <1>1, <2>2 DEF LocalOK
  <2> QED BY <2>2, <2>3, <2>4 DEF Thought
<1>18. CASE Bootstrap(t)
  <2> DEFINE S == {<<p, occ[p]>> : p \in {q \in Pids : Running(q) /\ born[occ[q]].kind = "goddess"}}
  <2>1. \A x \in S : x[1] \in Pids /\ x[2] = occ[x[1]]
    OBVIOUS
  <2>2. th[t].pc = "idle" /\ th'[t] = [Idle EXCEPT !.pc = "boot", !.job = "bootstrap", !.todo = S]
    BY <1>4, <1>18 DEF Bootstrap
  <2> HIDE DEF S
  <2>3. /\ th'[t].pc = "boot" /\ th'[t].job = "bootstrap" /\ th'[t].ret = "idle" /\ th'[t].id = 0
        /\ th'[t].seen = 0 /\ th'[t].todo = S
    BY <2>2 DEF Idle
  <2>4. \A x \in th'[t].todo : x[1] \in Pids /\ x[2] = occ[x[1]]
    BY <2>1, <2>3
  <2>5. th[t].ret # "ack"
    BY <1>1, <2>2 DEF LocalOK
  <2> QED BY <2>2, <2>3, <2>4, <2>5 DEF Thought
<1>19. CASE BootstrapCheck(t)
  <2> DEFINE P == {x[1] : x \in th[t].todo}
             S == {<<p, occ[p]>> : p \in {q \in P : Running(q)}}
  <2>1. P \in SUBSET Pids
    BY <1>1 DEF Local
  <2>2. /\ th[t].pc = "boot"
        /\ Local_(t, Idle) \/ th'[t] = [th[t] EXCEPT !.pc = "bootapply", !.todo = S]
    BY <1>4, <1>19 DEF BootstrapCheck, Finish
  <2>5. Local_(t, Idle) \/ \A p \in P : born[occ[p]].kind = "goddess"
    BY <1>19 DEF BootstrapCheck, Finish
  <2> HIDE DEF P
  <2>3. \A x \in S : x[1] \in P /\ x[1] \in Pids /\ x[2] = occ[x[1]]
    BY <2>1
  <2> HIDE DEF S
  <2>4. ASSUME th'[t] = [th[t] EXCEPT !.pc = "bootapply", !.todo = S],
               \A p \in P : born[occ[p]].kind = "goddess"
        PROVE  Thought(t, th'[t])
    <3>1. /\ th'[t].pc = "bootapply" /\ th'[t].job = th[t].job /\ th'[t].ret = th[t].ret
          /\ th'[t].id = th[t].id /\ th'[t].seen = th[t].seen /\ th'[t].todo = S
          /\ th'[t].cur = th[t].cur
      BY <1>1, <2>4 DEF Local
    <3>2. th[t].job \notin {"launch", "register"} /\ th[t].ret = "idle"
      BY <1>1, <2>2 DEF LocalOK
    <3>3. \A x \in S : x[1] \in Pids /\ x[2] = occ[x[1]] /\ born[x[2]].kind = "goddess"
      BY <2>3, <2>4
    <3> QED BY <2>2, <3>1, <3>2, <3>3 DEF Thought
  <2> QED BY <1>7, <2>2, <2>4, <2>5
<1> QED BY <1>8, <1>9, <1>10, <1>11, <1>12, <1>13, <1>14, <1>15, <1>16, <1>17, <1>18, <1>19 DEF Thinking

\* The steps of a thread that also change something else, but start no process.
Acting(t) ==
    \/ SaveSnapshot(t) \/ SaveReplace(t) \/ SaveFails(t)
    \/ \E x \in th[t].todo : Poll(t, x)
    \/ RecordDone(t)
    \/ \E S : SweepEnd(t, S)
    \/ RecordStart(t)
    \/ \E p \in Pids : Ready(t, p)
    \/ Kill(t) \/ Mark(t) \/ BootstrapApply(t)

\* They keep the locals or drop them.
Kept(t, m) ==
    /\ m.id \in {0, th[t].id} /\ m.todo \subseteq th[t].todo /\ m.seen = 0
    /\ m.job \in {"launch", "register"} => m.job = th[t].job /\ m.pid = th[t].pid /\ m.id = th[t].id
    /\ m.pc \notin {"record", "match", "complete", "bootapply"}
    /\ m.pc = "look" \/ m.ret = "look" => th[t].ret = "look"
    /\ m.pc = "done" => \E x \in th[t].todo : x[2] \in dead /\ m.cur = x[1]
    /\ m.ret = "ack" => (th[t].ret = "ack" \/ th[t].pc = "record") /\ m.id = th[t].id
    /\ m.pc = "write" => SaveSnapshot(t)

\* A thread that ends its request, or goes on to savestate, keeps no locals.
LEMMA KeptIdle ==
    ASSUME TypeInv, NEW t \in Threads, Local_(t, Idle) \/ Local_(t, [Idle EXCEPT !.pc = "save"])
    PROVE  Kept(t, th'[t])
<1>1. th'[t] = Idle \/ th'[t] = [Idle EXCEPT !.pc = "save"]
  BY NewLocal
<1>2. /\ th'[t].id = 0 /\ th'[t].todo = {} /\ th'[t].seen = 0 /\ th'[t].job = "reap" /\ th'[t].ret = "idle"
      /\ th'[t].pc \in {"idle", "save"}
  BY <1>1 DEF Idle
<1> QED BY <1>2 DEF Kept

\* Each step of the second kind leaves the locals as Kept says.
LEMMA ActingKept ==
    ASSUME TypeInv, NEW t \in Threads, Acting(t)
    PROVE  /\ Kept(t, th'[t]) /\ \A u \in Threads \ {t} : th'[u] = th[u]
           /\ up /\ UNCHANGED <<born, nid>>
<1>1. th[t] \in Local /\ LocalOK(t, th[t])
  BY LocalType
<1>2. \A m : Local_(t, m) => th'[t] = m /\ \A u \in Threads \ {t} : th'[u] = th[u]
  BY NewLocal
<1>3. up /\ UNCHANGED <<born, nid>>
  BY DEF Acting, SaveSnapshot, SaveReplace, SaveFails, Poll, RecordDone, SweepEnd, RecordStart, Ready, Kill,
         Mark, BootstrapApply, At, kernel
<1>4. \A u \in Threads \ {t} : th'[u] = th[u]
  <2>1. th' = th \/ \E m : Local_(t, m)
    BY DEF Acting, SaveSnapshot, SaveReplace, SaveFails, Resume, Poll, RecordDone, SweepEnd, RecordStart,
           Ready, Kill, Mark, BootstrapApply, Goto, Finish, Saves
  <2> QED BY <2>1, <1>2
<1> USE DEF At
<1>5. CASE SaveSnapshot(t)
  <2>1. th[t].pc = "save" /\ th'[t] = [th[t] EXCEPT !.pc = "write"]
    BY <1>2, <1>5 DEF SaveSnapshot, Goto
  <2>2. /\ th'[t].id = th[t].id /\ th'[t].todo = th[t].todo /\ th'[t].seen = th[t].seen /\ th'[t].pc = "write"
        /\ th'[t].job = th[t].job /\ th'[t].ret = th[t].ret /\ th'[t].pid = th[t].pid
    BY <1>1, <2>1 DEF Local
  <2>3. th[t].seen = 0
    BY <1>1, <2>1 DEF LocalOK
  <2> QED BY <1>3, <1>4, <1>5, <2>2, <2>3 DEF Kept
<1>6. CASE SaveReplace(t) \/ SaveFails(t)
  <2>1. th[t].pc = "write" /\ Resume(t) /\ th[t].seen = 0
    BY <1>1, <1>6 DEF SaveReplace, SaveFails, LocalOK
  <2>2. CASE th[t].ret \in {"ack", "idle"}
    <3>1. Local_(t, Idle)
      BY <2>1, <2>2 DEF Resume, Finish
    <3> QED BY <1>3, <1>4, <3>1, KeptIdle
  <2>3. CASE th[t].ret \in {"sweep", "poll", "look"}
    <3>1. Local_(t, [th[t] EXCEPT !.pc = th[t].ret, !.ret = "idle"])
      BY <2>1, <2>3 DEF Resume
    <3>2. th'[t] = [th[t] EXCEPT !.pc = th[t].ret, !.ret = "idle"]
      BY <1>2, <3>1
    <3>3. /\ th'[t].id = th[t].id /\ th'[t].todo = th[t].todo /\ th'[t].seen = 0 /\ th'[t].pc = th[t].ret
          /\ th'[t].job = th[t].job /\ th'[t].ret = "idle" /\ th'[t].pid = th[t].pid
      BY <1>1, <2>1, <3>2 DEF Local
    <3> QED BY <1>3, <1>4, <2>3, <3>3 DEF Kept
  <2> QED BY <1>1, <2>2, <2>3 DEF Local
<1>7. ASSUME NEW x \in th[t].todo, Poll(t, x)
      PROVE  Kept(t, th'[t])
  <2>1. th[t].pc = "poll" /\ th[t].seen = 0 /\ th[t].ret = "idle" /\ th[t].job \notin {"launch", "register"}
    BY <1>1, <1>7 DEF Poll, LocalOK
  <2> DEFINE a == [th[t] EXCEPT !.todo = @ \ {x}]
             b == [a EXCEPT !.pc = "done", !.cur = x[1], !.ret = "poll"]
  <2>2. th'[t] = a \/ (x[2] \in dead /\ th'[t] = b)
    BY <1>2, <1>7 DEF Poll
  <2>3. CASE th'[t] = a
    <3>1. /\ th'[t].id = th[t].id /\ th'[t].todo = th[t].todo \ {x} /\ th'[t].seen = 0 /\ th'[t].pc = "poll"
          /\ th'[t].job = th[t].job /\ th'[t].ret = "idle"
      BY <1>1, <2>1, <2>3 DEF Local
    <3> QED BY <2>1, <3>1 DEF Kept
  <2>4. CASE x[2] \in dead /\ th'[t] = b
    <3>1. /\ th'[t].id = th[t].id /\ th'[t].todo = th[t].todo \ {x} /\ th'[t].seen = 0 /\ th'[t].pc = "done"
          /\ th'[t].job = th[t].job /\ th'[t].ret = "poll" /\ th'[t].cur = x[1]
      BY <1>1, <2>1, <2>4 DEF Local
    <3> HIDE DEF a, b
    <3> QED BY <2>1, <2>4, <3>1 DEF Kept
  <2> QED BY <2>2, <2>3, <2>4
<1>8. CASE RecordDone(t)
  <2>1. th[t].pc = "done" /\ th[t].seen = 0 /\ th[t].ret # "ack" /\ th[t].job \notin {"launch", "register"}
        /\ th'[t] = [th[t] EXCEPT !.pc = "save", !.cur = 0]
    BY <1>1, <1>2, <1>8 DEF RecordDone, LocalOK
  <2>2. /\ th'[t].id = th[t].id /\ th'[t].todo = th[t].todo /\ th'[t].seen = 0 /\ th'[t].pc = "save"
        /\ th'[t].job = th[t].job /\ th'[t].ret = th[t].ret
    BY <1>1, <2>1 DEF Local
  <2> QED BY <1>3, <1>4, <2>1, <2>2 DEF Kept
<1>9. ASSUME NEW S, SweepEnd(t, S)
      PROVE  Kept(t, th'[t])
  <2>1. th[t].pc = "look" /\ th[t].seen = 0 /\ th[t].ret = "idle"
    BY <1>1, <1>9 DEF SweepEnd, LocalOK
  <2>2. CASE th[t].job = "reap"
    BY <1>9, <2>2, KeptIdle DEF SweepEnd, Finish
  <2>3. CASE th[t].job # "reap"
    <3>1. th[t].job \in {"kill", "wait"} /\ th'[t] = [th[t] EXCEPT !.pc = th[t].job]
      BY <1>1, <1>2, <1>9, <2>1, <2>3 DEF SweepEnd, Goto, LocalOK
    <3>2. /\ th'[t].id = th[t].id /\ th'[t].todo = th[t].todo /\ th'[t].seen = 0 /\ th'[t].pc = th[t].job
          /\ th'[t].job = th[t].job /\ th'[t].ret = "idle"
      BY <1>1, <2>1, <3>1 DEF Local
    <3> QED BY <3>1, <3>2 DEF Kept
  <2> QED BY <2>2, <2>3
<1>10. CASE RecordStart(t)
  <2>1. th[t].pc = "record" /\ th[t].seen = 0 /\ th'[t] = [th[t] EXCEPT !.pc = "save", !.ret = "ack"]
    BY <1>1, <1>2, <1>10 DEF RecordStart, Saves, LocalOK
  <2>2. /\ th'[t].id = th[t].id /\ th'[t].todo = th[t].todo /\ th'[t].seen = 0 /\ th'[t].pc = "save"
        /\ th'[t].job = th[t].job /\ th'[t].ret = "ack" /\ th'[t].pid = th[t].pid
    BY <1>1, <2>1 DEF Local
  <2> QED BY <1>3, <1>4, <2>1, <2>2 DEF Kept
<1>11. ASSUME NEW p \in Pids, Ready(t, p)
       PROVE  Kept(t, th'[t])
  <2>1. th[t].pc = "idle" /\ th[t].seen = 0 /\ th[t].ret = "idle"
    BY <1>1, <1>11 DEF Ready, LocalOK
  <2>2. th' = th \/ Local_(t, [Idle EXCEPT !.pc = "save"])
    BY <1>11 DEF Ready
  <2>3. CASE th' = th
    BY <2>1, <2>3 DEF Kept
  <2> QED BY <2>2, <2>3, KeptIdle
<1>12. CASE Kill(t)
  <2>1. th[t].pc = "kill" /\ th[t].seen = 0 /\ th[t].ret = "idle" /\ th[t].job \notin {"launch", "register"}
    BY <1>1, <1>12 DEF Kill, LocalOK
  <2>2. Local_(t, Idle) \/ Local_(t, [th[t] EXCEPT !.pc = "mark"])
    BY <1>12 DEF Kill, Goto, Finish
  <2>3. ASSUME Local_(t, [th[t] EXCEPT !.pc = "mark"])
        PROVE  Kept(t, th'[t])
    <3>1. th'[t] = [th[t] EXCEPT !.pc = "mark"]
      BY <1>2, <2>3
    <3>2. /\ th'[t].id = th[t].id /\ th'[t].todo = th[t].todo /\ th'[t].seen = 0 /\ th'[t].pc = "mark"
          /\ th'[t].job = th[t].job /\ th'[t].ret = "idle"
      BY <1>1, <2>1, <3>1 DEF Local
    <3> QED BY <2>1, <3>2 DEF Kept
  <2> QED BY <1>3, <1>4, <2>2, <2>3, KeptIdle
<1>13. CASE Mark(t) \/ BootstrapApply(t)
  BY <1>3, <1>4, <1>13, KeptIdle DEF Mark, BootstrapApply
<1> QED BY <1>3, <1>4, <1>5, <1>6, <1>7, <1>8, <1>9, <1>10, <1>11, <1>12, <1>13 DEF Acting

\* Threads act only while the server is up.
LEMMA ActingUp ==
    ASSUME NEW t \in Threads, Acting(t)
    PROVE  up /\ up'
<1>1. CASE SaveSnapshot(t) \/ SaveReplace(t) \/ SaveFails(t)
  BY <1>1 DEF SaveSnapshot, SaveReplace, SaveFails, At, Quiet
<1>2. CASE \E x \in th[t].todo : Poll(t, x)
  BY <1>2 DEF Poll, At, Quiet
<1>3. CASE (\E S : SweepEnd(t, S)) \/ (\E p \in Pids : Ready(t, p))
  BY <1>3 DEF SweepEnd, Ready, At, Quiet
<1>4. CASE RecordDone(t) \/ RecordStart(t) \/ Kill(t) \/ Mark(t)
  BY <1>4 DEF RecordDone, RecordStart, Kill, Mark, At, Quiet
<1>5. CASE BootstrapApply(t)
  BY <1>5 DEF BootstrapApply, At, Quiet
<1> QED BY <1>1, <1>2, <1>3, <1>4, <1>5 DEF Acting

\* Every step is of one of these kinds.
LEMMA Classes ==
    ASSUME [Next]_vars
    PROVE  \/ \E t \in Threads : Thinking(t) \/ Acting(t) \/ \E p \in Pids : Launch(t, p)
           \/ \E p \in Pids, kind \in Kinds : Spawn(p, kind)
           \/ \E p \in Pids : Exit(p) \/ Reaped(p)
           \/ Crash \/ Restart \/ UNCHANGED vars
BY Steps DEF Acting

\* The locals of a thread that starts a process.
LEMMA LaunchLocal ==
    ASSUME TypeInv, NEW t \in Threads, NEW p \in Pids, Launch(t, p)
    PROVE  /\ th[t].pc = "idle" /\ th[t].ret = "idle" /\ t \in Workers
           /\ th'[t].pc = "record" /\ th'[t].job = "launch" /\ th'[t].pid = p /\ th'[t].id = nid + 1
           /\ th'[t].ret = "idle" /\ th'[t].seen = 0 /\ th'[t].todo = {}
           /\ \A u \in Threads \ {t} : th'[u] = th[u]
<1>1. /\ th'[t] = [Idle EXCEPT !.pc = "record", !.job = "launch", !.pid = p,
                               !.id = nid + 1, !.starting = TRUE]
      /\ \A u \in Threads \ {t} : th'[u] = th[u]
  BY NewLocal DEF Launch
<1>2. th[t].pc = "idle" /\ th[t].ret = "idle" /\ t \in Workers
  BY LocalType DEF Launch, At, LocalOK, Threads
<1> QED BY <1>1, <1>2 DEF Idle

(* ----------------------- Identities given out so far ----------------------- *)

Given(n, i) == i \in 0 .. n

\* Whatever names a process names one that was started.
GivenHolds ==
    /\ \A p \in Pids : Given(nid, occ[p]) /\ Given(nid, PROCESSES[p])
    /\ \A p \in Pids : /\ OPMETA[p] # None => Given(nid, OPMETA[p].id)
                       /\ disk.active[p] # None => Given(nid, disk.active[p].id)
                       /\ snap.active[p] # None => Given(nid, snap.active[p].id)
    /\ \A t \in Threads : Given(nid, th[t].id) /\ \A x \in th[t].todo : Given(nid, x[2])

\* Nothing is named at first.
LEMMA GivenInit == Init => GivenHolds
BY DEF Init, GivenHolds, Given, Idle, Empty

\* Identities once given out stay so.
LEMMA GivenGrows ==
    ASSUME TypeInv, nid' \in {nid, nid + 1}
    PROVE  Given(nid, 0) /\ Given(nid', 0) /\ \A i : Given(nid, i) => Given(nid', i)
BY Numbers DEF Given, TypeInv, TypeOK

\* The processes' part.
LEMMA GivenProcesses ==
    ASSUME TypeInv, GivenHolds, [Next]_vars
    PROVE  nid' \in {nid, nid + 1} /\ \A p \in Pids : Given(nid', occ'[p])
<1>1. CASE UNCHANGED <<occ, nid>>
  BY <1>1 DEF GivenHolds, Given
<1>2. ASSUME NEW p \in Pids, NEW kind \in Kinds, Start(p, kind)
      PROVE  nid' \in {nid, nid + 1} /\ \A q \in Pids : Given(nid', occ'[q])
  <2>1. /\ nid' = nid + 1 /\ nid \in Nat
        /\ occ'[p] = nid + 1 /\ \A q \in Pids \ {p} : occ'[q] = occ[q]
    BY <1>2, StartType
  <2> QED BY <2>1 DEF GivenHolds, Given
<1>3. ASSUME NEW t \in Threads, NEW x \in th[t].todo, Poll(t, x)
      PROVE  nid' \in {nid, nid + 1} /\ \A q \in Pids : Given(nid', occ'[q])
  <2>1. nid' = nid /\ \A q \in Pids : occ'[q] \in {0, occ[q]}
    BY <1>3 DEF Poll, TypeInv, TypeOK
  <2> QED BY <2>1, GivenGrows DEF GivenHolds
<1>4. ASSUME NEW p \in Pids, Reaped(p)
      PROVE  nid' \in {nid, nid + 1} /\ \A q \in Pids : Given(nid', occ'[q])
  <2>1. nid' = nid /\ \A q \in Pids : occ'[q] \in {0, occ[q]}
    BY <1>4 DEF Reaped, TypeInv, TypeOK
  <2> QED BY <2>1, GivenGrows DEF GivenHolds
<1>5. "child" \in Kinds
  BY DEF Kinds
<1>6. ASSUME NEW t \in Threads, NEW p \in Pids, Launch(t, p)
      PROVE  \E kind \in Kinds : Start(p, kind)
  BY <1>5, <1>6 DEF Launch
<1>7. ASSUME NEW p \in Pids, NEW kind \in Kinds, Spawn(p, kind)
      PROVE  Start(p, kind)
  BY <1>7 DEF Spawn
<1>8. ASSUME NEW t \in Threads, Thinking(t)
      PROVE  UNCHANGED <<occ, nid>>
  BY <1>8, ThinkingFacts DEF kernel
<1>9. ASSUME NEW t \in Threads,
             \/ SaveSnapshot(t) \/ SaveReplace(t) \/ SaveFails(t) \/ RecordDone(t) \/ (\E S : SweepEnd(t, S))
             \/ RecordStart(t) \/ (\E p \in Pids : Ready(t, p)) \/ Kill(t) \/ Mark(t) \/ BootstrapApply(t)
      PROVE  UNCHANGED <<occ, nid>>
  BY <1>9 DEF SaveSnapshot, SaveReplace, SaveFails, RecordDone, SweepEnd, RecordStart, Ready, Kill, Mark,
              BootstrapApply, kernel
<1>10. ASSUME (\E p \in Pids : Exit(p)) \/ Crash \/ Restart \/ UNCHANGED vars
       PROVE  UNCHANGED <<occ, nid>>
  BY <1>10 DEF Exit, Crash, Restart, vars, kernel
<1> QED BY <1>1, <1>2, <1>3, <1>4, <1>6, <1>7, <1>8, <1>9, <1>10, Steps

\* The threads' part.
LEMMA GivenThreads ==
    ASSUME TypeInv, GivenHolds, [Next]_vars
    PROVE  \A t \in Threads : Given(nid', th'[t].id) /\ \A x \in th'[t].todo : Given(nid', x[2])
<1>1. nid' \in {nid, nid + 1}
  BY GivenProcesses
<1>2. Given(nid', 0) /\ \A i : Given(nid, i) => Given(nid', i)
  BY <1>1, GivenGrows
<1>3. ASSUME NEW t \in Threads, Given(nid', th'[t].id), \A x \in th'[t].todo : Given(nid', x[2]),
             \A u \in Threads \ {t} : th'[u] = th[u]
      PROVE  \A u \in Threads : Given(nid', th'[u].id) /\ \A x \in th'[u].todo : Given(nid', x[2])
  BY <1>2, <1>3 DEF GivenHolds
<1>4. ASSUME NEW t \in Threads, Thinking(t)
      PROVE  \A u \in Threads : Given(nid', th'[u].id) /\ \A x \in th'[u].todo : Given(nid', x[2])
  <2>1. Thought(t, th'[t]) /\ nid' = nid /\ \A u \in Threads \ {t} : th'[u] = th[u]
    BY <1>4, ThinkingThought, ThinkingFacts, NewLocal DEF kernel
  <2>2. Given(nid, th'[t].id)
    BY <2>1, <1>2 DEF Thought, GivenHolds
  <2>3. \A x \in th'[t].todo : Given(nid, x[2])
    BY <2>1, <1>2 DEF Thought, GivenHolds
  <2> QED BY <1>2, <1>3, <2>1, <2>2, <2>3
<1>5. ASSUME NEW t \in Threads, Acting(t)
      PROVE  \A u \in Threads : Given(nid', th'[u].id) /\ \A x \in th'[u].todo : Given(nid', x[2])
  <2>1. Kept(t, th'[t]) /\ \A u \in Threads \ {t} : th'[u] = th[u]
    BY <1>5, ActingKept
  <2> QED BY <1>2, <1>3, <2>1 DEF Kept, GivenHolds
<1>6. ASSUME NEW t \in Threads, NEW p \in Pids, Launch(t, p)
      PROVE  \A u \in Threads : Given(nid', th'[u].id) /\ \A x \in th'[u].todo : Given(nid', x[2])
  <2>1. th'[t].id = nid + 1 /\ th'[t].todo = {} /\ \A u \in Threads \ {t} : th'[u] = th[u]
    BY <1>6, LaunchLocal
  <2>2. nid' = nid + 1 /\ nid \in Nat
    BY <1>6 DEF Launch, Start, TypeInv, TypeOK
  <2> QED BY <1>3, <2>1, <2>2 DEF Given
<1>7. ASSUME th' = th
      PROVE  \A u \in Threads : Given(nid', th'[u].id) /\ \A x \in th'[u].todo : Given(nid', x[2])
  BY <1>2, <1>7 DEF GivenHolds
<1>8. CASE Crash
  <2>1. \A u \in Threads : th'[u] = Idle
    BY <1>8 DEF Crash
  <2> QED BY <1>2, <2>1 DEF Idle
<1>9. ASSUME \/ \E p \in Pids, kind \in Kinds : Spawn(p, kind)
             \/ \E p \in Pids : Exit(p) \/ Reaped(p)
             \/ Restart \/ UNCHANGED vars
      PROVE  th' = th
  BY <1>9 DEF Spawn, Exit, Reaped, Restart, vars
<1> QED BY <1>4, <1>5, <1>6, <1>7, <1>8, <1>9, Classes

\* What each step does to the active entries.
LEMMA EntryFacts ==
    ASSUME TypeInv, NEW t \in Threads,
           RecordDone(t) \/ RecordStart(t) \/ (\E p \in Pids : Ready(t, p)) \/ Mark(t) \/ BootstrapApply(t)
    PROVE  \A p \in Pids : \/ OPMETA'[p] = None
                           \/ /\ OPMETA[p] # None /\ OPMETA'[p] # None /\ OPMETA'[p].id = OPMETA[p].id
                              /\ OPMETA'[p].starting => OPMETA[p].starting
                           \/ RecordStart(t) /\ p = th[t].pid /\ OPMETA'[p].id = th[t].id
                           \/ /\ BootstrapApply(t) /\ OPMETA'[p] # None /\ ~OPMETA'[p].starting
                              /\ <<p, OPMETA'[p].id>> \in th[t].todo
<1>0. th[t] \in Local /\ LocalOK(t, th[t])
  BY LocalType
<1>1. CASE RecordDone(t)
  <2>1. th[t].cur \in Pids /\ recorddone(th[t].cur)
    BY <1>0, <1>1 DEF RecordDone, At, LocalOK
  <2>2. \A q \in Pids : OPMETA'[q] \in {None, OPMETA[q]}
    BY <2>1, RecordDoneFacts
  <2> QED BY <2>2
<1>2. CASE RecordStart(t)
  <2> DEFINE p == th[t].pid
  <2>1. /\ p \in Pids /\ th[t].id \in Ids /\ th[t].starting \in BOOLEAN
        /\ recordstart(p, th[t].id, th[t].starting, th[t].job = "launch")
    BY <1>0, <1>2 DEF RecordStart, At, LocalOK, Local
  <2>2. OPMETA'[p].id = th[t].id /\ \A q \in Pids \ {p} : OPMETA'[q] = OPMETA[q]
    BY <2>1, RecordStartFacts
  <2> QED BY <1>2, <2>2
<1>3. ASSUME NEW p \in Pids, OPMETA[p] # None, OPMETA' = [OPMETA EXCEPT ![p].starting = FALSE]
      PROVE  \A q \in Pids : \/ OPMETA'[q] = None
                             \/ /\ OPMETA[q] # None /\ OPMETA'[q] # None /\ OPMETA'[q].id = OPMETA[q].id
                                /\ OPMETA'[q].starting => OPMETA[q].starting
  BY <1>3, StartedFacts
<1>4. CASE \E p \in Pids : Ready(t, p)
  BY <1>3, <1>4 DEF Ready
<1>5. CASE Mark(t)
  <2>1. th[t].pid \in Pids
    BY <1>0, <1>5 DEF Mark, At, LocalOK
  <2> QED BY <1>3, <1>5, <2>1 DEF Mark
<1>6. CASE BootstrapApply(t)
  BY <1>6, ApplyFacts
<1> QED BY <1>1, <1>2, <1>4, <1>5, <1>6

\* Entries, in memory, on disk and on their way there, name started processes.
LEMMA GivenEntries ==
    ASSUME TypeInv, GivenHolds, [Next]_vars
    PROVE  \A p \in Pids : /\ OPMETA'[p] # None => Given(nid', OPMETA'[p].id)
                           /\ disk'.active[p] # None => Given(nid', disk'.active[p].id)
                           /\ snap'.active[p] # None => Given(nid', snap'.active[p].id)
                           /\ Given(nid', PROCESSES'[p])
<1>1. Given(nid', 0) /\ \A i : Given(nid, i) => Given(nid', i)
  BY GivenProcesses, GivenGrows
<1>2. /\ \A p \in Pids : /\ OPMETA[p] # None => Given(nid', OPMETA[p].id)
                         /\ disk.active[p] # None => Given(nid', disk.active[p].id)
                         /\ snap.active[p] # None => Given(nid', snap.active[p].id)
                         /\ Given(nid', PROCESSES[p])
      /\ \A t \in Threads : Given(nid', th[t].id) /\ \A x \in th[t].todo : Given(nid', x[2])
  BY <1>1 DEF GivenHolds
<1>3. CASE UNCHANGED <<OPMETA, COMPLETED, PROCESSES, disk, wlock, snap, up, fails>>
  BY <1>2, <1>3
<1>4. ASSUME NEW t \in Threads, SaveSnapshot(t)
      PROVE  UNCHANGED <<OPMETA, PROCESSES, disk>> /\ snap'.active = OPMETA
  BY <1>4 DEF SaveSnapshot, registry
<1>5. ASSUME NEW t \in Threads, SaveReplace(t) \/ SaveFails(t)
      PROVE  UNCHANGED <<OPMETA, PROCESSES>> /\ disk' \in {disk, snap} /\ snap' \in {disk, snap}
  BY <1>5 DEF SaveReplace, SaveFails, registry
<1>6. ASSUME NEW t \in Threads,
             RecordDone(t) \/ RecordStart(t) \/ (\E p \in Pids : Ready(t, p)) \/ Mark(t) \/ BootstrapApply(t)
      PROVE  \A p \in Pids : /\ OPMETA'[p] # None => Given(nid', OPMETA'[p].id)
                             /\ disk'.active[p] # None => Given(nid', disk'.active[p].id)
                             /\ snap'.active[p] # None => Given(nid', snap'.active[p].id)
                             /\ Given(nid', PROCESSES'[p])
  <2>1. UNCHANGED <<disk, snap>>
    BY <1>6 DEF RecordDone, RecordStart, Ready, Mark, BootstrapApply, saving
  <2>2. \A p \in Pids : PROCESSES'[p] \in {0, PROCESSES[p], th[t].id}
    <3>1. th[t] \in Local /\ LocalOK(t, th[t])
      BY LocalType
    <3>2. CASE RecordDone(t)
      BY <3>1, <3>2, RecordDoneFacts DEF RecordDone, At, LocalOK
    <3>3. CASE RecordStart(t)
      <4> DEFINE p == th[t].pid
      <4>1. /\ p \in Pids /\ th[t].id \in Ids /\ th[t].starting \in BOOLEAN
            /\ recordstart(p, th[t].id, th[t].starting, th[t].job = "launch")
        BY <3>1, <3>3 DEF RecordStart, At, LocalOK, Local
      <4> QED BY <4>1, RecordStartFacts
    <3>4. CASE BootstrapApply(t)
      BY <3>4, ApplyFacts
    <3> QED BY <1>6, <3>2, <3>3, <3>4 DEF Ready, Mark
  <2>3. ASSUME NEW p \in Pids, OPMETA'[p] # None
        PROVE  Given(nid', OPMETA'[p].id)
    <3>1. CASE <<p, OPMETA'[p].id>> \in th[t].todo
      <4>1. <<p, OPMETA'[p].id>>[2] = OPMETA'[p].id
        OBVIOUS
      <4> HIDE <4>1
      <4>2. Given(nid', <<p, OPMETA'[p].id>>[2])
        BY <1>2, <3>1
      <4> QED BY <4>1, <4>2
    <3> QED BY <1>2, <1>6, <2>3, <3>1, EntryFacts
  <2> QED BY <1>1, <1>2, <2>1, <2>2, <2>3
<1>7. CASE Crash
  <2>1. /\ \A p \in Pids : OPMETA'[p] = None /\ PROCESSES'[p] = 0
        /\ disk' = disk /\ snap' = disk
    BY <1>7 DEF Crash, Empty
  <2> QED BY <1>1, <1>2, <2>1
<1>8. CASE Restart
  <2>1. /\ \A p \in Pids : OPMETA'[p] \in {None, disk.active[p]}
        /\ UNCHANGED <<PROCESSES, disk, snap>>
    BY <1>8 DEF Restart, Recovered, saving
  <2> QED BY <1>2, <2>1
<1> QED BY <1>2, <1>3, <1>4, <1>5, <1>6, <1>7, <1>8, EntriesKept

\* The invariant on identities is inductive.
LEMMA GivenNext ==
    ASSUME TypeInv, GivenHolds, [Next]_vars
    PROVE  GivenHolds'
BY GivenProcesses, GivenThreads, GivenEntries DEF GivenHolds

(* ------------------------ The checkpoint and the registry ------------------------ *)

LockHolds == \A t \in Threads : th[t].pc = "write" <=> wlock = t

Live(f, p) == f[p] # None /\ f[p].id = occ[p]
Agree(f) == \A p \in Pids : Running(p) => (Live(f, p) <=> Live(OPMETA, p))

\* With no thread about to save, the last copies taken agree with the registry on the processes
\* that are alive: the ones being written, or the ones on disk.
AgreeHolds ==
    up /\ fails = 0 /\ (\A t \in Threads : th[t].pc # "save") =>
        IF wlock = None THEN Agree(disk.active) ELSE Agree(snap.active)

\* At first the lock is free and the empty checkpoint agrees with the empty registry.
LEMMA LockInit == Init => LockHolds /\ AgreeHolds
BY Numbers DEF Init, LockHolds, AgreeHolds, Agree, Live, Running, Idle, Empty

\* Exactly the thread at "write" holds STATEWRITELOCK.
LEMMA LockNext ==
    ASSUME TypeInv, LockHolds, [Next]_vars
    PROVE  LockHolds'
<1>1. None \notin Threads /\ wlock \in Threads \cup {None}
  BY Numbers DEF TypeInv, TypeOK
<1>2. ASSUME NEW t \in Threads, SaveSnapshot(t)
      PROVE  LockHolds'
  <2>1. /\ th[t].pc = "save" /\ wlock = None /\ wlock' = t /\ th'[t] = [th[t] EXCEPT !.pc = "write"]
        /\ \A u \in Threads \ {t} : th'[u] = th[u]
    BY <1>2, NewLocal DEF SaveSnapshot, At, Goto
  <2>2. th'[t].pc = "write"
    BY <2>1, LocalType DEF Local
  <2> QED BY <1>1, <2>1, <2>2 DEF LockHolds
<1>3. ASSUME NEW t \in Threads, Acting(t)
      PROVE  /\ \A u \in Threads \ {t} : th'[u] = th[u]
             /\ th'[t].pc = "write" => SaveSnapshot(t)
  BY <1>3, ActingKept DEF Kept
<1>4. ASSUME NEW t \in Threads, SaveReplace(t) \/ SaveFails(t)
      PROVE  LockHolds'
  <2>1. th[t].pc = "write" /\ wlock' = None
    BY <1>4 DEF SaveReplace, SaveFails, At
  <2>2. Acting(t) /\ ~SaveSnapshot(t)
    BY <1>4, <2>1 DEF Acting, SaveSnapshot, At
  <2> QED BY <1>1, <1>3, <2>1, <2>2 DEF LockHolds
<1>5. ASSUME NEW t \in Threads, Acting(t), ~SaveSnapshot(t), ~SaveReplace(t), ~SaveFails(t)
      PROVE  LockHolds'
  <2>1. th[t].pc # "write" /\ wlock' = wlock
    BY <1>5 DEF Acting, Poll, RecordDone, SweepEnd, RecordStart, Ready, Kill, Mark, BootstrapApply, At, saving
  <2> QED BY <1>3, <1>5, <2>1 DEF LockHolds
<1>6. ASSUME NEW t \in Threads, Thinking(t)
      PROVE  LockHolds'
  <2>1. wlock' = wlock /\ \A u \in Threads \ {t} : th'[u] = th[u]
    BY <1>6, ThinkingFacts, NewLocal DEF saving
  <2>2. th[t].pc # "write" /\ th'[t].pc # "write"
    BY <1>6, ThinkingThought DEF Thought
  <2> QED BY <2>1, <2>2 DEF LockHolds
<1>7. ASSUME NEW t \in Threads, NEW p \in Pids, Launch(t, p)
      PROVE  LockHolds'
  <2>1. wlock' = wlock /\ \A u \in Threads \ {t} : th'[u] = th[u]
    BY <1>7, LaunchLocal DEF Launch, saving
  <2>2. th[t].pc # "write" /\ th'[t].pc # "write"
    BY <1>7, LaunchLocal
  <2> QED BY <2>1, <2>2 DEF LockHolds
<1>8. CASE Crash
  <2>1. wlock' = None /\ \A u \in Threads : th'[u].pc = "idle"
    BY <1>8 DEF Crash, Idle
  <2> QED BY <1>1, <2>1 DEF LockHolds
<1>9. ASSUME \/ \E p \in Pids, kind \in Kinds : Spawn(p, kind)
             \/ \E p \in Pids : Exit(p) \/ Reaped(p)
             \/ Restart \/ UNCHANGED vars
      PROVE  UNCHANGED <<th, wlock>>
  BY <1>9 DEF Spawn, Exit, Reaped, Restart, vars, saving
<1>10. UNCHANGED <<th, wlock>> => LockHolds'
  BY DEF LockHolds
<1> QED BY <1>2, <1>4, <1>5, <1>6, <1>7, <1>8, <1>9, <1>10, Classes

\* Processes end, and a new one gets the next identity.
Quieter ==
    UNCHANGED <<born, nid>> /\ dead \subseteq dead' /\ \A p \in Pids : occ'[p] \in {0, occ[p]}

\* A step ends processes or starts one, never both.
LEMMA Processes ==
    ASSUME TypeInv, [Next]_vars
    PROVE  \/ Quieter
           \/ \E p \in Pids, kind \in Kinds :
                /\ Start(p, kind) /\ UNCHANGED <<dead, registry, saving, history, up, crashes, fails>>
                /\ Spawn(p, kind) \/ (kind = "child" /\ \E t \in Threads : Launch(t, p))
<1>1. ASSUME NEW p \in Pids, NEW kind \in Kinds, Spawn(p, kind)
      PROVE  Start(p, kind) /\ UNCHANGED <<dead, registry, saving, history, up, crashes, fails>>
  BY <1>1 DEF Spawn
<1>2. ASSUME NEW t \in Threads, NEW p \in Pids, Launch(t, p)
      PROVE  /\ "child" \in Kinds /\ Start(p, "child")
             /\ UNCHANGED <<dead, registry, saving, history, up, crashes, fails>>
  BY <1>2 DEF Launch, Kinds, Quiet
<1>3. UNCHANGED <<occ, dead, born, nid>> => Quieter
  BY DEF Quieter
<1>4. ASSUME NEW t \in Threads, NEW x \in th[t].todo, Poll(t, x)
      PROVE  Quieter
  BY <1>4 DEF Poll, Quieter, TypeInv, TypeOK
<1>5. ASSUME NEW p \in Pids, Exit(p) \/ Reaped(p)
      PROVE  Quieter
  BY <1>5 DEF Exit, Reaped, Die, Quieter, TypeInv, TypeOK
<1>6. ASSUME NEW t \in Threads, Kill(t)
      PROVE  Quieter
  BY <1>6 DEF Kill, Die, Quieter
<1>7. ASSUME NEW t \in Threads, Thinking(t)
      PROVE  UNCHANGED <<occ, dead, born, nid>>
  BY <1>7, ThinkingFacts DEF kernel
<1>8. ASSUME NEW t \in Threads,
             \/ SaveSnapshot(t) \/ SaveReplace(t) \/ SaveFails(t) \/ RecordDone(t) \/ (\E S : SweepEnd(t, S))
             \/ RecordStart(t) \/ (\E p \in Pids : Ready(t, p)) \/ Mark(t) \/ BootstrapApply(t)
      PROVE  UNCHANGED <<occ, dead, born, nid>>
  BY <1>8 DEF SaveSnapshot, SaveReplace, SaveFails, RecordDone, SweepEnd, RecordStart, Ready, Mark,
              BootstrapApply, kernel
<1>9. ASSUME Crash \/ Restart \/ UNCHANGED vars
      PROVE  UNCHANGED <<occ, dead, born, nid>>
  BY <1>9 DEF Crash, Restart, vars, kernel
<1> QED BY <1>1, <1>2, <1>3, <1>4, <1>5, <1>6, <1>7, <1>8, <1>9, Steps

\* A process that is alive was alive before, or is the newest.
LEMMA Newcomer ==
    ASSUME TypeInv, [Next]_vars, NEW p \in Pids, Running(p)'
    PROVE  \/ Running(p) /\ occ'[p] = occ[p] /\ occ[p] \in Ids /\ born'[occ[p]] = born[occ[p]]
           \/ occ'[p] = nid + 1 /\ nid \in Nat /\ UNCHANGED <<registry, saving, history>>
<1>1. CASE Quieter
  BY <1>1 DEF Quieter, Running, TypeInv, TypeOK
<1>2. ASSUME NEW q \in Pids, NEW kind \in Kinds, Start(q, kind),
             UNCHANGED <<dead, registry, saving, history, up, crashes, fails>>
      PROVE  \/ Running(p) /\ occ'[p] = occ[p] /\ occ[p] \in Ids /\ born'[occ[p]] = born[occ[p]]
             \/ occ'[p] = nid + 1 /\ nid \in Nat /\ UNCHANGED <<registry, saving, history>>
  <2>1. /\ occ'[q] = nid + 1 /\ nid \in Nat /\ \A r \in Pids \ {q} : occ'[r] = occ[r]
        /\ \A i \in Ids \ {nid + 1} : born'[i] = born[i]
    BY <1>2, StartType
  <2>2. CASE occ'[p] = nid + 1
    BY <1>2, <2>1, <2>2
  <2>3. CASE occ'[p] # nid + 1
    <3>1. p # q /\ occ'[p] = occ[p] /\ dead' = dead
      BY <1>2, <2>1, <2>3
    <3>2. Running(p) /\ occ[p] \in Ids
      BY <3>1 DEF Running, TypeInv, TypeOK
    <3> QED BY <2>1, <2>3, <3>1, <3>2
  <2> QED BY <2>2, <2>3
<1> QED BY <1>1, <1>2, Processes

\* A step that leaves the entries and the copies alone does not come out of savestate's queue.
LEMMA NoSave ==
    ASSUME TypeInv, [Next]_vars, \A u \in Threads : th'[u].pc # "save",
           UNCHANGED <<OPMETA, COMPLETED, PROCESSES, disk, wlock, snap, up, fails>>
    PROVE  \A u \in Threads : th[u].pc # "save"
<1>1. ASSUME NEW t \in Threads, Thinking(t)
      PROVE  th[t].pc # "save" /\ \A u \in Threads \ {t} : th'[u] = th[u]
  BY <1>1, ThinkingThought, ThinkingFacts, NewLocal DEF Thought
<1>2. ASSUME NEW t \in Threads, Acting(t)
      PROVE  th[t].pc # "save" /\ \A u \in Threads \ {t} : th'[u] = th[u]
  <2>1. ~SaveSnapshot(t)
    BY Numbers DEF SaveSnapshot
  <2> QED BY <1>2, <2>1, ActingKept DEF Acting, SaveReplace, SaveFails, Poll, RecordDone, SweepEnd,
             RecordStart, Ready, Kill, Mark, BootstrapApply, At
<1>3. ASSUME NEW t \in Threads, NEW p \in Pids, Launch(t, p)
      PROVE  th[t].pc # "save" /\ \A u \in Threads \ {t} : th'[u] = th[u]
  BY <1>3, LaunchLocal
<1>4. ASSUME NEW t \in Threads, th[t].pc # "save" /\ \A u \in Threads \ {t} : th'[u] = th[u]
      PROVE  \A u \in Threads : th[u].pc # "save"
  BY <1>4
<1>5. ~Crash
  BY DEF Crash
<1>6. ASSUME \/ \E p \in Pids, kind \in Kinds : Spawn(p, kind)
             \/ \E p \in Pids : Exit(p) \/ Reaped(p)
             \/ Restart \/ UNCHANGED vars
      PROVE  th' = th
  BY <1>6 DEF Spawn, Exit, Reaped, Restart, vars
<1> QED BY <1>1, <1>2, <1>3, <1>4, <1>5, <1>6, Classes

\* A registry change ends in a checkpoint that agrees with it, or one is still outstanding.
LEMMA AgreeNext ==
    ASSUME TypeInv, GivenHolds, LockHolds, AgreeHolds, [Next]_vars
    PROVE  AgreeHolds'
<1> SUFFICES ASSUME up', fails' = 0, \A t \in Threads : th'[t].pc # "save"
             PROVE  IF wlock' = None THEN Agree(disk.active)' ELSE Agree(snap.active)'
  BY DEF AgreeHolds
<1>1. None \notin Threads /\ wlock \in Threads \cup {None} /\ fails \in Nat
  BY Numbers DEF TypeInv, TypeOK
<1>2. CASE UNCHANGED <<OPMETA, COMPLETED, PROCESSES, disk, wlock, snap, up, fails>>
  <2>1. IF wlock = None THEN Agree(disk.active) ELSE Agree(snap.active)
    BY <1>2, NoSave DEF AgreeHolds
  <2>2. ASSUME NEW p \in Pids, Running(p)'
        PROVE  \/ Running(p) /\ occ'[p] = occ[p]
               \/ ~Live(disk.active, p)' /\ ~Live(snap.active, p)' /\ ~Live(OPMETA, p)'
    <3>1. CASE occ'[p] = nid + 1 /\ nid \in Nat
      <4>1. \A i : Given(nid, i) => i # nid + 1
        BY <3>1 DEF Given
      <4> QED BY <1>2, <3>1, <4>1 DEF Live, GivenHolds
    <3> QED BY <2>2, <3>1, Newcomer
  <2> QED BY <1>2, <2>1, <2>2 DEF Agree, Live
<1>3. ASSUME NEW t \in Threads, SaveSnapshot(t)
      PROVE  IF wlock' = None THEN Agree(disk.active)' ELSE Agree(snap.active)'
  <2>1. wlock' = t /\ snap'.active = OPMETA'
    BY <1>3 DEF SaveSnapshot, registry
  <2> QED BY <1>1, <2>1 DEF Agree, Live
<1>4. ASSUME NEW t \in Threads, SaveReplace(t)
      PROVE  IF wlock' = None THEN Agree(disk.active)' ELSE Agree(snap.active)'
  <2>1. /\ th[t].pc = "write" /\ wlock' = None /\ disk' = snap /\ UNCHANGED <<OPMETA, occ, dead, fails>> /\ up
    BY <1>4 DEF SaveReplace, registry, kernel, At, Quiet
  <2>2. \A u \in Threads \ {t} : th'[u] = th[u]
    BY <1>4, ActingKept DEF Acting
  <2>3. \A u \in Threads : th[u].pc # "save"
    BY <2>1, <2>2
  <2>4. wlock = t /\ wlock # None
    BY <1>1, <2>1 DEF LockHolds
  <2>5. Agree(snap.active)
    BY <2>1, <2>3, <2>4 DEF AgreeHolds
  <2> QED BY <2>1, <2>5 DEF Agree, Live, Running
<1>5. ASSUME NEW t \in Threads, SaveFails(t)
      PROVE  FALSE
  BY <1>1, <1>5 DEF SaveFails
<1>6. ASSUME NEW t \in Threads, RecordDone(t) \/ RecordStart(t) \/ Mark(t) \/ BootstrapApply(t)
      PROVE  FALSE
  <2>1. \/ Local_(t, [th[t] EXCEPT !.pc = "save", !.cur = 0])
        \/ Local_(t, [th[t] EXCEPT !.pc = "save", !.ret = "ack"])
        \/ Local_(t, [Idle EXCEPT !.pc = "save"])
    BY <1>6 DEF RecordDone, RecordStart, Mark, BootstrapApply, Saves
  <2>2. \/ th'[t] = [th[t] EXCEPT !.pc = "save", !.cur = 0]
        \/ th'[t] = [th[t] EXCEPT !.pc = "save", !.ret = "ack"]
        \/ th'[t] = [Idle EXCEPT !.pc = "save"]
    BY <2>1, NewLocal
  <2> QED BY <2>2, LocalType DEF Local, Idle
<1>7. ASSUME NEW t \in Threads, NEW p \in Pids, Ready(t, p)
      PROVE  IF wlock' = None THEN Agree(disk.active)' ELSE Agree(snap.active)'
  <2>1. th[t].pc = "idle" /\ up /\ UNCHANGED <<occ, dead, disk, snap, wlock, fails>>
    BY <1>7 DEF Ready, At, kernel, saving, Quiet
  <2>2. \A u \in Threads : th[u].pc # "save"
    BY <1>7, <2>1, ActingKept DEF Acting
  <2>3. IF wlock = None THEN Agree(disk.active) ELSE Agree(snap.active)
    BY <2>1, <2>2 DEF AgreeHolds
  <2>4. \A q \in Pids : OPMETA'[q] = OPMETA[q] \/ (OPMETA'[q] # None /\ OPMETA[q] # None /\ OPMETA'[q].id = OPMETA[q].id)
    BY <1>7, StartedFacts DEF Ready
  <2>5. \A q \in Pids : Live(OPMETA, q)' <=> Live(OPMETA, q)
    BY <2>1, <2>4 DEF Live
  <2>6. \A q \in Pids : /\ Running(q)' <=> Running(q)
                        /\ Live(disk.active, q)' <=> Live(disk.active, q)
                        /\ Live(snap.active, q)' <=> Live(snap.active, q)
    BY <2>1 DEF Running, Live
  <2> QED BY <2>1, <2>3, <2>5, <2>6 DEF Agree
<1>8. ~Crash
  BY DEF Crash
<1>9. CASE Restart
  <2>1. ~up /\ OPMETA' = Recovered /\ UNCHANGED <<occ, dead, disk, snap, wlock>>
    BY <1>9 DEF Restart, kernel, saving
  <2>2. \A u \in Threads : th[u].pc # "write"
    BY <2>1 DEF TypeInv, Idle
  <2>3. wlock' = None
    BY <1>1, <2>1, <2>2 DEF LockHolds
  <2>4. \A p \in Pids : Running(p) => (Live(Recovered, p) <=> Live(disk.active, p))
    BY DEF Recovered, Live
  <2> QED BY <2>1, <2>3, <2>4 DEF Agree, Live, Running
<1> QED BY <1>2, <1>3, <1>4, <1>5, <1>6, <1>7, <1>8, <1>9, EntriesKept

\* With no checkpoint outstanding and none that failed, a restart now would recover exactly the
\* registered operations that are alive: no savestate is missing from a handler or a sweep, and no
\* two of them leave an older copy on disk.  This holds even when the kernel reuses a known pid.
THEOREM RegistryRestartRecovers == Spec => []RestartRecoversRegistry
<1> DEFINE I == TypeInv /\ GivenHolds /\ LockHolds /\ AgreeHolds
<1>1. Init => I
  BY TypeInit, GivenInit, LockInit
<1>2. I /\ [Next]_vars => I'
  BY TypeNext, GivenNext, LockNext, AgreeNext
<1>3. I => RestartRecoversRegistry
  <2> SUFFICES ASSUME I, up, Saved, NEW p \in Pids, Running(p)
               PROVE  Recovered[p] # None <=> OPMETA[p] # None /\ OPMETA[p].id = occ[p]
    BY DEF RestartRecoversRegistry
  <2>1. wlock = None
    BY Numbers DEF TypeInv, TypeOK, LockHolds, Saved
  <2>2. Agree(disk.active)
    BY <2>1 DEF AgreeHolds, Saved
  <2>3. Recovered[p] # None <=> Live(disk.active, p)
    BY DEF Recovered, Live
  <2> QED BY <2>2, <2>3 DEF Agree, Live
<1> QED BY <1>1, <1>2, <1>3, PTL DEF Spec

(* ------------------- Names, when known pids are not reused ------------------- *)

\* Of the first n processes, i is the last that had pid p.
Last(b, n, p, i) == i \in 1 .. n /\ b[i].pid = p /\ \A j \in 1 .. n : b[j].pid = p => j <= i

\* Whatever names a pid and a process names the last process that had the pid.
NamesHold ==
    /\ \A p \in Pids : /\ occ[p] # 0 => Last(born, nid, p, occ[p])
                       /\ OPMETA[p] # None => Last(born, nid, p, OPMETA[p].id)
                       /\ PROCESSES[p] # 0 => Last(born, nid, p, PROCESSES[p])
    /\ \A t \in Threads :
         /\ \A x \in th[t].todo : x[2] # 0 => Last(born, nid, x[1], x[2])
         /\ th[t].job \in {"launch", "register"} => Last(born, nid, th[t].pid, th[t].id)
         /\ th[t].seen # 0 => Last(born, nid, th[t].cur, th[t].seen)

\* A pid has one last process.
LEMMA LastUnique ==
    ASSUME NEW b, NEW n \in Nat, NEW p, NEW i, NEW j, Last(b, n, p, i), Last(b, n, p, j)
    PROVE  i = j
BY DEF Last

\* A new process becomes the last of its pid, and of no other.
LEMMA LastStart ==
    ASSUME TypeInv, NEW q \in Pids, NEW kind \in Kinds, Start(q, kind)
    PROVE  /\ Last(born', nid', q, nid + 1)
           /\ \A p, i : p # q /\ Last(born, nid, p, i) => Last(born', nid', p, i)
<1>1. /\ nid + 1 \in Ids /\ nid' = nid + 1 /\ nid \in Nat /\ nid' \in 0 .. MaxId
      /\ born'[nid + 1] = [pid |-> q, kind |-> kind]
      /\ \A i \in Ids \ {nid + 1} : born'[i] = born[i]
  BY StartType
<1>2. born'[nid + 1].pid = q /\ \A i \in 1 .. nid : born'[i] = born[i] /\ i \in 1 .. nid'
  BY <1>1, Numbers DEF Ids
<1>3. Last(born', nid', q, nid + 1)
  BY <1>1, <1>2 DEF Last
<1>4. ASSUME NEW p, NEW i, p # q, Last(born, nid, p, i)
      PROVE  Last(born', nid', p, i)
  <2>1. i \in 1 .. nid /\ born'[i].pid = p /\ i \in 1 .. nid'
    BY <1>2, <1>4 DEF Last
  <2>2. ASSUME NEW j \in 1 .. nid', born'[j].pid = p PROVE j <= i
    <3>1. j # nid + 1
      BY <1>2, <1>4, <2>2
    <3>2. j \in 1 .. nid
      BY <1>1, <3>1
    <3> QED BY <1>2, <1>4, <2>2, <3>2 DEF Last
  <2> QED BY <2>1, <2>2 DEF Last
<1> QED BY <1>3, <1>4

\* A pid that is given out again is known to nobody.
LEMMA Unknown ==
    ASSUME ~AnyReuse, TypeInv, NEW q \in Pids, NEW kind, Start(q, kind)
    PROVE  /\ occ[q] = 0 /\ OPMETA[q] = None /\ PROCESSES[q] = 0
           /\ \A t \in Threads : th[t].pid # q /\ th[t].cur # q /\ \A x \in th[t].todo : x[1] # q
<1>1. occ[q] = 0 /\ OPMETA[q] = None /\ PROCESSES[q] = 0 /\ q \notin InFlight
  BY DEF Start, Reusable
<1>2. ASSUME NEW t \in Threads
      PROVE  th[t].pid # q /\ th[t].cur # q /\ \A x \in th[t].todo : x[1] # q
  BY <1>1 DEF InFlight
<1> QED BY <1>1, <1>2

\* Nothing is named at first.
LEMMA NamesInit == Init => NamesHold
BY DEF Init, NamesHold, Idle, Empty

\* A pid goes to a new process only when nothing names the old one, so no name becomes stale.
LEMMA NamesStart ==
    ASSUME ~AnyReuse, TypeInv, NamesHold, NEW q \in Pids, NEW kind \in Kinds, Start(q, kind),
           Spawn(q, kind) \/ (kind = "child" /\ \E t \in Threads : Launch(t, q)),
           UNCHANGED <<dead, registry, saving, history, up, crashes, fails>>
    PROVE  NamesHold'
<1>1. /\ Last(born', nid', q, nid + 1)
      /\ \A p, i : p # q /\ Last(born, nid, p, i) => Last(born', nid', p, i)
  BY LastStart
<1>2. /\ occ[q] = 0 /\ OPMETA[q] = None /\ PROCESSES[q] = 0
      /\ \A t \in Threads : th[t].pid # q /\ th[t].cur # q /\ \A x \in th[t].todo : x[1] # q
  BY Unknown
<1>3. occ'[q] = nid + 1 /\ \A p \in Pids \ {q} : occ'[p] = occ[p]
  BY StartType
<1>4. UNCHANGED <<OPMETA, PROCESSES>>
  BY DEF registry
<1>5. \A p \in Pids : /\ occ'[p] # 0 => Last(born', nid', p, occ'[p])
                      /\ OPMETA'[p] # None => Last(born', nid', p, OPMETA'[p].id)
                      /\ PROCESSES'[p] # 0 => Last(born', nid', p, PROCESSES'[p])
  BY <1>1, <1>2, <1>3, <1>4 DEF NamesHold
<1>6. \A t \in Threads :
         /\ \A x \in th[t].todo : x[2] # 0 => Last(born', nid', x[1], x[2])
         /\ th[t].job \in {"launch", "register"} => Last(born', nid', th[t].pid, th[t].id)
         /\ th[t].seen # 0 => Last(born', nid', th[t].cur, th[t].seen)
  BY <1>1, <1>2 DEF NamesHold
<1>7. ASSUME NEW t \in Threads, Launch(t, q)
      PROVE  /\ \A u \in Threads \ {t} : th'[u] = th[u]
             /\ th'[t].todo = {} /\ th'[t].seen = 0 /\ th'[t].pid = q /\ th'[t].id = nid + 1
  BY <1>7, LaunchLocal
<1>8. Spawn(q, kind) => th' = th
  BY DEF Spawn
<1>9. \A t \in Threads :
         /\ \A x \in th'[t].todo : x[2] # 0 => Last(born', nid', x[1], x[2])
         /\ th'[t].job \in {"launch", "register"} => Last(born', nid', th'[t].pid, th'[t].id)
         /\ th'[t].seen # 0 => Last(born', nid', th'[t].cur, th'[t].seen)
  BY <1>1, <1>6, <1>7, <1>8
<1> QED BY <1>5, <1>9 DEF NamesHold

\* The entries' part, of a step that starts no process.
LEMMA NamesEntries ==
    ASSUME TypeInv, NamesHold, [Next]_vars, Quieter
    PROVE  \A p \in Pids : /\ occ'[p] # 0 => Last(born', nid', p, occ'[p])
                           /\ OPMETA'[p] # None => Last(born', nid', p, OPMETA'[p].id)
                           /\ PROCESSES'[p] # 0 => Last(born', nid', p, PROCESSES'[p])
<1>1. UNCHANGED <<born, nid>> /\ \A p \in Pids : occ'[p] \in {0, occ[p]}
  BY DEF Quieter
<1>2. \A p \in Pids : occ'[p] # 0 => Last(born', nid', p, occ'[p])
  BY <1>1 DEF NamesHold
<1>3. UNCHANGED <<OPMETA, PROCESSES>> =>
        \A p \in Pids : /\ OPMETA'[p] # None => Last(born', nid', p, OPMETA'[p].id)
                        /\ PROCESSES'[p] # 0 => Last(born', nid', p, PROCESSES'[p])
  BY <1>1 DEF NamesHold
<1>4. ASSUME NEW t \in Threads, SaveSnapshot(t) \/ SaveReplace(t) \/ SaveFails(t)
      PROVE  UNCHANGED <<OPMETA, PROCESSES>>
  BY <1>4 DEF SaveSnapshot, SaveReplace, SaveFails, registry
<1>5. ASSUME NEW t \in Threads,
             RecordDone(t) \/ RecordStart(t) \/ (\E p \in Pids : Ready(t, p)) \/ Mark(t) \/ BootstrapApply(t),
             NEW p \in Pids
      PROVE  /\ OPMETA'[p] # None => Last(born', nid', p, OPMETA'[p].id)
             /\ PROCESSES'[p] # 0 => Last(born', nid', p, PROCESSES'[p])
  <2>1. RecordStart(t) => Last(born, nid, th[t].pid, th[t].id) /\ th[t].id \in Ids
    BY LocalType DEF RecordStart, At, LocalOK, NamesHold
  <2>2. ASSUME <<p, OPMETA'[p].id>> \in th[t].todo, BootstrapApply(t)
        PROVE  Last(born, nid, p, OPMETA'[p].id)
    <3>1. th[t].todo \subseteq Pids \X Ids
      BY <2>2, LocalType DEF BootstrapApply, At, LocalOK
    <3> DEFINE x == <<p, OPMETA'[p].id>>
    <3>2. x \in th[t].todo /\ x[1] = p /\ x[2] = OPMETA'[p].id /\ x[2] # 0
      BY <2>2, <3>1, Numbers DEF Ids
    <3> HIDE DEF x
    <3>3. Last(born, nid, x[1], x[2])
      BY <3>2 DEF NamesHold
    <3> QED BY <3>2, <3>3
  <2>3. OPMETA'[p] # None => Last(born, nid, p, OPMETA'[p].id)
    BY <1>5, <2>1, <2>2, EntryFacts DEF NamesHold
  <2>4. PROCESSES'[p] # 0 => Last(born, nid, p, PROCESSES'[p])
    <3>1. th[t] \in Local /\ LocalOK(t, th[t])
      BY LocalType
    <3>2. CASE RecordDone(t)
      BY <3>1, <3>2, RecordDoneFacts DEF RecordDone, At, LocalOK, NamesHold
    <3>3. CASE RecordStart(t)
      <4> DEFINE q == th[t].pid
      <4>1. /\ q \in Pids /\ th[t].id \in Ids /\ th[t].starting \in BOOLEAN
            /\ recordstart(q, th[t].id, th[t].starting, th[t].job = "launch")
        BY <3>1, <3>3 DEF RecordStart, At, LocalOK, Local
      <4>2. PROCESSES'[q] \in {th[t].id, PROCESSES[q]} /\ (p # q => PROCESSES'[p] = PROCESSES[p])
        BY <4>1, RecordStartFacts
      <4> QED BY <2>1, <3>3, <4>2 DEF NamesHold
    <3>4. CASE BootstrapApply(t)
      BY <3>4, ApplyFacts DEF NamesHold
    <3> QED BY <1>5, <3>2, <3>3, <3>4 DEF Ready, Mark, NamesHold
  <2> QED BY <1>1, <2>3, <2>4
<1>6. CASE Crash
  <2>1. \A p \in Pids : OPMETA'[p] = None /\ PROCESSES'[p] = 0
    BY <1>6 DEF Crash, Empty
  <2> QED BY <1>2, <2>1
<1>7. CASE Restart
  <2>1. /\ PROCESSES' = PROCESSES
        /\ \A p \in Pids : OPMETA'[p] # None => OPMETA'[p].id = occ[p] /\ occ[p] # 0
    BY <1>7 DEF Restart, Recovered, Running
  <2> QED BY <1>1, <1>2, <2>1 DEF NamesHold
<1> QED BY <1>2, <1>3, <1>4, <1>5, <1>6, <1>7, EntriesKept

\* The names in threads' locals stay current while no process starts.
LEMMA NamesThreads ==
    ASSUME TypeInv, NamesHold, [Next]_vars, Quieter
    PROVE  \A t \in Threads :
             /\ \A x \in th'[t].todo : x[2] # 0 => Last(born', nid', x[1], x[2])
             /\ th'[t].job \in {"launch", "register"} => Last(born', nid', th'[t].pid, th'[t].id)
             /\ th'[t].seen # 0 => Last(born', nid', th'[t].cur, th'[t].seen)
<1>1. UNCHANGED <<born, nid>>
  BY DEF Quieter
<1> DEFINE Named(l) == /\ \A x \in l.todo : x[2] # 0 => Last(born, nid, x[1], x[2])
                       /\ l.job \in {"launch", "register"} => Last(born, nid, l.pid, l.id)
                       /\ l.seen # 0 => Last(born, nid, l.cur, l.seen)
<1>2. \A u \in Threads : Named(th[u])
  BY DEF NamesHold
<1>3. ASSUME NEW t \in Threads, Named(th'[t]), \A u \in Threads \ {t} : th'[u] = th[u]
      PROVE  \A u \in Threads : Named(th'[u])
  BY <1>2, <1>3
<1>4. ASSUME NEW t \in Threads, Thinking(t)
      PROVE  \A u \in Threads : Named(th'[u])
  <2>1. Thought(t, th'[t]) /\ \A u \in Threads \ {t} : th'[u] = th[u]
    BY <1>4, ThinkingThought, ThinkingFacts, NewLocal
  <2>2. \A x \in th'[t].todo : x[2] # 0 => Last(born, nid, x[1], x[2])
    BY <2>1 DEF Thought, NamesHold
  <2>3. th'[t].job \in {"launch", "register"} => Last(born, nid, th'[t].pid, th'[t].id)
    BY <2>1 DEF Thought, NamesHold, Running
  <2>4. th'[t].seen # 0 => Last(born, nid, th'[t].cur, th'[t].seen)
    BY <2>1 DEF Thought, NamesHold
  <2> QED BY <1>3, <2>1, <2>2, <2>3, <2>4
<1>5. ASSUME NEW t \in Threads, Acting(t)
      PROVE  \A u \in Threads : Named(th'[u])
  <2>1. Kept(t, th'[t]) /\ \A u \in Threads \ {t} : th'[u] = th[u]
    BY <1>5, ActingKept
  <2>2. Named(th'[t])
    BY <2>1, <1>2 DEF Kept
  <2> QED BY <1>3, <2>1, <2>2
<1>6. ASSUME NEW t \in Threads, NEW p \in Pids, Launch(t, p)
      PROVE  FALSE
  BY <1>1, <1>6 DEF Launch, Start, TypeInv, TypeOK
<1>7. th' = th => \A u \in Threads : Named(th'[u])
  BY <1>2
<1>9. ASSUME \/ \E p \in Pids, kind \in Kinds : Spawn(p, kind)
             \/ \E p \in Pids : Exit(p) \/ Reaped(p)
             \/ Restart \/ UNCHANGED vars
      PROVE  th' = th
  BY <1>9 DEF Spawn, Exit, Reaped, Restart, vars
<1>10. Crash => \A u \in Threads : Named(th'[u])
  <2> SUFFICES ASSUME Crash PROVE \A u \in Threads : th'[u] = Idle
    BY DEF Idle
  <2> QED BY DEF Crash
<1> HIDE DEF Named
<1>11. \A u \in Threads : Named(th'[u])
  BY <1>4, <1>5, <1>6, <1>7, <1>9, <1>10, Classes
<1> QED BY <1>1, <1>11 DEF Named

\* The invariant on names is inductive when known pids are not reused.
LEMMA NamesNext ==
    ASSUME ~AnyReuse, TypeInv, NamesHold, [Next]_vars
    PROVE  NamesHold'
<1>1. CASE Quieter
  BY <1>1, NamesEntries, NamesThreads DEF NamesHold
<1> QED BY <1>1, NamesStart, Processes

(* ------------------------ What a sweep may complete ------------------------ *)

\* The processes in the registry's care that are alive, and the pids with an active entry.
Tracked == {p \in Pids : Running(p) /\ born[occ[p]].kind # "goddess"}
Entered == {p \in Pids : OPMETA[p] # None}

\* A thread with locals l is about to complete no tracked process: none that lives in T, and of
\* the ones it still has to look at none that lives without an entry in E.
Swept(l, T, E) ==
    /\ l.pc \in {"done", "complete"} => l.cur \notin T
    /\ l.pc = "match" /\ l.seen = 0 => l.cur \notin T
    /\ l.pc = "match" => l.cur \notin T \ E
    /\ l.pc \in {"look", "match"} \/ l.ret = "look" => \A x \in l.todo : x[1] \notin T \ E

SweepsHold == \A t \in Threads : Swept(th[t], Tracked, Entered)

\* Without a start no process becomes tracked.
LEMMA TrackedEnds ==
    ASSUME TypeInv, Quieter
    PROVE  Tracked' \subseteq Tracked /\ \A p \in Pids : Running(p)' => Running(p) /\ occ'[p] = occ[p]
<1>1. ASSUME NEW p \in Pids, Running(p)'
      PROVE  Running(p) /\ occ'[p] = occ[p]
  BY <1>1 DEF Running, Quieter
<1> QED BY <1>1 DEF Tracked, Quieter

\* A start makes one process tracked at most.
LEMMA TrackedStarts ==
    ASSUME TypeInv, NamesHold, NEW q \in Pids, NEW kind \in Kinds, Start(q, kind), dead' = dead
    PROVE  Tracked' \subseteq Tracked \cup {q}
<1> SUFFICES ASSUME NEW p \in Tracked', p # q PROVE p \in Tracked
  OBVIOUS
<1>1. /\ \A r \in Pids \ {q} : occ'[r] = occ[r]
      /\ \A i \in Ids \ {nid + 1} : born'[i] = born[i]
      /\ nid \in Nat
  BY StartType
<1>2. p \in Pids /\ occ'[p] = occ[p] /\ occ[p] \in Ids /\ Running(p)
  BY <1>1 DEF Tracked, Running, TypeInv, TypeOK
<1>3. occ[p] # nid + 1
  BY <1>1, <1>2 DEF NamesHold, Last, Running
<1> QED BY <1>1, <1>2, <1>3 DEF Tracked

\* The process an entry names has the entry's pid, if any process has.
LEMMA Named ==
    ASSUME TypeInv, NamesHold, NEW p \in Pids, occ[p] # 0
    PROVE  /\ OPMETA[p] # None => OPMETA[p].id = occ[p]
           /\ \A i : Last(born, nid, p, i) => i = occ[p]
<1>1. nid \in Nat /\ Last(born, nid, p, occ[p])
  BY Numbers DEF NamesHold, TypeInv, TypeOK
<1>2. \A i : Last(born, nid, p, i) => i = occ[p]
  BY <1>1, LastUnique
<1> QED BY <1>2 DEF NamesHold

\* No step removes the entry of a tracked process.
LEMMA EntryStays ==
    ASSUME TypeInv, NamesHold, SweepsHold, [Next]_vars, up, up', NEW p \in Pids, p \in Tracked, p \in Entered
    PROVE  p \in Entered'
<1>0. OPMETA[p] # None /\ occ[p] # 0
  BY DEF Entered, Tracked, Running
<1>1. CASE OPMETA' = OPMETA
  BY <1>0, <1>1 DEF Entered
<1>2. ASSUME NEW t \in Threads, RecordDone(t)
      PROVE  p \in Entered'
  <2>1. th[t].pc = "done" /\ th[t].cur \in Pids /\ recorddone(th[t].cur)
    BY <1>2, LocalType DEF RecordDone, At, LocalOK
  <2>2. p # th[t].cur
    BY <2>1 DEF SweepsHold, Swept
  <2>3. OPMETA'[p] = OPMETA[p]
    BY <2>1, <2>2, RecordDoneFacts
  <2> QED BY <1>0, <2>3 DEF Entered
<1>3. ASSUME NEW t \in Threads, RecordStart(t)
      PROVE  p \in Entered'
  <2> DEFINE q == th[t].pid
  <2>1. /\ q \in Pids /\ th[t].id \in Ids /\ th[t].starting \in BOOLEAN
        /\ recordstart(q, th[t].id, th[t].starting, th[t].job = "launch")
    BY <1>3, LocalType DEF RecordStart, At, LocalOK, Local
  <2>2. OPMETA'[p] # None
    BY <1>0, <2>1, RecordStartFacts
  <2> QED BY <2>2 DEF Entered
<1>4. ASSUME NEW t \in Threads, NEW q \in Pids, Ready(t, q)
      PROVE  p \in Entered'
  BY <1>0, <1>4, StartedFacts DEF Ready, Entered
<1>5. ASSUME NEW t \in Threads, Mark(t)
      PROVE  p \in Entered'
  <2>1. th[t].pid \in Pids
    BY <1>5, LocalType DEF Mark, At, LocalOK
  <2> QED BY <1>0, <1>5, <2>1, StartedFacts DEF Mark, Entered
<1>6. ASSUME NEW t \in Threads, BootstrapApply(t)
      PROVE  p \in Entered'
  <2>1. OPMETA[p].id = occ[p]
    BY <1>0, Named
  <2>2. born[OPMETA[p].id].kind # "goddess"
    BY <2>1 DEF Tracked
  <2>3. OPMETA'[p] # None
    BY <1>0, <1>6, <2>2, ApplyFacts
  <2> QED BY <2>3 DEF Entered
<1>7. ASSUME NEW t \in Threads, SaveSnapshot(t) \/ SaveReplace(t) \/ SaveFails(t)
      PROVE  OPMETA' = OPMETA
  BY <1>7 DEF SaveSnapshot, SaveReplace, SaveFails, registry
<1>8. ~Crash /\ ~Restart
  BY DEF Crash, Restart
<1> QED BY <1>1, <1>2, <1>3, <1>4, <1>5, <1>6, <1>7, <1>8, EntriesKept

\* No sweep is under way at first.
LEMMA SweepsInit == Init => SweepsHold
BY DEF Init, SweepsHold, Swept, Idle

\* A new process is not one that a sweep under way is about to complete.
LEMMA SweepsStart ==
    ASSUME ~AnyReuse, TypeInv, NamesHold, SweepsHold, NEW q \in Pids, NEW kind \in Kinds, Start(q, kind),
           Spawn(q, kind) \/ (kind = "child" /\ \E t \in Threads : Launch(t, q)),
           UNCHANGED <<dead, registry, saving, history, up, crashes, fails>>
    PROVE  SweepsHold'
<1>1. Tracked' \subseteq Tracked \cup {q}
  BY TrackedStarts
<1>2. \A t \in Threads : th[t].cur # q /\ \A x \in th[t].todo : x[1] # q
  BY Unknown
<1>3. Entered' = Entered
  BY DEF Entered, registry
<1>4. \A t \in Threads : Swept(th[t], Tracked', Entered')
  BY <1>1, <1>2, <1>3 DEF SweepsHold, Swept
<1>5. ASSUME NEW t \in Threads, Launch(t, q)
      PROVE  /\ \A u \in Threads \ {t} : th'[u] = th[u]
             /\ th'[t].pc = "record" /\ th'[t].ret = "idle"
  BY <1>5, LaunchLocal
<1>6. Spawn(q, kind) => th' = th
  BY DEF Spawn
<1>7. ASSUME NEW t \in Threads, Launch(t, q)
      PROVE  \A u \in Threads : Swept(th'[u], Tracked', Entered')
  <2>1. Swept(th'[t], Tracked', Entered')
    BY <1>5, <1>7 DEF Swept
  <2> QED BY <1>4, <1>5, <1>7, <2>1
<1> QED BY <1>4, <1>6, <1>7 DEF SweepsHold

\* The invariant on sweeps is inductive when known pids are not reused.
LEMMA SweepsNext ==
    ASSUME ~AnyReuse, TypeInv, NamesHold, SweepsHold, [Next]_vars
    PROVE  SweepsHold'
<1> SUFFICES ASSUME Quieter PROVE SweepsHold'
  BY SweepsStart, Processes
<1>1. Tracked' \subseteq Tracked /\ \A p \in Pids : Running(p)' => Running(p) /\ occ'[p] = occ[p]
  BY TrackedEnds
<1>2. up /\ up' => (Tracked' \ Entered') \subseteq (Tracked \ Entered)
  BY <1>1, EntryStays DEF Entered, Tracked
<1>3. ASSUME up, up', NEW l, Swept(l, Tracked, Entered)
      PROVE  Swept(l, Tracked', Entered')
  BY <1>1, <1>2, <1>3 DEF Swept
<1>4. ASSUME NEW t \in Threads, up, up', Swept(th'[t], Tracked, Entered), \A u \in Threads \ {t} : th'[u] = th[u]
      PROVE  SweepsHold'
  BY <1>3, <1>4 DEF SweepsHold
<1>5. ASSUME NEW t \in Threads, Thinking(t)
      PROVE  SweepsHold'
  <2>1. /\ Thought(t, th'[t]) /\ up /\ up' /\ \A u \in Threads \ {t} : th'[u] = th[u]
        /\ Swept(th[t], Tracked, Entered)
    BY <1>5, ThinkingThought, ThinkingFacts, NewLocal DEF Quiet, SweepsHold
  <2>2. th[t] \in Local /\ LocalOK(t, th[t])
    BY LocalType
  <2> DEFINE m == th'[t]
  <2>3. m.pc \in {"done", "complete"} => m.cur \notin Tracked
    <3> SUFFICES ASSUME m.pc \in {"done", "complete"}, m.cur \in Tracked PROVE FALSE
      OBVIOUS
    <3>1. m.cur \in Pids /\ Running(m.cur) /\ occ[m.cur] # 0
      BY DEF Tracked, Running
    <3>2. CASE th[t].pc = "complete" /\ m.cur = th[t].cur
      BY <2>1, <3>2 DEF Swept
    <3>3. CASE /\ th[t].pc = "match" /\ m.cur = th[t].cur
               /\ th[t].seen = 0 \/ OPMETA[m.cur] = None \/ OPMETA[m.cur].id # th[t].seen
      <4>1. th[t].seen # 0 /\ OPMETA[m.cur] # None
        BY <2>1, <3>1, <3>3 DEF Swept, Entered
      <4>2. Last(born, nid, m.cur, th[t].seen)
        BY <3>3, <4>1 DEF NamesHold
      <4>3. th[t].seen = occ[m.cur] /\ OPMETA[m.cur].id = occ[m.cur]
        BY <3>1, <4>1, <4>2, Named
      <4> QED BY <3>3, <4>1, <4>3
    <3> QED BY <2>1, <3>1, <3>2, <3>3 DEF Thought
  <2>4. m.pc = "match" => (m.seen = 0 => m.cur \notin Tracked) /\ m.cur \notin Tracked \ Entered
    <3> SUFFICES ASSUME m.pc = "match"
                 PROVE  (m.seen = 0 => m.cur \notin Tracked) /\ m.cur \notin Tracked \ Entered
      OBVIOUS
    <3>1. /\ th[t].pc = "look" /\ \E x \in th[t].todo : m.cur = x[1]
          /\ m.seen = IF Running(m.cur) THEN occ[m.cur] ELSE 0
      BY <2>1 DEF Thought
    <3>2. m.cur \notin Tracked \ Entered
      BY <2>1, <3>1 DEF Swept
    <3> QED BY <3>1, <3>2 DEF Tracked, Running
  <2>5. m.pc \in {"look", "match"} \/ m.ret = "look" => \A x \in m.todo : x[1] \notin Tracked \ Entered
    <3>1. CASE m.pc = "match"
      BY <2>1, <3>1 DEF Thought, Swept
    <3>2. CASE m.pc = "look" \/ m.ret = "look"
      <4>1. CASE th[t].pc = "match" /\ m.todo = th[t].todo
        BY <2>1, <4>1 DEF Swept
      <4>2. CASE th[t].pc = "poll" /\ \A x \in m.todo : OPMETA[x[1]] # None
        BY <4>2 DEF Entered, Tracked
      <4> QED BY <2>1, <3>2, <4>1, <4>2 DEF Thought
    <3> QED BY <3>1, <3>2
  <2>6. Swept(th'[t], Tracked, Entered)
    BY <2>3, <2>4, <2>5 DEF Swept
  <2> QED BY <1>4, <2>1, <2>6
<1>6. ASSUME NEW t \in Threads, Acting(t)
      PROVE  SweepsHold'
  <2>1. /\ Kept(t, th'[t]) /\ \A u \in Threads \ {t} : th'[u] = th[u] /\ up
        /\ Swept(th[t], Tracked, Entered)
    BY <1>6, ActingKept DEF SweepsHold
  <2>2. up /\ up'
    BY <1>6, ActingUp
  <2> DEFINE m == th'[t]
  <2>3. m.pc = "done" => m.cur \notin Tracked
    <3> SUFFICES ASSUME m.pc = "done", m.cur \in Tracked PROVE FALSE
      OBVIOUS
    <3>1. PICK x \in th[t].todo : x[2] \in dead /\ m.cur = x[1]
      BY <2>1 DEF Kept
    <3>2. x[2] # 0
      BY <3>1, Numbers DEF TypeInv, TypeOK, Ids
    <3>3. Last(born, nid, m.cur, x[2])
      BY <3>1, <3>2 DEF NamesHold
    <3>4. m.cur \in Pids /\ occ[m.cur] # 0 /\ occ[m.cur] \notin dead
      BY DEF Tracked, Running
    <3> QED BY <3>1, <3>3, <3>4, Named
  <2>4. m.pc \notin {"match", "complete"}
    BY <2>1 DEF Kept
  <2>5. m.pc = "look" \/ m.ret = "look" => \A x \in m.todo : x[1] \notin Tracked \ Entered
    BY <2>1 DEF Kept, Swept
  <2>6. Swept(th'[t], Tracked, Entered)
    BY <2>3, <2>4, <2>5 DEF Swept
  <2> QED BY <1>4, <2>1, <2>2, <2>6
<1>7. ASSUME NEW t \in Threads, NEW p \in Pids, Launch(t, p)
      PROVE  FALSE
  BY <1>7 DEF Quieter, Launch, Start, TypeInv, TypeOK
<1>8. ASSUME NEW p \in Pids, NEW kind \in Kinds, Spawn(p, kind)
      PROVE  FALSE
  BY <1>8 DEF Quieter, Spawn, Start, TypeInv, TypeOK
<1>9. ASSUME (\E p \in Pids : Exit(p) \/ Reaped(p)) \/ UNCHANGED vars
      PROVE  SweepsHold'
  <2>1. th' = th /\ OPMETA' = OPMETA
    BY <1>9 DEF Exit, Reaped, vars, registry
  <2>2. Entered' = Entered
    BY <2>1 DEF Entered
  <2> QED BY <1>1, <2>1, <2>2 DEF SweepsHold, Swept
<1>10. ASSUME Crash \/ Restart
       PROVE  SweepsHold'
  <2>1. \A u \in Threads : th'[u] = Idle
    BY <1>10 DEF Crash, Restart, TypeInv
  <2> QED BY <2>1 DEF SweepsHold, Swept, Idle
<1> QED BY <1>5, <1>6, <1>7, <1>8, <1>9, <1>10, Classes

(* ----------------------- Answered and kept on disk ----------------------- *)

\* The processes whose launch or registration was answered, or is about to be.
HeldIds == acked \cup {th[t].id : t \in {u \in Threads : th[u].ret = "ack"}}

KindsHold ==
    /\ \A i \in acked : Given(nid, i) /\ born[i].kind # "goddess"
    /\ \A t \in Threads : /\ th[t].job = "register" => born[th[t].id].kind = "prog"
                          /\ th[t].job = "launch" => born[th[t].id].kind = "child"
                          /\ th[t].pc = "bootapply" => \A x \in th[t].todo : born[x[2]].kind = "goddess"

HeldHolds ==
    up /\ fails = 0 => \A p \in Pids : Running(p) /\ occ[p] \in HeldIds => p \in Entered

\* While no checkpoint failed, the disk and the copies on their way to it have the entries of all
\* answered processes, and the copies have the entry of the process whose answer waits for them.
DiskHolds ==
    fails = 0 =>
        /\ \A p \in Pids : Running(p) /\ occ[p] \in acked =>
             Live(disk.active, p) /\ (wlock # None => Live(snap.active, p))
        /\ \A t \in Threads : th[t].pc = "write" /\ th[t].ret = "ack" /\ Running(th[t].pid) =>
             Live(snap.active, th[t].pid)

\* Nothing is answered at first.
LEMMA HeldInit == Init => KindsHold /\ HeldHolds /\ DiskHolds
BY DEF Init, KindsHold, HeldHolds, DiskHolds, Running, Idle

\* A registration is answered at the end of its savestate only.
LEMMA AckedGrows ==
    ASSUME [Next]_vars, NEW i \in acked'
    PROVE  \/ i \in acked
           \/ \E t \in Threads : /\ SaveReplace(t) \/ SaveFails(t)
                                 /\ th[t].pc = "write" /\ th[t].ret = "ack" /\ i = th[t].id
<1>1. ASSUME NEW t \in Threads, SaveReplace(t) \/ SaveFails(t)
      PROVE  i \in acked \/ (th[t].pc = "write" /\ th[t].ret = "ack" /\ i = th[t].id)
  BY <1>1 DEF SaveReplace, SaveFails, At, Resume
<1>2. ASSUME NEW t \in Threads, SaveSnapshot(t) \/ (\E x \in th[t].todo : Poll(t, x)) \/ RecordDone(t)
                                \/ (\E S : SweepEnd(t, S)) \/ RecordStart(t) \/ (\E p \in Pids : Ready(t, p))
                                \/ Mark(t) \/ BootstrapApply(t) \/ (\E p \in Pids : Launch(t, p))
      PROVE  acked' = acked
  BY <1>2 DEF SaveSnapshot, Poll, RecordDone, SweepEnd, RecordStart, Ready, Mark, BootstrapApply, Launch, history
<1>3. ASSUME NEW t \in Threads, Kill(t)
      PROVE  i \in acked
  BY <1>3 DEF Kill, Die, history
<1>4. ASSUME NEW t \in Threads, Thinking(t)
      PROVE  i \in acked
  BY <1>4, ThinkingFacts DEF history
<1>5. ASSUME \/ \E p \in Pids, kind \in Kinds : Spawn(p, kind)
             \/ \E p \in Pids : Exit(p) \/ Reaped(p)
             \/ Crash \/ Restart \/ UNCHANGED vars
      PROVE  i \in acked
  BY <1>5 DEF Spawn, Exit, Reaped, Die, Crash, Restart, vars, history
<1> QED BY <1>1, <1>2, <1>3, <1>4, <1>5, Steps

\* What a process was born as never changes.
LEMMA BornKept ==
    ASSUME TypeInv, [Next]_vars, NEW i \in Ids, Given(nid, i)
    PROVE  born'[i] = born[i]
<1>1. CASE Quieter
  BY <1>1 DEF Quieter
<1>2. ASSUME NEW p \in Pids, NEW kind \in Kinds, Start(p, kind)
      PROVE  born'[i] = born[i]
  <2>1. nid \in Nat /\ \A j \in Ids \ {nid + 1} : born'[j] = born[j]
    BY <1>2, StartType
  <2> QED BY <2>1 DEF Given
<1> QED BY <1>1, <1>2, Processes

\* Launches are of children, registrations of programs, lists of GODDESS's own processes.
LEMMA KindsNext ==
    ASSUME TypeInv, GivenHolds, KindsHold, [Next]_vars
    PROVE  KindsHold'
<1>1. Given(nid', 0) /\ \A i : Given(nid, i) => Given(nid', i)
  BY GivenProcesses, GivenGrows
<1>2. acked \subseteq Ids /\ \A t \in Threads : th[t].job \in {"launch", "register"} => th[t].id \in Ids
  BY LocalType DEF TypeInv, TypeOK, LocalOK
<1>3. ASSUME NEW i \in acked'
      PROVE  Given(nid', i) /\ born'[i].kind # "goddess"
  <2>1. CASE i \in acked
    BY <1>1, <1>2, <2>1, BornKept DEF KindsHold
  <2>2. ASSUME NEW t \in Threads, th[t].ret = "ack", i = th[t].id
        PROVE  Given(nid', i) /\ born'[i].kind # "goddess"
    <3>1. th[t].job \in {"launch", "register"}
      BY <2>2, LocalType DEF LocalOK
    <3>2. Given(nid, i) /\ i \in Ids /\ born[i].kind # "goddess"
      BY <1>2, <2>2, <3>1 DEF GivenHolds, KindsHold
    <3> QED BY <1>1, <3>2, BornKept
  <2> QED BY <2>1, <2>2, AckedGrows
<1> DEFINE Good(l) == /\ l.job = "register" => born'[l.id].kind = "prog"
                      /\ l.job = "launch" => born'[l.id].kind = "child"
                      /\ l.pc = "bootapply" => \A x \in l.todo : born'[x[2]].kind = "goddess"
<1>4. \A u \in Threads : Good(th[u])
  <2> TAKE u \in Threads
  <2>1. CASE th[u].job \in {"launch", "register"}
    BY <1>2, <2>1, BornKept, LocalType DEF KindsHold, GivenHolds, LocalOK
  <2>2. ASSUME th[u].pc = "bootapply", NEW x \in th[u].todo
        PROVE  born'[x[2]].kind = "goddess"
    <3>1. x \in Pids \X Ids
      BY <2>2, LocalType DEF LocalOK
    <3>2. x[2] \in Ids /\ Given(nid, x[2]) /\ born[x[2]].kind = "goddess"
      BY <2>2, <3>1 DEF GivenHolds, KindsHold
    <3> QED BY <3>2, BornKept
  <2> QED BY <2>1, <2>2
<1>5. ASSUME NEW t \in Threads, Thinking(t)
      PROVE  \A u \in Threads : Good(th'[u])
  <2>1. Thought(t, th'[t]) /\ born' = born /\ \A u \in Threads \ {t} : th'[u] = th[u]
    BY <1>5, ThinkingThought, ThinkingFacts, NewLocal DEF kernel
  <2>2. Good(th'[t])
    BY <2>1 DEF Thought
  <2> QED BY <1>4, <2>1, <2>2
<1>6. ASSUME NEW t \in Threads, Acting(t)
      PROVE  \A u \in Threads : Good(th'[u])
  <2>1. Kept(t, th'[t]) /\ \A u \in Threads \ {t} : th'[u] = th[u]
    BY <1>6, ActingKept
  <2>2. Good(th'[t])
    BY <1>4, <2>1 DEF Kept
  <2> QED BY <1>4, <2>1, <2>2
<1>7. ASSUME NEW t \in Threads, NEW p \in Pids, Launch(t, p)
      PROVE  \A u \in Threads : Good(th'[u])
  <2>1. /\ th'[t].job = "launch" /\ th'[t].pc = "record" /\ th'[t].id = nid + 1
        /\ \A u \in Threads \ {t} : th'[u] = th[u]
    BY <1>7, LaunchLocal
  <2>2. born'[nid + 1].kind = "child"
    <3>1. "child" \in Kinds /\ Start(p, "child")
      BY <1>7 DEF Launch, Kinds
    <3>2. born'[nid + 1] = [pid |-> p, kind |-> "child"]
      BY <3>1, StartType
    <3> QED BY <3>2
  <2> QED BY <1>4, <2>1, <2>2
<1>8. ASSUME Crash
      PROVE  \A u \in Threads : Good(th'[u])
  <2>1. \A u \in Threads : th'[u].job = "reap" /\ th'[u].pc = "idle"
    BY <1>8 DEF Crash, Idle
  <2> QED BY <2>1
<1>9. ASSUME \/ \E p \in Pids, kind \in Kinds : Spawn(p, kind)
             \/ \E p \in Pids : Exit(p) \/ Reaped(p)
             \/ Restart \/ UNCHANGED vars
      PROVE  th' = th
  BY <1>9 DEF Spawn, Exit, Reaped, Restart, vars
<1> HIDE DEF Good
<1>10. \A u \in Threads : Good(th'[u])
  BY <1>4, <1>5, <1>6, <1>7, <1>8, <1>9, Classes
<1> QED BY <1>3, <1>10 DEF KindsHold, Good

\* An answer comes to be owed in recordstart only.
LEMMA HeldGrows ==
    ASSUME TypeInv, [Next]_vars, NEW i \in HeldIds'
    PROVE  i \in HeldIds \/ \E t \in Threads : RecordStart(t) /\ i = th[t].id
<1>1. CASE i \in acked'
  BY <1>1, AckedGrows DEF HeldIds
<1>2. ASSUME NEW u \in Threads, th'[u].ret = "ack", i = th'[u].id
      PROVE  i \in HeldIds \/ \E t \in Threads : RecordStart(t) /\ i = th[t].id
  <2>1. CASE th'[u] = th[u]
    BY <1>2, <2>1 DEF HeldIds
  <2>2. ASSUME NEW t \in Threads, Thinking(t)
        PROVE  th'[u] = th[u]
    BY <1>2, <2>2, ThinkingThought, ThinkingFacts, NewLocal DEF Thought
  <2>3. ASSUME NEW t \in Threads, NEW p \in Pids, Launch(t, p)
        PROVE  th'[u] = th[u]
    BY <1>2, <2>3, LaunchLocal
  <2>4. ASSUME NEW t \in Threads, Acting(t)
        PROVE  i \in HeldIds \/ \E v \in Threads : RecordStart(v) /\ i = th[v].id
    <3>1. Kept(t, th'[t]) /\ \A v \in Threads \ {t} : th'[v] = th[v]
      BY <2>4, ActingKept
    <3>2. CASE u # t
      BY <2>1, <3>1, <3>2
    <3>3. CASE u = t /\ th[t].ret = "ack"
      BY <1>2, <3>1, <3>3 DEF Kept, HeldIds
    <3>4. CASE u = t /\ th[t].pc = "record"
      <4>1. RecordStart(t)
        BY <2>4, <3>4 DEF Acting, SaveSnapshot, SaveReplace, SaveFails, Poll, RecordDone, SweepEnd, Ready, Kill,
                          Mark, BootstrapApply, At
      <4> QED BY <1>2, <3>1, <3>4, <4>1 DEF Kept
    <3> QED BY <1>2, <3>1, <3>2, <3>3, <3>4 DEF Kept
  <2>5. ~Crash
    BY <1>2 DEF Crash, Idle
  <2>6. ASSUME \/ \E p \in Pids, kind \in Kinds : Spawn(p, kind)
               \/ \E p \in Pids : Exit(p) \/ Reaped(p)
               \/ Restart \/ UNCHANGED vars
        PROVE  th' = th
    BY <2>6 DEF Spawn, Exit, Reaped, Restart, vars
  <2> QED BY <2>1, <2>2, <2>3, <2>4, <2>5, <2>6, Classes
<1> QED BY <1>1, <1>2 DEF HeldIds

\* What is held was started, and is no process of GODDESS.
LEMMA HeldKind ==
    ASSUME TypeInv, GivenHolds, KindsHold, NEW i \in HeldIds
    PROVE  Given(nid, i) /\ born[i].kind # "goddess"
<1>1. CASE i \in acked
  BY <1>1 DEF KindsHold
<1>2. ASSUME NEW t \in Threads, th[t].ret = "ack", i = th[t].id
      PROVE  Given(nid, i) /\ born[i].kind # "goddess"
  <2>1. th[t].job \in {"launch", "register"}
    BY <1>2, LocalType DEF LocalOK
  <2> QED BY <1>2, <2>1 DEF KindsHold, GivenHolds
<1> QED BY <1>1, <1>2 DEF HeldIds

\* The pid of a launch or a registration is that of its process.
LEMMA SamePid ==
    ASSUME TypeInv, NamesHold, NEW p \in Pids, occ[p] # 0,
           NEW t \in Threads, th[t].job \in {"launch", "register"}
    PROVE  occ[p] = th[t].id <=> p = th[t].pid
<1>1. Last(born, nid, th[t].pid, th[t].id) /\ Last(born, nid, p, occ[p])
  BY DEF NamesHold
<1> QED BY <1>1, Named DEF Last

\* Only a restart brings the server up.
LEMMA OnlyRestart ==
    ASSUME [Next]_vars, ~up, up'
    PROVE  Restart
<1>1. ASSUME NEW t \in Threads, Thinking(t) \/ Acting(t) \/ \E p \in Pids : Launch(t, p)
      PROVE  up
  BY <1>1, ThinkingFacts, ActingUp DEF Launch, At
<1>2. ASSUME \/ \E p \in Pids, kind \in Kinds : Spawn(p, kind)
             \/ \E p \in Pids : Exit(p) \/ Reaped(p)
             \/ Crash \/ UNCHANGED vars
      PROVE  up' = up \/ ~up'
  BY <1>2 DEF Spawn, Exit, Reaped, Crash, vars
<1> QED BY <1>1, <1>2, Classes

\* Without a failed checkpoint so far, none failed before.
LEMMA NoFails ==
    ASSUME TypeInv, [Next]_vars, fails' = 0
    PROVE  fails = 0 /\ \A t \in Threads : ~SaveFails(t)
<1>1. fails \in Nat
  BY Numbers DEF TypeInv, TypeOK
<1>2. \A t \in Threads : ~SaveFails(t)
  BY <1>1 DEF SaveFails
<1>3. \/ fails' = fails
      \/ \E t \in Threads : \/ SaveSnapshot(t) \/ SaveReplace(t) \/ SaveFails(t)
                            \/ RecordDone(t) \/ RecordStart(t) \/ (\E p \in Pids : Ready(t, p))
                            \/ Mark(t) \/ BootstrapApply(t)
      \/ Crash \/ Restart
  BY EntriesKept
<1>4. fails' = fails
  BY <1>2, <1>3 DEF SaveSnapshot, SaveReplace, RecordDone, RecordStart, Ready, Mark, BootstrapApply,
                    Crash, Restart, Quiet
<1> QED BY <1>2, <1>4

\* No step takes the entry of a living process that was answered, or is about to be.
LEMMA HeldNext ==
    ASSUME ~AnyReuse, TypeInv, GivenHolds, NamesHold, SweepsHold, KindsHold, HeldHolds, DiskHolds, [Next]_vars
    PROVE  HeldHolds'
<1> SUFFICES ASSUME up', fails' = 0, NEW p \in Pids, Running(p)', occ'[p] \in HeldIds'
             PROVE  p \in Entered'
  BY DEF HeldHolds
<1>1. fails = 0
  BY NoFails
<1>2. occ'[p] \in HeldIds \/ \E t \in Threads : RecordStart(t) /\ occ'[p] = th[t].id
  BY HeldGrows
<1>3. Running(p) /\ occ'[p] = occ[p] /\ occ[p] # 0
  <2>1. Given(nid, occ'[p])
    BY <1>2, HeldKind DEF GivenHolds
  <2>2. nid \in Nat => occ'[p] # nid + 1
    BY <2>1 DEF Given
  <2>3. Running(p) /\ occ'[p] = occ[p]
    BY <2>2, Newcomer
  <2> QED BY <2>3 DEF Running
<1>4. CASE up /\ occ[p] \in HeldIds
  <2>1. p \in Entered
    BY <1>1, <1>3, <1>4 DEF HeldHolds
  <2>2. p \in Tracked
    BY <1>3, <1>4, HeldKind DEF Tracked
  <2> QED BY <1>4, <2>1, <2>2, EntryStays
<1>5. ASSUME NEW t \in Threads, RecordStart(t), occ[p] = th[t].id
      PROVE  p \in Entered'
  <2>1. /\ th[t].pid \in Pids /\ th[t].id \in Ids /\ th[t].starting \in BOOLEAN
        /\ recordstart(th[t].pid, th[t].id, th[t].starting, th[t].job = "launch")
        /\ th[t].job \in {"launch", "register"}
    BY <1>5, LocalType DEF RecordStart, At, LocalOK, Local
  <2>2. p = th[t].pid
    BY <1>3, <1>5, <2>1, SamePid
  <2>3. OPMETA'[th[t].pid] # None
    BY <2>1, RecordStartFacts
  <2> QED BY <2>2, <2>3 DEF Entered
<1>6. CASE ~up
  <2>1. Restart
    BY <1>6, OnlyRestart
  <2>2. OPMETA' = Recovered /\ th' = th /\ acked' = acked
    BY <2>1 DEF Restart, history
  <2>3. \A t \in Threads : th[t].ret # "ack"
    BY <1>6 DEF TypeInv, Idle
  <2>4. occ[p] \in acked
    BY <1>3, <2>2, <2>3 DEF HeldIds
  <2>5. Live(disk.active, p)
    BY <1>1, <1>3, <2>4 DEF DiskHolds
  <2>6. OPMETA'[p] = disk.active[p] /\ disk.active[p] # None
    BY <1>3, <2>2, <2>5 DEF Live, Recovered
  <2> QED BY <2>6 DEF Entered
<1> QED BY <1>2, <1>3, <1>4, <1>5, <1>6

\* A step that leaves STATEWRITELOCK alone answers no launch and takes no thread into a write.
LEMMA LockKept ==
    ASSUME TypeInv, LockHolds, [Next]_vars, wlock' = wlock
    PROVE  acked' \subseteq acked /\ \A u \in Threads : th'[u].pc = "write" => th'[u] = th[u]
<1>1. ASSUME NEW t \in Threads, SaveReplace(t) \/ SaveFails(t) \/ SaveSnapshot(t)
      PROVE  FALSE
  BY <1>1, Numbers DEF SaveReplace, SaveFails, SaveSnapshot, At, LockHolds
<1>2. acked' \subseteq acked
  BY <1>1, AckedGrows
<1>3. ASSUME NEW u \in Threads, th'[u].pc = "write"
      PROVE  th'[u] = th[u]
  <2>1. ASSUME NEW t \in Threads, Thinking(t)
        PROVE  th'[u] = th[u]
    BY <1>3, <2>1, ThinkingThought, ThinkingFacts, NewLocal DEF Thought
  <2>2. ASSUME NEW t \in Threads, Acting(t)
        PROVE  th'[u] = th[u]
    BY <1>1, <1>3, <2>2, ActingKept DEF Kept
  <2>3. ASSUME NEW t \in Threads, NEW p \in Pids, Launch(t, p)
        PROVE  th'[u] = th[u]
    BY <1>3, <2>3, LaunchLocal
  <2>4. ~Crash
    BY <1>3 DEF Crash, Idle
  <2>5. ASSUME \/ \E p \in Pids, kind \in Kinds : Spawn(p, kind)
               \/ \E p \in Pids : Exit(p) \/ Reaped(p)
               \/ Restart \/ UNCHANGED vars
        PROVE  th' = th
    BY <2>5 DEF Spawn, Exit, Reaped, Restart, vars
  <2> QED BY <2>1, <2>2, <2>3, <2>4, <2>5, Classes
<1> QED BY <1>2, <1>3

\* The process a request is about is not a new one.
LEMMA NotNew ==
    ASSUME ~AnyReuse, TypeInv, [Next]_vars, NEW t \in Threads, NEW p \in Pids, p = th[t].pid, Running(p)'
    PROVE  Running(p) /\ occ'[p] = occ[p]
<1>1. CASE Quieter
  BY <1>1, TrackedEnds
<1>2. ASSUME NEW q \in Pids, NEW kind \in Kinds, Start(q, kind), dead' = dead
      PROVE  Running(p) /\ occ'[p] = occ[p]
  <2>1. p # q
    BY <1>2, Unknown
  <2>2. occ'[p] = occ[p]
    BY <1>2, <2>1, StartType
  <2> QED BY <1>2, <2>2 DEF Running
<1> QED BY <1>1, <1>2, Processes

\* Nor does any checkpoint lack it.
LEMMA DiskNext ==
    ASSUME ~AnyReuse, TypeInv, GivenHolds, LockHolds, NamesHold, KindsHold, HeldHolds, DiskHolds,
           [Next]_vars, LockHolds'
    PROVE  DiskHolds'
<1> SUFFICES ASSUME fails' = 0
             PROVE  /\ \A p \in Pids : Running(p)' /\ occ'[p] \in acked' =>
                         /\ disk'.active[p] # None /\ disk'.active[p].id = occ'[p]
                         /\ wlock' # None => snap'.active[p] # None /\ snap'.active[p].id = occ'[p]
                    /\ \A t \in Threads : th'[t].pc = "write" /\ th'[t].ret = "ack" /\ Running(th[t].pid)' =>
                         snap'.active[th'[t].pid] # None /\ snap'.active[th'[t].pid].id = occ'[th'[t].pid]
  BY DEF DiskHolds, Live
<1>0. fails = 0 /\ \A t \in Threads : ~SaveFails(t)
  BY NoFails
<1> DEFINE D1 == \A p \in Pids : Running(p)' /\ occ'[p] \in acked' =>
                    /\ disk'.active[p] # None /\ disk'.active[p].id = occ'[p]
                    /\ wlock' # None => snap'.active[p] # None /\ snap'.active[p].id = occ'[p]
           D2 == \A t \in Threads : th'[t].pc = "write" /\ th'[t].ret = "ack" /\ Running(th[t].pid)' =>
                    snap'.active[th'[t].pid] # None /\ snap'.active[th'[t].pid].id = occ'[th'[t].pid]
<1>1. \A t \in Threads : th[t].ret = "ack" => th[t].job \in {"launch", "register"} /\ th[t].pid \in Pids
  BY LocalType DEF LocalOK
<1>2. ASSUME NEW p \in Pids, Running(p)', occ'[p] \in acked \/ \E t \in Threads : occ'[p] = th[t].id
      PROVE  Running(p) /\ occ'[p] = occ[p] /\ occ[p] # 0
  <2>1. Given(nid, occ'[p])
    BY <1>2 DEF GivenHolds, KindsHold
  <2>2. nid \in Nat => occ'[p] # nid + 1
    BY <2>1 DEF Given
  <2>3. Running(p) /\ occ'[p] = occ[p]
    BY <1>2, <2>2, Newcomer
  <2> QED BY <2>3 DEF Running
<1>3. CASE UNCHANGED <<disk, wlock, snap>>
  <2>1. acked' \subseteq acked /\ \A u \in Threads : th'[u].pc = "write" => th'[u] = th[u]
    BY <1>3, LockKept
  <2>2. D1
    BY <1>0, <1>2, <1>3, <2>1 DEF DiskHolds, Live
  <2>3. D2
    <3> SUFFICES ASSUME NEW t \in Threads, th'[t].pc = "write", th'[t].ret = "ack", Running(th[t].pid)'
                 PROVE  snap'.active[th'[t].pid] # None /\ snap'.active[th'[t].pid].id = occ'[th'[t].pid]
      OBVIOUS
    <3>1. th'[t] = th[t] /\ th[t].pid \in Pids
      BY <1>1, <2>1
    <3> DEFINE p == th[t].pid
    <3>2. Running(p)'
      BY <3>1 DEF Running
    <3>3. Running(p) /\ occ'[p] = occ[p]
      BY <3>1, <3>2, NotNew
    <3> QED BY <1>0, <1>3, <3>1, <3>3 DEF DiskHolds, Live
  <2> QED BY <2>2, <2>3
<1>4. ASSUME NEW t \in Threads, SaveSnapshot(t)
      PROVE  D1 /\ D2
  <2>1. /\ up /\ wlock = None /\ snap'.active = OPMETA /\ UNCHANGED <<disk, occ, dead, acked>>
        /\ th'[t] = [th[t] EXCEPT !.pc = "write"] /\ \A u \in Threads \ {t} : th'[u] = th[u]
    BY <1>4, NewLocal DEF SaveSnapshot, At, Goto, kernel, history
  <2>2. \A p \in Pids : Running(p)' <=> Running(p)
    BY <2>1 DEF Running
  <2>3. ASSUME NEW p \in Pids, Running(p), occ[p] \in HeldIds
        PROVE  OPMETA[p] # None /\ OPMETA[p].id = occ[p]
    <3>1. p \in Entered /\ occ[p] # 0
      BY <1>0, <2>1, <2>3 DEF HeldHolds, Running
    <3> QED BY <3>1, Named DEF Entered
  <2>4. D1
    BY <1>0, <2>1, <2>2, <2>3 DEF DiskHolds, Live, HeldIds
  <2>5. D2
    <3> SUFFICES ASSUME NEW u \in Threads, th'[u].pc = "write", th'[u].ret = "ack", Running(th[u].pid)'
                 PROVE  snap'.active[th'[u].pid] # None /\ snap'.active[th'[u].pid].id = occ'[th'[u].pid]
      OBVIOUS
    <3>1. u = t
      BY <2>1, Numbers DEF LockHolds
    <3>2. th'[t].pid = th[t].pid /\ th'[t].ret = th[t].ret
      BY <2>1, LocalType DEF Local
    <3> DEFINE p == th[t].pid
    <3>3. p \in Pids /\ th[t].job \in {"launch", "register"} /\ Running(p)
      BY <1>1, <2>1, <3>1, <3>2 DEF Running
    <3>4. occ[p] = th[t].id
      BY <3>3, SamePid DEF Running
    <3>5. occ[p] \in HeldIds
      BY <3>1, <3>2, <3>4 DEF HeldIds
    <3> QED BY <2>1, <2>3, <3>1, <3>2, <3>3, <3>5
  <2> QED BY <2>4, <2>5
<1>5. ASSUME NEW t \in Threads, SaveReplace(t)
      PROVE  D1 /\ D2
  <2>1. th[t].pc = "write" /\ disk' = snap /\ wlock' = None /\ UNCHANGED <<occ, dead>>
    BY <1>5 DEF SaveReplace, At, kernel
  <2>2. wlock = t /\ wlock # None
    BY <2>1, Numbers DEF LockHolds
  <2>3. \A u \in Threads : th'[u].pc # "write"
    BY <2>1, Numbers DEF LockHolds
  <2>4. ASSUME NEW p \in Pids, Running(p), occ[p] \in acked'
        PROVE  snap.active[p] # None /\ snap.active[p].id = occ[p]
    <3>1. CASE occ[p] \in acked
      BY <1>0, <2>2, <2>4, <3>1 DEF DiskHolds, Live
    <3>2. ASSUME NEW u \in Threads, th[u].pc = "write", th[u].ret = "ack", occ[p] = th[u].id
          PROVE  snap.active[p] # None /\ snap.active[p].id = occ[p]
      <4>1. p = th[u].pid
        BY <1>1, <2>4, <3>2, SamePid DEF Running
      <4> QED BY <1>0, <2>4, <3>2, <4>1 DEF DiskHolds, Live
    <3> QED BY <2>4, <3>1, <3>2, AckedGrows
  <2>5. D1
    BY <2>1, <2>4 DEF Running
  <2> QED BY <2>3, <2>5
<1>6. CASE Crash
  <2>1. disk' = disk /\ snap' = disk /\ UNCHANGED <<occ, dead, acked>> /\ \A u \in Threads : th'[u].pc # "write"
    BY <1>6 DEF Crash, Idle
  <2> QED BY <1>0, <2>1 DEF DiskHolds, Live, Running
<1>7. ASSUME NEW t \in Threads,
             RecordDone(t) \/ RecordStart(t) \/ (\E p \in Pids : Ready(t, p)) \/ Mark(t) \/ BootstrapApply(t)
      PROVE  UNCHANGED <<disk, wlock, snap>>
  BY <1>7 DEF RecordDone, RecordStart, Ready, Mark, BootstrapApply, saving
<1>8. Restart => UNCHANGED <<disk, wlock, snap>>
  BY DEF Restart, saving
<1> QED BY <1>0, <1>3, <1>4, <1>5, <1>6, <1>7, <1>8, EntriesKept

RegistryInv ==
    /\ TypeInv /\ GivenHolds /\ LockHolds
    /\ NamesHold /\ SweepsHold /\ KindsHold /\ HeldHolds /\ DiskHolds

\* The invariant holds of the empty registry.
LEMMA RegistryInit == Init => RegistryInv
BY TypeInit, GivenInit, LockInit, NamesInit, SweepsInit, HeldInit DEF RegistryInv

\* The invariant of the registry is inductive when known pids are not reused.
LEMMA RegistryNext ==
    ASSUME ~AnyReuse, RegistryInv, [Next]_vars
    PROVE  RegistryInv'
<1> USE DEF RegistryInv
<1>1. TypeInv' /\ GivenHolds' /\ LockHolds' /\ KindsHold'
  BY TypeNext, GivenNext, LockNext, KindsNext
<1>2. NamesHold' /\ SweepsHold' /\ HeldHolds'
  BY NamesNext, SweepsNext, HeldNext
<1>3. DiskHolds'
  BY <1>1, DiskNext
<1> QED BY <1>1, <1>2, <1>3

\* An operation whose launch or registration was answered stays registered, under its own
\* identity, while it is alive: no sweep, COMPLETE_PID, WAIT or list of GODDESS completes it, and
\* the checkpoint a restart reads has it.  The kernel is assumed not to reuse a pid the registry
\* still knows.
THEOREM RegistryNeverForgotten ==
    ASSUME ~AnyReuse
    PROVE  Spec => []NeverForgotten
<1>1. RegistryInv /\ [Next]_vars => RegistryInv'
  BY RegistryNext
<1>2. RegistryInv => NeverForgotten
  <2> SUFFICES ASSUME RegistryInv, up, fails = 0, NEW p \in Pids, Running(p), occ[p] \in acked
               PROVE  OPMETA[p] # None /\ OPMETA[p].id = occ[p]
    BY DEF NeverForgotten
  <2>1. p \in Entered /\ occ[p] # 0
    BY DEF RegistryInv, HeldHolds, HeldIds, Running
  <2> QED BY <2>1, Named DEF RegistryInv, Entered
<1> QED BY RegistryInit, <1>1, <1>2, PTL DEF Spec

(* ----------------------------- Early readiness ----------------------------- *)

Starting == {"launch", "register"}

\* A process that was ready before its entry: the edge waits for the entry, and the entry is not
\* starting.
EdgeKept ==
    \A p \in Tracked : occ[p] \in edge =>
        IF OPMETA[p] = None THEN p \in READYPENDING ELSE ~OPMETA[p].starting

\* It has the entry only from its registration, which is under way or answered.
EdgeHeld ==
    \A p \in Entered : Running(p) /\ occ[p] \in edge /\ born[occ[p]].kind = "prog" => occ[p] \in HeldIds

EdgeRecord ==
    \A t \in Threads : th[t].pc = "record" /\ th[t].id \in edge /\ th[t].pid \in Pids /\ Running(th[t].pid) =>
        th[t].pid \notin Entered

\* The entries of GODDESS's processes never are starting.
Quick(f) == \A p \in Pids : f[p] # None /\ born[f[p].id].kind = "goddess" => ~f[p].starting

\* No two requests start or register one process, and none one that was answered.
RequestsHold ==
    /\ \A t, u \in Threads : t # u /\ th[t].job \in Starting /\ th[u].job \in Starting => th[t].id # th[u].id
    /\ \A t \in Threads : th[t].pc = "record" => th[t].id \notin acked

EdgeHolds ==
    /\ \A i \in edge : Given(nid, i)
    /\ ~up => edge = {}
    /\ EdgeKept /\ EdgeHeld /\ EdgeRecord
    /\ Quick(OPMETA) /\ Quick(disk.active) /\ Quick(snap.active)
    /\ RequestsHold

\* No readiness was reported at first.
LEMMA EdgeInit == Init => EdgeHolds
BY DEF Init, EdgeHolds, EdgeKept, EdgeHeld, EdgeRecord, Quick, RequestsHold, Idle, Empty, Starting

\* Two requests never come to start or register one process.
LEMMA RequestsNext ==
    ASSUME TypeInv, GivenHolds, KindsHold, RequestsHold, [Next]_vars
    PROVE  RequestsHold'
<1>1. \A t \in Threads : /\ th[t].pc = "record" => th[t].job \in Starting /\ th[t].ret # "ack"
                         /\ th[t].ret = "ack" => th[t].job \in Starting
                         /\ th[t].job \in Starting => t \in Workers
  BY LocalType DEF LocalOK, Starting
<1>2. ASSUME NEW t \in Threads, th[t].pc = "record"
      PROVE  th[t].id \notin acked'
  <2>1. \A u \in Threads : th[u].ret = "ack" => th[u].id # th[t].id
    BY <1>1, <1>2 DEF RequestsHold
  <2> QED BY <1>2, <2>1, AckedGrows DEF RequestsHold
<1>3. ASSUME NEW t \in Threads, Acting(t)
      PROVE  RequestsHold'
  <2>1. Kept(t, th'[t]) /\ \A u \in Threads \ {t} : th'[u] = th[u]
    BY <1>3, ActingKept
  <2>2. \A u \in Threads : th'[u].job \in Starting => th[u].job \in Starting /\ th'[u].id = th[u].id
    BY <2>1 DEF Kept, Starting
  <2>3. \A u \in Threads : th'[u].pc = "record" => th[u].pc = "record" /\ th'[u].id = th[u].id
    BY <2>1 DEF Kept
  <2> QED BY <1>2, <2>2, <2>3 DEF RequestsHold
<1>4. ASSUME NEW t \in Threads, Thinking(t)
      PROVE  RequestsHold'
  <2>1. Thought(t, th'[t]) /\ acked' = acked /\ \A u \in Threads \ {t} : th'[u] = th[u]
    BY <1>4, ThinkingThought, ThinkingFacts, NewLocal DEF history
  <2>2. LocalOK(t, th'[t])
    BY TypeNext, LocalType DEF TypeInv
  <2>3. \A u \in Threads \ {t} : th'[t].job \in Starting /\ th[u].job \in Starting => th'[t].id # th[u].id
    <3> SUFFICES ASSUME NEW u \in Threads \ {t}, th'[t].job = "register", th[u].job \in Starting
                 PROVE  th'[t].id # th[u].id
      BY <2>1 DEF Thought, Starting
    <3>1. /\ born[th'[t].id].kind = "prog"
          /\ \A v \in Workers : th[v].job = "register" => th[v].id # th'[t].id
      BY <2>1 DEF Thought
    <3>2. CASE th[u].job = "register"
      BY <1>1, <3>1, <3>2
    <3>3. CASE th[u].job = "launch"
      BY <3>1, <3>3 DEF KindsHold
    <3> QED BY <3>2, <3>3 DEF Starting
  <2>4. th'[t].pc = "record" => th'[t].id \notin acked
    BY <2>1, <2>2 DEF Thought, LocalOK
  <2> QED BY <2>1, <2>3, <2>4 DEF RequestsHold
<1>5. ASSUME NEW t \in Threads, NEW p \in Pids, Launch(t, p)
      PROVE  RequestsHold'
  <2>1. th'[t].id = nid + 1 /\ \A u \in Threads \ {t} : th'[u] = th[u]
    BY <1>5, LaunchLocal
  <2>2. \A i : Given(nid, i) => i # nid + 1
    BY Numbers DEF Given, TypeInv, TypeOK
  <2>3. (\A u \in Threads : th[u].id # nid + 1) /\ nid + 1 \notin acked
    BY <2>2 DEF GivenHolds, KindsHold
  <2>4. acked' = acked
    BY <1>5 DEF Launch, history
  <2> QED BY <2>1, <2>3, <2>4 DEF RequestsHold
<1>6. ASSUME Crash
      PROVE  RequestsHold'
  <2>1. \A u \in Threads : th'[u].job = "reap" /\ th'[u].pc = "idle"
    BY <1>6 DEF Crash, Idle
  <2> QED BY <2>1 DEF RequestsHold, Starting
<1>7. ASSUME \/ \E p \in Pids, kind \in Kinds : Spawn(p, kind)
             \/ \E p \in Pids : Exit(p) \/ Reaped(p)
             \/ Restart \/ UNCHANGED vars
      PROVE  RequestsHold'
  <2>1. th' = th
    BY <1>7 DEF Spawn, Exit, Reaped, Restart, vars
  <2> QED BY <1>2, <2>1 DEF RequestsHold
<1> QED BY <1>3, <1>4, <1>5, <1>6, <1>7, Classes

\* Entries of GODDESS's processes are never made starting, nor read back as such.
LEMMA QuickNext ==
    ASSUME TypeInv, GivenHolds, KindsHold, Quick(OPMETA), Quick(disk.active), Quick(snap.active), [Next]_vars
    PROVE  Quick(OPMETA)' /\ Quick(disk.active)' /\ Quick(snap.active)'
<1> DEFINE Q(f) == \A p \in Pids : f[p] # None /\ born'[f[p].id].kind = "goddess" => ~f[p].starting
<1>1. ASSUME NEW f \in [Pids -> Active \cup {None}], Quick(f), \A p \in Pids : f[p] # None => Given(nid, f[p].id)
      PROVE  Q(f)
  <2> SUFFICES ASSUME NEW p \in Pids, f[p] # None, born'[f[p].id].kind = "goddess"
               PROVE  ~f[p].starting
    OBVIOUS
  <2>1. f[p].id \in Ids
    BY DEF Active
  <2>2. born'[f[p].id] = born[f[p].id]
    BY <1>1, <2>1, BornKept
  <2> QED BY <1>1, <2>2 DEF Quick
<1>2. Q(OPMETA) /\ Q(disk.active) /\ Q(snap.active)
  <2>1. /\ OPMETA \in [Pids -> Active \cup {None}] /\ disk.active \in [Pids -> Active \cup {None}]
        /\ snap.active \in [Pids -> Active \cup {None}]
    BY DEF TypeInv, TypeOK, Checkpoint
  <2> HIDE DEF Q
  <2> QED BY <1>1, <2>1 DEF GivenHolds
<1>3. CASE UNCHANGED <<OPMETA, COMPLETED, PROCESSES, disk, wlock, snap, up, fails>>
  BY <1>2, <1>3 DEF Quick
<1>4. ASSUME NEW t \in Threads, SaveSnapshot(t)
      PROVE  Q(OPMETA') /\ Q(disk'.active) /\ Q(snap'.active)
  <2>1. UNCHANGED <<OPMETA, disk>> /\ snap'.active = OPMETA
    BY <1>4 DEF SaveSnapshot, registry
  <2> QED BY <1>2, <2>1
<1>5. ASSUME NEW t \in Threads, SaveReplace(t) \/ SaveFails(t)
      PROVE  Q(OPMETA') /\ Q(disk'.active) /\ Q(snap'.active)
  <2>1. OPMETA' = OPMETA /\ disk' \in {disk, snap} /\ snap' \in {disk, snap}
    BY <1>5 DEF SaveReplace, SaveFails, registry
  <2> QED BY <1>2, <2>1
<1>6. ASSUME NEW t \in Threads,
             RecordDone(t) \/ RecordStart(t) \/ (\E p \in Pids : Ready(t, p)) \/ Mark(t) \/ BootstrapApply(t)
      PROVE  Q(OPMETA') /\ Q(disk'.active) /\ Q(snap'.active)
  <2>1. UNCHANGED <<disk, snap, born>>
    BY <1>6 DEF RecordDone, RecordStart, Ready, Mark, BootstrapApply, saving, kernel
  <2>2. RecordStart(t) => born[th[t].id].kind # "goddess"
    BY LocalType DEF RecordStart, At, LocalOK, KindsHold
  <2>3. Q(OPMETA')
    <3> SUFFICES ASSUME NEW p \in Pids, OPMETA'[p] # None, born[OPMETA'[p].id].kind = "goddess"
                 PROVE  ~OPMETA'[p].starting
      BY <2>1
    <3> QED BY <1>6, <2>2, EntryFacts DEF Quick
  <2> QED BY <1>2, <2>1, <2>3
<1>7. ASSUME Crash
      PROVE  Q(OPMETA') /\ Q(disk'.active) /\ Q(snap'.active)
  <2>1. (\A p \in Pids : OPMETA'[p] = None) /\ disk' = disk /\ snap' = disk
    BY <1>7 DEF Crash, Empty
  <2> QED BY <1>2, <2>1
<1>8. ASSUME Restart
      PROVE  Q(OPMETA') /\ Q(disk'.active) /\ Q(snap'.active)
  <2>1. (\A p \in Pids : OPMETA'[p] \in {None, disk.active[p]}) /\ UNCHANGED <<disk, snap>>
    BY <1>8 DEF Restart, Recovered, saving
  <2> QED BY <1>2, <2>1
<1>9. Q(OPMETA') /\ Q(disk'.active) /\ Q(snap'.active) => Quick(OPMETA)' /\ Quick(disk.active)' /\ Quick(snap.active)'
  BY DEF Quick
<1> HIDE DEF Q
<1> QED BY <1>3, <1>4, <1>5, <1>6, <1>7, <1>8, <1>9, EntriesKept

\* An edge that comes before the entry of a running process.
Early(q) ==
    /\ q \in Pids /\ Running(q) /\ OPMETA[q] = None /\ OPMETA' = OPMETA
    /\ READYPENDING' = READYPENDING \cup {q} /\ up /\ up'

\* An early readiness is new only when READY finds a running process without an entry.
LEMMA EdgeGrows ==
    ASSUME [Next]_vars, NEW i \in edge'
    PROVE  i \in edge \/ \E q \in Pids : Early(q) /\ i = occ[q]
<1>1. ASSUME NEW t \in Threads, NEW q \in Pids, Ready(t, q)
      PROVE  i \in edge \/ (Early(q) /\ i = occ[q])
  BY <1>1 DEF Ready, Early, At, Quiet
<1>2. ASSUME NEW t \in Threads, SaveSnapshot(t) \/ (\E x \in th[t].todo : Poll(t, x)) \/ RecordDone(t)
                                \/ RecordStart(t)
                                \/ Mark(t) \/ BootstrapApply(t) \/ (\E p \in Pids : Launch(t, p))
      PROVE  edge' = edge
  BY <1>2 DEF SaveSnapshot, Poll, RecordDone, RecordStart, Mark, BootstrapApply, Launch, history
<1>3. ASSUME NEW t \in Threads, Kill(t)
      PROVE  i \in edge
  BY <1>3 DEF Kill, Die, history
<1>4. ASSUME NEW t \in Threads, SaveReplace(t) \/ SaveFails(t)
      PROVE  edge' = edge
  BY <1>4 DEF SaveReplace, SaveFails
<1>5. ASSUME NEW t \in Threads, Thinking(t)
      PROVE  i \in edge
  BY <1>5, ThinkingFacts DEF history
<1>6. ASSUME \/ \E p \in Pids, kind \in Kinds : Spawn(p, kind)
             \/ \E p \in Pids : Exit(p) \/ Reaped(p)
             \/ Crash \/ Restart \/ UNCHANGED vars
      PROVE  i \in edge
  BY <1>6 DEF Spawn, Exit, Reaped, Die, Crash, Restart, vars, history
<1>7. ASSUME NEW t \in Threads, NEW S, SweepEnd(t, S)
      PROVE  i \in edge
  BY <1>7 DEF SweepEnd
<1> QED BY <1>1, <1>2, <1>3, <1>4, <1>5, <1>6, <1>7, Steps

\* Only a crash brings the server down.
LEMMA OnlyCrash ==
    ASSUME [Next]_vars, up, ~up'
    PROVE  Crash
<1>1. ASSUME NEW t \in Threads, Thinking(t) \/ Acting(t) \/ \E p \in Pids : Launch(t, p)
      PROVE  up'
  BY <1>1, ThinkingFacts, ActingUp DEF Launch, At, Quiet
<1>2. ASSUME \/ \E p \in Pids, kind \in Kinds : Spawn(p, kind)
             \/ \E p \in Pids : Exit(p) \/ Reaped(p)
             \/ Restart \/ UNCHANGED vars
      PROVE  up' = up \/ up'
  BY <1>2 DEF Spawn, Exit, Reaped, Restart, vars
<1> QED BY <1>1, <1>2, Classes

\* A process that was ready early is none that starts now, and the server runs.
LEMMA EdgeOld ==
    ASSUME TypeInv, GivenHolds, EdgeHolds, [Next]_vars, NEW i \in edge'
    PROVE  Given(nid, i) /\ Given(nid', i) /\ up /\ up'
<1>1. i \in edge \/ \E q \in Pids : Early(q) /\ i = occ[q]
  BY EdgeGrows
<1>2. Given(nid, i) /\ up
  BY <1>1 DEF EdgeHolds, GivenHolds, Early
<1>3. Given(nid', i)
  BY <1>2, GivenProcesses, GivenGrows
<1>4. Crash => edge' = {}
  BY DEF Crash
<1>5. up'
  BY <1>2, <1>4, OnlyCrash
<1> QED BY <1>2, <1>3, <1>5

\* A living process with an early readiness was living before, the server stayed up, and the
\* readiness is old or just reported.
LEMMA EdgeAlive ==
    ASSUME TypeInv, GivenHolds, NamesHold, EdgeHolds, [Next]_vars, NEW p \in Pids, Running(p)', occ'[p] \in edge'
    PROVE  /\ Running(p) /\ occ'[p] = occ[p] /\ occ[p] \in Ids /\ born'[occ[p]] = born[occ[p]] /\ occ[p] # 0
           /\ up /\ up'
           /\ occ[p] \in edge \/ Early(p)
<1>1. Given(nid, occ'[p]) /\ up /\ up'
  BY EdgeOld
<1>2. nid \in Nat => occ'[p] # nid + 1
  BY <1>1 DEF Given
<1>3. Running(p) /\ occ'[p] = occ[p] /\ occ[p] \in Ids /\ born'[occ[p]] = born[occ[p]]
  BY <1>2, Newcomer
<1>4. occ[p] # 0
  BY <1>3 DEF Running
<1>5. ASSUME NEW q \in Pids, Early(q), occ[p] = occ[q]
      PROVE  Early(p)
  <2>1. Last(born, nid, p, occ[p]) /\ Last(born, nid, q, occ[q])
    BY <1>4, <1>5 DEF NamesHold
  <2> QED BY <1>5, <2>1 DEF Last
<1>6. occ[p] \in edge \/ Early(p)
  BY <1>3, <1>5, EdgeGrows
<1> QED BY <1>1, <1>3, <1>4, <1>6

\* An answer that is given or waits for its checkpoint stays so while the process is alive.
LEMMA HeldStays ==
    ASSUME TypeInv, [Next]_vars, up', NEW i \in HeldIds, i \notin dead'
    PROVE  i \in HeldIds'
<1>1. CASE i \in acked
  <2>1. ASSUME NEW t \in Threads, SaveReplace(t) \/ SaveFails(t)
        PROVE  acked \subseteq acked'
    BY <2>1 DEF SaveReplace, SaveFails, Resume
  <2>2. ASSUME NEW t \in Threads, SaveSnapshot(t) \/ (\E x \in th[t].todo : Poll(t, x)) \/ RecordDone(t)
                                  \/ (\E S : SweepEnd(t, S)) \/ RecordStart(t) \/ (\E p \in Pids : Ready(t, p))
                                  \/ Mark(t) \/ BootstrapApply(t) \/ (\E p \in Pids : Launch(t, p))
        PROVE  acked' = acked
    BY <2>2 DEF SaveSnapshot, Poll, RecordDone, SweepEnd, RecordStart, Ready, Mark, BootstrapApply, Launch, history
  <2>3. ASSUME NEW t \in Threads, Kill(t)
        PROVE  i \in acked'
    BY <1>1, <2>3 DEF Kill, Die, history
  <2>4. ASSUME NEW t \in Threads, Thinking(t)
        PROVE  acked' = acked
    BY <2>4, ThinkingFacts DEF history
  <2>5. ASSUME \/ \E p \in Pids, kind \in Kinds : Spawn(p, kind)
               \/ \E p \in Pids : Exit(p) \/ Reaped(p)
               \/ Crash \/ Restart \/ UNCHANGED vars
        PROVE  i \in acked'
    BY <1>1, <2>5 DEF Spawn, Exit, Reaped, Die, Crash, Restart, vars, history
  <2>6. i \in acked'
    BY <1>1, <2>1, <2>2, <2>3, <2>4, <2>5, Steps
  <2> QED BY <2>6 DEF HeldIds
<1>2. ASSUME NEW u \in Threads, th[u].ret = "ack", i = th[u].id
      PROVE  i \in HeldIds'
  <2>0. th[u].pc \in {"save", "write"}
    BY <1>2, LocalType DEF LocalOK
  <2>1. CASE th'[u].ret = "ack" /\ th'[u].id = th[u].id
    BY <1>2, <2>1 DEF HeldIds
  <2>2. ASSUME NEW t \in Threads, Thinking(t)
        PROVE  th'[u] = th[u]
    BY <1>2, <2>2, ThinkingThought, ThinkingFacts, NewLocal DEF Thought
  <2>3. ASSUME NEW t \in Threads, NEW p \in Pids, Launch(t, p)
        PROVE  th'[u] = th[u]
    BY <1>2, <2>3, LaunchLocal
  <2>4. ASSUME NEW t \in Threads, Acting(t), t # u
        PROVE  th'[u] = th[u]
    BY <2>4, ActingKept
  <2>5. CASE SaveSnapshot(u)
    <3>1. th'[u] = [th[u] EXCEPT !.pc = "write"]
      BY <2>5, NewLocal DEF SaveSnapshot, Goto
    <3>2. th'[u].ret = "ack" /\ th'[u].id = th[u].id
      BY <1>2, <3>1, LocalType DEF Local
    <3> QED BY <2>1, <3>2
  <2>6. CASE SaveReplace(u) \/ SaveFails(u)
    <3>1. acked' = acked \cup ({th[u].id} \ dead) /\ dead' = dead
      BY <1>2, <2>6 DEF SaveReplace, SaveFails, Resume, kernel
    <3> QED BY <1>2, <3>1 DEF HeldIds
  <2>7. Acting(u) => SaveSnapshot(u) \/ SaveReplace(u) \/ SaveFails(u)
    BY <2>0 DEF Acting, Poll, RecordDone, SweepEnd, RecordStart, Ready, Kill, Mark, BootstrapApply, At
  <2>8. ~Crash
    BY DEF Crash
  <2>9. ASSUME \/ \E p \in Pids, kind \in Kinds : Spawn(p, kind)
               \/ \E p \in Pids : Exit(p) \/ Reaped(p)
               \/ Restart \/ UNCHANGED vars
        PROVE  th' = th
    BY <2>9 DEF Spawn, Exit, Reaped, Restart, vars
  <2> QED BY <1>2, <2>1, <2>2, <2>3, <2>4, <2>5, <2>6, <2>7, <2>8, <2>9, Classes
<1> QED BY <1>1, <1>2 DEF HeldIds

\* No step takes an early readiness that has not expired from a living process before its entry,
\* or undoes it after.
LEMMA EdgeKeptNext ==
    ASSUME TypeInv, GivenHolds, NamesHold, SweepsHold, KindsHold, EdgeHolds, [Next]_vars
    PROVE  EdgeKept'
<1> SUFFICES ASSUME NEW p \in Pids, p \in Tracked', occ'[p] \in edge'
             PROVE  IF OPMETA'[p] = None THEN p \in READYPENDING' ELSE ~OPMETA'[p].starting
  BY DEF EdgeKept, Tracked
<1>0. /\ Running(p) /\ occ'[p] = occ[p] /\ occ[p] \in Ids /\ born'[occ[p]] = born[occ[p]] /\ occ[p] # 0
      /\ up /\ up'
      /\ occ[p] \in edge \/ Early(p)
  BY EdgeAlive DEF Tracked
<1>1. p \in Tracked /\ born[occ[p]].kind # "goddess"
  BY <1>0 DEF Tracked
<1>2. CASE Early(p)
  BY <1>2 DEF Early
<1>3. CASE occ[p] \in edge
  <2>1. IF OPMETA[p] = None THEN p \in READYPENDING ELSE ~OPMETA[p].starting
    BY <1>1, <1>3 DEF EdgeHolds, EdgeKept
  <2>2. CASE OPMETA'[p] = OPMETA[p] /\ (p \in READYPENDING => p \in READYPENDING')
    BY <2>1, <2>2
  <2>3. ASSUME NEW t \in Threads, RecordDone(t)
        PROVE  OPMETA'[p] = OPMETA[p] /\ (p \in READYPENDING => p \in READYPENDING')
    <3>1. th[t].pc = "done" /\ th[t].cur \in Pids /\ recorddone(th[t].cur)
      BY <2>3, LocalType DEF RecordDone, At, LocalOK
    <3>2. p # th[t].cur
      BY <1>1, <3>1 DEF SweepsHold, Swept
    <3> QED BY <3>1, <3>2, RecordDoneFacts
  <2>4. ASSUME NEW t \in Threads, RecordStart(t)
        PROVE  IF OPMETA'[p] = None THEN p \in READYPENDING' ELSE ~OPMETA'[p].starting
    <3> DEFINE q == th[t].pid
    <3>1. /\ q \in Pids /\ th[t].id \in Ids /\ th[t].starting \in BOOLEAN
          /\ recordstart(q, th[t].id, th[t].starting, th[t].job = "launch")
          /\ th[t].job \in {"launch", "register"} /\ th[t].pc = "record"
      BY <2>4, LocalType DEF RecordStart, At, LocalOK, Local
    <3>2. CASE p # q
      <4>1. OPMETA'[p] = OPMETA[p] /\ READYPENDING' = READYPENDING \ {q}
        BY <3>1, <3>2, RecordStartFacts
      <4> QED BY <2>2, <3>2, <4>1
    <3>3. CASE p = q
      <4>1. occ[p] = th[t].id
        BY <1>0, <3>1, <3>3, SamePid
      <4>2. p \notin Entered
        BY <1>0, <1>3, <3>1, <3>3, <4>1 DEF EdgeHolds, EdgeRecord
      <4>3. p \in READYPENDING
        BY <2>1, <4>2 DEF Entered
      <4>4. OPMETA'[p] # None /\ ~OPMETA'[p].starting
        BY <3>1, <3>3, <4>3, RecordStartFacts
      <4> QED BY <4>4
    <3> QED BY <3>2, <3>3
  <2>5. ASSUME NEW t \in Threads, NEW q \in Pids, Ready(t, q)
        PROVE  IF OPMETA'[p] = None THEN p \in READYPENDING' ELSE ~OPMETA'[p].starting
    <3>1. CASE OPMETA[q] = None
      BY <2>1, <2>5, <3>1 DEF Ready
    <3>2. CASE OPMETA[q] # None
      <4>1. OPMETA' = [OPMETA EXCEPT ![q].starting = FALSE] /\ READYPENDING' = READYPENDING \ {q}
        BY <2>5, <3>2 DEF Ready
      <4>2. OPMETA'[q] # None /\ ~OPMETA'[q].starting /\ \A r \in Pids \ {q} : OPMETA'[r] = OPMETA[r]
        BY <3>2, <4>1, StartedFacts
      <4> QED BY <2>1, <4>1, <4>2
    <3> QED BY <3>1, <3>2
  <2>6. ASSUME NEW t \in Threads, Mark(t)
        PROVE  IF OPMETA'[p] = None THEN p \in READYPENDING' ELSE ~OPMETA'[p].starting
    <3>1. th[t].pid \in Pids /\ READYPENDING' = READYPENDING
      BY <2>6, LocalType DEF Mark, At, LocalOK
    <3>2. CASE OPMETA[th[t].pid] = None
      <4>1. OPMETA' = OPMETA
        BY <2>6, <3>2 DEF Mark
      <4> QED BY <2>1, <3>1, <4>1
    <3>3. CASE OPMETA[th[t].pid] # None
      <4> DEFINE q == th[t].pid
      <4>1. OPMETA' = [OPMETA EXCEPT ![q].starting = FALSE]
        BY <2>6, <3>3 DEF Mark
      <4>2. OPMETA'[q] # None /\ ~OPMETA'[q].starting /\ \A r \in Pids \ {q} : OPMETA'[r] = OPMETA[r]
        BY <3>1, <3>3, <4>1, StartedFacts
      <4> QED BY <2>1, <3>1, <4>2
    <3> QED BY <3>2, <3>3
  <2>7. ASSUME NEW t \in Threads, BootstrapApply(t)
        PROVE  IF OPMETA'[p] = None THEN p \in READYPENDING' ELSE ~OPMETA'[p].starting
    <3>1. OPMETA[p] # None => OPMETA[p].id = occ[p]
      BY <1>0, Named
    <3>2. ~(OPMETA[p] # None /\ born[OPMETA[p].id].kind = "goddess")
      BY <1>1, <3>1
    <3>3. \/ OPMETA'[p] # None /\ ~OPMETA'[p].starting
          \/ OPMETA'[p] = OPMETA[p] /\ (p \in READYPENDING => p \in READYPENDING')
      BY <2>7, <3>2, ApplyFacts
    <3> QED BY <2>1, <3>3
  <2>8. ASSUME NEW t \in Threads, NEW S, SweepEnd(t, S)
        PROVE  OPMETA'[p] = OPMETA[p] /\ (p \in READYPENDING => p \in READYPENDING')
    BY <1>0, <2>8 DEF SweepEnd
  <2>9. ASSUME NEW t \in Threads, Thinking(t)
        PROVE  OPMETA'[p] = OPMETA[p] /\ (p \in READYPENDING => p \in READYPENDING')
    BY <2>9, ThinkingFacts DEF registry
  <2>10. ASSUME NEW t \in Threads, SaveSnapshot(t) \/ SaveReplace(t) \/ SaveFails(t) \/ Kill(t)
                                   \/ (\E x \in th[t].todo : Poll(t, x)) \/ (\E q \in Pids : Launch(t, q))
         PROVE  OPMETA'[p] = OPMETA[p] /\ (p \in READYPENDING => p \in READYPENDING')
    BY <2>10 DEF SaveSnapshot, SaveReplace, SaveFails, Kill, Poll, Launch, registry
  <2>11. ASSUME \/ \E q \in Pids, kind \in Kinds : Spawn(q, kind)
                \/ \E q \in Pids : Exit(q) \/ Reaped(q)
                \/ UNCHANGED vars
         PROVE  OPMETA'[p] = OPMETA[p] /\ (p \in READYPENDING => p \in READYPENDING')
    BY <2>11 DEF Spawn, Exit, Reaped, vars, registry
  <2>12. ~Crash /\ ~Restart
    BY <1>0 DEF Crash, Restart
  <2> QED BY <2>2, <2>3, <2>4, <2>5, <2>6, <2>7, <2>8, <2>9, <2>10, <2>11, <2>12, Steps
<1> QED BY <1>0, <1>2, <1>3

\* A running process gets its entry from its own launch or registration, or from GODDESS's list.
LEMMA NewEntry ==
    ASSUME TypeInv, NamesHold, KindsHold, [Next]_vars, up, up',
           NEW p \in Pids, occ[p] # 0, p \notin Entered, p \in Entered'
    PROVE  \/ born[occ[p]].kind = "goddess"
           \/ \E t \in Threads : RecordStart(t) /\ p = th[t].pid /\ occ[p] = th[t].id
<1>1. OPMETA[p] = None /\ OPMETA'[p] # None
  BY DEF Entered
<1>2. ASSUME NEW t \in Threads, SaveSnapshot(t) \/ SaveReplace(t) \/ SaveFails(t)
      PROVE  OPMETA' = OPMETA
  BY <1>2 DEF SaveSnapshot, SaveReplace, SaveFails, registry
<1>3. ~Crash /\ ~Restart
  BY DEF Crash, Restart
<1>4. PICK t \in Threads :
        RecordDone(t) \/ RecordStart(t) \/ (\E q \in Pids : Ready(t, q)) \/ Mark(t) \/ BootstrapApply(t)
  BY <1>1, <1>2, <1>3, EntriesKept
<1>5. \/ RecordStart(t) /\ p = th[t].pid
      \/ BootstrapApply(t) /\ <<p, OPMETA'[p].id>> \in th[t].todo
  BY <1>1, <1>4, EntryFacts
<1>6. CASE RecordStart(t) /\ p = th[t].pid
  <2>1. th[t].job \in {"launch", "register"}
    BY <1>6, LocalType DEF RecordStart, At, LocalOK
  <2> QED BY <1>6, <2>1, SamePid
<1>7. CASE BootstrapApply(t) /\ <<p, OPMETA'[p].id>> \in th[t].todo
  <2> DEFINE i == OPMETA'[p].id
  <2>1. th[t].pc = "bootapply" /\ <<p, i>> \in th[t].todo /\ th[t].todo \subseteq Pids \X Ids
    BY <1>7, LocalType DEF BootstrapApply, At, LocalOK
  <2> HIDE DEF i
  <2>2. i \in Ids /\ i # 0
    BY <2>1, Numbers DEF Ids
  <2>3. Last(born, nid, p, i) /\ born[i].kind = "goddess"
    BY <2>1, <2>2 DEF NamesHold, KindsHold
  <2>4. i = occ[p]
    BY <2>3, Named
  <2> QED BY <2>3, <2>4
<1> QED BY <1>5, <1>6, <1>7

\* Only its registration makes the entry of a program that was ready early.
LEMMA EdgeHeldNext ==
    ASSUME TypeInv, GivenHolds, NamesHold, KindsHold, EdgeHolds, [Next]_vars
    PROVE  EdgeHeld'
<1> SUFFICES ASSUME NEW p \in Pids, p \in Entered', Running(p)', occ'[p] \in edge', born'[occ'[p]].kind = "prog"
             PROVE  occ'[p] \in HeldIds'
  BY DEF EdgeHeld, Entered
<1>1. /\ Running(p) /\ occ'[p] = occ[p] /\ occ[p] \in Ids /\ born'[occ[p]] = born[occ[p]] /\ occ[p] # 0
      /\ up /\ up'
      /\ occ[p] \in edge \/ Early(p)
  BY EdgeAlive
<1>2. occ[p] \in edge
  BY <1>1 DEF Early, Entered
<1>3. CASE p \in Entered
  <2>1. occ[p] \in HeldIds
    BY <1>1, <1>2, <1>3 DEF EdgeHolds, EdgeHeld
  <2>2. occ[p] \notin dead'
    BY <1>1 DEF Running
  <2> QED BY <1>1, <2>1, <2>2, HeldStays
<1>4. CASE p \notin Entered
  <2>1. PICK t \in Threads : RecordStart(t) /\ p = th[t].pid /\ occ[p] = th[t].id
    BY <1>1, <1>4, NewEntry
  <2>2. th'[t] = [th[t] EXCEPT !.pc = "save", !.ret = "ack"]
    BY <2>1, NewLocal DEF RecordStart, Saves
  <2>3. th'[t].ret = "ack" /\ th'[t].id = th[t].id
    BY <2>2, LocalType DEF Local
  <2> QED BY <1>1, <2>1, <2>3 DEF HeldIds
<1> QED BY <1>3, <1>4

\* recordstart finds no entry of a process that was ready early, so it reads READYPENDING.
LEMMA EdgeRecordNext ==
    ASSUME ~AnyReuse, TypeInv, GivenHolds, NamesHold, KindsHold, EdgeHolds, [Next]_vars
    PROVE  EdgeRecord'
<1> SUFFICES ASSUME NEW t \in Threads, NEW q \in Pids, q = th'[t].pid,
                    th'[t].pc = "record", th'[t].id \in edge', Running(q)'
             PROVE  q \notin Entered'
  BY DEF EdgeRecord
<1>1. CASE th'[t] = th[t]
  <2>0. th[t].pc = "record" /\ q = th[t].pid /\ th[t].job \in {"launch", "register"}
    BY <1>1, LocalType DEF LocalOK
  <2>1. Running(q) /\ occ'[q] = occ[q] /\ occ[q] # 0
    BY <2>0, NotNew DEF Running
  <2>2. occ[q] = th[t].id
    BY <2>0, <2>1, SamePid
  <2>3. up /\ up' /\ (occ[q] \in edge \/ Early(q))
    BY <1>1, <2>1, <2>2, EdgeAlive
  <2>4. CASE Early(q)
    BY <2>4 DEF Early, Entered
  <2>5. CASE occ[q] \in edge
    <3>1. q \notin Entered
      BY <2>0, <2>1, <2>2, <2>5 DEF EdgeHolds, EdgeRecord
    <3>2. born[occ[q]].kind # "goddess"
      BY <2>0, <2>2 DEF KindsHold
    <3>3. ASSUME NEW u \in Threads, RecordStart(u), q = th[u].pid, occ[q] = th[u].id
          PROVE  FALSE
      <4>1. th[u].job \in {"launch", "register"}
        BY <3>3, LocalType DEF RecordStart, At, LocalOK
      <4>2. u = t
        BY <2>0, <2>2, <3>3, <4>1 DEF EdgeHolds, RequestsHold, Starting
      <4>3. Acting(t)
        BY <3>3, <4>2 DEF Acting
      <4> QED BY <4>3, ActingKept DEF Kept
    <3> QED BY <2>1, <2>3, <3>1, <3>2, <3>3, NewEntry
  <2> QED BY <2>3, <2>4, <2>5
<1>2. ASSUME NEW u \in Threads, Thinking(u)
      PROVE  q \notin Entered'
  <2>1. CASE u # t
    BY <1>1, <1>2, <2>1, ThinkingFacts, NewLocal
  <2>2. CASE u = t
    <3>1. Thought(t, th'[t]) /\ UNCHANGED <<kernel, registry, history>>
      BY <1>2, <2>2, ThinkingThought, ThinkingFacts
    <3>2. LocalOK(t, th'[t])
      BY TypeNext, LocalType DEF TypeInv
    <3>3. th'[t].job = "register"
      BY <3>1, <3>2 DEF Thought, LocalOK
    <3>4. /\ Running(q) /\ th'[t].id = occ[q] /\ born[occ[q]].kind = "prog" /\ occ[q] \notin acked
          /\ \A v \in Workers : th[v].job = "register" => th[v].id # occ[q]
      BY <3>1, <3>3 DEF Thought
    <3>5. occ[q] \in edge /\ OPMETA' = OPMETA
      BY <3>1, <3>4 DEF history, registry
    <3>6. occ[q] \notin HeldIds
      <4> SUFFICES ASSUME NEW v \in Threads, th[v].ret = "ack", occ[q] = th[v].id
                   PROVE  FALSE
        BY <3>4 DEF HeldIds
      <4>1. th[v].job \in {"launch", "register"} /\ v \in Workers
        BY LocalType DEF LocalOK
      <4>2. th[v].job # "launch"
        BY <3>4 DEF KindsHold
      <4> QED BY <3>4, <4>1, <4>2
    <3>7. q \notin Entered
      BY <3>4, <3>5, <3>6 DEF EdgeHolds, EdgeHeld
    <3> QED BY <3>5, <3>7 DEF Entered
  <2> QED BY <2>1, <2>2
<1>3. ASSUME NEW u \in Threads, Acting(u)
      PROVE  th'[t] = th[t]
  BY <1>3, ActingKept DEF Kept
<1>4. ASSUME NEW u \in Threads, NEW p \in Pids, Launch(u, p)
      PROVE  th'[t] = th[t]
  <2>1. th'[u].id = nid + 1 /\ \A v \in Threads \ {u} : th'[v] = th[v]
    BY <1>4, LaunchLocal
  <2>2. Given(nid, th'[t].id) /\ nid \in Nat
    BY EdgeOld, Numbers DEF TypeInv, TypeOK
  <2> QED BY <2>1, <2>2 DEF Given
<1>5. ~Crash
  BY DEF Crash, Idle
<1>6. ASSUME \/ \E p \in Pids, kind \in Kinds : Spawn(p, kind)
             \/ \E p \in Pids : Exit(p) \/ Reaped(p)
             \/ Restart \/ UNCHANGED vars
      PROVE  th' = th
  BY <1>6 DEF Spawn, Exit, Reaped, Restart, vars
<1> QED BY <1>1, <1>2, <1>3, <1>4, <1>5, <1>6, Classes

\* The invariant on early readiness is inductive when known pids are not reused.
LEMMA EdgeNext ==
    ASSUME ~AnyReuse, RegistryInv, EdgeHolds, [Next]_vars
    PROVE  EdgeHolds'
<1> USE DEF RegistryInv
<1>1. (\A i \in edge' : Given(nid', i)) /\ (~up' => edge' = {})
  BY EdgeOld
<1>2. EdgeKept' /\ EdgeHeld' /\ EdgeRecord'
  BY EdgeKeptNext, EdgeHeldNext, EdgeRecordNext
<1>3. Quick(OPMETA)' /\ Quick(disk.active)' /\ Quick(snap.active)' /\ RequestsHold'
  BY QuickNext, RequestsNext DEF EdgeHolds
<1> QED BY <1>1, <1>2, <1>3 DEF EdgeHolds, Given

\* A readiness that the window server reported before the process was registered is not undone:
\* READYPENDING keeps it until recordstart reads it, no sweep or completion takes it from a living
\* process, and no second registration puts the entry back to starting.  The kernel is assumed not
\* to reuse a pid the registry still knows.
THEOREM RegistryReadyIsKept ==
    ASSUME ~AnyReuse
    PROVE  Spec => []ReadyIsKept
<1>1. Init => RegistryInv /\ EdgeHolds
  BY RegistryInit, EdgeInit
<1>2. RegistryInv /\ EdgeHolds /\ [Next]_vars => (RegistryInv /\ EdgeHolds)'
  BY RegistryNext, EdgeNext
<1>3. RegistryInv /\ EdgeHolds => ReadyIsKept
  <2> SUFFICES ASSUME EdgeHolds, NEW p \in Pids, Running(p), OPMETA[p] # None, OPMETA[p].id = occ[p],
                      occ[p] \in edge
               PROVE  ~OPMETA[p].starting
    BY DEF ReadyIsKept
  <2>1. CASE p \in Tracked
    BY <2>1 DEF EdgeHolds, EdgeKept
  <2>2. CASE p \notin Tracked
    BY <2>2 DEF Tracked, EdgeHolds, Quick
  <2> QED BY <2>1, <2>2
<1> QED BY <1>1, <1>2, <1>3, PTL DEF Spec
=============================================================================
