------------------------- MODULE OperationsRegistry -------------------------
(* The process registry of the Operations server                              *)
(* (source/build software/operations/operationsserver.py): what its worker    *)
(* threads and its accept loop do to OPMETA, COMPLETED, PROCESSES and         *)
(* READYPENDING under STATELOCK, the checkpoint they write under              *)
(* STATEWRITELOCK, and the restart that reads it back.                        *)
(*                                                                            *)
(* One action per critical section: everything between two acquisitions of    *)
(* STATELOCK, or a look at a process outside it, is a step of the thread.     *)
(* A process is an identity (pid and start time in the code); the kernel may  *)
(* give its pid to a later one.  Of an operation's metadata the identity is   *)
(* kept, and whether it is still starting; how it ended, names, logs and      *)
(* resource figures are left out, as are requests that are refused because of *)
(* their sender, which change nothing.                                        *)
EXTENDS Naturals, FiniteSets

CONSTANTS Pids,       \* process numbers
          Workers,    \* threads of acceptloop that run handleclient
          Main,       \* the thread of acceptloop itself
          None,
          KEEP,       \* COMPLETEDKEEP
          AnyReuse,   \* may a pid the registry still knows be given out again?
          MaxId,      \* bound: processes ever started
          MaxCrashes, \* bound: ends of the server
          MaxFails    \* bound: checkpoints that cannot be written

ASSUME RegistryAssumption ==
    /\ Pids \subseteq Nat \ {0} /\ IsFiniteSet(Pids)
    /\ Main \notin Workers
    /\ KEEP \in Nat \ {0}
    /\ AnyReuse \in BOOLEAN
    /\ MaxId \in Nat /\ MaxCrashes \in Nat /\ MaxFails \in Nat

Threads == Workers \cup {Main}
Ids == 1 .. MaxId
Kinds == {"child", "prog", "goddess"}   \* started by this server, by a program
                                        \* that registers it, by GODDESS
Active == [id : Ids, starting : BOOLEAN]
Done == [id : Ids \cup {0}, age : 0 .. KEEP - 1]

ASSUME NoneAssumption == None \notin Active \cup Done \cup Threads

VARIABLES
    occ,          \* pid -> identity of the process that has it, 0 for none
    dead,         \* identities that have exited: zombies until their parent reaps them
    born,         \* identity -> its pid and who started it
    nid,          \* identities given out so far
    mine,         \* children of the running server that it has not reaped
    OPMETA, COMPLETED,
    PROCESSES,    \* pid -> identity of the child its Popen object stands for, 0 for none
    READYPENDING, \* pids with a readiness edge
    disk,         \* OPERATIONSSTATE
    wlock, snap,  \* holder of STATEWRITELOCK and the copies it is writing
    up,           \* the server is running
    th,           \* thread -> its program point and locals
    crashes, fails,
    acked,        \* history: running identities whose launch or registration was answered ok
    edge          \* history: running identities whose early readiness was answered ok
                  \* and did not expire before their registration

kernel == <<occ, dead, born, nid, mine>>
registry == <<OPMETA, COMPLETED, PROCESSES, READYPENDING>>
saving == <<disk, wlock, snap>>
history == <<acked, edge>>
vars == <<kernel, registry, saving, up, th, crashes, fails, history>>

Jobs == {"reap", "kill", "wait", "launch", "register", "complete", "bootstrap"}
PCs == {"idle", "sweep", "poll", "done", "look", "match", "record", "save",
         "write", "complete", "amend", "kill", "mark", "wait", "boot",
        "bootapply"}
Local == [pc : PCs, job : Jobs, pid : Pids \cup {0}, id : Ids \cup {0},
          starting : BOOLEAN,
          cur : Pids \cup {0}, seen : Ids \cup {0},
          todo : SUBSET (Pids \X (Ids \cup {0})),
          ret : {"idle", "ack", "sweep", "poll", "look"}]
Idle == [pc |-> "idle", job |-> "reap", pid |-> 0, id |-> 0, starting |-> FALSE,
         cur |-> 0, seen |-> 0, todo |-> {}, ret |-> "idle"]
Empty == [p \in Pids |-> None]
Checkpoint == [active : [Pids -> Active \cup {None}],
               completed : [Pids -> Done \cup {None}]]

\* The kernel and the servers keep these types.
TypeOK ==
    /\ occ \in [Pids -> Ids \cup {0}]
    /\ dead \subseteq Ids /\ mine \subseteq Ids
    /\ born \in [Ids -> [pid : Pids \cup {0}, kind : Kinds]]
    /\ nid \in 0 .. MaxId
    /\ OPMETA \in [Pids -> Active \cup {None}]
    /\ COMPLETED \in [Pids -> Done \cup {None}]
    /\ PROCESSES \in [Pids -> Ids \cup {0}]
    /\ READYPENDING \subseteq Pids
    /\ disk \in Checkpoint /\ snap \in Checkpoint
    /\ wlock \in Threads \cup {None}
    /\ up \in BOOLEAN
    /\ th \in [Threads -> Local]
    /\ crashes \in 0 .. MaxCrashes /\ fails \in 0 .. MaxFails
    /\ acked \subseteq Ids /\ edge \subseteq Ids

Init ==
    /\ occ = [p \in Pids |-> 0] /\ dead = {} /\ mine = {} /\ nid = 0
    /\ born = [i \in Ids |-> [pid |-> 0, kind |-> "prog"]]
    /\ OPMETA = Empty /\ COMPLETED = Empty
    /\ PROCESSES = [p \in Pids |-> 0] /\ READYPENDING = {}
    /\ disk = [active |-> Empty, completed |-> Empty]
    /\ snap = disk /\ wlock = None
    /\ up = TRUE
    /\ th = [t \in Threads |-> Idle]
    /\ crashes = 0 /\ fails = 0
    /\ acked = {} /\ edge = {}

(* ---------------------------- The processes ---------------------------- *)

\* processrunning: there is such a process and it is no zombie.
Running(p) == occ[p] # 0 /\ occ[p] \notin dead

\* Pids a request or a sweep of some thread is about.
InFlight == UNION {{th[t].pid, th[t].cur} \cup {x[1] : x \in th[t].todo} : t \in Threads}

\* The kernel hands out pids in turn: one comes back only after all the others, long after
\* the registry forgot it, unless AnyReuse.
Reusable(p) ==
    /\ occ[p] = 0 /\ nid < MaxId
    /\ AnyReuse \/ (OPMETA[p] = None /\ PROCESSES[p] = 0 /\ p \notin InFlight)

Start(p, kind) ==
    /\ Reusable(p)
    /\ nid' = nid + 1
    /\ occ' = [occ EXCEPT ![p] = nid + 1]
    /\ born' = [born EXCEPT ![nid + 1] = [pid |-> p, kind |-> kind]]

\* A program or GODDESS starts a process of its own.
Spawn(p, kind) ==
    /\ Start(p, kind)
    /\ UNCHANGED <<dead, mine, registry, saving, up, th, crashes, fails, history>>

Die(i) ==
    /\ dead' = dead \cup {i}
    /\ acked' = acked \ {i} /\ edge' = edge \ {i}

Exit(p) ==
    /\ Running(p)
    /\ Die(occ[p])
    /\ UNCHANGED <<occ, born, nid, mine, registry, saving, up, th, crashes, fails>>

\* The parent reaps its child; GODDESS adopts the children of a server that ended.
Reaped(p) ==
    /\ occ[p] \in dead \ mine
    /\ occ' = [occ EXCEPT ![p] = 0]
    /\ UNCHANGED <<dead, born, nid, mine, registry, saving, up, th, crashes, fails, history>>

(* ---------------------------- The registry ---------------------------- *)

\* Mutant: one entry too many is kept.
EndedKeepsOneMore(C, S, ids) ==
    LET kept == {q \in Pids \ S : C[q] # None}
        age == [q \in Pids |->
                  IF q \in S THEN Cardinality({r \in S : r > q})
                  ELSE Cardinality(S) + Cardinality({r \in kept : C[r].age < C[q].age})]
    IN [q \in Pids |->
          IF q \in S /\ age[q] <= KEEP
            THEN [id |-> ids[q], age |-> age[q]]
          ELSE IF q \in kept /\ age[q] <= KEEP
            THEN [C[q] EXCEPT !.age = age[q]]
          ELSE None]

\* COMPLETED ordered by the end time: age counts the entries that ended later, and those
\* beyond KEEP are dropped.  The entries of C outside S keep their order, and those of
\* S, with the identities ids, end now.
Ended(C, S, ids) ==
    LET kept == {q \in Pids \ S : C[q] # None}
        age == [q \in Pids |->
                  IF q \in S THEN Cardinality({r \in S : r > q})
                  ELSE Cardinality(S) + Cardinality({r \in kept : C[r].age < C[q].age})]
    IN [q \in Pids |->
          IF q \in S /\ age[q] < KEEP
            THEN [id |-> ids[q], age |-> age[q]]
          ELSE IF q \in kept /\ age[q] < KEEP
            THEN [C[q] EXCEPT !.age = age[q]]
          ELSE None]

\* COMPLETED.pop for the pids of S.
Forget(C, S) == Ended([q \in Pids |-> IF q \in S THEN None ELSE C[q]], {}, <<>>)

\* Mutant: the pid's completed entry stays.
recordstartKeepsCompleted(p, i, starting, child) ==
    /\ UNCHANGED COMPLETED
    /\ READYPENDING' = READYPENDING \ {p}
    /\ OPMETA' = [OPMETA EXCEPT ![p] =
          [id |-> i, starting |-> starting /\ p \notin READYPENDING]]
    /\ PROCESSES' = IF child THEN [PROCESSES EXCEPT ![p] = i] ELSE PROCESSES

\* Mutant: an early readiness edge is dropped.
recordstartForgetsReady(p, i, starting, child) ==
    /\ COMPLETED' = Forget(COMPLETED, {p})
    /\ READYPENDING' = READYPENDING \ {p}
    /\ OPMETA' = [OPMETA EXCEPT ![p] = [id |-> i, starting |-> starting]]
    /\ PROCESSES' = IF child THEN [PROCESSES EXCEPT ![p] = i] ELSE PROCESSES

\* recordstart: the entry of a launched or registered process; a readiness edge that came
\* before it counts.
recordstart(p, i, starting, child) ==
    /\ COMPLETED' = Forget(COMPLETED, {p})
    /\ READYPENDING' = READYPENDING \ {p}
    /\ OPMETA' = [OPMETA EXCEPT ![p] =
          [id |-> i, starting |-> starting /\ p \notin READYPENDING]]
    /\ PROCESSES' = IF child THEN [PROCESSES EXCEPT ![p] = i] ELSE PROCESSES

\* recorddone: whatever the pid's entry is now, it becomes the completed one; when there is
\* none, the completed entry has no metadata (identity 0).
recorddone(p) ==
    /\ COMPLETED' = Ended(COMPLETED, {p},
          [q \in {p} |-> IF OPMETA[p] = None THEN 0 ELSE OPMETA[p].id])
    /\ PROCESSES' = [PROCESSES EXCEPT ![p] = 0]
    /\ OPMETA' = [OPMETA EXCEPT ![p] = None]
    /\ READYPENDING' = READYPENDING \ {p}

At(t, pc) == up /\ th[t].pc = pc
Local_(t, r) == th' = [th EXCEPT ![t] = r]
Goto(t, pc) == Local_(t, [th[t] EXCEPT !.pc = pc])
Finish(t) == Local_(t, Idle)
Saves(t, ret) == Local_(t, [th[t] EXCEPT !.pc = "save", !.ret = ret])
Quiet == UNCHANGED <<up, crashes, fails>>

(* --------------------------- The checkpoint --------------------------- *)

\* savestate, first half: STATEWRITELOCK, then the copies under STATELOCK.
SaveSnapshot(t) ==
    /\ At(t, "save")
    /\ wlock = None
    /\ wlock' = t
    /\ snap' = [active |-> OPMETA, completed |-> COMPLETED]
    /\ Goto(t, "write")
    /\ UNCHANGED <<kernel, registry, disk, history>> /\ Quiet

\* What the caller of savestate does next: the sweep goes on, or the handler answers.
Resume(t) ==
    LET l == th[t] IN
    CASE l.ret = "ack" -> Finish(t) /\ acked' = acked \cup ({l.id} \ dead)
      [] l.ret = "idle" -> Finish(t) /\ UNCHANGED acked
      [] OTHER -> Local_(t, [l EXCEPT !.pc = l.ret, !.ret = "idle"]) /\ UNCHANGED acked

\* savestate, second half: os.replace of the synced file.
SaveReplace(t) ==
    /\ At(t, "write")
    /\ disk' = snap /\ wlock' = None /\ UNCHANGED snap
    /\ Resume(t)
    /\ UNCHANGED <<kernel, registry, edge>> /\ Quiet

\* The file cannot be written; every caller ignores the result.
SaveFails(t) ==
    /\ At(t, "write")
    /\ fails < MaxFails /\ fails' = fails + 1
    /\ wlock' = None /\ snap' = disk /\ UNCHANGED disk
    /\ Resume(t)
    /\ UNCHANGED <<kernel, registry, edge, up, crashes>>

(* ------------------------------ reaptracked ------------------------------ *)

\* A sweep begins with a copy of PROCESSES: the accept loop's own, LIST's, or the one KILL
\* and WAIT start with.  For a pid the registry does not know these two are like LIST.
Sweep(t, job, p) ==
    Local_(t, [Idle EXCEPT !.pc = "poll", !.job = job, !.pid = p,
                           !.todo = {<<q, PROCESSES[q]>> : q \in {r \in Pids : PROCESSES[r] # 0}}])

Known == {p \in Pids : OPMETA[p] # None \/ COMPLETED[p] # None}

Begin(t, job, p) ==
    /\ At(t, "idle")
    /\ IF job = "reap" THEN p = 0 ELSE t # Main /\ p \in Known
    /\ Sweep(t, job, p)
    /\ UNCHANGED <<kernel, registry, saving, history>> /\ Quiet

\* proc.poll(): an exit status there reaps the child.
Poll(t, x) ==
    /\ At(t, "poll") /\ x \in th[t].todo
    /\ LET rest == [th[t] EXCEPT !.todo = @ \ {x}] IN
       IF x[2] \in dead
         THEN /\ Local_(t, [rest EXCEPT !.pc = "done", !.cur = x[1], !.ret = "poll"])
              /\ occ' = [occ EXCEPT ![x[1]] = IF @ = x[2] THEN 0 ELSE @]
              /\ mine' = mine \ {x[2]}
         ELSE Local_(t, rest) /\ UNCHANGED <<occ, mine>>
    /\ UNCHANGED <<dead, born, nid, registry, saving, history>> /\ Quiet

\* The tracked children are done: OPMETA's keys that are not in PROCESSES come next.
External(t) ==
    /\ At(t, "poll") /\ th[t].todo = {}
    /\ Local_(t, [th[t] EXCEPT !.pc = "look",
                    !.todo = {<<p, 0>> : p \in {q \in Pids : OPMETA[q] # None /\ PROCESSES[q] = 0}}])
    /\ UNCHANGED <<kernel, registry, saving, history>> /\ Quiet

\* Mutant: a zombie counts as running.
LookSeesZombie(t, x) ==
    /\ At(t, "look") /\ x \in th[t].todo
    /\ Local_(t, [th[t] EXCEPT !.pc = "match", !.todo = @ \ {x}, !.cur = x[1], !.seen = occ[x[1]]])
    /\ UNCHANGED <<kernel, registry, saving, history>> /\ Quiet

\* processrecord of one of them.
Look(t, x) ==
    /\ At(t, "look") /\ x \in th[t].todo
    /\ Local_(t, [th[t] EXCEPT !.pc = "match", !.todo = @ \ {x}, !.cur = x[1],
                    !.seen = IF Running(x[1]) THEN occ[x[1]] ELSE 0])
    /\ UNCHANGED <<kernel, registry, saving, history>> /\ Quiet

\* It stays when the record is that of the process the entry names.
Match(t) ==
    /\ At(t, "match")
    /\ LET l == th[t]
           expected == IF OPMETA[l.cur] = None THEN 0 ELSE OPMETA[l.cur].id
       IN IF l.seen # 0 /\ l.seen = expected
            THEN Local_(t, [l EXCEPT !.pc = "look", !.cur = 0, !.seen = 0])
            ELSE Local_(t, [l EXCEPT !.pc = "done", !.seen = 0, !.ret = "look"])
    /\ UNCHANGED <<kernel, registry, saving, history>> /\ Quiet

\* recorddone, for a sweep, for COMPLETE_PID and for WAIT.
RecordDone(t) ==
    /\ At(t, "done")
    /\ recorddone(th[t].cur)
    /\ Local_(t, [th[t] EXCEPT !.pc = "save", !.cur = 0])
    /\ UNCHANGED <<kernel, saving, history>> /\ Quiet

\* The sweep ends: readiness edges that have waited longer than READYPENDINGTTL go,
\* whatever their processes do.  How long one has waited is left open.
SweepEnd(t, expired) ==
    /\ At(t, "look") /\ th[t].todo = {}
    /\ expired \subseteq READYPENDING
    /\ READYPENDING' = READYPENDING \ expired
    /\ edge' = edge \ {occ[p] : p \in expired}
    /\ IF th[t].job = "reap" THEN Finish(t) ELSE Goto(t, th[t].job)
    /\ UNCHANGED <<kernel, OPMETA, COMPLETED, PROCESSES, saving, acked>> /\ Quiet

(* ----------------------------- The requests ----------------------------- *)

\* LAUNCH_CATALOGUE, PROCEDURE_LAUNCH, SESSION_LOCK_START: spawnsandboxed.
Launch(t, p) ==
    /\ At(t, "idle") /\ t # Main
    /\ Start(p, "child")
    /\ mine' = mine \cup {nid + 1}
    /\ Local_(t, [Idle EXCEPT !.pc = "record", !.job = "launch", !.pid = p,
                               !.id = nid + 1, !.starting = TRUE])
    /\ UNCHANGED <<dead, registry, saving, history>> /\ Quiet

\* handleregisterpid up to recordstart.  A launcher registers a process it started once.
Register(t, p, starting) ==
    /\ At(t, "idle") /\ t # Main
    /\ Running(p) /\ born[occ[p]].kind = "prog" /\ occ[p] \notin acked
    /\ \A u \in Workers : th[u].job = "register" => th[u].id # occ[p]
    /\ Local_(t, [Idle EXCEPT !.pc = "record", !.job = "register", !.pid = p,
                               !.id = occ[p], !.starting = starting])
    /\ UNCHANGED <<kernel, registry, saving, history>> /\ Quiet

\* Mutant: the answer goes out without a checkpoint.
RecordStartUnsaved(t) ==
    /\ At(t, "record")
    /\ recordstart(th[t].pid, th[t].id, th[t].starting, th[t].job = "launch")
    /\ Finish(t) /\ acked' = acked \cup ({th[t].id} \ dead)
    /\ UNCHANGED <<kernel, saving, edge>> /\ Quiet

\* recordstart, and the checkpoint and the answer that follow it.
RecordStart(t) ==
    /\ At(t, "record")
    /\ recordstart(th[t].pid, th[t].id, th[t].starting, th[t].job = "launch")
    /\ Saves(t, "ack")
    /\ UNCHANGED <<kernel, saving, history>> /\ Quiet

\* handleready: the window server saw the process map a window.
Ready(t, p) ==
    /\ At(t, "idle") /\ t # Main
    /\ Running(p)
    /\ IF OPMETA[p] = None
         THEN /\ READYPENDING' = READYPENDING \cup {p}
              /\ edge' = edge \cup {occ[p]}
              /\ UNCHANGED <<OPMETA, th>>
         ELSE /\ READYPENDING' = READYPENDING \ {p}
              /\ OPMETA' = [OPMETA EXCEPT ![p].starting = FALSE]
              /\ IF OPMETA[p].starting
                   THEN Local_(t, [Idle EXCEPT !.pc = "save"]) ELSE UNCHANGED th
              /\ UNCHANGED edge
    /\ UNCHANGED <<kernel, COMPLETED, PROCESSES, saving, acked>> /\ Quiet

\* COMPLETE_PID: the owner, which waited for its process, reports the exit status.
Complete(t, p) ==
    /\ At(t, "idle") /\ t # Main
    /\ \E i \in dead : born[i] = [pid |-> p, kind |-> "prog"] /\ occ[p] \in {0, i}
    /\ Local_(t, [Idle EXCEPT !.pc = "complete", !.job = "complete", !.cur = p])
    /\ UNCHANGED <<kernel, registry, saving, history>> /\ Quiet

\* handlecompletepid: an active entry is completed, a completed one that still names its
\* owner is amended, anything else is refused.
CompleteEntry(t) ==
    /\ At(t, "complete")
    /\ LET p == th[t].cur IN
       IF OPMETA[p] # None
         THEN Goto(t, "done")
       ELSE IF COMPLETED[p] # None /\ COMPLETED[p].id # 0
         THEN Goto(t, "amend")
       ELSE Finish(t)
    /\ UNCHANGED <<kernel, registry, saving, history>> /\ Quiet

\* The exit status of the completed entry, unless it was dropped meanwhile.
Amend(t) ==
    /\ At(t, "amend")
    /\ IF COMPLETED[th[t].cur] # None THEN Local_(t, [Idle EXCEPT !.pc = "save"]) ELSE Finish(t)
    /\ UNCHANGED <<kernel, registry, saving, history>> /\ Quiet

\* handlekill after its sweep: the pid must be the registered process; the signal may be
\* handled or end it.
Kill(t) ==
    /\ At(t, "kill")
    /\ LET p == th[t].pid IN
       IF OPMETA[p] # None /\ occ[p] = OPMETA[p].id
         THEN Goto(t, "mark") /\ (Die(occ[p]) \/ UNCHANGED <<dead, history>>)
         ELSE Finish(t) /\ UNCHANGED <<dead, history>>
    /\ UNCHANGED <<occ, born, nid, mine, registry, saving>> /\ Quiet

\* Its end: the entry's state becomes stopping or killing, whomever it is about by then.
Mark(t) ==
    /\ At(t, "mark")
    /\ LET p == th[t].pid IN
       OPMETA' = IF OPMETA[p] # None THEN [OPMETA EXCEPT ![p].starting = FALSE] ELSE OPMETA
    /\ Local_(t, [Idle EXCEPT !.pc = "save"])
    /\ UNCHANGED <<kernel, COMPLETED, PROCESSES, READYPENDING, saving, history>> /\ Quiet

\* handlewait after a sweep: answer, complete an entry whose process is gone, or sleep and
\* sweep again until the timeout.
Wait(t) ==
    /\ At(t, "wait")
    /\ LET p == th[t].pid IN
       IF COMPLETED[p] # None THEN Finish(t)
       ELSE IF OPMETA[p] # None /\ PROCESSES[p] = 0 /\ ~Running(p)
         THEN Local_(t, [th[t] EXCEPT !.pc = "done", !.cur = p, !.ret = "sweep"])
       ELSE IF OPMETA[p] = None /\ ~Running(p) THEN Finish(t)
       ELSE Finish(t) \/ Goto(t, "sweep")
    /\ UNCHANGED <<kernel, registry, saving, history>> /\ Quiet

Again(t) ==
    /\ At(t, "sweep")
    /\ Sweep(t, th[t].job, th[t].pid)
    /\ UNCHANGED <<kernel, registry, saving, history>> /\ Quiet

\* GODDESS sends the list of its live processes (operationssnapshot); an answer that is
\* late leaves the request behind and the next one may overtake it.
Bootstrap(t) ==
    /\ At(t, "idle") /\ t # Main
    /\ Local_(t, [Idle EXCEPT !.pc = "boot", !.job = "bootstrap", !.todo =
          {<<p, occ[p]>> : p \in {q \in Pids : Running(q) /\ born[occ[q]].kind = "goddess"}}])
    /\ UNCHANGED <<kernel, registry, saving, history>> /\ Quiet

\* handlebootstrap up to the lock: one pid that is no longer GODDESS's refuses them all,
\* zombies are skipped.
BootstrapCheck(t) ==
    /\ At(t, "boot")
    /\ LET S == {x[1] : x \in th[t].todo} IN
       IF \E p \in S : occ[p] = 0 \/ born[occ[p]].kind # "goddess"
         THEN Finish(t)
         ELSE Local_(t, [th[t] EXCEPT !.pc = "bootapply",
                           !.todo = {<<p, occ[p]>> : p \in {q \in S : Running(q)}}])
    /\ UNCHANGED <<kernel, registry, saving, history>> /\ Quiet

\* Mutant: the snapshot replaces the whole registry.
BootstrapReplacesAll(t) ==
    /\ At(t, "bootapply")
    /\ LET todo == th[t].todo
           accepted == {x[1] : x \in todo}
           gone == {p \in Pids \ accepted : OPMETA[p] # None}
           new(p) == [id |-> CHOOSE i \in Ids : <<p, i>> \in todo, starting |-> FALSE]
       IN /\ OPMETA' = [p \in Pids |-> IF p \in accepted THEN new(p) ELSE None]
          /\ COMPLETED' = Ended(Forget(COMPLETED, accepted), gone,
                             [p \in gone |-> OPMETA[p].id])
          /\ PROCESSES' = [p \in Pids |-> IF p \in gone THEN 0 ELSE PROCESSES[p]]
          /\ READYPENDING' = READYPENDING \ gone
    /\ Local_(t, [Idle EXCEPT !.pc = "save"])
    /\ UNCHANGED <<kernel, saving, history>> /\ Quiet

\* The rest of handlebootstrap: replace GODDESS's part of the registry.
BootstrapApply(t) ==
    /\ At(t, "bootapply")
    /\ LET todo == th[t].todo
           accepted == {x[1] : x \in todo}
           gone == {p \in Pids \ accepted : OPMETA[p] # None /\ born[OPMETA[p].id].kind = "goddess"}
           same(p) == OPMETA[p] # None /\ <<p, OPMETA[p].id>> \in todo
           new(p) == [id |-> CHOOSE i \in Ids : <<p, i>> \in todo, starting |-> FALSE]
       IN /\ OPMETA' = [p \in Pids |-> IF p \in gone THEN None
                                       ELSE IF p \in accepted /\ ~same(p) THEN new(p)
                                       ELSE OPMETA[p]]
          /\ COMPLETED' = Ended(Forget(COMPLETED, accepted), gone,
                             [p \in gone |-> OPMETA[p].id])
          /\ PROCESSES' = [p \in Pids |-> IF p \in gone THEN 0 ELSE PROCESSES[p]]
          /\ READYPENDING' = READYPENDING \ gone
    /\ Local_(t, [Idle EXCEPT !.pc = "save"])
    /\ UNCHANGED <<kernel, saving, history>> /\ Quiet

(* --------------------------- End and restart --------------------------- *)

\* The server ends, by a signal or a crash: its threads are daemons and stop where they
\* are.
Crash ==
    /\ up /\ crashes < MaxCrashes
    /\ up' = FALSE /\ crashes' = crashes + 1
    /\ OPMETA' = Empty /\ COMPLETED' = Empty
    /\ PROCESSES' = [p \in Pids |-> 0] /\ READYPENDING' = {}
    /\ wlock' = None /\ snap' = disk
    /\ th' = [t \in Threads |-> Idle]
    /\ mine' = {} /\ edge' = {}
    /\ UNCHANGED <<occ, dead, born, nid, disk, fails, acked>>

\* loadstate's choice of the active entries: the process still there, by its identity.
Recovered == [p \in Pids |->
    IF disk.active[p] # None /\ Running(p) /\ occ[p] = disk.active[p].id
      THEN disk.active[p] ELSE None]

\* GODDESS starts the server again: loadstate.
Restart ==
    /\ ~up /\ up' = TRUE
    /\ OPMETA' = Recovered /\ COMPLETED' = disk.completed
    /\ UNCHANGED <<kernel, PROCESSES, READYPENDING, saving, th, crashes, fails, history>>

Serve(t) ==
    \/ SaveSnapshot(t) \/ SaveReplace(t)
    \/ \E x \in th[t].todo : Poll(t, x) \/ Look(t, x)
    \/ External(t) \/ Match(t) \/ RecordDone(t)
    \/ \E S \in SUBSET Pids : SweepEnd(t, S)
    \/ RecordStart(t)
    \/ CompleteEntry(t) \/ Amend(t) \/ Kill(t) \/ Mark(t) \/ Wait(t) \/ Again(t)
    \/ BootstrapCheck(t) \/ BootstrapApply(t)

Request(t) ==
    \/ \E p \in Pids, job \in {"kill", "wait"} : Begin(t, job, p)
    \/ Begin(t, "reap", 0)
    \/ \E p \in Pids : Launch(t, p) \/ Ready(t, p) \/ Complete(t, p)
    \/ \E p \in Pids, s \in BOOLEAN : Register(t, p, s)
    \/ Bootstrap(t)

Next ==
    \/ \E t \in Threads : Serve(t) \/ Request(t) \/ SaveFails(t)
    \/ \E p \in Pids : Exit(p) \/ Reaped(p) \/ Spawn(p, "prog") \/ Spawn(p, "goddess")
    \/ Crash \/ Restart

\* Threads run on and get the locks they wait for, the accept loop sweeps again and
\* again, and GODDESS restarts a server that ended.
Fairness ==
    /\ \A t \in Threads : WF_vars(Serve(t)) /\ SF_vars(SaveSnapshot(t))
    /\ WF_vars(Begin(Main, "reap", 0))
    /\ WF_vars(Restart)

Spec == Init /\ [][Next]_vars
FairSpec == Spec /\ Fairness

(* ------------------------------ Properties ------------------------------ *)

\* A pid is never both active and completed, a tracked child always has an active entry,
\* and COMPLETED never holds more than KEEP entries, no two of them of one age.
OneRecordPerPid ==
    /\ \A p \in Pids : OPMETA[p] # None => COMPLETED[p] = None
    /\ \A p \in Pids : PROCESSES[p] # 0 => OPMETA[p] # None
    /\ \A p, q \in Pids : /\ p # q /\ COMPLETED[p] # None /\ COMPLETED[q] # None
                          => COMPLETED[p].age # COMPLETED[q].age

Saved == fails = 0 /\ \A t \in Threads : th[t].pc \notin {"save", "write"}

\* With no checkpoint outstanding, a restart now would recover exactly the registered
\* operations that are alive.
RestartRecoversRegistry ==
    up /\ Saved => \A p \in Pids : Running(p) =>
        (Recovered[p] # None <=> OPMETA[p] # None /\ OPMETA[p].id = occ[p])

\* An operation whose launch or registration was answered stays registered while it is
\* alive, through sweeps, requests of others and restarts.
NeverForgotten ==
    up /\ fails = 0 => \A p \in Pids : Running(p) /\ occ[p] \in acked =>
        OPMETA[p] # None /\ OPMETA[p].id = occ[p]

\* An early readiness is not undone by the registration that follows it, unless it had
\* waited for that registration until it expired (READYPENDINGTTL, 30 seconds).
ReadyIsKept ==
    \A p \in Pids :
        Running(p) /\ OPMETA[p] # None /\ OPMETA[p].id = occ[p] /\ occ[p] \in edge
            => ~OPMETA[p].starting

\* An entry whose process has ended leaves the active registry.
DeadIsPruned ==
    \A p \in Pids, i \in Ids :
        (OPMETA[p] # None /\ OPMETA[p].id = i /\ i \in dead)
            ~> (OPMETA[p] = None \/ OPMETA[p].id # i)
=============================================================================
