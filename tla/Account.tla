------------------------------- MODULE Account -------------------------------
(* The account of the machine's one user: its credential, its home and the    *)
(* limiter of password attempts (source/build software/broker/broker.py),     *)
(* as the first-run setup and the login (startup.py, GODDESS.py), the request *)
(* threads of the Operations server (operationsserver.py) and the command     *)
(* that prepares a drive (broker.py's own) use them.                          *)
(*                                                                            *)
(* One action per system call that changes a file, or per section under the   *)
(* limiter's lock; a call may fail, before or after its effect where it syncs *)
(* a directory last, and the power may go at any time, with what was not      *)
(* synced.  A password hash is the password and whether its scheme is an old  *)
(* one.  The clock is not set back.  Profile pictures, file modes and checks  *)
(* of names and paths are left out.                                           *)
EXTENDS Integers, FiniteSets

CONSTANTS Users, Passwords,
          Quarantine, \* the name .removed-... beside the homes; one at a time
          Threads,    \* request threads of the Operations server
          Tool,       \* the command, or the first-run setup
          None,
          MaxDelay,   \* longest delay between two attempts: 30 s
          MaxCount,   \* attempts are counted up to this: 10
          Day,        \* an entry of the limiter older than this is dropped: 86400 s
          MaxTime,    \* bound: the clock
          MaxRequests,\* bound: requests and commands, by weight
          MaxFaults,  \* bound: calls that fail
          MaxCrashes  \* bound: losses of power

ASSUME AccountAssumption ==
    /\ Tool \notin Threads /\ Quarantine \notin Users
    /\ MaxDelay \in Nat \ {0} /\ MaxCount \in Nat \ {0}
    /\ Day \in Nat /\ MaxDelay <= Day
    /\ MaxTime \in Nat /\ MaxRequests \in Nat
    /\ MaxFaults \in Nat /\ MaxCrashes \in Nat

Names == Users \cup {Quarantine}
Homes == [Names -> {"none", "empty", "files"}]   \* "empty" is a fresh tree
Actors == Threads \cup {Tool}
Scopes == {"verify", "update"}   \* settings:verify and session:unlock, settings:master-update
Credential == [user : Users, pw : Passwords, old : BOOLEAN]
Entry == [failures : 1 .. MaxCount, until : Int, last : Nat]

ASSUME NoneAssumption ==
    None \notin Credential \cup Entry \cup Users \cup Passwords \cup Actors

VARIABLES
    on,        \* the desktop is running, and with it the Operations server
    cred,      \* the one/master/master.txt
    home,      \* the trees in the directory master, by name
    drive,     \* what of that directory the drive may hold: all it was since the last sync
    session,   \* the published session identity
    entries,   \* user and scope -> entry of the limiter
    now,
    th,        \* actor -> its program point and locals
    requests, faults, crashes,
    used,      \* history: the user has files
    removed,   \* history: remove_user has unlinked the credential
    halfdone,  \* history: an update was cut between two calls, could not be undone,
               \* overlapped another or was overwritten by a migration that had read
               \* before; or the power took a rename that was not synced
    tries      \* history: user and scope -> attempts counted since the entry was dropped,
               \* and the reading of the clock the last of them came with

disk == <<home, drive>>
account == <<cred, disk, session>>
limiter == <<entries, tries>>
counts == <<requests, faults, crashes>>
history == <<used, removed, halfdone>>
vars == <<on, account, limiter, now, th, counts, history>>

Keys == Users \X Scopes
Jobs == {"none", "verify", "update", "change", "remove", "provision"}
PCs == {"idle", "auth", "reserve", "lock", "check", "success", "migrate", "move", "write",
        "publish", "publishing", "restore", "moveback", "republish", "republishing",
        "setaside", "unlink", "rmtree"}
Wish == [user : Users, pw : Passwords \cup {None}]
Local == [pc : PCs, job : Jobs, old : Credential \cup {None}, seen : Credential \cup {None},
          pw : Passwords \cup {None}, want : Wish \cup {None}, moved : BOOLEAN, clock : Nat]
Idle == [pc |-> "idle", job |-> "none", old |-> None, seen |-> None, pw |-> None,
         want |-> None, moved |-> FALSE, clock |-> 0]
NoTries == [n |-> 0, last |-> 0]

\* The files and the programs keep these types.
TypeOK ==
    /\ on \in BOOLEAN
    /\ cred \in Credential \cup {None}
    /\ home \in drive /\ drive \subseteq Homes
    /\ session \in Users \cup {None}
    /\ entries \in [Keys -> Entry \cup {None}]
    /\ tries \in [Keys -> [n : Nat, last : Nat]]
    /\ now \in 0 .. MaxTime
    /\ th \in [Actors -> Local]
    /\ requests \in 0 .. MaxRequests
    /\ faults \in 0 .. MaxFaults /\ crashes \in 0 .. MaxCrashes
    /\ used \in BOOLEAN /\ removed \in BOOLEAN /\ halfdone \in BOOLEAN

\* A drive without an account, or one whose credential is of the old scheme.
Init ==
    /\ on = FALSE
    /\ \/ cred = None /\ session = None /\ home = [v \in Names |-> "none"] /\ used = FALSE
       \/ \E u \in Users, p \in Passwords :
            /\ cred = [user |-> u, pw |-> p, old |-> TRUE] /\ session = u
            /\ home = [v \in Names |-> IF v = u THEN "files" ELSE "none"] /\ used = TRUE
    /\ drive = {home}
    /\ entries = [k \in Keys |-> None] /\ tries = [k \in Keys |-> NoTries]
    /\ now = 0
    /\ th = [a \in Actors |-> Idle]
    /\ requests = 0 /\ faults = 0 /\ crashes = 0
    /\ removed = FALSE /\ halfdone = FALSE

At(a, pc) == th[a].pc = pc
Goto(a, pc) == th' = [th EXCEPT ![a].pc = pc]
Finish(a) == th' = [th EXCEPT ![a] = Idle]
Fault == faults < MaxFaults /\ faults' = faults + 1 /\ UNCHANGED <<requests, crashes>>
\* So that three verifications, or two changes of the account, are within the bound.
Weight(job) == IF job = "verify" THEN 2 ELSE 3
Begin(a, l) ==
    /\ requests + Weight(l.job) <= MaxRequests /\ requests' = requests + Weight(l.job)
    /\ UNCHANGED <<faults, crashes>>
    /\ th' = [th EXCEPT ![a] = l]
\* The directory of the homes changes, and is synced or not.
Synced(h) == home' = h /\ drive' = {h}
Cached(h) == home' = h /\ drive' = drive \cup {h}

(* --------------------------- authenticate_master --------------------------- *)

\* Its beginning: read_credentials.
AuthRead(t) ==
    /\ At(t, "auth")
    /\ IF cred = None THEN Finish(t)
       ELSE th' = [th EXCEPT ![t].seen = cred, ![t].pc = "reserve"]
    /\ UNCHANGED <<on, account, limiter, now, counts, history>>

Delay(n) == LET d == 2 ^ (n - 1) IN IF d < MaxDelay THEN d ELSE MaxDelay
\* Mutant: the count of attempts is not capped.
Uncapped(n) == n

Counted(n) == IF n < MaxCount THEN n ELSE MaxCount
Scope(t) == IF th[t].job = "update" THEN "update" ELSE "verify"

Key(t) == <<th[t].seen.user, Scope(t)>>

\* AttemptLimiter.reserve begins: the clock is read before the lock of the file is waited for.
ReadClock(t) ==
    /\ At(t, "reserve")
    /\ th' = [th EXCEPT ![t].clock = now, ![t].pc = "lock"]
    /\ UNCHANGED <<on, account, limiter, now, counts, history>>

\* Mutant: an attempt one second early is let through.
BlockedLess(t) == entries[Key(t)] # None /\ entries[Key(t)].until > th[t].clock + 1

Blocked(t) == entries[Key(t)] # None /\ entries[Key(t)].until > th[t].clock

\* The attempt counts, by the reading of the clock, and entries without one for a day go.
Count(t) ==
    LET k == Key(t)
        reading == th[t].clock
        before == IF entries[k] = None THEN 0 ELSE entries[k].failures
        n == Counted(before + 1)
        stale == {q \in Keys \ {k} : entries[q] # None /\ reading > entries[q].last + Day}
    IN /\ entries' = [q \in Keys |->
             IF q = k THEN [failures |-> n, until |-> reading + Delay(n), last |-> reading]
             ELSE IF q \in stale THEN None ELSE entries[q]]
       /\ tries' = [q \in Keys |->
             IF q = k THEN [n |-> tries[k].n + 1, last |-> reading]
             ELSE IF q \in stale THEN NoTries ELSE tries[q]]

\* Under the lock: refused before the time is up, else counted.
Reserve(t) ==
    /\ At(t, "lock")
    /\ IF Blocked(t)
         THEN Finish(t) /\ UNCHANGED limiter
         ELSE Count(t) /\ th' = [th EXCEPT ![t].pc = "check", ![t].clock = 0]
    /\ UNCHANGED <<on, account, now, counts, history>>

\* The limiter's file cannot be read, written, or synced once it is replaced: no
\* authentication, but the attempt may count.
ReserveFails(t) ==
    /\ At(t, "lock") /\ Fault
    /\ UNCHANGED limiter \/ (~Blocked(t) /\ Count(t))
    /\ Finish(t)
    /\ UNCHANGED <<on, account, now, history>>

\* verify_password, against the credential read before.
Check(t) ==
    /\ At(t, "check")
    /\ IF th[t].pw = th[t].seen.pw THEN Goto(t, "success") ELSE Finish(t)
    /\ UNCHANGED <<on, account, limiter, now, counts, history>>

Drop(t) ==
    /\ entries' = [entries EXCEPT ![Key(t)] = None]
    /\ tries' = [tries EXCEPT ![Key(t)] = NoTries]

\* AttemptLimiter.success, under the lock; what the caller does then.
Success(t) ==
    /\ At(t, "success") /\ Drop(t)
    /\ CASE th[t].job = "verify" /\ th[t].seen.old -> Goto(t, "migrate")
         [] th[t].job = "verify" /\ ~th[t].seen.old -> Finish(t)
         [] th[t].job = "update" /\ th[t].want.user # th[t].old.user -> Goto(t, "move")
         [] OTHER -> Goto(t, "write")
    /\ UNCHANGED <<on, account, now, counts, history>>

\* It fails, with the entry dropped when only the sync does: no authentication.
SuccessFails(t) ==
    /\ At(t, "success") /\ Fault
    /\ UNCHANGED limiter \/ Drop(t)
    /\ Finish(t)
    /\ UNCHANGED <<on, account, now, history>>

\* atomic_write_credentials, done (ok) or failed before or after the replacement.
WriteCredential(c, ok) ==
    IF ok THEN cred' = c /\ UNCHANGED counts ELSE Fault /\ cred' \in {cred, c}

\* The hash of the old scheme is replaced; a failure leaves the authentication valid.
Migrate(t, ok) ==
    /\ At(t, "migrate")
    /\ WriteCredential([th[t].seen EXCEPT !.old = FALSE], ok)
    /\ halfdone' = (halfdone \/ cred # th[t].seen)
    /\ Finish(t)
    /\ UNCHANGED <<on, disk, session, limiter, now, used, removed>>

\* SETTINGS_AUTH, SESSION_AUTH.
Verify(t, p) ==
    /\ on /\ At(t, "idle")
    /\ Begin(t, [Idle EXCEPT !.pc = "auth", !.job = "verify", !.pw = p])
    /\ UNCHANGED <<on, account, limiter, now, history>>

(* ------------------------ handlesettingsmasterupdate ------------------------ *)

\* Its beginning, with the credential as it is now; an update of the picture alone needs
\* no password.
Update(t, p, w) ==
    /\ on /\ At(t, "idle") /\ cred # None
    /\ LET changed == w.user # cred.user \/ w.pw # None IN
       Begin(t, [Idle EXCEPT !.pc = IF changed THEN "auth" ELSE "write",
                             !.job = "update", !.old = cred, !.pw = p, !.want = w])
    /\ halfdone' = (halfdone \/ \E u \in Threads : th[u].job = "update")
    /\ UNCHANGED <<on, account, limiter, now, used, removed>>

Renamed(from, to) == [home EXCEPT ![from] = "none", ![to] = home[from]]
Movable(from, to) == home[from] # "none" /\ home[to] = "none"
Rename(a) == Renamed(th[a].old.user, th[a].want.user)
RenameBack(a) == Renamed(th[a].want.user, th[a].old.user)

\* The rename of the home, for the handler and for change_user, which syncs it.
Move(a) ==
    /\ At(a, "move")
    /\ IF Movable(th[a].old.user, th[a].want.user)
         THEN /\ IF a = Tool THEN Synced(Rename(a)) ELSE Cached(Rename(a))
              /\ th' = [th EXCEPT ![a].pc = "write", ![a].moved = TRUE]
         ELSE UNCHANGED disk /\ Finish(a)
    /\ UNCHANGED <<on, cred, session, limiter, now, counts, history>>

\* It fails; when only change_user's sync does, nothing undoes the rename.
MoveFails(a) ==
    /\ At(a, "move") /\ Fault
    /\ \/ UNCHANGED <<disk, halfdone>>
       \/ /\ a = Tool /\ Movable(th[a].old.user, th[a].want.user)
          /\ Cached(Rename(a)) /\ halfdone' = TRUE
    /\ Finish(a)
    /\ UNCHANGED <<on, cred, session, limiter, now, used, removed>>

Replacement(a) ==
    LET w == th[a].want  o == th[a].old IN
    [user |-> w.user, pw |-> IF w.pw = None THEN o.pw ELSE w.pw, old |-> w.pw = None /\ o.old]

\* The credential is written; a failure undoes the update.
Write(t, ok) ==
    /\ At(t, "write") /\ th[t].job = "update"
    /\ WriteCredential(Replacement(t), ok)
    /\ Goto(t, IF ok THEN "publish" ELSE "restore")
    /\ UNCHANGED <<on, disk, session, limiter, now, history>>

\* writemastersettings, then publishsessionidentity, which reads the credential again.
PublishRead(t) ==
    /\ \E pc \in {"publish", "republish"} :
          /\ At(t, pc)
          /\ th' = [th EXCEPT ![t].seen = cred,
                      ![t].pc = IF pc = "publish" THEN "publishing" ELSE "republishing"]
    /\ cred # None
    /\ UNCHANGED <<on, account, limiter, now, counts, history>>

\* It replaces the published name; the second one's failure is ignored.
Publish(t, ok) ==
    /\ At(t, "publishing") \/ At(t, "republishing")
    /\ IF ok THEN session' = th[t].seen.user /\ UNCHANGED counts
             ELSE Fault /\ session' \in {session, th[t].seen.user}
    /\ halfdone' = (halfdone \/ (~ok /\ At(t, "republishing")))
    /\ IF At(t, "publishing") /\ ~ok THEN Goto(t, "restore") ELSE Finish(t)
    /\ UNCHANGED <<on, cred, disk, limiter, now, used, removed>>

\* The update is undone: the old credential is written again; if that fails too, it ends
\* there.
Restore(t, ok) ==
    /\ At(t, "restore")
    /\ WriteCredential(th[t].old, ok)
    /\ halfdone' = (halfdone \/ ~ok)
    /\ IF ok THEN Goto(t, "moveback") ELSE Finish(t)
    /\ UNCHANGED <<on, disk, session, limiter, now, used, removed>>

\* Mutant: the undone update leaves the home under its new name.
MoveBackSkipped(t) ==
    /\ At(t, "moveback") /\ th[t].job = "update"
    /\ Goto(t, "republish")
    /\ UNCHANGED <<on, account, limiter, now, counts, history>>

MoveBack(t) ==
    /\ At(t, "moveback") /\ th[t].job = "update"
    /\ IF th[t].moved /\ Movable(th[t].want.user, th[t].old.user)
         THEN Cached(RenameBack(t)) ELSE UNCHANGED disk
    /\ Goto(t, "republish")
    /\ UNCHANGED <<on, cred, session, limiter, now, counts, history>>

\* The rename back fails, or only change_user's sync of it, with the credential as
\* ChangeBack says.
MoveBackFails(a) ==
    /\ At(a, "moveback") /\ th[a].moved /\ Fault
    /\ \/ UNCHANGED disk /\ halfdone' = TRUE
       \/ a = Tool /\ Cached(RenameBack(a)) /\ halfdone' = (halfdone \/ cred # th[a].old)
    /\ Finish(a)
    /\ UNCHANGED <<on, cred, session, limiter, now, used, removed>>

(* ------------------------------- The command ------------------------------- *)

Offline == ~on /\ At(Tool, "idle")

\* provision_user and the first-run setup: a tree of directories, then the credential.
Provision(u, p) ==
    /\ Offline
    /\ Cached([home EXCEPT ![u] = IF @ = "none" THEN "empty" ELSE @])
    /\ Begin(Tool, [Idle EXCEPT !.pc = "write", !.job = "provision", !.want = [user |-> u, pw |-> p]])
    /\ UNCHANGED <<on, cred, session, limiter, now, history>>

ProvisionWrite(ok) ==
    /\ At(Tool, "write") /\ th[Tool].job = "provision"
    /\ WriteCredential([user |-> th[Tool].want.user, pw |-> th[Tool].want.pw, old |-> FALSE], ok)
    /\ removed' = (removed /\ cred' = None)
    /\ Finish(Tool)
    /\ UNCHANGED <<on, disk, session, limiter, now, used, halfdone>>

\* change_user, with the right password.
Change(w) ==
    /\ Offline /\ cred # None
    /\ Begin(Tool, [Idle EXCEPT !.pc = IF w.user # cred.user THEN "move" ELSE "write",
                          !.job = "change", !.old = cred, !.want = w])
    /\ UNCHANGED <<on, account, limiter, now, history>>

ChangeWrite(ok) ==
    /\ At(Tool, "write") /\ th[Tool].job = "change"
    /\ WriteCredential(Replacement(Tool), ok)
    /\ IF ok THEN Finish(Tool) ELSE Goto(Tool, "moveback")
    /\ UNCHANGED <<on, disk, session, limiter, now, history>>

\* Its failure renames the home back and leaves the credential as it is.
ChangeBack ==
    /\ At(Tool, "moveback") /\ th[Tool].job = "change"
    /\ IF th[Tool].moved THEN Synced(RenameBack(Tool)) ELSE UNCHANGED disk
    /\ halfdone' = (halfdone \/ (th[Tool].moved /\ cred # th[Tool].old))
    /\ Finish(Tool)
    /\ UNCHANGED <<on, cred, session, limiter, now, counts, used, removed>>

\* remove_user, with the right password ...
Remove ==
    /\ Offline /\ cred # None /\ Movable(cred.user, Quarantine)
    /\ Begin(Tool, [Idle EXCEPT !.pc = "setaside", !.job = "remove", !.old = cred])
    /\ UNCHANGED <<on, account, limiter, now, history>>

\* ... the home goes into quarantine, and stays there if the sync fails or the credential's
\* directory cannot be opened ...
SetAside(ok) ==
    /\ At(Tool, "setaside")
    /\ LET h == Renamed(th[Tool].old.user, Quarantine) IN
       IF ok THEN Synced(h) /\ Goto(Tool, "unlink") /\ UNCHANGED <<counts, halfdone>>
             ELSE Fault /\ Cached(h) /\ Finish(Tool) /\ halfdone' = TRUE
    /\ UNCHANGED <<on, cred, session, limiter, now, used, removed>>

\* Mutant: a failed unlink is reported only after the home's removal.
UnlinkThenRemove(ok) ==
    /\ At(Tool, "unlink")
    /\ IF ok THEN cred' = None /\ removed' = TRUE /\ UNCHANGED counts
             ELSE Fault /\ UNCHANGED <<cred, removed>>
    /\ Goto(Tool, "rmtree")
    /\ UNCHANGED <<on, disk, session, limiter, now, used, halfdone>>

\* ... the credential is unlinked; when that fails the home comes back, unless that fails
\* too ...
Unlink(ok) ==
    /\ At(Tool, "unlink")
    /\ IF ok THEN /\ cred' = None /\ removed' = TRUE
                  /\ Goto(Tool, "rmtree")
                  /\ UNCHANGED <<disk, counts, halfdone>>
             ELSE /\ Fault /\ cred' \in {cred, None} /\ UNCHANGED removed
                  /\ LET h == Renamed(Quarantine, th[Tool].old.user) IN
                     \/ (Synced(h) \/ Cached(h)) /\ UNCHANGED halfdone
                     \/ UNCHANGED disk /\ halfdone' = (halfdone \/ cred' # None)
                  /\ Finish(Tool)
    /\ UNCHANGED <<on, session, limiter, now, used>>

\* ... and the quarantined tree is removed, unless that fails.
Rmtree ==
    /\ At(Tool, "rmtree")
    /\ Cached([home EXCEPT ![Quarantine] = "none"]) /\ used' = (used /\ ~removed)
    /\ Finish(Tool)
    /\ UNCHANGED <<on, cred, session, limiter, now, counts, removed, halfdone>>

RmtreeFails ==
    /\ At(Tool, "rmtree") /\ Fault
    /\ Finish(Tool)
    /\ UNCHANGED <<on, account, limiter, now, history>>

(* ------------------------------- The machine ------------------------------- *)

\* GODDESS opens the home of the credential's user, without which the start ends there,
\* and publishes the name.
Login ==
    /\ Offline /\ cred # None /\ home[cred.user] # "none"
    /\ on' = TRUE
    /\ session' = cred.user
    /\ UNCHANGED <<cred, disk, limiter, now, th, counts, history>>

\* The user keeps files, in a home that is on the drive.
Use ==
    /\ on /\ home[session] = "empty" /\ drive = {home}
    /\ Synced([home EXCEPT ![session] = "files"])
    /\ used' = TRUE
    /\ UNCHANGED <<on, cred, session, limiter, now, th, counts, removed, halfdone>>

\* The kernel writes the directory back.
Writeback ==
    /\ drive # {home} /\ Synced(home)
    /\ UNCHANGED <<on, cred, session, limiter, now, th, counts, history>>

Tick ==
    /\ now < MaxTime /\ now' = now + 1
    /\ UNCHANGED <<on, account, limiter, th, counts, history>>

\* The machine is shut down between requests, and its file systems are synced.
Off ==
    /\ on /\ on' = FALSE
    /\ \A a \in Actors : At(a, "idle")
    /\ Synced(home)
    /\ UNCHANGED <<cred, session, limiter, now, th, counts, history>>

\* The power goes, or the command is stopped: what reached the drive stays.
Crash ==
    /\ crashes < MaxCrashes /\ crashes' = crashes + 1
    /\ on' = FALSE
    /\ \E h \in drive : Synced(h)
    /\ halfdone' = (\/ halfdone
                    \/ \E u \in Users : home'[u] # home[u]
                    \/ \E a \in Actors :
                          \/ th[a].moved /\ th[a].pc \in {"write", "restore", "moveback"}
                          \/ th[a].pc = "unlink")
    /\ th' = [a \in Actors |-> Idle]
    /\ UNCHANGED <<cred, session, limiter, now, requests, faults, used, removed>>

Thread(t) ==
    \/ AuthRead(t) \/ ReadClock(t) \/ Reserve(t) \/ ReserveFails(t) \/ Check(t)
    \/ Success(t) \/ SuccessFails(t)
    \/ Move(t) \/ MoveFails(t) \/ PublishRead(t) \/ MoveBack(t) \/ MoveBackFails(t)
    \/ \E ok \in BOOLEAN : Migrate(t, ok) \/ Write(t, ok) \/ Publish(t, ok) \/ Restore(t, ok)
    \/ \E p \in Passwords : Verify(t, p)
    \/ \E p \in Passwords, w \in Wish : Update(t, p, w)

Command ==
    \/ \E u \in Users, p \in Passwords : Provision(u, p)
    \/ \E w \in Wish : Change(w)
    \/ Move(Tool) \/ MoveFails(Tool) \/ MoveBackFails(Tool) \/ ChangeBack
    \/ \E ok \in BOOLEAN : ProvisionWrite(ok) \/ ChangeWrite(ok) \/ SetAside(ok) \/ Unlink(ok)
    \/ Remove \/ Rmtree \/ RmtreeFails

Next ==
    \/ Command \/ (\E t \in Threads : Thread(t)) \/ Login \/ Use \/ Writeback
    \/ Tick \/ Off \/ Crash

Spec == Init /\ [][Next]_vars

(* ------------------------------- Properties ------------------------------- *)

\* The user's files are in a home or in the quarantine, in whatever the drive may hold of
\* them, until remove_user, which has unlinked the credential first, removes them: no
\* failure, crash or overlapping update loses them.
FilesNeverLost == used => \A h \in drive : \E n \in Names : h[n] = "files"

Quiet == \A a \in Actors : th[a].job \in {"none", "verify"}

\* Unless an update was cut, could not be undone or overlapped another, or the power took
\* an unsynced rename, the credential names a user who has a home and, on the desktop, is
\* the one published.
CredentialNamesHome ==
    Quiet /\ ~halfdone /\ cred # None =>
        /\ home[cred.user] # "none"
        /\ on => session = cred.user

\* Attempts counted for one user in one scope came with readings of the clock that are
\* Delay apart, growing with the attempts since the entry was dropped, whichever threads
\* make them, however long they wait for the lock and whatever fails between; so the n-th
\* is no earlier than the sum of the delays before it, though one that waited may come
\* right before the next.
AttemptsAreSpaced ==
    [][\A k \in Keys : tries'[k].n > tries[k].n =>
          /\ tries'[k].last <= now
          /\ tries[k].n > 0 => tries'[k].last >= tries[k].last + Delay(Counted(tries[k].n))]_vars
=============================================================================
