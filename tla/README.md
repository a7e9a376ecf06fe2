# TLA+ models of The One OS

The One OS is a Python operating system on a Linux kernel.  Its user space is
one Python program per service; under it lie a shell initramfs, a recovery
environment, a small C security module and an NTFS repair engine, `roothealth`,
of which every boot runs `--boot-repair` before the root volume is mounted.  This directory holds
models of the parts whose correctness depends on the order of steps, on
interruptions or on several programs sharing files, the TLC runs that check them
on small instances and the TLAPS proofs that hold for every instance.

`PROJECT.json` maps every definition to source lines and lists runs, mutants,
findings, hazards and theorems.

## Inventory

| Component | State it keeps | Operations | Interacts with | What is hard |
|---|---|---|---|---|
| roothealth journal (`roothealth_wal.c`, `roothealth_write.c`), used by the offline `--repair` | two superblocks, descriptor and payload areas of `$Extend/$RootHealth`; the repair targets on the volume; the selected header in memory | locate, reconstruct a slot, begin, undo/descriptor/header/target write per entry, commit, rollback, accept, finalize | called by the orchestrator; shares the volume with the censuses | power cuts at every write, torn sectors, I/O errors followed by in-process rollback, recovery of a recovery |
| roothealth orchestrator (`roothealth_orchestrator.c`, `roothealth_repair_main.c`) | progress of one run, receipts | locate, recover, censuses, plan, repair, post-census, accept; direct boot repair of redundant copies | journal, boot script | decides from images on disk what a previous run did |
| censuses, log replay | none between runs | decode NTFS metadata, propose writes | give plans to the writer | volume format, not protocol |
| Angel recovery (`angel recovery.sh`, `recoveryauth.c`) | request and journal on the ESP, continuation record, recovery records, managed trees on the root | menu, diagnose, authorize, repair python/build, reset, reinstall, finish | request armed by GODDESS, record issued by the broker, boot choice in `init hardware.sh` | power cuts between renames, between journal and continuation, operator choosing another action in between |
| initramfs boot (`init hardware.sh`) | none persistent | mount, run roothealth, choose recovery or normal boot | Angel, roothealth, GODDESS | the choice must see every interrupted recovery |
| broker (`broker.py`) | master credential, home, quarantined homes, attempt limiter file, recovery records | authenticate, migrate a hash, provision, change and remove the user, issue and validate authorizations | lock screen, settings and login through the Operations server; GODDESS, Angel | several threads at once, calls that fail half way, a crash between a home rename and its credential |
| rubbish (`rubbish.py`, and the parts of `array.py` and `brick.py` that write its files) | payload directories and `index.txt` | store, restore, empty (brick's and Array's own), destroy one entry | Array, brick and expanse | the index is read, changed and rewritten without a lock, and programs are ended anywhere |
| exchange (`exchange.py`) | clipboard contents and owners | publish, request, expire | all programs | owner goes away while a reader waits |
| GODDESS (`GODDESS.py`) | service table with failure counters, power state, recovery and shutdown health requests, session identity | supervise, restart, give up, take power requests, shut down in stages, arm recovery, publish the session identity | everything | services that fail again and again, clients that give up, processes that outlive a signal |
| operations (`operationsserver.py`, `operations.py`) | registry of running and completed processes, its checkpoint, readiness edges | launch, register, ready, complete, kill, wait, list, bootstrap, sweep, checkpoint, restart | GODDESS sends snapshots and restarts it; programs and the window server send requests | threads that decide from copies, stale process identities, a crash between memory and checkpoint |
| window, graphics, input, audio, driver and network servers | device state | event loops | programs | hardware timing |
| lock screen, settings, startup | UI state | forms over the broker | broker | none beyond the broker's |
| user programs, media programs, build tooling, kernel module | program state | | | single process or per-call checks |

Properties that make the stateful components correct:

* journal: a repair is on the volume wholly or not at all; every changed byte
  has a durable undo image; the journal's own recovery accepts what the journal
  leaves behind, and a recovery that was started ends;
* Angel: no normal boot from a half-restored system; an interrupted action can
  always be resumed; nothing destructive runs without a grant for that action;
* broker: no failure, crash or overlapping update loses the user's files; the
  credential names a home; attempts are spaced however many threads try;
* operations: a registered process stays registered while it lives, across sweeps
  and restarts, and leaves the registry when it has ended;
* GODDESS supervision: a failing critical service is restarted a bounded number of
  times, and the desktop comes back or the machine restarts;
* GODDESS power: what was answered is what happens, after everything has stopped;
* rubbish: a file is at its path, in the rubbish, or destroyed on purpose, but for two
  races between a check and the move or removal that follows it;
* exchange: a reader gets the contents published last or a definite refusal.

## Modules

| Module | Role |
|---|---|
| `RootHealthPlan` | the shape rules of a transaction, as pure operators |
| `RootHealthWAL` | journal, writer and the process that drives them |
| `AtomicVolume` | what the journal promises: whole plans or nothing |
| `MCRootHealthWAL` | small instances for TLC |
| `RootHealthWALProofs` | inductive invariant, five safety theorems |
| `RootHealthWALRefinement` | proof that `RootHealthWAL` implements `AtomicVolume` |
| `AngelRecovery` | Angel's actions with the boot choice, the console and the way Settings asks for an action |
| `MCAngelRecovery` | a small installation for TLC |
| `AngelRecoveryProofs` | inductive invariant, five theorems |
| `OperationsRegistry`, `MCOperationsRegistry`, `OperationsRegistryProofs` | process registry of the Operations server: request threads, sweeps, checkpoint, restart; five theorems |
| `Account`, `MCAccount`, `AccountProofs` | credential, home and attempt limiter; four theorems |
| `GoddessSupervise`, `MCGoddessSupervise`, `GoddessSuperviseProofs` | the supervision loop; two theorems |
| `GoddessPower`, `MCGoddessPower`, `GoddessPowerProofs` | power requests and the shutdown sequence; three theorems |
| `Rubbish`, `MCRubbish`, `RubbishProofs` | the rubbish of several programs; three theorems |

Each module composes the programs that share one piece of state: `AngelRecovery` the
initramfs, Angel, the broker and GODDESS over the boot partition; `OperationsRegistry`
the server's threads, the programs, GODDESS's snapshots and the kernel over the process
table; `Account` the Operations server, the first-run setup and the broker's command
over the credential; `GoddessPower` GODDESS, its services and its clients.  The modules
meet where one program appears in two: a round of supervision is one step of
`GoddessPower` and all of `GoddessSupervise`.

### RootHealthPlan and RootHealthWAL

State and its place in the code:

| Variable | Code |
|---|---|
| `disk` | the sectors the plan's operations name |
| `slot` | superblock 0 and 1, `Invalid` when the checksum fails |
| `desc`, `undo` | descriptor and payload areas, by ordinal |
| `pc` | the point reached by `rh_orchestrator_*`, `rh_writer_commit` or `rh_wal_rollback`; `off` between processes |
| `sel`, `mem` | `wal->selected_slot` and the header fields held in `struct rh_wal` |
| `cursor` | loop variable of `rh_wal_rollback` |
| `base`, `txs`, `faults` | history and bounds |

Each device write of the code is one action: `WriteUndo`, `WriteDescriptor`,
`PublishApplying` and `WriteTarget` per entry, `PublishCommitted`,
`FinalizeEmpty`, `RollbackPublish`, `Restore`, `Reconstruct`, `Begin`.  Every
such action has a second disjunct in which the write does not succeed: the
device then holds the old bytes, the new bytes or a torn mixture (`Landed`,
`Remains`), and the process is gone (power cut) or, with `IOErrors`, continues
into the code's error path (`WriteFails`: `Abort` for the writer's loop, an
ended process for recovery).  A single-sector target is never torn (`Tearable`);
superblocks and descriptors are torn into something whose checksum fails.

`Locate`/`LocateRefuses` and `Recover`/`RecoverRefuses` carry the code's checks
on what is found: the pair of superblocks (`PairAccepted`), the shape of the
durable prefix (`LoadEntries`, `PrefixShapeValid`) and the comparison of images
by which recovery decides which entries were applied (`CaptureAccepts`).

Abstractions: a hash is the value it is taken of; counters that are functions of
the plan and entry count are dropped; a plan is any member of `Plans` that the
code's shape rules accept, since the censuses that produce plans are not
modelled; the verifiers that rederive an entry's contents from the volume accept.

### AngelRecovery

Four programs take part, one after the other: the initramfs that chooses between
recovery and GODDESS, the recovery shell, the running system in which the broker
issues a recovery authorization and GODDESS binds it to the boot and arms the
request, and the operator who answers the console.

| Variable | Code |
|---|---|
| `request`, `journal`, `marker` | `T1OS/` on the boot partition: the request of Settings, the recovery journal, the normal-boot marker (only whether it is there) |
| `cont` | `.angel-recovery-authorization` on the root |
| `records` | files of `the one/master/recovery authorizations` |
| `cred`, `user`, `tree` | the master credential, the user's files, the managed directories |
| `prev` | `.NAME.angel-previous` of the tree being replaced |
| `pc`, `act`, `src`, `dig`, `org`, `pend`, `settings`, `idx` | the point reached and the shell variables that survive until it |
| `boot` | `/proc/sys/kernel/random/boot_id` |
| `grants`, `replaced`, `faults` | history and bounds |

A digest is a number: its position in `grants`, the sequence of authentications,
which also says for which action the master password was given.  The installed
system is a set of leaf directories and an item of an action is a set of leaves,
so that the nesting of the code's lists (`the one/software` of reset holds
`the one/software/python` of the python repair) is kept.

Every command of the shell that changes a file is an action with a disjunct in
which it fails and the code's error path is taken; `PowerCut` may come between any
two.  `angel_restore_tree` is `StageCopy`, `MoveAside`, `MoveIn`, `VerifyTree`;
`angel_install_fresh_root` is `Prepare`, `Erase`, `Install`, `CheckInstall`, with
`rm` and `cp` stoppable inside a directory; it verifies only what lies below `the one`
(`Checked`), not the top-level `boot` it also copies; `angel_finish_action` is
`RemoveContinuation`, `ClearRequest`, `ClearJournal`, `ArmNormalBoot`;
`angel_require_recovery_authorization` is `Authorize`, `WriteContinuation`,
`ConsumeRecord`, `JournalAuthorized`.  The operator may choose any action
whenever the menu is shown, may refuse a confirmation and may fail to
authenticate.

Abstractions: renames, removals and synced writes reach the drive in program
order; the recovery image, the boot partition and the root are available,
verified and admitted, so that `angel_action_available` holds, and the boot partition
can be mounted at every start (`init hardware.sh` goes on without it and then sees no
journal); developer mode is
off; the journal's phase, which nothing reads, and the shutdown health request are
left out; a boot identity is fresh with respect to every identity still stored; a
journal, request or record is either as written or absent (they are written to a
temporary name and renamed).

### OperationsRegistry

| Variable | Code |
|---|---|
| `OPMETA`, `COMPLETED`, `PROCESSES`, `READYPENDING` | the dictionaries of the same names, guarded by `STATELOCK` |
| `disk`, `wlock`, `snap` | `OPERATIONSSTATE`, the holder of `STATEWRITELOCK` and the copies it writes |
| `th` | program point and locals of the threads of `acceptloop` and of the loop itself |
| `occ`, `dead`, `born`, `nid`, `mine` | the kernel's processes: who has a pid, zombies, parents |
| `up`, `crashes`, `fails` | whether the server runs, and bounds |
| `acked`, `edge` | history: identities whose registration, or early readiness, was answered |

A step is what a thread does between two acquisitions of `STATELOCK`, or one look at
`/proc` outside it: a sweep (`reaptracked`) is `Begin`, `Poll`, `External`, `Look`,
`Match`, `RecordDone`, `SweepEnd`, and other threads run between any two.  `savestate`
is `SaveSnapshot` and `SaveReplace` or `SaveFails`; every handler that changes the
registry ends with it.  `Bootstrap` is a snapshot GODDESS takes, `BootstrapCheck` and
`BootstrapApply` its use, which may come after that of a newer one.  `Crash` stops the
threads where they are, `Restart` is `loadstate`.  A process is an identity, which
stands for pid and start time; ends are ordered by `age`, by which `COMPLETED` drops
its oldest entries.  The end of a sweep drops readiness edges by their age
(`READYPENDINGTTL`), which is any subset of `READYPENDING`, whatever the process does.

The kernel hands out pids in turn, so a pid does not come back while the registry or a
request still names it (`Reusable`).  With `AnyReuse` it may: a sweep that looked at the
old process then completes the entry of the new one, since `recorddone` does not compare
identities.  The window is the time of one sweep against a turn through all pids.

### Account

| Variable | Code |
|---|---|
| `cred` | `the one/master/master.txt`; a hash is its password and whether its scheme is old |
| `home` | the directories in `/master`, by name, one name being the quarantine: none, freshly made, or with the user's files |
| `drive` | what of that directory the drive may hold: all it has been since it was last synced |
| `session` | the identity `publishsessionidentity` writes |
| `entries`, `now` | the limiter's file, and the clock |
| `th` | the request threads of the Operations server, and `Tool`: the broker's command or the first-run setup, which run while the desktop is off |
| `used`, `removed`, `halfdone`, `tries` | history |

`authenticate_master` is `AuthRead`, `ReadClock`, `Reserve`, `Check`, `Success`,
`Migrate`; the clock is read before the limiter's lock is waited for, so other threads
may count attempts, and time may pass, between `ReadClock` and `Reserve`.
`handlesettingsmasterupdate` is `Update`, the same authentication, `Move`, `Write`,
`PublishRead`, `Publish`, and on an error `Restore`, `MoveBack` and a second
publication.  `change_user` is `Change`, `Move`, `ChangeWrite`, `ChangeBack`;
`remove_user` is `Remove`, `SetAside`, `Unlink`, `Rmtree`.  `Login` is GODDESS opening the
home of the credential's user; without one the start ends in `fatalhold`, which is no step.

A call that replaces a file and then syncs its directory may fail after its effect: a
failed `reserve` may have counted the attempt, a failed `success` may have dropped the
entry, a failed write may have replaced the credential.  `change_user` and
`remove_user` sync their renames; a sync that fails after the rename leaves the home
under its new name with nothing to undo it (`moved` is set after the sync).  The
handler's rename is not synced at all (`Cached`), so a power cut may keep the new
credential and lose the rename; `Writeback` is the kernel's own.

`halfdone` marks what the code cannot repair: an update cut between two calls, an undo
that failed, two updates at once, a migration that writes a hash read before an update,
`change_user` or `remove_user` ended by a sync after their rename, `change_user` whose
credential was replaced but whose directory sync failed (it renames the home back), and a
power cut that took a rename not synced.  The credential may then name a user without a
home, and the next boot holds.  `CredentialNamesHome` excuses these, `FilesNeverLost`
does not.

A credential whose directory sync failed is taken to be the old or the new one at once,
although a later power cut would decide; either way the update is undone or `halfdone`.
The clock is not set back, there is one quarantine at a time, and files are kept only in
a home that has reached the drive.

### GoddessSupervise and GoddessPower

`GoddessSupervise` is the loop of `supervise`: `todo` are the tasks a round has yet to
look at, `svc` the entries of `TASKS` with the failure counters, `times` a history of
restarts.  For the task at the head of `todo` one of `ScanUp`, `ScanFatal`, `ScanSkip`,
`ScanRestart`, `ScanStartFails` is taken; a restarted window server is waited for
(`Hello`) and takes expanse down with it.  `Reap` is `sigchldhandler`, which collects a
service that ended since its `poll()`; its exit status is then read as 0 and a graphics
failure goes unseen.  Services end (`Exit`) and time passes (`Tick`) between any two.

`GoddessPower` has a round of supervision as one step, and between two rounds a power
request: `Accept`, `Refuse`, `ArmFails`, or `AcceptUnanswered` when its client gave up
(`Timeout`).  `Fatal` is `operationalfatal`; `Stop`, `Session`, `Services`, `Storage`,
`Stragglers`, `Display`, `Handoff`, `Kernel` are the stages of `shutdownsequence`.  A stage
lists what it will stop once (`List`: its services, and any of the processes others
started as their descendants), and then signals what it listed (`Stage`), of which any may
outlive SIGKILL.  Any process that is not being killed may start another at any time
(`Fork`), the window server and the stragglers too.  `late` is what was started after
`stopstragglers` listed the descendants of GODDESS: nothing signals it, unless the display
stage happens to list it as a descendant of the window server, so `GateAfterServices`
leaves it out.
One listing is assumed to see the process tree of one moment.

### Rubbish

`tree` is what the paths hold, `payload` what is in `/.rubbish/<id>/content`, `index` is
`index.txt` (its first line and the set of rows after it), `th` the program points and
copies of the programs.  A file is one version of what a path held, so a path can have
several in the rubbish and a new one in its place (`Create`).  `storeone` is `Store` (the
directory), `StoreMove` and `AppendRow`; restoring is `Restore` (the look at the path),
`RestoreMove`, which replaces whatever is there by then, `Truncate` and `Rewrite`, since
the index is opened for writing before it is written.  brick empties with
`rubbish.emptyrubbish`: `EmptyAll`, `EmptyOne`, `EmptyDone`, over the rows it read, with
removals whose errors are ignored.  Array has a function of the same name that hides the
imported one: `ClearAll`, `ClearOne`, `ClearDone` over the directories there are, listed
or not, after which it writes the first line of the index alone.  One entry is destroyed
by `DestroyNamed` or `DestroyItem`, `DestroyOne` and `Reread`.  Any call may be refused
(`MoveFails`) or the last of its program (`Stop`).  The rows are a set: loops take
them in any order, which includes the file's.

Without a lock the index does lose rows, and nothing in the code promises that it does
not; what must hold is that no file is lost (`NothingIsLost`), and that undisturbed
operations keep the index exact (`ListedIsStored`).  The code does lose a file in two
races, and the property names exactly these: the path of a restore is taken, by another
restore or a new file, between its look and its move, and the move overwrites what is
there (`taken`); and Array's emptying lists the directory of a store whose file is moved
in after the listing and before the removal (`late`).  The histories record the file only
when it is lost in that way.

## Runs

| Run | Result | Shows |
|---|---|---|
| `wal_cuts` | pass | three transactions, three power cuts, plans with disjoint entries: atomic, accepted by their own recovery, and a recovery that was started completes unless a further fault stops it |
| `wal_errors` | pass | all plan shapes and reported I/O errors with the in-process rollback: still atomic, undo images still cover |
| `wal_restart` | violation | a plan of only the two restart pages has a one-entry prefix that the loader rejects |
| `angel_console` | pass | any two authentications and any two faults, with an operator who may change his mind at every menu: destructive work is granted and resumable, a journal is cleared only when its action is done, and no half-replaced system is started unless another action overwrote the journal |
| `angel_switch` | violation | a python repair chosen after an interrupted reinstall overwrites and then clears its journal; the half-erased system starts |
| `operations` | pass | a request thread against the accept loop, a pid used twice, a crash and a checkpoint that cannot be written: nothing answered is forgotten, a restart recovers exactly the live operations, dead ones always leave the registry |
| `operations_pair` | pass | two pids and a full `COMPLETED`: one record per pid, nothing forgotten, early readiness kept |
| `account` | pass | two threads and the command, failing calls and a power cut: files never lost, credential, home and session in step, clock readings of attempts spaced by growing delays |
| `supervise` | pass | services that end at any time: no storm of restarts, and the desktop comes back or the machine restarts |
| `power` | pass | clients that give up, processes that will not die or start others: an answered request is carried out by the right kernel call, after everything that the last listing could see has stopped |
| `power_refusal` | violation | a request accepted after its client gave up is not carried out, and every later one is refused with `power transition already in progress` |
| `rubbish` | pass | two programs without a lock on two paths, one of them ended anywhere: no file is lost outside the two races, and undisturbed operations keep the index exact |

### Disagreements

Three runs expect a violation.  `wal_restart` is a refusal: recovery stops instead of
finishing, and the volume keeps its journal.  In `angel_switch` a half-erased system is
started as if it were whole.  In `power_refusal` `receivepowerrequest` sets
`SYSTEMSTATE` before it answers; the failing answer is caught in `pollpowerrequest`,
which returns no action, so that the state says a transition is under way and none is.

Four more claims of the documents are stated in the modules and refuted by TLC on the
same instances, but are not among the runs:

* `NewerKeepsPrefix` (`RootHealthWAL`, reported errors): a failed `APPLYING` publish
  followed by rollback leaves a `ROLLBACK` header with another entry count than the
  durable header before it;
* `CommittedIsRecognised` (`PlansOverlap`): a committed transaction with two index-bitmap
  entries in one sector is not recognised as committed;
* `TouchedPrefixLeads` (`PlansChain`): a rollback interrupted twice produces the image
  order that recovery calls impossible;
* `JournaledIsResumable` (`AngelRecovery`): a cut between the removal of the continuation
  record and of the journal leaves a finished reinstall journaled with nothing that could
  authorize it.

A record that a fault kept from being consumed authorizes the same action again, never
another one (`DestructionIsGranted`).

None of the journal's breaks atomicity (`wal_errors` includes all of these shapes and
`RepairIsAtomic`, which is also proved).  `wal_cuts` checks `NeverRefused` and
`RecoveryCompletes` over the plans that avoid the three shapes, without reported errors.

### Bounds

Journal.  `MaxTx` 3 lets a transaction follow one that committed and one that was
rolled back; `MaxFaults` 3 allows a cut in the repair, one in its recovery and
one in the recovery of that; `MaxEntries` 4 holds a mirrored pair, a record and a
bitmap sector.  Three contents are needed for an old, an intermediate and a new
image of one sector.  The initial volumes differ in the dirty flag and in one
damaged record.

Angel.  Four leaves (the python runtime, the rest of the software, the build software
and the top-level boot directory, which a reinstall does not verify) and reset as a list
of three items, one of them with two leaves: enough for a nested restore and for a cut
between two items.  `MaxGrants` 2 gives
every mix of a Settings and a console authentication, `MaxFaults` 2 a fault and a
cut in its recovery, or two failing commands in one run.  Three boot identities,
interchangeable, cover the current boot and those of two records or of a record and the
request; should all be taken a boot waits for a record to expire.

Operations.  The races are between two threads about one pid, so one worker besides the
accept loop and one pid with two processes in turn show them, with a crash and a failing
checkpoint (`operations`).  Two pids are needed for the limit of `COMPLETED` and for
sweeps that look at one pid while another changes (`operations_pair`, without crashes).
Larger instances pass as well: two pids with a crash (7.3 million states), and two
workers besides the accept loop with one pid and a crash (5.3 million).

Account.  Two users are an old and a new name, two passwords a right and a wrong one; two
faults are a failing call and a failing undo.  Requests are bounded by weight, so that two
changes of the account or three verifications of a password fit (`MaxRequests` 7): two
changes give every overlap of a pair, and three attempts let the delay grow from one tick
to two and reach its cap, in a clock of four values.  For longer sequences of attempts
there is the theorem `Spaced`, for all values.

Supervision.  `RestartLimit` 2 and a window of one tick in three make a window end, a
new one begin and the reset for a healthy service happen.

Power.  The three services that are named, two processes that others start (one that is
listed and one that is late), two clients: one whose request is answered and one that gives
up.  Instances with a fourth service and one stray, or with two strays and one client, pass as well.

Rubbish.  Two programs, two files, two paths and two identifiers, with one operation cut
off: two versions of one path, a restore against a new file and a store against an
emptying all occur.

Deadlock is checked except in `account`, `supervise` and `power`, where requests, time
or the machine come to an end.

### Fairness

Journal: `FairSpec` is `WF_vars(Run)`: a started tool goes on.  Nobody is assumed to
start it: the boot script runs only `--boot-repair`, which leaves a journal that is not
`EMPTY` alone, and `--repair` is started by hand on a volume that is not in use.
`RecoveryCompletes` therefore speaks of a recovery that was started: it ends with an
`EMPTY` journal or is stopped by one more fault, however many faults came before.  No
liveness is claimed for Angel: its progress depends on an operator, and nothing makes
him answer.

Operations: threads run on (weak fairness of `Serve`), a thread waiting for
`STATEWRITELOCK` gets it at some time though others take it in between (strong fairness
of `SaveSnapshot`; each holder releases it after one write), the accept loop wakes up
regularly and sweeps, and GODDESS restarts a server that ended.  No client is assumed
to ask anything.  GODDESS: it is one thread that runs on, and time passes; services are
not assumed to end or to stay.  Its waits are all bounded in the code.  The clock of the
instance is bounded, so windows cannot renew for ever: `DesktopComesBack` says that every
critical service is up at some moment, or the machine restarts, not that it stays up.

## Proofs

### RootHealthWAL

All proofs are for arbitrary `Targets`, `Contents`, `Plans`, `Mirror` and bounds
under the named assumptions `MirrorAssumption`, `WalAssumption` and
`InvalidAssumption`.

`UndoCoversWrites` and `CommittedIsWhole` are not inductive.  The inductive
invariant `IInv` of `RootHealthWALProofs` is the conjunction of

* `TypeOK`;
* `AwayInv`: with no process running, the newest durable header can be trusted
  (`Good`): a transaction in doubt has its prefix journaled, with the payloads
  the plan recorded, and accounts for every difference from `base`; a committed
  one is on the device completely;
* `SelectedInv`: a running process holds a trustworthy header that, but for a
  failed publish, is the newest one, and its memory is that header or one entry
  ahead of it;
* `FailingInv`: on an error path the failed publish may have reached the device,
  so two headers must be trustworthy at once;
* `CommitInv`: in the commit loop the device holds exactly the plan's first entries;
* `RestoreInv`: in rollback a target that no remaining entry names has its old
  image back.

The last two are what makes the argument go through: `Restore` may overwrite a
target with an intermediate image, which is only safe because an earlier entry of
the same target is still below the cursor.

`RootHealthWALRefinement` maps `vol` to the volume a later boot gets (`base` when
the newest header leaves a transaction in doubt, `disk` otherwise) and `prev` to
the volume before a transaction that is committed but not yet accepted.  Publishing
`COMMITTED` is the abstract `Commit`, publishing `EMPTY` after it is `Accept`,
publishing `ROLLBACK` over it is `Revert`, everything else stutters.

Two more theorems are about what recovery accepts, and have hypotheses that the
code needs.

`PairIsAlwaysAccepted` assumes `~IOErrors`: power may be cut at any step, but no write
or flush reports a failure.  After a reported failure the process lives on and rolls
back from a superblock it could not verify, which is another matter (`wal_errors`).
`PairInv`: while a process runs, the superblock it selected is the last one published
and the other is its predecessor, a copy of it, or damaged (`Follows`); the next
publish goes to that other slot, so a publish cut in the middle always leaves the
selected one.  A `PREPARING` header names no entry yet (`Fresh`), which the transition
rule asks for.

`PlainPlansNeverRefused` also assumes `PlainPlans`: the targets of a plan are all
different, and native replay stands on its own and does not begin with a restart page.
It cannot be had without them.  The loader asks a prefix of the journal for the shape it
asks of a whole plan, and a prefix of other plans need not have it (`wal_restart`), and
the scan for the entries already written takes the image of a later entry of the same
target for that of an earlier one.  `PlansDisjoint`, with which `wal_cuts` runs, are
plain plans.  The proof has a part about plans alone, and a part about the journal:
every nonempty prefix of a plain plan has the shape `rh_wal_load_entries` asks for
(`CutShape`, from `CutOrder` and `CutMirrorPairs`); and `RefusalInv` says that every
superblock has a plan that passed `rh_wal_prepare_plan`, that the entries on the device
are a leading part of the plan, and that a committed plan is still described.

Theorems: `TypeCorrect`, `InductiveInvariant`, `UndoAlwaysCovers`,
`CommittedAlwaysWhole`, `PairIsAlwaysAccepted`, `PlainPlansNeverRefused`,
`JournalIsAtomic`.

### AngelRecovery

Proved for every set of leaves, every assignment of items to actions, any set of
boot identities and any number of faults and authentications, from
`AngelAssumption` and `NoneAssumption`.  None of the properties is inductive.  The
invariant `IInv` of `AngelRecoveryProofs` is

* `TypeOK`;
* `AuthInv`: whatever can authorize (a record, the continuation, the digest being
  turned into one) stands for an authentication of that action, and from
  `prepare` on journal, continuation and shell variables agree;
* `ErasedInv`: once the credential is gone only a reinstall is under way and its
  continuation is there, or everything is already in place: this is what carries
  `UnfinishedIsResumable` over the erasure of the credential;
* `ProgressInv`: the items before the current one are restored, up to leaves that
  the current item is about to replace again, and the pass ends with the whole
  scope restored;
* `WholeInv`: unless a journal was overwritten, only leaves in the scope of the
  journaled action can be torn.

There is one lemma per action.  Theorems: `AngelTypeCorrect`,
`DestructionAlwaysGranted`, `UnfinishedAlwaysResumable`, `NormalBootAlwaysWhole`,
`JournalAlwaysClearedWhenDone`.

### OperationsRegistry

For any pids, worker threads, `KEEP`, number of processes, crashes and failing
checkpoints, from `RegistryAssumption` and `NoneAssumption`.  The invariants build on
each other:

* `TypeInv`: the types, with what each program point needs of its locals (`LocalOK`);
* `RecordsHold`: no pid is both active and completed, and the ages of `COMPLETED` are
  all different.  `EndedFacts` shows by counting that moving a set of pids to
  `COMPLETED` keeps them so.  This gives `RegistryOneRecordPerPid`;
* `LockHolds` and `AgreeHolds`: exactly the holder of the write lock is writing, and as
  long as no checkpoint failed and no thread is about to take a copy, the last copy taken
  (the one being written, or the one on disk) agrees with the registry about the
  processes that are running.  With `GivenHolds` (every process
  named anywhere has been started) this gives `RegistryRestartRecovers`;
* `NamesHold`: wherever a pid stands with a process, in memory, in a thread's locals or
  on disk, it is the last process that had the pid;
* `SweepsHold`: no sweep is about to complete a tracked process that is alive: what it
  looked at before taking the lock still holds when it has it;
* `KindsHold`, `HeldHolds`, `DiskHolds`: a process whose start was answered, or is about
  to be, has its entry in memory, in the checkpoint and in every copy that will be
  written to it.  `RegistryInv` is all of these; it gives `RegistryNeverForgotten`;
* `EdgeHolds`: a process that was ready before its entry is remembered in
  `READYPENDING` until it has the entry, which then is not starting, unless the edge
  expired first, with which it leaves the history; and no second
  request registers it again (`RequestsHold`).  With `RegistryInv` it gives `RegistryReadyIsKept`.

The last two theorems assume `~AnyReuse`: the kernel does not give out a pid that the
registry still knows.  Without that they are false, since the server identifies a
process by its pid alone between the look at the kernel and the change of the registry;
that is the hazard at `recorddone`.  The first three are proved without it.
`RegistryNeverForgotten` is, as the property, about histories in which every checkpoint
could be written.

The steps of a thread fall into classes (`Thinking`: only its locals change; `Acting`:
one entry of the registry does; then launches, sweeps, saves and restarts), and each
invariant has one lemma per class.

### Account

For all users, passwords, threads, delays and bounds, from `AccountAssumption` and
`NoneAssumption`.

* `Spaced`: `LimiterHolds` says that the limiter's entry of a user and scope is that of
  the attempts counted: it has their number, up to the cap, and ends `Delay` after the
  reading of the last.  `ClocksHold` says that no thread holds a reading of the future.  An
  attempt that is counted is so with a reading at or after that end, whenever it was taken;
  entry and history change in one step, also when the write fails after its effect or
  `success` fails after dropping the entry.  The theorem is about readings: an attempt
  that waited for the lock may be checked right before the next.
* `FilesSafe`: `HomesHold` says it of everything the drive may hold, not only of `home`: a
  rename keeps the files in whichever of the two states reaches the drive (`RenameKeeps`);
  its target is free, which its step checks or the rename it undoes has left so, and
  `Rmtree` comes only after `Unlink`.
* `CredentialSafe`: `CredentialHolds` says for every program point of an update, of the
  command and of the undo which name the credential has and where the home is
  (`UpdateOK`, `CommandOK`), given `Alone`: threads work while the desktop is on, the
  command while it is off.
* `TypeCorrect`, with what each program point needs of its locals (`LocalOK`).

### GoddessSupervise

`NoRestartStorm` is about the last `2 * RestartLimit` restarts, the counter only about
the current window.  The invariant `RestartsHold` ties them together: the last `r`
restarts fell in the current window, in which the service failed `f >= r` times, those
before it were not later than its beginning, and `RestartLimit` of them reach back
further than one window (`Window`); after a reset the last window is over.  So every
step of `ScanRestart` either opens a window or has fewer than `RestartLimit` restarts in
it, and `2 * RestartLimit` of them span one whole window.  Proved for every order of
tasks, limit and window with `HealthyReset > RestartWindow`, as in the code.  Theorems:
`TypeCorrect`, `StormSafe`.

### GoddessPower

`GateSafe`: `StagesHold` says that once `stopstragglers` has listed, everything alive is
listed, `late` or the window server; that after it everything alive outlived SIGKILL, is
`late` or is the window server; and after the display stage not even that.  Processes that
fork in an earlier stage are caught by this listing, those that fork later are `late`.  `AnswerSafe`: `AnswerHolds` says that an answered client's
action is the one the sequence runs with, and that the gate is missing only after a
fault.  Both for every set of tasks, of clients, and both hand-over modes.  Theorems:
`TypeCorrect`, `GateSafe`, `AnswerSafe`.

### Rubbish

`NothingIsLost` needs what the programs may rely on between two of their calls.  `Fits`
says that a row anywhere (in the index or in a copy) has an identifier whose store is over,
and whose file, if it is still there, was made at the row's path.  `Sound` says of a
program that its rows fit, that what it is going to remove it found in the rubbish or came
late, and that the path it is going to restore to is free or was taken since it looked;
`Filling` that a store has a directory of its own, without a file; `DiskHolds` the same
of the index, and that what is yet to come is nowhere.  Two programs do act on one
identifier; the proof does not exclude that but shows that the second finds the file gone.

`ListedIsStored` speaks of the moments when no program is at work and no operation was
cut or overlapped.  `Alone` carries it through an operation: as long as nothing was
disturbed one program at most is at work, and `Halfway` says for each of its program
points how the index, its copy of the rows and the files in the rubbish differ: by the
row still to be added, by the row whose file has been taken out, or by the rows that
wait in the loop.

Proved for every number of programs, files, paths and identifiers.  Theorems: `TypeCorrect`,
`NeverLost`, `ListsWhatIsStored`.

### What is only model-checked

Every invariant and every action property of the passing runs is proved, for all values
of the constants that the theorem's hypotheses allow.  Liveness is left to TLC:
`RecoveryCompletes`, `DeadIsPruned`, `DesktopComesBack` and `AnsweredIsCarriedOut`.
Liveness under fairness and `ENABLED`, induction over data and RECURSIVE operators are
beyond the prover.

## Not modelled

* how the journal file is found on the volume, and the bytes of its layout;
* verifiers, censuses and native log replay: sequential computations over NTFS
  metadata, replaced by an arbitrary plan;
* `--boot-repair`, which rewrites redundant copies without the journal and refuses a volume
  whose journal is not `EMPTY`;
* decay of bytes that were once durable;
* how Angel mounts and verifies the recovery image, what it diagnoses and
  recommends, the arithmetic of the password check and the wait after a wrong one;
* GODDESS before `birth` and its device set-up, the Operations server's catalogue,
  sandbox and other settings requests, the broker's service secrets;
* exchange: one thread over one `select` loop, whose state is a table of clients.  It
  truncates its state file and then writes it, and its client drops events that arrive
  together; both are visible in the source, and it shares no state with the modelled
  parts;
* pid reuse within one sweep (`AnyReuse`);
* `purgerubbish`, which nothing calls; moves between file systems (a copy and a removal),
  tiers of files in the rubbish, and rows that two writers' texts cut, which are taken to be
  skipped by the readers;
* `createuserdirs` of `startup.py`, which nothing calls;
* the window, graphics, input, audio, driver and network servers, the editors and other
  user programs, which are most of the repository's lines: rendering, device I/O and
  user interfaces of single processes.  What they share is the state of the modelled
  services.

## Plan

1. `RootHealthWAL` and its proofs (done).
2. `AngelRecovery` and its proofs (done).
3. `Account`, `GoddessSupervise`, `GoddessPower`, `Rubbish` and their proofs (done).
4. `OperationsRegistry` and its proofs (done).
5. `Exchange`: ownership of the clipboard.
6. `RecoveryDiagnosis`: Angel's recommendation as a pure function against the set of
   damaged parts.
7. `BootRepair`: direct writes of redundant copies, cut at any point.
