---------------------------- MODULE AngelRecovery ----------------------------
(* Angel's recovery actions (source/entry/init/angel recovery.sh) across power  *)
(* cuts, failing commands and an operator at the console, with the boot choice  *)
(* of init hardware.sh and the way Settings asks for an action (broker.py,      *)
(* GODDESS.py).                                                                 *)
(*                                                                              *)
(* The installed system is a set of leaf directories.  An item of an action is  *)
(* the set of leaves below the directory it restores, so that the items of      *)
(* reset contain those of the python repair.  A leaf is good (as in the         *)
(* recovery image), other (installed, but different), partial or absent.        *)
(* Renames, removals and synced writes reach the drive in program order.  The   *)
(* recovery image, the boot partition and the root are available and admitted,  *)
(* developer mode is off, and the journal's phase, which nothing reads, is      *)
(* left out.                                                                    *)
EXTENDS Naturals, Sequences, FiniteSets

CONSTANTS Leaves,     \* directories of the installed system
          Vital,      \* the leaves verify_t1os_root looks into
          Checked,    \* the leaves below `the one`; a reinstall verifies no others
          Items,      \* tree action -> sequence of sets of leaves
          BootIds,    \* kernel boot identities
          NoBoot, None,
          MaxGrants,  \* bound: authentications of a destructive action
          MaxFaults   \* bound: power cuts and failing commands

Destructive == {"reset", "reinstall"}
TreeActions == {"python", "build", "reset"}
Actions == TreeActions \cup {"reinstall"}

ASSUME AngelAssumption ==
    /\ Vital \subseteq Leaves /\ Checked \subseteq Leaves
    /\ Items \in [TreeActions -> Seq(SUBSET Leaves) \ {<<>>}]
    /\ NoBoot \notin BootIds
    /\ MaxGrants \in Nat /\ MaxFaults \in Nat

Digest == 0 .. MaxGrants       \* 0: none
LeafState == {"good", "other", "partial", "absent"}
Transaction == [action : Actions, digest : Digest]
Record == [digest : Digest, action : Destructive, origin : BootIds \cup {NoBoot}]
Request == [action : Actions, digest : Digest, origin : BootIds]
Previous == UNION {[S -> LeafState] : S \in SUBSET Leaves}

ASSUME NoneAssumption ==
    None \notin Transaction \cup Request \cup Previous \cup Actions

VARIABLES
    request, journal, marker,     \* T1OS/ on the boot partition; of the normal-boot marker
                                  \* only that it is there
    cont,                         \* .angel-recovery-authorization
    records,                      \* the one/master/recovery authorizations
    cred,                         \* the one/master/master.txt is there
    user,                         \* the user's files
    tree,                         \* leaf -> LeafState
    prev,                         \* .NAME.angel-previous as this run made it: one that an
                                  \* earlier run left is removed before it could be read
    pc, act, src,                 \* program point, $action, $angel_selection_source
    dig, org,                     \* angel_request_authorization_digest, .._origin_boot_id
    pend, settings,               \* $digest and $authorized_from_settings
    idx,                          \* items restored so far
    boot,                         \* boot identity of this boot
    grants,                       \* history: digest -> action authenticated
    replaced,                     \* history: a journal was overwritten by another action
    faults

esp == <<request, journal, marker>>
auth == <<cont, records, cred, grants>>
files == <<user, tree>>
shell == <<act, src, dig, org, pend, settings, idx, prev>>
vars == <<esp, auth, files, pc, shell, boot, replaced, faults>>

PCs == {"off", "normal", "arming", "menu", "confirm", "authorize", "continuation",
        "consume", "authorized", "prepare", "stage", "aside", "movein", "verify",
        "erase", "install", "check", "uncontinue", "clearrequest", "clearjournal",
        "arm"}

DriveOK ==
    /\ request \in Request \cup {None}
    /\ journal \in Transaction \cup {None}
    /\ marker \in {"armed", None}
    /\ cont \in Transaction \cup {None}
    /\ records \subseteq Record
    /\ user \in {"kept", "partly", "gone"}
    /\ tree \in [Leaves -> LeafState]

ShellOK ==
    /\ pc \in PCs
    /\ act \in Actions \cup {None}
    /\ src \in {"none", "journal", "settings"}
    /\ dig \in Digest /\ pend \in Digest
    /\ org \in BootIds \cup {NoBoot}
    /\ idx \in Nat
    /\ prev \in Previous \cup {None}

HistoryOK ==
    /\ boot \in BootIds
    /\ grants \in Seq(Destructive) /\ Len(grants) <= MaxGrants
    /\ faults \in 0 .. MaxFaults

FlagsOK == cred \in BOOLEAN /\ settings \in BOOLEAN /\ replaced \in BOOLEAN

(* The files on the drive, the shell's variables and the history keep their      *)
(* types.                                                                        *)
TypeOK == DriveOK /\ ShellOK /\ HistoryOK /\ FlagsOK

Init ==
    /\ request = None /\ journal = None /\ marker = None
    /\ cont = None /\ records = {} /\ cred = TRUE
    /\ user = "kept"
    /\ tree \in [Leaves -> {"good", "other"}]
    /\ prev = None
    /\ pc = "off" /\ act = None /\ src = "none" /\ dig = 0 /\ org = NoBoot
    /\ pend = 0 /\ settings = FALSE /\ idx = 0
    /\ boot \in BootIds
    /\ grants = <<>> /\ replaced = FALSE /\ faults = 0

(* The machine restarts, powers off or loses power: what only the shell knew is  *)
(* forgotten.                                                                    *)
ShellGone ==
    /\ pc' = "off" /\ act' = None /\ src' = "none" /\ dig' = 0 /\ org' = NoBoot
    /\ pend' = 0 /\ settings' = FALSE /\ idx' = 0 /\ prev' = None

Fault == faults < MaxFaults /\ faults' = faults + 1
NoFault == UNCHANGED faults

(* The action returns and the menu is shown.  What its functions kept in          *)
(* variables of their own is dead; the digest and the origin live on.            *)
BackToMenu ==
    /\ pc' = "menu" /\ act' = None
    /\ pend' = 0 /\ settings' = FALSE /\ idx' = 0 /\ prev' = None
    /\ UNCHANGED <<src, dig, org>>

(* A command fails.                                                              *)
Fails == Fault /\ BackToMenu

Goto(p) == pc' = p /\ UNCHANGED shell /\ NoFault

-------------------------------------------------------------------------------
(* Booting (init hardware.sh).                                                   *)

(* The identities a new boot can have: /proc/sys/kernel/random/boot_id is fresh. *)
FreshBoot == {b \in BootIds : /\ b # boot
                              /\ \A r \in records : r.origin # b
                              /\ request = None \/ request.origin # b}

(* verify_t1os_root looks for some files of the vital directories only.          *)
MayVerify == \A l \in Vital : tree[l] # "absent"

(* angel_read_journal, and angel_recovery_main with an interrupted action.       *)
BootJournal ==
    /\ pc = "off" /\ journal # None
    /\ boot' \in FreshBoot
    /\ pc' = "confirm" /\ act' = journal.action /\ src' = "journal"
    /\ dig' = journal.digest
    /\ UNCHANGED <<esp, auth, files, org, pend, settings, idx, prev, replaced, faults>>

(* angel_read_request, and angel_recovery_main with the action Settings chose.   *)
BootRequest ==
    /\ pc = "off" /\ journal = None /\ request # None
    /\ boot' \in FreshBoot
    /\ pc' = "confirm" /\ act' = request.action /\ src' = "settings"
    /\ dig' = request.digest /\ org' = request.origin
    /\ UNCHANGED <<esp, auth, files, pend, settings, idx, prev, replaced, faults>>

(* Mutant: a root that verifies is started, whatever the journal says.           *)
BootIfVerified ==
    /\ pc = "off" /\ MayVerify
    /\ boot' \in FreshBoot
    /\ pc' = "normal"
    /\ UNCHANGED <<esp, auth, files, shell, replaced, faults>>

(* No action is recorded: GODDESS starts, or recovery was chosen in the boot     *)
(* menu, or verify_t1os_root failed and rescue shows the recovery menu.          *)
BootPlain ==
    /\ pc = "off" /\ journal = None /\ request = None
    /\ boot' \in FreshBoot
    /\ marker' = None
    /\ \/ MayVerify /\ pc' = "normal"
       \/ pc' = "menu"
    /\ UNCHANGED <<request, journal, auth, files, shell, replaced, faults>>

-------------------------------------------------------------------------------
(* The running system.                                                           *)

(* issue_recovery_authorization after the master password was accepted.          *)
IssueRecord(a) ==
    /\ pc = "normal" /\ cred /\ a \in Destructive
    /\ Len(grants) < MaxGrants
    /\ grants' = Append(grants, a)
    /\ records' = records \cup
          {[digest |-> Len(grants) + 1, action |-> a, origin |-> NoBoot]}
    /\ pc' = "arming" /\ act' = a /\ pend' = Len(grants) + 1
    /\ UNCHANGED <<esp, cont, cred, files, src, dig, org, settings, idx, prev, boot,
                   replaced, faults>>

(* The power request reaches GODDESS: the record is bound to this boot and the   *)
(* request armed; then the system restarts.  When either write fails the system  *)
(* goes on, although the write may have come through.                            *)
ArmRequest ==
    /\ pc = "arming"
    /\ \E r \in records :
          /\ r.digest = pend /\ r.action = act /\ r.origin = NoBoot
          /\ LET bound == (records \ {r}) \cup {[r EXCEPT !.origin = boot]}
                 armed == [action |-> act, digest |-> pend, origin |-> boot]
             IN  \/ records' = bound /\ request' = armed /\ ShellGone /\ NoFault
                 \/ /\ Fault
                    /\ \/ records' = records /\ UNCHANGED request
                       \/ records' = bound /\ request' \in {request, armed}
                    /\ pc' = "normal" /\ act' = None /\ pend' = 0
                    /\ UNCHANGED <<src, dig, org, settings, idx, prev>>
    /\ UNCHANGED <<journal, marker, cont, cred, grants, files, boot, replaced>>

(* The record expired before GODDESS validated it.                               *)
ArmRefused ==
    /\ pc = "arming"
    /\ \A r \in records : r.digest # pend
    /\ pc' = "normal" /\ act' = None /\ pend' = 0
    /\ UNCHANGED <<esp, auth, files, src, dig, org, settings, idx, prev, boot,
                   replaced, faults>>

(* A repair that needs no authorization is armed with an empty digest.           *)
ArmRepair(a) ==
    /\ pc = "normal" /\ a \in Actions \ Destructive
    /\ request' = [action |-> a, digest |-> 0, origin |-> boot]
    /\ \/ ShellGone /\ NoFault
       \/ Fault /\ UNCHANGED <<pc, shell>>
    /\ UNCHANGED <<journal, marker, auth, files, boot, replaced>>

(* First-run set-up on a fresh installation.                                     *)
SetUp ==
    /\ pc = "normal" /\ ~cred
    /\ cred' = TRUE /\ user' = "kept"
    /\ UNCHANGED <<esp, cont, records, grants, tree, pc, shell, boot,
                   replaced, faults>>

(* An installed directory changes: an update, an edit, damage.                   *)
Damage(l) ==
    /\ pc = "normal" /\ tree[l] = "good"
    /\ tree' = [tree EXCEPT ![l] = "other"]
    /\ UNCHANGED <<esp, auth, user, pc, shell, boot, replaced, faults>>

(* A record's lifetime of at most 900 seconds ends.                              *)
Expire ==
    /\ \E r \in records : records' = records \ {r}
    /\ UNCHANGED <<esp, cont, cred, grants, files, pc, shell, boot, replaced,
                   faults>>

(* The user shuts down or restarts.                                              *)
ShutDown ==
    /\ pc = "normal" /\ ShellGone
    /\ UNCHANGED <<esp, auth, files, boot, replaced, faults>>

-------------------------------------------------------------------------------
(* The recovery console.                                                         *)

(* angel_recovery_menu: an action is chosen ...                                  *)
Choose(a) ==
    /\ pc = "menu"
    /\ pc' = "confirm" /\ act' = a
    /\ UNCHANGED <<esp, auth, files, src, dig, org, pend, settings, idx, prev, boot,
                   replaced, faults>>

(* ... or restart, refused while a journal exists; a removal that fails goes      *)
(* unnoticed, a marker that cannot be written leads back to the menu ...         *)
Restart ==
    /\ pc = "menu" /\ journal = None
    /\ \/ request' = None /\ marker' = "armed" /\ ShellGone /\ NoFault
       \/ /\ Fault /\ request' \in {request, None} /\ marker' \in {marker, "armed"}
          /\ ShellGone \/ BackToMenu
    /\ UNCHANGED <<journal, auth, files, boot, replaced>>

(* ... or power off, which never is.                                             *)
PowerOff ==
    /\ pc = "menu" /\ ShellGone
    /\ UNCHANGED <<esp, auth, files, boot, replaced, faults>>

(* angel_confirm_action, and angel_require_recovery_authorization's early return *)
(* for repairs.                                                                  *)
Confirm ==
    /\ pc = "confirm"
    /\ \/ BackToMenu /\ NoFault
       \/ act \in Destructive /\ Goto("authorize")
       \/ act \notin Destructive /\ Goto("prepare")
    /\ UNCHANGED <<esp, auth, files, boot, replaced>>

(* angel_require_recovery_authorization: the digest in hand, for a journal that  *)
(* has none the one of the continuation record.                                  *)
DigestInHand ==
    IF dig = 0 /\ src = "journal" /\ cont # None THEN cont.digest ELSE dig

(* Mutant: the continuation record of another action will do.                    *)
ContinuationOfAny(d) == d # 0 /\ cont # None /\ cont.digest = d

(* angel_validate_continuation.                                                  *)
ContinuationValid(d) == d # 0 /\ cont = [action |-> act, digest |-> d]

(* angel_validate_recovery_record, and the checks of the origin before it.       *)
RecordValid(d) ==
    /\ org # NoBoot /\ org # boot
    /\ [digest |-> d, action |-> act, origin |-> org] \in records

(* A matching continuation record resumes the interrupted action; a record       *)
(* Settings left authorizes it; otherwise the operator is asked for the master   *)
(* password, and a wrong one or a missing credential leads back to the menu.     *)
Authorize ==
    /\ pc = "authorize"
    /\ LET d == DigestInHand
       IN  \/ /\ ContinuationValid(d)
              /\ dig' = d /\ pc' = "prepare"
              /\ UNCHANGED <<act, src, org, pend, settings, idx, prev, grants>>
           \/ /\ ~ContinuationValid(d) /\ RecordValid(d)
              /\ pend' = d /\ settings' = TRUE /\ pc' = "continuation"
              /\ UNCHANGED <<act, src, dig, org, idx, prev, grants>>
           \/ /\ ~ContinuationValid(d) /\ ~RecordValid(d)
              /\ cred /\ Len(grants) < MaxGrants
              /\ grants' = Append(grants, act)
              /\ pend' = Len(grants) + 1 /\ settings' = FALSE
              /\ pc' = "continuation"
              /\ UNCHANGED <<act, src, dig, org, idx, prev>>
           \/ /\ ~ContinuationValid(d) /\ ~RecordValid(d)
              /\ BackToMenu /\ UNCHANGED grants
    /\ UNCHANGED <<esp, cont, records, cred, files, boot, replaced, faults>>

(* angel_write_continuation: temporary file, rename, sync, read back.            *)
WriteContinuation ==
    /\ pc = "continuation"
    /\ \/ /\ cont' = [action |-> act, digest |-> pend]
          /\ Goto(IF settings THEN "consume" ELSE "authorized")
       \/ /\ cont' \in {cont, [action |-> act, digest |-> pend]} /\ Fails
    /\ UNCHANGED <<esp, records, cred, grants, files, boot, replaced>>

(* The Settings record is removed; if that fails the continuation is to go too.  *)
ConsumeRecord ==
    /\ pc = "consume"
    /\ LET left == {r \in records : r.digest # pend}
       IN  \/ records' = left /\ Goto("authorized") /\ UNCHANGED cont
           \/ records' \in {records, left} /\ cont' \in {cont, None} /\ Fails
    /\ UNCHANGED <<esp, cred, grants, files, boot, replaced>>

(* Mutant: a digest that is not there is written, and read back, as none.        *)
JournalWriteNone(d) ==
    /\ journal' = [action |-> act, digest |-> IF d = 0 THEN None ELSE d]
    /\ replaced' = (replaced \/ (journal # None /\ journal.action # act))

(* angel_journal_write.                                                          *)
JournalWrite(d) ==
    /\ journal' = [action |-> act, digest |-> d]
    /\ replaced' = (replaced \/ (journal # None /\ journal.action # act))

JournalAuthorized ==
    /\ pc = "authorized"
    /\ dig' = pend /\ org' = NoBoot /\ pend' = 0 /\ settings' = FALSE
    /\ UNCHANGED <<src, idx, prev>>
    /\ \/ JournalWrite(pend) /\ pc' = "prepare" /\ NoFault /\ UNCHANGED act
       \/ pc' = "menu" /\ Fault /\ act' = None /\ UNCHANGED <<journal, replaced>>
    /\ UNCHANGED <<request, marker, auth, files, boot>>

(* The first journal entry of angel_repair_python, angel_repair_build,           *)
(* angel_reset_system or angel_install_fresh_root, and the remount.              *)
Prepare ==
    /\ pc = "prepare"
    /\ \/ /\ JournalWrite(dig) /\ NoFault
          /\ pc' = IF act = "reinstall" THEN "erase" ELSE "stage"
          /\ UNCHANGED shell
       \/ JournalWrite(dig) /\ Fails
       \/ UNCHANGED <<journal, replaced>> /\ Fails
    /\ UNCHANGED <<request, marker, auth, files, boot>>

-------------------------------------------------------------------------------
(* angel_restore_tree for each item of the action, with the journal entry that   *)
(* precedes it.                                                                  *)

Item == Items[act][idx + 1]

(* The tree below the item after every leaf got the state f gives it.            *)
Below(f) == [l \in Leaves |-> IF l \in DOMAIN f THEN f[l] ELSE tree[l]]
All(v) == [l \in Item |-> v]

(* The copy is staged and the previous tree of an earlier attempt removed.       *)
StageCopy ==
    /\ pc = "stage"
    /\ Goto("aside") \/ Fails
    /\ UNCHANGED <<esp, auth, files, boot, replaced>>

MoveAside ==
    /\ pc = "aside"
    /\ \/ /\ \A l \in Item : tree[l] = "absent"
          /\ Goto("movein") /\ UNCHANGED tree
       \/ /\ \E l \in Item : tree[l] # "absent"
          /\ prev' = [l \in Item |-> tree[l]]
          /\ tree' = Below(All("absent"))
          /\ pc' = "movein" /\ NoFault
          /\ UNCHANGED <<act, src, dig, org, pend, settings, idx>>
       \/ (\E l \in Item : tree[l] # "absent") /\ Fails /\ UNCHANGED tree
    /\ UNCHANGED <<esp, auth, user, boot, replaced>>

(* Back to the menu with the previous tree moved back, where there is one and    *)
(* the rename succeeds.                                                          *)
PutBack(gone) ==
    /\ BackToMenu
    /\ \/ prev # None /\ tree' = Below(prev)
       \/ tree' = gone

(* A copy that went wrong is installed too; the verification finds it.           *)
MoveIn ==
    /\ pc = "movein"
    /\ \/ tree' = Below(All("good")) /\ Goto("verify")
       \/ /\ tree' = Below(All("other"))
          /\ pc' = "verify" /\ Fault /\ UNCHANGED shell
       \/ PutBack(tree) /\ Fault
    /\ UNCHANGED <<esp, auth, user, boot, replaced>>

(* Mutant: the restored tree is not compared with the manifest.                  *)
VerifyTreeSkipped ==
    /\ pc = "verify"
    /\ prev' = None /\ idx' = idx + 1 /\ NoFault
    /\ pc' = IF idx + 1 < Len(Items[act]) THEN "stage"
             ELSE IF act \in Destructive THEN "uncontinue" ELSE "clearrequest"
    /\ UNCHANGED <<act, src, dig, org, pend, settings>>
    /\ UNCHANGED <<esp, auth, user, tree, boot, replaced>>

(* angel_verify_prefix_at.                                                       *)
VerifyTree ==
    /\ pc = "verify"
    /\ \/ /\ \A l \in Item : tree[l] = "good"
          /\ prev' = None /\ idx' = idx + 1
          /\ pc' = IF idx + 1 < Len(Items[act]) THEN "stage"
                   ELSE IF act \in Destructive THEN "uncontinue" ELSE "clearrequest"
          /\ UNCHANGED <<act, src, dig, org, pend, settings, tree>>
       \/ /\ \E l \in Item : tree[l] # "good"
          /\ PutBack(Below(All("absent")))
    /\ UNCHANGED <<esp, auth, user, boot, replaced, faults>>

-------------------------------------------------------------------------------
(* angel_install_fresh_root.                                                     *)

(* Mutant: the continuation record is erased with the rest.                      *)
EraseContinuation ==
    /\ pc = "erase"
    /\ cont' = None /\ cred' = FALSE /\ records' = {} /\ user' = "gone"
    /\ tree' = [l \in Leaves |-> "absent"]
    /\ Goto("install")
    /\ UNCHANGED <<esp, grants, boot, replaced>>

(* rm and cp work on one directory at a time.                                    *)
Busy(l) == \A m \in Leaves \ {l} : tree[m] # "partial"

(* Everything but the continuation record is removed: master, then, in any       *)
(* order, what is below `the one`, the credential and the records included.      *)
Erase ==
    /\ pc = "erase"
    /\ \/ /\ user = "gone"
          /\ \E l \in Leaves :
                /\ tree[l] # "absent" /\ Busy(l)
                /\ tree' = [tree EXCEPT ![l] =
                               IF tree[l] = "partial" THEN "absent" ELSE "partial"]
          /\ Goto("erase") /\ UNCHANGED <<user, cred, records>>
       \/ /\ user # "gone"
          /\ user' = IF user = "kept" THEN "partly" ELSE "gone"
          /\ Goto("erase") /\ UNCHANGED <<tree, cred, records>>
       \/ /\ user = "gone" /\ cred
          /\ cred' = FALSE /\ records' = {}
          /\ Goto("erase") /\ UNCHANGED <<tree, user>>
       \/ /\ user = "gone" /\ ~cred /\ \A l \in Leaves : tree[l] = "absent"
          /\ Goto("install") /\ UNCHANGED <<tree, user, cred, records>>
       \/ Fails /\ UNCHANGED <<tree, user, cred, records>>
    /\ UNCHANGED <<esp, cont, grants, boot, replaced>>

(* The baseline is copied in place.                                              *)
Install ==
    /\ pc = "install"
    /\ \/ /\ \E l \in Leaves :
                \/ /\ tree[l] = "absent" /\ Busy(l)
                   /\ tree' = [tree EXCEPT ![l] = "partial"] /\ NoFault
                \/ /\ tree[l] = "partial"
                   /\ tree' = [tree EXCEPT ![l] = "good"] /\ NoFault
                \/ /\ tree[l] = "partial"
                   /\ tree' = [tree EXCEPT ![l] = "other"] /\ Fault
          /\ pc' = "install" /\ UNCHANGED shell
       \/ /\ \A l \in Leaves : tree[l] \notin {"absent", "partial"}
          /\ Goto("check") /\ UNCHANGED tree
       \/ Fails /\ UNCHANGED tree
    /\ UNCHANGED <<esp, auth, user, boot, replaced>>

(* angel_verify_prefix_at, for `the one` only: the other directories that were   *)
(* copied, boot among them, are taken as they are.                               *)
CheckInstall ==
    /\ pc = "check"
    /\ \/ (\A l \in Checked : tree[l] = "good") /\ Goto("uncontinue")
       \/ (\E l \in Checked : tree[l] # "good") /\ BackToMenu /\ NoFault
    /\ UNCHANGED <<esp, auth, files, boot, replaced>>

-------------------------------------------------------------------------------
(* angel_finish_action.                                                          *)

RemoveContinuation ==
    /\ pc = "uncontinue"
    /\ \/ /\ cont' = None
          /\ Goto("clearrequest")
       \/ Fails /\ UNCHANGED <<cont>>
    /\ UNCHANGED <<esp, records, cred, grants, files, boot, replaced>>

(* angel_journal_clear removes the request, then the journal.  A removal that    *)
(* fails goes unnoticed: the function's status is that of its sync.              *)
ClearRequest ==
    /\ pc = "clearrequest"
    /\ \/ request' = None /\ NoFault
       \/ UNCHANGED request /\ Fault
    /\ pc' = "clearjournal" /\ UNCHANGED shell
    /\ UNCHANGED <<journal, marker, auth, files, boot, replaced>>

ClearJournal ==
    /\ pc = "clearjournal"
    /\ \/ journal' = None /\ NoFault
       \/ UNCHANGED journal /\ Fault
    /\ pc' = "arm" /\ UNCHANGED shell
    /\ UNCHANGED <<request, marker, auth, files, boot, replaced>>

(* angel_arm_normal_boot, and the restart.                                       *)
ArmNormalBoot ==
    /\ pc = "arm"
    /\ \/ marker' = "armed" /\ ShellGone /\ NoFault
       \/ marker' \in {marker, "armed"} /\ Fails
    /\ UNCHANGED <<request, journal, auth, files, boot, replaced>>

-------------------------------------------------------------------------------
PowerCut ==
    /\ pc # "off" /\ Fault /\ ShellGone
    /\ UNCHANGED <<esp, auth, files, boot, replaced>>

Next ==
    \/ BootJournal \/ BootRequest \/ BootPlain
    \/ \E a \in Actions : IssueRecord(a) \/ ArmRepair(a) \/ Choose(a)
    \/ ArmRequest \/ ArmRefused \/ SetUp \/ Expire \/ ShutDown
    \/ \E l \in Leaves : Damage(l)
    \/ Restart \/ PowerOff \/ Confirm
    \/ Authorize \/ WriteContinuation \/ ConsumeRecord \/ JournalAuthorized \/ Prepare
    \/ StageCopy \/ MoveAside \/ MoveIn \/ VerifyTree
    \/ Erase \/ Install \/ CheckInstall
    \/ RemoveContinuation \/ ClearRequest \/ ClearJournal \/ ArmNormalBoot
    \/ PowerCut

Spec == Init /\ [][Next]_vars

-------------------------------------------------------------------------------
(* Properties.                                                                   *)

Whole == user # "partly" /\ \A l \in Leaves : tree[l] \in {"good", "other"}

(* GODDESS never starts on a system that a recovery action left half replaced or *)
(* half erased, unless the operator had another action overwrite the journal of  *)
(* the interrupted one.                                                          *)
NormalBootIsWhole == pc = "normal" /\ ~replaced => Whole

(* ANGEL.md: the journal lives on the boot partition "so an interrupted          *)
(* operation resumes instead of being mistaken for a completed one".             *)
InterruptedNeverMistaken == pc = "normal" => Whole

ScopeOf(a) ==
    IF a = "reinstall" THEN Leaves
    ELSE UNION {Items[a][i] : i \in 1 .. Len(Items[a])}

(* What the action has done with the leaf when it is through with it: verified   *)
(* it, or, where a reinstall does not verify, copied it to the end.              *)
Finished(a, l) ==
    \/ tree[l] = "good"
    \/ a = "reinstall" /\ l \notin Checked /\ tree[l] = "other"

(* The journaled action can be authorized again.                                 *)
Resumable == cont = journal \/ cred

(* While a reset or reinstall has files still to replace, the continuation       *)
(* record or the credential to authorize it again is there, although reinstall   *)
(* erases the credential and a cut may come anywhere.                            *)
UnfinishedIsResumable ==
    /\ journal # None /\ journal.action \in Destructive
    /\ \/ \E l \in ScopeOf(journal.action) : ~Finished(journal.action, l)
       \/ user = "partly"
    => Resumable

(* ANGEL.md: reset and reinstall keep a continuation record "so a power loss can *)
(* resume the same transaction".                                                 *)
JournaledIsResumable ==
    pc = "off" /\ journal # None /\ journal.action \in Destructive => Resumable

Working == pc \in {"stage", "aside", "movein", "verify", "erase", "install", "check",
                   "uncontinue"}

(* Destructive work runs only under an authentication given for that very        *)
(* action, through any sequence of cuts, resumptions, stale requests and changes *)
(* of mind at the menu; and only with a journal and a continuation record that   *)
(* name it, so that a cut leads back to it.                                      *)
DestructionIsGranted ==
    Working /\ act \in Destructive =>
        /\ dig \in 1 .. Len(grants) /\ grants[dig] = act
        /\ journal = [action |-> act, digest |-> dig] /\ cont = journal

(* The journal of an action is cleared only when every file in the action's      *)
(* scope has been replaced and verified, and for reinstall no user file is half  *)
(* erased: until then a cut leads back to the action.  Of a reinstall only what  *)
(* is below `the one` has been verified; the rest, boot, has been copied to the  *)
(* end, and a copy that went wrong there stays unnoticed.                        *)
JournalClearedWhenDone ==
    [][journal # None /\ journal' = None =>
          /\ \A l \in ScopeOf(journal.action) : Finished(journal.action, l)
          /\ journal.action = "reinstall" => user = "gone"]_vars
===============================================================================
