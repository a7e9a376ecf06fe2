----------------------------- MODULE RootHealthWAL -----------------------------
(* The undo journal of the roothealth NTFS repair engine: the writer's commit  *)
(* loop (roothealth_write.c), the journal backend and recovery                 *)
(* (roothealth_wal.c) and the repair process that drives them                  *)
(* (roothealth_repair_main.c, roothealth_orchestrator.c), with power cuts and  *)
(* I/O errors at every device write.                                           *)
(*                                                                             *)
(* A device write is pwrite + fsync + readback.  One that does not succeed     *)
(* leaves the old bytes, the new bytes or, if it spans sectors, a torn         *)
(* mixture; a torn header or descriptor fails its checksum, a torn image       *)
(* matches no recorded hash.                                                   *)
(* A SHA-256 is modelled by the value it is taken of.  data_used and           *)
(* target_bytes are functions of the plan and the entry count and follow it.   *)
EXTENDS RootHealthPlan, FiniteSets

CONSTANTS Garbage,     \* an image that matches no hash: torn or never written
          Invalid,     \* a header block or descriptor whose checksum fails
          Tearable,    \* targets of several sectors; one sector is written whole
          FirstVolumes,\* the volumes the tool may be given
          Plans,       \* [tx, ops] with ops a sequence of [kind, target, new]
          MaxEntries,  \* RH_WAL_MAX_ENTRIES: room in the entry area
          MaxTx,       \* bound: transactions begun
          MaxFaults,   \* bound: power cuts and I/O errors
          IOErrors     \* TRUE: a device write may also report an error

Op == [kind : Kinds, target : Targets, new : Contents]

ASSUME WalAssumption ==
    /\ Garbage \notin Contents
    /\ Tearable \subseteq Targets
    /\ FirstVolumes \subseteq [Targets -> Contents]
    /\ \A p \in Plans : p.tx \in TxKinds /\ p.ops \in Seq(Op)
    /\ MaxEntries \in Nat /\ MaxTx \in Nat /\ MaxFaults \in Nat
    /\ IOErrors \in BOOLEAN

States == {"EMPTY", "PREPARING", "APPLYING", "COMMITTED", "ROLLBACK"}

Header == [gen : Nat, state : States, tx : TxKinds \cup {"none"}, uuid : Nat,
           plan : Seq(Entry), cnt : Nat]

ASSUME InvalidAssumption == Invalid \notin Header /\ Invalid \notin Entry

VARIABLES
    disk,    \* target range -> image on the device
    slot,    \* the two superblocks of $Extend/$RootHealth
    desc,    \* descriptor area: ordinal -> descriptor
    undo,    \* payload area: ordinal -> old image
    pc,      \* where the repair process is; "off" when none runs
    sel,     \* wal->selected_slot
    mem,     \* wal: the selected header as the process holds it
    cursor,  \* rollback: entries still to restore
    base,    \* history: the volume when the last transaction began
    txs,     \* transactions begun; also the source of transaction UUIDs
    faults   \* power cuts and I/O errors so far

vars == <<disk, slot, desc, undo, pc, sel, mem, cursor, base, txs, faults>>

Slots == {0, 1}
Ordinals == 1 .. MaxEntries
Images == Contents \cup {Garbage}
Volumes == [Targets -> Contents]

PCs == {"off", "refused", "reconstruct", "recover", "rollback", "restore",
        "finalize", "ready", "undo", "desc", "applying", "target", "commit",
        "committed", "abort"}

TypeOK ==
    /\ disk \in [Targets -> Images]
    /\ slot \in [Slots -> Header \cup {Invalid}]
    /\ desc \in [Ordinals -> Entry \cup {Invalid}]
    /\ undo \in [Ordinals -> Images]
    /\ pc \in PCs
    /\ sel \in Slots
    /\ mem \in Header
    /\ cursor \in Nat
    /\ base \in Volumes
    /\ txs \in Nat
    /\ faults \in Nat

-------------------------------------------------------------------------------
(* Headers (rh_wal_build_header, rh_wal_parse_header).                          *)

EmptyHeader(g) == [gen |-> g, state |-> "EMPTY", tx |-> "none", uuid |-> 0,
                   plan |-> <<>>, cnt |-> 0]

SameTransaction(old, new) ==
    old.tx = new.tx /\ old.uuid = new.uuid /\ old.plan = new.plan

SamePrefix(old, new) == old.cnt = new.cnt

(* rh_wal_valid_header_transition.                                              *)
ValidTransition(old, new) ==
    /\ new.gen = old.gen + 1
    /\ \/ old.state = "EMPTY" /\ new.state = "EMPTY"
       \/ old.state = "EMPTY" /\ new.state = "PREPARING" /\ new.cnt = 0
       \/ old.state \in {"COMMITTED", "ROLLBACK"} /\ new.state = "EMPTY"
       \/ /\ SameTransaction(old, new)
          /\ \/ /\ old.state = "PREPARING" /\ new.state = "APPLYING"
                /\ old.cnt = 0 /\ new.cnt = 1
             \/ /\ old.state = "APPLYING" /\ new.state = "APPLYING"
                /\ new.cnt = old.cnt + 1
             \/ /\ old.state = "APPLYING" /\ new.state = "COMMITTED"
                /\ SamePrefix(old, new)
             \/ /\ old.state \in {"PREPARING", "APPLYING", "COMMITTED"}
                /\ new.state = "ROLLBACK"
                /\ SamePrefix(old, new)

Valid(s) == slot[s] # Invalid

(* The slot the locator selects: the only valid one, or the newer.              *)
Selected ==
    IF ~Valid(0) THEN 1
    ELSE IF ~Valid(1) THEN 0
    ELSE IF slot[1].gen > slot[0].gen THEN 1 ELSE 0

Newest == slot[Selected]

(* The checks of rh_wal_locate_and_validate on the two superblocks.             *)
PairAccepted ==
    /\ Valid(0) \/ Valid(1)
    /\ Valid(0) /\ Valid(1) =>
          \/ slot[0] = slot[1]
          \/ slot[0].gen < slot[1].gen /\ ValidTransition(slot[0], slot[1])
          \/ slot[1].gen < slot[0].gen /\ ValidTransition(slot[1], slot[0])

-------------------------------------------------------------------------------
(* Entries.                                                                      *)

LastOf(S) == CHOOSE m \in S : \A x \in S : x <= m

(* rh_writer_staged_read: what `ops` 1..k make of target t on volume v.          *)
Staged(ops, v, k, t) ==
    LET J == {j \in 1 .. k : ops[j].target = t}
    IN  IF J = {} THEN v[t] ELSE ops[LastOf(J)].new

(* rh_wal_prepare_plan: each entry with its staged before image.                 *)
Planned(ops, v) ==
    [i \in 1 .. Len(ops) |->
        [kind |-> ops[i].kind, target |-> ops[i].target, new |-> ops[i].new,
         old |-> Staged(ops, v, i - 1, ops[i].target)]]

(* Accepted by the planner, which drops writes that change nothing and corrects  *)
(* a bit once only, so that no image of a target comes back, and by              *)
(* rh_wal_prepare_plan.                                                          *)
PlanAccepted(p) ==
    LET e == Planned(p.ops, disk)
    IN  /\ Len(e) \in 1 .. MaxEntries
        /\ \A i \in 1 .. Len(e) : \A j \in i .. Len(e) :
              e[j].target = e[i].target => e[j].new # e[i].old
        /\ PlanShapeValid(p.tx, e)

(* The durable prefix a header names.                                            *)
Prefix(h) == [i \in 1 .. h.cnt |-> desc[i]]

(* rh_wal_load_entries.                                                          *)
LoadEntries(h) ==
    h.cnt > 0 =>
        /\ h.cnt <= MaxEntries
        /\ \A i \in 1 .. h.cnt : desc[i] # Invalid /\ undo[i] = desc[i].old
        /\ PrefixShapeValid(h.tx, Prefix(h), h.state = "COMMITTED")
        /\ h.state = "COMMITTED" => Prefix(h) = h.plan

(* rh_recovery_bitmap_chain_state: several corrections of one bitmap sector.     *)
Chain(e, i) == {j \in 1 .. Len(e) : e[j].target = e[i].target}

Chained(e, i) == e[i].kind = "bitmap" /\ Cardinality(Chain(e, i)) > 1

ChainReadable(e, i) ==
    LET C == Chain(e, i)
        first == CHOOSE m \in C : \A x \in C : m <= x
    IN  /\ \A j \in C : e[j].kind = e[i].kind
        /\ Cardinality({j \in C : disk[e[i].target] = e[j].new}
                         \cup (IF disk[e[i].target] = e[first].old THEN {0} ELSE {})) = 1

IsNew(e, i) ==
    IF Chained(e, i)
    THEN \E j \in Chain(e, i) : i <= j /\ disk[e[i].target] = e[j].new
    ELSE disk[e[i].target] = e[i].new

(* rh_capture_recovered_begin: the targets must look like a run of written       *)
(* entries followed by unwritten ones; all written once COMMITTED.               *)
CaptureAccepts(h) ==
    LET e == Prefix(h)
    IN  /\ \A i \in 1 .. h.cnt : Chained(e, i) => ChainReadable(e, i)
        /\ \A i \in 1 .. h.cnt : IsNew(e, i) => \A j \in 1 .. i : IsNew(e, j)
        /\ h.state = "COMMITTED" => \A i \in 1 .. h.cnt : IsNew(e, i)

-------------------------------------------------------------------------------
(* Device writes and their failures.                                             *)

Other(s) == 1 - s

(* The process is gone: power cut, or it reported an error and exited.           *)
ProcessGone ==
    /\ pc' = "off"
    /\ sel' = 0
    /\ mem' = EmptyHeader(0)
    /\ cursor' = 0

(* A device write failed half way.  The power went, or, with I/O errors, the     *)
(* process goes on at its error path.                                            *)
WriteFails(onError) ==
    /\ faults < MaxFaults
    /\ faults' = faults + 1
    /\ \/ ProcessGone
       \/ /\ IOErrors
          /\ onError # "off"
          /\ pc' = onError
          /\ UNCHANGED <<sel, mem, cursor>>

(* rh_wal_publish: the header goes to the slot that is not selected.             *)
Landed(h) == \E x \in {slot[Other(sel)], h, Invalid} :
                slot' = [slot EXCEPT ![Other(sel)] = x]

Publish(h) ==
    /\ slot' = [slot EXCEPT ![Other(sel)] = h]
    /\ sel' = Other(sel)
    /\ mem' = h

(* What an unsuccessful write of image x to target t leaves there.               *)
Remains(t, x) == {disk[t], x} \cup (IF t \in Tearable THEN {Garbage} ELSE {})

Advance(state) == [mem EXCEPT !.gen = @ + 1, !.state = state]

-------------------------------------------------------------------------------
(* One run of the repair process.                                                *)

Init ==
    /\ disk \in FirstVolumes
    /\ slot = [s \in Slots |-> EmptyHeader(s + 1)]
    /\ desc = [i \in Ordinals |-> Invalid]
    /\ undo = [i \in Ordinals |-> Garbage]
    /\ pc = "off"
    /\ sel = 0
    /\ mem = EmptyHeader(0)
    /\ cursor = 0
    /\ base = disk
    /\ txs = 0
    /\ faults = 0

(* Mutant: a run that ignores an interrupted transaction.                        *)
LocateSkipsRecovery ==
    /\ pc = "off"
    /\ PairAccepted
    /\ sel' = Selected
    /\ mem' = Newest
    /\ pc' = "ready"
    /\ UNCHANGED <<disk, slot, desc, undo, cursor, base, txs, faults>>

(* rh_orchestrator_scan: locate the journal and choose a superblock.             *)
Locate ==
    /\ pc = "off"
    /\ PairAccepted
    /\ sel' = Selected
    /\ mem' = Newest
    /\ pc' = IF ~Valid(Other(Selected)) THEN "reconstruct"
             ELSE IF Newest.state # "EMPTY" THEN "recover" ELSE "ready"
    /\ UNCHANGED <<disk, slot, desc, undo, cursor, base, txs, faults>>

LocateRefuses ==
    /\ pc = "off"
    /\ ~PairAccepted
    /\ pc' = "refused"
    /\ UNCHANGED <<disk, slot, desc, undo, sel, mem, cursor, base, txs, faults>>

(* Somebody runs the tool again, some time after it refused.                     *)
Rerun ==
    /\ pc = "refused"
    /\ ProcessGone
    /\ UNCHANGED <<disk, slot, desc, undo, base, txs, faults>>

(* Mutant: the damaged slot is reported and left.                                *)
ReconstructNothing ==
    /\ pc = "reconstruct"
    /\ ProcessGone
    /\ UNCHANGED <<disk, slot, desc, undo, base, txs, faults>>

(* rh_wal_reconstruct_degraded: copy the valid header over the damaged slot.     *)
Reconstruct ==
    /\ pc = "reconstruct"
    /\ \/ /\ slot' = [slot EXCEPT ![Other(sel)] = mem]
          /\ \/ mem.state = "EMPTY" /\ ProcessGone
             \/ mem.state # "EMPTY" /\ pc' = "recover" /\ UNCHANGED <<sel, mem, cursor>>
          /\ UNCHANGED faults
       \/ Landed(mem) /\ WriteFails("off")
    /\ UNCHANGED <<disk, desc, undo, base, txs>>

(* Mutant: an APPLYING journal is cleared without a rollback.                    *)
RecoverDiscards ==
    /\ pc = "recover"
    /\ LoadEntries(mem) /\ CaptureAccepts(mem)
    /\ pc' = "finalize"
    /\ UNCHANGED <<disk, slot, desc, undo, sel, mem, cursor, base, txs, faults>>

(* rh_orchestrator_recover up to its first write.                                *)
Recover ==
    /\ pc = "recover"
    /\ LoadEntries(mem) /\ CaptureAccepts(mem)
    /\ \/ /\ mem.state = "COMMITTED"
          /\ pc' = "finalize"
          /\ UNCHANGED cursor
       \/ /\ mem.state \in {"PREPARING", "APPLYING"}
          /\ pc' = "rollback"
          /\ UNCHANGED cursor
       \/ /\ mem.state = "ROLLBACK"
          /\ pc' = IF mem.cnt = 0 THEN "finalize" ELSE "restore"
          /\ cursor' = mem.cnt
    /\ UNCHANGED <<disk, slot, desc, undo, sel, mem, base, txs, faults>>

RecoverRefuses ==
    /\ pc = "recover"
    /\ ~(LoadEntries(mem) /\ CaptureAccepts(mem))
    /\ pc' = "refused"
    /\ UNCHANGED <<disk, slot, desc, undo, sel, mem, cursor, base, txs, faults>>

(* rh_wal_backend_abort -> rh_wal_rollback in the process that failed.           *)
Abort ==
    /\ pc = "abort"
    /\ IF \/ mem.state = "PREPARING" /\ mem.cnt = 0
          \/ mem.state = "APPLYING" /\ LoadEntries(mem)
       THEN pc' = "rollback" /\ UNCHANGED <<sel, mem, cursor>>
       ELSE ProcessGone
    /\ UNCHANGED <<disk, slot, desc, undo, base, txs, faults>>

(* rh_wal_rollback, first half: publish ROLLBACK with the count in memory.       *)
RollbackPublish ==
    /\ pc = "rollback"
    /\ LET h == Advance("ROLLBACK")
       IN  \/ /\ Publish(h)
              /\ pc' = IF mem.cnt = 0 THEN "finalize" ELSE "restore"
              /\ cursor' = mem.cnt
              /\ UNCHANGED faults
           \/ Landed(h) /\ WriteFails("off")
    /\ UNCHANGED <<disk, desc, undo, base, txs>>

(* Mutant: entries are restored from the first to the last.                      *)
RestoreForward ==
    /\ pc = "restore"
    /\ LET i == mem.cnt + 1 - cursor
       IN  disk' = [disk EXCEPT ![desc[i].target] = undo[i]]
    /\ cursor' = cursor - 1
    /\ pc' = IF cursor = 1 THEN "finalize" ELSE "restore"
    /\ UNCHANGED <<slot, desc, undo, sel, mem, base, txs, faults>>

(* rh_wal_rollback, second half: restore the entries from the last to the first. *)
Restore ==
    /\ pc = "restore"
    /\ LET t == desc[cursor].target
           done == /\ cursor' = cursor - 1
                   /\ pc' = IF cursor = 1 THEN "finalize" ELSE "restore"
                   /\ UNCHANGED <<sel, mem, faults>>
       IN  \/ /\ disk[t] = desc[cursor].old
              /\ done
              /\ UNCHANGED disk
           \/ /\ disk[t] # desc[cursor].old
              /\ \/ disk' = [disk EXCEPT ![t] = undo[cursor]] /\ done
                 \/ /\ \E x \in Remains(t, undo[cursor]) :
                          disk' = [disk EXCEPT ![t] = x]
                    /\ WriteFails("off")
    /\ UNCHANGED <<slot, desc, undo, base, txs>>

(* Mutant: the EMPTY header starts a new count of generations.                   *)
FinalizeRestartsGeneration ==
    /\ pc = "finalize"
    /\ slot' = [slot EXCEPT ![Other(sel)] = EmptyHeader(1)]
    /\ ProcessGone
    /\ UNCHANGED <<disk, desc, undo, base, txs, faults>>

(* rh_wal_finalize_empty.                                                        *)
FinalizeEmpty ==
    /\ pc = "finalize"
    /\ LET h == EmptyHeader(mem.gen + 1)
       IN  \/ /\ slot' = [slot EXCEPT ![Other(sel)] = h]
              /\ ProcessGone
              /\ UNCHANGED faults
           \/ Landed(h) /\ WriteFails("off")
    /\ UNCHANGED <<disk, desc, undo, base, txs>>

-------------------------------------------------------------------------------
(* rh_writer_commit with the journal backend installed.                          *)

(* rh_wal_backend_begin.                                                         *)
Begin(p) ==
    /\ pc = "ready"
    /\ txs < MaxTx
    /\ PlanAccepted(p)
    /\ txs' = txs + 1
    /\ base' = disk
    /\ LET h == [gen |-> mem.gen + 1, state |-> "PREPARING", tx |-> p.tx,
                 uuid |-> txs + 1, plan |-> Planned(p.ops, disk), cnt |-> 0]
       IN  \/ /\ Publish(h)
              /\ pc' = "undo"
              /\ UNCHANGED <<cursor, faults>>
           \/ Landed(h) /\ WriteFails("abort")
    /\ UNCHANGED <<disk, desc, undo>>

(* Nothing to repair, or rh_wal_prepare_plan rejects the plan: no write.         *)
Leave ==
    /\ pc = "ready"
    /\ ProcessGone
    /\ UNCHANGED <<disk, slot, desc, undo, base, txs, faults>>

(* Mutant: data_used does not advance, every payload lands on the first.         *)
WriteUndoInPlace ==
    /\ pc = "undo"
    /\ undo' = [undo EXCEPT ![1] = mem.plan[mem.cnt + 1].old]
    /\ pc' = "desc"
    /\ UNCHANGED <<disk, slot, desc, sel, mem, cursor, base, txs, faults>>

(* rh_wal_backend_before_write: the undo payload ...                             *)
WriteUndo ==
    /\ pc = "undo"
    /\ LET i == mem.cnt + 1
           old == mem.plan[i].old
       IN  \/ /\ undo' = [undo EXCEPT ![i] = old]
              /\ pc' = "desc"
              /\ UNCHANGED <<sel, mem, cursor, faults>>
           \/ /\ \E x \in {undo[i], old, Garbage} : undo' = [undo EXCEPT ![i] = x]
              /\ WriteFails("abort")
    /\ UNCHANGED <<disk, slot, desc, base, txs>>

(* Mutant: the target is written before the header names its entry.              *)
WriteDescriptorOnly ==
    /\ pc = "desc"
    /\ desc' = [desc EXCEPT ![mem.cnt + 1] = mem.plan[mem.cnt + 1]]
    /\ mem' = [mem EXCEPT !.cnt = @ + 1]
    /\ pc' = "target"
    /\ UNCHANGED <<disk, slot, undo, sel, cursor, base, txs, faults>>

(* ... its descriptor, after which the count in memory includes the entry ...    *)
WriteDescriptor ==
    /\ pc = "desc"
    /\ LET i == mem.cnt + 1
           d == mem.plan[i]
       IN  \/ /\ desc' = [desc EXCEPT ![i] = d]
              /\ mem' = [mem EXCEPT !.cnt = i]
              /\ pc' = "applying"
              /\ UNCHANGED <<sel, cursor, faults>>
           \/ /\ \E x \in {desc[i], d, Invalid} : desc' = [desc EXCEPT ![i] = x]
              /\ WriteFails("abort")
    /\ UNCHANGED <<disk, slot, undo, base, txs>>

(* ... and the header that makes the entry part of the durable prefix.           *)
PublishApplying ==
    /\ pc = "applying"
    /\ LET h == Advance("APPLYING")
       IN  \/ /\ Publish(h)
              /\ pc' = "target"
              /\ UNCHANGED <<cursor, faults>>
           \/ Landed(h) /\ WriteFails("abort")
    /\ UNCHANGED <<disk, desc, undo, base, txs>>

(* Mutant: the last entry of the plan is left out.                               *)
WriteTargetShort ==
    /\ pc = "target"
    /\ LET e == mem.plan[mem.cnt]
       IN  disk' = [disk EXCEPT ![e.target] = e.new]
    /\ pc' = IF mem.cnt + 1 >= Len(mem.plan) THEN "commit" ELSE "undo"
    /\ UNCHANGED <<slot, desc, undo, sel, mem, cursor, base, txs, faults>>

(* Mutant: a failed write goes unnoticed.                                        *)
WriteTargetUnverified ==
    /\ pc = "target"
    /\ LET e == mem.plan[mem.cnt]
       IN  \E x \in Remains(e.target, e.new) : disk' = [disk EXCEPT ![e.target] = x]
    /\ pc' = IF mem.cnt = Len(mem.plan) THEN "commit" ELSE "undo"
    /\ UNCHANGED <<slot, desc, undo, sel, mem, cursor, base, txs, faults>>

(* The target write, its fsync and rh_wal_backend_after_write's readback.        *)
WriteTarget ==
    /\ pc = "target"
    /\ LET e == mem.plan[mem.cnt]
       IN  \/ /\ disk' = [disk EXCEPT ![e.target] = e.new]
              /\ pc' = IF mem.cnt = Len(mem.plan) THEN "commit" ELSE "undo"
              /\ UNCHANGED <<sel, mem, cursor, faults>>
           \/ /\ \E x \in Remains(e.target, e.new) :
                    disk' = [disk EXCEPT ![e.target] = x]
              /\ WriteFails("abort")
    /\ UNCHANGED <<slot, desc, undo, base, txs>>

(* rh_wal_backend_finish.                                                        *)
PublishCommitted ==
    /\ pc = "commit"
    /\ LET h == Advance("COMMITTED")
       IN  \/ /\ Publish(h)
              /\ pc' = "committed"
              /\ UNCHANGED <<cursor, faults>>
           \/ Landed(h) /\ WriteFails("abort")
    /\ UNCHANGED <<disk, desc, undo, base, txs>>

(* rh_orchestrator_repair after the commit: the post-repair census accepts the   *)
(* transaction (rh_wal_committed_accept) or the run ends and leaves COMMITTED.   *)
AcceptCommitted ==
    /\ pc = "committed"
    /\ \/ LoadEntries(mem) /\ pc' = "finalize" /\ UNCHANGED <<sel, mem, cursor>>
       \/ ProcessGone
    /\ UNCHANGED <<disk, slot, desc, undo, base, txs, faults>>

(* The power goes between two writes.                                            *)
PowerCut ==
    /\ pc # "off"
    /\ faults < MaxFaults
    /\ faults' = faults + 1
    /\ ProcessGone
    /\ UNCHANGED <<disk, slot, desc, undo, base, txs>>

(* roothealth --repair is started.  The boot script does not do so: it runs       *)
(* --boot-repair, which leaves a journal that is not EMPTY alone.                *)
Start == Locate \/ LocateRefuses \/ Rerun

(* A started tool goes on.                                                       *)
Run ==
    \/ Reconstruct
    \/ Recover \/ RecoverRefuses \/ Abort \/ RollbackPublish \/ Restore \/ FinalizeEmpty
    \/ \E p \in Plans : Begin(p)
    \/ Leave
    \/ WriteUndo \/ WriteDescriptor \/ PublishApplying \/ WriteTarget
    \/ PublishCommitted \/ AcceptCommitted

Step == Start \/ Run

Next == Step \/ PowerCut

Spec == Init /\ [][Next]_vars

(* A process that runs keeps taking steps.  Nobody is assumed to start one, and  *)
(* faults are not excluded.                                                      *)
FairSpec == Spec /\ WF_vars(Run)
-------------------------------------------------------------------------------
(* Properties.                                                                   *)

InDoubt == Newest.state \in {"PREPARING", "APPLYING", "ROLLBACK"}

(* While the newest durable header leaves a transaction in doubt, every target   *)
(* that differs from the volume before the transaction is named by an entry of   *)
(* the durable prefix, and the first such entry holds exactly the image the      *)
(* target had then: rh_wal_rollback, run from any such state, restores it.       *)
UndoCoversWrites ==
    InDoubt =>
        \A t \in Targets : disk[t] # base[t] =>
            \E i \in 1 .. Newest.cnt :
                /\ desc[i] # Invalid
                /\ desc[i].target = t
                /\ undo[i] = base[t]
                /\ \A j \in 1 .. (i - 1) : desc[j].target # t

(* A durable COMMITTED header means that every target write of the plan is on    *)
(* the device, last write winning where entries overlap; nothing else changed.   *)
CommittedIsWhole ==
    Newest.state = "COMMITTED" =>
        /\ Newest.cnt = Len(Newest.plan)
        /\ \A t \in Targets :
              disk[t] = Staged(Newest.plan, base, Len(Newest.plan), t)

(* The two superblocks on the device are at every moment a pair that the         *)
(* locator accepts, so a power cut never costs the journal its authority.        *)
PairAlwaysAccepted == PairAccepted

(* No state the tool leaves behind is one its own recovery refuses.              *)
NeverRefused == pc # "refused"

(* JOURNAL-FORMAT.md: COMMITTED and ROLLBACK headers preserve the durable prefix *)
(* of the header before them (rh_wal_rollback after a failed rh_wal_publish).    *)
NewerKeepsPrefix ==
    \A s \in Slots :
        /\ Valid(s) /\ Valid(Other(s))
        /\ slot[s].state \in {"COMMITTED", "ROLLBACK"}
        /\ slot[s].gen > slot[Other(s)].gen
        => SamePrefix(slot[Other(s)], slot[s])

(* JOURNAL-FORMAT.md: PREPARING or APPLYING recovery restores every entry and    *)
(* then publishes EMPTY.  Whatever prefix the tool made durable, its recovery    *)
(* loads (rh_wal_load_entries and the verifiers it calls).                       *)
InterruptedIsLoadable ==
    pc = "recover" /\ mem.state # "COMMITTED" => LoadEntries(mem)

(* JOURNAL-FORMAT.md: overlapping target entries are permitted and ordered.  A   *)
(* committed transaction is one that rh_capture_recovered_begin recognises.      *)
CommittedIsRecognised ==
    pc = "recover" /\ mem.state = "COMMITTED" => CaptureAccepts(mem)

(* Comment in rh_capture_recovered_begin: a new image after an old or torn one   *)
(* would contradict the writer's order; so no interruption, of the writes or of  *)
(* the rollback itself, leaves one.                                              *)
TouchedPrefixLeads ==
    pc = "recover" /\ mem.state # "COMMITTED" => CaptureAccepts(mem)

(* The volume a later boot will get, and the one from before a transaction that  *)
(* can still be taken back.                                                      *)
VolumeAfterRecovery == IF InDoubt THEN base ELSE disk
VolumeIfReverted == IF Newest.state = "COMMITTED" THEN base ELSE VolumeAfterRecovery

PlanOutcome(v, w) ==
    \E p \in Plans : w = [t \in Targets |-> Staged(p.ops, v, Len(p.ops), t)]

Atomic == INSTANCE AtomicVolume WITH
    vol <- VolumeAfterRecovery, prev <- VolumeIfReverted, Outcome <- PlanOutcome

(* The journal makes a repair transaction atomic: seen through what recovery     *)
(* would leave, the volume changes by whole plans only, whatever the cuts.       *)
RepairIsAtomic == Atomic!Spec

Recovering == pc \in {"reconstruct", "recover", "rollback", "restore", "finalize"}

(* A recovery that was started, from whatever earlier cuts and half-done         *)
(* recoveries left, ends with an EMPTY journal (rh_orchestrator_recover,         *)
(* rh_wal_rollback, rh_wal_finalize_empty) unless a further fault stops it: it   *)
(* neither refuses nor leaves the journal as it was.                             *)
RecoveryCompletes ==
    \A n \in 0 .. MaxFaults :
        (Recovering /\ Newest.state # "EMPTY" /\ faults = n)
            ~> (Newest.state = "EMPTY" \/ faults > n)
=============================================================================
