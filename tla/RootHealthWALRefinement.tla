------------------------ MODULE RootHealthWALRefinement ------------------------
(* RootHealthWAL implements AtomicVolume: seen through what recovery would leave, *)
(* the volume changes by whole plans only.  Each step of the journal is mapped to *)
(* a step of the atomic volume or to no change, with the inductive invariant of   *)
(* RootHealthWALProofs as hypothesis.                                             *)
EXTENDS RootHealthWALProofs

(* The refinement mapping as a function of newest header, volume and base.        *)
VolOf(h, d, b) == IF h.state \in {"PREPARING", "APPLYING", "ROLLBACK"} THEN b ELSE d
PrevOf(h, d, b) == IF h.state = "COMMITTED" THEN b ELSE VolOf(h, d, b)

(* The mapped volumes depend only on the newest header, the disk and the base   *)
(* volume.                                                                      *)
LEMMA MappingFacts ==
    /\ VolumeAfterRecovery = VolOf(NewestIn(slot), disk, base)
    /\ VolumeIfReverted = PrevOf(NewestIn(slot), disk, base)
    /\ VolumeAfterRecovery' = VolOf(NewestIn(slot'), disk', base')
    /\ VolumeIfReverted' = PrevOf(NewestIn(slot'), disk', base')
BY NewestIsNewestIn
   DEF VolumeAfterRecovery, VolumeIfReverted, InDoubt, VolOf, PrevOf

NoChange == UNCHANGED <<VolumeAfterRecovery, VolumeIfReverted>>

(* A step that leaves superblocks, volume and base alone is invisible.             *)
LEMMA QuietStep ==
    ASSUME UNCHANGED <<slot, disk, base>> PROVE NoChange
BY MappingFacts DEF NoChange

(* The selected header of a running process is the newest, but for a failed        *)
(* publish.                                                                        *)
LEMMA SelectedNewest ==
    ASSUME IInv, pc \notin Away \cup Failing
    PROVE  /\ NewestIn(slot) = slot[sel] /\ slot \in SlotPairs /\ sel \in Slots
           /\ slot[sel] # Invalid /\ OtherOlder(slot, sel)
<1>1. /\ slot \in SlotPairs /\ sel \in Slots /\ slot[sel] # Invalid
      /\ OtherOlder(slot, sel)
  BY DEF IInv, TypeOK, SlotPairs, SelectedInv, Valid
<1> QED BY <1>1, NewestFacts

(* A publish, complete or not, makes the published header the newest or none.      *)
LEMMA PublishNewest ==
    ASSUME IInv, pc \notin Away \cup Failing, NEW h \in Header,
           Landed(h) \/ slot' = [slot EXCEPT ![Other(sel)] = h]
    PROVE  NewestIn(slot) = slot[sel] /\ NewestIn(slot') \in {slot[sel], h}
<1>1. PICK x \in {slot[Other(sel)], h, Invalid} :
          slot' = [slot EXCEPT ![Other(sel)] = x]
  BY DEF Landed
<1>2. /\ NewestIn(slot) = slot[sel] /\ slot \in SlotPairs /\ sel \in Slots
      /\ slot[sel] # Invalid /\ OtherOlder(slot, sel)
  BY SelectedNewest
<1>3. Other(sel) \in Slots /\ Other(sel) # sel
  BY <1>2, NewestFacts
<1>4. slot' \in SlotPairs /\ slot'[sel] = slot[sel] /\ slot'[Other(sel)] = x
  BY <1>1, <1>2, <1>3 DEF SlotPairs
<1>5. /\ NewestIn(slot') \in {slot'[sel], slot'[Other(sel)]}
      /\ NewestIn(slot') \in Header
      /\ OtherOlder(slot', sel) => NewestIn(slot') = slot'[sel]
  BY <1>2, <1>4, NewestFacts
<1>6. CASE x = h
  BY <1>2, <1>4, <1>5, <1>6
<1>7. CASE x = Invalid
  BY <1>2, <1>4, <1>5, <1>7, InvalidAssumption
<1>8. CASE x = slot[Other(sel)]
  <2>1. OtherOlder(slot', sel)
    BY <1>2, <1>4, <1>8 DEF OtherOlder
  <2> QED BY <1>2, <1>4, <1>5, <2>1
<1> QED BY <1>6, <1>7, <1>8

-------------------------------------------------------------------------------
(* Target writes are invisible: the newest header leaves the transaction in doubt. *)
LEMMA TargetStep ==
    ASSUME IInv, WriteTarget \/ Restore PROVE NoChange
<1>1. pc \in {"target", "restore"} /\ UNCHANGED <<slot, base>>
  BY DEF WriteTarget, Restore
<1>2. NewestIn(slot) = slot[sel]
  BY <1>1, SelectedNewest DEF Away, Failing
<1>3. slot[sel].state \in {"APPLYING", "ROLLBACK"}
  BY <1>1 DEF IInv, SelectedInv, CommitInv, RestoreInv, Away, Failing
<1> QED BY <1>1, <1>2, <1>3, MappingFacts DEF NoChange, VolOf, PrevOf

(* Rebuilding a superblock is invisible to the abstract volume.                 *)
LEMMA ReconstructStep ==
    ASSUME IInv, Reconstruct PROVE NoChange
<1>1. /\ pc = "reconstruct" /\ UNCHANGED <<disk, base>>
      /\ Landed(mem) \/ slot' = [slot EXCEPT ![Other(sel)] = mem]
  BY DEF Reconstruct
<1>2. mem = slot[sel] /\ mem \in Header
  BY <1>1 DEF IInv, SelectedInv, TypeOK, Away, Failing
<1>3. NewestIn(slot') = NewestIn(slot)
  BY <1>1, <1>2, PublishNewest DEF Away, Failing
<1> QED BY <1>1, <1>3, MappingFacts DEF NoChange

(* Opening a transaction is invisible to the abstract volume.                   *)
LEMMA BeginStep ==
    ASSUME IInv, NEW p \in Plans, Begin(p) PROVE NoChange
<1> DEFINE h == [gen |-> mem.gen + 1, state |-> "PREPARING", tx |-> p.tx,
                 uuid |-> txs + 1, plan |-> Planned(p.ops, disk), cnt |-> 0]
<1>1. /\ pc = "ready" /\ base' = disk /\ UNCHANGED disk
      /\ Landed(h) \/ slot' = [slot EXCEPT ![Other(sel)] = h]
  BY DEF Begin, Publish
<1>2. /\ mem = slot[sel] /\ GoodNow(mem) /\ mem \in Header /\ mem.gen \in Nat
      /\ mem.state = "EMPTY" /\ txs \in Nat
  BY <1>1 DEF IInv, SelectedInv, CommitInv, TypeOK, Away, Failing, Header
<1>3. Planned(p.ops, disk) \in Seq(Entry)
  BY <1>2, PlannedFacts DEF GoodNow, Good
<1>4. h \in Header /\ h.state = "PREPARING"
  BY <1>2, <1>3, WalAssumption DEF Header, States
<1> HIDE DEF h
<1>5. NewestIn(slot) = mem /\ NewestIn(slot') \in {mem, h}
  BY <1>1, <1>2, <1>4, PublishNewest DEF Away, Failing
<1> QED BY <1>1, <1>2, <1>4, <1>5, MappingFacts DEF NoChange, VolOf, PrevOf

(* Making one more entry durable is invisible to the abstract volume.           *)
LEMMA ApplyingStep ==
    ASSUME IInv, PublishApplying PROVE NoChange
<1> DEFINE h == Advance("APPLYING")
<1>1. /\ pc = "applying" /\ UNCHANGED <<disk, base>>
      /\ Landed(h) \/ slot' = [slot EXCEPT ![Other(sel)] = h]
  BY DEF PublishApplying, Publish
<1>2. mem \in Header /\ slot[sel].state \in {"PREPARING", "APPLYING"}
  BY <1>1 DEF IInv, TypeOK, CommitInv
<1>3. h \in Header /\ h.state = "APPLYING"
  BY <1>2, AdvanceFacts DEF Advance, States
<1> HIDE DEF h
<1>4. NewestIn(slot) = slot[sel] /\ NewestIn(slot') \in {slot[sel], h}
  BY <1>1, <1>3, PublishNewest DEF Away, Failing
<1> QED BY <1>1, <1>2, <1>3, <1>4, MappingFacts DEF NoChange, VolOf, PrevOf

(* rh_wal_backend_finish: a COMMITTED header that reaches the device is the step   *)
(* at which the whole plan takes effect.                                           *)
LEMMA CommittedStep ==
    ASSUME IInv, PublishCommitted PROVE Atomic!Commit \/ NoChange
<1> DEFINE h == Advance("COMMITTED")
<1>1. /\ pc = "commit" /\ UNCHANGED <<disk, base>>
      /\ Landed(h) \/ slot' = [slot EXCEPT ![Other(sel)] = h]
  BY DEF PublishCommitted, Publish
<1>2. /\ mem \in Header /\ mem = slot[sel] /\ mem.state = "APPLYING"
      /\ GoodNow(mem) /\ mem.cnt = Len(mem.plan)
      /\ disk \in Volumes /\ DiskIs(mem.plan, mem.cnt, disk, base)
      /\ base \in Volumes
  BY <1>1 DEF IInv, TypeOK, SelectedInv, CommitInv, Away, Failing
<1>3. h \in Header /\ h.state = "COMMITTED"
  BY <1>2, AdvanceFacts DEF Advance, States
<1> HIDE DEF h
<1>4. NewestIn(slot) = mem /\ NewestIn(slot') \in {mem, h}
  BY <1>1, <1>2, <1>3, PublishNewest DEF Away, Failing
<1>5. CASE NewestIn(slot') = mem
  BY <1>1, <1>4, <1>5, MappingFacts DEF NoChange
<1>6. CASE NewestIn(slot') = h
  <2>1. /\ VolumeAfterRecovery = base /\ VolumeIfReverted = base
        /\ VolumeAfterRecovery' = disk /\ VolumeIfReverted' = base
    BY <1>1, <1>2, <1>3, <1>4, <1>6, MappingFacts DEF VolOf, PrevOf
  <2>2. PICK p \in Plans : mem.plan = Planned(p.ops, base)
    BY <1>2, GoodInDoubt DEF GoodNow, Undoable, PreparedOn
  <2>3. \A t \in Targets : disk[t] = Staged(p.ops, base, Len(p.ops), t)
    <3>1. /\ Len(mem.plan) = Len(p.ops)
          /\ \A t \in Targets : Staged(mem.plan, base, Len(p.ops), t)
                                  = Staged(p.ops, base, Len(p.ops), t)
      BY <1>2, <2>2, PlannedFacts
    <3>2. \A t \in Targets : disk[t] = Staged(mem.plan, base, mem.cnt, t)
      BY <1>2 DEF DiskIs
    <3> QED BY <1>2, <3>1, <3>2
  <2>4. PlanOutcome(base, disk)
    BY <1>2, <2>3 DEF PlanOutcome, Volumes
  <2> QED BY <1>2, <2>1, <2>4 DEF Atomic!Commit, Atomic!Volumes, Volumes
<1> QED BY <1>4, <1>5, <1>6

(* rh_wal_finalize_empty: a rolled back transaction disappears without a trace, a  *)
(* committed one becomes final.                                                    *)
LEMMA FinalizeStep ==
    ASSUME IInv, FinalizeEmpty PROVE Atomic!Accept \/ NoChange
<1> DEFINE h == EmptyHeader(mem.gen + 1)
<1>1. /\ pc = "finalize" /\ UNCHANGED <<disk, base>>
      /\ Landed(h) \/ slot' = [slot EXCEPT ![Other(sel)] = h]
  BY DEF FinalizeEmpty
<1>2. /\ mem = slot[sel] /\ mem \in Header
      /\ mem.state \in {"COMMITTED", "ROLLBACK"}
      /\ mem.state = "ROLLBACK" => disk = base
  BY <1>1 DEF IInv, SelectedInv, RestoreInv, TypeOK, Away, Failing
<1>3. h \in Header /\ h.state = "EMPTY"
  BY <1>2 DEF EmptyHeader, Header, States
<1> HIDE DEF h
<1>4. NewestIn(slot) = mem /\ NewestIn(slot') \in {mem, h}
  BY <1>1, <1>2, <1>3, PublishNewest DEF Away, Failing
<1>5. CASE NewestIn(slot') = mem \/ mem.state = "ROLLBACK"
  BY <1>1, <1>2, <1>3, <1>4, <1>5, MappingFacts DEF NoChange, VolOf, PrevOf
<1>6. CASE NewestIn(slot') = h /\ mem.state = "COMMITTED"
  <2>1. /\ VolumeAfterRecovery = disk /\ VolumeAfterRecovery' = disk
        /\ VolumeIfReverted' = disk
    BY <1>1, <1>2, <1>3, <1>4, <1>6, MappingFacts DEF VolOf, PrevOf
  <2> QED BY <2>1 DEF Atomic!Accept
<1> QED BY <1>2, <1>4, <1>5, <1>6

(* rh_wal_rollback's first write.  A COMMITTED header that reached the device      *)
(* although its publish reported an error is overwritten: the transaction is taken *)
(* back as a whole.                                                                *)
LEMMA RollbackStep ==
    ASSUME IInv, RollbackPublish PROVE Atomic!Revert \/ NoChange
<1> DEFINE h == Advance("ROLLBACK")
           o == slot[Other(sel)]
<1>1. /\ pc = "rollback" /\ UNCHANGED <<disk, base>>
      /\ Landed(h) \/ slot' = [slot EXCEPT ![Other(sel)] = h]
  BY DEF RollbackPublish, Publish
<1>2. /\ mem \in Header /\ slot \in SlotPairs /\ sel \in Slots /\ slot[sel] # Invalid
      /\ slot[sel].state \in {"PREPARING", "APPLYING"}
      /\ \/ OtherOlder(slot, sel)
         \/ o # Invalid /\ o.gen > slot[sel].gen /\ o.state # "EMPTY"
  BY <1>1 DEF IInv, TypeOK, SlotPairs, SelectedInv, FailingInv, Valid, Away, Failing
<1>3. h \in Header /\ h.state = "ROLLBACK"
  BY <1>2, AdvanceFacts DEF Advance, States
<1>4. PICK x \in {o, h, Invalid} : slot' = [slot EXCEPT ![Other(sel)] = x]
  BY <1>1 DEF Landed
<1> HIDE DEF h
<1>5. Other(sel) \in Slots /\ Other(sel) # sel
  BY <1>2, NewestFacts
<1>6. slot' \in SlotPairs /\ slot'[sel] = slot[sel] /\ slot'[Other(sel)] = x
  BY <1>2, <1>3, <1>4, <1>5 DEF SlotPairs
<1>7. NewestIn(slot') \in {slot[sel], x} /\ NewestIn(slot') \in Header
  BY <1>2, <1>6, NewestFacts
<1>8. \/ NewestIn(slot) = slot[sel]
      \/ /\ NewestIn(slot) = o /\ o \in Header
         /\ o.state \in {"PREPARING", "APPLYING", "ROLLBACK", "COMMITTED"}
  BY <1>2, NewestFacts DEF Header, States
<1>9. CASE x = o
  <2>1. slot' = slot
    BY <1>2, <1>4, <1>5, <1>9 DEF SlotPairs
  <2> QED BY <1>1, <2>1, QuietStep
<1>10. CASE x # o
  <2>1. NewestIn(slot').state \in {"PREPARING", "APPLYING", "ROLLBACK"}
    BY <1>2, <1>3, <1>7, <1>10, InvalidAssumption
  <2>2. VolumeAfterRecovery' = base /\ VolumeIfReverted' = base
    BY <1>1, <2>1, MappingFacts DEF VolOf, PrevOf
  <2>3. VolumeIfReverted = base
    BY <1>2, <1>8, MappingFacts DEF VolOf, PrevOf
  <2> QED BY <2>2, <2>3 DEF Atomic!Revert
<1> QED BY <1>9, <1>10

-------------------------------------------------------------------------------
(* The initial states map to initial states of the abstract volume.             *)
LEMMA InitAtomic ==
    ASSUME Init PROVE Atomic!Init
<1>1. slot[0] = EmptyHeader(1) /\ slot[1] = EmptyHeader(2)
  BY DEF Init, Slots
<1>2. NewestIn(slot).state = "EMPTY"
  BY <1>1 DEF NewestIn, EmptyHeader
<1>3. VolumeAfterRecovery = disk /\ VolumeIfReverted = disk
  BY <1>2, MappingFacts DEF VolOf, PrevOf
<1> QED BY <1>3, WalAssumption DEF Init, Atomic!Init, Atomic!Volumes

(* Every step maps to a step of the abstract volume or leaves it unchanged.     *)
LEMMA StepAtomic ==
    ASSUME IInv, [Next]_vars PROVE Atomic!Next \/ NoChange
<1>1. CASE \/ Locate \/ LocateRefuses \/ Rerun \/ Recover \/ RecoverRefuses
           \/ Abort \/ Leave \/ WriteUndo \/ WriteDescriptor \/ AcceptCommitted
           \/ PowerCut \/ UNCHANGED vars
  <2>1. UNCHANGED <<slot, disk, base>>
    BY <1>1 DEF Locate, LocateRefuses, Rerun, Recover, RecoverRefuses, Abort, Leave,
                WriteUndo, WriteDescriptor, AcceptCommitted, PowerCut, vars
  <2> QED BY <2>1, QuietStep
<1>2. CASE WriteTarget \/ Restore
  BY <1>2, TargetStep
<1>3. CASE Reconstruct
  BY <1>3, ReconstructStep
<1>4. ASSUME NEW p \in Plans, Begin(p) PROVE NoChange
  BY <1>4, BeginStep
<1>5. CASE PublishApplying
  BY <1>5, ApplyingStep
<1>6. CASE PublishCommitted
  BY <1>6, CommittedStep DEF Atomic!Next
<1>7. CASE FinalizeEmpty
  BY <1>7, FinalizeStep DEF Atomic!Next
<1>8. CASE RollbackPublish
  BY <1>8, RollbackStep DEF Atomic!Next
<1> QED BY <1>1, <1>2, <1>3, <1>4, <1>5, <1>6, <1>7, <1>8 DEF Next, Step, Start, Run

(* The repair journal implements the atomic volume for every volume, every set of  *)
(* plans and any number of power cuts and I/O errors.                              *)
THEOREM JournalIsAtomic == Spec => RepairIsAtomic
<1>1. Init => Atomic!Init
  BY InitAtomic
<1>2. IInv /\ [Next]_vars => [Atomic!Next]_<<VolumeAfterRecovery, VolumeIfReverted>>
  BY StepAtomic DEF NoChange
<1> QED BY <1>1, <1>2, InductiveInvariant, PTL DEF Spec, RepairIsAtomic, Atomic!Spec
===============================================================================
