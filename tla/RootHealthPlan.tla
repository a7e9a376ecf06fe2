---------------------------- MODULE RootHealthPlan ----------------------------
(* The shape rules of a roothealth journal transaction                        *)
(* (development/roothealth/engine/src/roothealth_wal.c): which ordered lists  *)
(* of write operations may be planned, and which durable prefixes of such a   *)
(* list recovery agrees to load after an interruption.  Pure definitions over *)
(* sequences of entries [kind, target, old, new].                             *)
(*                                                                            *)
(* Action IDs are kept only as far as the rules tell them apart:              *)
(*   foundation   1-4 (boot sectors, bootstrap MFT copies)                    *)
(*   redo 5, restart 6, index_root 11, bitmap 22-23 (MFT and cluster bitmap), *)
(*   dirty_set 24, dirty_clear 25, derived: every other ID                    *)
EXTENDS Naturals, Sequences

CONSTANTS Targets,    \* sector ranges of the volume an entry can name
          Contents,   \* whole images of such a range
          Mirror      \* primary MFT record (0..3) -> its $MFTMirr copy

ASSUME MirrorAssumption ==
    /\ DOMAIN Mirror \subseteq Targets
    /\ \A p \in DOMAIN Mirror : Mirror[p] \in Targets \ DOMAIN Mirror

Kinds == {"foundation", "redo", "restart", "index_root", "bitmap",
          "dirty_set", "dirty_clear", "derived"}

TxKinds == {"metadata_repair", "dirty_clear"}

Entry == [kind : Kinds, target : Targets, old : Contents, new : Contents]

IsDerived(k) == k \in {"index_root", "bitmap", "dirty_clear", "derived"}

(* rh_wal_metadata_action_order_valid_internal.  `complete` is FALSE when the *)
(* list is the durable prefix of an interrupted transaction.                  *)
ActionOrderValid(k, complete) ==
    LET n == Len(k)
        before(i) == 1 .. (i - 1)
    IN  /\ n > 0
        /\ \A i \in 1 .. n : k[i] # "foundation"
        /\ \A i \in 1 .. n : k[i] = "dirty_set" =>
              i <= 2 /\ \A j \in before(i) : k[j] = "dirty_set"
        /\ \A i \in 1 .. n : k[i] = "redo" =>
              \A j \in before(i) : k[j] \in {"dirty_set", "redo"}
        /\ \A i \in 1 .. n : \A j \in before(i) :
              k[j] = "restart" => k[i] = "restart"
        /\ \A i \in 1 .. n : k[i] = "bitmap" =>
              \A j \in before(i) : k[j] \notin {"derived", "dirty_clear"}
        /\ \A i \in 1 .. n : k[i] = "index_root" =>
              \A j \in before(i) : ~IsDerived(k[j])
        \* at most two restart pages, and none without a redo but the bare pair
        /\ \A i \in 1 .. n : k[i] = "restart" => i + 2 > n
        /\ (\E i \in 1 .. n : k[i] = "restart") =>
              \/ \E i \in 1 .. n : k[i] = "redo"
              \/ n = 2 /\ k[1] = "restart"
        /\ IF complete
           THEN /\ (\E i \in 1 .. n : k[i] = "redo") =>
                      k[n] = "restart" /\ k[n - 1] = "restart"
                /\ k[1] = "dirty_set" => n > 1 /\ k[2] = "dirty_set"
                /\ \E i \in 1 .. n : IsDerived(k[i]) \/ k[i] \in {"redo", "restart"}
           ELSE k[1] = "dirty_set" /\ n > 1 => k[2] = "dirty_set"

(* Mutant: an interrupted transaction may not end on a primary either.           *)
MirrorPairsComplete(e, trailingPrimary) ==
    \A i \in 1 .. Len(e) :
        e[i].target \in DOMAIN Mirror =>
            i < Len(e) /\ e[i + 1].target = Mirror[e[i].target]

(* rh_wal_validate_mft_operation_pairs and rh_wal_mft_entry_pairs_valid: a    *)
(* mirrored record is written as adjacent primary and mirror entries of one   *)
(* kind; only an interrupted transaction may end on a primary.                *)
MirrorPairsValid(e, trailingPrimary) ==
    \A i \in 1 .. Len(e) :
        /\ e[i].target \in DOMAIN Mirror =>
              \/ i = Len(e) /\ trailingPrimary
              \/ /\ i < Len(e)
                 /\ e[i + 1].target = Mirror[e[i].target]
                 /\ e[i + 1].kind = e[i].kind
                 /\ e[i + 1].old = e[i].old
                 /\ e[i + 1].new = e[i].new
        /\ (\E p \in DOMAIN Mirror : e[i].target = Mirror[p]) =>
              i > 1 /\ e[i - 1].target \in DOMAIN Mirror

KindsOf(e) == [i \in 1 .. Len(e) |-> e[i].kind]

DirtyKind(k) == k \in {"dirty_set", "dirty_clear"}

(* The dispatch of rh_wal_dispatch_action_verifiers: native entries are       *)
(* verified as a group of their own, a bare restart group must be the pair.   *)
(* What a verifier rederives from the volume is outside this module.          *)
VerifierGroupsAccept(k) ==
    /\ (\E i \in 1 .. Len(k) : k[i] = "redo") =>
          \A i \in 1 .. Len(k) : k[i] \in {"redo", "restart"}
    /\ (\E i \in 1 .. Len(k) : k[i] = "restart")
          /\ (\A i \in 1 .. Len(k) : k[i] # "redo") =>
          \A i \in 1 .. Len(k) : k[i] = "restart" /\ Len(k) = 2

(* The transaction shape a complete plan needs (rh_wal_prepare_plan).         *)
PlanShapeValid(tx, e) ==
    /\ MirrorPairsValid(e, FALSE)
    /\ \A i \in 1 .. Len(e) : DirtyKind(e[i].kind) =>
          \E p \in DOMAIN Mirror : e[i].target \in {p, Mirror[p]}
    /\ tx = "dirty_clear" =>
          Len(e) = 2 /\ \A i \in 1 .. Len(e) : e[i].kind = "dirty_clear"
    /\ tx = "metadata_repair" =>
          /\ \A i \in 1 .. Len(e) : e[i].kind # "dirty_clear"
          /\ ActionOrderValid(KindsOf(e), TRUE)

(* The shape rh_wal_load_entries asks of the durable prefix of a transaction  *)
(* whose header says COMMITTED (complete) or APPLYING / ROLLBACK.             *)
PrefixShapeValid(tx, e, complete) ==
    /\ MirrorPairsValid(e, ~complete)
    /\ tx = "dirty_clear" =>
          /\ \A i \in 1 .. Len(e) : e[i].kind = "dirty_clear"
          /\ Len(e) <= 2
          /\ complete => Len(e) = 2
    /\ tx = "metadata_repair" =>
          /\ \A i \in 1 .. Len(e) : e[i].kind # "dirty_clear"
          /\ ActionOrderValid(KindsOf(e), complete)
    /\ VerifierGroupsAccept(KindsOf(e))
=============================================================================
