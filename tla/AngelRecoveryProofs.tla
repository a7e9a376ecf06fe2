-------------------------- MODULE AngelRecoveryProofs --------------------------
(* Proofs about Angel's recovery actions, for every set of directories, every    *)
(* list of items and any number of power cuts and failing commands.              *)
EXTENDS AngelRecovery, TLAPS

(* The inductive invariant.                                                      *)

(* The digest stands for an authentication of the action.                         *)
Held(d, a) == d \in 1 .. Len(grants) /\ grants[d] = a

TreeWork == {"stage", "aside", "movein", "verify"}
WorkPCs == TreeWork \cup {"erase", "install", "check", "uncontinue"}
Clearing == {"clearrequest", "clearjournal"}
Authorizing == {"continuation", "consume", "authorized"}
Starting == {"off", "normal", "arming", "menu", "confirm", "authorize", "prepare"}
                \cup Authorizing

(* Records, continuation and the digest in hand all go back to an authentication, *)
(* and from `prepare` on the continuation names the action that runs.             *)
AuthInv ==
    /\ cont # None => Held(cont.digest, cont.action)
    /\ \A r \in records : Held(r.digest, r.action)
    /\ pc \in {"confirm", "prepare"} \cup WorkPCs \cup Clearing => act \in Actions
    /\ pc \in {"authorize"} \cup Authorizing => act \in Destructive
    /\ pc \in Authorizing => Held(pend, act) /\ cred
    /\ pc \in {"consume", "authorized"} => cont = [action |-> act, digest |-> pend]
    /\ pc = "prepare" /\ act \in Destructive => cont = [action |-> act, digest |-> dig]
    /\ pc \in WorkPCs => journal = [action |-> act, digest |-> dig]
    /\ pc \in WorkPCs /\ act \in Destructive => cont = journal
    /\ pc \in Clearing => journal # None /\ journal.action = act

(* Once the credential is erased only a reinstall can be under way, and its       *)
(* continuation is there until everything is in place.                            *)
ErasedInv ==
    ~cred =>
        /\ user = "gone" /\ records = {}
        /\ cont # None => cont.action = "reinstall"
        /\ journal # None => journal.action # "reset"
        /\ journal # None /\ journal.action = "reinstall" =>
              cont = journal \/ \A l \in Leaves : Finished("reinstall", l)

(* How far the action has come.                                                   *)
ProgressInv ==
    /\ pc \in {"normal", "arming"} => journal = None
    /\ pc \in TreeWork => act \in TreeActions /\ idx < Len(Items[act])
    /\ pc \in Starting => idx = 0
    /\ pc \notin {"movein", "verify"} => prev = None
    /\ pc \in {"stage", "aside"} =>
          \A i \in 1 .. idx : \A l \in Items[act][i] : tree[l] = "good"
    /\ pc \in {"movein", "verify"} =>
          /\ \A i \in 1 .. idx : \A l \in Items[act][i] \ Item : tree[l] = "good"
          /\ prev # None => DOMAIN prev = Item
    /\ pc \in {"erase", "install", "check"} => act = "reinstall"
    /\ pc \in {"install", "check"} => user = "gone"
    /\ pc = "check" => \A l \in Leaves : tree[l] \in {"good", "other"}
    /\ pc = "uncontinue" => act \in Destructive
    /\ pc \in {"uncontinue"} \cup Clearing =>
          /\ \A l \in ScopeOf(act) : Finished(act, l)
          /\ act = "reinstall" => user = "gone"

(* Unless a journal was overwritten, only the journaled action's scope is torn.   *)
WholeInv ==
    ~replaced =>
        /\ journal = None => Whole
        /\ journal # None =>
              /\ \A l \in Leaves \ ScopeOf(journal.action) : tree[l] \in {"good", "other"}
              /\ journal.action # "reinstall" => user # "partly"

IInv == TypeOK /\ AuthInv /\ ErasedInv /\ ProgressInv /\ WholeInv


-------------------------------------------------------------------------------
USE AngelAssumption, NoneAssumption
    DEF Digest, Actions, Destructive, TreeActions, Goto, Fails, BackToMenu, Fault,
        NoFault, shell, esp, auth, files, Finished

(* The current item of a tree action lies inside the installed system and inside *)
(* the action's scope.                                                           *)
LEMMA ItemFacts ==
    ASSUME IInv, pc \in TreeWork
    PROVE  /\ Items[act] \in Seq(SUBSET Leaves) /\ idx + 1 \in 1 .. Len(Items[act])
           /\ Item \subseteq Leaves /\ Item \subseteq ScopeOf(act)
<1>1. act \in TreeActions /\ idx < Len(Items[act]) /\ idx \in Nat
  BY DEF IInv, TypeOK, ShellOK, ProgressInv
<1>2. Items[act] \in Seq(SUBSET Leaves)
  BY <1>1
<1>3. idx + 1 \in 1 .. Len(Items[act])
  BY <1>1, <1>2
<1>4. Items[act][idx + 1] \in SUBSET Leaves
  BY <1>2, <1>3
<1> QED BY <1>1, <1>2, <1>3, <1>4 DEF Item, ScopeOf

(* Below overwrites exactly the leaves its argument names.                       *)
LEMMA BelowFacts ==
    ASSUME tree \in [Leaves -> LeafState], NEW f \in Previous
    PROVE  /\ Below(f) \in [Leaves -> LeafState]
           /\ \A l \in Leaves : Below(f)[l] = IF l \in DOMAIN f THEN f[l] ELSE tree[l]
<1>1. PICK S \in SUBSET Leaves : f \in [S -> LeafState]
  BY DEF Previous
<1> QED BY <1>1 DEF Below

(* A function on a subset of the leaves is a tree that can be put back.          *)
LEMMA AllFacts ==
    ASSUME IInv, pc \in TreeWork, NEW v \in LeafState
    PROVE  All(v) \in Previous /\ DOMAIN All(v) = Item /\ \A l \in Item : All(v)[l] = v
<1>1. Item \in SUBSET Leaves
  BY ItemFacts
<1>2. All(v) \in [Item -> LeafState]
  BY DEF All
<1> QED BY <1>1, <1>2 DEF All, Previous

(* Steps that leave action, journal and system alone and end the shell or return *)
(* to the menu keep the invariant; they may drop records, request and marker.    *)
LEMMA QuietKeeps ==
    ASSUME IInv, ShellOK', HistoryOK', FlagsOK',
           UNCHANGED <<journal, cont, cred, grants, user, tree, replaced>>,
           request' \in Request \cup {None}, marker' \in {"armed", None},
           records' \subseteq records,
           pc' \in {"off", "menu"}, idx' = 0, prev' = None
    PROVE  IInv'
<1>1. DriveOK'
  BY DEF IInv, TypeOK, DriveOK
<1>2. AuthInv'
  BY DEF IInv, AuthInv, Held, TreeWork, WorkPCs, Clearing, Authorizing
<1>3. ErasedInv'
  BY DEF IInv, ErasedInv
<1>4. ProgressInv'
  BY DEF ProgressInv, TreeWork, Clearing
<1>5. WholeInv'
  BY DEF IInv, WholeInv, Whole
<1> QED BY <1>1, <1>2, <1>3, <1>4, <1>5 DEF IInv, TypeOK

(* A boot that resumes the journaled action only sets the shell up.             *)
LEMMA BootJournalKeeps == ASSUME IInv, BootJournal PROVE IInv'
<1> USE DEF IInv, TypeOK, BootJournal, FreshBoot
<1>1. DriveOK'
  BY DEF DriveOK
<1>2. ShellOK'
  BY DEF DriveOK, ShellOK, Transaction, PCs
<1>3. HistoryOK'
  BY DEF HistoryOK
<1>4. FlagsOK'
  BY Zenon DEF FlagsOK
<1>5. AuthInv'
  BY DEF DriveOK, AuthInv, Held, Transaction, TreeWork, WorkPCs, Authorizing
<1>6. ErasedInv'
  BY DEF ErasedInv
<1>7. ProgressInv'
  BY DEF ProgressInv, TreeWork, Clearing, Starting
<1>8. WholeInv'
  BY DEF WholeInv
<1> QED BY <1>1, <1>2, <1>3, <1>4, <1>5, <1>6, <1>7, <1>8

(* So does one that follows a request of Settings.                              *)
LEMMA BootRequestKeeps == ASSUME IInv, BootRequest PROVE IInv'
<1> USE DEF IInv, TypeOK, BootRequest, FreshBoot
<1>1. DriveOK'
  BY DEF DriveOK
<1>2. ShellOK'
  BY DEF DriveOK, ShellOK, Request, PCs
<1>3. HistoryOK'
  BY DEF HistoryOK
<1>4. FlagsOK'
  BY Zenon DEF FlagsOK
<1>5. AuthInv'
  <2>1. act' \in Actions
    BY DEF DriveOK, Request
  <2>2. pc' = "confirm" /\ UNCHANGED <<cont, records, grants>>
    OBVIOUS
  <2> QED BY <2>1, <2>2 DEF AuthInv, Held, TreeWork, WorkPCs, Clearing, Authorizing
<1>6. ErasedInv'
  BY DEF ErasedInv
<1>7. ProgressInv'
  BY DEF ProgressInv, TreeWork, Clearing, Starting
<1>8. WholeInv'
  BY DEF WholeInv, Whole
<1> QED BY <1>1, <1>2, <1>3, <1>4, <1>5, <1>6, <1>7, <1>8

(* GODDESS starts only without a journal.                                       *)
LEMMA BootPlainKeeps == ASSUME IInv, BootPlain PROVE IInv'
<1> USE DEF IInv, TypeOK, BootPlain, FreshBoot
<1>1. DriveOK'
  BY DEF DriveOK
<1>2. ShellOK'
  BY DEF ShellOK, PCs
<1>3. HistoryOK'
  BY DEF HistoryOK
<1>4. FlagsOK'
  BY Zenon DEF FlagsOK
<1>5. AuthInv'
  BY DEF AuthInv, Held, TreeWork, WorkPCs, Clearing, Authorizing
<1>6. ErasedInv'
  BY DEF ErasedInv
<1>7. ProgressInv'
  BY DEF ProgressInv, TreeWork, Clearing, Starting
<1>8. WholeInv'
  BY DEF WholeInv, Whole
<1> QED BY <1>1, <1>2, <1>3, <1>4, <1>5, <1>6, <1>7, <1>8

(* A new record stands for the authentication just given.                       *)
LEMMA IssueRecordKeeps == ASSUME IInv, NEW a \in Actions, IssueRecord(a) PROVE IInv'
<1> USE DEF IInv, TypeOK, IssueRecord
<1>1. DriveOK'
  BY DEF DriveOK, Record
<1>2. ShellOK'
  BY DEF ShellOK, PCs
<1>3. HistoryOK'
  BY DEF HistoryOK
<1>4. FlagsOK'
  BY Zenon DEF FlagsOK
<1>5. AuthInv'
  BY DEF AuthInv, Held, TreeWork, WorkPCs, Clearing
<1>6. ErasedInv'
  BY DEF ErasedInv
<1>7. ProgressInv'
  BY DEF ProgressInv, TreeWork, Clearing, Starting
<1>8. WholeInv'
  BY DEF WholeInv, Whole
<1> QED BY <1>1, <1>2, <1>3, <1>4, <1>5, <1>6, <1>7, <1>8

(* Binding a record to the boot keeps what it stands for.                       *)
LEMMA ArmRequestKeeps == ASSUME IInv, ArmRequest PROVE IInv'
<1> USE DEF IInv, TypeOK, ArmRequest, ShellGone
<1>1. DriveOK'
  <2>1. PICK r \in records :
           /\ r.digest = pend /\ r.action = act /\ r.origin = NoBoot
           /\ \/ records' = records
              \/ records' = (records \ {r}) \cup {[r EXCEPT !.origin = boot]}
           /\ \/ request' = request
              \/ request' = [action |-> act, digest |-> pend, origin |-> boot]
    OBVIOUS
  <2>2. r \in Record /\ boot \in BootIds
    BY DEF DriveOK, HistoryOK
  <2>3. [r EXCEPT !.origin = boot] \in Record
    BY <2>2 DEF Record
  <2>4. records' \subseteq Record
    BY <2>1, <2>3 DEF DriveOK
  <2>5. act \in Actions /\ pend \in Digest
    BY <2>1, <2>2 DEF Record
  <2>6. [action |-> act, digest |-> pend, origin |-> boot] \in Request
    BY <2>2, <2>5 DEF Request
  <2>7. request' \in Request \cup {None}
    BY <2>1, <2>6 DEF DriveOK
  <2>8. UNCHANGED <<journal, marker, cont, user, tree>>
    OBVIOUS
  <2> QED BY <2>4, <2>7, <2>8 DEF DriveOK
<1>2. ShellOK'
  BY DEF ShellOK, PCs
<1>3. HistoryOK'
  BY DEF HistoryOK
<1>4. FlagsOK'
  BY Zenon DEF FlagsOK
<1>5. AuthInv'
  BY DEF DriveOK, AuthInv, Held, Transaction, Record, TreeWork, WorkPCs, Clearing,
     Authorizing
<1>6. ErasedInv'
  BY DEF ErasedInv
<1>7. ProgressInv'
  BY DEF ProgressInv, TreeWork, Clearing, Starting
<1>8. WholeInv'
  BY DEF WholeInv, Whole
<1> QED BY <1>1, <1>2, <1>3, <1>4, <1>5, <1>6, <1>7, <1>8

(* A refused request changes no file.                                           *)
LEMMA ArmRefusedKeeps == ASSUME IInv, ArmRefused PROVE IInv'
<1> USE DEF IInv, TypeOK, ArmRefused
<1>1. DriveOK'
  BY DEF DriveOK
<1>2. ShellOK'
  BY DEF ShellOK, PCs
<1>3. HistoryOK'
  BY DEF HistoryOK
<1>4. FlagsOK'
  BY Zenon DEF FlagsOK
<1>5. AuthInv'
  BY DEF AuthInv, Held, TreeWork, WorkPCs, Clearing, Authorizing
<1>6. ErasedInv'
  BY DEF ErasedInv
<1>7. ProgressInv'
  BY DEF ProgressInv, TreeWork, Clearing, Starting
<1>8. WholeInv'
  BY DEF WholeInv, Whole
<1> QED BY <1>1, <1>2, <1>3, <1>4, <1>5, <1>6, <1>7, <1>8

(* A repair request carries no digest.                                          *)
LEMMA ArmRepairKeeps == ASSUME IInv, NEW a \in Actions, ArmRepair(a) PROVE IInv'
<1> USE DEF IInv, TypeOK, ArmRepair, ShellGone
<1>1. DriveOK'
  <2>1. [action |-> a, digest |-> 0, origin |-> boot] \in Request
    BY DEF Request, HistoryOK
  <2> QED BY <2>1 DEF DriveOK
<1>2. ShellOK'
  BY DEF ShellOK, PCs
<1>3. HistoryOK'
  BY DEF HistoryOK
<1>4. FlagsOK'
  BY Zenon DEF FlagsOK
<1>5. pc' \in {"off", "normal"} /\ pc = "normal"
  OBVIOUS
<1>6. AuthInv'
  BY <1>5 DEF AuthInv, Held, TreeWork, WorkPCs, Clearing, Authorizing
<1>7. ErasedInv'
  BY DEF ErasedInv
<1>8. ProgressInv'
  BY DEF ProgressInv, TreeWork, Clearing, Starting
<1>9. WholeInv'
  BY DEF WholeInv, Whole, ScopeOf
<1> QED BY <1>1, <1>2, <1>3, <1>4, <1>6, <1>7, <1>8, <1>9

(* Set-up creates a credential; no journal exists then.                         *)
LEMMA SetUpKeeps == ASSUME IInv, SetUp PROVE IInv'
<1> USE DEF IInv, TypeOK, SetUp
<1>1. DriveOK'
  BY DEF DriveOK
<1>2. ShellOK'
  BY DEF ShellOK
<1>3. HistoryOK'
  BY DEF HistoryOK
<1>4. FlagsOK'
  BY Zenon DEF FlagsOK
<1>5. AuthInv'
  BY DEF AuthInv, Held
<1>6. ErasedInv'
  BY DEF ErasedInv
<1>7. ProgressInv'
  BY DEF ProgressInv, Clearing
<1>8. WholeInv'
  BY DEF WholeInv, Whole
<1> QED BY <1>1, <1>2, <1>3, <1>4, <1>5, <1>6, <1>7, <1>8

(* A change of a directory in use leaves it in place.                           *)
LEMMA DamageKeeps == ASSUME IInv, NEW l \in Leaves, Damage(l) PROVE IInv'
<1> USE DEF IInv, TypeOK, Damage
<1>1. DriveOK'
  BY DEF DriveOK, LeafState
<1>2. ShellOK'
  BY DEF ShellOK
<1>3. HistoryOK'
  BY DEF HistoryOK
<1>4. FlagsOK'
  BY Zenon DEF FlagsOK
<1>5. AuthInv'
  BY DEF AuthInv, Held
<1>6. ErasedInv'
  BY DEF ErasedInv, ProgressInv
<1>7. ProgressInv'
  BY DEF ProgressInv, Clearing
<1>8. WholeInv'
  BY DEF WholeInv, Whole
<1> QED BY <1>1, <1>2, <1>3, <1>4, <1>5, <1>6, <1>7, <1>8

(* An expired record is one less.                                               *)
LEMMA ExpireKeeps == ASSUME IInv, Expire PROVE IInv'
<1> USE DEF IInv, TypeOK, Expire
<1>1. DriveOK'
  BY DEF DriveOK
<1>2. ShellOK'
  BY DEF ShellOK
<1>3. HistoryOK'
  BY DEF HistoryOK
<1>4. FlagsOK'
  BY Zenon DEF FlagsOK
<1>5. AuthInv'
  BY DEF AuthInv, Held
<1>6. ErasedInv'
  BY DEF ErasedInv
<1>7. ProgressInv'
  BY DEF ProgressInv, Item
<1>8. WholeInv'
  BY DEF WholeInv, Whole
<1> QED BY <1>1, <1>2, <1>3, <1>4, <1>5, <1>6, <1>7, <1>8

(* The user shuts down.                                                         *)
LEMMA ShutDownKeeps == ASSUME IInv, ShutDown PROVE IInv'
<1> USE DEF IInv, TypeOK, DriveOK, ShutDown, ShellGone
<1>1. ShellOK'
  BY DEF ShellOK, PCs
<1>2. HistoryOK'
  BY DEF HistoryOK
<1>3. FlagsOK'
  BY Zenon DEF FlagsOK
<1>4. request' \in Request \cup {None} /\ marker' \in {"armed", None}
  BY DEF ShellOK, AuthInv
<1>5. pc' \in {"off", "menu"} /\ idx' = 0 /\ prev' = None
  BY DEF ProgressInv, Starting
<1> QED BY <1>1, <1>2, <1>3, <1>4, <1>5, QuietKeeps

(* Choosing an action changes no file.                                          *)
LEMMA ChooseKeeps == ASSUME IInv, NEW a \in Actions, Choose(a) PROVE IInv'
<1> USE DEF IInv, TypeOK, Choose
<1>1. DriveOK'
  BY DEF DriveOK
<1>2. ShellOK'
  BY DEF ShellOK, PCs
<1>3. HistoryOK'
  BY DEF HistoryOK
<1>4. FlagsOK'
  BY Zenon DEF FlagsOK
<1>5. AuthInv'
  BY DEF AuthInv, Held, TreeWork, WorkPCs, Clearing, Authorizing
<1>6. ErasedInv'
  BY DEF ErasedInv
<1>7. ProgressInv'
  BY DEF ProgressInv, TreeWork, Clearing, Starting
<1>8. WholeInv'
  BY DEF WholeInv, Whole
<1> QED BY <1>1, <1>2, <1>3, <1>4, <1>5, <1>6, <1>7, <1>8

(* A restart from the menu has no journal to forget.                            *)
LEMMA RestartKeeps == ASSUME IInv, Restart PROVE IInv'
<1> USE DEF IInv, TypeOK, DriveOK, Restart, ShellGone
<1>1. ShellOK'
  BY DEF ShellOK, PCs
<1>2. HistoryOK'
  BY DEF HistoryOK
<1>3. FlagsOK'
  BY Zenon DEF FlagsOK
<1>4. request' \in Request \cup {None} /\ marker' \in {"armed", None}
  BY DEF ShellOK, AuthInv
<1>5. pc' \in {"off", "menu"} /\ idx' = 0 /\ prev' = None
  BY DEF ProgressInv, Starting
<1> QED BY <1>1, <1>2, <1>3, <1>4, <1>5, QuietKeeps

(* Power off forgets the shell only.                                            *)
LEMMA PowerOffKeeps == ASSUME IInv, PowerOff PROVE IInv'
<1> USE DEF IInv, TypeOK, DriveOK, PowerOff, ShellGone
<1>1. ShellOK'
  BY DEF ShellOK, PCs
<1>2. HistoryOK'
  BY DEF HistoryOK
<1>3. FlagsOK'
  BY Zenon DEF FlagsOK
<1>4. request' \in Request \cup {None} /\ marker' \in {"armed", None}
  BY DEF ShellOK, AuthInv
<1>5. pc' \in {"off", "menu"} /\ idx' = 0 /\ prev' = None
  BY DEF ProgressInv, Starting
<1> QED BY <1>1, <1>2, <1>3, <1>4, <1>5, QuietKeeps

(* Confirming changes no file.                                                  *)
LEMMA ConfirmKeeps == ASSUME IInv, Confirm PROVE IInv'
<1> USE DEF IInv, TypeOK, Confirm
<1>1. DriveOK'
  BY DEF DriveOK
<1>2. ShellOK'
  BY DEF ShellOK, PCs
<1>3. HistoryOK'
  BY DEF HistoryOK
<1>4. FlagsOK'
  BY Zenon DEF FlagsOK
<1>5. AuthInv'
  BY DEF AuthInv, Held, TreeWork, WorkPCs, Clearing, Authorizing
<1>6. ErasedInv'
  BY DEF ErasedInv
<1>7. ProgressInv'
  BY DEF ProgressInv, TreeWork, Clearing, Starting
<1>8. WholeInv'
  BY DEF WholeInv, Whole
<1> QED BY <1>1, <1>2, <1>3, <1>4, <1>5, <1>6, <1>7, <1>8

(* An authentication stays one when others follow.                               *)
LEMMA HeldGrows ==
    ASSUME grants \in Seq(Destructive), NEW a \in Destructive,
           grants' = grants \/ grants' = Append(grants, a)
    PROVE  \A d, b : Held(d, b) => Held(d, b)'
<1> SUFFICES ASSUME NEW d, NEW b, Held(d, b) PROVE Held(d, b)'
  OBVIOUS
<1>1. d \in 1 .. Len(grants) /\ grants[d] = b
  BY DEF Held
<1>2. CASE grants' = grants
  BY <1>1, <1>2 DEF Held
<1>3. CASE grants' = Append(grants, a)
  <2>1. Len(grants') = Len(grants) + 1 /\ grants'[d] = grants[d]
    BY <1>1, <1>3
  <2>2. d \in 1 .. Len(grants')
    BY <1>1, <2>1
  <2> QED BY <1>1, <2>1, <2>2 DEF Held
<1> QED BY <1>2, <1>3

(* Authorization hands on only a digest that stands for this action.             *)
LEMMA AuthorizeKeeps == ASSUME IInv, Authorize PROVE IInv'
<1> USE DEF IInv, TypeOK
<1> DEFINE d == DigestInHand
<1>1. /\ pc = "authorize" /\ act \in Destructive
      /\ UNCHANGED <<request, journal, marker, cont, records, cred, user, tree, boot,
                     replaced, faults>>
  BY DEF Authorize, AuthInv
<1>2. \/ pc' = "prepare" /\ ContinuationValid(d) /\ dig' = d /\ grants' = grants
         /\ UNCHANGED <<act, src, org, pend, settings, idx, prev>>
      \/ pc' = "continuation" /\ RecordValid(d) /\ pend' = d /\ grants' = grants
         /\ settings' = TRUE /\ UNCHANGED <<act, src, dig, org, idx, prev>>
      \/ pc' = "continuation" /\ cred /\ Len(grants) < MaxGrants
         /\ grants' = Append(grants, act) /\ pend' = Len(grants) + 1
         /\ settings' = FALSE /\ UNCHANGED <<act, src, dig, org, idx, prev>>
      \/ BackToMenu /\ grants' = grants
  BY DEF Authorize
<1>3. DriveOK'
  BY <1>1 DEF DriveOK
<1>4. d \in Digest
  BY DEF DigestInHand, DriveOK, ShellOK, Transaction
<1>5. ShellOK'
  BY <1>2, <1>4 DEF ShellOK, PCs
<1>6. HistoryOK'
  <2>1. grants' \in Seq(Destructive) /\ Len(grants') <= MaxGrants
    <3>1. CASE grants' = grants
      BY <3>1 DEF HistoryOK
    <3>2. CASE grants' = Append(grants, act) /\ Len(grants) < MaxGrants
      BY <1>1, <3>2 DEF HistoryOK
    <3> QED BY <1>2, <3>1, <3>2
  <2> QED BY <1>1, <2>1 DEF HistoryOK
<1>7. FlagsOK'
  BY <1>1, <1>2, Zenon DEF FlagsOK
<1>8. AuthInv'
  <2>1. \A e, b : Held(e, b) => Held(e, b)'
    BY <1>1, <1>2, HeldGrows DEF HistoryOK
  <2>2. /\ cont' # None => Held(cont.digest, cont.action)'
        /\ \A r \in records' : Held(r.digest, r.action)'
    BY <1>1, <2>1 DEF AuthInv, Held
  <2>3. CASE pc' = "prepare"
    <3>1. cont' = [action |-> act', digest |-> dig'] /\ act' = act
      BY <1>1, <1>2, <2>3 DEF ContinuationValid
    <3> QED BY <1>1, <2>2, <2>3, <3>1 DEF AuthInv, TreeWork, WorkPCs, Clearing,
               Authorizing
  <2>4. CASE pc' = "continuation"
    <3>1. act' = act
      BY <1>2, <2>4
    <3>2. Held(pend, act)' /\ cred'
      <4>1. CASE RecordValid(d) /\ pend' = d /\ grants' = grants
        <5>1. [digest |-> d, action |-> act, origin |-> org] \in records
          BY <4>1 DEF RecordValid
        <5>2. Held(d, act)
          BY <5>1 DEF AuthInv
        <5>3. cred
          BY <5>1 DEF ErasedInv
        <5> QED BY <1>1, <3>1, <4>1, <5>2, <5>3 DEF Held
      <4>2. CASE cred /\ grants' = Append(grants, act) /\ pend' = Len(grants) + 1
        BY <1>1, <3>1, <4>2 DEF Held, HistoryOK
      <4> QED BY <1>2, <2>4, <4>1, <4>2
    <3> QED BY <1>1, <2>2, <2>4, <3>1, <3>2 DEF AuthInv, TreeWork, WorkPCs, Clearing
  <2>5. CASE pc' = "menu"
    BY <2>2, <2>5 DEF AuthInv, TreeWork, WorkPCs, Clearing, Authorizing
  <2> QED BY <1>2, <2>3, <2>4, <2>5
<1>9. ErasedInv'
  BY <1>1 DEF ErasedInv
<1>10. ProgressInv'
  BY <1>1, <1>2 DEF ProgressInv, TreeWork, Clearing, Starting
<1>11. WholeInv'
  BY <1>1 DEF WholeInv, Whole
<1> QED BY <1>3, <1>5, <1>6, <1>7, <1>8, <1>9, <1>10, <1>11

(* The continuation names the authentication in hand.                           *)
LEMMA WriteContinuationKeeps == ASSUME IInv, WriteContinuation PROVE IInv'
<1> USE DEF IInv, TypeOK, WriteContinuation
<1>1. DriveOK'
  BY DEF DriveOK, ShellOK, AuthInv, Transaction, Authorizing
<1>2. ShellOK'
  BY DEF ShellOK, PCs
<1>3. HistoryOK'
  BY DEF HistoryOK
<1>4. FlagsOK'
  BY Zenon DEF FlagsOK
<1>5. AuthInv'
  BY DEF AuthInv, Held, TreeWork, WorkPCs, Clearing, Authorizing
<1>6. ErasedInv'
  BY DEF AuthInv, ErasedInv, Authorizing
<1>7. ProgressInv'
  BY DEF ProgressInv, TreeWork, Clearing, Authorizing, Starting
<1>8. WholeInv'
  BY DEF WholeInv, Whole
<1> QED BY <1>1, <1>2, <1>3, <1>4, <1>5, <1>6, <1>7, <1>8

(* Consuming the record leaves the continuation, or drops both.                 *)
LEMMA ConsumeRecordKeeps == ASSUME IInv, ConsumeRecord PROVE IInv'
<1> USE DEF IInv, TypeOK, ConsumeRecord
<1>1. DriveOK'
  BY DEF DriveOK
<1>2. ShellOK'
  BY DEF ShellOK, PCs
<1>3. HistoryOK'
  BY DEF HistoryOK
<1>4. FlagsOK'
  BY Zenon DEF FlagsOK
<1>5. AuthInv'
  BY DEF AuthInv, Held, TreeWork, WorkPCs, Clearing, Authorizing
<1>6. ErasedInv'
  BY DEF AuthInv, ErasedInv, Authorizing
<1>7. ProgressInv'
  BY DEF ProgressInv, TreeWork, Clearing, Authorizing, Starting
<1>8. WholeInv'
  BY DEF WholeInv, Whole
<1> QED BY <1>1, <1>2, <1>3, <1>4, <1>5, <1>6, <1>7, <1>8

(* The journal gets the action its continuation already names.                  *)
LEMMA JournalAuthorizedKeeps == ASSUME IInv, JournalAuthorized PROVE IInv'
<1> USE DEF IInv, TypeOK, JournalAuthorized, JournalWrite
<1>1. DriveOK'
  BY DEF DriveOK, AuthInv
<1>2. ShellOK'
  BY DEF ShellOK, PCs
<1>3. HistoryOK'
  BY DEF HistoryOK
<1>4. FlagsOK'
  BY Zenon DEF FlagsOK
<1>5. AuthInv'
  BY DEF AuthInv, Held, TreeWork, WorkPCs, Clearing, Authorizing
<1>6. ErasedInv'
  BY DEF AuthInv, ErasedInv
<1>7. ProgressInv'
  BY DEF ProgressInv, TreeWork, Clearing, Authorizing, Starting
<1>8. WholeInv'
  <2>1. CASE journal' = journal /\ replaced' = replaced
    BY <2>1 DEF WholeInv, Whole
  <2>2. CASE JournalWrite(pend)
    <3> SUFFICES ASSUME ~replaced' PROVE WholeInv'
      BY DEF WholeInv
    <3>1. ~replaced /\ (journal = None \/ journal.action = act)
      BY <2>2, Zenon DEF JournalWrite, FlagsOK
    <3>2. journal' # None /\ journal'.action = act
      BY <1>1, <2>2 DEF ShellOK, AuthInv, Transaction, Authorizing
    <3>3. UNCHANGED <<tree, user>>
      OBVIOUS
    <3>4. /\ \A l \in Leaves \ ScopeOf(act) : tree[l] \in {"good", "other"}
          /\ act # "reinstall" => user # "partly"
      BY <3>1 DEF WholeInv, Whole
    <3> QED BY <3>2, <3>3, <3>4 DEF WholeInv, ScopeOf
  <2> QED BY <2>1, <2>2
<1> QED BY <1>1, <1>2, <1>3, <1>4, <1>5, <1>6, <1>7, <1>8

(* The work starts with the journal naming the action.                          *)
LEMMA PrepareKeeps == ASSUME IInv, Prepare PROVE IInv'
<1> USE DEF IInv, TypeOK, Prepare, JournalWrite
<1>1. DriveOK'
  BY DEF DriveOK, ShellOK, AuthInv, Transaction
<1>2. ShellOK'
  BY DEF ShellOK, PCs
<1>3. HistoryOK'
  BY DEF HistoryOK
<1>4. FlagsOK'
  BY Zenon DEF FlagsOK
<1>5. AuthInv'
  BY DEF AuthInv, Held, TreeWork, WorkPCs, Clearing, Authorizing
<1>6. ErasedInv'
  BY DEF AuthInv, ErasedInv
<1>7. ProgressInv'
  BY DEF AuthInv, ProgressInv, TreeWork, Clearing, Starting
<1>8. WholeInv'
  <2>1. CASE journal' = journal /\ replaced' = replaced
    BY <2>1 DEF WholeInv, Whole
  <2>2. CASE JournalWrite(dig)
    <3> SUFFICES ASSUME ~replaced' PROVE WholeInv'
      BY DEF WholeInv
    <3>1. ~replaced /\ (journal = None \/ journal.action = act)
      BY <2>2, Zenon DEF JournalWrite, FlagsOK
    <3>2. journal' # None /\ journal'.action = act
      BY <1>1, <2>2 DEF ShellOK, AuthInv, Transaction
    <3>3. UNCHANGED <<tree, user>>
      OBVIOUS
    <3>4. /\ \A l \in Leaves \ ScopeOf(act) : tree[l] \in {"good", "other"}
          /\ act # "reinstall" => user # "partly"
      BY <3>1 DEF WholeInv, Whole
    <3> QED BY <3>2, <3>3, <3>4 DEF WholeInv, ScopeOf
  <2> QED BY <2>1, <2>2
<1> QED BY <1>1, <1>2, <1>3, <1>4, <1>5, <1>6, <1>7, <1>8

(* Staging a copy touches no installed directory.                               *)
LEMMA StageCopyKeeps == ASSUME IInv, StageCopy PROVE IInv'
<1> USE DEF IInv, TypeOK, StageCopy
<1>1. DriveOK'
  BY DEF DriveOK
<1>2. ShellOK'
  BY DEF ShellOK, PCs
<1>3. HistoryOK'
  BY DEF HistoryOK
<1>4. FlagsOK'
  BY Zenon DEF FlagsOK
<1>5. AuthInv'
  BY DEF AuthInv, Held, TreeWork, WorkPCs, Clearing, Authorizing
<1>6. ErasedInv'
  BY DEF ErasedInv
<1>7. ProgressInv'
  BY DEF ProgressInv, TreeWork, Clearing, Authorizing, Starting
<1>8. WholeInv'
  BY DEF WholeInv, Whole
<1> QED BY <1>1, <1>2, <1>3, <1>4, <1>5, <1>6, <1>7, <1>8

(* While a tree action works, no invariant but its own progress is about the     *)
(* leaves of the item it is replacing.                                           *)
LEMMA ItemStepKeeps ==
    ASSUME IInv, pc \in TreeWork, ShellOK', faults' \in 0 .. MaxFaults,
           UNCHANGED <<request, journal, marker, cont, records, cred, user, grants,
                       boot, replaced>>,
           settings' \in BOOLEAN,
           tree' \in [Leaves -> LeafState],
           \A l \in Leaves \ Item : tree'[l] = tree[l],
           pc' = "menu" \/ (pc' \in TreeWork /\ UNCHANGED <<act, dig>>)
    PROVE  TypeOK' /\ AuthInv' /\ ErasedInv' /\ WholeInv'
<1> USE DEF IInv, TypeOK
<1>1. DriveOK' /\ HistoryOK'
  BY DEF DriveOK, HistoryOK
<1>2. FlagsOK'
  BY Zenon DEF FlagsOK
<1>3. /\ act \in TreeActions
      /\ journal = [action |-> act, digest |-> dig]
      /\ act \in Destructive => cont = journal
  BY DEF AuthInv, ProgressInv, WorkPCs
<1>4. AuthInv'
  BY <1>3 DEF AuthInv, Held, TreeWork, WorkPCs, Clearing, Authorizing
<1>5. ErasedInv'
  BY <1>3 DEF ErasedInv
<1>6. WholeInv'
  <2>1. journal # None /\ journal.action = act /\ Item \subseteq ScopeOf(act)
    BY <1>3, ItemFacts DEF Transaction, ShellOK
  <2>2. \A l \in Leaves \ ScopeOf(act) : tree'[l] = tree[l]
    BY <2>1
  <2> QED BY <2>1, <2>2 DEF WholeInv
<1> QED BY <1>1, <1>2, <1>4, <1>5, <1>6

(* Moving the old tree aside: what earlier items restored outside the item stays.*)
LEMMA MoveAsideKeeps == ASSUME IInv, MoveAside PROVE IInv'
<1> USE DEF IInv, TypeOK
<1>1. /\ pc = "aside"
      /\ UNCHANGED <<request, journal, marker, cont, records, cred, user, grants,
                     boot, replaced>>
  BY DEF MoveAside
<1>2. pc \in TreeWork /\ tree \in [Leaves -> LeafState] /\ prev = None
  BY <1>1 DEF TreeWork, DriveOK, ProgressInv
<1>3. "absent" \in LeafState
  BY DEF LeafState
<1>4. Item \subseteq Leaves
  BY <1>2, ItemFacts
<1>5. CASE UNCHANGED <<act, src, dig, org, pend, settings, idx, tree, prev, faults>>
           /\ pc' = "movein"
  <2>1. ShellOK'
    BY <1>5 DEF ShellOK, PCs
  <2>2. ProgressInv'
    BY <1>1, <1>2, <1>5 DEF ProgressInv, Clearing, Authorizing, Starting
  <2> QED BY <1>1, <1>2, <1>5, <2>1, <2>2, ItemStepKeeps DEF TreeWork, HistoryOK,
             FlagsOK
<1>6. CASE /\ prev' = [l \in Item |-> tree[l]] /\ tree' = Below(All("absent"))
           /\ pc' = "movein"
           /\ UNCHANGED <<act, src, dig, org, pend, settings, idx, faults>>
  <2>1. prev' \in [Item -> LeafState] /\ DOMAIN prev' = Item
    BY <1>2, <1>4, <1>6
  <2>2. prev' \in Previous
    BY <1>4, <2>1 DEF Previous
  <2>3. ShellOK'
    BY <1>6, <2>2 DEF ShellOK, PCs
  <2>4. /\ tree' \in [Leaves -> LeafState]
        /\ \A l \in Leaves \ Item : tree'[l] = tree[l]
    BY <1>2, <1>3, <1>6, AllFacts, BelowFacts
  <2>5. ProgressInv'
    <3>1. \A i \in 1 .. idx : \A l \in Items[act][i] \ Item : tree'[l] = "good"
      <4>1. ASSUME NEW i \in 1 .. idx, NEW l \in Items[act][i] \ Item
            PROVE  tree'[l] = "good"
        <5>1. i \in 1 .. Len(Items[act])
          BY <1>2, ItemFacts DEF ShellOK
        <5>2. l \in Leaves
          BY <1>2, <5>1, ItemFacts
        <5> QED BY <1>1, <2>4, <5>2 DEF ProgressInv
      <4> QED BY <4>1
    <3>2. Item' = Item
      BY <1>6 DEF Item
    <3> QED BY <1>1, <1>2, <1>6, <2>1, <3>1, <3>2 DEF ProgressInv, Clearing,
               Authorizing, Starting
  <2> QED BY <1>1, <1>2, <1>6, <2>3, <2>4, <2>5, ItemStepKeeps DEF TreeWork, HistoryOK,
             FlagsOK
<1>7. CASE Fails /\ UNCHANGED tree
  <2>1. ShellOK' /\ faults' \in 0 .. MaxFaults
    BY <1>7 DEF ShellOK, PCs, HistoryOK
  <2>2. ProgressInv'
    BY <1>7 DEF ProgressInv, TreeWork, Clearing
  <2>3. settings' \in BOOLEAN
    BY <1>7, Zenon
  <2> QED BY <1>1, <1>2, <1>7, <2>1, <2>2, <2>3, ItemStepKeeps
<1> QED BY <1>5, <1>6, <1>7 DEF MoveAside

(* Going back to the menu with or without the old tree.                          *)
LEMMA PutBackKeeps ==
    ASSUME IInv, pc \in {"movein", "verify"}, NEW gone \in [Leaves -> LeafState],
           \A l \in Leaves \ Item : gone[l] = tree[l],
           PutBack(gone), faults' \in 0 .. MaxFaults,
           UNCHANGED <<request, journal, marker, cont, records, cred, user, grants,
                       boot, replaced>>
    PROVE  IInv'
<1> USE DEF IInv, TypeOK
<1>1. pc \in TreeWork /\ tree \in [Leaves -> LeafState]
  BY DEF TreeWork, DriveOK
<1>2. ShellOK' /\ pc' = "menu"
  BY DEF PutBack, ShellOK, PCs
<1>3. settings' \in BOOLEAN
  BY Zenon DEF PutBack
<1>4. ProgressInv'
  BY DEF PutBack, ProgressInv, TreeWork, Clearing
<1>5. /\ tree' \in [Leaves -> LeafState]
      /\ \A l \in Leaves \ Item : tree'[l] = tree[l]
  <2>1. CASE prev # None /\ tree' = Below(prev)
    <3>1. prev \in Previous /\ DOMAIN prev = Item
      BY <2>1 DEF ShellOK, ProgressInv
    <3> QED BY <1>1, <2>1, <3>1, BelowFacts
  <2> QED BY <2>1 DEF PutBack
<1> QED BY <1>1, <1>2, <1>3, <1>4, <1>5, ItemStepKeeps

(* Moving the copy in.                                                           *)
LEMMA MoveInKeeps == ASSUME IInv, MoveIn PROVE IInv'
<1> USE DEF IInv, TypeOK
<1>1. /\ pc = "movein"
      /\ UNCHANGED <<request, journal, marker, cont, records, cred, user, grants,
                     boot, replaced>>
  BY DEF MoveIn
<1>2. pc \in TreeWork /\ tree \in [Leaves -> LeafState]
  BY <1>1 DEF TreeWork, DriveOK
<1>3. ASSUME NEW v \in LeafState, tree' = Below(All(v)), pc' = "verify",
             UNCHANGED shell, faults' \in 0 .. MaxFaults
      PROVE  IInv'
  <2>1. ShellOK' /\ settings' \in BOOLEAN
    BY <1>3 DEF ShellOK, FlagsOK, PCs
  <2>2. /\ tree' \in [Leaves -> LeafState]
        /\ \A l \in Leaves \ Item : tree'[l] = tree[l]
    BY <1>2, <1>3, AllFacts, BelowFacts
  <2>3. ProgressInv'
    <3>1. \A i \in 1 .. idx : \A l \in Items[act][i] \ Item : tree'[l] = "good"
      <4>1. ASSUME NEW i \in 1 .. idx, NEW l \in Items[act][i] \ Item
            PROVE  tree'[l] = "good"
        <5>1. i \in 1 .. Len(Items[act])
          BY <1>2, ItemFacts DEF ShellOK
        <5>2. l \in Leaves
          BY <1>2, <5>1, ItemFacts
        <5> QED BY <1>1, <2>2, <5>2 DEF ProgressInv
      <4> QED BY <4>1
    <3>2. Item' = Item
      BY <1>3 DEF Item
    <3> QED BY <1>1, <1>3, <3>1, <3>2 DEF ProgressInv, TreeWork, Clearing, Authorizing,
               Starting
  <2> QED BY <1>1, <1>2, <1>3, <2>1, <2>2, <2>3, ItemStepKeeps DEF TreeWork
<1>4. CASE PutBack(tree) /\ Fault
  <2>1. faults' \in 0 .. MaxFaults
    BY <1>4 DEF HistoryOK
  <2> QED BY <1>1, <1>2, <1>4, <2>1, PutBackKeeps
<1>5. "good" \in LeafState /\ "other" \in LeafState
  BY DEF LeafState
<1>6. CASE tree' = Below(All("good")) /\ Goto("verify")
  BY <1>3, <1>5, <1>6 DEF HistoryOK
<1>7. CASE tree' = Below(All("other")) /\ pc' = "verify" /\ Fault /\ UNCHANGED shell
  BY <1>3, <1>5, <1>7 DEF HistoryOK
<1> QED BY <1>4, <1>6, <1>7 DEF MoveIn

(* A verified item is done; the last one completes the scope.                    *)
LEMMA VerifyTreeKeeps == ASSUME IInv, VerifyTree PROVE IInv'
<1> USE DEF IInv, TypeOK
<1>1. /\ pc = "verify"
      /\ UNCHANGED <<request, journal, marker, cont, records, cred, user, grants,
                     boot, replaced, faults>>
  BY DEF VerifyTree
<1>2. pc \in TreeWork /\ tree \in [Leaves -> LeafState] /\ faults \in 0 .. MaxFaults
  BY <1>1 DEF TreeWork, DriveOK, HistoryOK
<1>3. CASE PutBack(Below(All("absent")))
  <2>1. "absent" \in LeafState
    BY DEF LeafState
  <2>2. /\ Below(All("absent")) \in [Leaves -> LeafState]
        /\ \A l \in Leaves \ Item : Below(All("absent"))[l] = tree[l]
    BY <1>2, <2>1, AllFacts, BelowFacts
  <2> QED BY <1>1, <1>2, <1>3, <2>2, PutBackKeeps
<1>4. CASE /\ \A l \in Item : tree[l] = "good"
           /\ prev' = None /\ idx' = idx + 1
           /\ pc' = IF idx + 1 < Len(Items[act]) THEN "stage"
                    ELSE IF act \in Destructive THEN "uncontinue" ELSE "clearrequest"
           /\ UNCHANGED <<act, src, dig, org, pend, settings, tree>>
  <2>1. \A i \in 1 .. idx' : \A l \in Items[act][i] : tree[l] = "good"
    <3>1. ASSUME NEW i \in 1 .. idx', NEW l \in Items[act][i]
          PROVE  tree[l] = "good"
      <4>1. i \in 1 .. idx \/ i = idx + 1
        BY <1>4 DEF ShellOK
      <4> QED BY <1>1, <1>4, <4>1 DEF ProgressInv, Item
    <3> QED BY <3>1
  <2>2. ShellOK'
    BY <1>4 DEF ShellOK, PCs
  <2>3. /\ act \in TreeActions /\ act \in Actions
        /\ journal = [action |-> act, digest |-> dig] /\ journal # None
        /\ act \in Destructive => cont = journal
    BY <1>1 DEF AuthInv, ProgressInv, TreeWork, WorkPCs, Transaction, ShellOK
  <2>4. DriveOK' /\ HistoryOK'
    BY <1>1, <1>4 DEF DriveOK, HistoryOK
  <2>5. FlagsOK'
    BY <1>1, <1>4, Zenon DEF FlagsOK
  <2>6. ErasedInv' /\ WholeInv'
    BY <1>1, <1>4 DEF ErasedInv, WholeInv, Whole
  <2>7. AuthInv'
    BY <1>1, <1>4, <2>3 DEF AuthInv, Held, Authorizing
  <2>8. ProgressInv'
    <3>1. CASE idx + 1 < Len(Items[act])
      BY <1>4, <2>1, <2>3, <3>1 DEF ProgressInv, Clearing, Authorizing, Starting
    <3>2. CASE ~(idx + 1 < Len(Items[act]))
      <4>1. idx + 1 = Len(Items[act])
        BY <1>2, <3>2, ItemFacts DEF ShellOK
      <4>2. \A l \in ScopeOf(act) : tree[l] = "good"
        BY <1>4, <2>1, <2>3, <4>1 DEF ScopeOf
      <4>3. \A l \in ScopeOf(act') : tree'[l] = "good"
        BY <1>4, <4>2 DEF ScopeOf
      <4> QED BY <1>4, <2>3, <3>2, <4>3 DEF ProgressInv, TreeWork, Authorizing, Starting
    <3> QED BY <3>1, <3>2
  <2> QED BY <2>2, <2>4, <2>5, <2>6, <2>7, <2>8
<1> QED BY <1>1, <1>3, <1>4 DEF VerifyTree

(* Erasing is covered by journal and continuation.                              *)
LEMMA EraseKeeps == ASSUME IInv, Erase PROVE IInv'
<1> USE DEF IInv, TypeOK, Erase, Busy
<1>1. DriveOK'
  BY DEF DriveOK, LeafState
<1>2. ShellOK'
  BY DEF ShellOK, PCs
<1>3. HistoryOK'
  BY DEF HistoryOK
<1>4. FlagsOK'
  BY Zenon DEF FlagsOK
<1>5. AuthInv'
  BY DEF AuthInv, Held, TreeWork, WorkPCs, Clearing, Authorizing
<1>6. ErasedInv'
  BY DEF AuthInv, ErasedInv, ProgressInv, WorkPCs
<1>7. ProgressInv'
  BY DEF ProgressInv, TreeWork, Clearing, Authorizing, Starting
<1>8. WholeInv'
  <2>1. act = "reinstall" /\ journal = [action |-> act, digest |-> dig]
    BY DEF AuthInv, ProgressInv, WorkPCs
  <2>2. journal # None /\ journal.action = "reinstall" /\ journal' = journal
    BY <2>1 DEF ShellOK, Transaction
  <2> QED BY <2>2 DEF WholeInv, ScopeOf
<1> QED BY <1>1, <1>2, <1>3, <1>4, <1>5, <1>6, <1>7, <1>8

(* So is installing.                                                            *)
LEMMA InstallKeeps == ASSUME IInv, Install PROVE IInv'
<1> USE DEF IInv, TypeOK, Install, Busy
<1>1. DriveOK'
  <2>1. tree' \in [Leaves -> LeafState]
    BY DEF DriveOK, LeafState
  <2> QED BY <2>1 DEF DriveOK
<1>2. ShellOK'
  BY DEF ShellOK, PCs
<1>3. HistoryOK'
  BY DEF HistoryOK
<1>4. FlagsOK'
  BY Zenon DEF FlagsOK
<1>5. AuthInv'
  BY DEF AuthInv, Held, TreeWork, WorkPCs, Clearing, Authorizing
<1>6. ErasedInv'
  BY DEF ErasedInv
<1>7. ProgressInv'
  <2>1. pc' = "check" => tree' = tree /\ \A l \in Leaves : tree[l] \in {"good", "other"}
    BY DEF DriveOK, LeafState
  <2>2. pc' = "check" => \A l \in Leaves : tree'[l] \in {"good", "other"}
    BY <2>1
  <2> QED BY <2>2 DEF ProgressInv, TreeWork, Clearing, Authorizing, Starting
<1>8. WholeInv'
  <2>1. act = "reinstall" /\ journal = [action |-> act, digest |-> dig]
    BY DEF AuthInv, ProgressInv, WorkPCs
  <2>2. journal # None /\ journal.action = "reinstall" /\ journal' = journal
    BY <2>1 DEF ShellOK, Transaction
  <2> QED BY <2>2 DEF WholeInv, ScopeOf
<1> QED BY <1>1, <1>2, <1>3, <1>4, <1>5, <1>6, <1>7, <1>8

(* The check ends the work only if every leaf it looks at is good.              *)
LEMMA CheckInstallKeeps == ASSUME IInv, CheckInstall PROVE IInv'
<1> USE DEF IInv, TypeOK, CheckInstall
<1>1. DriveOK'
  BY DEF DriveOK
<1>2. ShellOK'
  BY DEF ShellOK, PCs
<1>3. HistoryOK'
  BY DEF HistoryOK
<1>4. FlagsOK'
  BY Zenon DEF FlagsOK
<1>5. AuthInv'
  BY DEF AuthInv, Held, TreeWork, WorkPCs, Clearing, Authorizing
<1>6. ErasedInv'
  BY DEF ErasedInv
<1>7. ProgressInv'
  BY DEF ProgressInv, ScopeOf, TreeWork, Clearing, Authorizing, Starting
<1>8. WholeInv'
  BY DEF WholeInv, Whole
<1> QED BY <1>1, <1>2, <1>3, <1>4, <1>5, <1>6, <1>7, <1>8

(* When the continuation goes everything is in place.                           *)
LEMMA RemoveContinuationKeeps == ASSUME IInv, RemoveContinuation PROVE IInv'
<1> USE DEF IInv, TypeOK, RemoveContinuation
<1>1. DriveOK'
  BY DEF DriveOK
<1>2. ShellOK'
  BY DEF ShellOK, PCs
<1>3. HistoryOK'
  BY DEF HistoryOK
<1>4. FlagsOK'
  BY Zenon DEF FlagsOK
<1>5. AuthInv'
  BY DEF ShellOK, AuthInv, Held, Transaction, TreeWork, WorkPCs, Clearing, Authorizing
<1>6. ErasedInv'
  BY DEF AuthInv, ErasedInv, ProgressInv, ScopeOf, WorkPCs
<1>7. ProgressInv'
  BY DEF ProgressInv, TreeWork, Clearing, Authorizing, Starting
<1>8. WholeInv'
  BY DEF WholeInv, Whole
<1> QED BY <1>1, <1>2, <1>3, <1>4, <1>5, <1>6, <1>7, <1>8

(* Clearing the request touches nothing else.                                   *)
LEMMA ClearRequestKeeps == ASSUME IInv, ClearRequest PROVE IInv'
<1> USE DEF IInv, TypeOK, ClearRequest
<1>1. DriveOK'
  BY DEF DriveOK
<1>2. ShellOK'
  BY DEF ShellOK, PCs
<1>3. HistoryOK'
  BY DEF HistoryOK
<1>4. FlagsOK'
  BY Zenon DEF FlagsOK
<1>5. AuthInv'
  BY DEF AuthInv, Held, TreeWork, WorkPCs, Clearing, Authorizing
<1>6. ErasedInv'
  BY DEF ErasedInv
<1>7. ProgressInv'
  BY DEF ProgressInv, TreeWork, Clearing, Authorizing, Starting
<1>8. WholeInv'
  BY DEF WholeInv, Whole
<1> QED BY <1>1, <1>2, <1>3, <1>4, <1>5, <1>6, <1>7, <1>8

(* Without the journal the system is whole, since its scope is good.            *)
LEMMA ClearJournalKeeps == ASSUME IInv, ClearJournal PROVE IInv'
<1> USE DEF IInv, TypeOK, ClearJournal
<1>1. DriveOK'
  BY DEF DriveOK
<1>2. ShellOK'
  BY DEF ShellOK, PCs
<1>3. HistoryOK'
  BY DEF HistoryOK
<1>4. FlagsOK'
  BY Zenon DEF FlagsOK
<1>5. AuthInv'
  BY DEF AuthInv, Held, TreeWork, WorkPCs, Clearing, Authorizing
<1>6. ErasedInv'
  BY DEF ErasedInv
<1>7. ProgressInv'
  BY DEF ProgressInv, TreeWork, Clearing, Authorizing, Starting
<1>8. WholeInv'
  <2>1. CASE journal' = journal
    BY <2>1 DEF WholeInv, Whole
  <2>2. CASE journal' = None
    <3>1. /\ journal \in Transaction /\ journal.action = act /\ act \in Actions
          /\ \A l \in ScopeOf(act) : Finished(act, l)
          /\ act = "reinstall" => user = "gone"
      BY DEF DriveOK, AuthInv, ProgressInv, Clearing
    <3>2. ~replaced' => Whole'
      BY <3>1 DEF WholeInv, Whole
    <3> QED BY <2>2, <3>2 DEF WholeInv
  <2> QED BY <2>1, <2>2
<1> QED BY <1>1, <1>2, <1>3, <1>4, <1>5, <1>6, <1>7, <1>8

(* The marker and the restart change no invariant.                              *)
LEMMA ArmNormalBootKeeps == ASSUME IInv, ArmNormalBoot PROVE IInv'
<1> USE DEF IInv, TypeOK, ArmNormalBoot, ShellGone
<1>1. DriveOK'
  BY DEF DriveOK
<1>2. ShellOK'
  BY DEF ShellOK, PCs
<1>3. HistoryOK'
  BY DEF HistoryOK
<1>4. FlagsOK'
  BY Zenon DEF FlagsOK
<1>5. AuthInv'
  BY DEF AuthInv, Held, TreeWork, WorkPCs, Clearing, Authorizing
<1>6. ErasedInv'
  BY DEF ErasedInv
<1>7. ProgressInv'
  BY DEF ProgressInv, TreeWork, Clearing
<1>8. WholeInv'
  BY DEF WholeInv, Whole
<1> QED BY <1>1, <1>2, <1>3, <1>4, <1>5, <1>6, <1>7, <1>8

(* A power cut forgets the shell only.                                          *)
LEMMA PowerCutKeeps == ASSUME IInv, PowerCut PROVE IInv'
<1> USE DEF IInv, TypeOK, DriveOK, PowerCut, ShellGone
<1>1. ShellOK'
  BY DEF ShellOK, PCs
<1>2. HistoryOK'
  BY DEF HistoryOK
<1>3. FlagsOK'
  BY Zenon DEF FlagsOK
<1>4. request' \in Request \cup {None} /\ marker' \in {"armed", None}
  BY DEF ShellOK, AuthInv
<1>5. pc' \in {"off", "menu"} /\ idx' = 0 /\ prev' = None
  BY DEF ProgressInv, Starting
<1> QED BY <1>1, <1>2, <1>3, <1>4, <1>5, QuietKeeps

-------------------------------------------------------------------------------
(* The installed system satisfies the invariant before its first boot.           *)
LEMMA InitHolds == Init => IInv
<1> SUFFICES ASSUME Init PROVE IInv
  OBVIOUS
<1>1. DriveOK /\ ShellOK /\ HistoryOK
  BY DEF Init, DriveOK, ShellOK, HistoryOK, LeafState, PCs
<1>2. FlagsOK
  BY Zenon DEF Init, FlagsOK
<1>3. AuthInv /\ ErasedInv
  BY DEF Init, AuthInv, ErasedInv, TreeWork, WorkPCs, Clearing, Authorizing
<1>4. ProgressInv /\ WholeInv
  BY DEF Init, ProgressInv, WholeInv, Whole, TreeWork, Clearing
<1> QED BY <1>1, <1>2, <1>3, <1>4 DEF IInv, TypeOK

(* Nothing changes when nothing happens.                                         *)
LEMMA StutterKeeps == ASSUME IInv, UNCHANGED vars PROVE IInv'
<1> USE DEF vars, IInv, TypeOK
<1>1. TypeOK'
  BY DEF DriveOK, ShellOK, HistoryOK, FlagsOK
<1>2. AuthInv' /\ ErasedInv'
  BY DEF AuthInv, ErasedInv, Held
<1>3. ProgressInv' /\ WholeInv'
  BY DEF ProgressInv, WholeInv, Whole, Item
<1> QED BY <1>1, <1>2, <1>3

(* Every step of the system keeps the invariant.                                 *)
LEMMA NextKeeps == IInv /\ [Next]_vars => IInv'
BY BootJournalKeeps, BootRequestKeeps, BootPlainKeeps, IssueRecordKeeps,
   ArmRequestKeeps, ArmRefusedKeeps, ArmRepairKeeps, SetUpKeeps, DamageKeeps,
   ExpireKeeps, ShutDownKeeps, ChooseKeeps, RestartKeeps, PowerOffKeeps, ConfirmKeeps,
   AuthorizeKeeps, WriteContinuationKeeps, ConsumeRecordKeeps, JournalAuthorizedKeeps,
   PrepareKeeps, StageCopyKeeps, MoveAsideKeeps, MoveInKeeps, VerifyTreeKeeps,
   EraseKeeps, InstallKeeps, CheckInstallKeeps, RemoveContinuationKeeps,
   ClearRequestKeeps, ClearJournalKeeps, ArmNormalBootKeeps, PowerCutKeeps, StutterKeeps
   DEF Next

(* The invariant holds in every reachable state.                                 *)
THEOREM AngelInvariant == Spec => []IInv
BY InitHolds, NextKeeps, PTL DEF Spec

(* Files, shell variables and history keep their types.                          *)
THEOREM AngelTypeCorrect == Spec => []TypeOK
<1>1. IInv => TypeOK
  BY DEF IInv
<1> QED BY <1>1, AngelInvariant, PTL

(* Reset and reinstall only ever work under an authentication given for them,    *)
(* with journal and continuation in place (angel_require_recovery_authorization).*)
THEOREM DestructionAlwaysGranted == Spec => []DestructionIsGranted
<1>1. IInv => DestructionIsGranted
  <2> SUFFICES ASSUME IInv, pc \in WorkPCs, act \in Destructive
               PROVE  /\ dig \in 1 .. Len(grants) /\ grants[dig] = act
                      /\ journal = [action |-> act, digest |-> dig] /\ cont = journal
    BY DEF DestructionIsGranted, Working, TreeWork, WorkPCs
  <2>1. journal = [action |-> act, digest |-> dig] /\ cont = journal
    BY DEF IInv, AuthInv
  <2>2. [action |-> act, digest |-> dig] \in Transaction
    BY DEF IInv, TypeOK, ShellOK, Transaction
  <2>3. cont # None /\ cont.digest = dig /\ cont.action = act
    BY <2>1, <2>2
  <2> QED BY <2>1, <2>3 DEF IInv, AuthInv, Held
<1> QED BY <1>1, AngelInvariant, PTL

(* An interrupted reset or reinstall with files still to replace can always be   *)
(* authorized again, although reinstall erases the credential.                   *)
THEOREM UnfinishedAlwaysResumable == Spec => []UnfinishedIsResumable
<1>1. IInv => UnfinishedIsResumable
  BY DEF IInv, ErasedInv, UnfinishedIsResumable, Resumable, ScopeOf
<1> QED BY <1>1, AngelInvariant, PTL

(* GODDESS never starts on a half-replaced or half-erased system unless another  *)
(* action overwrote the journal of the interrupted one.                          *)
THEOREM NormalBootAlwaysWhole == Spec => []NormalBootIsWhole
<1>1. IInv => NormalBootIsWhole
  BY DEF IInv, ProgressInv, WholeInv, NormalBootIsWhole
<1> QED BY <1>1, AngelInvariant, PTL

(* A journal is cleared only after its action replaced and verified everything,  *)
(* or, where a reinstall does not verify, copied it to the end.                  *)
THEOREM JournalAlwaysClearedWhenDone == Spec => JournalClearedWhenDone
<1> DEFINE Done == /\ \A l \in ScopeOf(journal.action) : Finished(journal.action, l)
                   /\ journal.action = "reinstall" => user = "gone"
<1>1. IInv /\ [Next]_vars /\ journal # None /\ journal' = None => Done
  <2> SUFFICES ASSUME IInv, [Next]_vars, journal # None, journal' = None PROVE Done
    OBVIOUS
  <2>1. ClearJournal
    <3>1. \/ UNCHANGED journal \/ ClearJournal
          \/ pc = "authorized" /\ JournalWrite(pend)
          \/ pc = "prepare" /\ JournalWrite(dig)
      BY DEF Next, vars, BootJournal, BootRequest, BootPlain, IssueRecord, ArmRequest,
         ArmRefused, ArmRepair, SetUp, Damage, Expire, ShutDown, Choose, Restart,
         PowerOff, Confirm, Authorize, WriteContinuation, ConsumeRecord,
         JournalAuthorized, Prepare, StageCopy, MoveAside, MoveIn, VerifyTree, Erase,
         Install, CheckInstall, RemoveContinuation, ClearRequest, ArmNormalBoot,
         PowerCut
    <3>2. ASSUME pc \in {"authorized", "prepare"}, NEW d \in Digest, JournalWrite(d)
          PROVE  FALSE
      <4>1. act \in Actions
        BY <3>2 DEF IInv, AuthInv, Authorizing
      <4>2. journal' = [action |-> act, digest |-> d]
        BY <3>2 DEF JournalWrite
      <4>3. journal' \in Transaction
        BY <4>1, <4>2 DEF Transaction
      <4> QED BY <4>3
    <3>3. pend \in Digest /\ dig \in Digest
      BY DEF IInv, TypeOK, ShellOK
    <3> QED BY <3>1, <3>2, <3>3
  <2> QED BY <2>1 DEF ClearJournal, IInv, AuthInv, ProgressInv, Clearing
<1>2. IInv /\ [Next]_vars =>
         [journal # None /\ journal' = None => Done]_vars
  BY <1>1
<1> QED BY <1>2, AngelInvariant, PTL DEF Spec, JournalClearedWhenDone

===============================================================================
