-------------------------- MODULE RootHealthWALProofs --------------------------
(* Proofs about RootHealthWAL for every set of targets and images, every set of *)
(* plans and every bound: what the durable state means at each moment, that the *)
(* undo entries cover every write, that COMMITTED means complete, and, for      *)
(* power cuts, that the journal's own recovery accepts what it finds.           *)
EXTENDS RootHealthWAL, WellFoundedInduction, FiniteSetTheorems, TLAPS

-------------------------------------------------------------------------------
(* Least and greatest elements.                                                 *)

(* Every nonempty set of naturals has a least element.                          *)
LEMMA NatMin ==
    ASSUME NEW T \in SUBSET Nat, T # {}
    PROVE  \E m \in T : \A x \in T : m <= x
<1> DEFINE R == {p \in Nat \X Nat : p[1] < p[2]}
<1>1. IsWellFoundedOn(R, Nat)
  <2>1. OpToRel(<, Nat) = R
    BY DEF OpToRel
  <2> QED BY <2>1, NatLessThanWellFounded
<1>2. PICK m \in T : \A y \in T : ~(<<y, m>> \in R)
  BY <1>1, WFMin
<1>3. ASSUME NEW x \in T PROVE m <= x
  <2>1. <<x, m>> \notin R /\ x \in Nat /\ m \in Nat
    BY <1>2
  <2>2. ~(x < m)
    BY <2>1
  <2> QED BY <2>1, <2>2
<1> QED BY <1>3

(* Every nonempty set of ordinals up to k has a greatest element, which LastOf   *)
(* returns.                                                                      *)
LEMMA LastOfIn ==
    ASSUME NEW k \in Nat, NEW T \in SUBSET (1 .. k), T # {}
    PROVE  LastOf(T) \in T /\ \A x \in T : x <= LastOf(T)
<1> DEFINE U == {n \in Nat : \E x \in T : n = k - x}
<1>1. U \in SUBSET Nat /\ U # {}
  <2>1. PICK x \in T : TRUE
    OBVIOUS
  <2>2. k - x \in U
    BY <2>1
  <2> QED BY <2>2
<1>2. PICK n \in U : \A y \in U : n <= y
  BY <1>1, NatMin
<1>3. PICK m \in T : n = k - m
  OBVIOUS
<1>4. ASSUME NEW x \in T PROVE x <= m
  <2>1. k - x \in U
    OBVIOUS
  <2> QED BY <1>2, <1>3, <2>1
<1> QED BY <1>4 DEF LastOf

-------------------------------------------------------------------------------
(* What a prefix of a plan makes of a volume.                                    *)

(* A target that no entry names keeps its image.                                 *)
LEMMA StagedZero ==
    ASSUME NEW P, NEW v, NEW t
    PROVE  Staged(P, v, 0, t) = v[t]
<1>1. {j \in 1 .. 0 : P[j].target = t} = {}
  OBVIOUS
<1> QED BY <1>1 DEF Staged

(* A target that no earlier entry names still has the image of the base volume. *)
LEMMA StagedNoneBelow ==
    ASSUME NEW P, NEW v, NEW k \in Nat \ {0}, NEW t,
           \A i \in 1 .. (k - 1) : P[i].target # t
    PROVE  Staged(P, v, k - 1, t) = v[t]
<1>1. {j \in 1 .. (k - 1) : P[j].target = t} = {}
  OBVIOUS
<1> QED BY <1>1 DEF Staged

(* The last entry decides the image of its target ...                            *)
LEMMA StagedHit ==
    ASSUME NEW P, NEW v, NEW k \in Nat \ {0}, NEW t, P[k].target = t
    PROVE  Staged(P, v, k, t) = P[k].new
<1> DEFINE J == {j \in 1 .. k : P[j].target = t}
<1>1. k \in J
  OBVIOUS
<1>2. LastOf(J) \in J /\ \A x \in J : x <= LastOf(J)
  BY <1>1, LastOfIn
<1>3. LastOf(J) = k
  BY <1>1, <1>2
<1> QED BY <1>1, <1>3 DEF Staged

(* ... and of no other.                                                          *)
LEMMA StagedMiss ==
    ASSUME NEW P, NEW v, NEW k \in Nat \ {0}, NEW t, P[k].target # t
    PROVE  Staged(P, v, k, t) = Staged(P, v, k - 1, t)
<1>1. {j \in 1 .. k : P[j].target = t} = {j \in 1 .. (k - 1) : P[j].target = t}
  OBVIOUS
<1> QED BY <1>1 DEF Staged

(* Staging depends on targets and new images only.                               *)
LEMMA StagedSame ==
    ASSUME NEW P, NEW Q, NEW v, NEW k \in Nat, NEW t,
           \A i \in 1 .. k : P[i].target = Q[i].target /\ P[i].new = Q[i].new
    PROVE  Staged(P, v, k, t) = Staged(Q, v, k, t)
<1> DEFINE J == {j \in 1 .. k : P[j].target = t}
<1>1. J = {j \in 1 .. k : Q[j].target = t}
  OBVIOUS
<1>2. CASE J = {}
  BY <1>1, <1>2 DEF Staged
<1>3. CASE J # {}
  <2>1. LastOf(J) \in J
    BY <1>3, LastOfIn
  <2>2. P[LastOf(J)].new = Q[LastOf(J)].new
    BY <2>1
  <2> QED BY <1>1, <1>3, <2>2 DEF Staged
<1> QED BY <1>2, <1>3

(* A staged image is an image of the volume or of the plan.                      *)
LEMMA StagedType ==
    ASSUME NEW P, NEW v \in Volumes, NEW k \in Nat, NEW t \in Targets,
           \A i \in 1 .. k : P[i].new \in Contents
    PROVE  Staged(P, v, k, t) \in Contents
<1> DEFINE J == {j \in 1 .. k : P[j].target = t}
<1>1. CASE J = {}
  BY <1>1 DEF Staged, Volumes
<1>2. CASE J # {}
  <2>1. LastOf(J) \in J
    BY <1>2, LastOfIn
  <2> QED BY <1>2, <2>1 DEF Staged
<1> QED BY <1>1, <1>2

(* rh_wal_prepare_plan: a prepared plan is a sequence of entries whose old       *)
(* images are the staged ones, and stages what its operations stage.             *)
LEMMA PlannedFacts ==
    ASSUME NEW p \in Plans, NEW v \in Volumes
    PROVE  /\ Planned(p.ops, v) \in Seq(Entry)
           /\ Len(Planned(p.ops, v)) = Len(p.ops)
           /\ \A i \in 1 .. Len(p.ops) :
                 Planned(p.ops, v)[i].old =
                    Staged(Planned(p.ops, v), v, i - 1, Planned(p.ops, v)[i].target)
           /\ \A t \in Targets :
                 Staged(Planned(p.ops, v), v, Len(p.ops), t) =
                    Staged(p.ops, v, Len(p.ops), t)
<1> DEFINE n == Len(p.ops)
           Q == Planned(p.ops, v)
<1>1. p.ops \in Seq(Op) /\ n \in Nat
  BY WalAssumption
<1>2. \A i \in 1 .. n : p.ops[i] \in Op
  BY <1>1
<1>3. ASSUME NEW i \in 1 .. n
      PROVE  /\ Q[i].target = p.ops[i].target /\ Q[i].new = p.ops[i].new
             /\ Q[i].old = Staged(p.ops, v, i - 1, p.ops[i].target)
             /\ Q[i] \in Entry
  <2>1. Q[i] = [kind |-> p.ops[i].kind, target |-> p.ops[i].target,
                new |-> p.ops[i].new,
                old |-> Staged(p.ops, v, i - 1, p.ops[i].target)]
    BY DEF Planned
  <2>2. Staged(p.ops, v, i - 1, p.ops[i].target) \in Contents
    <3>1. i - 1 \in Nat /\ p.ops[i].target \in Targets
      BY <1>1, <1>2 DEF Op
    <3>2. \A j \in 1 .. (i - 1) : p.ops[j].new \in Contents
      BY <1>1, <1>2 DEF Op
    <3> QED BY <3>1, <3>2, StagedType
  <2> QED BY <1>2, <2>1, <2>2 DEF Op, Entry
<1>4. Q \in Seq(Entry) /\ Len(Q) = n
  <2>1. Q = [i \in 1 .. n |-> Q[i]]
    BY DEF Planned
  <2>2. Q \in [1 .. n -> Entry]
    BY <1>3, <2>1
  <2> QED BY <1>1, <2>2
<1>5. ASSUME NEW i \in 1 .. n
      PROVE  Q[i].old = Staged(Q, v, i - 1, Q[i].target)
  <2>1. \A j \in 1 .. (i - 1) :
            Q[j].target = p.ops[j].target /\ Q[j].new = p.ops[j].new
    BY <1>1, <1>3
  <2>2. i - 1 \in Nat
    BY <1>1
  <2>3. Staged(Q, v, i - 1, Q[i].target) = Staged(p.ops, v, i - 1, Q[i].target)
    BY <2>1, <2>2, StagedSame
  <2> QED BY <1>3, <2>3
<1>6. ASSUME NEW t \in Targets
      PROVE  Staged(Q, v, n, t) = Staged(p.ops, v, n, t)
  BY <1>1, <1>3, StagedSame
<1> QED BY <1>4, <1>5, <1>6

-------------------------------------------------------------------------------
(* The inductive invariant.  UndoCoversWrites and CommittedIsWhole speak of the  *)
(* newest durable header only; what keeps them true is how the process's memory, *)
(* the two superblocks and the volume relate at each point of its program.       *)

(* Volume d is what the first k entries of plan P make of b.                      *)
DiskIs(P, k, d, b) == \A t \in Targets : d[t] = Staged(P, b, k, t)

(* P was prepared on volume b.                                                    *)
PreparedOn(P, b) == \E p \in Plans : P = Planned(p.ops, b)

(* The first n entries are journaled and account for every difference between    *)
(* the volume d and the volume b the plan was prepared on.                        *)
Undoable(P, n, d, e, u, b) ==
    /\ n <= Len(P) /\ Len(P) <= MaxEntries
    /\ PreparedOn(P, b)
    /\ \A i \in 1 .. n : e[i] = P[i] /\ u[i] = P[i].old
    /\ \A t \in Targets : d[t] # b[t] => \E i \in 1 .. n : P[i].target = t

(* What a durable header guarantees of volume, descriptors and payloads.          *)
Good(h, d, e, u, b) ==
    /\ h.state = "EMPTY" => d \in Volumes
    /\ h.state \in {"PREPARING", "APPLYING", "ROLLBACK"} =>
          Undoable(h.plan, h.cnt, d, e, u, b)
    /\ h.state = "COMMITTED" =>
          /\ h.cnt = Len(h.plan) /\ d \in Volumes
          /\ PreparedOn(h.plan, b)
          /\ DiskIs(h.plan, Len(h.plan), d, b)

Away == {"off", "refused"}
Failing == {"abort", "rollback"}

GoodNow(h) == Good(h, disk, desc, undo, base)

(* The slot that is not selected holds nothing newer.                             *)
OtherOlder(f, s) ==
    \/ f[Other(s)] = Invalid
    \/ f[Other(s)] = f[s]
    \/ f[Other(s)].gen < f[s].gen

(* No process: the newest header on the device can be trusted.                    *)
AwayInv == pc \in Away => (Valid(0) \/ Valid(1)) /\ GoodNow(Newest)

(* A process: its selected header can be trusted and, but for a failed publish,   *)
(* is the newest; memory is that header, or one entry ahead of it.                *)
SelectedInv ==
    /\ pc \notin Away => Valid(sel) /\ GoodNow(slot[sel])
    /\ pc \notin Away \cup Failing => OtherOlder(slot, sel)
    /\ pc \notin Away \cup Failing \cup {"applying"} => mem = slot[sel]

FailingInv ==
    pc \in Failing =>
        /\ \/ OtherOlder(slot, sel)
           \/ /\ Valid(Other(sel)) /\ slot[Other(sel)].gen > slot[sel].gen
              /\ slot[Other(sel)].state # "EMPTY"
              /\ GoodNow(slot[Other(sel)])
        /\ mem.gen = slot[sel].gen /\ mem.state = slot[sel].state
        /\ mem.state \in {"EMPTY", "PREPARING", "APPLYING"}
        /\ pc = "rollback" => mem.state # "EMPTY"
        /\ mem.state # "EMPTY" => Undoable(mem.plan, mem.cnt, disk, desc, undo, base)

(* The commit loop: the volume is exactly what the entries so far make of base.   *)
CommitInv ==
    /\ pc \in {"undo", "desc"} =>
          /\ mem.state \in {"PREPARING", "APPLYING"}
          /\ mem.cnt < Len(mem.plan)
          /\ disk \in Volumes /\ DiskIs(mem.plan, mem.cnt, disk, base)
    /\ pc = "desc" => undo[mem.cnt + 1] = mem.plan[mem.cnt + 1].old
    /\ pc = "applying" =>
          /\ mem.cnt > 0
          /\ mem.gen = slot[sel].gen /\ mem.state = slot[sel].state
          /\ mem.state \in {"PREPARING", "APPLYING"}
          /\ Undoable(mem.plan, mem.cnt, disk, desc, undo, base)
    /\ pc \in {"applying", "target"} =>
          disk \in Volumes /\ DiskIs(mem.plan, mem.cnt - 1, disk, base)
    /\ pc = "target" => mem.state = "APPLYING" /\ mem.cnt > 0
    /\ pc = "commit" =>
          /\ mem.state = "APPLYING" /\ mem.cnt = Len(mem.plan)
          /\ disk \in Volumes /\ DiskIs(mem.plan, mem.cnt, disk, base)
    /\ pc = "committed" => mem.state = "COMMITTED"
    /\ pc = "ready" => mem.state = "EMPTY"

(* Rollback: a target that no remaining entry names has its old image back.       *)
RestoreInv ==
    /\ pc = "restore" =>
          /\ mem.state = "ROLLBACK"
          /\ cursor \in 1 .. mem.cnt
          /\ \A t \in Targets :
                (\A i \in 1 .. cursor : mem.plan[i].target # t) => disk[t] = base[t]
    /\ pc = "finalize" =>
          mem.state \in {"COMMITTED", "ROLLBACK"} /\ (mem.state = "ROLLBACK" => disk = base)
    /\ pc = "recover" => mem.state # "EMPTY"

IInv == TypeOK /\ AwayInv /\ SelectedInv /\ FailingInv /\ CommitInv /\ RestoreInv

-------------------------------------------------------------------------------
(* The newest header of a pair of superblocks.                                   *)

NewestIn(f) ==
    IF f[0] = Invalid THEN f[1]
    ELSE IF f[1] = Invalid THEN f[0]
    ELSE IF f[1].gen > f[0].gen THEN f[1] ELSE f[0]

SlotPairs == [Slots -> Header \cup {Invalid}]

(* The newest header of the model is the one NewestIn picks from the slots,     *)
(* before and after a step.                                                     *)
LEMMA NewestIsNewestIn ==
    Newest = NewestIn(slot) /\ Newest' = NewestIn(slot')
BY DEF Newest, NewestIn, Selected, Valid

(* With one slot valid, the newest header is valid; it is that slot's unless the  *)
(* other slot holds a newer one.                                                  *)
LEMMA NewestFacts ==
    ASSUME NEW f \in SlotPairs, NEW s \in Slots, f[s] # Invalid
    PROVE  /\ Other(s) \in Slots /\ Other(s) # s /\ Other(Other(s)) = s
           /\ f[0] # Invalid \/ f[1] # Invalid
           /\ NewestIn(f) \in {f[s], f[Other(s)]}
           /\ NewestIn(f) \in Header
           /\ OtherOlder(f, s) => NewestIn(f) = f[s]
           /\ f[Other(s)] # Invalid /\ f[Other(s)].gen > f[s].gen =>
                 NewestIn(f) = f[Other(s)]
<1>1. s = 0 \/ s = 1
  BY DEF Slots
<1>2. f[0] \in Header \cup {Invalid} /\ f[1] \in Header \cup {Invalid}
  BY DEF SlotPairs, Slots
<1>3. \A h \in Header : h.gen \in Nat
  BY DEF Header
<1>4. CASE s = 0
  BY <1>2, <1>3, <1>4 DEF Other, Slots, NewestIn, OtherOlder
<1>5. CASE s = 1
  BY <1>2, <1>3, <1>5 DEF Other, Slots, NewestIn, OtherOlder
<1> QED BY <1>1, <1>4, <1>5

(* rh_wal_publish cut short: whatever is left in the slot it wrote, the newest    *)
(* header is one that was good before or the one being published.                 *)
LEMMA LandedGood ==
    ASSUME NEW f \in SlotPairs, NEW s \in Slots, f[s] # Invalid,
           NEW h \in Header, NEW d, NEW e, NEW u, NEW b,
           Good(f[s], d, e, u, b), Good(h, d, e, u, b),
           \/ OtherOlder(f, s)
           \/ f[Other(s)] # Invalid /\ Good(f[Other(s)], d, e, u, b),
           NEW x \in {f[Other(s)], h, Invalid}
    PROVE  LET g == [f EXCEPT ![Other(s)] = x]
           IN  /\ g \in SlotPairs
               /\ g[0] # Invalid \/ g[1] # Invalid
               /\ Good(NewestIn(g), d, e, u, b)
<1> DEFINE g == [f EXCEPT ![Other(s)] = x]
<1>1. Other(s) \in Slots /\ Other(s) # s
  BY NewestFacts
<1>2. g \in SlotPairs /\ g[s] = f[s] /\ g[Other(s)] = x
  BY <1>1 DEF SlotPairs
<1>3. /\ NewestIn(g) \in {g[s], g[Other(s)]} /\ NewestIn(g) \in Header
      /\ g[0] # Invalid \/ g[1] # Invalid
      /\ OtherOlder(g, s) => NewestIn(g) = g[s]
  <2> HIDE DEF g
  <2> QED BY <1>2, NewestFacts
<1>4. Good(NewestIn(g), d, e, u, b)
  <2> HIDE DEF g
  <2>1. CASE x = h
    BY <1>2, <1>3, <2>1
  <2>2. CASE x = Invalid
    BY <1>2, <1>3, <2>2, InvalidAssumption
  <2>3. CASE x = f[Other(s)] /\ OtherOlder(f, s)
    <3>1. OtherOlder(g, s)
      BY <1>2, <2>3 DEF OtherOlder
    <3> QED BY <1>2, <1>3, <3>1
  <2>4. CASE x = f[Other(s)] /\ Good(f[Other(s)], d, e, u, b)
    BY <1>2, <1>3, <2>4
  <2> QED BY <2>1, <2>2, <2>3, <2>4
<1> QED BY <1>2, <1>3, <1>4

(* A published header is the newest.                                              *)
LEMMA PublishedNewest ==
    ASSUME NEW f \in SlotPairs, NEW s \in Slots, f[s] # Invalid,
           NEW h \in Header, h.gen > f[s].gen
    PROVE  LET g == [f EXCEPT ![Other(s)] = h]
           IN  /\ g \in SlotPairs /\ Other(s) \in Slots
               /\ g[Other(s)] = h /\ g[Other(s)] # Invalid
               /\ OtherOlder(g, Other(s))
               /\ NewestIn(g) = h
<1> DEFINE g == [f EXCEPT ![Other(s)] = h]
<1>1. Other(s) \in Slots /\ Other(s) # s /\ Other(Other(s)) = s
  BY NewestFacts
<1>2. g \in SlotPairs /\ g[s] = f[s] /\ g[Other(s)] = h
  BY <1>1 DEF SlotPairs
<1>3. h # Invalid
  BY InvalidAssumption
<1>4. g[Other(Other(s))].gen < g[Other(s)].gen
  BY <1>1, <1>2 DEF Header, SlotPairs
<1>5. OtherOlder(g, Other(s))
  BY <1>4 DEF OtherOlder
<1>6. NewestIn(g) = h
  <2> HIDE DEF g
  <2> QED BY <1>1, <1>2, <1>3, <1>5, NewestFacts
<1> QED BY <1>1, <1>2, <1>3, <1>5, <1>6

-------------------------------------------------------------------------------
(* How writes affect what the journal guarantees.                                 *)

(* A header whose transaction is in doubt is good when its prefix is undoable.    *)
LEMMA GoodInDoubt ==
    ASSUME NEW h, NEW d, NEW e, NEW u, NEW b,
           h.state \in {"PREPARING", "APPLYING", "ROLLBACK"}
    PROVE  Good(h, d, e, u, b) <=> Undoable(h.plan, h.cnt, d, e, u, b)
BY DEF Good

(* Writing the next payload or descriptor leaves the prefix undoable.             *)
LEMMA UndoableNextEntry ==
    ASSUME NEW P \in Seq(Entry), NEW n \in Nat, NEW d, NEW b,
           NEW e \in [Ordinals -> Entry \cup {Invalid}], NEW u \in [Ordinals -> Images],
           NEW x, NEW y,
           Undoable(P, n, d, e, u, b)
    PROVE  Undoable(P, n, d, [e EXCEPT ![n + 1] = x], [u EXCEPT ![n + 1] = y], b)
<1> DEFINE ee == [e EXCEPT ![n + 1] = x]
           uu == [u EXCEPT ![n + 1] = y]
<1>1. n <= Len(P) /\ Len(P) <= MaxEntries /\ Len(P) \in Nat /\ MaxEntries \in Nat
  BY WalAssumption DEF Undoable
<1>2. \A i \in 1 .. n : ee[i] = e[i] /\ uu[i] = u[i]
  BY <1>1 DEF Ordinals
<1> QED BY <1>2 DEF Undoable

(* ... and, once both are there, extends it by the entry.                         *)
LEMMA UndoableExtends ==
    ASSUME NEW P \in Seq(Entry), NEW n \in Nat, NEW d, NEW b, NEW e, NEW u,
           Undoable(P, n, d, e, u, b), n < Len(P),
           e[n + 1] = P[n + 1], u[n + 1] = P[n + 1].old
    PROVE  Undoable(P, n + 1, d, e, u, b)
<1>1. n + 1 <= Len(P)
  OBVIOUS
<1>2. \A i \in 1 .. (n + 1) : i \in 1 .. n \/ i = n + 1
  OBVIOUS
<1>3. 1 .. n \subseteq 1 .. (n + 1)
  OBVIOUS
<1> QED BY <1>1, <1>2, <1>3 DEF Undoable

(* A write to a target that the prefix names keeps it undoable.                   *)
LEMMA UndoableWrite ==
    ASSUME NEW P, NEW n \in Nat, NEW d \in [Targets -> Images], NEW b, NEW e, NEW u,
           NEW x, NEW k \in 1 .. n,
           Undoable(P, n, d, e, u, b)
    PROVE  Undoable(P, n, [d EXCEPT ![P[k].target] = x], e, u, b)
<1>1. ASSUME NEW t \in Targets, [d EXCEPT ![P[k].target] = x][t] # b[t]
      PROVE  \E i \in 1 .. n : P[i].target = t
  BY <1>1 DEF Undoable
<1> QED BY <1>1 DEF Undoable

-------------------------------------------------------------------------------
(* The invariant is inductive: the steps on which the process ends or only reads. *)

Durable == (slot[0] # Invalid \/ slot[1] # Invalid) /\ GoodNow(NewestIn(slot))

(* At every point the newest durable header can be trusted.                       *)
LEMMA NewestGood ==
    ASSUME IInv
    PROVE  Durable /\ Durable = ((Valid(0) \/ Valid(1)) /\ GoodNow(Newest))
<1>1. Newest = NewestIn(slot)
  BY NewestIsNewestIn
<1>2. CASE pc \in Away
  BY <1>1, <1>2 DEF IInv, AwayInv, Durable, Valid
<1>3. CASE pc \notin Away
  <2>1. /\ slot \in SlotPairs /\ sel \in Slots /\ slot[sel] # Invalid
        /\ GoodNow(slot[sel])
        /\ \/ OtherOlder(slot, sel)
           \/ /\ slot[Other(sel)] # Invalid /\ slot[Other(sel)].gen > slot[sel].gen
              /\ GoodNow(slot[Other(sel)])
    BY <1>3 DEF IInv, TypeOK, SlotPairs, SelectedInv, FailingInv, Valid
  <2> QED BY <1>1, <2>1, NewestFacts DEF Durable, Valid
<1> QED BY <1>2, <1>3

(* A step that ends the process keeps the invariant if the device is left with a  *)
(* newest header that can be trusted.                                             *)
LEMMA GoneKeeps ==
    ASSUME IInv, ProcessGone, Durable',
           disk' \in [Targets -> Images], slot' \in SlotPairs,
           desc' \in [Ordinals -> Entry \cup {Invalid}], undo' \in [Ordinals -> Images],
           base' \in Volumes, txs' \in Nat, faults' \in Nat
    PROVE  IInv'
<1>1. EmptyHeader(0) \in Header
  BY DEF EmptyHeader, Header, States
<1>2. TypeOK'
  BY <1>1 DEF ProcessGone, TypeOK, SlotPairs, PCs, Slots
<1>3. AwayInv'
  BY NewestIsNewestIn DEF Durable, AwayInv, Valid, GoodNow
<1>4. pc' = "off"
  BY DEF ProcessGone
<1>5. SelectedInv' /\ FailingInv' /\ CommitInv' /\ RestoreInv'
  BY <1>4 DEF SelectedInv, FailingInv, CommitInv, RestoreInv, Away, Failing
<1> QED BY <1>2, <1>3, <1>5 DEF IInv

(* A process that ends (power cut, refusal, leave) without touching the device  *)
(* keeps the invariant.                                                         *)
LEMMA GoneQuietly ==
    ASSUME IInv, ProcessGone, UNCHANGED <<disk, slot, desc, undo, base, txs>>,
           faults' \in Nat
    PROVE  IInv'
<1>1. Durable'
  BY NewestGood DEF Durable, GoodNow
<1> QED BY <1>1, GoneKeeps DEF IInv, TypeOK, SlotPairs

(* A freshly formatted journal, two EMPTY superblocks, satisfies the invariant. *)
LEMMA InitIInv == Init => IInv
<1> SUFFICES ASSUME Init PROVE IInv
  OBVIOUS
<1>1. \A g \in Nat : EmptyHeader(g) \in Header
  BY DEF EmptyHeader, Header, States
<1>2. TypeOK
  <2>1. disk \in Volumes /\ Volumes \subseteq [Targets -> Images]
    BY WalAssumption DEF Init, Volumes, Images
  <2>2. slot \in [Slots -> Header \cup {Invalid}]
    BY <1>1 DEF Init, Slots
  <2> QED BY <1>1, <2>1, <2>2 DEF Init, TypeOK, Images, PCs, Slots
<1>3. slot[1] = EmptyHeader(2) /\ slot[0] = EmptyHeader(1)
  BY DEF Init, Slots
<1>4. slot[0] # Invalid /\ slot[1] # Invalid
  BY <1>1, <1>3, InvalidAssumption
<1>5. Newest = slot[0] \/ Newest = slot[1]
  BY DEF Newest, Selected
<1>6. GoodNow(Newest)
  BY <1>3, <1>5, WalAssumption DEF Init, GoodNow, Good, EmptyHeader, Volumes
<1>7. AwayInv /\ SelectedInv /\ FailingInv /\ CommitInv /\ RestoreInv
  BY <1>4, <1>6 DEF Init, AwayInv, SelectedInv, FailingInv, CommitInv, RestoreInv,
                    Away, Failing, Valid
<1> QED BY <1>2, <1>7 DEF IInv

(* Selecting the newer superblock (rh_wal_locate) keeps the invariant.          *)
LEMMA LocateIInv == IInv /\ Locate => IInv'
<1> SUFFICES ASSUME IInv, Locate PROVE IInv'
  OBVIOUS
<1>1. (Valid(0) \/ Valid(1)) /\ GoodNow(Newest)
  BY NewestGood
<1>2. /\ sel' \in Slots /\ slot[sel'] # Invalid /\ mem' = slot[sel']
      /\ OtherOlder(slot, sel')
  <2>1. slot[0] \in Header \cup {Invalid} /\ slot[1] \in Header \cup {Invalid}
    BY DEF IInv, TypeOK, Slots
  <2>2. \A h \in Header : h.gen \in Nat
    BY DEF Header
  <2> QED BY <1>1, <2>1, <2>2
        DEF Locate, Selected, Newest, Valid, PairAccepted, OtherOlder, Other, Slots
<1>3. mem' \in Header /\ pc' \in {"reconstruct", "recover", "ready"}
  BY <1>2 DEF IInv, TypeOK, Locate
<1>4. TypeOK'
  BY <1>2, <1>3 DEF IInv, TypeOK, Locate, PCs
<1>5. pc' = "recover" => mem'.state # "EMPTY"
  BY DEF Locate
<1>6. pc' = "ready" => mem'.state = "EMPTY"
  BY DEF Locate
<1>7. SelectedInv'
  BY <1>1, <1>2 DEF SelectedInv, Locate, Valid, GoodNow
<1>8. AwayInv' /\ FailingInv' /\ CommitInv' /\ RestoreInv'
  BY <1>3, <1>5, <1>6 DEF AwayInv, FailingInv, CommitInv, RestoreInv, Away, Failing
<1> QED BY <1>4, <1>7, <1>8 DEF IInv

(* A refusal reads only, and leaves the device as it was found.                   *)
LEMMA RefuseIInv ==
    ASSUME IInv, pc' = "refused",
           UNCHANGED <<disk, slot, desc, undo, sel, mem, cursor, base, txs, faults>>
    PROVE  IInv'
<1>1. TypeOK'
  BY DEF IInv, TypeOK, PCs
<1>2. AwayInv'
  BY NewestGood DEF AwayInv, Valid, GoodNow, Newest, Selected
<1>3. SelectedInv' /\ FailingInv' /\ CommitInv' /\ RestoreInv'
  BY DEF SelectedInv, FailingInv, CommitInv, RestoreInv, Away, Failing
<1> QED BY <1>1, <1>2, <1>3 DEF IInv

(* Deciding between acceptance and rollback of what was found keeps the         *)
(* invariant.                                                                   *)
LEMMA RecoverIInv == IInv /\ Recover => IInv'
<1> SUFFICES ASSUME IInv, Recover PROVE IInv'
  OBVIOUS
<1>1. pc = "recover" /\ pc' \in {"finalize", "rollback", "restore"}
  BY DEF Recover
<1>2. /\ mem = slot[sel] /\ Valid(sel) /\ OtherOlder(slot, sel) /\ GoodNow(mem)
      /\ mem \in Header /\ mem.cnt \in Nat
  BY <1>1 DEF IInv, SelectedInv, TypeOK, Away, Failing, Header
<1>3. TypeOK'
  <2>1. cursor' \in Nat
    BY <1>2 DEF IInv, TypeOK, Recover
  <2> QED BY <1>1, <2>1 DEF IInv, TypeOK, PCs, Recover
<1>4. SelectedInv'
  BY <1>1, <1>2 DEF SelectedInv, Recover, Valid, GoodNow, Away
<1>5. FailingInv'
  BY <1>1, <1>2, GoodInDoubt DEF FailingInv, Failing, Recover, GoodNow
<1>6. ASSUME mem.state = "ROLLBACK"
      PROVE  /\ mem.cnt = 0 => disk = base
             /\ \A t \in Targets :
                   (\A i \in 1 .. mem.cnt : mem.plan[i].target # t) => disk[t] = base[t]
  <2>1. Undoable(mem.plan, mem.cnt, disk, desc, undo, base)
    BY <1>2, <1>6, GoodInDoubt DEF GoodNow
  <2>2. \A t \in Targets :
            (\A i \in 1 .. mem.cnt : mem.plan[i].target # t) => disk[t] = base[t]
    BY <2>1 DEF Undoable
  <2>3. ASSUME mem.cnt = 0 PROVE disk = base
    <3>1. 1 .. mem.cnt = {}
      BY <2>3
    <3>2. \A t \in Targets : disk[t] = base[t]
      BY <2>2, <3>1
    <3> QED BY <3>2 DEF IInv, TypeOK, Volumes
  <2> QED BY <2>2, <2>3
<1>7. AwayInv' /\ CommitInv'
  BY <1>1 DEF AwayInv, CommitInv, Away
<1>8. RestoreInv'
  BY <1>1, <1>2, <1>6 DEF RestoreInv, Recover
<1> QED BY <1>3, <1>4, <1>5, <1>7, <1>8 DEF IInv

(* Giving up a failed transaction before its rollback keeps the invariant.      *)
LEMMA AbortIInv == IInv /\ Abort => IInv'
<1> SUFFICES ASSUME IInv, Abort PROVE IInv'
  OBVIOUS
<1>1. pc = "abort"
  BY DEF Abort
<1>2. CASE ProcessGone
  BY <1>2, GoneQuietly DEF Abort, IInv, TypeOK
<1>3. CASE /\ pc' = "rollback" /\ UNCHANGED <<sel, mem, cursor>>
           /\ mem.state \in {"PREPARING", "APPLYING"}
  <2>1. UNCHANGED <<disk, slot, desc, undo, base, txs, faults>>
    BY DEF Abort
  <2>2. TypeOK'
    BY <1>3, <2>1 DEF IInv, TypeOK, PCs
  <2>3. SelectedInv'
    BY <1>1, <1>3, <2>1 DEF IInv, SelectedInv, Valid, GoodNow, Away, Failing
  <2>4. FailingInv'
    BY <1>1, <1>3, <2>1 DEF IInv, FailingInv, Valid, GoodNow, Failing
  <2>5. AwayInv' /\ CommitInv' /\ RestoreInv'
    BY <1>3 DEF AwayInv, CommitInv, RestoreInv, Away
  <2> QED BY <2>2, <2>3, <2>4, <2>5 DEF IInv
<1> QED BY <1>2, <1>3 DEF Abort

(* Recognising a committed transaction by its images keeps the invariant.       *)
LEMMA AcceptCommittedIInv == IInv /\ AcceptCommitted => IInv'
<1> SUFFICES ASSUME IInv, AcceptCommitted PROVE IInv'
  OBVIOUS
<1>1. pc = "committed" /\ mem.state = "COMMITTED"
  BY DEF AcceptCommitted, IInv, CommitInv
<1>2. CASE ProcessGone
  BY <1>2, GoneQuietly DEF AcceptCommitted, IInv, TypeOK
<1>3. CASE pc' = "finalize" /\ UNCHANGED <<sel, mem, cursor>>
  <2>1. UNCHANGED <<disk, slot, desc, undo, base, txs, faults>>
    BY DEF AcceptCommitted
  <2>2. TypeOK'
    BY <1>3, <2>1 DEF IInv, TypeOK, PCs
  <2>3. SelectedInv'
    BY <1>1, <1>3, <2>1 DEF IInv, SelectedInv, Valid, GoodNow, Away, Failing
  <2>4. AwayInv' /\ FailingInv' /\ CommitInv' /\ RestoreInv'
    BY <1>1, <1>3 DEF AwayInv, FailingInv, CommitInv, RestoreInv, Away, Failing
  <2> QED BY <2>2, <2>3, <2>4 DEF IInv
<1> QED BY <1>2, <1>3 DEF AcceptCommitted

-------------------------------------------------------------------------------
(* ... the steps that publish a header.                                           *)

(* A publish that fails while the process is going to end.                        *)
LEMMA LandedGone ==
    ASSUME IInv, pc \notin Away, NEW h \in Header, GoodNow(h), Landed(h), ProcessGone,
           UNCHANGED <<disk, desc, undo, base, txs>>, faults' \in Nat
    PROVE  IInv'
<1>1. PICK x \in {slot[Other(sel)], h, Invalid} :
          slot' = [slot EXCEPT ![Other(sel)] = x]
  BY DEF Landed
<1>2. /\ slot \in SlotPairs /\ sel \in Slots /\ slot[sel] # Invalid
      /\ GoodNow(slot[sel])
      /\ \/ OtherOlder(slot, sel)
         \/ slot[Other(sel)] # Invalid /\ GoodNow(slot[Other(sel)])
  BY DEF IInv, TypeOK, SlotPairs, SelectedInv, FailingInv, Valid
<1>3. /\ slot' \in SlotPairs
      /\ slot'[0] # Invalid \/ slot'[1] # Invalid
      /\ Good(NewestIn(slot'), disk, desc, undo, base)
  BY <1>1, <1>2, LandedGood DEF GoodNow
<1>4. Durable'
  BY <1>3 DEF Durable, GoodNow
<1> QED BY <1>3, <1>4, GoneKeeps DEF IInv, TypeOK

(* A publish that fails in a process that goes on to its error path.              *)
LEMMA LandedAbort ==
    ASSUME IInv, pc \notin Away \cup Failing, NEW h \in Header, Landed(h),
           h.gen = mem.gen + 1, mem.gen = slot[sel].gen,
           h.state # "EMPTY", mem.state = slot[sel].state,
           Good(h, disk, desc, undo, base'), Good(slot[sel], disk, desc, undo, base'),
           mem.state \in {"EMPTY", "PREPARING", "APPLYING"},
           mem.state # "EMPTY" => Undoable(mem.plan, mem.cnt, disk, desc, undo, base'),
           pc' = "abort", UNCHANGED <<sel, mem, cursor, disk, desc, undo>>,
           base' \in Volumes, txs' \in Nat, faults' \in Nat
    PROVE  IInv'
<1>1. PICK x \in {slot[Other(sel)], h, Invalid} :
          slot' = [slot EXCEPT ![Other(sel)] = x]
  BY DEF Landed
<1>2. /\ slot \in SlotPairs /\ sel \in Slots /\ slot[sel] # Invalid
      /\ OtherOlder(slot, sel)
  BY DEF IInv, TypeOK, SlotPairs, SelectedInv, Valid
<1>3. Other(sel) \in Slots /\ Other(sel) # sel
  BY <1>2, NewestFacts
<1>4. slot' \in SlotPairs /\ slot'[sel] = slot[sel] /\ slot'[Other(sel)] = x
  BY <1>1, <1>2, <1>3 DEF SlotPairs
<1>5. TypeOK'
  BY <1>4 DEF IInv, TypeOK, SlotPairs, PCs
<1>6. SelectedInv'
  BY <1>2, <1>4 DEF SelectedInv, Valid, GoodNow, Away, Failing
<1>7. \/ OtherOlder(slot', sel)
      \/ slot'[Other(sel)] # Invalid /\ slot'[Other(sel)] = h /\ h.gen > slot'[sel].gen
  <2>1. CASE x = h
    <3>1. slot[sel].gen \in Nat
      BY DEF IInv, TypeOK, Header
    <3> QED BY <1>4, <2>1, <3>1, InvalidAssumption
  <2>2. CASE x = Invalid \/ x = slot[Other(sel)]
    BY <1>2, <1>4, <2>2 DEF OtherOlder
  <2> QED BY <2>1, <2>2
<1>8. FailingInv'
  BY <1>4, <1>7 DEF FailingInv, Valid, GoodNow, Failing
<1>9. AwayInv' /\ CommitInv' /\ RestoreInv'
  BY DEF AwayInv, CommitInv, RestoreInv, Away
<1> QED BY <1>5, <1>6, <1>8, <1>9 DEF IInv

(* A publish that succeeds: the new header is selected and the newest.            *)
LEMMA PublishSelects ==
    ASSUME IInv, pc \notin Away, NEW h \in Header, h.gen = mem.gen + 1,
           mem.gen = slot[sel].gen, slot' = [slot EXCEPT ![Other(sel)] = h]
    PROVE  /\ slot' \in SlotPairs /\ Other(sel) \in Slots
           /\ slot'[Other(sel)] = h /\ h # Invalid
           /\ OtherOlder(slot', Other(sel))
           /\ NewestIn(slot') = h
<1>1. slot \in SlotPairs /\ sel \in Slots /\ slot[sel] # Invalid
  BY DEF IInv, TypeOK, SlotPairs, SelectedInv, Valid
<1>2. h.gen > slot[sel].gen
  BY DEF IInv, TypeOK, Header
<1> QED BY <1>1, <1>2, PublishedNewest, InvalidAssumption

(* The header rh_wal_publish builds from the one in memory.                       *)
LEMMA AdvanceFacts ==
    ASSUME NEW m \in Header, NEW st \in States
    PROVE  LET h == [m EXCEPT !.gen = m.gen + 1, !.state = st]
           IN  /\ h \in Header /\ h.state = st /\ h.gen = m.gen + 1
               /\ h.plan = m.plan /\ h.cnt = m.cnt /\ h.tx = m.tx /\ h.uuid = m.uuid
<1> DEFINE g == [m EXCEPT !.gen = m.gen + 1]
           h == [g EXCEPT !.state = st]
<1>1. /\ g \in Header /\ g.gen = m.gen + 1
      /\ g.plan = m.plan /\ g.cnt = m.cnt /\ g.tx = m.tx /\ g.uuid = m.uuid
  BY DEF Header
<1>2. /\ h \in Header /\ h.state = st /\ h.gen = g.gen
      /\ h.plan = g.plan /\ h.cnt = g.cnt /\ h.tx = g.tx /\ h.uuid = g.uuid
  <2> HIDE DEF g
  <2> QED BY <1>1 DEF Header
<1>3. h = [m EXCEPT !.gen = m.gen + 1, !.state = st]
  OBVIOUS
<1> QED BY <1>1, <1>2, <1>3

(* Rebuilding a damaged superblock from the other keeps the invariant, torn or  *)
(* not.                                                                         *)
LEMMA ReconstructIInv == IInv /\ Reconstruct => IInv'
<1> SUFFICES ASSUME IInv, Reconstruct PROVE IInv'
  OBVIOUS
<1>1. pc = "reconstruct" /\ UNCHANGED <<disk, desc, undo, base, txs>>
  BY DEF Reconstruct
<1>2. /\ mem = slot[sel] /\ slot[sel] # Invalid /\ GoodNow(mem) /\ mem \in Header
      /\ slot \in SlotPairs /\ sel \in Slots
  BY <1>1 DEF IInv, SelectedInv, TypeOK, SlotPairs, Valid, Away, Failing
<1>3. CASE Landed(mem) /\ WriteFails("off")
  <2>1. ProcessGone /\ faults' \in Nat
    BY <1>3 DEF WriteFails, IInv, TypeOK
  <2> QED BY <1>1, <1>2, <1>3, <2>1, LandedGone DEF Away
<1>4. CASE slot' = [slot EXCEPT ![Other(sel)] = mem] /\ ProcessGone /\ UNCHANGED faults
  <2>1. Landed(mem)
    BY <1>4 DEF Landed
  <2> QED BY <1>1, <1>2, <1>4, <2>1, LandedGone DEF Away, IInv, TypeOK
<1>5. CASE /\ slot' = [slot EXCEPT ![Other(sel)] = mem]
           /\ mem.state # "EMPTY" /\ pc' = "recover"
           /\ UNCHANGED <<sel, mem, cursor, faults>>
  <2>1. Other(sel) \in Slots /\ Other(sel) # sel
    BY <1>2, NewestFacts
  <2>2. slot' \in SlotPairs /\ slot'[sel] = mem /\ slot'[Other(sel)] = mem
    BY <1>2, <1>5, <2>1 DEF SlotPairs
  <2>3. TypeOK'
    BY <1>1, <1>5, <2>2 DEF IInv, TypeOK, SlotPairs, PCs
  <2>4. SelectedInv'
    BY <1>1, <1>2, <1>5, <2>2 DEF SelectedInv, OtherOlder, Valid, GoodNow
  <2>5. AwayInv' /\ FailingInv' /\ CommitInv' /\ RestoreInv'
    BY <1>5 DEF AwayInv, FailingInv, CommitInv, RestoreInv, Away, Failing
  <2> QED BY <2>3, <2>4, <2>5 DEF IInv
<1> QED BY <1>3, <1>4, <1>5 DEF Reconstruct

(* Publishing EMPTY after a commit or a rollback keeps the invariant, torn or   *)
(* not.                                                                         *)
LEMMA FinalizeEmptyIInv == IInv /\ FinalizeEmpty => IInv'
<1> SUFFICES ASSUME IInv, FinalizeEmpty PROVE IInv'
  OBVIOUS
<1> DEFINE h == EmptyHeader(mem.gen + 1)
<1>1. pc = "finalize" /\ UNCHANGED <<disk, desc, undo, base, txs>>
  BY DEF FinalizeEmpty
<1>2. /\ mem = slot[sel] /\ GoodNow(mem) /\ mem \in Header
      /\ mem.state \in {"COMMITTED", "ROLLBACK"}
      /\ mem.state = "ROLLBACK" => disk = base
  BY <1>1 DEF IInv, SelectedInv, RestoreInv, TypeOK, Away, Failing
<1>3. h \in Header
  BY <1>2 DEF EmptyHeader, Header, States
<1>4. disk \in Volumes
  BY <1>2 DEF GoodNow, Good, IInv, TypeOK
<1>5. GoodNow(h)
  BY <1>4 DEF GoodNow, Good, EmptyHeader
<1>6. ProcessGone /\ Landed(h) /\ faults' \in Nat
  BY DEF FinalizeEmpty, WriteFails, Landed, IInv, TypeOK
<1> QED BY <1>1, <1>3, <1>5, <1>6, LandedGone DEF Away

(* Publishing ROLLBACK keeps the invariant: it names at least the durable       *)
(* prefix.                                                                      *)
LEMMA RollbackPublishIInv == IInv /\ RollbackPublish => IInv'
<1> SUFFICES ASSUME IInv, RollbackPublish PROVE IInv'
  OBVIOUS
<1> DEFINE h == Advance("ROLLBACK")
<1>1. pc = "rollback" /\ UNCHANGED <<disk, desc, undo, base, txs>>
  BY DEF RollbackPublish
<1>2. /\ mem \in Header /\ mem.cnt \in Nat /\ mem.gen = slot[sel].gen
      /\ Undoable(mem.plan, mem.cnt, disk, desc, undo, base)
  BY <1>1 DEF IInv, FailingInv, TypeOK, Failing, Header
<1>3. /\ h \in Header /\ h.state = "ROLLBACK" /\ h.gen = mem.gen + 1
      /\ h.plan = mem.plan /\ h.cnt = mem.cnt
  BY <1>2, AdvanceFacts DEF Advance, States
<1>4. GoodNow(h)
  BY <1>2, <1>3, GoodInDoubt DEF GoodNow
<1>5. CASE Landed(h) /\ WriteFails("off")
  <2>1. ProcessGone /\ faults' \in Nat
    BY <1>5 DEF WriteFails, IInv, TypeOK
  <2> HIDE DEF h
  <2> QED BY <1>1, <1>3, <1>4, <1>5, <2>1, LandedGone DEF Away
<1>6. CASE /\ Publish(h) /\ UNCHANGED faults /\ cursor' = mem.cnt
           /\ pc' = IF mem.cnt = 0 THEN "finalize" ELSE "restore"
  <2> HIDE DEF h
  <2>1. slot' = [slot EXCEPT ![Other(sel)] = h] /\ sel' = Other(sel) /\ mem' = h
    BY <1>6 DEF Publish
  <2>2. /\ slot' \in SlotPairs /\ Other(sel) \in Slots
        /\ slot'[Other(sel)] = h /\ h # Invalid /\ OtherOlder(slot', Other(sel))
    BY <1>1, <1>2, <1>3, <2>1, PublishSelects DEF Away
  <2>3. TypeOK'
    BY <1>1, <1>2, <1>3, <1>6, <2>1, <2>2 DEF IInv, TypeOK, SlotPairs, PCs
  <2>4. SelectedInv'
    BY <1>1, <1>4, <2>1, <2>2 DEF SelectedInv, Valid, GoodNow
  <2>5. \A t \in Targets :
            (\A i \in 1 .. mem.cnt : mem.plan[i].target # t) => disk[t] = base[t]
    BY <1>2 DEF Undoable
  <2>6. mem.cnt = 0 => disk = base
    <3>1. ASSUME mem.cnt = 0 PROVE \A t \in Targets : disk[t] = base[t]
      <4>1. 1 .. mem.cnt = {}
        BY <3>1
      <4> QED BY <2>5, <4>1
    <3> QED BY <3>1 DEF IInv, TypeOK, Volumes
  <2>7. RestoreInv'
    BY <1>1, <1>2, <1>3, <1>6, <2>1, <2>5, <2>6 DEF RestoreInv
  <2>8. AwayInv' /\ FailingInv' /\ CommitInv'
    BY <1>6 DEF AwayInv, FailingInv, CommitInv, Away, Failing
  <2> QED BY <2>3, <2>4, <2>7, <2>8 DEF IInv
<1> QED BY <1>5, <1>6 DEF RollbackPublish

(* rh_wal_backend_begin: the plan is prepared on the volume as it is.             *)
LEMMA BeginIInv == ASSUME IInv, NEW p \in Plans, Begin(p) PROVE IInv'
<1> DEFINE P == Planned(p.ops, disk)
           h == [gen |-> mem.gen + 1, state |-> "PREPARING", tx |-> p.tx,
                 uuid |-> txs + 1, plan |-> P, cnt |-> 0]
<1>1. /\ pc = "ready" /\ base' = disk /\ txs' = txs + 1
      /\ UNCHANGED <<disk, desc, undo>> /\ PlanAccepted(p)
  BY DEF Begin
<1>2. /\ mem = slot[sel] /\ GoodNow(mem) /\ mem \in Header /\ mem.gen \in Nat
      /\ mem.state = "EMPTY" /\ txs \in Nat
  BY <1>1 DEF IInv, SelectedInv, CommitInv, TypeOK, Away, Failing, Header
<1>3. disk \in Volumes
  BY <1>2 DEF GoodNow, Good
<1>4. P \in Seq(Entry) /\ Len(P) \in 1 .. MaxEntries
  BY <1>1, <1>3, PlannedFacts DEF PlanAccepted
<1>5. /\ h \in Header /\ h.gen = mem.gen + 1 /\ h.state = "PREPARING"
      /\ h.plan = P /\ h.cnt = 0
  BY <1>2, <1>4, WalAssumption DEF Header, States
<1>6. Undoable(P, 0, disk, desc, undo, disk)
  <2>1. PreparedOn(P, disk)
    BY DEF PreparedOn
  <2> QED BY <1>4, <2>1 DEF Undoable
<1>7. Good(h, disk, desc, undo, disk) /\ Good(mem, disk, desc, undo, disk)
  BY <1>2, <1>3, <1>5, <1>6 DEF Good
<1>8. \/ Publish(h) /\ pc' = "undo" /\ UNCHANGED <<cursor, faults>>
      \/ Landed(h) /\ WriteFails("abort")
  BY DEF Begin
<1> HIDE DEF h, P
<1>9. CASE Landed(h) /\ WriteFails("abort")
  <2>1. faults' \in Nat
    BY <1>9 DEF WriteFails, IInv, TypeOK
  <2>2. CASE ProcessGone
    <3>1. PICK x \in {slot[Other(sel)], h, Invalid} :
              slot' = [slot EXCEPT ![Other(sel)] = x]
      BY <1>9 DEF Landed
    <3>2. /\ slot \in SlotPairs /\ sel \in Slots /\ slot[sel] # Invalid
          /\ OtherOlder(slot, sel)
      BY <1>1 DEF IInv, TypeOK, SlotPairs, SelectedInv, Valid, Away, Failing
    <3>3. /\ slot' \in SlotPairs
          /\ slot'[0] # Invalid \/ slot'[1] # Invalid
          /\ Good(NewestIn(slot'), disk, desc, undo, disk)
      BY <1>2, <1>5, <1>7, <3>1, <3>2, LandedGood
    <3>4. Durable'
      BY <1>1, <3>3 DEF Durable, GoodNow
    <3> QED BY <1>1, <1>2, <1>3, <2>1, <2>2, <3>3, <3>4, GoneKeeps DEF IInv, TypeOK
  <2>3. CASE pc' = "abort" /\ UNCHANGED <<sel, mem, cursor>>
    BY <1>1, <1>2, <1>3, <1>5, <1>7, <1>9, <2>1, <2>3, LandedAbort DEF Away, Failing
  <2> QED BY <1>9, <2>2, <2>3 DEF WriteFails
<1>10. CASE Publish(h) /\ pc' = "undo" /\ UNCHANGED <<cursor, faults>>
  <2>1. slot' = [slot EXCEPT ![Other(sel)] = h] /\ sel' = Other(sel) /\ mem' = h
    BY <1>10 DEF Publish
  <2>2. /\ slot' \in SlotPairs /\ Other(sel) \in Slots
        /\ slot'[Other(sel)] = h /\ h # Invalid /\ OtherOlder(slot', Other(sel))
    BY <1>1, <1>2, <1>5, <2>1, PublishSelects DEF Away
  <2>3. TypeOK'
    BY <1>1, <1>2, <1>3, <1>5, <1>10, <2>1, <2>2 DEF IInv, TypeOK, SlotPairs, PCs
  <2>4. SelectedInv'
    BY <1>1, <1>7, <1>10, <2>1, <2>2 DEF SelectedInv, Valid, GoodNow
  <2>5. DiskIs(P, 0, disk, disk)
    BY StagedZero DEF DiskIs
  <2>6. CommitInv'
    BY <1>1, <1>3, <1>4, <1>5, <1>10, <2>1, <2>5 DEF CommitInv
  <2>7. AwayInv' /\ FailingInv' /\ RestoreInv'
    BY <1>10 DEF AwayInv, FailingInv, RestoreInv, Away, Failing
  <2> QED BY <2>3, <2>4, <2>6, <2>7 DEF IInv
<1> QED BY <1>8, <1>9, <1>10

(* Publishing APPLYING keeps the invariant: the entry it adds is already        *)
(* durable.                                                                     *)
LEMMA PublishApplyingIInv == IInv /\ PublishApplying => IInv'
<1> SUFFICES ASSUME IInv, PublishApplying PROVE IInv'
  OBVIOUS
<1> DEFINE h == Advance("APPLYING")
<1>1. pc = "applying" /\ UNCHANGED <<disk, desc, undo, base, txs>>
  BY DEF PublishApplying
<1>2. /\ mem \in Header /\ mem.cnt \in Nat /\ mem.gen = slot[sel].gen
      /\ mem.state = slot[sel].state
      /\ mem.state \in {"PREPARING", "APPLYING"} /\ mem.cnt > 0
      /\ Undoable(mem.plan, mem.cnt, disk, desc, undo, base)
      /\ disk \in Volumes /\ DiskIs(mem.plan, mem.cnt - 1, disk, base)
  BY <1>1 DEF IInv, CommitInv, TypeOK, Header
<1>3. /\ h \in Header /\ h.state = "APPLYING" /\ h.gen = mem.gen + 1
      /\ h.plan = mem.plan /\ h.cnt = mem.cnt
  BY <1>2, AdvanceFacts DEF Advance, States
<1>4. GoodNow(h) /\ GoodNow(slot[sel])
  BY <1>1, <1>2, <1>3, GoodInDoubt DEF GoodNow, IInv, SelectedInv, Away
<1> HIDE DEF h
<1>5. CASE Landed(h) /\ WriteFails("abort")
  <2>1. faults' \in Nat
    BY <1>5 DEF WriteFails, IInv, TypeOK
  <2>2. CASE ProcessGone
    BY <1>1, <1>3, <1>4, <1>5, <2>1, <2>2, LandedGone DEF Away
  <2>3. CASE pc' = "abort" /\ UNCHANGED <<sel, mem, cursor>>
    <3>1. base' \in Volumes /\ txs' \in Nat
      BY <1>1 DEF IInv, TypeOK
    <3> QED BY <1>1, <1>2, <1>3, <1>4, <1>5, <2>1, <2>3, <3>1, LandedAbort
          DEF Away, Failing, GoodNow
  <2> QED BY <1>5, <2>2, <2>3 DEF WriteFails
<1>6. CASE Publish(h) /\ pc' = "target" /\ UNCHANGED <<cursor, faults>>
  <2>1. slot' = [slot EXCEPT ![Other(sel)] = h] /\ sel' = Other(sel) /\ mem' = h
    BY <1>6 DEF Publish
  <2>2. /\ slot' \in SlotPairs /\ Other(sel) \in Slots
        /\ slot'[Other(sel)] = h /\ h # Invalid /\ OtherOlder(slot', Other(sel))
    BY <1>1, <1>2, <1>3, <2>1, PublishSelects DEF Away
  <2>3. TypeOK'
    BY <1>1, <1>2, <1>3, <1>6, <2>1, <2>2 DEF IInv, TypeOK, SlotPairs, PCs
  <2>4. SelectedInv'
    BY <1>1, <1>4, <1>6, <2>1, <2>2 DEF SelectedInv, Valid, GoodNow
  <2>5. CommitInv'
    BY <1>1, <1>2, <1>3, <1>6, <2>1 DEF CommitInv
  <2>6. AwayInv' /\ FailingInv' /\ RestoreInv'
    BY <1>6 DEF AwayInv, FailingInv, RestoreInv, Away, Failing
  <2> QED BY <2>3, <2>4, <2>5, <2>6 DEF IInv
<1> QED BY <1>5, <1>6 DEF PublishApplying, h

(* Publishing COMMITTED keeps the invariant: the whole plan has been written    *)
(* and verified.                                                                *)
LEMMA PublishCommittedIInv == IInv /\ PublishCommitted => IInv'
<1> SUFFICES ASSUME IInv, PublishCommitted PROVE IInv'
  OBVIOUS
<1> DEFINE h == Advance("COMMITTED")
<1>1. pc = "commit" /\ UNCHANGED <<disk, desc, undo, base, txs>>
  BY DEF PublishCommitted
<1>2. /\ mem \in Header /\ mem.cnt \in Nat /\ mem = slot[sel] /\ GoodNow(mem)
      /\ mem.state = "APPLYING" /\ mem.cnt = Len(mem.plan)
      /\ disk \in Volumes /\ DiskIs(mem.plan, mem.cnt, disk, base)
  BY <1>1 DEF IInv, CommitInv, SelectedInv, TypeOK, Header, Away, Failing
<1>3. Undoable(mem.plan, mem.cnt, disk, desc, undo, base)
  BY <1>2, GoodInDoubt DEF GoodNow
<1>4. /\ h \in Header /\ h.state = "COMMITTED" /\ h.gen = mem.gen + 1
      /\ h.plan = mem.plan /\ h.cnt = mem.cnt
  BY <1>2, AdvanceFacts DEF Advance, States
<1> HIDE DEF h
<1>5. GoodNow(h)
  BY <1>2, <1>3, <1>4 DEF GoodNow, Good, Undoable
<1>6. CASE Landed(h) /\ WriteFails("abort")
  <2>1. faults' \in Nat
    BY <1>6 DEF WriteFails, IInv, TypeOK
  <2>2. CASE ProcessGone
    BY <1>1, <1>4, <1>5, <1>6, <2>1, <2>2, LandedGone DEF Away
  <2>3. CASE pc' = "abort" /\ UNCHANGED <<sel, mem, cursor>>
    <3>1. base' \in Volumes /\ txs' \in Nat
      BY <1>1 DEF IInv, TypeOK
    <3> QED BY <1>1, <1>2, <1>3, <1>4, <1>5, <1>6, <2>1, <2>3, <3>1, LandedAbort
          DEF Away, Failing, GoodNow
  <2> QED BY <1>6, <2>2, <2>3 DEF WriteFails
<1>7. CASE Publish(h) /\ pc' = "committed" /\ UNCHANGED <<cursor, faults>>
  <2>1. slot' = [slot EXCEPT ![Other(sel)] = h] /\ sel' = Other(sel) /\ mem' = h
    BY <1>7 DEF Publish
  <2>2. /\ slot' \in SlotPairs /\ Other(sel) \in Slots
        /\ slot'[Other(sel)] = h /\ h # Invalid /\ OtherOlder(slot', Other(sel))
    BY <1>1, <1>2, <1>4, <2>1, PublishSelects DEF Away
  <2>3. TypeOK'
    BY <1>1, <1>2, <1>4, <1>7, <2>1, <2>2 DEF IInv, TypeOK, SlotPairs, PCs
  <2>4. SelectedInv'
    BY <1>1, <1>5, <1>7, <2>1, <2>2 DEF SelectedInv, Valid, GoodNow
  <2>5. AwayInv' /\ FailingInv' /\ CommitInv' /\ RestoreInv'
    BY <1>4, <1>7, <2>1 DEF AwayInv, FailingInv, CommitInv, RestoreInv, Away, Failing
  <2> QED BY <2>3, <2>4, <2>5 DEF IInv
<1> QED BY <1>6, <1>7 DEF PublishCommitted, h

-------------------------------------------------------------------------------
(* ... the steps that write entries and targets.                                  *)

(* A write other than a publish that fails, when the selected header stays good.  *)
LEMMA WriteFailsKeeps ==
    ASSUME IInv, pc \notin Away \cup Failing, mem = slot[sel],
           mem.state \in {"PREPARING", "APPLYING", "ROLLBACK"},
           NEW onError, onError \in {"off", "abort"},
           onError = "abort" => mem.state # "ROLLBACK",
           WriteFails(onError), UNCHANGED <<slot, base, txs>>,
           disk' \in [Targets -> Images],
           desc' \in [Ordinals -> Entry \cup {Invalid}], undo' \in [Ordinals -> Images],
           Undoable(mem.plan, mem.cnt, disk', desc', undo', base)
    PROVE  IInv'
<1>1. /\ slot \in SlotPairs /\ sel \in Slots /\ slot[sel] # Invalid
      /\ OtherOlder(slot, sel) /\ base \in Volumes /\ txs \in Nat /\ faults' \in Nat
  BY DEF IInv, TypeOK, SlotPairs, SelectedInv, Valid, WriteFails
<1>2. Good(slot[sel], disk', desc', undo', base)
  BY GoodInDoubt
<1>3. CASE ProcessGone
  <2>1. Durable'
    <3>1. NewestIn(slot) = slot[sel] /\ (slot[0] # Invalid \/ slot[1] # Invalid)
      BY <1>1, NewestFacts
    <3> QED BY <1>2, <3>1 DEF Durable, GoodNow
  <2> QED BY <1>1, <1>3, <2>1, GoneKeeps
<1>4. CASE pc' = "abort" /\ mem.state # "ROLLBACK" /\ UNCHANGED <<sel, mem, cursor>>
  <2>1. TypeOK'
    BY <1>1, <1>4 DEF IInv, TypeOK, PCs
  <2>2. SelectedInv'
    BY <1>1, <1>2, <1>4 DEF SelectedInv, Valid, GoodNow, Away, Failing
  <2>3. FailingInv'
    BY <1>1, <1>4 DEF FailingInv
  <2>4. AwayInv' /\ CommitInv' /\ RestoreInv'
    BY <1>4 DEF AwayInv, CommitInv, RestoreInv, Away
  <2> QED BY <2>1, <2>2, <2>3, <2>4 DEF IInv
<1> QED BY <1>3, <1>4 DEF WriteFails

(* What the commit loop knows before it journals entry mem.cnt + 1.               *)
LEMMA NextEntryFacts ==
    ASSUME IInv, pc \in {"undo", "desc"}
    PROVE  /\ mem = slot[sel] /\ mem \in Header /\ mem.cnt \in Nat
           /\ mem.state \in {"PREPARING", "APPLYING"} /\ mem.cnt < Len(mem.plan)
           /\ mem.plan \in Seq(Entry)
           /\ mem.cnt + 1 \in Ordinals
           /\ mem.plan[mem.cnt + 1] \in Entry
           /\ Undoable(mem.plan, mem.cnt, disk, desc, undo, base)
           /\ disk \in Volumes /\ DiskIs(mem.plan, mem.cnt, disk, base)
           /\ Valid(sel) /\ OtherOlder(slot, sel)
<1>1. /\ mem = slot[sel] /\ mem \in Header /\ mem.cnt \in Nat
      /\ mem.state \in {"PREPARING", "APPLYING"} /\ mem.cnt < Len(mem.plan)
      /\ mem.plan \in Seq(Entry) /\ GoodNow(mem)
      /\ disk \in Volumes /\ DiskIs(mem.plan, mem.cnt, disk, base)
      /\ Valid(sel) /\ OtherOlder(slot, sel)
  BY DEF IInv, SelectedInv, CommitInv, TypeOK, Header, Away, Failing
<1>2. Undoable(mem.plan, mem.cnt, disk, desc, undo, base)
  BY <1>1, GoodInDoubt DEF GoodNow
<1>3. Len(mem.plan) <= MaxEntries /\ Len(mem.plan) \in Nat /\ MaxEntries \in Nat
  BY <1>1, <1>2, WalAssumption DEF Undoable
<1>4. mem.cnt + 1 \in 1 .. Len(mem.plan) /\ mem.cnt + 1 \in Ordinals
  BY <1>1, <1>3 DEF Ordinals
<1>5. mem.plan[mem.cnt + 1] \in Entry
  BY <1>1, <1>4
<1> QED BY <1>1, <1>2, <1>4, <1>5

(* Writing an undo payload keeps the invariant: no durable header names its     *)
(* ordinal yet.                                                                 *)
LEMMA WriteUndoIInv == IInv /\ WriteUndo => IInv'
<1> SUFFICES ASSUME IInv, WriteUndo PROVE IInv'
  OBVIOUS
<1> DEFINE i == mem.cnt + 1
           old == mem.plan[i].old
<1>1. pc = "undo" /\ UNCHANGED <<disk, slot, desc, base, txs>>
  BY DEF WriteUndo
<1>2. /\ mem = slot[sel] /\ mem \in Header /\ mem.cnt \in Nat
      /\ mem.state \in {"PREPARING", "APPLYING"} /\ mem.cnt < Len(mem.plan)
      /\ mem.plan \in Seq(Entry) /\ i \in Ordinals /\ mem.plan[i] \in Entry
      /\ Undoable(mem.plan, mem.cnt, disk, desc, undo, base)
      /\ disk \in Volumes /\ DiskIs(mem.plan, mem.cnt, disk, base)
      /\ Valid(sel) /\ OtherOlder(slot, sel)
  BY <1>1, NextEntryFacts
<1>3. old \in Images /\ Garbage \in Images
  BY <1>2 DEF Entry, Images
<1>4. /\ desc \in [Ordinals -> Entry \cup {Invalid}] /\ undo \in [Ordinals -> Images]
      /\ disk \in [Targets -> Images]
  BY DEF IInv, TypeOK
<1>5. ASSUME NEW y \in Images, undo' = [undo EXCEPT ![i] = y]
      PROVE  /\ undo' \in [Ordinals -> Images] /\ undo'[i] = y
             /\ Undoable(mem.plan, mem.cnt, disk, desc, undo', base)
  <2>1. desc = [desc EXCEPT ![i] = desc[i]]
    BY <1>4
  <2>2. Undoable(mem.plan, mem.cnt, disk, [desc EXCEPT ![i] = desc[i]], undo', base)
    BY <1>2, <1>4, <1>5, UndoableNextEntry
  <2> QED BY <1>2, <1>4, <1>5, <2>1, <2>2
<1>6. CASE /\ undo' = [undo EXCEPT ![i] = old] /\ pc' = "desc"
           /\ UNCHANGED <<sel, mem, cursor, faults>>
  <2>1. /\ undo' \in [Ordinals -> Images] /\ undo'[i] = old
        /\ Undoable(mem.plan, mem.cnt, disk, desc, undo', base)
    BY <1>3, <1>5, <1>6
  <2>2. TypeOK'
    BY <1>1, <1>6, <2>1 DEF IInv, TypeOK, PCs
  <2>3. SelectedInv'
    BY <1>1, <1>2, <1>6, <2>1, GoodInDoubt DEF SelectedInv, Valid, GoodNow
  <2>4. CommitInv'
    BY <1>1, <1>2, <1>6, <2>1 DEF CommitInv
  <2>5. AwayInv' /\ FailingInv' /\ RestoreInv'
    BY <1>6 DEF AwayInv, FailingInv, RestoreInv, Away, Failing
  <2> QED BY <2>2, <2>3, <2>4, <2>5 DEF IInv
<1>7. CASE /\ \E x \in {undo[i], old, Garbage} : undo' = [undo EXCEPT ![i] = x]
           /\ WriteFails("abort")
  <2>1. PICK x \in {undo[i], old, Garbage} : undo' = [undo EXCEPT ![i] = x]
    BY <1>7
  <2>2. x \in Images
    BY <1>2, <1>3, <1>4
  <2>3. /\ undo' \in [Ordinals -> Images]
        /\ Undoable(mem.plan, mem.cnt, disk, desc, undo', base)
    BY <1>5, <2>1, <2>2
  <2> QED BY <1>1, <1>2, <1>4, <1>7, <2>3, WriteFailsKeeps DEF Away, Failing
<1> QED BY <1>6, <1>7 DEF WriteUndo

(* Writing a descriptor keeps the invariant: no durable header names its        *)
(* ordinal yet.                                                                 *)
LEMMA WriteDescriptorIInv == IInv /\ WriteDescriptor => IInv'
<1> SUFFICES ASSUME IInv, WriteDescriptor PROVE IInv'
  OBVIOUS
<1> DEFINE i == mem.cnt + 1
           d == mem.plan[i]
<1>1. pc = "desc" /\ UNCHANGED <<disk, slot, undo, base, txs>>
  BY DEF WriteDescriptor
<1>2. /\ mem = slot[sel] /\ mem \in Header /\ mem.cnt \in Nat
      /\ mem.state \in {"PREPARING", "APPLYING"} /\ mem.cnt < Len(mem.plan)
      /\ mem.plan \in Seq(Entry) /\ i \in Ordinals /\ d \in Entry
      /\ Undoable(mem.plan, mem.cnt, disk, desc, undo, base)
      /\ disk \in Volumes /\ DiskIs(mem.plan, mem.cnt, disk, base)
      /\ Valid(sel) /\ OtherOlder(slot, sel)
  BY <1>1, NextEntryFacts
<1>3. undo[i] = d.old
  BY <1>1 DEF IInv, CommitInv
<1>4. /\ desc \in [Ordinals -> Entry \cup {Invalid}] /\ undo \in [Ordinals -> Images]
      /\ disk \in [Targets -> Images]
  BY DEF IInv, TypeOK
<1>5. ASSUME NEW y \in Entry \cup {Invalid}, desc' = [desc EXCEPT ![i] = y]
      PROVE  /\ desc' \in [Ordinals -> Entry \cup {Invalid}] /\ desc'[i] = y
             /\ Undoable(mem.plan, mem.cnt, disk, desc', undo, base)
  <2>1. undo = [undo EXCEPT ![i] = undo[i]]
    BY <1>4
  <2>2. Undoable(mem.plan, mem.cnt, disk, desc', [undo EXCEPT ![i] = undo[i]], base)
    BY <1>2, <1>4, <1>5, UndoableNextEntry
  <2> QED BY <1>2, <1>4, <1>5, <2>1, <2>2
<1>6. CASE /\ desc' = [desc EXCEPT ![i] = d] /\ mem' = [mem EXCEPT !.cnt = i]
           /\ pc' = "applying" /\ UNCHANGED <<sel, cursor, faults>>
  <2>1. /\ desc' \in [Ordinals -> Entry \cup {Invalid}] /\ desc'[i] = d
        /\ Undoable(mem.plan, mem.cnt, disk, desc', undo, base)
    BY <1>2, <1>5, <1>6
  <2>2. /\ mem' \in Header /\ mem'.cnt = i /\ mem'.plan = mem.plan
        /\ mem'.gen = mem.gen /\ mem'.state = mem.state
    BY <1>2, <1>6 DEF Header
  <2>3. Undoable(mem.plan, i, disk, desc', undo, base)
    BY <1>2, <1>3, <2>1, UndoableExtends
  <2>4. TypeOK'
    BY <1>1, <1>6, <2>1, <2>2 DEF IInv, TypeOK, PCs
  <2>5. SelectedInv'
    BY <1>1, <1>2, <1>6, <2>1, GoodInDoubt DEF SelectedInv, Valid, GoodNow
  <2>6. CommitInv'
    BY <1>1, <1>2, <1>6, <2>2, <2>3 DEF CommitInv
  <2>7. AwayInv' /\ FailingInv' /\ RestoreInv'
    BY <1>6 DEF AwayInv, FailingInv, RestoreInv, Away, Failing
  <2> QED BY <2>4, <2>5, <2>6, <2>7 DEF IInv
<1>7. CASE /\ \E x \in {desc[i], d, Invalid} : desc' = [desc EXCEPT ![i] = x]
           /\ WriteFails("abort")
  <2>1. PICK x \in {desc[i], d, Invalid} : desc' = [desc EXCEPT ![i] = x]
    BY <1>7
  <2>2. x \in Entry \cup {Invalid}
    BY <1>2, <1>4
  <2>3. /\ desc' \in [Ordinals -> Entry \cup {Invalid}]
        /\ Undoable(mem.plan, mem.cnt, disk, desc', undo, base)
    BY <1>5, <2>1, <2>2
  <2> QED BY <1>1, <1>2, <1>4, <1>7, <2>3, WriteFailsKeeps DEF Away, Failing
<1> QED BY <1>6, <1>7 DEF WriteDescriptor

(* The target write follows the header that names its entry.                      *)
LEMMA WriteTargetIInv == IInv /\ WriteTarget => IInv'
<1> SUFFICES ASSUME IInv, WriteTarget PROVE IInv'
  OBVIOUS
<1> DEFINE n == mem.cnt
           e == mem.plan[n]
<1>1. pc = "target" /\ UNCHANGED <<slot, desc, undo, base, txs>>
  BY DEF WriteTarget
<1>2. /\ mem = slot[sel] /\ mem \in Header /\ n \in Nat /\ n > 0
      /\ mem.state = "APPLYING" /\ mem.plan \in Seq(Entry)
      /\ disk \in Volumes /\ DiskIs(mem.plan, n - 1, disk, base)
      /\ Valid(sel) /\ OtherOlder(slot, sel) /\ GoodNow(mem)
  BY <1>1 DEF IInv, SelectedInv, CommitInv, TypeOK, Header, Away, Failing
<1>3. Undoable(mem.plan, n, disk, desc, undo, base)
  BY <1>2, GoodInDoubt DEF GoodNow
<1>4. n <= Len(mem.plan) /\ n \in 1 .. Len(mem.plan) /\ n \in 1 .. n
  BY <1>2, <1>3 DEF Undoable
<1>5. e \in Entry /\ e.target \in Targets /\ e.new \in Contents
  <2>1. e \in Entry
    BY <1>2, <1>4
  <2> QED BY <2>1 DEF Entry
<1>6. /\ desc \in [Ordinals -> Entry \cup {Invalid}] /\ undo \in [Ordinals -> Images]
      /\ disk \in [Targets -> Images]
  BY DEF IInv, TypeOK
<1>7. ASSUME NEW x \in Images, disk' = [disk EXCEPT ![e.target] = x]
      PROVE  /\ disk' \in [Targets -> Images]
             /\ Undoable(mem.plan, n, disk', desc, undo, base)
  BY <1>2, <1>3, <1>4, <1>6, <1>7, UndoableWrite
<1>8. CASE /\ disk' = [disk EXCEPT ![e.target] = e.new]
           /\ pc' = IF n = Len(mem.plan) THEN "commit" ELSE "undo"
           /\ UNCHANGED <<sel, mem, cursor, faults>>
  <2>1. Undoable(mem.plan, n, disk', desc, undo, base)
    BY <1>5, <1>7, <1>8 DEF Images
  <2>2. disk' \in Volumes
    BY <1>2, <1>5, <1>8 DEF Volumes
  <2>3. DiskIs(mem.plan, n, disk', base)
    <3>1. ASSUME NEW t \in Targets PROVE disk'[t] = Staged(mem.plan, base, n, t)
      <4>1. CASE e.target = t
        <5>1. n \in Nat \ {0} /\ mem.plan[n].target = t
          BY <1>2, <4>1
        <5>2. Staged(mem.plan, base, n, t) = mem.plan[n].new
          BY <5>1, StagedHit
        <5> QED BY <1>6, <1>8, <4>1, <5>2
      <4>2. CASE e.target # t
        <5>1. Staged(mem.plan, base, n, t) = Staged(mem.plan, base, n - 1, t)
          BY <1>2, <4>2, StagedMiss
        <5> QED BY <1>2, <1>6, <1>8, <4>2, <5>1 DEF DiskIs
      <4> QED BY <4>1, <4>2
    <3> QED BY <3>1 DEF DiskIs
  <2>4. TypeOK'
    <3>1. Volumes \subseteq [Targets -> Images]
      BY DEF Volumes, Images
    <3> QED BY <1>1, <1>8, <2>2, <3>1 DEF IInv, TypeOK, PCs
  <2>5. SelectedInv'
    BY <1>1, <1>2, <1>8, <2>1, GoodInDoubt DEF SelectedInv, Valid, GoodNow
  <2>6. CommitInv'
    BY <1>1, <1>2, <1>4, <1>8, <2>2, <2>3 DEF CommitInv
  <2>7. AwayInv' /\ FailingInv' /\ RestoreInv'
    BY <1>8 DEF AwayInv, FailingInv, RestoreInv, Away, Failing
  <2> QED BY <2>4, <2>5, <2>6, <2>7 DEF IInv
<1>9. CASE /\ \E x \in Remains(e.target, e.new) : disk' = [disk EXCEPT ![e.target] = x]
           /\ WriteFails("abort")
  <2>1. PICK x \in Remains(e.target, e.new) : disk' = [disk EXCEPT ![e.target] = x]
    BY <1>9
  <2>2. x \in Images
    BY <1>5, <1>6 DEF Remains, Images
  <2>3. disk' \in [Targets -> Images] /\ Undoable(mem.plan, n, disk', desc, undo, base)
    BY <1>7, <2>1, <2>2
  <2> QED BY <1>1, <1>2, <1>6, <1>9, <2>3, WriteFailsKeeps DEF Away, Failing
<1> QED BY <1>8, <1>9 DEF WriteTarget

(* rh_wal_rollback: entries from the last to the first, each to the image that     *)
(* the entries before it left.                                                     *)
LEMMA RestoreIInv == IInv /\ Restore => IInv'
<1> SUFFICES ASSUME IInv, Restore PROVE IInv'
  OBVIOUS
<1> DEFINE P == mem.plan
           k == cursor
           t == desc[k].target
<1>1. pc = "restore" /\ UNCHANGED <<slot, desc, undo, base, txs>>
  BY DEF Restore
<1>2. /\ mem = slot[sel] /\ mem \in Header /\ mem.cnt \in Nat
      /\ mem.state = "ROLLBACK" /\ P \in Seq(Entry)
      /\ k \in 1 .. mem.cnt /\ k \in Nat \ {0}
      /\ \A s \in Targets : (\A i \in 1 .. k : P[i].target # s) => disk[s] = base[s]
      /\ Valid(sel) /\ OtherOlder(slot, sel) /\ GoodNow(mem)
  BY <1>1 DEF IInv, SelectedInv, RestoreInv, TypeOK, Header, Away, Failing
<1>3. Undoable(P, mem.cnt, disk, desc, undo, base)
  BY <1>2, GoodInDoubt DEF GoodNow
<1>4. k \in 1 .. Len(P) /\ desc[k] = P[k] /\ undo[k] = P[k].old
  BY <1>2, <1>3 DEF Undoable
<1>5. P[k] \in Entry /\ t = P[k].target /\ t \in Targets /\ P[k].old \in Contents
  <2>1. P[k] \in Entry
    BY <1>2, <1>4
  <2> QED BY <1>4, <2>1 DEF Entry
<1>6. /\ desc \in [Ordinals -> Entry \cup {Invalid}] /\ undo \in [Ordinals -> Images]
      /\ disk \in [Targets -> Images] /\ base \in Volumes
  BY DEF IInv, TypeOK
<1>7. P[k].old = Staged(P, base, k - 1, t)
  <2>1. PICK p \in Plans : P = Planned(p.ops, base)
    BY <1>3 DEF Undoable, PreparedOn
  <2> QED BY <1>4, <1>5, <1>6, <2>1, PlannedFacts
<1>8. ASSUME NEW x \in Images, disk' = [disk EXCEPT ![t] = x]
      PROVE  /\ disk' \in [Targets -> Images]
             /\ Undoable(P, mem.cnt, disk', desc, undo, base)
  BY <1>2, <1>3, <1>5, <1>6, <1>8, UndoableWrite
<1>9. CASE /\ disk' = [disk EXCEPT ![t] = P[k].old]
           /\ cursor' = k - 1 /\ pc' = IF k = 1 THEN "finalize" ELSE "restore"
           /\ UNCHANGED <<sel, mem, faults>>
  <2>1. disk' \in [Targets -> Images] /\ Undoable(P, mem.cnt, disk', desc, undo, base)
    BY <1>5, <1>8, <1>9 DEF Images
  <2>2. ASSUME NEW s \in Targets, \A i \in 1 .. (k - 1) : P[i].target # s
        PROVE  disk'[s] = base[s]
    <3>1. CASE s = t
      <4>1. Staged(P, base, k - 1, t) = base[t]
        <5>1. k \in Nat \ {0} /\ \A i \in 1 .. (k - 1) : P[i].target # t
          BY <1>2, <2>2, <3>1
        <5> QED BY <5>1, StagedNoneBelow
      <4> QED BY <1>6, <1>7, <1>9, <3>1, <4>1
    <3>2. CASE s # t
      <4>1. \A i \in 1 .. k : i \in 1 .. (k - 1) \/ i = k
        BY <1>2
      <4>2. \A i \in 1 .. k : P[i].target # s
        BY <1>5, <2>2, <3>2, <4>1
      <4> QED BY <1>2, <1>6, <1>9, <3>2, <4>2
    <3> QED BY <3>1, <3>2
  <2>3. TypeOK'
    BY <1>1, <1>2, <1>9, <2>1 DEF IInv, TypeOK, PCs
  <2>4. SelectedInv'
    BY <1>1, <1>2, <1>9, <2>1, GoodInDoubt DEF SelectedInv, Valid, GoodNow
  <2>5. k = 1 => disk' = base
    <3>1. ASSUME k = 1 PROVE \A s \in Targets : disk'[s] = base[s]
      <4>1. 1 .. (k - 1) = {}
        BY <3>1
      <4> QED BY <2>2, <4>1
    <3> QED BY <1>6, <2>1, <3>1 DEF Volumes
  <2>6. RestoreInv'
    BY <1>1, <1>2, <1>9, <2>2, <2>5 DEF RestoreInv
  <2>7. AwayInv' /\ FailingInv' /\ CommitInv'
    BY <1>9 DEF AwayInv, FailingInv, CommitInv, Away, Failing
  <2> QED BY <2>3, <2>4, <2>6, <2>7 DEF IInv
<1>10. CASE /\ \E x \in Remains(t, undo[k]) : disk' = [disk EXCEPT ![t] = x]
            /\ WriteFails("off")
  <2>1. PICK x \in Remains(t, undo[k]) : disk' = [disk EXCEPT ![t] = x]
    BY <1>10
  <2>2. x \in Images
    BY <1>4, <1>5, <1>6 DEF Remains, Images
  <2>3. disk' \in [Targets -> Images] /\ Undoable(P, mem.cnt, disk', desc, undo, base)
    BY <1>8, <2>1, <2>2
  <2> QED BY <1>1, <1>2, <1>6, <1>10, <2>3, WriteFailsKeeps DEF Away, Failing
<1>11. ASSUME disk[t] = desc[k].old, UNCHANGED disk
       PROVE  disk' = [disk EXCEPT ![t] = P[k].old]
  BY <1>4, <1>5, <1>6, <1>11
<1> QED BY <1>4, <1>9, <1>10, <1>11 DEF Restore

-------------------------------------------------------------------------------
(* The theorems.                                                                  *)

(* Every step of the journal keeps the invariant.                               *)
LEMMA NextIInv == IInv /\ [Next]_vars => IInv'
<1> SUFFICES ASSUME IInv, [Next]_vars PROVE IInv'
  OBVIOUS
<1>1. CASE Locate
  BY <1>1, LocateIInv
<1>2. CASE LocateRefuses
  BY <1>2, RefuseIInv DEF LocateRefuses
<1>3. CASE Rerun
  BY <1>3, GoneQuietly DEF Rerun, IInv, TypeOK
<1>4. CASE Reconstruct
  BY <1>4, ReconstructIInv
<1>5. CASE Recover
  BY <1>5, RecoverIInv
<1>6. CASE RecoverRefuses
  BY <1>6, RefuseIInv DEF RecoverRefuses
<1>7. CASE Abort
  BY <1>7, AbortIInv
<1>8. CASE RollbackPublish
  BY <1>8, RollbackPublishIInv
<1>9. CASE Restore
  BY <1>9, RestoreIInv
<1>10. CASE FinalizeEmpty
  BY <1>10, FinalizeEmptyIInv
<1>11. ASSUME NEW p \in Plans, Begin(p) PROVE IInv'
  BY <1>11, BeginIInv
<1>12. CASE Leave
  BY <1>12, GoneQuietly DEF Leave, IInv, TypeOK
<1>13. CASE WriteUndo
  BY <1>13, WriteUndoIInv
<1>14. CASE WriteDescriptor
  BY <1>14, WriteDescriptorIInv
<1>15. CASE PublishApplying
  BY <1>15, PublishApplyingIInv
<1>16. CASE WriteTarget
  BY <1>16, WriteTargetIInv
<1>17. CASE PublishCommitted
  BY <1>17, PublishCommittedIInv
<1>18. CASE AcceptCommitted
  BY <1>18, AcceptCommittedIInv
<1>19. CASE PowerCut
  BY <1>19, GoneQuietly DEF PowerCut, IInv, TypeOK
<1>20. CASE UNCHANGED vars
  BY <1>20 DEF vars, IInv, TypeOK, AwayInv, SelectedInv, FailingInv, CommitInv,
               RestoreInv, Valid, GoodNow, Newest, Selected
<1> QED BY <1>1, <1>2, <1>3, <1>4, <1>5, <1>6, <1>7, <1>8, <1>9, <1>10, <1>11, <1>12,
           <1>13, <1>14, <1>15, <1>16, <1>17, <1>18, <1>19, <1>20 DEF Next, Step, Start, Run

(* The inductive invariant holds in every reachable state of the journal.       *)
THEOREM InductiveInvariant == Spec => []IInv
BY InitIInv, NextIInv, PTL DEF Spec

(* Every variable of the journal keeps its type; in particular a plan is only     *)
(* ever prepared on a volume without torn images.                                  *)
THEOREM TypeCorrect == Spec => []TypeOK
<1>1. IInv => TypeOK
  BY DEF IInv
<1> QED BY <1>1, InductiveInvariant, PTL

(* The invariant implies that the durable undo images cover every changed       *)
(* target.                                                                      *)
LEMMA IInvUndoCovers == IInv => UndoCoversWrites
<1> SUFFICES ASSUME IInv, InDoubt, NEW t \in Targets, disk[t] # base[t]
             PROVE  \E i \in 1 .. Newest.cnt :
                        /\ desc[i] # Invalid
                        /\ desc[i].target = t
                        /\ undo[i] = base[t]
                        /\ \A j \in 1 .. (i - 1) : desc[j].target # t
  BY DEF UndoCoversWrites
<1> DEFINE h == Newest
           P == h.plan
           T == {i \in 1 .. h.cnt : P[i].target = t}
<1>1. h \in Header
  <2>1. slot \in SlotPairs /\ (slot[0] # Invalid \/ slot[1] # Invalid)
    BY NewestGood DEF IInv, TypeOK, SlotPairs, Durable
  <2>2. 0 \in Slots /\ 1 \in Slots
    BY DEF Slots
  <2> QED BY <2>1, <2>2, NewestFacts, NewestIsNewestIn
<1>2. Undoable(P, h.cnt, disk, desc, undo, base)
  <2>1. /\ Good(h, disk, desc, undo, base)
        /\ h.state \in {"PREPARING", "APPLYING", "ROLLBACK"}
    BY NewestGood DEF InDoubt, GoodNow
  <2> HIDE DEF h
  <2> QED BY <2>1 DEF Good
<1>3. h.cnt \in Nat /\ P \in Seq(Entry)
  BY <1>1 DEF Header
<1> HIDE DEF h
<1>4. T \in SUBSET Nat /\ T # {}
  BY <1>2, <1>3 DEF Undoable
<1>5. PICK k \in T : \A x \in T : k <= x
  BY <1>4, NatMin
<1>6. /\ k \in 1 .. h.cnt /\ k \in Nat \ {0} /\ k \in 1 .. Len(P) /\ P[k].target = t
      /\ desc[k] = P[k] /\ undo[k] = P[k].old
  BY <1>2, <1>3, <1>5 DEF Undoable
<1>7. \A j \in 1 .. (k - 1) : j \in 1 .. h.cnt /\ P[j].target # t
  BY <1>3, <1>5, <1>6
<1>8. \A j \in 1 .. (k - 1) : desc[j].target # t
  BY <1>2, <1>7 DEF Undoable
<1>9. P[k].old = base[t]
  <2>1. PICK p \in Plans : P = Planned(p.ops, base)
    BY <1>2 DEF Undoable, PreparedOn
  <2>2. base \in Volumes
    BY DEF IInv, TypeOK
  <2>3. P[k].old = Staged(P, base, k - 1, t)
    BY <1>6, <2>1, <2>2, PlannedFacts
  <2>4. Staged(P, base, k - 1, t) = base[t]
    <3>1. k \in Nat \ {0} /\ \A j \in 1 .. (k - 1) : P[j].target # t
      BY <1>6, <1>7
    <3> QED BY <3>1, StagedNoneBelow
  <2> QED BY <2>3, <2>4
<1>10. desc[k] # Invalid
  <2>1. P[k] \in Entry
    BY <1>3, <1>6
  <2> QED BY <1>6, <2>1, InvalidAssumption
<1> QED BY <1>6, <1>8, <1>9, <1>10 DEF h

(* For every volume, plan and number of faults: whatever power cuts and I/O        *)
(* errors do, the durable prefix of an unfinished transaction holds the old image  *)
(* of every target that differs from before it.                                    *)
THEOREM UndoAlwaysCovers == Spec => []UndoCoversWrites
BY InductiveInvariant, IInvUndoCovers, PTL

(* The invariant implies that a COMMITTED header stands for the complete plan.  *)
LEMMA IInvCommitted == IInv => CommittedIsWhole
<1> SUFFICES ASSUME IInv PROVE CommittedIsWhole
  OBVIOUS
<1>1. GoodNow(Newest)
  BY NewestGood
<1> QED BY <1>1 DEF CommittedIsWhole, GoodNow, Good, DiskIs

(* A durable COMMITTED header is never ahead of the volume: every write of its     *)
(* plan is on the device.                                                          *)
THEOREM CommittedAlwaysWhole == Spec => []CommittedIsWhole
BY InductiveInvariant, IInvCommitted, PTL
-------------------------------------------------------------------------------
(* The pair of superblocks, when the only faults are power cuts: no process lives *)
(* on after a failed write, so none publishes from a state it could not verify.   *)

(* Slot s and the one published before it.                                        *)
Follows(f, s) ==
    \/ f[Other(s)] = Invalid
    \/ f[Other(s)] = f[s]
    \/ ValidTransition(f[Other(s)], f[s])

(* PairAccepted, of any pair of superblocks.                                      *)
Accepted(f) ==
    /\ f[0] # Invalid \/ f[1] # Invalid
    /\ f[0] # Invalid /\ f[1] # Invalid =>
          \/ f[0] = f[1]
          \/ f[0].gen < f[1].gen /\ ValidTransition(f[0], f[1])
          \/ f[1].gen < f[0].gen /\ ValidTransition(f[1], f[0])

(* PREPARING names no entry yet.                                                  *)
Fresh(f) == \A s \in Slots : f[s] # Invalid /\ f[s].state = "PREPARING" => f[s].cnt = 0

(* The selected superblock is the last one published; the other is the one before *)
(* it, a copy of it, or damaged.                                                  *)
PairInv ==
    /\ Fresh(slot)
    /\ pc # "abort"
    /\ pc \in Away => Accepted(slot)
    /\ pc \notin Away => Follows(slot, sel)
    /\ pc \notin Away \cup {"applying"} => mem = slot[sel]
    /\ pc = "applying" => SameTransaction(slot[sel], mem) /\ mem.cnt = slot[sel].cnt + 1

(* What the model calls an accepted pair.                                         *)
LEMMA AcceptedIsPair == Accepted(slot) <=> PairAccepted
BY DEF Accepted, PairAccepted, Valid

(* A slot and its predecessor are a pair that the locator accepts.                *)
LEMMA FollowsAccepted ==
    ASSUME NEW f \in SlotPairs, NEW s \in Slots, f[s] # Invalid, Follows(f, s)
    PROVE  Accepted(f)
<1>1. s = 0 \/ s = 1
  BY DEF Slots
<1>2. f[0] \in Header \cup {Invalid} /\ f[1] \in Header \cup {Invalid}
  BY DEF SlotPairs, Slots
<1>3. \A g, h \in Header : ValidTransition(g, h) => g.gen < h.gen
  BY DEF ValidTransition, Header
<1>4. CASE s = 0
  <2>1. f[0] # Invalid /\ Other(0) = 1
    BY <1>4 DEF Other
  <2>2. f[1] = Invalid \/ f[1] = f[0] \/ ValidTransition(f[1], f[0])
    BY <1>4, <2>1 DEF Follows
  <2> QED BY <1>2, <1>3, <2>1, <2>2 DEF Accepted
<1>5. CASE s = 1
  <2>1. f[1] # Invalid /\ Other(1) = 0
    BY <1>5 DEF Other
  <2>2. f[0] = Invalid \/ f[0] = f[1] \/ ValidTransition(f[0], f[1])
    BY <1>5, <2>1 DEF Follows
  <2> QED BY <1>2, <1>3, <2>1, <2>2 DEF Accepted
<1> QED BY <1>1, <1>4, <1>5

(* A publish that completes makes the header follow the selected one.             *)
LEMMA PublishFollows ==
    ASSUME NEW f \in SlotPairs, NEW s \in Slots, f[s] # Invalid,
           NEW h \in Header, ValidTransition(f[s], h), Fresh(f),
           h.state = "PREPARING" => h.cnt = 0
    PROVE  LET g == [f EXCEPT ![Other(s)] = h]
           IN  /\ g \in SlotPairs /\ Other(s) \in Slots /\ g[Other(s)] = h
               /\ Follows(g, Other(s)) /\ Accepted(g) /\ Fresh(g)
<1> DEFINE g == [f EXCEPT ![Other(s)] = h]
<1>1. Other(s) \in Slots /\ Other(s) # s /\ Other(Other(s)) = s
  BY NewestFacts
<1>2. g \in SlotPairs /\ g[s] = f[s] /\ g[Other(s)] = h
  BY <1>1 DEF SlotPairs
<1>3. \A r \in Slots : r = s \/ r = Other(s)
  BY DEF Slots, Other
<1> HIDE DEF g
<1>4. Follows(g, Other(s))
  BY <1>1, <1>2 DEF Follows
<1>5. h # Invalid
  BY InvalidAssumption
<1>6. Accepted(g)
  BY <1>1, <1>2, <1>4, <1>5, FollowsAccepted
<1>7. Fresh(g)
  BY <1>2, <1>3 DEF Fresh
<1> QED BY <1>1, <1>2, <1>4, <1>6, <1>7 DEF g

(* A publish cut short, of a valid successor or of a copy, whatever it left.       *)
LEMMA LandedAccepted ==
    ASSUME NEW f \in SlotPairs, NEW s \in Slots, f[s] # Invalid, Follows(f, s), Fresh(f),
           NEW h \in Header, h = f[s] \/ ValidTransition(f[s], h),
           h.state = "PREPARING" => h.cnt = 0,
           NEW x \in {f[Other(s)], h, Invalid}
    PROVE  LET g == [f EXCEPT ![Other(s)] = x]
           IN  g \in SlotPairs /\ Accepted(g) /\ Fresh(g)
<1> DEFINE g == [f EXCEPT ![Other(s)] = x]
<1>1. Other(s) \in Slots /\ Other(s) # s /\ Other(Other(s)) = s
  BY NewestFacts
<1>2. g \in SlotPairs /\ g[s] = f[s] /\ g[Other(s)] = x
  BY <1>1 DEF SlotPairs
<1>3. \A r \in Slots : r = s \/ r = Other(s)
  BY DEF Slots, Other
<1> HIDE DEF g
<1>4. Fresh(g)
  BY <1>1, <1>2, <1>3 DEF Fresh
<1>5. CASE x = h /\ ValidTransition(f[s], h)
  BY <1>5, PublishFollows DEF g
<1>6. CASE x \in {f[Other(s)], f[s], Invalid}
  <2>1. Follows(g, s)
    BY <1>2, <1>6 DEF Follows
  <2> QED BY <1>2, <1>4, <2>1, FollowsAccepted DEF g
<1> QED BY <1>5, <1>6

(* The locator's choice follows the other slot of a pair it accepts.               *)
LEMMA SelectedFollows ==
    ASSUME slot \in SlotPairs, PairAccepted
    PROVE  Selected \in Slots /\ slot[Selected] # Invalid /\ Follows(slot, Selected)
<1>1. slot[0] \in Header \cup {Invalid} /\ slot[1] \in Header \cup {Invalid}
  BY DEF SlotPairs, Slots
<1>2. \A h \in Header : h.gen \in Nat
  BY DEF Header
<1>3. Other(0) = 1 /\ Other(1) = 0
  BY DEF Other
<1>4. CASE Selected = 0
  BY <1>1, <1>2, <1>3, <1>4 DEF Selected, PairAccepted, Valid, Follows, Slots
<1>5. CASE Selected = 1
  BY <1>1, <1>2, <1>3, <1>5 DEF Selected, PairAccepted, Valid, Follows, Slots
<1> QED BY <1>4, <1>5 DEF Selected

(* A process at work has a valid selected superblock and a pair that is accepted.  *)
LEMMA PairFacts ==
    ASSUME IInv, PairInv
    PROVE  /\ slot \in SlotPairs /\ sel \in Slots /\ Fresh(slot) /\ Accepted(slot)
           /\ pc \notin Away => slot[sel] # Invalid /\ slot[sel] \in Header
                                /\ Follows(slot, sel)
<1>1. slot \in SlotPairs /\ sel \in Slots /\ Fresh(slot)
  BY DEF IInv, TypeOK, SlotPairs, PairInv
<1>2. pc \notin Away => /\ slot[sel] # Invalid /\ slot[sel] \in Header
                        /\ Follows(slot, sel)
  BY <1>1 DEF IInv, TypeOK, SelectedInv, Valid, PairInv
<1> QED BY <1>1, <1>2, FollowsAccepted DEF PairInv

(* A process that ends leaves an accepted pair as the invariant wants it.          *)
LEMMA PairGone ==
    ASSUME ProcessGone, Accepted(slot'), Fresh(slot')
    PROVE  PairInv'
BY DEF ProcessGone, PairInv, Away

(* A step of the process that leaves superblocks and memory alone.                 *)
LEMMA PairStays ==
    ASSUME PairInv, pc \notin Away \cup {"applying"},
           pc' \notin Away \cup {"applying", "abort"}, UNCHANGED <<slot, sel, mem>>
    PROVE  PairInv'
BY DEF PairInv

(* A failed publish, and the power cut that made it fail.                          *)
LEMMA PairLanded ==
    ASSUME IInv, PairInv, pc \notin Away, NEW h \in Header,
           h = slot[sel] \/ ValidTransition(slot[sel], h),
           h.state = "PREPARING" => h.cnt = 0, Landed(h), ProcessGone
    PROVE  PairInv'
<1>1. PICK x \in {slot[Other(sel)], h, Invalid} :
          slot' = [slot EXCEPT ![Other(sel)] = x]
  BY DEF Landed
<1>2. Accepted(slot') /\ Fresh(slot')
  BY <1>1, PairFacts, LandedAccepted
<1> QED BY <1>2, PairGone

(* A publish that succeeded.                                                       *)
LEMMA PairPublished ==
    ASSUME IInv, PairInv, pc \notin Away, NEW h \in Header,
           ValidTransition(slot[sel], h), h.state = "PREPARING" => h.cnt = 0, Publish(h),
           pc' \notin Away \cup {"applying", "abort"}
    PROVE  PairInv'
<1>1. slot' = [slot EXCEPT ![Other(sel)] = h] /\ sel' = Other(sel) /\ mem' = h
  BY DEF Publish
<1>2. /\ Fresh(slot') /\ Follows(slot', Other(sel)) /\ slot'[Other(sel)] = h
  BY <1>1, PairFacts, PublishFollows
<1> QED BY <1>1, <1>2 DEF PairInv

(* The first pair, two EMPTY headers of successive generations, is accepted.       *)
LEMMA InitPairInv == Init => PairInv
<1> SUFFICES ASSUME Init PROVE PairInv
  OBVIOUS
<1>1. slot[0] = EmptyHeader(1) /\ slot[1] = EmptyHeader(2) /\ pc = "off"
  BY DEF Init, Slots
<1>2. ValidTransition(slot[0], slot[1]) /\ slot[0].gen < slot[1].gen
  BY <1>1 DEF ValidTransition, EmptyHeader
<1>3. slot[0] # Invalid
  <2>1. EmptyHeader(1) \in Header
    BY DEF EmptyHeader, Header, States
  <2> QED BY <1>1, <2>1, InvalidAssumption
<1>4. Fresh(slot)
  BY <1>1 DEF Fresh, Slots, EmptyHeader
<1> QED BY <1>1, <1>2, <1>3, <1>4 DEF PairInv, Accepted, Away
(* Each publish of the journal is a transition its own locator allows.             *)
LEMMA PublishedTransitions ==
    ASSUME IInv, PairInv
    PROVE  /\ pc = "applying" => ValidTransition(slot[sel], Advance("APPLYING"))
           /\ pc = "commit" => ValidTransition(slot[sel], Advance("COMMITTED"))
           /\ pc = "rollback" => ValidTransition(slot[sel], Advance("ROLLBACK"))
           /\ pc = "finalize" => ValidTransition(slot[sel], EmptyHeader(mem.gen + 1))
<1>1. mem \in Header /\ sel \in Slots
  BY DEF IInv, TypeOK
<1>2. \A st \in States :
          /\ Advance(st).state = st /\ Advance(st).gen = mem.gen + 1
          /\ Advance(st).plan = mem.plan /\ Advance(st).cnt = mem.cnt
          /\ Advance(st).tx = mem.tx /\ Advance(st).uuid = mem.uuid
  BY <1>1, AdvanceFacts DEF Advance
<1> DEFINE A == Advance("APPLYING")
           C == Advance("COMMITTED")
           R == Advance("ROLLBACK")
<1>3. /\ A.state = "APPLYING" /\ C.state = "COMMITTED" /\ R.state = "ROLLBACK"
      /\ A.gen = mem.gen + 1 /\ C.gen = mem.gen + 1 /\ R.gen = mem.gen + 1
      /\ SameTransaction(mem, A) /\ SameTransaction(mem, C) /\ SameTransaction(mem, R)
      /\ SamePrefix(mem, A) /\ SamePrefix(mem, C) /\ SamePrefix(mem, R)
  BY <1>2 DEF States, SameTransaction, SamePrefix
<1> HIDE DEF A, C, R
<1>4. ASSUME pc = "applying" PROVE ValidTransition(slot[sel], A)
  <2>1. /\ mem.gen = slot[sel].gen /\ mem.state = slot[sel].state
        /\ mem.state \in {"PREPARING", "APPLYING"}
        /\ SameTransaction(slot[sel], mem) /\ mem.cnt = slot[sel].cnt + 1
        /\ slot[sel].state = "PREPARING" => slot[sel].cnt = 0
    BY <1>1, <1>4 DEF IInv, CommitInv, SelectedInv, PairInv, Fresh, Valid, Away
  <2>2. SameTransaction(slot[sel], A) /\ A.cnt = slot[sel].cnt + 1
    BY <1>3, <2>1 DEF SameTransaction, SamePrefix
  <2>3. slot[sel].state = "PREPARING" => slot[sel].cnt = 0 /\ A.cnt = 1
    BY <2>1, <2>2
  <2> QED BY <1>3, <2>1, <2>2, <2>3 DEF ValidTransition
<1>5. ASSUME pc = "commit" PROVE ValidTransition(slot[sel], C)
  BY <1>3, <1>5 DEF ValidTransition, IInv, CommitInv, PairInv, Away
<1>6. ASSUME pc = "rollback" PROVE ValidTransition(slot[sel], R)
  BY <1>3, <1>6 DEF ValidTransition, IInv, FailingInv, Failing, PairInv, Away
<1>7. ASSUME pc = "finalize"
      PROVE  ValidTransition(slot[sel], EmptyHeader(mem.gen + 1))
  BY <1>7 DEF ValidTransition, EmptyHeader, IInv, RestoreInv, PairInv, Away
<1> QED BY <1>4, <1>5, <1>6, <1>7 DEF A, C, R

(* Without I/O errors a write that fails ends the process.                         *)
LEMMA CutEnds ==
    ASSUME ~IOErrors, NEW onError, WriteFails(onError)
    PROVE  ProcessGone
BY DEF WriteFails

(* The steps that leave the superblocks alone.                                     *)
LEMMA QuietPairInv ==
    ASSUME ~IOErrors, IInv, PairInv, UNCHANGED slot,
           \/ Locate \/ LocateRefuses \/ Rerun \/ Recover \/ RecoverRefuses \/ Abort
           \/ Restore \/ Leave \/ WriteUndo \/ WriteDescriptor \/ WriteTarget
           \/ AcceptCommitted \/ PowerCut \/ UNCHANGED vars
    PROVE  PairInv'
<1>1. slot \in SlotPairs /\ Accepted(slot') /\ Fresh(slot')
  BY PairFacts
<1>2. CASE ProcessGone
  BY <1>1, <1>2, PairGone
<1>3. CASE pc' = "refused"
  BY <1>1, <1>3 DEF PairInv, Away
<1>4. CASE Locate
  <2>1. slot[Selected] # Invalid /\ Follows(slot, Selected)
    BY <1>1, <1>4, SelectedFollows DEF Locate
  <2>2. /\ slot' = slot /\ sel' = Selected /\ mem' = slot[Selected]
        /\ pc' \in {"reconstruct", "recover", "ready"}
    BY <1>4 DEF Locate, Newest
  <2>3. Follows(slot', sel') /\ mem' = slot'[sel']
    BY <2>1, <2>2
  <2> QED BY <1>1, <2>2, <2>3 DEF PairInv, Away
<1>5. CASE /\ pc \notin Away \cup {"applying"} /\ UNCHANGED <<slot, sel, mem>>
           /\ pc' \notin Away \cup {"applying", "abort"}
  BY <1>5, PairStays
<1>6. CASE Recover \/ Restore \/ WriteUndo \/ WriteTarget \/ AcceptCommitted
  <2>1. CASE Recover
    BY <1>5, <2>1 DEF Recover, Away
  <2>2. CASE Restore
    BY <1>2, <1>5, <2>2, CutEnds DEF Restore, Away
  <2>3. CASE WriteUndo
    BY <1>2, <1>5, <2>3, CutEnds DEF WriteUndo, Away
  <2>4. CASE WriteTarget
    BY <1>2, <1>5, <2>4, CutEnds DEF WriteTarget, Away
  <2>5. CASE AcceptCommitted
    BY <1>2, <1>5, <2>5 DEF AcceptCommitted, Away
  <2> QED BY <1>6, <2>1, <2>2, <2>3, <2>4, <2>5
<1>7. CASE WriteDescriptor
  <2>1. CASE WriteFails("abort")
    BY <1>2, <2>1, CutEnds
  <2>2. CASE ~WriteFails("abort")
    <3>1. /\ pc = "desc" /\ pc' = "applying" /\ UNCHANGED <<slot, sel>>
          /\ mem' = [mem EXCEPT !.cnt = mem.cnt + 1]
      BY <1>7, <2>2 DEF WriteDescriptor
    <3>2. mem = slot[sel] /\ mem \in Header /\ Follows(slot, sel)
      BY <3>1 DEF PairInv, IInv, TypeOK, Away
    <3>3. SameTransaction(slot[sel], mem') /\ mem'.cnt = slot[sel].cnt + 1
      BY <3>1, <3>2 DEF SameTransaction, Header
    <3> QED BY <1>1, <3>1, <3>2, <3>3 DEF PairInv, Away
  <2> QED BY <2>1, <2>2
<1>8. CASE Abort
  BY <1>8 DEF Abort, PairInv
<1>9. CASE UNCHANGED vars
  BY <1>9 DEF vars, PairInv
<1>10. CASE LocateRefuses \/ RecoverRefuses
  BY <1>3, <1>10 DEF LocateRefuses, RecoverRefuses
<1>11. CASE Rerun \/ Leave \/ PowerCut
  BY <1>2, <1>11 DEF Rerun, Leave, PowerCut
<1> QED BY <1>4, <1>6, <1>7, <1>8, <1>9, <1>10, <1>11

(* A header built from the one in memory by rh_wal_publish.                        *)
LEMMA AdvanceIsHeader ==
    ASSUME IInv, NEW st \in States
    PROVE  Advance(st) \in Header /\ Advance(st).state = st
BY AdvanceFacts DEF Advance, IInv, TypeOK

(* A damaged superblock is rebuilt as a copy of the selected one.                  *)
LEMMA ReconstructPairInv == ~IOErrors /\ IInv /\ PairInv /\ Reconstruct => PairInv'
<1> SUFFICES ASSUME ~IOErrors, IInv, PairInv, Reconstruct PROVE PairInv'
  OBVIOUS
<1>1. pc = "reconstruct" /\ mem = slot[sel] /\ mem \in Header
  BY DEF Reconstruct, PairInv, IInv, TypeOK, Away
<1>2. /\ slot \in SlotPairs /\ sel \in Slots /\ Fresh(slot) /\ slot[sel] # Invalid
      /\ Follows(slot, sel)
  BY <1>1, PairFacts DEF Away
<1>3. mem.state = "PREPARING" => mem.cnt = 0
  BY <1>1, <1>2 DEF Fresh
<1>4. CASE Landed(mem) /\ ProcessGone
  BY <1>1, <1>3, <1>4, PairLanded DEF Away
<1>5. CASE slot' = [slot EXCEPT ![Other(sel)] = mem] /\ ~ProcessGone
  <2>1. pc' = "recover" /\ UNCHANGED <<sel, mem>>
    BY <1>5, CutEnds DEF Reconstruct
  <2>2. Other(sel) \in Slots /\ Other(sel) # sel
    BY <1>2, NewestFacts
  <2>3. slot'[Other(sel)] = mem /\ slot'[sel] = mem
    BY <1>1, <1>2, <1>5, <2>2 DEF SlotPairs
  <2>4. Follows(slot', sel)
    BY <2>3 DEF Follows
  <2>5. Fresh(slot')
    <3>1. \A r \in Slots : r = sel \/ r = Other(sel)
      BY <1>2 DEF Slots, Other
    <3> QED BY <1>3, <2>3, <3>1 DEF Fresh
  <2> QED BY <2>1, <2>3, <2>4, <2>5 DEF PairInv, Away
<1>6. CASE slot' = [slot EXCEPT ![Other(sel)] = mem] /\ ProcessGone
  BY <1>4, <1>6 DEF Landed
<1>7. CASE Landed(mem) /\ WriteFails("off")
  BY <1>4, <1>7, CutEnds
<1> QED BY <1>5, <1>6, <1>7 DEF Reconstruct

(* Publishing APPLYING, COMMITTED, ROLLBACK or EMPTY.                              *)
LEMMA PublishPairInv ==
    ASSUME ~IOErrors, IInv, PairInv,
           PublishApplying \/ PublishCommitted \/ RollbackPublish \/ FinalizeEmpty
    PROVE  PairInv'
<1>1. CASE PublishApplying
  <2> DEFINE h == Advance("APPLYING")
  <2>1. h \in Header /\ h.state = "APPLYING"
    BY AdvanceIsHeader DEF States
  <2>2. pc = "applying" /\ ValidTransition(slot[sel], h)
    BY <1>1, PublishedTransitions DEF PublishApplying
  <2>3. (Publish(h) /\ pc' = "target") \/ (Landed(h) /\ ProcessGone)
    BY <1>1, CutEnds DEF PublishApplying
  <2> HIDE DEF h
  <2> QED BY <2>1, <2>2, <2>3, PairPublished, PairLanded DEF Away
<1>2. CASE PublishCommitted
  <2> DEFINE h == Advance("COMMITTED")
  <2>1. h \in Header /\ h.state = "COMMITTED"
    BY AdvanceIsHeader DEF States
  <2>2. pc = "commit" /\ ValidTransition(slot[sel], h)
    BY <1>2, PublishedTransitions DEF PublishCommitted
  <2>3. (Publish(h) /\ pc' = "committed") \/ (Landed(h) /\ ProcessGone)
    BY <1>2, CutEnds DEF PublishCommitted
  <2> HIDE DEF h
  <2> QED BY <2>1, <2>2, <2>3, PairPublished, PairLanded DEF Away
<1>3. CASE RollbackPublish
  <2> DEFINE h == Advance("ROLLBACK")
  <2>1. h \in Header /\ h.state = "ROLLBACK"
    BY AdvanceIsHeader DEF States
  <2>2. pc = "rollback" /\ ValidTransition(slot[sel], h)
    BY <1>3, PublishedTransitions DEF RollbackPublish
  <2>3. \/ Publish(h) /\ pc' \in {"finalize", "restore"}
        \/ Landed(h) /\ ProcessGone
    BY <1>3, CutEnds DEF RollbackPublish
  <2> HIDE DEF h
  <2> QED BY <2>1, <2>2, <2>3, PairPublished, PairLanded DEF Away
<1>4. CASE FinalizeEmpty
  <2> DEFINE h == EmptyHeader(mem.gen + 1)
  <2>1. h \in Header /\ h.state = "EMPTY"
    BY DEF EmptyHeader, Header, States, IInv, TypeOK
  <2>2. pc = "finalize" /\ ValidTransition(slot[sel], h)
    BY <1>4, PublishedTransitions DEF FinalizeEmpty
  <2>3. Landed(h) /\ ProcessGone
    BY <1>4, CutEnds DEF FinalizeEmpty, Landed
  <2> HIDE DEF h
  <2> QED BY <2>1, <2>2, <2>3, PairLanded DEF Away
<1> QED BY <1>1, <1>2, <1>3, <1>4

(* PREPARING follows EMPTY.                                                        *)
LEMMA BeginPairInv ==
    ASSUME ~IOErrors, IInv, PairInv, NEW p \in Plans, Begin(p)
    PROVE  PairInv'
<1> DEFINE h == [gen |-> mem.gen + 1, state |-> "PREPARING", tx |-> p.tx,
                 uuid |-> txs + 1, plan |-> Planned(p.ops, disk), cnt |-> 0]
<1>1. /\ pc = "ready" /\ mem = slot[sel] /\ GoodNow(mem) /\ mem \in Header
      /\ mem.gen \in Nat /\ mem.state = "EMPTY" /\ txs \in Nat
  BY DEF Begin, PairInv, IInv, SelectedInv, CommitInv, TypeOK, Away, Failing, Header
<1>2. disk \in Volumes
  BY <1>1 DEF GoodNow, Good
<1>3. Planned(p.ops, disk) \in Seq(Entry) /\ p.tx \in TxKinds
  BY <1>2, PlannedFacts, WalAssumption
<1>4. h \in Header /\ h.gen = mem.gen + 1 /\ h.state = "PREPARING" /\ h.cnt = 0
  BY <1>1, <1>3 DEF Header, States
<1>5. (Publish(h) /\ pc' = "undo") \/ (Landed(h) /\ ProcessGone)
  BY CutEnds DEF Begin
<1> HIDE DEF h
<1>6. ValidTransition(slot[sel], h)
  BY <1>1, <1>4 DEF ValidTransition
<1> QED BY <1>1, <1>4, <1>5, <1>6, PairPublished, PairLanded DEF Away

(* The pair invariant is inductive when no write reports an error.                 *)
LEMMA NextPairInv == ASSUME ~IOErrors, IInv, PairInv, [Next]_vars PROVE PairInv'
<1>1. CASE UNCHANGED vars
  BY <1>1, QuietPairInv DEF vars
<1>2. CASE PowerCut
  BY <1>2, QuietPairInv DEF PowerCut
<1>3. CASE \E p \in Plans : Begin(p)
  BY <1>3, BeginPairInv
<1>4. CASE Reconstruct
  BY <1>4, ReconstructPairInv
<1>5. CASE PublishApplying \/ PublishCommitted \/ RollbackPublish \/ FinalizeEmpty
  BY <1>5, PublishPairInv
<1>6. CASE Locate \/ LocateRefuses \/ Rerun
  BY <1>6, QuietPairInv DEF Locate, LocateRefuses, Rerun
<1>7. CASE Recover \/ RecoverRefuses \/ Abort
  BY <1>7, QuietPairInv DEF Recover, RecoverRefuses, Abort
<1>8. CASE Restore \/ Leave \/ WriteUndo
  BY <1>8, QuietPairInv DEF Restore, Leave, WriteUndo
<1>9. CASE WriteDescriptor \/ WriteTarget \/ AcceptCommitted
  BY <1>9, QuietPairInv DEF WriteDescriptor, WriteTarget, AcceptCommitted
<1> QED BY <1>1, <1>2, <1>3, <1>4, <1>5, <1>6, <1>7, <1>8, <1>9 DEF Next, Step, Start, Run

(* Cut by the power wherever it may be, in any number of transactions, a tool that *)
(* stops at the first failed write leaves two superblocks that its locator takes.  *)
(* (An I/O error that the process survives is a different matter: see             *)
(* NewerKeepsPrefix.)                                                              *)
THEOREM PairIsAlwaysAccepted ==
    ASSUME ~IOErrors
    PROVE  Spec => []PairAlwaysAccepted
<1>1. Init => IInv /\ PairInv
  BY InitIInv, InitPairInv
<1>2. IInv /\ PairInv /\ [Next]_vars => IInv' /\ PairInv'
  BY NextIInv, NextPairInv
<1>3. IInv /\ PairInv => PairAlwaysAccepted
  BY PairFacts, AcceptedIsPair DEF PairAlwaysAccepted
<1> QED BY <1>1, <1>2, <1>3, PTL DEF Spec
-------------------------------------------------------------------------------
(* What the tool leaves behind, and what its recovery refuses.  Recovery is        *)
(* narrower than the planner: CommittedIsRecognised, TouchedPrefixLeads and        *)
(* InterruptedIsLoadable fail for plans that write a target twice, that mix native *)
(* replay with other entries or that write restart pages alone.  For all other     *)
(* plans nothing is refused.                                                       *)

(* Targets are all different; native replay is on its own and does not begin with  *)
(* a restart page.                                                                 *)
PlainPlan(e) ==
    /\ \A i, j \in 1 .. Len(e) : e[i].target = e[j].target => i = j
    /\ (\E i \in 1 .. Len(e) : e[i].kind \in {"redo", "restart"}) =>
          /\ e[1].kind = "redo"
          /\ \A i \in 1 .. Len(e) : e[i].kind \in {"redo", "restart"}

PlainPlans == \A p \in Plans : PlainPlan(p.ops)

(* The first n entries of a plan.                                                  *)
Cut(P, n) == [i \in 1 .. n |-> P[i]]

(* A header's plan passed rh_wal_prepare_plan.                                     *)
Shaped(h) ==
    h.state # "EMPTY" =>
        /\ PlanShapeValid(h.tx, h.plan) /\ PlainPlan(h.plan)
        /\ \A i \in 1 .. Len(h.plan) : h.plan[i].new # h.plan[i].old
        /\ Len(h.plan) <= MaxEntries

AllShaped(f) == \A s \in Slots : f[s] # Invalid => Shaped(f[s])

(* What recovery looks for: the entries written lead, and a committed prefix is    *)
(* still described.                                                                *)
Leads(P, n, d) ==
    \A i \in 1 .. n : d[P[i].target] = P[i].new =>
        \A j \in 1 .. i : d[P[j].target] = P[j].new

Lead(h, d, e, u) ==
    /\ h.state \in {"PREPARING", "APPLYING", "ROLLBACK"} => Leads(h.plan, h.cnt, d)
    /\ h.state = "COMMITTED" =>
          \A i \in 1 .. h.cnt : e[i] = h.plan[i] /\ u[i] = h.plan[i].old

RefusalInv ==
    /\ pc # "refused"
    /\ AllShaped(slot)
    /\ Lead(NewestIn(slot), disk, desc, undo)

(* A prefix of a sequence, and the whole of it.                                    *)
LEMMA CutFacts ==
    ASSUME NEW P \in Seq(Entry), NEW n \in 1 .. Len(P)
    PROVE  /\ Len(Cut(P, n)) = n
           /\ \A i \in 1 .. n : Cut(P, n)[i] = P[i]
           /\ KindsOf(Cut(P, n)) = [i \in 1 .. n |-> P[i].kind]
           /\ Len(KindsOf(Cut(P, n))) = n
           /\ n = Len(P) => Cut(P, n) = P
<1>1. n \in Nat /\ Len(P) \in Nat /\ n <= Len(P)
  OBVIOUS
<1>2. Cut(P, n) \in [1 .. n -> Entry]
  BY <1>1 DEF Cut
<1>3. Len(Cut(P, n)) = n
  BY <1>1, <1>2
<1>4. \A i \in 1 .. n : Cut(P, n)[i] = P[i]
  BY DEF Cut
<1>5. KindsOf(Cut(P, n)) = [i \in 1 .. n |-> P[i].kind]
  BY <1>3, <1>4 DEF KindsOf
<1>6. Len([i \in 1 .. n |-> P[i].kind]) = n
  <2>1. \A i \in 1 .. n : P[i].kind \in Kinds
    <3>1. \A i \in 1 .. n : P[i] \in Entry
      BY <1>1
    <3> QED BY <3>1 DEF Entry
  <2>2. [i \in 1 .. n |-> P[i].kind] \in [1 .. n -> Kinds]
    BY <2>1
  <2> QED BY <1>1, <2>2
<1>7. n = Len(P) => Cut(P, n) = P
  BY DEF Cut
<1> QED BY <1>3, <1>4, <1>5, <1>6, <1>7

(* A prefix of a mirrored plan ends on a primary at most.                          *)
LEMMA CutMirrorPairs ==
    ASSUME NEW P \in Seq(Entry), NEW n \in 1 .. Len(P), MirrorPairsValid(P, FALSE)
    PROVE  MirrorPairsValid(Cut(P, n), TRUE)
<1> DEFINE e == Cut(P, n)
<1>1. Len(e) = n /\ \A i \in 1 .. n : e[i] = P[i]
  BY CutFacts
<1> HIDE DEF e
<1>2. ASSUME NEW i \in 1 .. n, e[i].target \in DOMAIN Mirror, i # n
      PROVE  /\ i < n /\ e[i + 1].target = Mirror[e[i].target]
             /\ e[i + 1].kind = e[i].kind
             /\ e[i + 1].old = e[i].old /\ e[i + 1].new = e[i].new
  <2>1. i \in 1 .. Len(P) /\ i + 1 \in 1 .. n /\ i < n
    BY <1>2
  <2>2. e[i] = P[i] /\ e[i + 1] = P[i + 1]
    BY <1>1, <2>1
  <2> QED BY <1>2, <2>1, <2>2 DEF MirrorPairsValid
<1>3. ASSUME NEW i \in 1 .. n, \E p \in DOMAIN Mirror : e[i].target = Mirror[p]
      PROVE  i > 1 /\ e[i - 1].target \in DOMAIN Mirror
  <2>1. i \in 1 .. Len(P) /\ e[i] = P[i]
    BY <1>1
  <2>2. i > 1 /\ P[i - 1].target \in DOMAIN Mirror
    BY <1>3, <2>1 DEF MirrorPairsValid
  <2>3. i - 1 \in 1 .. n
    BY <2>2
  <2> QED BY <1>1, <2>2, <2>3
<1>4. MirrorPairsValid(e, TRUE)
  BY <1>1, <1>2, <1>3 DEF MirrorPairsValid
<1> QED BY <1>4 DEF e

(* The order of a plain plan's kinds is one that every prefix of it has.           *)
LEMMA CutOrder ==
    ASSUME NEW P \in Seq(Entry), NEW n \in 1 .. Len(P), PlainPlan(P),
           ActionOrderValid(KindsOf(P), TRUE)
    PROVE  ActionOrderValid(KindsOf(Cut(P, n)), FALSE)
<1> DEFINE k == KindsOf(P)
           c == KindsOf(Cut(P, n))
           N == Len(P)
<1>1. /\ k = [i \in 1 .. N |-> P[i].kind] /\ c = [i \in 1 .. n |-> P[i].kind]
      /\ Len(c) = n /\ n \in Nat /\ N \in Nat /\ n <= N /\ n > 0
  BY CutFacts DEF KindsOf
<1>2. Len(k) = N
  <2>1. N \in 1 .. N /\ Cut(P, N) = P
    BY <1>1, CutFacts
  <2> QED BY <2>1, CutFacts
<1>3. \A i \in 1 .. n : c[i] = k[i] /\ i \in 1 .. N /\ k[i] = P[i].kind
  BY <1>1
<1>4. \A i \in 1 .. n : \A j \in 1 .. (i - 1) : j \in 1 .. n
  BY <1>1
<1> HIDE DEF k, c, N
<1>5. /\ \A i \in 1 .. N : k[i] # "foundation"
      /\ \A i \in 1 .. N : k[i] = "dirty_set" =>
            i <= 2 /\ \A j \in 1 .. (i - 1) : k[j] = "dirty_set"
      /\ \A i \in 1 .. N : k[i] = "redo" =>
            \A j \in 1 .. (i - 1) : k[j] \in {"dirty_set", "redo"}
      /\ \A i \in 1 .. N : \A j \in 1 .. (i - 1) : k[j] = "restart" => k[i] = "restart"
      /\ \A i \in 1 .. N : k[i] = "bitmap" =>
            \A j \in 1 .. (i - 1) : k[j] \notin {"derived", "dirty_clear"}
      /\ \A i \in 1 .. N : k[i] = "index_root" =>
            \A j \in 1 .. (i - 1) : ~IsDerived(k[j])
      /\ \A i \in 1 .. N : k[i] = "restart" => i + 2 > N
      /\ k[1] = "dirty_set" => N > 1 /\ k[2] = "dirty_set"
  BY <1>2 DEF ActionOrderValid, k
<1>6. /\ \A i \in 1 .. n : c[i] # "foundation"
      /\ \A i \in 1 .. n : c[i] = "dirty_set" =>
            i <= 2 /\ \A j \in 1 .. (i - 1) : c[j] = "dirty_set"
      /\ \A i \in 1 .. n : c[i] = "redo" =>
            \A j \in 1 .. (i - 1) : c[j] \in {"dirty_set", "redo"}
      /\ \A i \in 1 .. n : \A j \in 1 .. (i - 1) : c[j] = "restart" => c[i] = "restart"
  BY <1>3, <1>4, <1>5
<1>7. /\ \A i \in 1 .. n : c[i] = "bitmap" =>
            \A j \in 1 .. (i - 1) : c[j] \notin {"derived", "dirty_clear"}
      /\ \A i \in 1 .. n : c[i] = "index_root" =>
            \A j \in 1 .. (i - 1) : ~IsDerived(c[j])
      /\ \A i \in 1 .. n : c[i] = "restart" => i + 2 > n
  <2>1. ASSUME NEW i \in 1 .. n, c[i] = "bitmap", NEW j \in 1 .. (i - 1)
        PROVE  c[j] \notin {"derived", "dirty_clear"}
    BY <1>3, <1>4, <1>5, <2>1
  <2>2. ASSUME NEW i \in 1 .. n, c[i] = "index_root", NEW j \in 1 .. (i - 1)
        PROVE  ~IsDerived(c[j])
    BY <1>3, <1>4, <1>5, <2>2
  <2>3. ASSUME NEW i \in 1 .. n, c[i] = "restart" PROVE i + 2 > n
    <3>1. i + 2 > N
      BY <1>3, <1>5, <2>3
    <3> QED BY <1>1, <3>1
  <2> QED BY <2>1, <2>2, <2>3
<1>8. (\E i \in 1 .. n : c[i] = "restart") => \E i \in 1 .. n : c[i] = "redo"
  <2>1. (\E i \in 1 .. n : c[i] = "restart") => P[1].kind = "redo"
    BY <1>3 DEF PlainPlan, N
  <2>2. 1 \in 1 .. n
    BY <1>1
  <2> QED BY <1>3, <2>1, <2>2
<1>9. c[1] = "dirty_set" /\ n > 1 => c[2] = "dirty_set"
  <2>1. 1 \in 1 .. n /\ (n > 1 => 2 \in 1 .. n)
    BY <1>1
  <2> QED BY <1>3, <1>5, <2>1
<1>10. ActionOrderValid(c, FALSE)
  BY <1>1, <1>6, <1>7, <1>8, <1>9 DEF ActionOrderValid
<1> QED BY <1>10 DEF c

(* rh_wal_load_entries accepts every nonempty prefix of a plain plan, and the      *)
(* whole of it once COMMITTED.                                                     *)
LEMMA CutShape ==
    ASSUME NEW P \in Seq(Entry), NEW n \in 1 .. Len(P), NEW tx,
           PlanShapeValid(tx, P), PlainPlan(P)
    PROVE  /\ PrefixShapeValid(tx, Cut(P, n), FALSE)
           /\ n = Len(P) => PrefixShapeValid(tx, Cut(P, n), TRUE)
<1> DEFINE e == Cut(P, n)
<1>1. /\ Len(e) = n /\ \A i \in 1 .. n : e[i] = P[i]
      /\ KindsOf(e) = [i \in 1 .. n |-> P[i].kind] /\ Len(KindsOf(e)) = n
      /\ n = Len(P) => e = P
  BY CutFacts
<1>2. MirrorPairsValid(e, TRUE)
  BY CutMirrorPairs DEF PlanShapeValid
<1>3. tx = "metadata_repair" => ActionOrderValid(KindsOf(e), FALSE)
  BY CutOrder DEF PlanShapeValid
<1> HIDE DEF e
<1>4. 1 .. n \subseteq 1 .. Len(P) /\ 1 \in 1 .. n /\ n <= Len(P)
  OBVIOUS
<1>5. VerifierGroupsAccept(KindsOf(e))
  <2> DEFINE k == KindsOf(e)
  <2>1. Len(k) = n /\ \A i \in 1 .. n : k[i] = P[i].kind
    BY <1>1
  <2> HIDE DEF k
  <2>2. (\E i \in 1 .. n : k[i] \in {"redo", "restart"}) =>
            k[1] = "redo" /\ \A i \in 1 .. n : k[i] \in {"redo", "restart"}
    BY <1>4, <2>1 DEF PlainPlan
  <2>3. VerifierGroupsAccept(k)
    BY <1>4, <2>1, <2>2 DEF VerifierGroupsAccept
  <2> QED BY <2>3 DEF k
<1>6. /\ tx = "dirty_clear" =>
            Len(P) = 2 /\ \A i \in 1 .. Len(e) : e[i].kind = "dirty_clear"
      /\ tx = "metadata_repair" => \A i \in 1 .. Len(e) : e[i].kind # "dirty_clear"
  BY <1>1, <1>4 DEF PlanShapeValid
<1>7. PrefixShapeValid(tx, e, FALSE)
  BY <1>1, <1>2, <1>3, <1>4, <1>5, <1>6 DEF PrefixShapeValid
<1>8. ASSUME n = Len(P) PROVE PrefixShapeValid(tx, e, TRUE)
  <2>1. MirrorPairsValid(e, FALSE)
    BY <1>1, <1>8 DEF PlanShapeValid
  <2>2. tx = "metadata_repair" => ActionOrderValid(KindsOf(e), TRUE)
    BY <1>1, <1>8 DEF PlanShapeValid
  <2>3. MirrorPairsValid(e, ~TRUE)
    BY <2>1
  <2>4. tx = "dirty_clear" => Len(e) = 2
    BY <1>1, <1>6, <1>8
  <2>5. tx = "dirty_clear" =>
            /\ \A i \in 1 .. Len(e) : e[i].kind = "dirty_clear"
            /\ Len(e) <= 2 /\ (TRUE => Len(e) = 2)
    <3>1. n \in Nat /\ Len(e) = n
      BY <1>1
    <3>2. tx = "dirty_clear" => n <= 2 /\ n = 2
      BY <2>4, <3>1
    <3> QED BY <1>6, <3>1, <3>2
  <2>6. tx = "metadata_repair" =>
            /\ \A i \in 1 .. Len(e) : e[i].kind # "dirty_clear"
            /\ ActionOrderValid(KindsOf(e), TRUE)
    BY <1>6, <2>2
  <2> QED BY <1>5, <2>3, <2>5, <2>6, Zenon DEF PrefixShapeValid
<1> QED BY <1>7, <1>8 DEF e

(* With different targets, what the entries up to k write is what is there.        *)
LEMMA StagedAt ==
    ASSUME NEW P, NEW v, NEW k \in Nat, NEW j \in 1 .. k,
           \A i \in 1 .. k : P[i].target = P[j].target => i = j
    PROVE  Staged(P, v, k, P[j].target) = P[j].new
<1> DEFINE J == {i \in 1 .. k : P[i].target = P[j].target}
<1>1. J = {j} /\ J # {}
  OBVIOUS
<1>2. LastOf(J) \in J
  BY <1>1, LastOfIn
<1>3. LastOf(J) = j
  BY <1>1, <1>2
<1> QED BY <1>1, <1>3 DEF Staged
(* CutShape, with the header's state deciding whether the plan must be complete.   *)
LEMMA CutShapeWhen ==
    ASSUME NEW P \in Seq(Entry), NEW n \in 1 .. Len(P), NEW tx,
           PlanShapeValid(tx, P), PlainPlan(P), NEW b \in BOOLEAN, b => n = Len(P)
    PROVE  PrefixShapeValid(tx, Cut(P, n), b)
<1>1. CASE b = TRUE
  BY <1>1, CutShape
<1>2. CASE b = FALSE
  BY <1>2, CutShape
<1> QED BY <1>1, <1>2

(* The process works on the newest superblock.                                     *)
LEMMA SelectedIsNewest ==
    ASSUME IInv, PairInv, pc \notin Away
    PROVE  NewestIn(slot) = slot[sel] /\ OtherOlder(slot, sel)
<1>1. /\ slot \in SlotPairs /\ sel \in Slots /\ slot[sel] # Invalid
      /\ Follows(slot, sel)
  BY PairFacts
<1>2. Other(sel) \in Slots /\ slot[Other(sel)] \in Header \cup {Invalid}
      /\ slot[sel] \in Header
  BY <1>1, NewestFacts DEF SlotPairs
<1>3. \A g, h \in Header : ValidTransition(g, h) => g.gen < h.gen
  BY DEF ValidTransition, Header
<1>4. OtherOlder(slot, sel)
  BY <1>1, <1>2, <1>3 DEF Follows, OtherOlder
<1> QED BY <1>1, <1>4, NewestFacts

(* The prefix named by a header found at a start is there, descriptors and         *)
(* payloads, as the plan has them.                                                 *)
LEMMA PrefixIsThere ==
    ASSUME IInv, PairInv, RefusalInv, pc = "recover"
    PROVE  /\ mem \in Header /\ mem.cnt \in Nat /\ mem.plan \in Seq(Entry)
           /\ mem.state # "EMPTY" /\ Shaped(mem) /\ GoodNow(mem)
           /\ Lead(mem, disk, desc, undo)
           /\ mem.cnt <= Len(mem.plan) /\ Len(mem.plan) <= MaxEntries
           /\ \A i \in 1 .. mem.cnt : desc[i] = mem.plan[i] /\ undo[i] = mem.plan[i].old
           /\ mem.state = "COMMITTED" => mem.cnt = Len(mem.plan)
           /\ Prefix(mem) = Cut(mem.plan, mem.cnt)
<1>1. /\ mem = slot[sel] /\ slot[sel] # Invalid /\ mem \in Header /\ sel \in Slots
      /\ mem.state # "EMPTY" /\ GoodNow(mem)
  BY DEF IInv, TypeOK, SelectedInv, RestoreInv, Valid, Away, Failing
<1>2. mem.cnt \in Nat /\ mem.plan \in Seq(Entry) /\ Len(mem.plan) \in Nat
      /\ mem.state \in States
  BY <1>1 DEF Header
<1>3. Shaped(mem)
  BY <1>1 DEF RefusalInv, AllShaped
<1>4. Lead(mem, disk, desc, undo)
  BY <1>1, SelectedIsNewest DEF RefusalInv, Away
<1>5. /\ mem.cnt <= Len(mem.plan) /\ Len(mem.plan) <= MaxEntries
      /\ \A i \in 1 .. mem.cnt : desc[i] = mem.plan[i] /\ undo[i] = mem.plan[i].old
      /\ mem.state = "COMMITTED" => mem.cnt = Len(mem.plan)
  <2>1. CASE mem.state = "COMMITTED"
    <3>1. mem.cnt = Len(mem.plan)
      BY <1>1, <2>1 DEF GoodNow, Good
    <3>2. Len(mem.plan) <= MaxEntries
      BY <1>1, <1>3 DEF Shaped
    <3>3. \A i \in 1 .. mem.cnt : desc[i] = mem.plan[i] /\ undo[i] = mem.plan[i].old
      BY <1>4, <2>1 DEF Lead
    <3> QED BY <1>2, <3>1, <3>2, <3>3
  <2>2. CASE mem.state \in {"PREPARING", "APPLYING", "ROLLBACK"}
    <3>1. Undoable(mem.plan, mem.cnt, disk, desc, undo, base)
      BY <1>1, <2>2, GoodInDoubt DEF GoodNow
    <3> QED BY <2>2, <3>1 DEF Undoable
  <2> QED BY <1>1, <1>2, <2>1, <2>2 DEF States
<1>6. Prefix(mem) = Cut(mem.plan, mem.cnt)
  BY <1>5 DEF Prefix, Cut
<1> QED BY <1>1, <1>2, <1>3, <1>4, <1>5, <1>6

(* rh_wal_load_entries takes it ...                                                *)
LEMMA RecoveryLoads ==
    ASSUME IInv, PairInv, RefusalInv, pc = "recover"
    PROVE  LoadEntries(mem)
<1> DEFINE P == mem.plan
           n == mem.cnt
           e == Prefix(mem)
           b == mem.state = "COMMITTED"
<1>1. /\ n \in Nat /\ P \in Seq(Entry) /\ Len(P) \in Nat
      /\ mem.state # "EMPTY" /\ Shaped(mem)
      /\ n <= Len(P) /\ Len(P) <= MaxEntries /\ MaxEntries \in Nat
      /\ \A i \in 1 .. n : desc[i] = P[i] /\ undo[i] = P[i].old
      /\ b => n = Len(P)
      /\ e = Cut(P, n)
  BY PrefixIsThere, WalAssumption
<1>2. PlanShapeValid(mem.tx, P) /\ PlainPlan(P)
  BY <1>1 DEF Shaped
<1>3. ASSUME n > 0
      PROVE  PrefixShapeValid(mem.tx, e, b) /\ (b => e = P)
  <2>1. n \in 1 .. Len(P) /\ b \in BOOLEAN
    BY <1>1, <1>3
  <2> HIDE DEF P, n, e, b
  <2>2. PrefixShapeValid(mem.tx, Cut(P, n), b)
    BY <1>1, <1>2, <2>1, CutShapeWhen
  <2>3. b => Cut(P, n) = P
    BY <1>1, <2>1, CutFacts
  <2> QED BY <1>1, <2>2, <2>3
<1>4. n <= MaxEntries
  BY <1>1
<1>5. \A i \in 1 .. n : desc[i] # Invalid /\ undo[i] = desc[i].old
  <2>1. \A i \in 1 .. n : P[i] \in Entry
    BY <1>1
  <2> QED BY <1>1, <2>1, InvalidAssumption
<1>6. n > 0 => PrefixShapeValid(mem.tx, Prefix(mem), mem.state = "COMMITTED")
  BY <1>3
<1>7. n > 0 => (mem.state = "COMMITTED" => Prefix(mem) = mem.plan)
  BY <1>3
<1> QED BY <1>4, <1>5, <1>6, <1>7 DEF LoadEntries

(* ... and rh_capture_recovered_begin recognises the images.                       *)
LEMMA RecoveryRecognises ==
    ASSUME IInv, PairInv, RefusalInv, pc = "recover"
    PROVE  CaptureAccepts(mem)
<1> DEFINE P == mem.plan
           n == mem.cnt
           e == Prefix(mem)
<1>1. /\ n \in Nat /\ P \in Seq(Entry) /\ Len(P) \in Nat
      /\ mem.state # "EMPTY" /\ mem.state \in States /\ Shaped(mem)
      /\ GoodNow(mem) /\ Lead(mem, disk, desc, undo)
      /\ n <= Len(P) /\ (mem.state = "COMMITTED" => n = Len(P))
      /\ e = Cut(P, n)
  BY PrefixIsThere DEF Header
<1>2. \A i, j \in 1 .. Len(P) : P[i].target = P[j].target => i = j
  BY <1>1 DEF Shaped, PlainPlan
<1>3. ASSUME NEW i \in 1 .. n
      PROVE  /\ ~Chained(e, i)
             /\ IsNew(e, i) <=> disk[P[i].target] = P[i].new
  <2>1. n \in 1 .. Len(P) /\ i \in 1 .. Len(P) /\ 1 .. n \subseteq 1 .. Len(P)
    BY <1>1
  <2>2. Len(e) = n /\ \A j \in 1 .. n : e[j] = P[j]
    BY <1>1, <2>1, CutFacts
  <2>3. Chain(e, i) = {i}
    <3> HIDE DEF e, n, P
    <3>1. \A j \in 1 .. n : e[j].target = e[i].target => j = i
      BY <1>2, <2>1, <2>2
    <3> QED BY <2>2, <3>1 DEF Chain
  <2>4. Cardinality(Chain(e, i)) = 1
    BY <2>3, FS_Singleton
  <2>5. ~Chained(e, i)
    BY <2>4 DEF Chained
  <2> QED BY <2>2, <2>5 DEF IsNew
<1>4. \A i \in 1 .. n : \A j \in 1 .. i : j \in 1 .. n
  BY <1>1
<1>5. ASSUME mem.state = "COMMITTED", NEW i \in 1 .. n
      PROVE  disk[P[i].target] = P[i].new
  <2>1. n = Len(P) /\ DiskIs(P, n, disk, base)
    BY <1>1, <1>5 DEF GoodNow, Good
  <2>2. P[i].target \in Targets
    <3>1. P[i] \in Entry
      BY <1>1, <2>1
    <3> QED BY <3>1 DEF Entry
  <2>3. \A j \in 1 .. n : P[j].target = P[i].target => j = i
    BY <1>2, <2>1
  <2>4. Staged(P, base, n, P[i].target) = P[i].new
    <3> HIDE DEF P, n
    <3> QED BY <1>1, <2>3, StagedAt
  <2> QED BY <2>1, <2>2, <2>4 DEF DiskIs
<1>6. ASSUME NEW i \in 1 .. n, disk[P[i].target] = P[i].new, NEW j \in 1 .. i
      PROVE  disk[P[j].target] = P[j].new
  <2>1. CASE mem.state = "COMMITTED"
    BY <1>4, <1>5, <2>1
  <2>2. CASE mem.state \in {"PREPARING", "APPLYING", "ROLLBACK"}
    BY <1>1, <1>6, <2>2 DEF Lead, Leads
  <2> QED BY <1>1, <2>1, <2>2 DEF States
<1>7. \A i \in 1 .. n : IsNew(e, i) => \A j \in 1 .. i : IsNew(e, j)
  BY <1>3, <1>4, <1>6
<1> QED BY <1>3, <1>5, <1>7 DEF CaptureAccepts
(* Whatever a publish leaves, the newest header is the old one or the new one.     *)
LEMMA LandedNewest ==
    ASSUME NEW f \in SlotPairs, NEW s \in Slots, f[s] # Invalid, OtherOlder(f, s),
           NEW h \in Header, NEW x \in {f[Other(s)], h, Invalid}
    PROVE  NewestIn([f EXCEPT ![Other(s)] = x]) \in {f[s], h}
<1> DEFINE g == [f EXCEPT ![Other(s)] = x]
<1>1. Other(s) \in Slots /\ Other(s) # s
  BY NewestFacts
<1>2. g \in SlotPairs /\ g[s] = f[s] /\ g[Other(s)] = x
  BY <1>1 DEF SlotPairs
<1> HIDE DEF g
<1>3. /\ NewestIn(g) \in {g[s], g[Other(s)]} /\ NewestIn(g) \in Header
      /\ OtherOlder(g, s) => NewestIn(g) = g[s]
  BY <1>2, NewestFacts
<1>4. CASE x = h \/ x = Invalid
  BY <1>2, <1>3, <1>4, InvalidAssumption DEF g
<1>5. CASE x = f[Other(s)]
  <2>1. OtherOlder(g, s)
    BY <1>2, <1>5 DEF OtherOlder
  <2> QED BY <1>2, <1>3, <2>1 DEF g
<1> QED BY <1>4, <1>5

(* A publish of a header that recovery could take, complete or cut short.          *)
LEMMA RefusalPublishes ==
    ASSUME IInv, PairInv, RefusalInv, pc \notin Away, pc' # "refused",
           NEW h \in Header, Shaped(h), Lead(h, disk, desc, undo), Landed(h),
           UNCHANGED <<disk, desc, undo>>
    PROVE  RefusalInv'
<1>1. PICK x \in {slot[Other(sel)], h, Invalid} :
          slot' = [slot EXCEPT ![Other(sel)] = x]
  BY DEF Landed
<1>2. /\ slot \in SlotPairs /\ sel \in Slots /\ slot[sel] # Invalid
      /\ OtherOlder(slot, sel) /\ NewestIn(slot) = slot[sel]
  BY PairFacts, SelectedIsNewest
<1>3. Other(sel) \in Slots /\ Other(sel) # sel
  BY <1>2, NewestFacts
<1>4. NewestIn(slot') \in {slot[sel], h}
  BY <1>1, <1>2, LandedNewest
<1>5. Lead(NewestIn(slot'), disk', desc', undo')
  BY <1>2, <1>4 DEF RefusalInv
<1>6. AllShaped(slot')
  <2>1. slot'[sel] = slot[sel] /\ slot'[Other(sel)] = x
    BY <1>1, <1>2, <1>3 DEF SlotPairs
  <2>2. \A r \in Slots : r = sel \/ r = Other(sel)
    BY <1>2 DEF Slots, Other
  <2> QED BY <1>3, <2>1, <2>2 DEF RefusalInv, AllShaped
<1> QED BY <1>5, <1>6 DEF RefusalInv

(* A step of the process that leaves the superblocks alone.                        *)
LEMMA RefusalWrites ==
    ASSUME IInv, PairInv, RefusalInv, pc \notin Away, pc' # "refused", UNCHANGED slot,
           Lead(slot[sel], disk', desc', undo')
    PROVE  RefusalInv'
BY SelectedIsNewest DEF RefusalInv

(* A step that leaves the device alone.                                            *)
LEMMA RefusalQuiet ==
    ASSUME RefusalInv, pc' # "refused", UNCHANGED <<slot, disk, desc, undo>>
    PROVE  RefusalInv'
BY DEF RefusalInv

(* The header in memory belongs to the selected superblock's transaction, so a     *)
(* header built from it has a plan that was checked.                               *)
LEMMA AdvanceShaped ==
    ASSUME IInv, PairInv, RefusalInv, pc \notin Away, mem.state # "EMPTY",
           NEW st \in States
    PROVE  /\ Shaped(Advance(st)) /\ Advance(st) \in Header /\ Advance(st).state = st
           /\ Advance(st).plan = mem.plan /\ Advance(st).cnt = mem.cnt
           /\ Shaped(mem)
<1>1. /\ mem \in Header /\ sel \in Slots /\ slot[sel] # Invalid
  BY PairFacts DEF IInv, TypeOK
<1>2. Shaped(slot[sel])
  BY <1>1 DEF RefusalInv, AllShaped
<1>3. slot[sel].state # "EMPTY" /\ mem.tx = slot[sel].tx /\ mem.plan = slot[sel].plan
  BY DEF PairInv, SameTransaction, IInv, CommitInv
<1>4. Shaped(mem)
  BY <1>2, <1>3 DEF Shaped
<1> DEFINE h == Advance(st)
<1>5. /\ h \in Header /\ h.state = st /\ h.plan = mem.plan /\ h.cnt = mem.cnt
      /\ h.tx = mem.tx
  BY <1>1, AdvanceFacts DEF Advance
<1> HIDE DEF h
<1>6. Shaped(h)
  BY <1>4, <1>5 DEF Shaped
<1> QED BY <1>4, <1>5, <1>6 DEF h

(* The writer's order: while entry n is being written all the others are.          *)
LEMMA WrittenLead ==
    ASSUME NEW P \in Seq(Entry), NEW n \in 1 .. Len(P), NEW d, NEW b,
           PlainPlan(P), DiskIs(P, n - 1, d, b)
    PROVE  /\ \A j \in 1 .. (n - 1) : d[P[j].target] = P[j].new
           /\ Leads(P, n, d)
<1>1. n \in Nat /\ Len(P) \in Nat /\ n <= Len(P) /\ n - 1 \in Nat
  OBVIOUS
<1>2. ASSUME NEW j \in 1 .. (n - 1) PROVE d[P[j].target] = P[j].new
  <2>1. j \in 1 .. Len(P) /\ 1 .. (n - 1) \subseteq 1 .. Len(P)
    BY <1>1
  <2>2. \A i \in 1 .. (n - 1) : P[i].target = P[j].target => i = j
    BY <2>1 DEF PlainPlan
  <2>3. Staged(P, b, n - 1, P[j].target) = P[j].new
    BY <1>1, <2>2, StagedAt
  <2>4. P[j].target \in Targets
    <3>1. P[j] \in Entry
      BY <2>1
    <3> QED BY <3>1 DEF Entry
  <2> QED BY <2>3, <2>4 DEF DiskIs
<1>3. \A i \in 1 .. n : \A j \in 1 .. i : j = i \/ j \in 1 .. (n - 1)
  BY <1>1
<1> QED BY <1>2, <1>3 DEF Leads

(* Publishing a header that keeps what recovery looks for.                         *)
LEMMA PublishRefusalInv ==
    ASSUME IInv, PairInv, RefusalInv, pc' # "refused",
           PublishApplying \/ PublishCommitted \/ RollbackPublish \/ FinalizeEmpty
    PROVE  RefusalInv'
<1>1. CASE PublishApplying
  <2> DEFINE h == Advance("APPLYING")
  <2>1. /\ pc = "applying" /\ Landed(h) /\ UNCHANGED <<disk, desc, undo>>
    BY <1>1 DEF PublishApplying, Publish, Landed
  <2>2. /\ mem \in Header /\ mem.state # "EMPTY" /\ mem.cnt > 0
        /\ mem.cnt <= Len(mem.plan)
        /\ DiskIs(mem.plan, mem.cnt - 1, disk, base)
    BY <2>1 DEF IInv, TypeOK, CommitInv, Undoable
  <2>3. mem.cnt \in 1 .. Len(mem.plan) /\ mem.plan \in Seq(Entry)
    BY <2>2 DEF Header
  <2>4. /\ h \in Header /\ Shaped(h) /\ h.state = "APPLYING"
        /\ h.plan = mem.plan /\ h.cnt = mem.cnt /\ Shaped(mem)
    BY <2>1, <2>2, AdvanceShaped DEF States, Away
  <2> HIDE DEF h
  <2>5. PlainPlan(mem.plan)
    BY <2>2, <2>4 DEF Shaped
  <2>6. Leads(mem.plan, mem.cnt, disk)
    BY <2>2, <2>3, <2>5, WrittenLead
  <2>7. Lead(h, disk, desc, undo)
    BY <2>4, <2>6 DEF Lead
  <2> QED BY <2>1, <2>4, <2>7, RefusalPublishes DEF Away
<1>2. CASE PublishCommitted
  <2> DEFINE h == Advance("COMMITTED")
  <2>1. /\ pc = "commit" /\ Landed(h) /\ UNCHANGED <<disk, desc, undo>>
    BY <1>2 DEF PublishCommitted, Publish, Landed
  <2>2. mem.state = "APPLYING" /\ mem = slot[sel] /\ GoodNow(slot[sel])
    BY <2>1 DEF IInv, CommitInv, SelectedInv, Away, Failing
  <2>3. Undoable(mem.plan, mem.cnt, disk, desc, undo, base)
    BY <2>2, GoodInDoubt DEF GoodNow
  <2>4. /\ h \in Header /\ Shaped(h) /\ h.state = "COMMITTED"
        /\ h.plan = mem.plan /\ h.cnt = mem.cnt
    BY <2>1, <2>2, AdvanceShaped DEF States, Away
  <2> HIDE DEF h
  <2>5. Lead(h, disk, desc, undo)
    BY <2>3, <2>4 DEF Lead, Undoable
  <2> QED BY <2>1, <2>4, <2>5, RefusalPublishes DEF Away
<1>3. CASE RollbackPublish
  <2> DEFINE h == Advance("ROLLBACK")
  <2>1. /\ pc = "rollback" /\ Landed(h) /\ UNCHANGED <<disk, desc, undo>>
    BY <1>3 DEF RollbackPublish, Publish, Landed
  <2>2. mem.state \in {"PREPARING", "APPLYING"} /\ mem = slot[sel]
    BY <2>1 DEF IInv, FailingInv, PairInv, Away, Failing
  <2>3. Leads(mem.plan, mem.cnt, disk)
    BY <2>1, <2>2, SelectedIsNewest DEF RefusalInv, Lead, Away
  <2>4. /\ h \in Header /\ Shaped(h) /\ h.state = "ROLLBACK"
        /\ h.plan = mem.plan /\ h.cnt = mem.cnt
    BY <2>1, <2>2, AdvanceShaped DEF States, Away
  <2> HIDE DEF h
  <2>5. Lead(h, disk, desc, undo)
    BY <2>3, <2>4 DEF Lead
  <2> QED BY <2>1, <2>4, <2>5, RefusalPublishes DEF Away
<1>4. CASE FinalizeEmpty
  <2> DEFINE h == EmptyHeader(mem.gen + 1)
  <2>1. /\ pc = "finalize" /\ Landed(h) /\ UNCHANGED <<disk, desc, undo>>
    BY <1>4 DEF FinalizeEmpty, Landed
  <2>2. h \in Header /\ h.state = "EMPTY"
    BY DEF EmptyHeader, Header, States, IInv, TypeOK
  <2> HIDE DEF h
  <2>3. Shaped(h) /\ Lead(h, disk, desc, undo)
    BY <2>2 DEF Shaped, Lead
  <2> QED BY <2>1, <2>2, <2>3, RefusalPublishes DEF Away
<1> QED BY <1>1, <1>2, <1>3, <1>4

(* A damaged superblock is rebuilt from one that recovery takes.                   *)
LEMMA ReconstructRefusalInv ==
    ASSUME IInv, PairInv, RefusalInv, pc' # "refused", Reconstruct
    PROVE  RefusalInv'
<1>1. /\ pc = "reconstruct" /\ Landed(mem) /\ UNCHANGED <<disk, desc, undo>>
      /\ mem = slot[sel] /\ mem \in Header /\ sel \in Slots
  BY DEF Reconstruct, Landed, PairInv, IInv, TypeOK, Away
<1>2. slot[sel] # Invalid /\ NewestIn(slot) = slot[sel]
  BY <1>1, PairFacts, SelectedIsNewest DEF Away
<1>3. Shaped(mem) /\ Lead(mem, disk, desc, undo)
  BY <1>1, <1>2 DEF RefusalInv, AllShaped
<1> QED BY <1>1, <1>3, RefusalPublishes DEF Away

(* A plan is prepared with the targets and kinds of its operations.                *)
LEMMA PlannedPlain ==
    ASSUME NEW p \in Plans, NEW v \in Volumes, PlainPlan(p.ops)
    PROVE  PlainPlan(Planned(p.ops, v))
<1> DEFINE Q == Planned(p.ops, v)
           n == Len(p.ops)
<1>1. Len(Q) = n /\ n \in Nat
  BY PlannedFacts, WalAssumption
<1>2. \A i \in 1 .. n : Q[i].kind = p.ops[i].kind /\ Q[i].target = p.ops[i].target
  BY DEF Planned
<1> HIDE DEF Q
<1>3. (\E i \in 1 .. n : Q[i].kind \in {"redo", "restart"}) => 1 \in 1 .. n
  BY <1>1
<1>4. PlainPlan(Q)
  BY <1>1, <1>2, <1>3 DEF PlainPlan
<1> QED BY <1>4 DEF Q

(* rh_wal_backend_begin publishes a plan it has checked.                           *)
LEMMA BeginRefusalInv ==
    ASSUME PlainPlans, IInv, PairInv, RefusalInv, pc' # "refused",
           NEW p \in Plans, Begin(p)
    PROVE  RefusalInv'
<1> DEFINE P == Planned(p.ops, disk)
           h == [gen |-> mem.gen + 1, state |-> "PREPARING", tx |-> p.tx,
                 uuid |-> txs + 1, plan |-> P, cnt |-> 0]
<1>1. /\ pc = "ready" /\ PlanAccepted(p) /\ UNCHANGED <<disk, desc, undo>>
      /\ Landed(h)
  BY DEF Begin, Publish, Landed
<1>2. /\ mem = slot[sel] /\ GoodNow(mem) /\ mem \in Header /\ mem.gen \in Nat
      /\ mem.state = "EMPTY" /\ txs \in Nat
  BY <1>1 DEF IInv, SelectedInv, CommitInv, TypeOK, Away, Failing, Header
<1>3. disk \in Volumes
  BY <1>2 DEF GoodNow, Good
<1>4. /\ P \in Seq(Entry) /\ Len(P) \in 1 .. MaxEntries /\ PlanShapeValid(p.tx, P)
      /\ \A i \in 1 .. Len(P) : P[i].new # P[i].old
  <2>1. P \in Seq(Entry) /\ Len(P) \in Nat
    BY <1>3, PlannedFacts
  <2>2. /\ Len(P) \in 1 .. MaxEntries /\ PlanShapeValid(p.tx, P)
        /\ \A i \in 1 .. Len(P) : \A j \in i .. Len(P) :
              P[j].target = P[i].target => P[j].new # P[i].old
    BY <1>1 DEF PlanAccepted
  <2>3. \A i \in 1 .. Len(P) : i \in i .. Len(P)
    BY <2>1
  <2> QED BY <2>1, <2>2, <2>3
<1>5. PlainPlan(P)
  BY <1>3, PlannedPlain DEF PlainPlans
<1>6. MaxEntries \in Nat
  BY WalAssumption
<1> HIDE DEF P
<1>7. /\ h \in Header /\ h.state = "PREPARING" /\ h.tx = p.tx /\ h.plan = P /\ h.cnt = 0
  BY <1>2, <1>4, WalAssumption DEF Header, States
<1> HIDE DEF h
<1>8. Shaped(h)
  BY <1>4, <1>5, <1>6, <1>7 DEF Shaped
<1>9. Lead(h, disk, desc, undo)
  BY <1>7 DEF Lead, Leads
<1> QED BY <1>1, <1>7, <1>8, <1>9, RefusalPublishes DEF Away
(* Payloads and descriptors are written while nothing is committed.                *)
LEMMA EntryRefusalInv ==
    ASSUME IInv, PairInv, RefusalInv, pc' # "refused", WriteUndo \/ WriteDescriptor
    PROVE  RefusalInv'
<1>1. pc \in {"undo", "desc"} /\ UNCHANGED <<slot, disk>>
  BY DEF WriteUndo, WriteDescriptor
<1>2. mem = slot[sel] /\ mem.state \in {"PREPARING", "APPLYING"}
  BY <1>1, NextEntryFacts
<1>3. Lead(slot[sel], disk, desc, undo)
  BY <1>1, SelectedIsNewest DEF RefusalInv, Away
<1>4. Lead(slot[sel], disk', desc', undo')
  BY <1>1, <1>2, <1>3 DEF Lead
<1> QED BY <1>1, <1>4, RefusalWrites DEF Away

(* The entry being written comes after entries that are all there.                 *)
LEMMA TargetRefusalInv ==
    ASSUME IInv, PairInv, RefusalInv, pc' # "refused", WriteTarget
    PROVE  RefusalInv'
<1> DEFINE P == mem.plan
           n == mem.cnt
<1>1. pc = "target" /\ UNCHANGED <<slot, desc, undo>>
  BY DEF WriteTarget
<1>2. PICK x : disk' = [disk EXCEPT ![P[n].target] = x]
  BY DEF WriteTarget
<1>3. /\ mem = slot[sel] /\ GoodNow(mem) /\ mem \in Header /\ mem.state = "APPLYING"
      /\ n > 0 /\ DiskIs(P, n - 1, disk, base) /\ disk \in [Targets -> Images]
  BY <1>1 DEF IInv, SelectedInv, CommitInv, TypeOK, Away, Failing
<1>4. n \in 1 .. Len(P) /\ P \in Seq(Entry) /\ Len(P) \in Nat
  <2>1. Undoable(P, n, disk, desc, undo, base)
    BY <1>3, GoodInDoubt DEF GoodNow
  <2> QED BY <1>3, <2>1 DEF Undoable, Header
<1>5. PlainPlan(P)
  <2>1. Shaped(mem)
    BY <1>1, <1>3, AdvanceShaped DEF Away, States
  <2> QED BY <1>3, <2>1 DEF Shaped
<1>6. \A j \in 1 .. (n - 1) : disk[P[j].target] = P[j].new
  BY <1>3, <1>4, <1>5, WrittenLead
<1>7. ASSUME NEW j \in 1 .. (n - 1) PROVE disk'[P[j].target] = P[j].new
  <2>1. j \in 1 .. Len(P) /\ j # n
    BY <1>4
  <2>2. P[j].target # P[n].target
    BY <1>4, <1>5, <2>1 DEF PlainPlan
  <2>3. P[j].target \in Targets
    <3>1. P[j] \in Entry
      BY <1>4, <2>1
    <3> QED BY <3>1 DEF Entry
  <2> QED BY <1>2, <1>3, <1>6, <2>2, <2>3
<1>8. \A i \in 1 .. n : \A j \in 1 .. i : j = i \/ j \in 1 .. (n - 1)
  BY <1>4
<1>9. Leads(P, n, disk')
  BY <1>7, <1>8 DEF Leads
<1>10. Lead(slot[sel], disk', desc', undo')
  BY <1>3, <1>9 DEF Lead
<1> QED BY <1>1, <1>10, RefusalWrites DEF Away

(* Rollback takes the entries back from the last one: those after the cursor have  *)
(* their old images, so the written ones still lead.                               *)
LEMMA RestoreRefusalInv ==
    ASSUME IInv, PairInv, RefusalInv, pc' # "refused", Restore
    PROVE  RefusalInv'
<1> DEFINE P == mem.plan
           n == mem.cnt
           c == cursor
<1>1. pc = "restore" /\ UNCHANGED <<slot, desc, undo>>
  BY DEF Restore
<1>2. /\ mem = slot[sel] /\ GoodNow(mem) /\ mem \in Header /\ mem.state = "ROLLBACK"
      /\ c \in 1 .. n /\ disk \in [Targets -> Images] /\ base \in Volumes
      /\ \A t \in Targets : (\A i \in 1 .. c : P[i].target # t) => disk[t] = base[t]
  BY <1>1 DEF IInv, SelectedInv, RestoreInv, TypeOK, Away, Failing
<1>3. Undoable(P, n, disk, desc, undo, base)
  BY <1>2, GoodInDoubt DEF GoodNow
<1>4. n \in Nat /\ P \in Seq(Entry) /\ Len(P) \in Nat /\ n <= Len(P)
  BY <1>2, <1>3 DEF Undoable, Header
<1>5. desc[c] = P[c] /\ undo[c] = P[c].old
  BY <1>2, <1>3 DEF Undoable
<1>6. Shaped(mem)
  BY <1>1, <1>2, AdvanceShaped DEF Away, States
<1>7. /\ PlainPlan(P) /\ \A i \in 1 .. Len(P) : P[i].new # P[i].old
      /\ \A i, j \in 1 .. Len(P) : P[i].target = P[j].target => i = j
  BY <1>2, <1>6 DEF Shaped, PlainPlan
<1>8. \A i \in 1 .. n : i \in 1 .. Len(P) /\ P[i] \in Entry
                        /\ P[i].target \in Targets /\ P[i].new \in Contents
  <2>1. \A i \in 1 .. n : i \in 1 .. Len(P) /\ P[i] \in Entry
    BY <1>4
  <2> QED BY <2>1 DEF Entry
<1>9. Leads(P, n, disk)
  BY <1>1, <1>2, SelectedIsNewest DEF RefusalInv, Lead, Away
<1>10. ASSUME NEW i \in 1 .. n, i > c PROVE disk[P[i].target] # P[i].new
  <2>1. \A j \in 1 .. c : P[j].target # P[i].target
    BY <1>2, <1>4, <1>7, <1>8, <1>10
  <2>2. disk[P[i].target] = base[P[i].target]
    BY <1>2, <1>8, <2>1
  <2>3. PICK p \in Plans : P = Planned(p.ops, base)
    BY <1>3 DEF Undoable, PreparedOn
  <2>4. P[i].old = Staged(P, base, i - 1, P[i].target)
    BY <1>2, <1>8, <2>3, PlannedFacts
  <2>5. Staged(P, base, i - 1, P[i].target) = base[P[i].target]
    <3>1. i \in Nat \ {0} /\ \A j \in 1 .. (i - 1) : P[j].target # P[i].target
      BY <1>4, <1>7, <1>8
    <3> QED BY <3>1, StagedNoneBelow
  <2> QED BY <1>7, <1>8, <2>2, <2>4, <2>5
<1>11. PICK x \in {disk[P[c].target], P[c].old, Garbage} :
           disk' = [disk EXCEPT ![P[c].target] = x]
  <2>1. P[c].target \in Targets
    BY <1>2, <1>8
  <2>2. CASE UNCHANGED disk
    BY <1>2, <2>1, <2>2
  <2>3. CASE disk' = [disk EXCEPT ![desc[c].target] = undo[c]]
    BY <1>5, <2>3
  <2>4. CASE \E y \in Remains(desc[c].target, undo[c]) :
                 disk' = [disk EXCEPT ![desc[c].target] = y]
    BY <1>5, <2>4 DEF Remains
  <2> QED BY <2>2, <2>3, <2>4 DEF Restore
<1>12. \A i \in 1 .. n : i # c => disk'[P[i].target] = disk[P[i].target]
  BY <1>2, <1>4, <1>7, <1>8, <1>11
<1>13. Leads(P, n, disk')
  <2>1. CASE x = disk[P[c].target]
    BY <1>2, <1>9, <1>11, <2>1
  <2>2. CASE x # disk[P[c].target]
    <3>1. disk'[P[c].target] = x /\ x # P[c].new
      BY <1>2, <1>7, <1>8, <1>11, <2>2, WalAssumption
    <3>2. ASSUME NEW i \in 1 .. n, disk'[P[i].target] = P[i].new, NEW j \in 1 .. i
          PROVE  disk'[P[j].target] = P[j].new
      <4>1. i # c
        BY <3>1, <3>2
      <4>2. disk[P[i].target] = P[i].new
        BY <1>12, <3>2, <4>1
      <4>3. ~(i > c)
        BY <1>10, <4>2
      <4>4. j \in 1 .. n /\ j # c
        BY <1>2, <1>4, <4>1, <4>3
      <4>5. disk[P[j].target] = P[j].new
        BY <1>9, <4>2 DEF Leads
      <4> QED BY <1>12, <4>4, <4>5
    <3> QED BY <3>2 DEF Leads
  <2> QED BY <2>1, <2>2
<1>14. Lead(slot[sel], disk', desc', undo')
  BY <1>2, <1>13 DEF Lead
<1> QED BY <1>1, <1>14, RefusalWrites DEF Away

(* Nothing is refused in the next state either.                                    *)
LEMMA NextRefusalInv ==
    ASSUME PlainPlans, ~IOErrors, IInv, PairInv, RefusalInv, [Next]_vars
    PROVE  RefusalInv'
<1>1. ~LocateRefuses
  BY PairFacts, AcceptedIsPair DEF LocateRefuses
<1>2. ~RecoverRefuses
  BY RecoveryLoads, RecoveryRecognises DEF RecoverRefuses
<1>3. CASE UNCHANGED vars
  BY <1>3, RefusalQuiet DEF vars, RefusalInv
<1>4. CASE PowerCut \/ Rerun \/ Leave
  BY <1>4, RefusalQuiet DEF PowerCut, Rerun, Leave, ProcessGone
<1>5. CASE Locate \/ Recover \/ AcceptCommitted \/ Abort
  <2>1. pc' # "refused"
    BY <1>5 DEF Locate, Recover, AcceptCommitted, Abort, ProcessGone
  <2> QED BY <1>5, <2>1, RefusalQuiet DEF Locate, Recover, AcceptCommitted, Abort
<1>6. CASE \E p \in Plans : Begin(p)
  <2>1. pc' # "refused"
    BY <1>6, CutEnds DEF Begin, ProcessGone
  <2> QED BY <1>6, <2>1, BeginRefusalInv
<1>7. CASE Reconstruct
  <2>1. pc' # "refused"
    BY <1>7, CutEnds DEF Reconstruct, ProcessGone
  <2> QED BY <1>7, <2>1, ReconstructRefusalInv
<1>8. CASE PublishApplying \/ PublishCommitted \/ RollbackPublish \/ FinalizeEmpty
  <2>1. pc' # "refused"
    BY <1>8, CutEnds
       DEF PublishApplying, PublishCommitted, RollbackPublish, FinalizeEmpty, ProcessGone
  <2> QED BY <1>8, <2>1, PublishRefusalInv
<1>9. CASE WriteUndo \/ WriteDescriptor
  <2>1. pc' # "refused"
    BY <1>9, CutEnds DEF WriteUndo, WriteDescriptor, ProcessGone
  <2> QED BY <1>9, <2>1, EntryRefusalInv
<1>10. CASE WriteTarget
  <2>1. pc' # "refused"
    BY <1>10, CutEnds DEF WriteTarget, ProcessGone
  <2> QED BY <1>10, <2>1, TargetRefusalInv
<1>11. CASE Restore
  <2>1. pc' # "refused"
    BY <1>11, CutEnds DEF Restore, ProcessGone
  <2> QED BY <1>11, <2>1, RestoreRefusalInv
<1> QED BY <1>1, <1>2, <1>3, <1>4, <1>5, <1>6, <1>7, <1>8, <1>9, <1>10, <1>11
       DEF Next, Step, Start, Run

(* An empty journal has nothing to refuse.                                         *)
LEMMA InitRefusalInv == Init => RefusalInv
<1> SUFFICES ASSUME Init PROVE RefusalInv
  OBVIOUS
<1>1. slot[0] = EmptyHeader(1) /\ slot[1] = EmptyHeader(2) /\ pc = "off"
  BY DEF Init, Slots
<1>2. slot[0].state = "EMPTY" /\ slot[1].state = "EMPTY"
  BY <1>1 DEF EmptyHeader
<1>3. AllShaped(slot)
  BY <1>2 DEF AllShaped, Shaped, Slots
<1>4. NewestIn(slot) = slot[0] \/ NewestIn(slot) = slot[1]
  BY DEF NewestIn
<1>5. Lead(NewestIn(slot), disk, desc, undo)
  BY <1>2, <1>4 DEF Lead
<1> QED BY <1>1, <1>3, <1>5 DEF RefusalInv

(* Plans that write no target twice and keep native replay apart, cut by the power *)
(* at any write of the transaction or of its recovery, as often as it may be:      *)
(* rh_wal_locate_and_validate, rh_wal_load_entries and rh_capture_recovered_begin  *)
(* accept what they find, so no boot is left with a journal it cannot resolve.     *)
THEOREM PlainPlansNeverRefused ==
    ASSUME ~IOErrors, PlainPlans
    PROVE  Spec => []NeverRefused
<1>1. Init => IInv /\ PairInv /\ RefusalInv
  BY InitIInv, InitPairInv, InitRefusalInv
<1>2. IInv /\ PairInv /\ RefusalInv /\ [Next]_vars => IInv' /\ PairInv' /\ RefusalInv'
  BY NextIInv, NextPairInv, NextRefusalInv
<1>3. RefusalInv => NeverRefused
  BY DEF RefusalInv, NeverRefused
<1> QED BY <1>1, <1>2, <1>3, PTL DEF Spec
===============================================================================
