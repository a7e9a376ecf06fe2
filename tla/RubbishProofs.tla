---------------------------- MODULE RubbishProofs ----------------------------
(* Proofs about Rubbish, for any files, paths, programs and bounds: the types, *)
(* that no file is lost but in the two named races, whatever the programs do   *)
(* at once and wherever they are cut off, and that undisturbed operations      *)
(* leave an index of exactly the files in the rubbish.                         *)
EXTENDS Rubbish, TLAPS

(* ------------------------------- Invariants ------------------------------- *)

\* What the program point says of the locals.
LocalOK(l) ==
    /\ l.pc \in {"store", "append", "move", "destroy"} => l.id \in Ids
    /\ l.pc \in {"store", "append", "move"} => l.path \in Paths
    /\ l.pc = "destroy" => l.todo = {l.id}

\* The types of everything but the locals.
DiskType ==
    /\ tree \in [Paths -> Files \cup {None}]
    /\ payload \in [Ids -> Files \cup {None, Absent}]
    /\ index \in Index
    /\ nid \in 0 .. MaxStores /\ stops \in 0 .. MaxStops
    /\ home \in [Files -> Paths \cup {None}]
    /\ destroyed \subseteq Files /\ raced \subseteq Files
    /\ taken \subseteq Programs /\ late \subseteq Ids /\ disturbed \in BOOLEAN

\* No store is going to fill directory i.
Settled(i) == i <= nid /\ \A p \in Programs : At(p, "store") => th[p].id # i

\* A row, or a pair that is to be one, tells where the file of its directory came from.
Fits(i, p) == Settled(i) /\ (payload[i] \in Files => home[payload[i]] = p)

\* What holds of a program q with locals l, unless it is about to move a file into the
\* rubbish: its rows fit, what it is going to remove it has found or came late, and a path it is
\* going to restore to is free or was taken meanwhile.
Sound(q, l) ==
    /\ \A r \in l.lines.rows : Fits(r.id, r.path)
    /\ l.pc \in {"append", "move"} => Fits(l.id, l.path)
    /\ l.pc \in {"empty", "destroy"} =>
         \A i \in l.todo : Settled(i) /\ (payload[i] \in Files => i \in l.held)
    /\ l.pc = "clear" => \A i \in l.todo : payload[i] \in Files => i \in l.held \cup late
    /\ l.pc = "move" => (tree[l.path] \in Files => q \in taken)

\* A store has a directory of its own, without a file.
Filling(q) ==
    At(q, "store") =>
        /\ th[q].id <= nid /\ payload[th[q].id] \notin Files
        /\ \A p \in Programs : At(p, "store") /\ th[p].id = th[q].id => p = q

\* The rows of the index fit, ids to come have no directory, and files to come are nowhere.
DiskHolds ==
    /\ \A r \in index.rows : Fits(r.id, r.path)
    /\ \A i \in Ids : i > nid => payload[i] = Absent
    /\ \A f \in Files : home[f] = None =>
         (\A p \in Paths : tree[p] # f) /\ (\A i \in Ids : payload[i] # f)

IInv ==
    /\ DiskType /\ th \in [Programs -> Local] /\ \A q \in Programs : LocalOK(th[q])
    /\ DiskHolds
    /\ \A q \in Programs : Filling(q) /\ Sound(q, th[q])
    /\ NothingIsLost

\* The assumptions on the constants, in the form the proofs cite.
LEMMA Constants ==
    /\ MaxStores \in Nat /\ MaxStops \in Nat
    /\ None \notin Files /\ None \notin Paths /\ Absent \notin Files /\ Absent # None
    /\ None \notin Row /\ Header \notin Row /\ Header # None
    /\ Ids \subseteq Nat /\ 0 \notin Ids
BY RubbishAssumption, NoneAssumption DEF Ids

\* An idle program.
LEMMA IdleType ==
    /\ Idle \in Local /\ Idle.pc = "idle" /\ Idle.lines = Empty /\ Idle.todo = {}
    /\ Idle.held = {} /\ Idle.id = 0 /\ Idle.path = None
    /\ Empty \in Index /\ Empty.rows = {} /\ Empty.head = None
BY DEF Idle, Local, PCs, Empty, Index

\* The fields of rows, indexes and locals.
LEMMA Fields ==
    /\ \A r \in Row : r.id \in Ids /\ r.path \in Paths
    /\ \A x \in Index : x.rows \subseteq Row /\ x.head \in Row \cup {Header, None}
    /\ \A l \in Local : /\ l.pc \in PCs /\ l.lines \in Index /\ l.todo \subseteq Ids
                        /\ l.held \subseteq Ids /\ l.id \in Ids \cup {0}
                        /\ l.path \in Paths \cup {None}
BY DEF Row, Index, Local

\* A program's new locals.
LEMMA NewLocal ==
    ASSUME NEW q \in Programs, NEW l \in Local, LocalOK(l), th \in [Programs -> Local],
           \A p \in Programs : LocalOK(th[p]), th' = [th EXCEPT ![q] = l]
    PROVE  /\ th' \in [Programs -> Local] /\ th'[q] = l
           /\ \A p \in Programs \ {q} : th'[p] = th[p]
           /\ \A p \in Programs : LocalOK(th'[p])
<1>1. th' \in [Programs -> Local] /\ th'[q] = l /\ \A p \in Programs \ {q} : th'[p] = th[p]
  OBVIOUS
<1> QED BY <1>1

\* What a step has to keep for the programs P that do not take it.
Keeps(P) ==
    /\ \A i \in Ids : Settled(i) => Settled(i)'
    /\ \A i \in Ids : Settled(i) /\ payload'[i] \in Files =>
         payload'[i] = payload[i] /\ home'[payload[i]] = home[payload[i]]
    /\ \A p \in P : Filling(p)'
    /\ late \subseteq late' /\ taken \cap P \subseteq taken'
    /\ \A p \in P : th[p].pc = "clear" =>
         \A i \in th[p].todo : payload'[i] \in Files => payload[i] \in Files \/ i \in late'
    /\ \A p \in P : th[p].pc = "move" =>
         (tree'[th[p].path] \in Files => tree[th[p].path] \in Files \/ p \in taken')

\* A row that fits goes on to fit.
LEMMA FitsOn ==
    ASSUME NEW P, Keeps(P), NEW i \in Ids, NEW p, Fits(i, p)
    PROVE  Fits(i, p)'
BY DEF Fits, Keeps

\* The others go on as they were.
LEMMA SoundOn ==
    ASSUME IInv, NEW P \in SUBSET Programs, Keeps(P), NEW p \in P, th'[p] = th[p]
    PROVE  Sound(p, th[p])'
<1> DEFINE l == th[p]
<1>1. l \in Local /\ LocalOK(l) /\ Sound(p, l)
  BY DEF IInv
<1>2. l.lines.rows \subseteq Row /\ l.todo \subseteq Ids
  BY <1>1, Fields
<1>3. \A r \in l.lines.rows : r.id \in Ids /\ Fits(r.id, r.path)'
  BY <1>1, <1>2, Fields, FitsOn DEF Sound
<1>4. l.pc \in {"append", "move"} => Fits(l.id, l.path)'
  BY <1>1, FitsOn DEF Sound, LocalOK
<1>5. l.pc \in {"empty", "destroy"} =>
         \A i \in l.todo : Settled(i)' /\ (payload'[i] \in Files => i \in l.held)
  BY <1>1, <1>2 DEF Sound, Keeps
<1>6. l.pc = "clear" => \A i \in l.todo : payload'[i] \in Files => i \in l.held \cup late'
  BY <1>1, <1>2 DEF Sound, Keeps
<1>7. l.pc = "move" => (tree'[l.path] \in Files => p \in taken')
  BY <1>1 DEF Sound, Keeps
<1> QED BY <1>3, <1>4, <1>5, <1>6, <1>7 DEF Sound

\* A step of q, put together.
LEMMA Step ==
    ASSUME IInv, NEW q \in Programs, NEW l \in Local, LocalOK(l), th' = [th EXCEPT ![q] = l],
           DiskType', DiskHolds', Keeps(Programs \ {q}), Filling(q)', Sound(q, th[q])', NothingIsLost'
    PROVE  IInv'
<1>1. /\ th' \in [Programs -> Local] /\ th'[q] = l
      /\ \A p \in Programs \ {q} : th'[p] = th[p]
      /\ \A p \in Programs : LocalOK(th'[p])
  BY NewLocal DEF IInv
<1>2. \A p \in Programs \ {q} : Sound(p, th[p])' /\ Filling(p)'
  BY <1>1, SoundOn DEF Keeps
<1> QED BY <1>1, <1>2 DEF IInv

\* A step of q that touches no file.
LEMMA QuietStep ==
    ASSUME IInv, NEW q \in Programs, NEW l \in Local, LocalOK(l), th' = [th EXCEPT ![q] = l],
           UNCHANGED <<tree, payload, nid, home, destroyed, late, raced>>,
           taken' \subseteq Programs, taken \ {q} \subseteq taken',
           index' \in Index, stops' \in 0 .. MaxStops, disturbed' \in BOOLEAN,
           \A r \in index'.rows : Fits(r.id, r.path),
           l.pc # "store", Sound(q, l), l.pc = "move" => tree[l.path] \notin Files
    PROVE  IInv'
<1>1. /\ th' \in [Programs -> Local] /\ th'[q] = l
      /\ \A p \in Programs \ {q} : th'[p] = th[p]
  BY NewLocal DEF IInv
<1>2. DiskType'
  BY DEF IInv, DiskType
<1>3. \A i : Settled(i) => Settled(i)'
  BY <1>1 DEF Settled, At
<1>4. \A p \in Programs : Filling(p)'
  <2>1. \A p \in Programs : th'[p].pc = "store" => th'[p] = th[p] /\ Filling(p)
    BY <1>1 DEF IInv
  <2> QED BY <2>1 DEF Filling, At
<1>5. Keeps(Programs \ {q})
  BY <1>3, <1>4 DEF Keeps
<1>6. \A i, p : Fits(i, p) => Fits(i, p)'
  BY <1>3 DEF Fits
<1>7. DiskHolds'
  BY <1>6 DEF IInv, DiskHolds
<1>8. Sound(q, th[q])'
  BY <1>1, <1>3, <1>6 DEF Sound
<1>9. NothingIsLost'
  BY DEF IInv, NothingIsLost
<1> QED BY <1>2, <1>4, <1>5, <1>7, <1>8, <1>9, Step

(* ------------------------ Steps that touch no file ------------------------ *)

\* What the proofs below use of the invariant.
LEMMA Parts ==
    ASSUME IInv, NEW q \in Programs
    PROVE  /\ DiskType /\ th \in [Programs -> Local] /\ th[q] \in Local /\ LocalOK(th[q])
           /\ Sound(q, th[q]) /\ index \in Index /\ index.rows \subseteq Row
           /\ (\A r \in index.rows : Fits(r.id, r.path))
           /\ th[q].lines \in Index /\ th[q].lines.rows \subseteq Row
           /\ (\A r \in th[q].lines.rows : Fits(r.id, r.path))
           /\ stops \in 0 .. MaxStops /\ disturbed \in BOOLEAN
BY Fields DEF IInv, DiskType, DiskHolds, Sound, Settled

\* A program without locals that matter is sound.
LEMMA IdleSound ==
    ASSUME NEW q
    PROVE  Sound(q, Idle) /\ LocalOK(Idle) /\ Idle.pc # "store" /\ Idle.pc # "move"
BY IdleType DEF Sound, LocalOK

\* An operation that ends, with an index whose rows fit.
LEMMA FinishStep ==
    ASSUME IInv, NEW q \in Programs, Finish(q), index' \in Index,
           \A r \in index'.rows : Fits(r.id, r.path),
           stops' \in 0 .. MaxStops, disturbed' \in BOOLEAN,
           UNCHANGED <<tree, payload, nid, home, destroyed, races>>
    PROVE  IInv'
<1>1. th' = [th EXCEPT ![q] = Idle]
  BY DEF Finish
<1>2. UNCHANGED <<late, taken, raced>> /\ taken \subseteq Programs
  BY DEF races, IInv, DiskType
<1> QED BY <1>1, <1>2, IdleType, IdleSound, QuietStep

\* The steps that end an operation and may write the index.
LEMMA EndSteps ==
    ASSUME IInv, NEW q \in Programs,
           AppendRow(q) \/ MoveFails(q) \/ Rewrite(q) \/ EmptyDone(q) \/ Stop(q)
    PROVE  IInv'
<1>0. /\ DiskType /\ th[q] \in Local /\ LocalOK(th[q])
      /\ Sound(q, th[q]) /\ index \in Index /\ index.rows \subseteq Row
      /\ (\A r \in index.rows : Fits(r.id, r.path))
      /\ th[q].lines \in Index /\ th[q].lines.rows \subseteq Row
      /\ (\A r \in th[q].lines.rows : Fits(r.id, r.path))
      /\ stops \in 0 .. MaxStops /\ disturbed \in BOOLEAN
  BY Parts
<1>1. CASE AppendRow(q)
  <2> DEFINE r == [id |-> th[q].id, path |-> th[q].path]
  <2>1. th[q].id \in Ids /\ th[q].path \in Paths /\ Fits(th[q].id, th[q].path)
    BY <1>0, <1>1 DEF AppendRow, At, LocalOK, Sound
  <2>2. r \in Row /\ r.id = th[q].id /\ r.path = th[q].path
    BY <2>1 DEF Row
  <2>3. index' = IF index.head = None THEN [index EXCEPT !.head = r]
                 ELSE [index EXCEPT !.rows = @ \cup {r}]
    BY <1>1 DEF AppendRow
  <2> HIDE DEF r
  <2>4. index' \in Index /\ index'.rows \subseteq index.rows \cup {r}
    BY <1>0, <2>2, <2>3 DEF Index
  <2>5. \A s \in index'.rows : Fits(s.id, s.path)
    BY <1>0, <2>1, <2>2, <2>4
  <2> QED BY <1>0, <1>1, <2>4, <2>5, FinishStep DEF AppendRow
<1>2. CASE MoveFails(q)
  BY <1>0, <1>2, FinishStep DEF MoveFails, disk
<1>3. CASE Rewrite(q)
  <2>1. PICK left \in SUBSET index.rows :
            index' = [th[q].lines EXCEPT !.rows = Without(@, th[q].id) \cup left]
    BY <1>3 DEF Rewrite
  <2>2. Without(th[q].lines.rows, th[q].id) \subseteq th[q].lines.rows
    BY DEF Without
  <2>3. index' \in Index /\ index'.rows \subseteq th[q].lines.rows \cup index.rows
    BY <1>0, <2>1, <2>2 DEF Index
  <2>4. \A s \in index'.rows : Fits(s.id, s.path)
    BY <1>0, <2>3
  <2> QED BY <1>0, <1>3, <2>3, <2>4, FinishStep DEF Rewrite
<1>4. CASE EmptyDone(q)
  <2>1. index' \in Index /\ index'.rows = {}
    BY <1>4 DEF EmptyDone, Replaced, Index
  <2> QED BY <1>0, <1>4, <2>1, FinishStep DEF EmptyDone
<1>5. CASE Stop(q)
  <2>1. stops' \in 0 .. MaxStops /\ disturbed' \in BOOLEAN
    BY <1>0, <1>5, Constants DEF Stop
  <2> QED BY <1>0, <1>5, <2>1, FinishStep DEF Stop, disk
<1> QED BY <1>1, <1>2, <1>3, <1>4, <1>5

\* An operation that begins and touches no file.
LEMMA BeginStep ==
    ASSUME IInv, NEW q \in Programs, NEW l \in Local, LocalOK(l), Begin(q, l),
           l.pc # "store", Sound(q, l), l.pc = "move" => tree[l.path] \notin Files,
           taken' \in {taken, taken \ {q}},
           UNCHANGED <<disk, nid, stops, home, destroyed, late, raced>>
    PROVE  IInv'
<1>1. th' = [th EXCEPT ![q] = l] /\ disturbed' \in BOOLEAN
  BY Parts DEF Begin, Busy
<1>2. taken' \subseteq Programs /\ taken \ {q} \subseteq taken'
  BY DEF IInv, DiskType
<1>3. UNCHANGED <<tree, payload, index, nid, stops, home, destroyed, late, raced>>
  BY DEF disk
<1>4. index' \in Index /\ stops' \in 0 .. MaxStops /\ \A r \in index'.rows : Fits(r.id, r.path)
  BY <1>3, Parts
<1> QED BY <1>1, <1>2, <1>3, <1>4, QuietStep

\* Reading the index for a restore.
LEMMA RestoreStep ==
    ASSUME IInv, NEW q \in Programs, NEW r \in index.rows, Restore(q, r)
    PROVE  IInv'
<1> DEFINE l == [Idle EXCEPT !.pc = "move", !.lines = index, !.id = r.id, !.path = r.path]
<1>1. /\ index \in Index /\ r \in Row /\ Fits(r.id, r.path)
      /\ \A s \in index.rows : Fits(s.id, s.path)
  BY Parts
<1>2. r.id \in Ids /\ r.path \in Paths
  BY <1>1, Fields
<1>3. l \in Local /\ l.pc = "move" /\ l.lines = index /\ l.id = r.id /\ l.path = r.path
  BY <1>1, <1>2, IdleType DEF Local, PCs
<1>4. Begin(q, l) /\ taken' = taken \ {q} /\ tree[r.path] \notin Files
      /\ UNCHANGED <<disk, nid, stops, home, destroyed, late, raced>>
  BY Constants DEF Restore
<1> HIDE DEF l
<1>5. LocalOK(l) /\ Sound(q, l)
  BY <1>1, <1>2, <1>3, <1>4 DEF LocalOK, Sound
<1> QED BY <1>3, <1>4, <1>5, BeginStep

\* An id that is listed, or has its file, is settled.
LEMMA ShownSettled ==
    ASSUME IInv
    PROVE  /\ \A i \in Listed(index.rows) : i \in Ids /\ Settled(i)
           /\ \A i \in Full : i \in Ids /\ Settled(i)
<1>1. \A i \in Listed(index.rows) : i \in Ids /\ Settled(i)
  BY Fields DEF Listed, IInv, DiskType, DiskHolds, Fits
<1>2. ASSUME NEW i \in Full PROVE i \in Ids /\ Settled(i)
  <2>1. i \in Ids /\ payload[i] \in Files
    BY DEF Full
  <2>2. i <= nid
    <3>1. i \in Nat /\ nid \in Nat
      BY <2>1, Constants DEF IInv, DiskType
    <3> QED BY <2>1, <3>1, Constants DEF IInv, DiskHolds
  <2>3. \A p \in Programs : At(p, "store") => th[p].id # i
    BY <2>1 DEF IInv, Filling
  <2> QED BY <2>1, <2>2, <2>3 DEF Settled
<1> QED BY <1>1, <1>2

\* A removal that begins.
LEMMA RemovalStep ==
    ASSUME IInv, NEW q \in Programs, NEW pc \in {"empty", "clear", "destroy"},
           NEW lines \in {Empty, index}, NEW todo \in SUBSET Ids, NEW id \in Ids \cup {0},
           BeginRemoval(q, pc, lines, todo, id),
           pc # "clear" => \A i \in todo : Settled(i),
           pc = "destroy" => todo = {id} /\ id \in Ids
    PROVE  IInv'
<1> DEFINE l == [Idle EXCEPT !.pc = pc, !.lines = lines, !.todo = todo,
                             !.held = todo \cap Full, !.id = id]
<1>1. index \in Index /\ \A s \in index.rows : Fits(s.id, s.path)
  BY Parts
<1>2. /\ l \in Local /\ l.pc = pc /\ l.lines = lines /\ l.todo = todo
      /\ l.held = todo \cap Full /\ l.id = id
  BY <1>1, IdleType DEF Local, PCs
<1>3. Begin(q, l) /\ UNCHANGED <<disk, nid, stops, home, destroyed, taken, late, raced>>
  BY DEF BeginRemoval, races
<1> HIDE DEF l
<1>4. \A r \in l.lines.rows : Fits(r.id, r.path)
  BY <1>1, <1>2, IdleType
<1>5. \A i \in l.todo : payload[i] \in Files => i \in l.held
  BY <1>2 DEF Full
<1>6. LocalOK(l) /\ Sound(q, l) /\ l.pc # "store" /\ l.pc # "move"
  BY <1>2, <1>4, <1>5 DEF LocalOK, Sound
<1> QED BY <1>2, <1>3, <1>6, BeginStep

\* The removals that begin.
LEMMA RemovalSteps ==
    ASSUME IInv, NEW q \in Programs,
           \/ EmptyAll(q) \/ ClearAll(q) \/ (\E i \in Ids : DestroyItem(q, i))
           \/ \E r \in index.rows : DestroyNamed(q, r)
    PROVE  IInv'
<1>1. CASE EmptyAll(q)
  BY <1>1, ShownSettled, RemovalStep DEF EmptyAll
<1>2. CASE ClearAll(q)
  BY <1>2, RemovalStep DEF ClearAll
<1>3. ASSUME NEW i \in Ids, DestroyItem(q, i) PROVE IInv'
  <2>1. Settled(i) /\ BeginRemoval(q, "destroy", Empty, {i}, i)
    BY <1>3, ShownSettled DEF DestroyItem
  <2> QED BY <2>1, RemovalStep
<1>4. ASSUME NEW r \in index.rows, DestroyNamed(q, r) PROVE IInv'
  <2>1. r.id \in Ids /\ Settled(r.id)
    BY ShownSettled DEF Listed
  <2>2. BeginRemoval(q, "destroy", index, {r.id}, r.id)
    BY <1>4 DEF DestroyNamed
  <2> QED BY <2>1, <2>2, RemovalStep
<1> QED BY <1>1, <1>2, <1>3, <1>4

\* The steps that read the index again, or open it.
LEMMA OpenSteps ==
    ASSUME IInv, NEW q \in Programs, Truncate(q) \/ ClearDone(q) \/ Reread(q)
    PROVE  IInv'
<1>0. /\ DiskType /\ th \in [Programs -> Local] /\ th[q] \in Local
      /\ index \in Index /\ index.rows \subseteq Row
      /\ (\A r \in index.rows : Fits(r.id, r.path))
      /\ th[q].lines \in Index
      /\ (\A r \in th[q].lines.rows : Fits(r.id, r.path))
      /\ stops \in 0 .. MaxStops /\ disturbed \in BOOLEAN /\ taken \subseteq Programs
  BY Parts DEF DiskType
<1>1. CASE Truncate(q)
  <2> DEFINE l == [th[q] EXCEPT !.pc = "rewrite"]
  <2>1. th' = [th EXCEPT ![q] = l]
    BY <1>0, <1>1 DEF Truncate, Goto
  <2>2. l \in Local /\ l.pc = "rewrite" /\ l.lines = th[q].lines
    BY <1>0 DEF Local, PCs
  <2> HIDE DEF l
  <2>3. LocalOK(l) /\ Sound(q, l)
    BY <1>0, <2>2 DEF LocalOK, Sound
  <2>4. index' \in Index /\ index'.rows = {}
    BY <1>1, IdleType DEF Truncate
  <2>5. UNCHANGED <<tree, payload, nid, stops, home, destroyed, taken, late, raced, disturbed>>
    BY <1>1 DEF Truncate, races
  <2> QED BY <1>0, <2>1, <2>2, <2>3, <2>4, <2>5, QuietStep
<1>2. ASSUME NEW l \in Local, th' = [th EXCEPT ![q] = l], l.pc = "truncate",
             \A r \in l.lines.rows : Fits(r.id, r.path),
             UNCHANGED <<disk, nid, stops, home, destroyed, races, disturbed>>
      PROVE  IInv'
  <2>1. LocalOK(l) /\ Sound(q, l)
    BY <1>2 DEF LocalOK, Sound
  <2>2. UNCHANGED <<tree, payload, index, nid, stops, home, destroyed, taken, late, raced, disturbed>>
    BY <1>2 DEF disk, races
  <2> QED BY <1>0, <1>2, <2>1, <2>2, QuietStep
<1>3. CASE ClearDone(q)
  <2> DEFINE l == [Idle EXCEPT !.pc = "truncate", !.lines.head = index.head]
  <2>1. th' = [th EXCEPT ![q] = l]
        /\ UNCHANGED <<disk, nid, stops, home, destroyed, races, disturbed>>
    BY <1>3 DEF ClearDone
  <2>2. index.head \in Row \cup {Header, None}
    BY <1>0, Fields
  <2>3. l \in Local /\ l.pc = "truncate" /\ l.lines.rows = {}
    BY <2>2 DEF Idle, Empty, Local, PCs, Index
  <2> HIDE DEF l
  <2> QED BY <1>2, <2>1, <2>3
<1>4. CASE Reread(q)
  <2>1. UNCHANGED <<disk, nid, stops, home, destroyed, races, disturbed>>
    BY <1>4 DEF Reread
  <2>2. CASE Finish(q)
    BY <1>0, <2>1, <2>2, FinishStep DEF disk
  <2>3. ASSUME NEW x \in {index, Replaced(index.rows)},
               th' = [th EXCEPT ![q].pc = "truncate", ![q].lines = x]
        PROVE  IInv'
    <3> DEFINE l == [th[q] EXCEPT !.pc = "truncate", !.lines = x]
    <3>1. x \in Index /\ x.rows = index.rows
      BY <1>0, <2>3 DEF Replaced, Index
    <3>2. th' = [th EXCEPT ![q] = l]
      BY <1>0, <2>3
    <3>3. l \in Local /\ l.pc = "truncate" /\ l.lines = x
      BY <1>0, <3>1 DEF Local, PCs
    <3> HIDE DEF l
    <3> QED BY <1>0, <1>2, <2>1, <3>1, <3>2, <3>3
  <2> QED BY <1>4, <2>2, <2>3 DEF Reread
<1> QED BY <1>1, <1>3, <1>4

(* ------------------------- Steps that move a file ------------------------- *)

\* A file in the rubbish, and one at a path, have been made.
LEMMA Made ==
    ASSUME IInv
    PROVE  /\ \A i \in Ids : payload[i] \in Files => home[payload[i]] \in Paths
           /\ \A p \in Paths : tree[p] \in Files => home[tree[p]] = p
<1>1. \A f \in Files : home[f] \in Paths \cup {None}
  BY DEF IInv, DiskType
<1>2. \A i \in Ids : payload[i] \in Files => home[payload[i]] # None
  BY DEF IInv, DiskHolds
<1>3. \A p \in Paths : tree[p] \in Files => home[tree[p]] # None
  BY DEF IInv, DiskHolds
<1>4. \A p \in Paths : tree[p] \in Files => home[tree[p]] = p
  BY <1>3 DEF IInv, NothingIsLost
<1> QED BY <1>1, <1>2, <1>4

\* A file is made.
LEMMA CreateStep ==
    ASSUME IInv, NEW f \in Files, NEW p \in Paths, Create(f, p)
    PROVE  IInv'
<1>0. /\ home[f] = None /\ tree[p] = None
      /\ home' = [home EXCEPT ![f] = p] /\ tree' = [tree EXCEPT ![p] = f]
      /\ taken' = taken \cup Restoring(p)
      /\ UNCHANGED <<payload, index, th, nid, stops, destroyed, late, raced, disturbed>>
  BY DEF Create
<1>1. DiskType /\ DiskHolds /\ NothingIsLost
  BY DEF IInv
<1>2. /\ tree'[p] = f /\ (\A o \in Paths \ {p} : tree'[o] = tree[o])
      /\ home'[f] = p /\ (\A g \in Files \ {f} : home'[g] = home[g])
  BY <1>0, <1>1 DEF DiskType
<1>3. DiskType'
  <2>1. tree' \in [Paths -> Files \cup {None}] /\ home' \in [Files -> Paths \cup {None}]
    BY <1>0, <1>1 DEF DiskType
  <2>2. taken' \subseteq Programs
    BY <1>0, <1>1 DEF DiskType, Restoring
  <2> QED BY <1>0, <1>1, <2>1, <2>2 DEF DiskType
<1>4. /\ \A i \in Ids : payload[i] # f
      /\ \A o \in Paths : tree[o] # f
  BY <1>0, <1>1 DEF DiskHolds
<1>5. Keeps(Programs)
  <2>1. \A i \in Ids : Settled(i) => Settled(i)'
    BY <1>0 DEF Settled, At
  <2>2. \A i \in Ids : payload'[i] \in Files => payload'[i] = payload[i] /\ home'[payload[i]] = home[payload[i]]
    BY <1>0, <1>2, <1>4
  <2>3. \A x \in Programs : Filling(x)'
    BY <1>0 DEF IInv, Filling, At
  <2>4. ASSUME NEW x \in Programs, th[x].pc = "move", tree'[th[x].path] \in Files
        PROVE  tree[th[x].path] \in Files \/ x \in taken'
    <3>1. th[x].path \in Paths
      BY <2>4 DEF IInv, LocalOK
    <3>2. CASE th[x].path = p
      BY <1>0, <2>4, <3>2 DEF Restoring, At
    <3>3. CASE th[x].path # p
      BY <1>2, <2>4, <3>1, <3>3
    <3> QED BY <3>2, <3>3
  <2> QED BY <1>0, <2>1, <2>2, <2>3, <2>4 DEF Keeps
<1>6. DiskHolds'
  <2>1. \A r \in index'.rows : Fits(r.id, r.path)'
    <3>1. \A r \in index.rows : r.id \in Ids /\ Fits(r.id, r.path)
      BY <1>1, Fields DEF DiskHolds, DiskType
    <3> QED BY <1>0, <1>5, <3>1, FitsOn
  <2>2. \A i \in Ids : i > nid' => payload'[i] = Absent
    BY <1>0, <1>1 DEF DiskHolds
  <2>3. \A g \in Files : home'[g] = None =>
            (\A o \in Paths : tree'[o] # g) /\ (\A i \in Ids : payload'[i] # g)
    BY <1>0, <1>1, <1>2, Constants DEF DiskHolds
  <2> QED BY <2>1, <2>2, <2>3 DEF DiskHolds
<1>7. NothingIsLost'
  <2> SUFFICES ASSUME NEW g \in Files, home'[g] # None
               PROVE  /\ \/ tree'[home'[g]] = g \/ g \in destroyed' \cup raced'
                         \/ \E i \in Ids : payload'[i] = g
                      /\ \A o \in Paths : tree'[o] = g => o = home'[g] /\ \A i \in Ids : payload'[i] # g
                      /\ \A i, j \in Ids : payload'[i] = g /\ payload'[j] = g => i = j
    BY DEF NothingIsLost
  <2>1. CASE g = f
    BY <1>0, <1>2, <1>4, <2>1
  <2>2. CASE g # f
    <3>1. home'[g] = home[g] /\ home[g] \in Paths
      BY <1>1, <1>2, <2>2 DEF DiskType
    <3>2. /\ tree[home[g]] = g \/ g \in destroyed \cup raced \/ \E i \in Ids : payload[i] = g
          /\ \A o \in Paths : tree[o] = g => o = home[g] /\ \A i \in Ids : payload[i] # g
          /\ \A i, j \in Ids : payload[i] = g /\ payload[j] = g => i = j
      BY <1>1, <3>1 DEF NothingIsLost
    <3>3. g # None
      BY Constants
    <3>4. tree[home[g]] = g => tree'[home[g]] = g
      BY <1>0, <1>2, <3>1, <3>3
    <3>5. \A o \in Paths : tree'[o] = g => tree[o] = g
      BY <1>2, <2>2
    <3> QED BY <1>0, <3>1, <3>2, <3>4, <3>5
  <2> QED BY <2>1, <2>2
<1>8. \A x \in Programs : Sound(x, th[x])' /\ Filling(x)'
  BY <1>0, <1>5, SoundOn DEF Keeps
<1> QED BY <1>0, <1>3, <1>6, <1>7, <1>8 DEF IInv

\* A store makes its directory.
LEMMA StoreStep ==
    ASSUME IInv, NEW q \in Programs, NEW p \in Paths, Store(q, p)
    PROVE  IInv'
<1> DEFINE n == nid + 1  l == [Idle EXCEPT !.pc = "store", !.id = n, !.path = p]
<1>0. /\ nid < MaxStores /\ Begin(q, l) /\ nid' = n
      /\ payload' = [payload EXCEPT ![n] = None]
      /\ UNCHANGED <<tree, index, stops, home, destroyed, taken, late, raced>>
  BY DEF Store, races
<1>1. DiskType /\ DiskHolds /\ NothingIsLost /\ th \in [Programs -> Local]
  BY DEF IInv
<1>2. nid \in Nat /\ n \in Ids /\ n \in Nat /\ n > nid /\ ~(n <= nid) /\ \A i \in Ids : i > n => i > nid
  BY <1>0, <1>1, Constants DEF DiskType, Ids
<1>3. l \in Local /\ l.pc = "store" /\ l.id = n /\ l.path = p /\ l.lines = Empty
  BY <1>2, IdleType DEF Local, PCs
<1>4. th' = [th EXCEPT ![q] = l] /\ disturbed' \in BOOLEAN /\ th[q].pc = "idle"
  BY <1>0, <1>1 DEF Begin, Busy, At, DiskType
<1>5. payload'[n] = None /\ (\A i \in Ids \ {n} : payload'[i] = payload[i]) /\ payload[n] = Absent
  BY <1>0, <1>1, <1>2 DEF DiskType, DiskHolds
<1>6. DiskType'
  <2>1. payload' \in [Ids -> Files \cup {None, Absent}] /\ nid' \in 0 .. MaxStores
    BY <1>0, <1>1, <1>2, Constants DEF DiskType
  <2> QED BY <1>0, <1>1, <1>4, <2>1 DEF DiskType
<1> HIDE DEF l, n
<1>7. th'[q] = l /\ \A x \in Programs \ {q} : th'[x] = th[x]
  BY <1>1, <1>4
<1>8. \A i \in Ids : payload'[i] \in Files => payload'[i] = payload[i]
  BY <1>5, Constants
<1>9. \A i \in Ids : Settled(i) => Settled(i)'
  <2> SUFFICES ASSUME NEW i \in Ids, Settled(i) PROVE Settled(i)'
    OBVIOUS
  <2>1. i <= nid /\ i <= n /\ i # n
    BY <1>2, Constants DEF Settled
  <2> QED BY <1>0, <1>3, <1>7, <2>1 DEF Settled, At
<1>10. \A x \in Programs : Filling(x)'
  <2>0. \A i \in Ids : i <= nid => i <= n /\ i # n
    BY <1>2, Constants
  <2>1. \A x \in Programs \ {q} : th[x].pc = "store" =>
            th[x].id \in Ids /\ th[x].id <= nid /\ th[x].id <= n /\ th[x].id # n
    <3>1. \A x \in Programs : th[x].pc = "store" => th[x].id \in Ids /\ th[x].id <= nid
      BY DEF IInv, Filling, LocalOK, At
    <3> QED BY <2>0, <3>1
  <2>2. \A x \in Programs \ {q} : Filling(x)'
    BY <1>0, <1>3, <1>5, <1>7, <2>1 DEF IInv, Filling, At
  <2>3. Filling(q)'
    BY <1>0, <1>2, <1>3, <1>5, <1>7, <2>1, Constants DEF Filling, At
  <2> QED BY <2>2, <2>3
<1>11. Keeps(Programs \ {q})
  <2>1. \A x \in Programs : th[x].todo \subseteq Ids
    BY <1>1, Fields
  <2> QED BY <1>0, <1>8, <1>9, <1>10, <2>1 DEF Keeps
<1>12. DiskHolds'
  <2>1. \A r \in index'.rows : Fits(r.id, r.path)'
    <3>1. \A r \in index.rows : r.id \in Ids /\ Fits(r.id, r.path)
      BY <1>1, Fields DEF DiskHolds, DiskType
    <3> QED BY <1>0, <1>11, <3>1, FitsOn
  <2>2. \A i \in Ids : i > nid' => payload'[i] = Absent
    <3>1. \A i \in Ids : i > n => i # n /\ i > nid
      BY <1>2, Constants
    <3> QED BY <1>0, <1>1, <1>5, <3>1 DEF DiskHolds
  <2>3. \A g \in Files : home'[g] = None =>
            (\A o \in Paths : tree'[o] # g) /\ (\A i \in Ids : payload'[i] # g)
    BY <1>0, <1>1, <1>8 DEF DiskHolds
  <2> QED BY <2>1, <2>2, <2>3 DEF DiskHolds
<1>13. NothingIsLost'
  <2>1. \A i \in Ids, g \in Files : payload'[i] = g <=> payload[i] = g
    BY <1>5, Constants
  <2> QED BY <1>0, <1>1, <2>1 DEF NothingIsLost
<1>14. LocalOK(l) /\ Sound(q, th[q])'
  BY <1>2, <1>3, <1>7, IdleType DEF LocalOK, Sound
<1> QED BY <1>3, <1>4, <1>6, <1>10, <1>11, <1>12, <1>13, <1>14, Step

\* A store moves its file.
LEMMA StoreMoveStep ==
    ASSUME IInv, NEW q \in Programs, StoreMove(q)
    PROVE  IInv'
<1>0. DiskType /\ DiskHolds /\ NothingIsLost /\ th \in [Programs -> Local] /\ th[q] \in Local
  BY DEF IInv
<1> DEFINE i == th[q].id  p == th[q].path  f == tree[p]  l == [th[q] EXCEPT !.pc = "append"]
<1>1. /\ th[q].pc = "store" /\ i \in Ids /\ p \in Paths /\ i <= nid /\ payload[i] \notin Files
      /\ (\A x \in Programs \ {q} : th[x].pc = "store" => th[x].id # i) /\ Sound(q, th[q])
  BY DEF StoreMove, At, IInv, LocalOK, Filling
<1>2. CASE ~(tree[p] # None /\ payload[i] # Absent)
  <2>1. Finish(q) /\ UNCHANGED <<tree, payload, index, nid, stops, home, destroyed, races, disturbed>>
    BY <1>2 DEF StoreMove, races
  <2> QED BY <2>1, Parts, FinishStep
<1>3. CASE tree[p] # None /\ payload[i] # Absent
  <2>1. /\ payload' = [payload EXCEPT ![i] = f] /\ tree' = [tree EXCEPT ![p] = None]
        /\ late' = IF \E x \in Programs : At(x, "clear") /\ i \in th[x].todo
                     THEN late \cup {i} ELSE late
        /\ th' = [th EXCEPT ![q].pc = "append"]
        /\ UNCHANGED <<index, nid, stops, home, destroyed, taken, raced, disturbed>>
    BY <1>3 DEF StoreMove, Goto
  <2>2. th' = [th EXCEPT ![q] = l]
    BY <1>0, <2>1
  <2>3. l \in Local /\ l.pc = "append" /\ l.id = i /\ l.path = p /\ l.lines = th[q].lines
    BY <1>0 DEF Local, PCs
  <2>4. f \in Files /\ home[f] = p
    <3>1. f \in Files
      BY <1>0, <1>1, <1>3 DEF DiskType
    <3> QED BY <1>1, <3>1, Made
  <2>5. /\ payload'[i] = f /\ (\A j \in Ids \ {i} : payload'[j] = payload[j])
        /\ tree'[p] = None /\ (\A o \in Paths \ {p} : tree'[o] = tree[o])
    BY <1>0, <1>1, <2>1 DEF DiskType
  <2>6. DiskType'
    <3>1. /\ payload' \in [Ids -> Files \cup {None, Absent}]
          /\ tree' \in [Paths -> Files \cup {None}] /\ late' \subseteq Ids
      BY <1>0, <1>1, <2>1, <2>4 DEF DiskType
    <3> QED BY <1>0, <2>1, <3>1 DEF DiskType
  <2>7. /\ (\A j \in Ids : payload[j] # f) /\ (\A o \in Paths : tree[o] = f => o = p)
        /\ home[f] # None
    BY <1>0, <1>1, <2>4, Constants DEF NothingIsLost
  <2> HIDE DEF l, i, p, f
  <2>8. th'[q] = l /\ \A x \in Programs \ {q} : th'[x] = th[x]
    BY <1>0, <2>2
  <2>9. \A j : Settled(j) => Settled(j)' /\ j # i
    <3>1. \A j : Settled(j) => j # i
      BY <1>1 DEF Settled, At, i
    <3>2. \A j : Settled(j) => Settled(j)'
      BY <2>1, <2>3, <2>8 DEF Settled, At
    <3> QED BY <3>1, <3>2
  <2>10. \A x \in Programs : Filling(x)'
    <3>1. \A x \in Programs : th'[x].pc = "store" => x # q /\ th'[x] = th[x] /\ th[x].id \in Ids \ {i}
      BY <1>1, <2>3, <2>8 DEF IInv, LocalOK
    <3> QED BY <2>1, <2>5, <3>1 DEF IInv, Filling, At
  <2>11. Keeps(Programs \ {q})
    <3>1. ASSUME NEW x \in Programs \ {q}, th[x].pc = "clear", NEW j \in th[x].todo,
                 payload'[j] \in Files
          PROVE  payload[j] \in Files \/ j \in late'
      <4>1. j \in Ids
        BY <1>0, Fields
      <4>2. CASE j = i
        BY <2>1, <3>1, <4>2 DEF At
      <4>3. CASE j # i
        BY <2>5, <3>1, <4>1, <4>3
      <4> QED BY <4>2, <4>3
    <3>2. \A x \in Programs : th[x].pc = "move" => th[x].path \in Paths
      BY DEF IInv, LocalOK
    <3>3. \A o \in Paths : tree'[o] \in Files => tree[o] \in Files
      BY <2>5, Constants
    <3>4. late \subseteq late'
      BY <2>1
    <3> QED BY <2>1, <2>5, <2>9, <2>10, <3>1, <3>2, <3>3, <3>4 DEF Keeps
  <2>12. DiskHolds'
    <3>1. \A r \in index'.rows : Fits(r.id, r.path)'
      <4>1. \A r \in index.rows : r.id \in Ids /\ Fits(r.id, r.path)
        BY <1>0, Fields DEF DiskHolds, DiskType
      <4> QED BY <2>1, <2>11, <4>1, FitsOn
    <3>2. \A j \in Ids : j > nid' => payload'[j] = Absent
      <4>1. \A j \in Ids : j > nid => j # i
        BY <1>0, <1>1, Constants DEF DiskType
      <4> QED BY <1>0, <2>1, <2>5, <4>1 DEF DiskHolds
    <3>3. \A g \in Files : home'[g] = None =>
              (\A o \in Paths : tree'[o] # g) /\ (\A j \in Ids : payload'[j] # g)
      BY <1>0, <2>1, <2>5, <2>7, Constants DEF DiskHolds
    <3> QED BY <3>1, <3>2, <3>3 DEF DiskHolds
  <2>13. NothingIsLost'
    <3> SUFFICES ASSUME NEW g \in Files, home[g] # None
                 PROVE  /\ \/ tree'[home[g]] = g \/ g \in destroyed \cup raced
                           \/ \E j \in Ids : payload'[j] = g
                        /\ \A o \in Paths : tree'[o] = g => o = home[g] /\ \A j \in Ids : payload'[j] # g
                        /\ \A j, k \in Ids : payload'[j] = g /\ payload'[k] = g => j = k
      BY <2>1 DEF NothingIsLost
    <3>1. g # None /\ home[g] \in Paths
      BY <1>0, Constants DEF DiskType
    <3>2. CASE g = f
      BY <1>1, <2>5, <2>7, <3>1, <3>2
    <3>3. CASE g # f
      <4>1. /\ tree[home[g]] = g \/ g \in destroyed \cup raced \/ \E j \in Ids : payload[j] = g
            /\ \A o \in Paths : tree[o] = g => o = home[g] /\ \A j \in Ids : payload[j] # g
            /\ \A j, k \in Ids : payload[j] = g /\ payload[k] = g => j = k
        BY <1>0 DEF NothingIsLost
      <4>2. \A o \in Paths : tree'[o] = g <=> tree[o] = g
        BY <2>5, <3>1, <3>3 DEF f
      <4>3. \A j \in Ids : payload'[j] = g <=> payload[j] = g
        BY <1>1, <2>5, <3>3 DEF i
      <4> QED BY <3>1, <4>1, <4>2, <4>3
    <3> QED BY <3>2, <3>3
  <2>14. LocalOK(l) /\ Sound(q, th[q])'
    <3>1. \A r \in th[q].lines.rows : r.id \in Ids /\ Fits(r.id, r.path)'
      <4>1. \A r \in th[q].lines.rows : r.id \in Ids /\ Fits(r.id, r.path)
        BY <1>0, <1>1, Fields DEF Sound
      <4> QED BY <2>11, <4>1, FitsOn
    <3>2. LocalOK(l)
      BY <1>1, <2>3 DEF LocalOK, i, p
    <3>3. th'[q].id = i /\ th'[q].path = p
      BY <2>3, <2>8
    <3>4. Settled(th[q].id)'
      BY <1>1, <2>1, <2>3, <2>8, <3>3 DEF Settled, At, i
    <3>5. Fits(th[q].id, th[q].path)'
      BY <2>1, <2>4, <2>5, <3>3, <3>4 DEF Fits
    <3> QED BY <2>3, <2>8, <3>1, <3>2, <3>5 DEF Sound
  <2> QED BY <2>2, <2>3, <2>6, <2>10, <2>11, <2>12, <2>13, <2>14, Step
<1> QED BY <1>2, <1>3

\* A restore moves its file, over one that came meanwhile.
LEMMA RestoreMoveStep ==
    ASSUME IInv, NEW q \in Programs, RestoreMove(q)
    PROVE  IInv'
<1>0. DiskType /\ DiskHolds /\ NothingIsLost /\ th \in [Programs -> Local] /\ th[q] \in Local
  BY DEF IInv
<1> DEFINE i == th[q].id  p == th[q].path  f == payload[i]  l == [th[q] EXCEPT !.pc = "truncate"]
<1>1. /\ th[q].pc = "move" /\ i \in Ids /\ p \in Paths /\ Sound(q, th[q])
      /\ (f \in Files => home[f] = p) /\ (tree[p] \in Files => q \in taken)
  BY DEF RestoreMove, At, IInv, LocalOK, Sound, Fits
<1>2. CASE f \notin Files
  <2>1. Finish(q) /\ UNCHANGED <<tree, payload, index, nid, stops, home, destroyed, races, disturbed>>
    BY <1>2 DEF RestoreMove, races
  <2> QED BY <2>1, Parts, FinishStep
<1>3. CASE f \in Files
  <2>1. /\ tree' = [tree EXCEPT ![p] = f] /\ payload' = [payload EXCEPT ![i] = None]
        /\ raced' = raced \cup {g \in Files : tree[p] = g /\ q \in taken}
        /\ taken' = taken \cup Restoring(p)
        /\ th' = [th EXCEPT ![q].pc = "truncate"]
        /\ UNCHANGED <<index, nid, stops, home, destroyed, late, disturbed>>
    BY <1>3 DEF RestoreMove, Goto
  <2>2. th' = [th EXCEPT ![q] = l]
    BY <1>0, <2>1
  <2>3. l \in Local /\ l.pc = "truncate" /\ l.lines = th[q].lines
    BY <1>0 DEF Local, PCs
  <2>4. /\ payload'[i] = None /\ (\A j \in Ids \ {i} : payload'[j] = payload[j])
        /\ tree'[p] = f /\ (\A o \in Paths \ {p} : tree'[o] = tree[o])
    BY <1>0, <1>1, <2>1 DEF DiskType
  <2>5. DiskType'
    <3>1. /\ payload' \in [Ids -> Files \cup {None, Absent}]
          /\ tree' \in [Paths -> Files \cup {None}]
          /\ raced' \subseteq Files /\ taken' \subseteq Programs
      BY <1>0, <1>1, <1>3, <2>1 DEF DiskType, Restoring
    <3> QED BY <1>0, <2>1, <3>1 DEF DiskType
  <2>6. /\ (\A j \in Ids : payload[j] = f => j = i) /\ (\A o \in Paths : tree[o] # f)
        /\ home[f] = p /\ home[f] # None
    <3>1. home[f] = p /\ home[f] # None
      BY <1>1, <1>3, Constants
    <3>2. payload[i] = f
      OBVIOUS
    <3> QED BY <1>0, <1>1, <1>3, <3>1, <3>2 DEF NothingIsLost
  <2> HIDE DEF l, i, p, f
  <2>7. th'[q] = l /\ \A x \in Programs \ {q} : th'[x] = th[x]
    BY <1>0, <2>2
  <2>8. \A j : Settled(j) => Settled(j)'
    BY <2>1, <2>3, <2>7 DEF Settled, At
  <2>9. \A j \in Ids : payload'[j] \in Files => payload'[j] = payload[j]
    BY <2>4, Constants
  <2>10. \A x \in Programs : Filling(x)'
    <3>1. \A x \in Programs : th'[x].pc = "store" => th'[x] = th[x] /\ th[x].id \in Ids
      BY <2>3, <2>7 DEF IInv, LocalOK
    <3> QED BY <2>1, <2>9, <3>1 DEF IInv, Filling, At
  <2>11. Keeps(Programs \ {q})
    <3>1. \A x \in Programs : th[x].todo \subseteq Ids
      BY <1>0, Fields
    <3>2. ASSUME NEW x \in Programs \ {q}, th[x].pc = "move", tree'[th[x].path] \in Files
          PROVE  tree[th[x].path] \in Files \/ x \in taken'
      <4>1. th[x].path \in Paths
        BY <3>2 DEF IInv, LocalOK
      <4>2. CASE th[x].path = p
        BY <2>1, <3>2, <4>2 DEF Restoring, At
      <4>3. CASE th[x].path # p
        BY <2>4, <3>2, <4>1, <4>3
      <4> QED BY <4>2, <4>3
    <3> QED BY <2>1, <2>8, <2>9, <2>10, <3>1, <3>2 DEF Keeps
  <2>12. DiskHolds'
    <3>1. \A r \in index'.rows : Fits(r.id, r.path)'
      <4>1. \A r \in index.rows : r.id \in Ids /\ Fits(r.id, r.path)
        BY <1>0, Fields DEF DiskHolds, DiskType
      <4> QED BY <2>1, <2>11, <4>1, FitsOn
    <3>2. \A j \in Ids : j > nid' => payload'[j] = Absent
      <4>1. f # Absent
        BY <1>3, Constants
      <4>2. \A j \in Ids : j > nid => j # i
        BY <1>0, <4>1 DEF DiskHolds, f
      <4> QED BY <1>0, <2>1, <2>4, <4>2 DEF DiskHolds
    <3>3. \A g \in Files : home'[g] = None =>
              (\A o \in Paths : tree'[o] # g) /\ (\A j \in Ids : payload'[j] # g)
      BY <1>0, <2>1, <2>4, <2>6, Constants DEF DiskHolds
    <3> QED BY <3>1, <3>2, <3>3 DEF DiskHolds
  <2>13. NothingIsLost'
    <3> SUFFICES ASSUME NEW g \in Files, home[g] # None
                 PROVE  /\ \/ tree'[home[g]] = g \/ g \in destroyed \cup raced'
                           \/ \E j \in Ids : payload'[j] = g
                        /\ \A o \in Paths : tree'[o] = g => o = home[g] /\ \A j \in Ids : payload'[j] # g
                        /\ \A j, k \in Ids : payload'[j] = g /\ payload'[k] = g => j = k
      BY <2>1 DEF NothingIsLost
    <3>1. g # None /\ home[g] \in Paths
      BY <1>0, Constants DEF DiskType
    <3>2. CASE g = f
      <4>1. \A j \in Ids : payload'[j] # f
        BY <2>4, <2>6, <3>1, <3>2
      <4>2. \A o \in Paths : tree'[o] = f => o = p
        BY <2>4, <2>6
      <4> QED BY <2>4, <2>6, <3>2, <4>1, <4>2
    <3>3. CASE g # f
      <4>1. /\ tree[home[g]] = g \/ g \in destroyed \cup raced \/ \E j \in Ids : payload[j] = g
            /\ \A o \in Paths : tree[o] = g => o = home[g] /\ \A j \in Ids : payload[j] # g
            /\ \A j, k \in Ids : payload[j] = g /\ payload[k] = g => j = k
        BY <1>0 DEF NothingIsLost
      <4>2. \A o \in Paths : tree'[o] = g => tree[o] = g
        BY <2>4, <3>3
      <4>3. \A j \in Ids : payload'[j] = g <=> payload[j] = g
        <5>1. payload[i] # g
          BY <3>3 DEF f
        <5> QED BY <2>4, <3>1, <5>1
      <4>4. tree[home[g]] = g => tree'[home[g]] = g \/ g \in raced'
        <5>1. CASE home[g] = p
          <6>1. tree[p] = g => q \in taken
            BY <1>1 DEF p
          <6> QED BY <2>1, <5>1, <6>1
        <5>2. CASE home[g] # p
          BY <2>4, <3>1, <5>2
        <5> QED BY <5>1, <5>2
      <4>5. raced \subseteq raced'
        BY <2>1
      <4> QED BY <4>1, <4>2, <4>3, <4>4, <4>5
    <3> QED BY <3>2, <3>3
  <2>14. LocalOK(l) /\ Sound(q, th[q])'
    <3>1. \A r \in th[q].lines.rows : r.id \in Ids /\ Fits(r.id, r.path)'
      <4>1. \A r \in th[q].lines.rows : r.id \in Ids /\ Fits(r.id, r.path)
        BY <1>0, <1>1, Fields DEF Sound
      <4> QED BY <2>11, <4>1, FitsOn
    <3> QED BY <2>3, <2>7, <3>1 DEF Sound, LocalOK
  <2> QED BY <2>2, <2>3, <2>5, <2>10, <2>11, <2>12, <2>13, <2>14, Step
<1> QED BY <1>2, <1>3

(* --------------------- Steps that remove a directory --------------------- *)

\* A directory is removed that the operation had found with its file, or that Array had
\* listed before the file came.
LEMMA RmtreeStep ==
    ASSUME IInv, NEW q \in Programs, NEW i \in Ids, Rmtree(q, i),
           payload[i] \in Files => i \in th[q].held \/ (At(q, "clear") /\ i \in late),
           NEW l \in Local, LocalOK(l), th' = [th EXCEPT ![q] = l], Sound(q, l),
           l.pc \notin {"store", "move"},
           UNCHANGED <<tree, index, nid, stops, home, taken, late>>
    PROVE  IInv'
<1>0. DiskType /\ DiskHolds /\ NothingIsLost /\ th \in [Programs -> Local]
  BY DEF IInv
<1>1. /\ payload' = [payload EXCEPT ![i] = Absent]
      /\ destroyed' = destroyed \cup {f \in Files : payload[i] = f /\ i \in th[q].held}
      /\ raced' = raced \cup {f \in Files : payload[i] = f /\ At(q, "clear") /\ i \in late}
      /\ UNCHANGED disturbed
  BY DEF Rmtree
<1>2. payload'[i] = Absent /\ \A j \in Ids \ {i} : payload'[j] = payload[j]
  BY <1>0, <1>1 DEF DiskType
<1>3. DiskType'
  <2>1. payload' \in [Ids -> Files \cup {None, Absent}] /\ destroyed' \subseteq Files /\ raced' \subseteq Files
    BY <1>0, <1>1 DEF DiskType
  <2> QED BY <1>0, <1>1, <2>1 DEF DiskType
<1>4. th'[q] = l /\ \A x \in Programs \ {q} : th'[x] = th[x]
  BY <1>0
<1>5. \A j \in Ids : payload'[j] \in Files => payload'[j] = payload[j]
  BY <1>2, Constants
<1>6. \A j : Settled(j) => Settled(j)'
  BY <1>4 DEF Settled, At
<1>7. \A x \in Programs : Filling(x)'
  <2>1. \A x \in Programs : th'[x].pc = "store" => th'[x] = th[x] /\ th[x].id \in Ids
    BY <1>4 DEF IInv, LocalOK
  <2> QED BY <1>5, <2>1 DEF IInv, Filling, At
<1>8. Keeps(Programs \ {q})
  <2>1. \A x \in Programs : th[x].todo \subseteq Ids
    BY <1>0, Fields
  <2> QED BY <1>5, <1>6, <1>7, <2>1 DEF Keeps
<1>9. DiskHolds'
  <2>1. \A r \in index'.rows : Fits(r.id, r.path)'
    <3>1. \A r \in index.rows : r.id \in Ids /\ Fits(r.id, r.path)
      BY <1>0, Fields DEF DiskHolds, DiskType
    <3> QED BY <1>8, <3>1, FitsOn
  <2>2. \A j \in Ids : j > nid' => payload'[j] = Absent
    BY <1>0, <1>2 DEF DiskHolds
  <2>3. \A g \in Files : home'[g] = None =>
            (\A o \in Paths : tree'[o] # g) /\ (\A j \in Ids : payload'[j] # g)
    BY <1>0, <1>5 DEF DiskHolds
  <2> QED BY <2>1, <2>2, <2>3 DEF DiskHolds
<1>10. NothingIsLost'
  <2> SUFFICES ASSUME NEW g \in Files, home[g] # None
               PROVE  /\ \/ tree[home[g]] = g \/ g \in destroyed' \cup raced'
                         \/ \E j \in Ids : payload'[j] = g
                      /\ \A o \in Paths : tree[o] = g => o = home[g] /\ \A j \in Ids : payload'[j] # g
                      /\ \A j, k \in Ids : payload'[j] = g /\ payload'[k] = g => j = k
    BY DEF NothingIsLost
  <2>1. /\ tree[home[g]] = g \/ g \in destroyed \cup raced \/ \E j \in Ids : payload[j] = g
        /\ \A o \in Paths : tree[o] = g => o = home[g] /\ \A j \in Ids : payload[j] # g
        /\ \A j, k \in Ids : payload[j] = g /\ payload[k] = g => j = k
    BY <1>0 DEF NothingIsLost
  <2>2. payload[i] = g => g \in destroyed' \cup raced'
    BY <1>1
  <2>3. destroyed \subseteq destroyed' /\ raced \subseteq raced'
    BY <1>1
  <2>4. \A j \in Ids : payload'[j] = g => payload[j] = g
    BY <1>5
  <2>5. \A j \in Ids : payload[j] = g => payload'[j] = g \/ g \in destroyed' \cup raced'
    BY <1>2, <2>2
  <2> QED BY <2>1, <2>3, <2>4, <2>5
<1>11. Sound(q, th[q])'
  <2>1. \A r \in l.lines.rows : r.id \in Ids /\ Fits(r.id, r.path)'
    <3>1. \A r \in l.lines.rows : r.id \in Ids /\ Fits(r.id, r.path)
      BY Fields DEF Sound
    <3> QED BY <1>8, <3>1, FitsOn
  <2>2. l.pc = "append" => Fits(l.id, l.path)'
    BY <1>8, FitsOn DEF Sound, LocalOK
  <2>3. l.todo \subseteq Ids
    BY Fields
  <2>4. l.pc \in {"empty", "destroy"} =>
            \A j \in l.todo : Settled(j)' /\ (payload'[j] \in Files => j \in l.held)
    BY <1>5, <1>6, <2>3 DEF Sound
  <2>5. l.pc = "clear" => \A j \in l.todo : payload'[j] \in Files => j \in l.held \cup late'
    BY <1>5, <2>3 DEF Sound
  <2> QED BY <1>4, <2>1, <2>2, <2>4, <2>5 DEF Sound
<1> QED BY <1>3, <1>7, <1>8, <1>9, <1>10, <1>11, Step

\* The steps of a removal.
LEMMA RemoveSteps ==
    ASSUME IInv, NEW q \in Programs,
           (\E i \in Ids : EmptyOne(q, i) \/ ClearOne(q, i)) \/ DestroyOne(q)
    PROVE  IInv'
<1>0. /\ DiskType /\ th \in [Programs -> Local] /\ th[q] \in Local /\ LocalOK(th[q])
      /\ Sound(q, th[q]) /\ th[q].lines \in Index /\ th[q].todo \subseteq Ids
      /\ index \in Index /\ (\A r \in index.rows : Fits(r.id, r.path))
      /\ stops \in 0 .. MaxStops /\ disturbed \in BOOLEAN /\ taken \subseteq Programs
  BY Parts, Fields DEF DiskType
<1>1. ASSUME NEW i \in th[q].todo, NEW l \in Local, LocalOK(l), th' = [th EXCEPT ![q] = l], Sound(q, l),
             l.pc \notin {"store", "move"}, th[q].pc \in {"empty", "destroy"}, RmtreeOrNot(q, i),
             UNCHANGED <<tree, index, nid, stops, home, taken, late>>
      PROVE  IInv'
  <2>1. CASE Rmtree(q, i)
    <3>1. payload[i] \in Files => i \in th[q].held
      BY <1>0, <1>1 DEF Sound
    <3> QED BY <1>0, <1>1, <2>1, <3>1, RmtreeStep
  <2>2. CASE UNCHANGED <<payload, destroyed, raced>> /\ disturbed' = TRUE
    BY <1>0, <1>1, <2>2, QuietStep
  <2> QED BY <1>1, <2>1, <2>2 DEF RmtreeOrNot
<1>2. ASSUME NEW i \in Ids, EmptyOne(q, i) \/ (ClearOne(q, i) /\ payload[i] # Absent)
      PROVE  IInv'
  <2> DEFINE l == [th[q] EXCEPT !.todo = @ \ {i}]
  <2>1. /\ i \in th[q].todo /\ th[q].pc \in {"empty", "clear"} /\ th' = [th EXCEPT ![q].todo = @ \ {i}]
        /\ UNCHANGED <<tree, index, nid, stops, home, taken, late>>
    BY <1>2 DEF EmptyOne, ClearOne, At
  <2>2. th' = [th EXCEPT ![q] = l]
    BY <1>0, <2>1
  <2>3. /\ l \in Local /\ l.pc = th[q].pc /\ l.lines = th[q].lines /\ l.todo = th[q].todo \ {i}
        /\ l.held = th[q].held
    BY <1>0 DEF Local
  <2> HIDE DEF l
  <2>4. LocalOK(l) /\ Sound(q, l)
    BY <1>0, <2>1, <2>3 DEF LocalOK, Sound
  <2>5. CASE EmptyOne(q, i)
    BY <1>0, <1>1, <2>1, <2>2, <2>3, <2>4, <2>5 DEF EmptyOne, At
  <2>6. CASE ClearOne(q, i) /\ payload[i] # Absent
    <3>1. Rmtree(q, i) /\ At(q, "clear")
      BY <2>6 DEF ClearOne
    <3>2. payload[i] \in Files => i \in th[q].held \/ (At(q, "clear") /\ i \in late)
      BY <1>0, <2>1, <3>1 DEF Sound, At
    <3> QED BY <2>1, <2>2, <2>3, <2>4, <3>1, <3>2, RmtreeStep
  <2> QED BY <1>2, <2>5, <2>6
<1>3. ASSUME NEW i \in Ids, ClearOne(q, i), payload[i] = Absent PROVE IInv'
  <2>1. /\ Finish(q) /\ UNCHANGED <<tree, payload, index, nid, stops, home, destroyed, races, disturbed>>
    BY <1>3 DEF ClearOne, races
  <2> QED BY <1>0, <2>1, FinishStep
<1>4. CASE DestroyOne(q)
  <2> DEFINE s == IF th[q].lines = Empty THEN "reread" ELSE "truncate"
             l == [th[q] EXCEPT !.todo = {}, !.held = {}, !.pc = s]
  <2>1. /\ th[q].pc = "destroy" /\ RmtreeOrNot(q, th[q].id)
        /\ th' = [th EXCEPT ![q].todo = {}, ![q].held = {}, ![q].pc = s]
        /\ UNCHANGED <<tree, index, nid, stops, home, taken, late>>
    BY <1>4 DEF DestroyOne, At
  <2>2. th[q].id \in th[q].todo /\ s \in {"reread", "truncate"}
    BY <1>0, <2>1 DEF LocalOK
  <2> HIDE DEF s
  <2>3. th' = [th EXCEPT ![q] = l]
    BY <1>0, <2>1
  <2>4. l \in Local /\ l.pc = s /\ l.lines = th[q].lines
    BY <1>0, <2>2 DEF Local, PCs
  <2> HIDE DEF l
  <2>5. LocalOK(l) /\ Sound(q, l)
    BY <1>0, <2>2, <2>4 DEF LocalOK, Sound
  <2> QED BY <1>1, <2>1, <2>2, <2>3, <2>4, <2>5
<1> QED BY <1>2, <1>3, <1>4

(* -------------------------------- Theorems -------------------------------- *)

\* The invariant holds of an empty rubbish.
LEMMA InvInit == Init => IInv
<1> SUFFICES ASSUME Init PROVE IInv
  OBVIOUS
<1>1. /\ tree = [p \in Paths |-> None] /\ payload = [i \in Ids |-> Absent]
      /\ index = [head |-> Header, rows |-> {}] /\ th = [q \in Programs |-> Idle]
      /\ nid = 0 /\ stops = 0 /\ home = [f \in Files |-> None]
      /\ destroyed = {} /\ raced = {} /\ taken = {} /\ late = {} /\ disturbed = FALSE
  BY DEF Init
<1>2. DiskType
  <2>1. tree \in [Paths -> Files \cup {None}] /\ home \in [Files -> Paths \cup {None}]
    BY <1>1
  <2>2. payload \in [Ids -> Files \cup {None, Absent}]
    BY <1>1
  <2>3. index \in Index
    BY <1>1 DEF Index
  <2>4. nid \in 0 .. MaxStores /\ stops \in 0 .. MaxStops
    BY <1>1, Constants
  <2> QED BY <1>1, <2>1, <2>2, <2>3, <2>4 DEF DiskType
<1>3. th \in [Programs -> Local] /\ \A q \in Programs : th[q] = Idle
  BY <1>1, IdleType
<1>4. DiskHolds
  <2>1. (\A p \in Paths : tree[p] = None) /\ (\A i \in Ids : payload[i] = Absent) /\ index.rows = {}
    BY <1>1
  <2> QED BY <2>1, Constants DEF DiskHolds
<1>5. \A q \in Programs : Filling(q)
  BY <1>3, IdleType DEF Filling, At
<1>6. NothingIsLost
  BY <1>1 DEF NothingIsLost
<1>7. \A q \in Programs : LocalOK(th[q]) /\ Sound(q, th[q])
  BY <1>3, IdleSound
<1> QED BY <1>2, <1>3, <1>4, <1>5, <1>6, <1>7 DEF IInv

\* The invariant is inductive.
LEMMA InvNext == IInv /\ [Next]_vars => IInv'
<1> SUFFICES ASSUME IInv, [Next]_vars PROVE IInv'
  OBVIOUS
<1>1. CASE UNCHANGED vars
  <2>1. UNCHANGED <<tree, payload, index, th, nid, stops, home, destroyed, taken, late, raced, disturbed>>
    BY <1>1 DEF vars, disk, races
  <2> QED BY <2>1 DEF IInv, DiskType, DiskHolds, Filling, Sound, Fits, Settled, At, NothingIsLost
<1>2. ASSUME NEW q \in Programs,
             AppendRow(q) \/ MoveFails(q) \/ Rewrite(q) \/ EmptyDone(q) \/ Stop(q)
      PROVE  IInv'
  BY <1>2, EndSteps
<1>3. ASSUME NEW q \in Programs, Truncate(q) \/ ClearDone(q) \/ Reread(q)
      PROVE  IInv'
  BY <1>3, OpenSteps
<1>4. ASSUME NEW q \in Programs,
             \/ EmptyAll(q) \/ ClearAll(q) \/ (\E i \in Ids : DestroyItem(q, i))
             \/ \E r \in index.rows : DestroyNamed(q, r)
      PROVE  IInv'
  BY <1>4, RemovalSteps
<1>5. ASSUME NEW q \in Programs,
             (\E i \in Ids : EmptyOne(q, i) \/ ClearOne(q, i)) \/ DestroyOne(q)
      PROVE  IInv'
  BY <1>5, RemoveSteps
<1> QED BY <1>1, <1>2, <1>3, <1>4, <1>5, CreateStep, StoreStep, StoreMoveStep, RestoreStep,
           RestoreMoveStep DEF Next

\* The programs keep their types.
THEOREM TypeCorrect == Spec => []TypeOK
<1>1. IInv => TypeOK
  BY DEF IInv, DiskType, TypeOK
<1> QED BY <1>1, InvInit, InvNext, PTL DEF Spec

\* Whatever any number of programs do at once and wherever they are cut off, a file is at the path
\* it was made at or in the rubbish, and in one place, until an emptying or a destroying that had
\* found it there removes it; but for the two races that NothingIsLost names.
THEOREM NeverLost == Spec => []NothingIsLost
<1>1. IInv => NothingIsLost
  BY DEF IInv
<1> QED BY <1>1, InvInit, InvNext, PTL DEF Spec

(* ------------------------- The index, undisturbed ------------------------- *)

\* The index x lists the files in the rubbish.
Exact(x) == x.head = Header /\ Listed(x.rows) = Full

\* What the program that is alone at work, with locals l, has done and has yet to do.
Halfway(l) ==
    /\ l.pc = "store" => Exact(index)
    /\ l.pc = "append" => index.head = Header /\ Full = Listed(index.rows) \cup {l.id}
    /\ l.pc = "move" => Exact(index) /\ l.lines = index
    /\ l.pc \in {"truncate", "rewrite"} =>
         l.lines.head = Header /\ Listed(Without(l.lines.rows, l.id)) = Full
    /\ l.pc = "rewrite" => index.rows = {}
    /\ l.pc = "empty" => Full \subseteq l.todo
    /\ l.pc = "clear" =>
         Full \subseteq l.todo /\ index.head = Header /\ \A i \in l.todo : payload[i] # Absent
    /\ l.pc = "destroy" => Exact(index) /\ l.lines \in {Empty, index}
    /\ l.pc = "reread" => index.head = Header /\ Listed(Without(index.rows, l.id)) = Full

\* Until an operation overlaps another or is cut off, one program at most is at work, and the
\* index is as it left it.
Alone ==
    ~disturbed =>
        /\ \A p, q \in Programs : ~At(p, "idle") /\ ~At(q, "idle") => p = q
        /\ ~Busy => Exact(index)
        /\ \A q \in Programs : Halfway(th[q])

\* One row less.
LEMMA ListedWithout ==
    ASSUME NEW rows, NEW i
    PROVE  Listed(Without(rows, i)) = Listed(rows) \ {i}
BY DEF Listed, Without

\* Undisturbed, the program at work is alone.
LEMMA AtWork ==
    ASSUME Alone, ~disturbed, NEW q \in Programs, ~At(q, "idle")
    PROVE  (\A p \in Programs \ {q} : th[p].pc = "idle") /\ Halfway(th[q])
BY DEF Alone, At

\* A step of the one program that is at work, to new locals l.
LEMMA AloneStep ==
    ASSUME th \in [Programs -> Local], NEW q \in Programs,
           \A p \in Programs \ {q} : th[p].pc = "idle",
           NEW l, th' = [th EXCEPT ![q] = l],
           l.pc = "idle" => Exact(index)', Halfway(th[q])'
    PROVE  Alone'
<1>1. th'[q] = l /\ \A p \in Programs \ {q} : th'[p] = th[p] /\ th'[p].pc = "idle"
  OBVIOUS
<1>2. \A p \in Programs \ {q} : Halfway(th[p])'
  BY <1>1 DEF Halfway
<1>3. ~Busy' => Exact(index)'
  BY <1>1 DEF Busy, At
<1>4. \A p, x \in Programs : th'[p].pc # "idle" /\ th'[x].pc # "idle" => p = x
  BY <1>1
<1> QED BY <1>2, <1>3, <1>4 DEF Alone, At

\* An operation that begins undisturbed finds the index as it should be.
LEMMA BeginsAlone ==
    ASSUME IInv, Alone, NEW q \in Programs, NEW l, Begin(q, l), ~disturbed'
    PROVE  /\ th \in [Programs -> Local] /\ ~disturbed /\ Exact(index)
           /\ (\A p \in Programs \ {q} : th[p].pc = "idle")
           /\ th' = [th EXCEPT ![q] = l] /\ th'[q] = l
<1>1. ~disturbed /\ ~Busy /\ th' = [th EXCEPT ![q] = l]
  BY DEF Begin
<1>2. th \in [Programs -> Local]
  BY DEF IInv
<1> QED BY <1>1, <1>2 DEF Alone, Busy, At

\* An operation that ends with index and files in step leaves the rubbish undisturbed.
LEMMA FinishAlone ==
    ASSUME IInv, Alone, NEW q \in Programs, ~At(q, "idle"), Finish(q), ~disturbed, Exact(index)'
    PROVE  Alone'
<1>1. th \in [Programs -> Local] /\ th' = [th EXCEPT ![q] = Idle]
  BY DEF IInv, Finish
<1>2. th'[q] = Idle
  BY <1>1
<1>3. Halfway(th[q])'
  BY <1>2, IdleType DEF Halfway
<1> QED BY <1>1, <1>3, AtWork, AloneStep

\* The operations that begin.
LEMMA BeginAlone ==
    ASSUME IInv, Alone, NEW q \in Programs, ~disturbed',
           \/ \E p \in Paths : Store(q, p)
           \/ \E r \in index.rows : Restore(q, r) \/ DestroyNamed(q, r)
           \/ EmptyAll(q) \/ ClearAll(q) \/ \E i \in Ids : DestroyItem(q, i)
    PROVE  Alone'
<1>0. th \in [Programs -> Local] /\ DiskType /\ DiskHolds
  BY DEF IInv
<1>1. ASSUME NEW p \in Paths, Store(q, p) PROVE Alone'
  <2> DEFINE l == [Idle EXCEPT !.pc = "store", !.id = nid + 1, !.path = p]
  <2>1. Begin(q, l) /\ l.pc = "store" /\ index' = index
        /\ payload' = [payload EXCEPT ![nid + 1] = None] /\ nid < MaxStores
    BY <1>1 DEF Store, Idle
  <2> HIDE DEF l
  <2>2. nid + 1 \in Ids /\ nid + 1 > nid
    BY <1>0, <2>1, Constants DEF DiskType, Ids
  <2>3. payload[nid + 1] = Absent /\ payload'[nid + 1] = None
        /\ \A i \in Ids \ {nid + 1} : payload'[i] = payload[i]
    BY <1>0, <2>1, <2>2 DEF DiskHolds, DiskType
  <2>4. Full' = Full
    <3>1. \A i \in Ids : payload'[i] \in Files <=> payload[i] \in Files
      BY <2>3, Constants
    <3> QED BY <3>1 DEF Full
  <2>5. Exact(index)'
    BY <2>1, <2>4, BeginsAlone DEF Exact
  <2>6. Halfway(th[q])'
    BY <2>1, <2>5, BeginsAlone DEF Halfway
  <2> QED BY <2>1, <2>5, <2>6, BeginsAlone, AloneStep
<1>2. ASSUME NEW r \in index.rows, Restore(q, r) PROVE Alone'
  <2> DEFINE l == [Idle EXCEPT !.pc = "move", !.lines = index, !.id = r.id, !.path = r.path]
  <2>1. Begin(q, l) /\ l.pc = "move" /\ l.lines = index /\ UNCHANGED <<index, payload>>
    BY <1>2 DEF Restore, Idle, disk
  <2> HIDE DEF l
  <2>2. Exact(index)' /\ th'[q] = l
    BY <2>1, BeginsAlone DEF Exact, Full
  <2>3. Halfway(th[q])'
    BY <2>1, <2>2 DEF Halfway
  <2> QED BY <2>1, <2>2, <2>3, BeginsAlone, AloneStep
<1>3. ASSUME NEW pc \in {"empty", "clear", "destroy"}, NEW lines \in {Empty, index},
             NEW todo, NEW id, BeginRemoval(q, pc, lines, todo, id),
             pc # "destroy" => Full \subseteq todo,
             pc = "clear" => \A i \in todo : payload[i] # Absent
      PROVE  Alone'
  <2> DEFINE l == [Idle EXCEPT !.pc = pc, !.lines = lines, !.todo = todo,
                               !.held = todo \cap Full, !.id = id]
  <2>1. /\ Begin(q, l) /\ l.pc = pc /\ l.lines = lines /\ l.todo = todo
        /\ UNCHANGED <<index, payload>>
    BY <1>3 DEF BeginRemoval, Idle, disk
  <2> HIDE DEF l
  <2>2. Exact(index) /\ th'[q] = l
    BY <2>1, BeginsAlone
  <2>3. Full' = Full /\ Exact(index)'
    BY <2>1, <2>2 DEF Exact, Full
  <2>4. Halfway(th[q])'
    BY <1>3, <2>1, <2>2, <2>3 DEF Halfway, Exact
  <2> QED BY <1>3, <2>1, <2>3, <2>4, BeginsAlone, AloneStep
<1>4. ASSUME EmptyAll(q) PROVE Alone'
  <2>1. Exact(index)
    BY <1>4, BeginsAlone DEF EmptyAll, BeginRemoval
  <2>2. Full \subseteq Listed(index.rows)
    BY <2>1 DEF Exact
  <2> QED BY <1>3, <1>4, <2>2 DEF EmptyAll
<1>5. ASSUME ClearAll(q) PROVE Alone'
  <2>1. Full \subseteq {i \in Ids : payload[i] # Absent}
    BY Constants DEF Full
  <2> QED BY <1>3, <1>5, <2>1 DEF ClearAll
<1>6. ASSUME NEW i \in Ids, DestroyItem(q, i) PROVE Alone'
  BY <1>3, <1>6 DEF DestroyItem
<1>7. ASSUME NEW r \in index.rows, DestroyNamed(q, r) PROVE Alone'
  BY <1>3, <1>7 DEF DestroyNamed
<1> QED BY <1>1, <1>2, <1>4, <1>5, <1>6, <1>7

\* A store undisturbed.
LEMMA StoreAlone ==
    ASSUME IInv, Alone, NEW q \in Programs, ~disturbed, StoreMove(q) \/ AppendRow(q)
    PROVE  Alone'
<1>0. th \in [Programs -> Local] /\ th[q] \in Local /\ DiskType /\ index \in Index
  BY DEF IInv, DiskType
<1>1. CASE StoreMove(q)
  <2> DEFINE i == th[q].id  p == th[q].path  l == [th[q] EXCEPT !.pc = "append"]
  <2>1. th[q].pc = "store" /\ ~At(q, "idle") /\ index' = index /\ i \in Ids /\ p \in Paths
    BY <1>1 DEF StoreMove, At, IInv, LocalOK
  <2>2. Exact(index)
    BY <2>1, AtWork DEF Halfway
  <2>3. CASE ~(tree[p] # None /\ payload[i] # Absent)
    <3>1. Finish(q) /\ payload' = payload
      BY <1>1, <2>3 DEF StoreMove
    <3>2. Exact(index)'
      BY <2>1, <2>2, <3>1 DEF Exact, Full
    <3> QED BY <2>1, <3>1, <3>2, FinishAlone
  <2>4. CASE tree[p] # None /\ payload[i] # Absent
    <3>1. payload' = [payload EXCEPT ![i] = tree[p]] /\ th' = [th EXCEPT ![q].pc = "append"]
      BY <1>1, <2>4 DEF StoreMove, Goto
    <3>2. tree[p] \in Files
      BY <1>0, <2>1, <2>4 DEF DiskType
    <3>3. payload'[i] = tree[p] /\ \A j \in Ids \ {i} : payload'[j] = payload[j]
      BY <1>0, <2>1, <3>1 DEF DiskType
    <3>4. th' = [th EXCEPT ![q] = l]
      BY <1>0, <3>1
    <3>5. l.pc = "append" /\ l.id = i
      BY <1>0 DEF Local
    <3> HIDE DEF l, i, p
    <3>6. Full' = Full \cup {i}
      <4>1. \A j \in Ids : payload'[j] \in Files <=> payload[j] \in Files \/ j = i
        BY <3>2, <3>3
      <4> QED BY <2>1, <4>1 DEF Full
    <3>7. th'[q] = l
      BY <1>0, <3>4
    <3>8. Halfway(th[q])'
      BY <2>1, <2>2, <3>5, <3>6, <3>7 DEF Halfway, Exact
    <3> QED BY <1>0, <2>1, <3>4, <3>5, <3>8, AtWork, AloneStep
  <2> QED BY <2>3, <2>4
<1>2. CASE AppendRow(q)
  <2> DEFINE r == [id |-> th[q].id, path |-> th[q].path]
  <2>1. th[q].pc = "append" /\ ~At(q, "idle") /\ payload' = payload /\ Finish(q)
    BY <1>2 DEF AppendRow, At
  <2>2. index.head = Header /\ Full = Listed(index.rows) \cup {th[q].id}
    BY <2>1, AtWork DEF Halfway
  <2>3. index' = [index EXCEPT !.rows = @ \cup {r}] /\ r.id = th[q].id
    BY <1>2, <2>2, Constants DEF AppendRow
  <2> HIDE DEF r
  <2>4. index'.head = Header /\ index'.rows = index.rows \cup {r}
    BY <1>0, <2>2, <2>3 DEF Index
  <2>5. Listed(index'.rows) = Listed(index.rows) \cup {r.id}
    BY <2>4 DEF Listed
  <2>6. Full' = Full
    BY <2>1 DEF Full
  <2>7. Exact(index)'
    BY <2>2, <2>3, <2>4, <2>5, <2>6 DEF Exact
  <2> QED BY <2>1, <2>7, FinishAlone
<1> QED BY <1>1, <1>2

\* One file less in the rubbish.
LEMMA FullWithout ==
    ASSUME NEW i \in Ids, payload'[i] \notin Files, \A j \in Ids \ {i} : payload'[j] = payload[j]
    PROVE  Full' = Full \ {i}
<1>1. \A j \in Ids : payload'[j] \in Files <=> payload[j] \in Files /\ j # i
  OBVIOUS
<1> QED BY <1>1 DEF Full

\* A move that is refused undisturbed, and a restore's.
LEMMA RestoreAlone ==
    ASSUME IInv, Alone, NEW q \in Programs, ~disturbed, RestoreMove(q) \/ MoveFails(q)
    PROVE  Alone'
<1>0. th \in [Programs -> Local] /\ th[q] \in Local /\ DiskType
  BY DEF IInv
<1>1. ASSUME Finish(q), UNCHANGED <<payload, index>>, th[q].pc \in {"store", "move"}
      PROVE  Alone'
  <2>1. ~At(q, "idle") /\ Exact(index)
    BY <1>1, AtWork DEF At, Halfway
  <2>2. Exact(index)'
    BY <1>1, <2>1 DEF Exact, Full
  <2> QED BY <1>1, <2>1, <2>2, FinishAlone
<1>2. CASE MoveFails(q)
  BY <1>1, <1>2 DEF MoveFails, At, disk
<1>3. CASE RestoreMove(q)
  <2> DEFINE i == th[q].id  l == [th[q] EXCEPT !.pc = "truncate"]
  <2>1. th[q].pc = "move" /\ ~At(q, "idle") /\ index' = index /\ i \in Ids
    BY <1>3 DEF RestoreMove, At, IInv, LocalOK
  <2>2. Exact(index) /\ th[q].lines = index
    BY <2>1, AtWork DEF Halfway
  <2>3. CASE payload[i] \notin Files
    BY <1>1, <1>3, <2>1, <2>3 DEF RestoreMove
  <2>4. CASE payload[i] \in Files
    <3>1. payload' = [payload EXCEPT ![i] = None] /\ th' = [th EXCEPT ![q].pc = "truncate"]
      BY <1>3, <2>4 DEF RestoreMove, Goto
    <3>2. payload'[i] = None /\ \A j \in Ids \ {i} : payload'[j] = payload[j]
      BY <1>0, <2>1, <3>1 DEF DiskType
    <3>3. th' = [th EXCEPT ![q] = l]
      BY <1>0, <3>1
    <3>4. l.pc = "truncate" /\ l.id = i /\ l.lines = index
      BY <1>0, <2>2 DEF Local
    <3> HIDE DEF l, i
    <3>5. Full' = Full \ {i}
      BY <2>1, <3>2, Constants, FullWithout
    <3>6. th'[q] = l
      BY <1>0, <3>3
    <3>7. Listed(Without(index.rows, i)) = Full'
      BY <2>2, <3>5, ListedWithout DEF Exact
    <3>8. Halfway(th[q])'
      BY <2>2, <3>4, <3>6, <3>7 DEF Halfway, Exact
    <3> QED BY <1>0, <2>1, <3>3, <3>4, <3>8, AtWork, AloneStep
  <2> QED BY <2>3, <2>4
<1> QED BY <1>2, <1>3

\* The index is opened and written undisturbed.
LEMMA WriteAlone ==
    ASSUME IInv, Alone, NEW q \in Programs, ~disturbed, Truncate(q) \/ Rewrite(q)
    PROVE  Alone'
<1>0. th \in [Programs -> Local] /\ th[q] \in Local /\ th[q].lines \in Index /\ ~At(q, "idle")
      /\ payload' = payload /\ th[q].pc \in {"truncate", "rewrite"}
  BY Fields DEF IInv, Truncate, Rewrite, At
<1>1. /\ th[q].lines.head = Header /\ Listed(Without(th[q].lines.rows, th[q].id)) = Full
      /\ th[q].pc = "rewrite" => index.rows = {}
  BY <1>0, AtWork DEF Halfway
<1>2. Full' = Full
  BY <1>0 DEF Full
<1>3. CASE Truncate(q)
  <2> DEFINE l == [th[q] EXCEPT !.pc = "rewrite"]
  <2>1. th' = [th EXCEPT ![q] = l] /\ index'.rows = {}
    BY <1>0, <1>3, IdleType DEF Truncate, Goto
  <2>2. l.pc = "rewrite" /\ l.id = th[q].id /\ l.lines = th[q].lines
    BY <1>0 DEF Local
  <2> HIDE DEF l
  <2>3. th'[q] = l
    BY <1>0, <2>1
  <2>4. Halfway(th[q])'
    BY <1>1, <1>2, <2>1, <2>2, <2>3 DEF Halfway
  <2> QED BY <1>0, <2>1, <2>2, <2>4, AtWork, AloneStep
<1>4. CASE Rewrite(q)
  <2>1. PICK left \in SUBSET index.rows :
            index' = [th[q].lines EXCEPT !.rows = Without(@, th[q].id) \cup left]
    BY <1>4 DEF Rewrite
  <2>2. left = {}
    BY <1>1, <1>4, <2>1 DEF Rewrite, At
  <2>3. index'.head = Header /\ index'.rows = Without(th[q].lines.rows, th[q].id)
    BY <1>0, <1>1, <2>1, <2>2 DEF Index
  <2>4. Exact(index)'
    BY <1>1, <1>2, <2>3 DEF Exact
  <2> QED BY <1>0, <1>4, <2>4, FinishAlone DEF Rewrite
<1> QED BY <1>3, <1>4

\* An emptying undisturbed.
LEMMA EmptyAlone ==
    ASSUME IInv, Alone, NEW q \in Programs, ~disturbed',
           (\E i \in Ids : EmptyOne(q, i) \/ ClearOne(q, i)) \/ EmptyDone(q) \/ ClearDone(q)
    PROVE  Alone'
<1>0. th \in [Programs -> Local] /\ th[q] \in Local /\ DiskType
  BY DEF IInv
<1>1. ASSUME NEW i \in Ids, EmptyOne(q, i) \/ ClearOne(q, i) PROVE Alone'
  <2> DEFINE l == [th[q] EXCEPT !.todo = @ \ {i}]
  <2>1. /\ th[q].pc \in {"empty", "clear"} /\ ~At(q, "idle") /\ ~disturbed /\ index' = index
        /\ i \in th[q].todo
    BY <1>1 DEF EmptyOne, ClearOne, RmtreeOrNot, Rmtree, At
  <2>2. /\ Full \subseteq th[q].todo
        /\ th[q].pc = "clear" => index.head = Header /\ \A j \in th[q].todo : payload[j] # Absent
    BY <2>1, AtWork DEF Halfway
  <2>3. th[q].todo \subseteq Ids
    BY <1>0, Fields
  <2>4. th' = [th EXCEPT ![q].todo = @ \ {i}] /\ Rmtree(q, i)
    BY <1>1, <2>1, <2>2 DEF EmptyOne, ClearOne, RmtreeOrNot, At
  <2>5. payload' = [payload EXCEPT ![i] = Absent]
    BY <2>4 DEF Rmtree
  <2>6. payload'[i] = Absent /\ \A j \in Ids \ {i} : payload'[j] = payload[j]
    BY <1>0, <2>5 DEF DiskType
  <2>7. Full' = Full \ {i}
    BY <2>6, Constants, FullWithout
  <2>8. th' = [th EXCEPT ![q] = l]
    BY <1>0, <2>4
  <2>9. l.pc = th[q].pc /\ l.todo = th[q].todo \ {i}
    BY <1>0 DEF Local
  <2> HIDE DEF l
  <2>10. th'[q] = l
    BY <1>0, <2>8
  <2>11. Halfway(th[q])'
    BY <2>1, <2>2, <2>3, <2>6, <2>7, <2>9, <2>10 DEF Halfway
  <2> QED BY <1>0, <2>1, <2>8, <2>9, <2>11, AtWork, AloneStep
<1>2. CASE EmptyDone(q)
  <2>1. /\ th[q].pc = "empty" /\ ~At(q, "idle") /\ ~disturbed /\ payload' = payload /\ Finish(q)
        /\ th[q].todo = {} /\ index' = Replaced({})
    BY <1>2 DEF EmptyDone, At
  <2>2. Full = {}
    BY <2>1, AtWork DEF Halfway
  <2>3. index'.head = Header /\ Listed(index'.rows) = {}
    BY <2>1 DEF Replaced, Listed
  <2>4. Exact(index)'
    BY <2>1, <2>2, <2>3 DEF Exact, Full
  <2> QED BY <2>1, <2>4, FinishAlone
<1>3. CASE ClearDone(q)
  <2> DEFINE l == [Idle EXCEPT !.pc = "truncate", !.lines.head = index.head]
  <2>1. /\ th[q].pc = "clear" /\ ~At(q, "idle") /\ ~disturbed /\ UNCHANGED <<payload, index>>
        /\ th[q].todo = {} /\ th' = [th EXCEPT ![q] = l]
    BY <1>3 DEF ClearDone, At, disk
  <2>2. Full = {} /\ index.head = Header
    BY <2>1, AtWork DEF Halfway
  <2>3. l.pc = "truncate" /\ l.lines.head = index.head /\ l.lines.rows = {}
    BY DEF Idle, Empty
  <2> HIDE DEF l
  <2>4. th'[q] = l
    BY <1>0, <2>1
  <2>5. Listed(Without(l.lines.rows, l.id)) = {}
    BY <2>3 DEF Listed, Without
  <2>6. Full' = {}
    BY <2>1, <2>2 DEF Full
  <2>7. Halfway(th[q])'
    BY <2>2, <2>3, <2>4, <2>5, <2>6 DEF Halfway
  <2> QED BY <1>0, <2>1, <2>3, <2>7, AtWork, AloneStep
<1> QED BY <1>1, <1>2, <1>3

\* A destroying undisturbed.
LEMMA DestroyAlone ==
    ASSUME IInv, Alone, NEW q \in Programs, ~disturbed', DestroyOne(q) \/ Reread(q)
    PROVE  Alone'
<1>0. th \in [Programs -> Local] /\ th[q] \in Local /\ DiskType
  BY DEF IInv
<1>1. CASE DestroyOne(q)
  <2> DEFINE i == th[q].id
             s == IF th[q].lines = Empty THEN "reread" ELSE "truncate"
             l == [th[q] EXCEPT !.todo = {}, !.held = {}, !.pc = s]
  <2>1. /\ th[q].pc = "destroy" /\ ~At(q, "idle") /\ Rmtree(q, i) /\ ~disturbed /\ index' = index
        /\ th' = [th EXCEPT ![q].todo = {}, ![q].held = {}, ![q].pc = s] /\ i \in Ids
    BY <1>1 DEF DestroyOne, RmtreeOrNot, Rmtree, At, IInv, LocalOK
  <2>2. Exact(index) /\ th[q].lines \in {Empty, index}
    BY <2>1, AtWork DEF Halfway
  <2>3. payload' = [payload EXCEPT ![i] = Absent]
    BY <2>1 DEF Rmtree
  <2>4. payload'[i] = Absent /\ \A j \in Ids \ {i} : payload'[j] = payload[j]
    BY <1>0, <2>1, <2>3 DEF DiskType
  <2>5. s = "reread" \/ (s = "truncate" /\ th[q].lines = index)
    BY <2>2
  <2> HIDE DEF s
  <2>6. th' = [th EXCEPT ![q] = l]
    BY <1>0, <2>1
  <2>7. l.pc = s /\ l.lines = th[q].lines /\ l.id = i
    BY <1>0 DEF Local
  <2> HIDE DEF l, i
  <2>8. Full' = Full \ {i}
    BY <2>1, <2>4, Constants, FullWithout
  <2>9. Listed(Without(index.rows, i)) = Full'
    BY <2>2, <2>8, ListedWithout DEF Exact
  <2>10. th'[q] = l
    BY <1>0, <2>6
  <2>11. Halfway(th[q])'
    BY <2>1, <2>2, <2>5, <2>7, <2>9, <2>10 DEF Halfway, Exact
  <2> QED BY <1>0, <2>1, <2>5, <2>6, <2>7, <2>11, AtWork, AloneStep
<1>2. CASE Reread(q)
  <2>1. th[q].pc = "reread" /\ ~At(q, "idle") /\ ~disturbed /\ UNCHANGED <<payload, index>>
    BY <1>2 DEF Reread, At, disk
  <2>2. index.head = Header /\ Listed(Without(index.rows, th[q].id)) = Full
    BY <2>1, AtWork DEF Halfway
  <2>3. PICK x \in {index, Replaced(index.rows)} :
            th' = [th EXCEPT ![q].pc = "truncate", ![q].lines = x]
    BY <1>2, <2>2, Constants DEF Reread
  <2>4. x.head = Header /\ x.rows = index.rows
    BY <2>2, <2>3 DEF Replaced
  <2> DEFINE l == [th[q] EXCEPT !.pc = "truncate", !.lines = x]
  <2>5. th' = [th EXCEPT ![q] = l]
    BY <1>0, <2>3
  <2>6. l.pc = "truncate" /\ l.lines = x /\ l.id = th[q].id
    BY <1>0 DEF Local
  <2> HIDE DEF l
  <2>7. th'[q] = l /\ Full' = Full
    BY <1>0, <2>1, <2>5 DEF Full
  <2>8. Halfway(th[q])'
    BY <2>2, <2>4, <2>6, <2>7 DEF Halfway
  <2> QED BY <1>0, <2>1, <2>5, <2>6, <2>8, AtWork, AloneStep
<1> QED BY <1>1, <1>2

\* The invariant of undisturbed operations is inductive.
LEMMA AloneNext == IInv /\ Alone /\ [Next]_vars => Alone'
<1> SUFFICES ASSUME IInv, Alone, [Next]_vars, ~disturbed' PROVE Alone'
  BY DEF Alone
<1>1. CASE UNCHANGED <<index, payload, th, disturbed>>
  BY <1>1 DEF Alone, At, Busy, Exact, Halfway, Full
<1>2. UNCHANGED vars \/ (\E f \in Files, p \in Paths : Create(f, p)) =>
          UNCHANGED <<index, payload, th, disturbed>>
  BY DEF vars, disk, Create
<1>3. ASSUME NEW q \in Programs,
             \/ StoreMove(q) \/ AppendRow(q) \/ RestoreMove(q) \/ MoveFails(q)
             \/ Truncate(q) \/ Rewrite(q)
      PROVE  Alone'
  <2>1. ~disturbed
    BY <1>3 DEF StoreMove, AppendRow, RestoreMove, MoveFails, Truncate, Rewrite
  <2> QED BY <1>3, <2>1, StoreAlone, RestoreAlone, WriteAlone
<1>4. ASSUME NEW q \in Programs,
             \/ \E p \in Paths : Store(q, p)
             \/ \E r \in index.rows : Restore(q, r) \/ DestroyNamed(q, r)
             \/ EmptyAll(q) \/ ClearAll(q) \/ \E i \in Ids : DestroyItem(q, i)
      PROVE  Alone'
  BY <1>4, BeginAlone
<1>5. ASSUME NEW q \in Programs,
             (\E i \in Ids : EmptyOne(q, i) \/ ClearOne(q, i)) \/ EmptyDone(q) \/ ClearDone(q)
      PROVE  Alone'
  BY <1>5, EmptyAlone
<1>6. ASSUME NEW q \in Programs, DestroyOne(q) \/ Reread(q) PROVE Alone'
  BY <1>6, DestroyAlone
<1>7. ASSUME NEW q \in Programs PROVE ~Stop(q)
  BY DEF Stop
<1> QED BY <1>1, <1>2, <1>3, <1>4, <1>5, <1>6, <1>7 DEF Next

\* When no operation overlapped another and none was cut off, the index lists exactly the files in
\* the rubbish, with the paths they came from: storing, restoring, both emptyings and every
\* destroying leave it so.
THEOREM ListsWhatIsStored == Spec => []ListedIsStored
<1>1. Init => Alone
  <2> SUFFICES ASSUME Init PROVE Alone
    OBVIOUS
  <2>1. \A q \in Programs : th[q] = Idle
    BY DEF Init
  <2>2. \A q \in Programs : th[q].pc = "idle"
    BY <2>1, IdleType
  <2>3. \A i \in Ids : payload[i] \notin Files
    BY Constants DEF Init
  <2>4. index.head = Header /\ index.rows = {}
    BY DEF Init
  <2>5. Exact(index)
    BY <2>3, <2>4 DEF Exact, Full, Listed
  <2> QED BY <2>2, <2>5 DEF Alone, At, Halfway
<1>2. IInv /\ Alone => ListedIsStored
  <2> SUFFICES ASSUME IInv, Exact(index)
               PROVE  /\ index.head = Header /\ Listed(index.rows) = Full
                      /\ \A r \in index.rows : home[payload[r.id]] = r.path
    BY DEF Alone, ListedIsStored
  <2>1. \A r \in index.rows : r.id \in Full /\ Fits(r.id, r.path)
    BY DEF Exact, Listed, IInv, DiskHolds
  <2>2. \A r \in index.rows : home[payload[r.id]] = r.path
    BY <2>1 DEF Full, Fits
  <2> QED BY <2>2 DEF Exact
<1> QED BY <1>1, <1>2, InvInit, InvNext, AloneNext, PTL DEF Spec
=============================================================================
