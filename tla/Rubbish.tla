------------------------------- MODULE Rubbish -------------------------------
(* The rubbish of the file programs: deleted files in /.rubbish/<id>/content  *)
(* and the index that lists them (source/build software/rubbish/rubbish.py,   *)
(* array/array.py, brick/brick.py).  Array, brick and expanse are programs of *)
(* their own that store, restore, empty and destroy without a lock, and may   *)
(* be ended at any time.                                                      *)
(*                                                                            *)
(* One action per call that changes a file.  A row of the index is its id and *)
(* the path the file came from; the first line of the index is the header,    *)
(* and whatever is there is skipped.  The order of the rows is left open.  A  *)
(* file is one version of what a path held; tiers, which a move copies or     *)
(* moves into, are left out.  The rubbish is on the file system of the paths, *)
(* so a move is a rename; an id is never given twice; and a row that another  *)
(* writer's text cut is skipped.                                              *)
EXTENDS Integers, TLC

CONSTANTS Files, Paths, Programs, None, Absent, Header,
          MaxStores,  \* bound: ids given out
          MaxStops    \* bound: operations that are cut off

Ids == 1 .. MaxStores
Row == [id : Ids, path : Paths]
Index == [head : Row \cup {Header, None}, rows : SUBSET Row]

ASSUME RubbishAssumption == MaxStores \in Nat /\ MaxStops \in Nat
ASSUME NoneAssumption ==
    /\ None \notin Files \cup Paths \cup Row /\ Absent \notin Files \cup {None}
    /\ Header \notin Row \cup {None}

VARIABLES
    tree,      \* path -> the file there
    payload,   \* id -> the file in its directory; Absent without the directory
    index,     \* index.txt: its first line, if it has one, and the rows after it
    th,        \* program -> its program point and locals
    nid, stops,
    home,      \* history: file -> the path it was made at
    destroyed, \* history: files removed by an operation that had found them in the rubbish
    taken,     \* history: programs whose restore had its path taken since it looked
    late,      \* history: ids whose file came after Array had listed their directory
    raced,     \* history: files lost in one of these two races
    disturbed  \* history: two programs were at it at once, or an operation was cut off

disk == <<tree, payload, index>>
races == <<taken, late, raced>>
vars == <<disk, th, nid, stops, home, destroyed, races, disturbed>>

PCs == {"idle", "store", "append", "move", "truncate", "rewrite", "empty", "clear",
        "destroy", "reread"}
Local == [pc : PCs,
          lines : Index,       \* the index, as read or to be written
          todo : SUBSET Ids,   \* directories still to remove
          held : SUBSET Ids,   \* history: those that had a file when the operation began
          id : Ids \cup {0}, path : Paths \cup {None}]
Empty == [head |-> None, rows |-> {}]
Idle == [pc |-> "idle", lines |-> Empty, todo |-> {}, held |-> {}, id |-> 0, path |-> None]

\* The programs keep these types.
TypeOK ==
    /\ tree \in [Paths -> Files \cup {None}]
    /\ payload \in [Ids -> Files \cup {None, Absent}]
    /\ index \in Index
    /\ th \in [Programs -> Local]
    /\ nid \in 0 .. MaxStores /\ stops \in 0 .. MaxStops
    /\ home \in [Files -> Paths \cup {None}]
    /\ destroyed \subseteq Files /\ raced \subseteq Files
    /\ taken \subseteq Programs /\ late \subseteq Ids /\ disturbed \in BOOLEAN

Init ==
    /\ tree = [p \in Paths |-> None] /\ payload = [i \in Ids |-> Absent]
    /\ index = [head |-> Header, rows |-> {}]
    /\ th = [q \in Programs |-> Idle]
    /\ nid = 0 /\ stops = 0
    /\ home = [f \in Files |-> None] /\ destroyed = {} /\ raced = {}
    /\ taken = {} /\ late = {} /\ disturbed = FALSE

At(q, pc) == th[q].pc = pc
Goto(q, pc) == th' = [th EXCEPT ![q].pc = pc]
Finish(q) == th' = [th EXCEPT ![q] = Idle]
Busy == \E q \in Programs : ~At(q, "idle")
Begin(q, l) ==
    /\ At(q, "idle")
    /\ th' = [th EXCEPT ![q] = l]
    /\ disturbed' = (disturbed \/ Busy)

Full == {i \in Ids : payload[i] \in Files}
Listed(rows) == {r.id : r \in rows}
Without(rows, id) == {r \in rows : r.id # id}

\* writeindex: a file with the header and the rows.
Replaced(rows) == [head |-> Header, rows |-> rows]

\* The restores that looked at path p and have not moved yet.
Restoring(p) == {q \in Programs : At(q, "move") /\ th[q].path = p}

\* A file is made at a free path, by any program.
Create(f, p) ==
    /\ home[f] = None /\ tree[p] = None
    /\ home' = [home EXCEPT ![f] = p]
    /\ tree' = [tree EXCEPT ![p] = f]
    /\ taken' = taken \cup Restoring(p)
    /\ UNCHANGED <<payload, index, th, nid, stops, destroyed, late, raced, disturbed>>

(* --------------------------------- Store --------------------------------- *)

\* storeone: a directory of its own is made for what is at the path ...
Store(q, p) ==
    /\ tree[p] # None /\ nid < MaxStores
    /\ Begin(q, [Idle EXCEPT !.pc = "store", !.id = nid + 1, !.path = p])
    /\ nid' = nid + 1
    /\ payload' = [payload EXCEPT ![nid + 1] = None]
    /\ UNCHANGED <<tree, index, stops, home, destroyed, races>>

\* ... the file is moved into it, if file and directory are still there ...
StoreMove(q) ==
    /\ At(q, "store")
    /\ LET i == th[q].id
           p == th[q].path IN
       IF tree[p] # None /\ payload[i] # Absent
         THEN /\ payload' = [payload EXCEPT ![i] = tree[p]]
              /\ tree' = [tree EXCEPT ![p] = None]
              /\ late' = IF \E x \in Programs : At(x, "clear") /\ i \in th[x].todo
                           THEN late \cup {i} ELSE late
              /\ Goto(q, "append")
         ELSE UNCHANGED <<tree, payload, late>> /\ Finish(q)
    /\ UNCHANGED <<index, nid, stops, home, destroyed, taken, raced, disturbed>>

\* ... and appendindex adds its row, which in an empty index is the first line.
AppendRow(q) ==
    /\ At(q, "append")
    /\ LET r == [id |-> th[q].id, path |-> th[q].path] IN
       index' = IF index.head = None THEN [index EXCEPT !.head = r]
                ELSE [index EXCEPT !.rows = @ \cup {r}]
    /\ Finish(q)
    /\ UNCHANGED <<tree, payload, nid, stops, home, destroyed, races, disturbed>>

(* -------------------------------- Restore -------------------------------- *)

\* Mutant: the path is not looked at.
RestoreUnchecked(q, r) ==
    /\ Begin(q, [Idle EXCEPT !.pc = "move", !.lines = index, !.id = r.id, !.path = r.path])
    /\ taken' = taken \ {q}
    /\ UNCHANGED <<disk, nid, stops, home, destroyed, late, raced>>

\* restorefromrubbish, restorefromrubbishrid: a row of the index whose path is free ...
Restore(q, r) ==
    /\ tree[r.path] = None
    /\ Begin(q, [Idle EXCEPT !.pc = "move", !.lines = index, !.id = r.id, !.path = r.path])
    /\ taken' = taken \ {q}
    /\ UNCHANGED <<disk, nid, stops, home, destroyed, late, raced>>

\* Mutant: a file that is no longer there is taken for one.
RestoreMoveMissing(q) ==
    /\ At(q, "move")
    /\ LET i == th[q].id
           p == th[q].path IN
       /\ tree' = [tree EXCEPT ![p] = payload[i]]
       /\ payload' = [payload EXCEPT ![i] = None]
       /\ raced' = raced \cup {f \in Files : tree[p] = f /\ q \in taken}
       /\ taken' = taken \cup Restoring(p)
       /\ Goto(q, "truncate")
    /\ UNCHANGED <<index, nid, stops, home, destroyed, late, disturbed>>

\* ... whose file is moved back over whatever is there by now, if it is still in the
\* rubbish ...
RestoreMove(q) ==
    /\ At(q, "move")
    /\ LET i == th[q].id
           p == th[q].path IN
       IF payload[i] \in Files
         THEN /\ tree' = [tree EXCEPT ![p] = payload[i]]
              /\ payload' = [payload EXCEPT ![i] = None]
              /\ raced' = raced \cup {f \in Files : tree[p] = f /\ q \in taken}
              /\ taken' = taken \cup Restoring(p)
              /\ Goto(q, "truncate")
         ELSE UNCHANGED <<tree, payload, raced, taken>> /\ Finish(q)
    /\ UNCHANGED <<index, nid, stops, home, destroyed, late, disturbed>>

\* A move into the rubbish, or out of it, is refused.
MoveFails(q) ==
    /\ At(q, "store") \/ At(q, "move")
    /\ Finish(q)
    /\ UNCHANGED <<disk, nid, stops, home, destroyed, races, disturbed>>

\* ... and the index is opened for writing, which empties it ...
Truncate(q) ==
    /\ At(q, "truncate")
    /\ index' = Empty
    /\ Goto(q, "rewrite")
    /\ UNCHANGED <<tree, payload, nid, stops, home, destroyed, races, disturbed>>

\* Mutant: the row is written back too.
RewriteRows(q) ==
    /\ At(q, "rewrite")
    /\ index' = th[q].lines
    /\ Finish(q)
    /\ UNCHANGED <<tree, payload, nid, stops, home, destroyed, races, disturbed>>

\* ... and written, as it was read, without the row, over what others wrote since, of which
\* rows beyond its end stay.
Rewrite(q) ==
    /\ At(q, "rewrite")
    /\ \E left \in SUBSET index.rows :
          index' = [th[q].lines EXCEPT !.rows = Without(@, th[q].id) \cup left]
    /\ Finish(q)
    /\ UNCHANGED <<tree, payload, nid, stops, home, destroyed, races, disturbed>>

(* ---------------------------- Empty and destroy ---------------------------- *)

\* An operation that is going to remove the directories todo.
BeginRemoval(q, pc, lines, todo, id) ==
    /\ Begin(q, [Idle EXCEPT !.pc = pc, !.lines = lines, !.todo = todo,
                             !.held = todo \cap Full, !.id = id])
    /\ UNCHANGED <<disk, nid, stops, home, destroyed, races>>

\* rmtree of a directory.
Rmtree(q, i) ==
    /\ payload' = [payload EXCEPT ![i] = Absent]
    /\ destroyed' = destroyed \cup {f \in Files : payload[i] = f /\ i \in th[q].held}
    /\ raced' = raced \cup {f \in Files : payload[i] = f /\ At(q, "clear") /\ i \in late}
    /\ UNCHANGED disturbed

\* rmtree with ignore_errors, of which the content may be left.
RmtreeOrNot(q, i) ==
    \/ Rmtree(q, i)
    \/ UNCHANGED <<payload, destroyed, raced>> /\ disturbed' = TRUE

\* emptyrubbish, as brick calls it: the rows are read, their directories removed one by
\* one ...
EmptyAll(q) == BeginRemoval(q, "empty", Empty, Listed(index.rows), 0)

EmptyOne(q, i) ==
    /\ At(q, "empty") /\ i \in th[q].todo
    /\ RmtreeOrNot(q, i)
    /\ th' = [th EXCEPT ![q].todo = @ \ {i}]
    /\ UNCHANGED <<tree, index, nid, stops, home, taken, late>>

\* ... and the index is replaced by an empty one.
EmptyDone(q) ==
    /\ At(q, "empty") /\ th[q].todo = {}
    /\ index' = Replaced({})
    /\ Finish(q)
    /\ UNCHANGED <<tree, payload, nid, stops, home, destroyed, races, disturbed>>

\* Array's emptyrubbish: the directories are listed, those without a row too, and removed
\* one by one, of which one that is gone ends the operation ...
ClearAll(q) == BeginRemoval(q, "clear", Empty, {i \in Ids : payload[i] # Absent}, 0)

ClearOne(q, i) ==
    /\ At(q, "clear") /\ i \in th[q].todo
    /\ IF payload[i] # Absent
         THEN /\ Rmtree(q, i)
              /\ th' = [th EXCEPT ![q].todo = @ \ {i}]
         ELSE UNCHANGED <<payload, destroyed, raced, disturbed>> /\ Finish(q)
    /\ UNCHANGED <<tree, index, nid, stops, home, taken, late>>

\* ... then the first line of the index is read, to be written alone.
ClearDone(q) ==
    /\ At(q, "clear") /\ th[q].todo = {}
    /\ th' = [th EXCEPT ![q] = [Idle EXCEPT !.pc = "truncate", !.lines.head = index.head]]
    /\ UNCHANGED <<disk, nid, stops, home, destroyed, races, disturbed>>

\* brick's destroy of a name: the rows are read ...
DestroyNamed(q, r) == BeginRemoval(q, "destroy", index, {r.id}, r.id)

\* Array's destroyitem and destroy job, and brick's destroy within an item: an id that is
\* listed, or whose file is there ...
DestroyItem(q, i) ==
    /\ i \in Listed(index.rows) \cup Full
    /\ BeginRemoval(q, "destroy", Empty, {i}, i)

\* ... the directory is removed, and the index written without the row, from what was read
\* before or from what it is now.
DestroyOne(q) ==
    /\ At(q, "destroy")
    /\ RmtreeOrNot(q, th[q].id)
    /\ th' = [th EXCEPT ![q].todo = {}, ![q].held = {},
                        ![q].pc = IF th[q].lines = Empty THEN "reread" ELSE "truncate"]
    /\ UNCHANGED <<tree, index, nid, stops, home, taken, late>>

\* The first line is kept, or the header written in its place; an empty index is left alone
\* by Array.
Reread(q) ==
    /\ At(q, "reread")
    /\ \/ \E l \in {index, Replaced(index.rows)} :
             /\ l.head # None
             /\ th' = [th EXCEPT ![q].pc = "truncate", ![q].lines = l]
       \/ index.head = None /\ Finish(q)
    /\ UNCHANGED <<disk, nid, stops, home, destroyed, races, disturbed>>

(* ------------------------------------------------------------------------- *)

\* A call fails and the operation is given up there, or its program is ended.
Stop(q) ==
    /\ ~At(q, "idle") /\ stops < MaxStops /\ stops' = stops + 1
    /\ Finish(q)
    /\ disturbed' = TRUE
    /\ UNCHANGED <<disk, nid, home, destroyed, races>>

Next ==
    \/ \E f \in Files, p \in Paths : Create(f, p)
    \/ \E q \in Programs :
          \/ \E p \in Paths : Store(q, p)
          \/ StoreMove(q) \/ AppendRow(q)
          \/ \E r \in index.rows : Restore(q, r) \/ DestroyNamed(q, r)
          \/ RestoreMove(q) \/ MoveFails(q) \/ Truncate(q) \/ Rewrite(q)
          \/ EmptyAll(q) \/ EmptyDone(q) \/ ClearAll(q) \/ ClearDone(q)
          \/ \E i \in Ids : EmptyOne(q, i) \/ ClearOne(q, i) \/ DestroyItem(q, i)
          \/ DestroyOne(q) \/ Reread(q)
          \/ Stop(q)

Spec == Init /\ [][Next]_vars

(* ------------------------------- Properties ------------------------------- *)

\* Whatever the programs do at once and wherever they are cut off, a file is at the path it
\* was made at or in the rubbish, and in one place, until an emptying or a destroying
\* that found it in the rubbish removes it.  Two races excepted: its path was taken after a
\* restore had looked at it and before it moved, or Array listed its directory before the
\* file was moved there.
NothingIsLost ==
    \A f \in {g \in Files : home[g] # None} :
        /\ tree[home[f]] = f \/ f \in destroyed \cup raced \/ \E i \in Ids : payload[i] = f
        /\ \A p \in Paths : tree[p] = f => p = home[f] /\ \A i \in Ids : payload[i] # f
        /\ \A i, j \in Ids : payload[i] = f /\ payload[j] = f => i = j

\* When every operation ran to its end and none overlapped another, the index lists the
\* files in the rubbish, all of them and nothing else, each with the path it came from.
ListedIsStored ==
    ~Busy /\ ~disturbed =>
        /\ index.head = Header
        /\ Listed(index.rows) = Full
        /\ \A r \in index.rows : home[payload[r.id]] = r.path
=============================================================================
