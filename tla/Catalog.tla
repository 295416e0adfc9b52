------------------------------- MODULE Catalog -------------------------------
(***************************************************************************)
(* Categories, of listings and of parts: the rows, and the two copies of   *)
(* them that Redis keeps for an hour, the tree and the flat list.  A copy  *)
(* is filled without a lock and deleted after every change, one key after  *)
(* the other.  Categories of services and of the forum have the same code  *)
(* with one key and without parents; there a thread changes threads_count, *)
(* which is Count here.  The condition of the tree (parentId: undefined)   *)
(* selects every row, so that both copies hold the same rows.              *)
(***************************************************************************)
EXTENDS Integers, Sequences

CONSTANTS
  Categories,       \* rows, numbered as they are made
  Slugs,
  Managers,         \* requests that may be open at a time
  MaxChanges,       \* bound on requests that change a row
  CatalogFaults     \* bound on failures

VARIABLES
  slug,             \* of each row, "none" when there is no row
  parent,           \* of each row, 0 when it has none
  place,            \* sort_order, or threads_count
  copy,             \* what each key holds, if anything
  task,             \* where each request stands, and what it has read
  changes, catalogFaults,
  late,             \* history: keys stored late, or not deleted because of a failure
  lifted, slipped   \* history: rows whose parent was deleted; rows put under a parent being deleted

catalogVars == <<slug, parent, place, copy, task, changes, catalogFaults, late, lifted, slipped>>

Keys == {"tree", "flat"}
Rows == <<slug, parent, place>>
Live == {i \in Categories : slug[i] # "none"}
Fresh == {i \in Categories \ Live : \A j \in Categories \ Live : i <= j}
Taken(s) == \E i \in Live : slug[i] = s
Lists == {<<i, j>> : i, j \in Live} \ {<<i, i>> : i \in Live}

Idle == [at |-> "idle", row |-> 0, slug |-> "none", parent |-> 0, todo |-> <<>>, key |-> "none", seen |-> <<>>]
GoTo(c, to) == task' = [task EXCEPT ![c] = to]
Start(c) == task[c] = Idle /\ changes < MaxChanges /\ changes' = changes + 1
Changed(c) == GoTo(c, [Idle EXCEPT !.at = "invalidateTree"])

\* The keys a request has still to delete.
Owes(c) == IF task[c].at \in {"reorder", "invalidateTree"} THEN Keys
           ELSE IF task[c].at = "invalidateFlat" THEN {"flat"} ELSE {}

Init ==
  /\ slug = [i \in Categories |-> "none"]
  /\ parent = [i \in Categories |-> 0]
  /\ place = [i \in Categories |-> 0]
  /\ copy = [k \in Keys |-> {}]
  /\ task = [c \in Managers |-> Idle]
  /\ changes = 0 /\ catalogFaults = 0
  /\ late = {} /\ lifted = {} /\ slipped = {}

-----------------------------------------------------------------------------
\* create: the slug is free, ...
FindSlug(c) ==
  /\ Start(c)
  /\ \E s \in Slugs, p \in Live \union {0} :
       ~Taken(s) /\ GoTo(c, [Idle EXCEPT !.at = "insert", !.slug = s, !.parent = p])
  /\ UNCHANGED <<slug, parent, place, copy, catalogFaults, late, lifted, slipped>>

BeingDeleted(p) == \E d \in Managers : task[d].at = "delete" /\ task[d].row = p

\* ... and the row is inserted, unless the unique index or the foreign key refuses it.
Insert(c) ==
  LET w == task[c] IN
  /\ w.at = "insert"
  /\ IF Taken(w.slug) \/ w.parent \notin Live \union {0} \/ Fresh = {}
     THEN GoTo(c, Idle) /\ UNCHANGED <<slug, parent, place, lifted, slipped>>
     ELSE \E i \in Fresh :
            /\ slug' = [slug EXCEPT ![i] = w.slug]
            /\ parent' = [parent EXCEPT ![i] = w.parent]
            /\ place' = [place EXCEPT ![i] = 0]
            /\ lifted' = lifted \ {i}
            /\ slipped' = IF BeingDeleted(w.parent) THEN slipped \union {i} ELSE slipped \ {i}
            /\ Changed(c)
  /\ UNCHANGED <<copy, changes, catalogFaults, late>>

\* update: a new slug is free; a parent is not looked at.
FindCategory(c) ==
  /\ Start(c)
  /\ \E i \in Live, s \in Slugs, p \in Live \union {0} :
       /\ s = slug[i] \/ ~Taken(s)
       /\ GoTo(c, [Idle EXCEPT !.at = "update", !.row = i, !.slug = s, !.parent = p])
  /\ UNCHANGED <<slug, parent, place, copy, catalogFaults, late, lifted, slipped>>

Update(c) ==
  LET w == task[c] IN
  /\ w.at = "update"
  /\ IF w.row \notin Live THEN Changed(c) /\ UNCHANGED <<slug, parent, slipped>>
     ELSE IF (slug[w.row] # w.slug /\ Taken(w.slug)) \/ w.parent \notin Live \union {0}
     THEN GoTo(c, Idle) /\ UNCHANGED <<slug, parent, slipped>>
     ELSE /\ slug' = [slug EXCEPT ![w.row] = w.slug]
          /\ parent' = [parent EXCEPT ![w.row] = w.parent]
          /\ slipped' = IF BeingDeleted(w.parent) THEN slipped \union {w.row} ELSE slipped
          /\ Changed(c)
  /\ UNCHANGED <<place, copy, changes, catalogFaults, late, lifted>>

Children(i) == {j \in Live : parent[j] = i}

\* delete: a row without children, ...
FindChildren(c) ==
  /\ Start(c)
  /\ \E i \in Live : Children(i) = {} /\ GoTo(c, [Idle EXCEPT !.at = "delete", !.row = i])
  /\ UNCHANGED <<slug, parent, place, copy, catalogFaults, late, lifted, slipped>>

\* ... and whatever was put under it meanwhile loses its parent (ON DELETE SET NULL).
Delete(c) ==
  LET i == task[c].row IN
  /\ task[c].at = "delete"
  /\ slug' = [slug EXCEPT ![i] = "none"]
  /\ parent' = [j \in Categories |-> IF j = i \/ parent[j] = i THEN 0 ELSE parent[j]]
  /\ place' = [place EXCEPT ![i] = 0]
  /\ lifted' = lifted \union (Children(i) \ {i})
  /\ Changed(c)
  /\ UNCHANGED <<copy, changes, catalogFaults, late, slipped>>

\* reorder: one update for each row of the list.
StartReorder(c) ==
  /\ Start(c)
  /\ \E l \in Lists : GoTo(c, [Idle EXCEPT !.at = "reorder", !.todo = l])
  /\ UNCHANGED <<slug, parent, place, copy, catalogFaults, late, lifted, slipped>>

Reorder(c) ==
  LET l == task[c].todo IN
  /\ task[c].at = "reorder"
  /\ place' = IF Head(l) \in Live THEN [place EXCEPT ![Head(l)] = 2 - Len(l)] ELSE place
  /\ IF Len(l) = 1 THEN Changed(c) ELSE GoTo(c, [task[c] EXCEPT !.todo = Tail(l)])
  /\ UNCHANGED <<slug, parent, copy, changes, catalogFaults, late, lifted, slipped>>

\* incrementThreadsCount and decrementThreadsCount.
Count(c) ==
  /\ Start(c)
  /\ \E i \in Live : place' = [place EXCEPT ![i] = 1 - @]
  /\ Changed(c)
  /\ UNCHANGED <<slug, parent, copy, catalogFaults, late, lifted, slipped>>

-----------------------------------------------------------------------------
\* invalidateCache: one key, ...
InvalidateTree(c) ==
  /\ task[c].at = "invalidateTree"
  /\ copy' = [copy EXCEPT !["tree"] = {}]
  /\ late' = late \ {"tree"}
  /\ GoTo(c, [Idle EXCEPT !.at = "invalidateFlat"])
  /\ UNCHANGED <<slug, parent, place, changes, catalogFaults, lifted, slipped>>

\* Mutant: the list is forgotten.
InvalidateFlat_Skip(c) ==
  /\ task[c].at = "invalidateFlat"
  /\ GoTo(c, Idle)
  /\ UNCHANGED <<slug, parent, place, copy, changes, catalogFaults, late, lifted, slipped>>

\* ... then the other.
InvalidateFlat(c) ==
  /\ task[c].at = "invalidateFlat"
  /\ copy' = [copy EXCEPT !["flat"] = {}]
  /\ late' = late \ {"flat"}
  /\ GoTo(c, Idle)
  /\ UNCHANGED <<slug, parent, place, changes, catalogFaults, lifted, slipped>>

\* findAll and findAllFlat: without a copy, ...
LookUp(c) ==
  /\ task[c] = Idle
  /\ \E k \in Keys : copy[k] = {} /\ GoTo(c, [Idle EXCEPT !.at = "find", !.key = k])
  /\ UNCHANGED <<slug, parent, place, copy, changes, catalogFaults, late, lifted, slipped>>

\* ... the rows are read, ...
Find(c) ==
  /\ task[c].at = "find"
  /\ GoTo(c, [task[c] EXCEPT !.at = "store", !.seen = Rows])
  /\ UNCHANGED <<slug, parent, place, copy, changes, catalogFaults, late, lifted, slipped>>

\* ... and stored, whether or not they have changed or the key was deleted since.
Store(c) ==
  LET w == task[c] IN
  /\ w.at = "store"
  /\ copy' = [copy EXCEPT ![w.key] = {w.seen}]
  /\ late' = IF w.seen = Rows THEN late \ {w.key} ELSE late \union {w.key}
  /\ GoTo(c, Idle)
  /\ UNCHANGED <<slug, parent, place, changes, catalogFaults, lifted, slipped>>

\* The hour is over.
Expire(k) ==
  /\ copy[k] # {}
  /\ copy' = [copy EXCEPT ![k] = {}]
  /\ late' = late \ {k}
  /\ UNCHANGED <<slug, parent, place, task, changes, catalogFaults, lifted, slipped>>

\* A call to Redis or to the database fails: the request stops.
Fail(c) ==
  /\ task[c] # Idle /\ catalogFaults < CatalogFaults /\ catalogFaults' = catalogFaults + 1
  /\ late' = late \union Owes(c)
  /\ GoTo(c, Idle)
  /\ UNCHANGED <<slug, parent, place, copy, changes, lifted, slipped>>

Next ==
  \/ \E c \in Managers :
       \/ FindSlug(c) \/ Insert(c) \/ FindCategory(c) \/ Update(c) \/ FindChildren(c) \/ Delete(c)
       \/ StartReorder(c) \/ Reorder(c) \/ Count(c) \/ InvalidateTree(c) \/ InvalidateFlat(c)
       \/ LookUp(c) \/ Find(c) \/ Store(c) \/ Fail(c)
  \/ \E k \in Keys : Expire(k)

Spec == Init /\ [][Next]_catalogVars

-----------------------------------------------------------------------------
\* Types; two rows never share a slug, and a parent is a row.
TypeOK ==
  /\ slug \in [Categories -> Slugs \union {"none"}] /\ place \in [Categories -> 0..1]
  /\ \A i, j \in Live : slug[i] = slug[j] => i = j
  /\ \A i \in Live : parent[i] \in Live \union {0}
  /\ late \subseteq Keys

\* A copy differs from the rows only while a request has yet to delete it, or when
\* it was filled with rows read before a change, or a deletion failed; and a
\* category loses its parent only if it was put there after the check for children.
CatalogExplained ==
  /\ \A k \in Keys : copy[k] \ {Rows} # {} => k \in late \/ \E c \in Managers : k \in Owes(c)
  /\ lifted \subseteq slipped
=============================================================================
