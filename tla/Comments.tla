------------------------------ MODULE Comments ------------------------------
(***************************************************************************)
(* The comments of one post (social/comments/comments.service.ts): the     *)
(* rows, the repliesCount each row carries and the commentsCount of the    *)
(* post.  Each query is a step of its own, no transaction joins them, so   *)
(* the requests of several users, or two clicks of one, interleave.        *)
(***************************************************************************)
EXTENDS Integers, FiniteSets

CONSTANTS
  Ids,        \* the comment rows, numbered in the order they are written
  Calls,      \* the requests that may be open at a time
  None,       \* no comment
  MaxFaults   \* bound on failed requests

VARIABLES
  row,      \* each row: absent, live, or deleted (deletedAt is set)
  parent,   \* parent_id of each row
  replies,  \* replies_count of each row
  count,    \* comments_count of the post
  pc,       \* where each request stands
  target,   \* the row a deletion works on
  under,    \* the parent a request works under
  seen,     \* replies_count as a deletion loaded it
  faults,
  excuse    \* history: what has happened that lets a counter drift

rows == <<row, parent>>
requests == <<pc, target, under, seen>>
vars == <<row, parent, replies, count, pc, target, under, seen, faults, excuse>>

Live == {i \in Ids : row[i] = "live"}
LiveReplies(u) == {i \in Live : parent[i] = u}

\* What a reader can reach: live roots (findByPost) and the live replies of
\* live roots (findReplies answers 404 for the replies of a deleted one).
Listed == {i \in Live : parent[i] = None \/ parent[i] \in Live}

\* Bound: the rows not yet used and not promised to an open request.
Room ==
  Cardinality({c \in Calls : pc[c] = "insert"}) < Cardinality({i \in Ids : row[i] = "absent"})

Init ==
  /\ row = [i \in Ids |-> "absent"]
  /\ parent = [i \in Ids |-> None]
  /\ replies = [i \in Ids |-> 0]
  /\ count = 0
  /\ pc = [c \in Calls |-> "idle"]
  /\ target = [c \in Calls |-> None]
  /\ under = [c \in Calls |-> None]
  /\ seen = [c \in Calls |-> 0]
  /\ faults = 0
  /\ excuse = {}

\* A change of the replies of u that its deletion does not count: u is
\* deleted, or a request has loaded its replies_count and is about to delete it.
Orphans(u) ==
  IF /\ u # None
     /\ row[u] = "deleted" \/ \E d \in Calls : pc[d] = "softDelete" /\ target[d] = u
  THEN {"orphan"} ELSE {}

Return(c) ==
  /\ pc' = [pc EXCEPT ![c] = "idle"]
  /\ target' = [target EXCEPT ![c] = None]
  /\ under' = [under EXCEPT ![c] = None]
  /\ seen' = [seen EXCEPT ![c] = 0]

GoTo(c, step) ==
  /\ pc' = [pc EXCEPT ![c] = step]
  /\ UNCHANGED <<target, under, seen>>

-----------------------------------------------------------------------------
\* Mutant: a reply hangs under whatever it replies to.
CreateCheck_Deep(c) ==
  /\ pc[c] = "idle"
  /\ Room
  /\ \/ UNCHANGED under
     \/ \E p \in Live : under' = [under EXCEPT ![c] = p]
  /\ pc' = [pc EXCEPT ![c] = "insert"]
  /\ UNCHANGED <<row, parent, replies, count, target, seen, faults, excuse>>

\* create: a root, or a reply; a reply to a reply hangs under the same root.
CreateCheck(c) ==
  /\ pc[c] = "idle"
  /\ Room
  /\ \/ UNCHANGED under
     \/ \E p \in Live :
          under' = [under EXCEPT ![c] = IF parent[p] = None THEN p ELSE parent[p]]
  /\ pc' = [pc EXCEPT ![c] = "insert"]
  /\ UNCHANGED <<row, parent, replies, count, target, seen, faults, excuse>>

\* Mutant: the replies are counted without asking whether there is a parent.
InsertComment_NoParent(c) ==
  /\ pc[c] = "insert"
  /\ \E i \in Ids :
       /\ row[i] = "absent"
       /\ \A j \in Ids : row[j] = "absent" => i <= j
       /\ row' = [row EXCEPT ![i] = "live"]
       /\ parent' = [parent EXCEPT ![i] = under[c]]
  /\ excuse' = excuse \union Orphans(under[c])
  /\ GoTo(c, "incReplies")
  /\ UNCHANGED <<replies, count, faults>>

\* the row is written; a reply is counted on its parent first.
InsertComment(c) ==
  /\ pc[c] = "insert"
  /\ \E i \in Ids :
       /\ row[i] = "absent"
       /\ \A j \in Ids : row[j] = "absent" => i <= j
       /\ row' = [row EXCEPT ![i] = "live"]
       /\ parent' = [parent EXCEPT ![i] = under[c]]
  /\ excuse' = excuse \union Orphans(under[c])
  /\ GoTo(c, IF under[c] = None THEN "incCount" ELSE "incReplies")
  /\ UNCHANGED <<replies, count, faults>>

IncReplies(c) ==
  /\ pc[c] = "incReplies"
  /\ replies' = [replies EXCEPT ![under[c]] = @ + 1]
  /\ excuse' = excuse \union Orphans(under[c])
  /\ GoTo(c, "incCount")
  /\ UNCHANGED <<rows, count, faults>>

IncCount(c) ==
  /\ pc[c] = "incCount"
  /\ count' = count + 1
  /\ Return(c)
  /\ UNCHANGED <<rows, replies, faults, excuse>>

-----------------------------------------------------------------------------
\* delete: findOne loads the row, its parent and its replies_count ...
DeleteFind(c) ==
  /\ pc[c] = "idle"
  /\ \E i \in Live :
       /\ target' = [target EXCEPT ![c] = i]
       /\ under' = [under EXCEPT ![c] = parent[i]]
       /\ seen' = [seen EXCEPT ![c] = replies[i]]
  /\ pc' = [pc EXCEPT ![c] = "softDelete"]
  /\ UNCHANGED <<rows, replies, count, faults, excuse>>

\* Mutant: the row is removed, and its replies keep pointing at it.
SoftDelete_Hard(c) ==
  /\ pc[c] = "softDelete"
  /\ row' = [row EXCEPT ![target[c]] = "absent"]
  /\ excuse' = excuse \union Orphans(under[c])
  /\ GoTo(c, IF under[c] = None THEN "decCount" ELSE "decReplies")
  /\ UNCHANGED <<parent, replies, count, faults>>

\* ... and the row is deleted by its id, deleted already or not.
SoftDelete(c) ==
  /\ pc[c] = "softDelete"
  /\ row' = [row EXCEPT ![target[c]] = "deleted"]
  /\ excuse' = excuse \union Orphans(under[c])
                      \union (IF row[target[c]] = "deleted" THEN {"double"} ELSE {})
  /\ GoTo(c, IF under[c] = None THEN "decCount" ELSE "decReplies")
  /\ UNCHANGED <<parent, replies, count, faults>>

DecReplies(c) ==
  /\ pc[c] = "decReplies"
  /\ replies' = [replies EXCEPT ![under[c]] = @ - 1]
  /\ excuse' = excuse \union Orphans(under[c])
  /\ GoTo(c, "decCount")
  /\ UNCHANGED <<rows, count, faults>>

\* Mutant: a deleted root takes only itself off the count.
DecCount_Own(c) ==
  /\ pc[c] = "decCount"
  /\ count' = count - 1
  /\ Return(c)
  /\ UNCHANGED <<rows, replies, faults, excuse>>

DecCount(c) ==
  /\ pc[c] = "decCount"
  /\ count' = count - 1
  /\ IF seen[c] > 0 THEN GoTo(c, "decMore") ELSE Return(c)
  /\ UNCHANGED <<rows, replies, faults, excuse>>

\* the replies that go out of sight with their root
DecMore(c) ==
  /\ pc[c] = "decMore"
  /\ count' = count - seen[c]
  /\ Return(c)
  /\ UNCHANGED <<rows, replies, faults, excuse>>

-----------------------------------------------------------------------------
\* A query fails and the request ends where it stands; what it wrote stays.
Fail(c) ==
  /\ pc[c] # "idle"
  /\ faults < MaxFaults
  /\ faults' = faults + 1
  /\ excuse' = excuse \union (IF pc[c] \in {"insert", "softDelete"} THEN {} ELSE {"lost"})
  /\ Return(c)
  /\ UNCHANGED <<rows, replies, count>>

Step(c) ==
  \/ CreateCheck(c) \/ InsertComment(c) \/ IncReplies(c) \/ IncCount(c)
  \/ DeleteFind(c) \/ SoftDelete(c) \/ DecReplies(c) \/ DecCount(c) \/ DecMore(c)
  \/ Fail(c)

Idle == \A c \in Calls : pc[c] = "idle"

\* Nobody has to write a comment: the requests may all be over.
Rest == Idle /\ UNCHANGED vars

Next == Rest \/ \E c \in Calls : Step(c)

Spec == Init /\ [][Next]_vars

-----------------------------------------------------------------------------
Steps == {"idle", "insert", "incReplies", "incCount", "softDelete",
          "decReplies", "decCount", "decMore"}

\* Every variable keeps its type, a row not written yet is blank, and a
\* request under a parent or about a row has one.
TypeOK ==
  /\ row \in [Ids -> {"absent", "live", "deleted"}]
  /\ parent \in [Ids -> Ids \union {None}]
  /\ replies \in [Ids -> Int]
  /\ count \in Int
  /\ pc \in [Calls -> Steps]
  /\ target \in [Calls -> Ids \union {None}]
  /\ under \in [Calls -> Ids \union {None}]
  /\ seen \in [Calls -> Int]
  /\ \A i \in Ids : row[i] = "absent" => parent[i] = None /\ replies[i] = 0
  /\ \A c \in Calls :
       /\ pc[c] \in {"incReplies", "decReplies"} => under[c] # None
       /\ pc[c] = "softDelete" => target[c] # None /\ row[target[c]] # "absent"
  /\ faults \in 0..MaxFaults
  /\ excuse \subseteq {"double", "orphan", "lost"}

\* At rest the counters tell the truth: replies_count is the number of live
\* replies of a row unless one comment was deleted twice or a request failed
\* half-way, and comments_count is the number of comments a reader can reach
\* unless, besides, the replies of a root changed once its deletion had read
\* their number.  No interleaving of different comments is an excuse.
CountExplained ==
  Idle =>
    /\ excuse \subseteq {"orphan"} =>
         \A i \in Ids : replies[i] = Cardinality(LiveReplies(i))
    /\ excuse = {} => count = Cardinality(Listed)

\* A thread is two levels deep whatever is replied to at the same time: what
\* a reply hangs under, in the table or in an open request, is a root.
TwoLevels ==
  /\ \A i \in Ids : parent[i] # None => row[parent[i]] # "absent" /\ parent[parent[i]] = None
  /\ \A c \in Calls : under[c] # None => row[under[c]] # "absent" /\ parent[under[c]] = None

=============================================================================
