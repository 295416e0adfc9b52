------------------------------- MODULE Likes -------------------------------
(***************************************************************************)
(* The like button of a post or a comment: one toggle that looks for the   *)
(* row of the user, writes or deletes it and then moves a counter by one,  *)
(* queries that no transaction joins.  posts.service.ts and                *)
(* comments.service.ts hold the same code; the model has one liked item.   *)
(***************************************************************************)
EXTENDS Integers, FiniteSets

CONSTANTS
  Users,
  Calls,      \* the requests that may be open at a time
  None,       \* no user
  MaxToggles  \* bound on the requests made

VARIABLES
  like,     \* the row of each user in the like table, 0 for none; rows have numbers
  likes,    \* likes_count of the item
  pc, user, \* each request: where it stands, whose it is,
  row,      \* and the row it found or is going to write
  toggles,
  excuse    \* history: what has happened that lets the counter drift

vars == <<like, likes, pc, user, row, toggles, excuse>>

Init ==
  /\ like = [u \in Users |-> 0]
  /\ likes = 0
  /\ pc = [c \in Calls |-> "idle"]
  /\ user = [c \in Calls |-> None]
  /\ row = [c \in Calls |-> 0]
  /\ toggles = 0
  /\ excuse = {}

Return(c) ==
  /\ pc' = [pc EXCEPT ![c] = "idle"]
  /\ user' = [user EXCEPT ![c] = None]
  /\ row' = [row EXCEPT ![c] = 0]

GoTo(c, step) ==
  /\ pc' = [pc EXCEPT ![c] = step]
  /\ UNCHANGED <<user, row>>

-----------------------------------------------------------------------------
\* The item is there; whether the user likes it decides the way to go.
FindLike(c) ==
  /\ pc[c] = "idle"
  /\ toggles < MaxToggles
  /\ toggles' = toggles + 1
  /\ \E u \in Users :
       /\ user' = [user EXCEPT ![c] = u]
       /\ pc' = [pc EXCEPT ![c] = IF like[u] = 0 THEN "insert" ELSE "delete"]
       /\ row' = [row EXCEPT ![c] = IF like[u] = 0 THEN toggles' ELSE like[u]]
       /\ excuse' = IF \E d \in Calls : user[d] = u THEN excuse \union {"overlap"} ELSE excuse
  /\ UNCHANGED <<like, likes>>

\* Mutant: a second row of the user is taken for a success.
InsertLike_Upsert(c) ==
  /\ pc[c] = "insert"
  /\ like' = [like EXCEPT ![user[c]] = row[c]]
  /\ GoTo(c, "inc")
  /\ UNCHANGED <<likes, toggles, excuse>>

\* The unique index refuses a second row of the user, and the request ends.
InsertLike(c) ==
  /\ pc[c] = "insert"
  /\ IF like[user[c]] = 0
     THEN like' = [like EXCEPT ![user[c]] = row[c]] /\ GoTo(c, "inc")
     ELSE UNCHANGED like /\ Return(c)
  /\ UNCHANGED <<likes, toggles, excuse>>

\* The row found is deleted by its id; the code does not ask whether it was there.
DeleteLike(c) ==
  /\ pc[c] = "delete"
  /\ like' = [like EXCEPT ![user[c]] = IF @ = row[c] THEN 0 ELSE @]
  /\ GoTo(c, "dec")
  /\ UNCHANGED <<likes, toggles, excuse>>

IncLikes(c) ==
  /\ pc[c] = "inc"
  /\ likes' = likes + 1
  /\ Return(c)
  /\ UNCHANGED <<like, toggles, excuse>>

DecLikes(c) ==
  /\ pc[c] = "dec"
  /\ likes' = likes - 1
  /\ Return(c)
  /\ UNCHANGED <<like, toggles, excuse>>

\* A query fails; the row is written and its counting is lost.
Fail(c) ==
  /\ pc[c] # "idle"
  /\ excuse' = excuse \union (CASE pc[c] = "inc" -> {"likeLost"}
                                [] pc[c] = "dec" -> {"unlikeLost"}
                                [] OTHER -> {})
  /\ Return(c)
  /\ UNCHANGED <<like, likes, toggles>>

Step(c) ==
  \/ FindLike(c) \/ InsertLike(c) \/ DeleteLike(c) \/ IncLikes(c) \/ DecLikes(c) \/ Fail(c)

Idle == \A c \in Calls : pc[c] = "idle"

\* Nobody has to press the button again.
Rest == Idle /\ UNCHANGED vars

Next == Rest \/ \E c \in Calls : Step(c)

Spec == Init /\ [][Next]_vars

-----------------------------------------------------------------------------
\* Every variable keeps its type, and an open request has a user and a row.
TypeOK ==
  /\ like \in [Users -> 0..toggles]
  /\ likes \in Int
  /\ pc \in [Calls -> {"idle", "insert", "delete", "inc", "dec"}]
  /\ user \in [Calls -> Users \union {None}]
  /\ row \in [Calls -> 0..toggles]
  /\ \A c \in Calls : pc[c] # "idle" => user[c] # None /\ row[c] # 0
  /\ toggles \in 0..MaxToggles
  /\ excuse \subseteq {"overlap", "likeLost", "unlikeLost"}

Likers == {u \in Users : like[u] # 0}

\* At rest the counter is above the number of likes only when the counting of
\* an unlike was lost, and below it only when the counting of a like was lost
\* or requests of one user overlapped: two unlikes of the same row both count.
\* The toggles of different users never disturb each other.
LikesExplained ==
  Idle =>
    /\ likes > Cardinality(Likers) => "unlikeLost" \in excuse
    /\ likes < Cardinality(Likers) => excuse \intersect {"overlap", "likeLost"} # {}

=============================================================================
