------------------------------ MODULE SocialGraph ------------------------------
(***************************************************************************)
(* The rows of user_follows and user_blocks, as followUser, unfollowUser,  *)
(* blockUser and unblockUser of UsersService change them.  Each looks rows *)
(* up first and writes at a later await.  The three statements of a block  *)
(* are one transaction, read committed: a deletion sees the rows of its    *)
(* own moment and locks them, and all becomes visible with the commit.     *)
(* Unique indexes refuse a second row for the same pair.                   *)
(*                                                                         *)
(* A row is known by its number, because remove of a row that was looked   *)
(* up deletes that row and not one that replaced it.  Requests that the    *)
(* look-ups refuse write nothing and are left out, and so are users who    *)
(* are deactivated, which no operation does.                               *)
(***************************************************************************)
EXTENDS Integers

CONSTANTS
  Users,
  Calls,     \* requests in progress at the same time
  MaxRows    \* bound on the rows that are ever inserted

ASSUME RowsAssumption == MaxRows \in Nat
ASSUME CallsAssumption == "none" \notin Users

VARIABLES
  follow,   \* the row of <<follower, following>>, 0 when there is none
  block,    \* the row of <<blocker, blocked>>
  made,     \* the number of rows inserted so far
  pc,       \* where a request waits
  pair,     \* the pair it is about
  row,      \* the row it looked up, to be removed, or the number of its block
  held      \* the pairs whose follows its transaction has deleted

vars == <<follow, block, made, pc, pair, row, held>>

\* Nobody follows or blocks himself.
Pairs == {p \in Users \X Users : p[1] # p[2]}
Mirror(p) == <<p[2], p[1]>>

Init ==
  /\ follow = [p \in Pairs |-> 0]
  /\ block = [p \in Pairs |-> 0]
  /\ made = 0
  /\ pc = [c \in Calls |-> "idle"]
  /\ pair = [c \in Calls |-> <<"none", "none">>]
  /\ row = [c \in Calls |-> 0]
  /\ held = [c \in Calls |-> {}]

Go(c, to) == pc' = [pc EXCEPT ![c] = to]

End(c) ==
  /\ Go(c, "idle")
  /\ pair' = [pair EXCEPT ![c] = <<"none", "none">>]
  /\ row' = [row EXCEPT ![c] = 0]
  /\ held' = [held EXCEPT ![c] = {}]

Start(c, p, to) ==
  /\ pc[c] = "idle" /\ Go(c, to)
  /\ pair' = [pair EXCEPT ![c] = p]

\* A row deleted by a transaction in progress: who wants to write it waits.
Locked(p) == \E c \in Calls : p \in held[c]

(***************************************************************************)
(* followUser, unfollowUser                                                *)
(***************************************************************************)
\* Mutant: the request to follow oneself is not refused.
FollowCheck_Self(c) ==
  /\ \E p \in Users \X Users :
       /\ p \in Pairs => block[p] = 0 /\ block[Mirror(p)] = 0
       /\ Start(c, p, "followFind")
  /\ UNCHANGED <<follow, block, made, row, held>>

\* isUserBlocked looks in both directions.
FollowCheck(c) ==
  /\ \E p \in Pairs : block[p] = 0 /\ block[Mirror(p)] = 0 /\ Start(c, p, "followFind")
  /\ UNCHANGED <<follow, block, made, row, held>>

FollowFind(c) ==
  /\ pc[c] = "followFind"
  /\ IF follow[pair[c]] = 0 THEN Go(c, "followInsert") /\ UNCHANGED <<pair, row, held>> ELSE End(c)
  /\ UNCHANGED <<follow, block, made>>

\* A new row, numbered; the index keeps the one there is, and the request fails.
FollowInsert(c) ==
  /\ pc[c] = "followInsert" /\ ~Locked(pair[c])
  /\ IF follow[pair[c]] # 0 THEN UNCHANGED <<follow, made>>
     ELSE /\ made < MaxRows /\ made' = made + 1
          /\ follow' = [follow EXCEPT ![pair[c]] = made + 1]
  /\ End(c)
  /\ UNCHANGED block

UnfollowFind(c) ==
  /\ \E p \in Pairs : /\ follow[p] # 0 /\ Start(c, p, "unfollow")
                      /\ row' = [row EXCEPT ![c] = follow[p]]
  /\ UNCHANGED <<follow, block, made, held>>

\* remove: the row with the number that was looked up, if it is still there.
UnfollowRemove(c) ==
  /\ pc[c] = "unfollow" /\ ~Locked(pair[c])
  /\ follow' = [follow EXCEPT ![pair[c]] = IF @ = row[c] THEN 0 ELSE @]
  /\ End(c)
  /\ UNCHANGED <<block, made>>

(***************************************************************************)
(* blockUser, unblockUser                                                  *)
(***************************************************************************)
BlockFind(c) ==
  /\ \E p \in Pairs : block[p] = 0 /\ Start(c, p, "blockOwn")
  /\ UNCHANGED <<follow, block, made, row, held>>

\* The follow of the blocker is deleted; from here on the block has its number.
BlockOwn(c) ==
  /\ pc[c] = "blockOwn" /\ ~Locked(pair[c])
  /\ made < MaxRows /\ made' = made + 1
  /\ row' = [row EXCEPT ![c] = made + 1]
  /\ held' = [held EXCEPT ![c] = {p \in {pair[c]} : follow[p] # 0}]
  /\ Go(c, "blockOther")
  /\ UNCHANGED <<follow, block, pair>>

\* Mutant: only the blocker stops to follow.
BlockOther_Skip(c) ==
  /\ pc[c] = "blockOther"
  /\ Go(c, "blockCommit")
  /\ UNCHANGED <<follow, block, made, pair, row, held>>

\* The follow of the blocked user is deleted.  Two users who block each other may
\* each wait for the other here; the database then makes one of them fail.
BlockOther(c) ==
  /\ pc[c] = "blockOther" /\ ~Locked(Mirror(pair[c]))
  /\ held' = [held EXCEPT ![c] = @ \cup {p \in {Mirror(pair[c])} : follow[p] # 0}]
  /\ Go(c, "blockCommit")
  /\ UNCHANGED <<follow, block, made, pair, row>>

\* The block is inserted and the transaction commits, or, when another request has
\* inserted it meanwhile, the transaction is rolled back.
BlockCommit(c) ==
  /\ pc[c] = "blockCommit"
  /\ IF block[pair[c]] # 0 THEN UNCHANGED <<follow, block>>
     ELSE /\ follow' = [p \in Pairs |-> IF p \in held[c] THEN 0 ELSE follow[p]]
          /\ block' = [block EXCEPT ![pair[c]] = row[c]]
  /\ End(c)
  /\ UNCHANGED made

UnblockFind(c) ==
  /\ \E p \in Pairs : /\ block[p] # 0 /\ Start(c, p, "unblock")
                      /\ row' = [row EXCEPT ![c] = block[p]]
  /\ UNCHANGED <<follow, block, made, held>>

UnblockRemove(c) ==
  /\ pc[c] = "unblock"
  /\ block' = [block EXCEPT ![pair[c]] = IF @ = row[c] THEN 0 ELSE @]
  /\ End(c)
  /\ UNCHANGED <<follow, made>>

\* A call throws, or the server dies: the request ends where it is.
Fail(c) == pc[c] # "idle" /\ End(c) /\ UNCHANGED <<follow, block, made>>

Next == \E c \in Calls :
  \/ FollowCheck(c) \/ FollowFind(c) \/ FollowInsert(c)
  \/ UnfollowFind(c) \/ UnfollowRemove(c)
  \/ BlockFind(c) \/ BlockOwn(c) \/ BlockOther(c) \/ BlockCommit(c)
  \/ UnblockFind(c) \/ UnblockRemove(c)
  \/ Fail(c)

Spec == Init /\ [][Next]_vars

(***************************************************************************)
(* Properties                                                              *)
(***************************************************************************)
Pcs == {"idle", "followFind", "followInsert", "unfollow", "blockOwn", "blockOther", "blockCommit", "unblock"}

\* The variables have their types.
TypeOK ==
  /\ follow \in [Pairs -> 0..MaxRows]
  /\ block \in [Pairs -> 0..MaxRows]
  /\ made \in 0..MaxRows
  /\ pc \in [Calls -> Pcs]
  /\ pair \in [Calls -> Pairs \cup {<<"none", "none">>}]
  /\ row \in [Calls -> 0..MaxRows]
  /\ held \in [Calls -> SUBSET Pairs]

\* plan/phase-2-core-modules.md:655 and :659, "Cannot follow blocked user" and
\* "Block creates relationship and unfollows": nobody follows across a block.
\* It holds as long as requests do not overlap, and not otherwise.
NoFollowAcrossBlock ==
  \A p \in Pairs : follow[p] # 0 => block[p] = 0 /\ block[Mirror(p)] = 0

\* While requests overlap, a follow is across a block only if it was inserted after
\* the transaction of the block had begun: that deletes all that came before.
LateFollowsOnly ==
  \A p \in Pairs : follow[p] # 0 =>
    /\ block[p] # 0 => block[p] < follow[p]
    /\ block[Mirror(p)] # 0 => block[Mirror(p)] < follow[p]
=============================================================================
