----------------------------- MODULE MCSocial_proofs -----------------------------
(***************************************************************************)
(* The social components for any users, requests, rows and bounds.  Each   *)
(* counter is proved by an account: what the rows say, and what the open   *)
(* requests have still to add or to take away.  The components are proved  *)
(* under the names the harness gives them, so a theorem is about the       *)
(* specification that TLC checks.                                          *)
(***************************************************************************)
EXTENDS MCSocial, Sequences, FiniteSetTheorems, TLAPS

(***************************************************************************)
(* The harness: a step moves one component and stutters for the others.    *)
(***************************************************************************)
LEMMA StepOfOne ==
  ASSUME [MCNext]_allVars
  PROVE  /\ [Next]_vars
         /\ [Com!Next]_commentVars
         /\ [Lik!Next]_likeVars
         /\ [Cht!Next]_chatVars
         /\ [Pos!Next]_postVars
         /\ [For!Next]_forumVars
<1>1. CASE UNCHANGED allVars
  BY <1>1 DEF allVars
<1>2. CASE MCNext
  BY <1>2 DEF MCNext, Others, Rest
<1> QED BY <1>1, <1>2

(***************************************************************************)
(* Follows and blocks.                                                     *)
(***************************************************************************)
\* A request is about a pair, and no row has a number that was not given yet.
Numbered ==
  /\ \A c \in Calls : pc[c] # "idle" => pair[c] \in Pairs
  /\ \A p \in Pairs : follow[p] <= made /\ block[p] <= made

\* What the transaction of a block has not deleted is younger than the block.
Deleted ==
  \A c \in Calls :
    /\ pc[c] \in {"blockOther", "blockCommit"} =>
         /\ row[c] <= made
         /\ (pair[c] \notin held[c] /\ follow[pair[c]] # 0 => row[c] < follow[pair[c]])
    /\ pc[c] = "blockCommit" =>
         (Mirror(pair[c]) \notin held[c] /\ follow[Mirror(pair[c])] # 0 =>
            row[c] < follow[Mirror(pair[c])])

\* Between its check and its insert no block has come across a follow, and what a
\* transaction did not find to delete is not there when it commits.
Checked ==
  /\ \A c \in Calls : pc[c] \in {"blockOther", "blockCommit"} =>
       (pair[c] \notin held[c] => follow[pair[c]] = 0)
  /\ \A c \in Calls : pc[c] = "blockCommit" =>
       (Mirror(pair[c]) \notin held[c] => follow[Mirror(pair[c])] = 0)
  /\ \A c \in Calls : pc[c] \in {"followFind", "followInsert"} =>
       block[pair[c]] = 0 /\ block[Mirror(pair[c])] = 0

\* The mirror of a pair is a pair, and mirroring twice gives the pair back.
LEMMA MirrorPair ==
  \A p \in Pairs : Mirror(p) \in Pairs /\ Mirror(Mirror(p)) = p
BY DEF Pairs, Mirror

\* Every step keeps the types.
LEMMA TypeStep == TypeOK /\ Numbered /\ [Next]_vars => TypeOK'
<1> SUFFICES ASSUME TypeOK, Numbered, [Next]_vars PROVE TypeOK'
  OBVIOUS
<1> USE RowsAssumption, MirrorPair DEF TypeOK, Pcs, Numbered
<1>1. ASSUME NEW c \in Calls, FollowCheck(c) PROVE TypeOK'
  BY <1>1 DEF FollowCheck, Start, Go
<1>2. ASSUME NEW c \in Calls, FollowFind(c) PROVE TypeOK'
  BY <1>2 DEF FollowFind, Go, End
<1>3. ASSUME NEW c \in Calls, FollowInsert(c) PROVE TypeOK'
  BY <1>3 DEF FollowInsert, Locked, Go, End
<1>4. ASSUME NEW c \in Calls, UnfollowFind(c) PROVE TypeOK'
  BY <1>4 DEF UnfollowFind, Start, Go
<1>5. ASSUME NEW c \in Calls, UnfollowRemove(c) PROVE TypeOK'
  BY <1>5 DEF UnfollowRemove, Locked, Go, End
<1>6. ASSUME NEW c \in Calls, BlockFind(c) PROVE TypeOK'
  BY <1>6 DEF BlockFind, Start, Go
<1>7. ASSUME NEW c \in Calls, BlockOwn(c) PROVE TypeOK'
  BY <1>7 DEF BlockOwn, Locked, Go
<1>8. ASSUME NEW c \in Calls, BlockOther(c) PROVE TypeOK'
  BY <1>8 DEF BlockOther, Locked, Go
<1>9. ASSUME NEW c \in Calls, BlockCommit(c) PROVE TypeOK'
  BY <1>9 DEF BlockCommit, Go, End
<1>10. ASSUME NEW c \in Calls, UnblockFind(c) PROVE TypeOK'
  BY <1>10 DEF UnblockFind, Start, Go
<1>11. ASSUME NEW c \in Calls, UnblockRemove(c) PROVE TypeOK'
  BY <1>11 DEF UnblockRemove, Go, End
<1>12. ASSUME NEW c \in Calls, Fail(c) PROVE TypeOK'
  BY <1>12 DEF Fail, Go, End
<1>13. CASE UNCHANGED vars
  BY <1>13 DEF vars
<1> QED
  BY <1>1, <1>2, <1>3, <1>4, <1>5, <1>6, <1>7, <1>8, <1>9, <1>10, <1>11, <1>12, <1>13 DEF Next

\* Every step keeps the numbering.
LEMMA NumberedStep == TypeOK /\ Numbered /\ Deleted /\ [Next]_vars => Numbered'
<1> SUFFICES ASSUME TypeOK, Numbered, Deleted, [Next]_vars PROVE Numbered'
  OBVIOUS
<1> USE RowsAssumption, MirrorPair DEF TypeOK, Pcs, Numbered, Deleted
<1>1. ASSUME NEW c \in Calls, FollowCheck(c) PROVE Numbered'
  BY <1>1 DEF FollowCheck, Start, Go
<1>2. ASSUME NEW c \in Calls, FollowFind(c) PROVE Numbered'
  BY <1>2 DEF FollowFind, Go, End
<1>3. ASSUME NEW c \in Calls, FollowInsert(c) PROVE Numbered'
  BY <1>3 DEF FollowInsert, Locked, Go, End
<1>4. ASSUME NEW c \in Calls, UnfollowFind(c) PROVE Numbered'
  BY <1>4 DEF UnfollowFind, Start, Go
<1>5. ASSUME NEW c \in Calls, UnfollowRemove(c) PROVE Numbered'
  BY <1>5 DEF UnfollowRemove, Locked, Go, End
<1>6. ASSUME NEW c \in Calls, BlockFind(c) PROVE Numbered'
  BY <1>6 DEF BlockFind, Start, Go
<1>7. ASSUME NEW c \in Calls, BlockOwn(c) PROVE Numbered'
  BY <1>7 DEF BlockOwn, Locked, Go
<1>8. ASSUME NEW c \in Calls, BlockOther(c) PROVE Numbered'
  BY <1>8 DEF BlockOther, Locked, Go
<1>9. ASSUME NEW c \in Calls, BlockCommit(c) PROVE Numbered'
  BY <1>9 DEF BlockCommit, Go, End
<1>10. ASSUME NEW c \in Calls, UnblockFind(c) PROVE Numbered'
  BY <1>10 DEF UnblockFind, Start, Go
<1>11. ASSUME NEW c \in Calls, UnblockRemove(c) PROVE Numbered'
  BY <1>11 DEF UnblockRemove, Go, End
<1>12. ASSUME NEW c \in Calls, Fail(c) PROVE Numbered'
  BY <1>12 DEF Fail, Go, End
<1>13. CASE UNCHANGED vars
  BY <1>13 DEF vars
<1> QED
  BY <1>1, <1>2, <1>3, <1>4, <1>5, <1>6, <1>7, <1>8, <1>9, <1>10, <1>11, <1>12, <1>13 DEF Next

\* A follow inserted beside a transaction is younger than its block.
LEMMA DeletedStep == TypeOK /\ Numbered /\ Deleted /\ [Next]_vars => Deleted'
<1> SUFFICES ASSUME TypeOK, Numbered, Deleted, [Next]_vars PROVE Deleted'
  OBVIOUS
<1> USE RowsAssumption, MirrorPair DEF TypeOK, Pcs, Numbered, Deleted
<1>1. ASSUME NEW c \in Calls, FollowCheck(c) PROVE Deleted'
  BY <1>1 DEF FollowCheck, Start, Go
<1>2. ASSUME NEW c \in Calls, FollowFind(c) PROVE Deleted'
  BY <1>2 DEF FollowFind, Go, End
<1>3. ASSUME NEW c \in Calls, FollowInsert(c) PROVE Deleted'
  BY <1>3 DEF FollowInsert, Locked, Go, End
<1>4. ASSUME NEW c \in Calls, UnfollowFind(c) PROVE Deleted'
  BY <1>4 DEF UnfollowFind, Start, Go
<1>5. ASSUME NEW c \in Calls, UnfollowRemove(c) PROVE Deleted'
  BY <1>5 DEF UnfollowRemove, Locked, Go, End
<1>6. ASSUME NEW c \in Calls, BlockFind(c) PROVE Deleted'
  BY <1>6 DEF BlockFind, Start, Go
<1>7. ASSUME NEW c \in Calls, BlockOwn(c) PROVE Deleted'
  BY <1>7 DEF BlockOwn, Locked, Go
<1>8. ASSUME NEW c \in Calls, BlockOther(c) PROVE Deleted'
  BY <1>8 DEF BlockOther, Locked, Go
<1>9. ASSUME NEW c \in Calls, BlockCommit(c) PROVE Deleted'
  BY <1>9 DEF BlockCommit, Go, End
<1>10. ASSUME NEW c \in Calls, UnblockFind(c) PROVE Deleted'
  BY <1>10 DEF UnblockFind, Start, Go
<1>11. ASSUME NEW c \in Calls, UnblockRemove(c) PROVE Deleted'
  BY <1>11 DEF UnblockRemove, Go, End
<1>12. ASSUME NEW c \in Calls, Fail(c) PROVE Deleted'
  BY <1>12 DEF Fail, Go, End
<1>13. CASE UNCHANGED vars
  BY <1>13 DEF vars
<1> QED
  BY <1>1, <1>2, <1>3, <1>4, <1>5, <1>6, <1>7, <1>8, <1>9, <1>10, <1>11, <1>12, <1>13 DEF Next

\* A new follow is younger than every block, and a new block leaves no older follow.
LEMMA LateStep == TypeOK /\ Numbered /\ Deleted /\ LateFollowsOnly /\ [Next]_vars => LateFollowsOnly'
<1> SUFFICES ASSUME TypeOK, Numbered, Deleted, LateFollowsOnly, [Next]_vars PROVE LateFollowsOnly'
  OBVIOUS
<1> USE RowsAssumption, MirrorPair DEF TypeOK, Pcs, Numbered, Deleted, LateFollowsOnly
<1>1. ASSUME NEW c \in Calls, FollowCheck(c) PROVE LateFollowsOnly'
  BY <1>1 DEF FollowCheck, Start, Go
<1>2. ASSUME NEW c \in Calls, FollowFind(c) PROVE LateFollowsOnly'
  BY <1>2 DEF FollowFind, Go, End
<1>3. ASSUME NEW c \in Calls, FollowInsert(c) PROVE LateFollowsOnly'
  BY <1>3 DEF FollowInsert, Locked, Go, End
<1>4. ASSUME NEW c \in Calls, UnfollowFind(c) PROVE LateFollowsOnly'
  BY <1>4 DEF UnfollowFind, Start, Go
<1>5. ASSUME NEW c \in Calls, UnfollowRemove(c) PROVE LateFollowsOnly'
  BY <1>5 DEF UnfollowRemove, Locked, Go, End
<1>6. ASSUME NEW c \in Calls, BlockFind(c) PROVE LateFollowsOnly'
  BY <1>6 DEF BlockFind, Start, Go
<1>7. ASSUME NEW c \in Calls, BlockOwn(c) PROVE LateFollowsOnly'
  BY <1>7 DEF BlockOwn, Locked, Go
<1>8. ASSUME NEW c \in Calls, BlockOther(c) PROVE LateFollowsOnly'
  BY <1>8 DEF BlockOther, Locked, Go
<1>9. ASSUME NEW c \in Calls, BlockCommit(c) PROVE LateFollowsOnly'
  BY <1>9 DEF BlockCommit, Go, End
<1>10. ASSUME NEW c \in Calls, UnblockFind(c) PROVE LateFollowsOnly'
  BY <1>10 DEF UnblockFind, Start, Go
<1>11. ASSUME NEW c \in Calls, UnblockRemove(c) PROVE LateFollowsOnly'
  BY <1>11 DEF UnblockRemove, Go, End
<1>12. ASSUME NEW c \in Calls, Fail(c) PROVE LateFollowsOnly'
  BY <1>12 DEF Fail, Go, End
<1>13. CASE UNCHANGED vars
  BY <1>13 DEF vars
<1> QED
  BY <1>1, <1>2, <1>3, <1>4, <1>5, <1>6, <1>7, <1>8, <1>9, <1>10, <1>11, <1>12, <1>13 DEF Next

\* Without overlap nothing comes between check and insert.
LEMMA CheckedStep == (\A c, d \in Calls : c = d) /\ TypeOK /\ Numbered /\ Checked /\ [Next]_vars => Checked'
<1> SUFFICES ASSUME \A c, d \in Calls : c = d, TypeOK, Numbered, Checked, [Next]_vars PROVE Checked'
  OBVIOUS
<1> USE RowsAssumption, MirrorPair DEF TypeOK, Pcs, Numbered, Checked
<1>1. ASSUME NEW c \in Calls, FollowCheck(c) PROVE Checked'
  BY <1>1 DEF FollowCheck, Start, Go
<1>2. ASSUME NEW c \in Calls, FollowFind(c) PROVE Checked'
  BY <1>2 DEF FollowFind, Go, End
<1>3. ASSUME NEW c \in Calls, FollowInsert(c) PROVE Checked'
  BY <1>3 DEF FollowInsert, Locked, Go, End
<1>4. ASSUME NEW c \in Calls, UnfollowFind(c) PROVE Checked'
  BY <1>4 DEF UnfollowFind, Start, Go
<1>5. ASSUME NEW c \in Calls, UnfollowRemove(c) PROVE Checked'
  BY <1>5 DEF UnfollowRemove, Locked, Go, End
<1>6. ASSUME NEW c \in Calls, BlockFind(c) PROVE Checked'
  BY <1>6 DEF BlockFind, Start, Go
<1>7. ASSUME NEW c \in Calls, BlockOwn(c) PROVE Checked'
  BY <1>7 DEF BlockOwn, Locked, Go
<1>8. ASSUME NEW c \in Calls, BlockOther(c) PROVE Checked'
  BY <1>8 DEF BlockOther, Locked, Go
<1>9. ASSUME NEW c \in Calls, BlockCommit(c) PROVE Checked'
  BY <1>9 DEF BlockCommit, Go, End
<1>10. ASSUME NEW c \in Calls, UnblockFind(c) PROVE Checked'
  BY <1>10 DEF UnblockFind, Start, Go
<1>11. ASSUME NEW c \in Calls, UnblockRemove(c) PROVE Checked'
  BY <1>11 DEF UnblockRemove, Go, End
<1>12. ASSUME NEW c \in Calls, Fail(c) PROVE Checked'
  BY <1>12 DEF Fail, Go, End
<1>13. CASE UNCHANGED vars
  BY <1>13 DEF vars
<1> QED
  BY <1>1, <1>2, <1>3, <1>4, <1>5, <1>6, <1>7, <1>8, <1>9, <1>10, <1>11, <1>12, <1>13 DEF Next

\* Without overlap no step makes a follow across a block.
LEMMA AcrossStep == TypeOK /\ Numbered /\ Checked /\ NoFollowAcrossBlock /\ [Next]_vars => NoFollowAcrossBlock'
<1> SUFFICES ASSUME TypeOK, Numbered, Checked, NoFollowAcrossBlock, [Next]_vars PROVE NoFollowAcrossBlock'
  OBVIOUS
<1> USE RowsAssumption, MirrorPair DEF TypeOK, Pcs, Numbered, Checked, NoFollowAcrossBlock
<1>1. ASSUME NEW c \in Calls, FollowCheck(c) PROVE NoFollowAcrossBlock'
  BY <1>1 DEF FollowCheck, Start, Go
<1>2. ASSUME NEW c \in Calls, FollowFind(c) PROVE NoFollowAcrossBlock'
  BY <1>2 DEF FollowFind, Go, End
<1>3. ASSUME NEW c \in Calls, FollowInsert(c) PROVE NoFollowAcrossBlock'
  BY <1>3 DEF FollowInsert, Locked, Go, End
<1>4. ASSUME NEW c \in Calls, UnfollowFind(c) PROVE NoFollowAcrossBlock'
  BY <1>4 DEF UnfollowFind, Start, Go
<1>5. ASSUME NEW c \in Calls, UnfollowRemove(c) PROVE NoFollowAcrossBlock'
  BY <1>5 DEF UnfollowRemove, Locked, Go, End
<1>6. ASSUME NEW c \in Calls, BlockFind(c) PROVE NoFollowAcrossBlock'
  BY <1>6 DEF BlockFind, Start, Go
<1>7. ASSUME NEW c \in Calls, BlockOwn(c) PROVE NoFollowAcrossBlock'
  BY <1>7 DEF BlockOwn, Locked, Go
<1>8. ASSUME NEW c \in Calls, BlockOther(c) PROVE NoFollowAcrossBlock'
  BY <1>8 DEF BlockOther, Locked, Go
<1>9. ASSUME NEW c \in Calls, BlockCommit(c) PROVE NoFollowAcrossBlock'
  BY <1>9 DEF BlockCommit, Go, End
<1>10. ASSUME NEW c \in Calls, UnblockFind(c) PROVE NoFollowAcrossBlock'
  BY <1>10 DEF UnblockFind, Start, Go
<1>11. ASSUME NEW c \in Calls, UnblockRemove(c) PROVE NoFollowAcrossBlock'
  BY <1>11 DEF UnblockRemove, Go, End
<1>12. ASSUME NEW c \in Calls, Fail(c) PROVE NoFollowAcrossBlock'
  BY <1>12 DEF Fail, Go, End
<1>13. CASE UNCHANGED vars
  BY <1>13 DEF vars
<1> QED
  BY <1>1, <1>2, <1>3, <1>4, <1>5, <1>6, <1>7, <1>8, <1>9, <1>10, <1>11, <1>12, <1>13 DEF Next

GraphInv == TypeOK /\ Numbered /\ Deleted /\ LateFollowsOnly

\* The rows stay numbered and typed, and follows across blocks are late ones.
THEOREM GraphInvariant == MCSpec => []GraphInv
<1>1. Init => GraphInv
  BY RowsAssumption DEF Init, GraphInv, TypeOK, Pcs, Numbered, Deleted, LateFollowsOnly
<1>2. MCInit => GraphInv
  BY <1>1 DEF MCInit
<1>3. GraphInv /\ [MCNext]_allVars => GraphInv'
  BY StepOfOne, TypeStep, NumberedStep, DeletedStep, LateStep DEF GraphInv
<1> QED BY <1>2, <1>3, PTL DEF MCSpec

\* A follow that stands across a block was inserted after it.
THEOREM LateOnly == MCSpec => []LateFollowsOnly
<1>1. GraphInv => LateFollowsOnly
  BY DEF GraphInv
<1> QED BY GraphInvariant, <1>1, PTL

\* With one request at a time nobody follows across a block.
THEOREM SequentialSafe ==
  ASSUME \A c, d \in Calls : c = d
  PROVE  MCSpec => []NoFollowAcrossBlock
<1> DEFINE Inv == TypeOK /\ Numbered /\ Deleted /\ Checked /\ NoFollowAcrossBlock
<1>1. Init => Inv
  BY RowsAssumption DEF Init, Inv, TypeOK, Pcs, Numbered, Deleted, Checked, NoFollowAcrossBlock
<1>2. MCInit => Inv
  BY <1>1 DEF MCInit
<1>3. Inv /\ [MCNext]_allVars => Inv'
  BY StepOfOne, TypeStep, NumberedStep, DeletedStep, CheckedStep, AcrossStep
<1>4. Inv => NoFollowAcrossBlock
  OBVIOUS
<1> QED
  BY <1>2, <1>3, <1>4, PTL DEF MCSpec

(***************************************************************************)
(* Comments.  The account of a post: a comment that is written and not     *)
(* counted yet is coming, one that is deleted and not counted off is       *)
(* leaving, with the replies its deletion has seen.                        *)
(***************************************************************************)
Adds(i) == {c \in Calls : commentPc[c] = "incReplies" /\ under[c] = i}
Takes(i) == {c \in Calls : commentPc[c] = "decReplies" /\ under[c] = i}
Coming == {c \in Calls : commentPc[c] \in {"incReplies", "incCount"}}
Dues(c) ==
  (IF commentPc[c] \in {"decReplies", "decCount"} THEN 1 ELSE 0)
  + (IF commentPc[c] \in {"decReplies", "decCount", "decMore"} /\ seen[c] > 0 THEN seen[c] ELSE 0)
Leaving == {p \in Calls \X Nat : p[2] < Dues(p[1])}

\* A request is going to count under a comment that is deleted meanwhile.
Doomed(c) == commentPc[c] \in {"incReplies", "decReplies"} /\ comment[under[c]] = "deleted"

\* What a deletion has loaded is still so, or there is an excuse.
SeenKept ==
  \A c \in Calls :
    /\ commentPc[c] = "softDelete" => under[c] = parent[target[c]]
    /\ commentPc[c] = "decMore" => seen[c] > 0
    /\ commentExcuse = {} =>
         /\ commentPc[c] = "softDelete" /\ under[c] = None => seen[c] = replies[target[c]]
         /\ commentPc[c] \in {"softDelete", "decReplies", "decCount", "decMore"} /\ under[c] # None
              => seen[c] = 0

\* The replies of a comment, with those a request has still to count.
RepliesKept ==
  commentExcuse \subseteq {"orphan"} =>
    \A i \in Ids :
      replies[i] = Cardinality(Com!LiveReplies(i)) - Cardinality(Adds(i)) + Cardinality(Takes(i))

\* The comments of the post, with those a request has still to count.
CountKept ==
  /\ IsFiniteSet(Leaving)
  /\ commentExcuse = {} /\ (\A c \in Calls : ~Doomed(c)) =>
       count = Cardinality(Com!Listed) - Cardinality(Coming) + Cardinality(Leaving)

CommentInv == Com!TypeOK /\ Com!TwoLevels /\ SeenKept /\ RepliesKept /\ CountKept

\* Every step keeps the types of the comments.
LEMMA CommentTypes == Com!TypeOK /\ Com!TwoLevels /\ [Com!Next]_commentVars => Com!TypeOK'
<1> SUFFICES ASSUME Com!TypeOK, Com!TwoLevels, [Com!Next]_commentVars PROVE Com!TypeOK'
  OBVIOUS
<1> USE CommentsAssumption DEF Com!TypeOK, Com!Steps, Com!TwoLevels
<1>1. ASSUME NEW c \in Calls, Com!CreateCheck(c) PROVE Com!TypeOK'
  BY <1>1 DEF Com!CreateCheck, Com!Return, Com!Live, Com!Orphans
<1>2. ASSUME NEW c \in Calls, Com!InsertComment(c) PROVE Com!TypeOK'
  BY <1>2 DEF Com!InsertComment, Com!GoTo, Com!Live, Com!Orphans
<1>3. ASSUME NEW c \in Calls, Com!IncReplies(c) PROVE Com!TypeOK'
  BY <1>3 DEF Com!IncReplies, Com!GoTo, Com!rows, Com!Live, Com!Orphans
<1>4. ASSUME NEW c \in Calls, Com!IncCount(c) PROVE Com!TypeOK'
  BY <1>4 DEF Com!IncCount, Com!Return, Com!rows, Com!Live, Com!Orphans
<1>5. ASSUME NEW c \in Calls, Com!DeleteFind(c) PROVE Com!TypeOK'
  BY <1>5 DEF Com!DeleteFind, Com!rows, Com!Live, Com!Orphans
<1>6. ASSUME NEW c \in Calls, Com!SoftDelete(c) PROVE Com!TypeOK'
  BY <1>6 DEF Com!SoftDelete, Com!GoTo, Com!Live, Com!Orphans
<1>7. ASSUME NEW c \in Calls, Com!DecReplies(c) PROVE Com!TypeOK'
  BY <1>7 DEF Com!DecReplies, Com!GoTo, Com!rows, Com!Live, Com!Orphans
<1>8. ASSUME NEW c \in Calls, Com!DecCount(c) PROVE Com!TypeOK'
  BY <1>8 DEF Com!DecCount, Com!GoTo, Com!Return, Com!rows, Com!Live, Com!Orphans
<1>9. ASSUME NEW c \in Calls, Com!DecMore(c) PROVE Com!TypeOK'
  BY <1>9 DEF Com!DecMore, Com!Return, Com!rows, Com!Live, Com!Orphans
<1>10. ASSUME NEW c \in Calls, Com!Fail(c) PROVE Com!TypeOK'
  BY <1>10 DEF Com!Fail, Com!Return, Com!rows, Com!Live, Com!Orphans
<1>11. CASE Com!Rest
  BY <1>11 DEF Com!Rest, Com!vars, Com!rows, Com!requests
<1>12. CASE UNCHANGED commentVars
  BY <1>12 DEF commentVars
<1> QED
  BY <1>1, <1>2, <1>3, <1>4, <1>5, <1>6, <1>7, <1>8, <1>9, <1>10, <1>11, <1>12 DEF Com!Next, Com!Step

\* What a reply is put under is a root when it is loaded, and stays one.
LEMMA LevelStep == Com!TypeOK /\ Com!TwoLevels /\ [Com!Next]_commentVars => Com!TwoLevels'
<1> SUFFICES ASSUME Com!TypeOK, Com!TwoLevels, [Com!Next]_commentVars PROVE Com!TwoLevels'
  OBVIOUS
<1> USE CommentsAssumption DEF Com!TypeOK, Com!Steps, Com!TwoLevels
<1>1. ASSUME NEW c \in Calls, Com!CreateCheck(c) PROVE Com!TwoLevels'
  BY <1>1 DEF Com!CreateCheck, Com!Return, Com!Live, Com!Orphans
<1>2. ASSUME NEW c \in Calls, Com!InsertComment(c) PROVE Com!TwoLevels'
  BY <1>2 DEF Com!InsertComment, Com!GoTo, Com!Live, Com!Orphans
<1>3. ASSUME NEW c \in Calls, Com!IncReplies(c) PROVE Com!TwoLevels'
  BY <1>3 DEF Com!IncReplies, Com!GoTo, Com!rows, Com!Live, Com!Orphans
<1>4. ASSUME NEW c \in Calls, Com!IncCount(c) PROVE Com!TwoLevels'
  BY <1>4 DEF Com!IncCount, Com!Return, Com!rows, Com!Live, Com!Orphans
<1>5. ASSUME NEW c \in Calls, Com!DeleteFind(c) PROVE Com!TwoLevels'
  BY <1>5 DEF Com!DeleteFind, Com!rows, Com!Live, Com!Orphans
<1>6. ASSUME NEW c \in Calls, Com!SoftDelete(c) PROVE Com!TwoLevels'
  BY <1>6 DEF Com!SoftDelete, Com!GoTo, Com!Live, Com!Orphans
<1>7. ASSUME NEW c \in Calls, Com!DecReplies(c) PROVE Com!TwoLevels'
  BY <1>7 DEF Com!DecReplies, Com!GoTo, Com!rows, Com!Live, Com!Orphans
<1>8. ASSUME NEW c \in Calls, Com!DecCount(c) PROVE Com!TwoLevels'
  BY <1>8 DEF Com!DecCount, Com!GoTo, Com!Return, Com!rows, Com!Live, Com!Orphans
<1>9. ASSUME NEW c \in Calls, Com!DecMore(c) PROVE Com!TwoLevels'
  BY <1>9 DEF Com!DecMore, Com!Return, Com!rows, Com!Live, Com!Orphans
<1>10. ASSUME NEW c \in Calls, Com!Fail(c) PROVE Com!TwoLevels'
  BY <1>10 DEF Com!Fail, Com!Return, Com!rows, Com!Live, Com!Orphans
<1>11. CASE Com!Rest
  BY <1>11 DEF Com!Rest, Com!vars, Com!rows, Com!requests
<1>12. CASE UNCHANGED commentVars
  BY <1>12 DEF commentVars
<1> QED
  BY <1>1, <1>2, <1>3, <1>4, <1>5, <1>6, <1>7, <1>8, <1>9, <1>10, <1>11, <1>12 DEF Com!Next, Com!Step


\* The components count as the harness does.
LEMMA SameCardinality ==
  /\ \A S : Com!Cardinality(S) = Cardinality(S)
  /\ \A S : Lik!Cardinality(S) = Cardinality(S)
  /\ \A S : Pos!Cardinality(S) = Cardinality(S)
  /\ \A S : For!Cardinality(S) = Cardinality(S)
  BY DEF Com!Cardinality, Lik!Cardinality, Pos!Cardinality, For!Cardinality, Cardinality

\* One request among those of a set: what its coming and going does to their number.
LEMMA OneOf ==
  ASSUME NEW S, IsFiniteSet(S), NEW x
  PROVE  /\ IsFiniteSet(S \union {x}) /\ IsFiniteSet(S \ {x})
         /\ Cardinality(S) \in Nat
         /\ Cardinality(S \union {x}) = Cardinality(S) + (IF x \in S THEN 0 ELSE 1)
         /\ Cardinality(S \ {x}) = Cardinality(S) - (IF x \in S THEN 1 ELSE 0)
<1>1. Cardinality(S) \in Nat
  BY FS_CardinalityType
<1> QED BY <1>1, FS_AddElement, FS_RemoveElement

\* One element of a finite set, and the set after it came or went.
LEMMA OneCounted ==
  ASSUME NEW S, NEW T, IsFiniteSet(S), NEW x, T \ {x} = S \ {x}
  PROVE  /\ IsFiniteSet(T) /\ Cardinality(S) \in Nat /\ Cardinality(T) \in Nat
         /\ Cardinality(T) - (IF x \in T THEN 1 ELSE 0) = Cardinality(S) - (IF x \in S THEN 1 ELSE 0)
<1>1. /\ IsFiniteSet(S \union {x}) /\ IsFiniteSet(S \ {x})
      /\ Cardinality(S) \in Nat
      /\ Cardinality(S \union {x}) = Cardinality(S) + (IF x \in S THEN 0 ELSE 1)
      /\ Cardinality(S \ {x}) = Cardinality(S) - (IF x \in S THEN 1 ELSE 0)
  BY OneOf
<1>2. CASE x \in T
  <2>1. T = S \union {x}
    BY <1>2
  <2>2. Cardinality(T) \in Nat
    BY <1>1, <2>1, FS_CardinalityType
  <2> QED BY <1>1, <1>2, <2>1, <2>2
<1>3. CASE x \notin T
  <2>1. T = S \ {x}
    BY <1>3
  <2>2. Cardinality(T) \in Nat
    BY <1>1, <2>1, FS_CardinalityType
  <2> QED BY <1>1, <1>3, <2>1, <2>2
<1> QED BY <1>2, <1>3

\* What is due from one request is a part of what is due.
LEMMA DuesOfOne ==
  ASSUME NEW c \in Calls, NEW d \in Nat, NEW R, IsFiniteSet(R), \A p \in R : p[1] # c
  PROVE  LET own == {c} \X (0..(d - 1)) IN
         IsFiniteSet(R \union own) /\ Cardinality(R \union own) = Cardinality(R) + d
<1> DEFINE own == {c} \X (0..(d - 1))
<1>1. IsFiniteSet(own) /\ Cardinality(own) = d
  <2>1. IsFiniteSet(0..(d - 1)) /\ Cardinality(0..(d - 1)) = d
    BY FS_Interval
  <2>2. IsFiniteSet({c}) /\ Cardinality({c}) = 1
    BY FS_Singleton
  <2>3. IsFiniteSet(own) /\ Cardinality(own) = 1 * d
    BY <2>1, <2>2, FS_Product
  <2> QED BY <2>3
<1>2. R \intersect own = {} /\ Cardinality({}) = 0
  BY FS_EmptySet
<1>3. /\ IsFiniteSet(R \union own)
      /\ Cardinality(R \union own) = Cardinality(R) + Cardinality(own) - Cardinality(R \intersect own)
  BY <1>1, FS_Union
<1>4. Cardinality(R) \in Nat
  BY FS_CardinalityType
<1> QED BY <1>1, <1>2, <1>3, <1>4

Added(c, i) == IF commentPc[c] = "incReplies" /\ under[c] = i THEN 1 ELSE 0
Taken(c, i) == IF commentPc[c] = "decReplies" /\ under[c] = i THEN 1 ELSE 0
Came(c) == IF commentPc[c] \in {"incReplies", "incCount"} THEN 1 ELSE 0

\* A request that moves changes the accounts by what it has to do itself.
LEMMA CommentLedger ==
  ASSUME Com!TypeOK, Com!TypeOK', IsFiniteSet(Leaving), NEW c \in Calls,
         \A d \in Calls \ {c} : commentPc'[d] = commentPc[d] /\ under'[d] = under[d] /\ seen'[d] = seen[d]
  PROVE  /\ \A i \in Ids :
              /\ Cardinality(Adds(i)) \in Nat
              /\ Cardinality(Adds(i)') = Cardinality(Adds(i)) - Added(c, i) + Added(c, i)'
              /\ Cardinality(Takes(i)) \in Nat
              /\ Cardinality(Takes(i)') = Cardinality(Takes(i)) - Taken(c, i) + Taken(c, i)'
         /\ Cardinality(Coming) \in Nat
         /\ Cardinality(Coming') = Cardinality(Coming) - Came(c) + Came(c)'
         /\ IsFiniteSet(Leaving') /\ Cardinality(Leaving) \in Nat
         /\ Cardinality(Leaving') = Cardinality(Leaving) - Dues(c) + Dues(c)'
<1>1. ASSUME NEW i \in Ids
      PROVE /\ Cardinality(Adds(i)) \in Nat
            /\ Cardinality(Adds(i)') = Cardinality(Adds(i)) - Added(c, i) + Added(c, i)'
  <2>1. IsFiniteSet(Adds(i)) /\ (c \in Adds(i) <=> Added(c, i) = 1) /\ Added(c, i) \in {0, 1}
    BY CommentsAssumption, FS_Subset DEF Adds, Added
  <2>2. Adds(i)' = IF Added(c, i)' = 1 THEN Adds(i) \union {c} ELSE Adds(i) \ {c}
    BY DEF Adds, Added
  <2>3. Added(c, i)' \in {0, 1}
    BY DEF Added
  <2>4. /\ Cardinality(Adds(i)) \in Nat
        /\ Cardinality(Adds(i) \union {c}) = Cardinality(Adds(i)) + 1 - Added(c, i)
        /\ Cardinality(Adds(i) \ {c}) = Cardinality(Adds(i)) - Added(c, i)
    <3>1. IsFiniteSet(Adds(i))
      BY <2>1
    <3>2. /\ Cardinality(Adds(i)) \in Nat
          /\ Cardinality(Adds(i) \union {c}) = Cardinality(Adds(i)) + (IF c \in Adds(i) THEN 0 ELSE 1)
          /\ Cardinality(Adds(i) \ {c}) = Cardinality(Adds(i)) - (IF c \in Adds(i) THEN 1 ELSE 0)
      BY <3>1, OneOf
    <3> QED BY <2>1, <3>2
  <2>5. Cardinality(Adds(i)') = IF Added(c, i)' = 1 THEN Cardinality(Adds(i) \union {c}) ELSE Cardinality(Adds(i) \ {c})
    BY <2>2
  <2> QED BY <2>1, <2>3, <2>4, <2>5
<1>2. ASSUME NEW i \in Ids
      PROVE /\ Cardinality(Takes(i)) \in Nat
            /\ Cardinality(Takes(i)') = Cardinality(Takes(i)) - Taken(c, i) + Taken(c, i)'
  <2>1. IsFiniteSet(Takes(i)) /\ (c \in Takes(i) <=> Taken(c, i) = 1) /\ Taken(c, i) \in {0, 1}
    BY CommentsAssumption, FS_Subset DEF Takes, Taken
  <2>2. Takes(i)' = IF Taken(c, i)' = 1 THEN Takes(i) \union {c} ELSE Takes(i) \ {c}
    BY DEF Takes, Taken
  <2>3. Taken(c, i)' \in {0, 1}
    BY DEF Taken
  <2>4. /\ Cardinality(Takes(i)) \in Nat
        /\ Cardinality(Takes(i) \union {c}) = Cardinality(Takes(i)) + 1 - Taken(c, i)
        /\ Cardinality(Takes(i) \ {c}) = Cardinality(Takes(i)) - Taken(c, i)
    <3>1. IsFiniteSet(Takes(i))
      BY <2>1
    <3>2. /\ Cardinality(Takes(i)) \in Nat
          /\ Cardinality(Takes(i) \union {c}) = Cardinality(Takes(i)) + (IF c \in Takes(i) THEN 0 ELSE 1)
          /\ Cardinality(Takes(i) \ {c}) = Cardinality(Takes(i)) - (IF c \in Takes(i) THEN 1 ELSE 0)
      BY <3>1, OneOf
    <3> QED BY <2>1, <3>2
  <2>5. Cardinality(Takes(i)') = IF Taken(c, i)' = 1 THEN Cardinality(Takes(i) \union {c}) ELSE Cardinality(Takes(i) \ {c})
    BY <2>2
  <2> QED BY <2>1, <2>3, <2>4, <2>5
<1>3. /\ Cardinality(Coming) \in Nat
      /\ Cardinality(Coming') = Cardinality(Coming) - Came(c) + Came(c)'
  <2>1. IsFiniteSet(Coming) /\ (c \in Coming <=> Came(c) = 1) /\ Came(c) \in {0, 1}
    BY CommentsAssumption, FS_Subset DEF Coming, Came
  <2>2. Coming' = IF Came(c)' = 1 THEN Coming \union {c} ELSE Coming \ {c}
    BY DEF Coming, Came
  <2>3. Came(c)' \in {0, 1}
    BY DEF Came
  <2>4. /\ Cardinality(Coming) \in Nat
        /\ Cardinality(Coming \union {c}) = Cardinality(Coming) + 1 - Came(c)
        /\ Cardinality(Coming \ {c}) = Cardinality(Coming) - Came(c)
    <3>1. IsFiniteSet(Coming)
      BY <2>1
    <3>2. /\ Cardinality(Coming) \in Nat
          /\ Cardinality(Coming \union {c}) = Cardinality(Coming) + (IF c \in Coming THEN 0 ELSE 1)
          /\ Cardinality(Coming \ {c}) = Cardinality(Coming) - (IF c \in Coming THEN 1 ELSE 0)
      BY <3>1, OneOf
    <3> QED BY <2>1, <3>2
  <2>5. Cardinality(Coming') = IF Came(c)' = 1 THEN Cardinality(Coming \union {c}) ELSE Cardinality(Coming \ {c})
    BY <2>2
  <2> QED BY <2>1, <2>3, <2>4, <2>5
<1>4. /\ IsFiniteSet(Leaving') /\ Cardinality(Leaving) \in Nat
      /\ Cardinality(Leaving') = Cardinality(Leaving) - Dues(c) + Dues(c)'
  <2> DEFINE R == {p \in Leaving : p[1] # c}
  <2>1. IsFiniteSet(R) /\ \A p \in R : p[1] # c
    BY FS_Subset
  <2>2. \A d \in Calls : Dues(d) \in Nat /\ Dues(d)' \in Nat
    BY DEF Dues, Com!TypeOK
  <2>3. Leaving = R \union ({c} \X (0..(Dues(c) - 1)))
    BY <2>2 DEF Leaving
  <2>4. Leaving' = R \union ({c} \X (0..(Dues(c)' - 1)))
    <3>1. \A d \in Calls \ {c} : Dues(d)' = Dues(d)
      BY DEF Dues
    <3> QED BY <2>2, <3>1 DEF Leaving
  <2> HIDE DEF R
  <2>5. Cardinality(R) \in Nat
    BY <2>1, FS_CardinalityType
  <2>6. Cardinality(Leaving) = Cardinality(R) + Dues(c)
    BY <2>1, <2>2, <2>3, DuesOfOne
  <2>7. IsFiniteSet(Leaving') /\ Cardinality(Leaving') = Cardinality(R) + Dues(c)'
    BY <2>1, <2>2, <2>4, DuesOfOne
  <2> QED BY <2>2, <2>5, <2>6, <2>7
<1> QED BY <1>1, <1>2, <1>3, <1>4

\* Replies and listed comments are finitely many.
LEMMA CommentSetsFinite ==
  /\ \A i \in Ids : IsFiniteSet(Com!LiveReplies(i)) /\ Cardinality(Com!LiveReplies(i)) \in Nat
  /\ IsFiniteSet(Com!Listed) /\ Cardinality(Com!Listed) \in Nat
<1>1. \A i : Com!LiveReplies(i) \in SUBSET Ids
  BY DEF Com!LiveReplies, Com!Live
<1>2. Com!Listed \in SUBSET Ids
  BY DEF Com!Listed, Com!Live
<1> QED BY <1>1, <1>2, CommentsAssumption, FS_Subset, FS_CardinalityType

\* Every deletion but that of c has still loaded what it had.
SeenBy(c) ==
  /\ commentPc[c] = "softDelete" => under[c] = parent[target[c]]
  /\ commentPc[c] = "decMore" => seen[c] > 0
  /\ commentExcuse = {} =>
       /\ commentPc[c] = "softDelete" /\ under[c] = None => seen[c] = replies[target[c]]
       /\ commentPc[c] \in {"softDelete", "decReplies", "decCount", "decMore"} /\ under[c] # None
            => seen[c] = 0

\* A step that writes no row: counters and accounts move together.
LEMMA CountingStep ==
  ASSUME CommentInv, Com!TypeOK', NEW c \in Calls,
         \A d \in Calls \ {c} :
           /\ commentPc'[d] = commentPc[d] /\ under'[d] = under[d]
           /\ seen'[d] = seen[d] /\ target'[d] = target[d],
         UNCHANGED <<comment, parent>>, commentExcuse \subseteq commentExcuse',
         SeenBy(c)',
         commentExcuse' = {} =>
           \A d \in Calls \ {c} : commentPc[d] = "softDelete" /\ under[d] = None =>
             replies'[target[d]] = replies[target[d]],
         commentExcuse' \subseteq {"orphan"} =>
           \A i \in Ids :
             replies'[i] = replies[i] + Added(c, i) - Added(c, i)' - Taken(c, i) + Taken(c, i)',
         commentExcuse' = {} => (Doomed(c) => Doomed(c)'),
         commentExcuse' = {} => count' = count + Came(c) - Came(c)' - Dues(c) + Dues(c)'
  PROVE  SeenKept' /\ RepliesKept' /\ CountKept'
<1> USE DEF CommentInv
<1>1. SeenKept'
  BY DEF SeenKept, SeenBy
<1>2. \A i : Com!LiveReplies(i)' = Com!LiveReplies(i)
  BY DEF Com!LiveReplies, Com!Live
<1>3. Com!Listed' = Com!Listed
  BY DEF Com!Listed, Com!Live
<1>4. /\ \A i \in Ids :
           /\ Cardinality(Adds(i)) \in Nat
           /\ Cardinality(Adds(i)') = Cardinality(Adds(i)) - Added(c, i) + Added(c, i)'
           /\ Cardinality(Takes(i)) \in Nat
           /\ Cardinality(Takes(i)') = Cardinality(Takes(i)) - Taken(c, i) + Taken(c, i)'
      /\ Cardinality(Coming) \in Nat
      /\ Cardinality(Coming') = Cardinality(Coming) - Came(c) + Came(c)'
      /\ IsFiniteSet(Leaving') /\ Cardinality(Leaving) \in Nat
      /\ Cardinality(Leaving') = Cardinality(Leaving) - Dues(c) + Dues(c)'
  BY CommentLedger DEF CountKept
<1>5. RepliesKept'
  <2> SUFFICES ASSUME commentExcuse' \subseteq {"orphan"}, NEW i \in Ids
               PROVE  replies'[i] = Cardinality(Com!LiveReplies(i)') - Cardinality(Adds(i)') + Cardinality(Takes(i)')
    BY DEF RepliesKept
  <2>1. replies[i] = Cardinality(Com!LiveReplies(i)) - Cardinality(Adds(i)) + Cardinality(Takes(i))
    BY DEF RepliesKept
  <2>2. Added(c, i) \in Nat /\ Added(c, i)' \in Nat /\ Taken(c, i) \in Nat /\ Taken(c, i)' \in Nat
    BY DEF Added, Taken
  <2>3. Cardinality(Com!LiveReplies(i)) \in Nat
    BY CommentSetsFinite
  <2> QED BY <1>2, <1>4, <2>1, <2>2, <2>3
<1>6. CountKept'
  <2> SUFFICES ASSUME commentExcuse' = {}, \A d \in Calls : ~Doomed(d)'
               PROVE  count' = Cardinality(Com!Listed') - Cardinality(Coming') + Cardinality(Leaving')
    BY <1>4 DEF CountKept
  <2>1. \A d \in Calls : ~Doomed(d)
    BY DEF Doomed
  <2>2. count = Cardinality(Com!Listed) - Cardinality(Coming) + Cardinality(Leaving)
    BY <2>1 DEF CountKept
  <2>3. Came(c) \in Nat /\ Came(c)' \in Nat /\ Dues(c) \in Nat /\ Dues(c)' \in Nat
    BY DEF Came, Dues, Com!TypeOK
  <2>4. Cardinality(Com!Listed) \in Nat
    BY CommentSetsFinite
  <2> QED BY <1>3, <1>4, <2>2, <2>3, <2>4
<1> QED BY <1>1, <1>5, <1>6

\* Steps that only move a counter, or start or end a request.
LEMMA CountingSteps ==
  ASSUME CommentInv, Com!TypeOK', NEW c \in Calls,
         \/ Com!CreateCheck(c) \/ Com!IncReplies(c) \/ Com!IncCount(c) \/ Com!DeleteFind(c)
         \/ Com!DecReplies(c) \/ Com!DecCount(c) \/ Com!DecMore(c) \/ Com!Fail(c)
  PROVE  SeenKept' /\ RepliesKept' /\ CountKept'
<1> USE CommentsAssumption DEF CommentInv, Com!TypeOK, Com!Steps, SeenBy, Added, Taken, Came, Dues, Doomed
<1>1. CASE Com!CreateCheck(c)
  BY <1>1, CountingStep DEF Com!CreateCheck
<1>2. CASE Com!IncReplies(c)
  <2>1. commentExcuse' = {} => comment[under[c]] # "deleted" /\ \A d \in Calls : ~(commentPc[d] = "softDelete" /\ target[d] = under[c])
    BY <1>2 DEF Com!IncReplies, Com!Orphans
  <2> QED BY <1>2, <2>1, CountingStep DEF Com!IncReplies, Com!GoTo, Com!rows
<1>3. CASE Com!IncCount(c)
  BY <1>3, CountingStep DEF Com!IncCount, Com!Return, Com!rows
<1>4. CASE Com!DeleteFind(c)
  <2>1. PICK i \in Com!Live :
          /\ target' = [target EXCEPT ![c] = i]
          /\ under' = [under EXCEPT ![c] = parent[i]]
          /\ seen' = [seen EXCEPT ![c] = replies[i]]
    BY <1>4 DEF Com!DeleteFind
  <2>2. i \in Ids /\ comment[i] = "live"
    BY <2>1 DEF Com!Live
  <2>3. parent[i] # None /\ commentExcuse = {} => replies[i] = 0
    <3> SUFFICES ASSUME parent[i] # None, commentExcuse = {} PROVE replies[i] = 0
      OBVIOUS
    <3>1. Adds(i) = {} /\ Takes(i) = {}
      BY <2>2 DEF Adds, Takes, Com!TwoLevels
    <3>2. Com!LiveReplies(i) = {}
      BY <2>2 DEF Com!LiveReplies, Com!Live, Com!TwoLevels
    <3>3. replies[i] = Cardinality(Com!LiveReplies(i)) - Cardinality(Adds(i)) + Cardinality(Takes(i))
      BY <2>2 DEF RepliesKept
    <3> QED BY <3>1, <3>2, <3>3, FS_EmptySet
  <2> QED BY <1>4, <2>1, <2>2, <2>3, CountingStep DEF Com!DeleteFind, Com!rows
<1>5. CASE Com!DecReplies(c)
  <2>1. commentExcuse' = {} => comment[under[c]] # "deleted" /\ \A d \in Calls : ~(commentPc[d] = "softDelete" /\ target[d] = under[c])
    BY <1>5 DEF Com!DecReplies, Com!Orphans
  <2> QED BY <1>5, <2>1, CountingStep DEF Com!DecReplies, Com!GoTo, Com!rows, SeenKept
<1>6. CASE Com!DecCount(c)
  BY <1>6, CountingStep DEF Com!DecCount, Com!GoTo, Com!Return, Com!rows, SeenKept
<1>7. CASE Com!DecMore(c)
  BY <1>7, CountingStep DEF Com!DecMore, Com!Return, Com!rows, SeenKept
<1>8. CASE Com!Fail(c)
  BY <1>8, CountingStep DEF Com!Fail, Com!Return, Com!rows
<1> QED BY <1>1, <1>2, <1>3, <1>4, <1>5, <1>6, <1>7, <1>8

\* A comment is written: its root has one reply more, and it is coming.
LEMMA InsertCommentStep ==
  ASSUME CommentInv, Com!TypeOK', NEW c \in Calls, Com!InsertComment(c)
  PROVE  SeenKept' /\ RepliesKept' /\ CountKept'
<1> USE DEF CommentInv
<1>1. PICK i \in Ids :
        /\ comment[i] = "absent"
        /\ comment' = [comment EXCEPT ![i] = "live"]
        /\ parent' = [parent EXCEPT ![i] = under[c]]
  BY DEF Com!InsertComment
<1>2. /\ commentPc[c] = "insert"
      /\ commentPc' = [commentPc EXCEPT ![c] = IF under[c] = None THEN "incCount" ELSE "incReplies"]
      /\ commentExcuse' = commentExcuse \union Com!Orphans(under[c])
      /\ UNCHANGED <<target, under, seen, replies, count, faults>>
  BY DEF Com!InsertComment, Com!GoTo
<1>3. /\ comment'[i] = "live" /\ parent'[i] = under[c] /\ under[c] # i
      /\ \A j \in Ids \ {i} : comment'[j] = comment[j] /\ parent'[j] = parent[j]
      /\ \A j \in Ids : parent[j] # i
      /\ \A d \in Calls : under[d] # i /\ (commentPc[d] = "softDelete" => target[d] # i)
      /\ parent[i] = None /\ replies[i] = 0
  BY <1>1, CommentsAssumption DEF Com!TypeOK, Com!TwoLevels
<1>4. commentPc'[c] = (IF under[c] = None THEN "incCount" ELSE "incReplies")
      /\ \A d \in Calls \ {c} : commentPc'[d] = commentPc[d]
  BY <1>2 DEF Com!TypeOK
<1>5. SeenKept'
  <2>1. \A d \in Calls \ {c} : commentPc[d] = "softDelete" => target[d] \in Ids \ {i}
    BY <1>3 DEF Com!TypeOK
  <2>2. commentExcuse' = {} => commentExcuse = {}
    BY <1>2
  <2> QED BY <1>2, <1>3, <1>4, <2>1, <2>2 DEF SeenKept
<1>6. /\ \A j \in Ids :
           /\ Cardinality(Adds(j)) \in Nat
           /\ Cardinality(Adds(j)') = Cardinality(Adds(j)) - Added(c, j) + Added(c, j)'
           /\ Cardinality(Takes(j)) \in Nat
           /\ Cardinality(Takes(j)') = Cardinality(Takes(j)) - Taken(c, j) + Taken(c, j)'
      /\ Cardinality(Coming) \in Nat
      /\ Cardinality(Coming') = Cardinality(Coming) - Came(c) + Came(c)'
      /\ IsFiniteSet(Leaving') /\ Cardinality(Leaving) \in Nat
      /\ Cardinality(Leaving') = Cardinality(Leaving) - Dues(c) + Dues(c)'
  BY <1>2, <1>4, CommentLedger DEF CountKept
<1>7. /\ Came(c) = 0 /\ Came(c)' = 1 /\ Dues(c) = 0 /\ Dues(c)' = 0
      /\ \A j \in Ids : /\ Taken(c, j) = 0 /\ Taken(c, j)' = 0 /\ Added(c, j) = 0
                        /\ Added(c, j)' = IF under[c] = j THEN 1 ELSE 0
  BY <1>2, <1>4, CommentsAssumption DEF Came, Dues, Taken, Added
<1>8. RepliesKept'
  <2> SUFFICES ASSUME commentExcuse' \subseteq {"orphan"}, NEW j \in Ids
               PROVE  replies'[j] = Cardinality(Com!LiveReplies(j)') - Cardinality(Adds(j)') + Cardinality(Takes(j)')
    BY DEF RepliesKept
  <2>1. replies[j] = Cardinality(Com!LiveReplies(j)) - Cardinality(Adds(j)) + Cardinality(Takes(j))
    BY <1>2 DEF RepliesKept
  <2>2. IsFiniteSet(Com!LiveReplies(j)) /\ Cardinality(Com!LiveReplies(j)) \in Nat
    BY CommentSetsFinite
  <2>3. i \notin Com!LiveReplies(j)
    BY <1>1 DEF Com!LiveReplies, Com!Live
  <2>4. CASE under[c] = j
    <3>1. Com!LiveReplies(j)' = Com!LiveReplies(j) \union {i}
      BY <1>3, <2>4 DEF Com!LiveReplies, Com!Live
    <3>2. Cardinality(Com!LiveReplies(j) \union {i}) = Cardinality(Com!LiveReplies(j)) + 1
      BY <2>2, <2>3, FS_AddElement
    <3> QED BY <1>2, <1>6, <1>7, <2>1, <2>2, <2>4, <3>1, <3>2
  <2>5. CASE under[c] # j
    <3>1. Com!LiveReplies(j)' = Com!LiveReplies(j)
      BY <1>3, <2>3, <2>5 DEF Com!LiveReplies, Com!Live
    <3> QED BY <1>2, <1>6, <1>7, <2>1, <2>2, <2>5, <3>1
  <2> QED BY <2>4, <2>5
<1>9. CountKept'
  <2> SUFFICES ASSUME commentExcuse' = {}, \A d \in Calls : ~Doomed(d)'
               PROVE  count' = Cardinality(Com!Listed') - Cardinality(Coming') + Cardinality(Leaving')
    BY <1>6 DEF CountKept
  <2>1. \A d \in Calls : ~Doomed(d)
    <3>1. ~Doomed(c)
      BY <1>2 DEF Doomed
    <3>2. \A d \in Calls \ {c} : Doomed(d) => Doomed(d)'
      BY <1>1, <1>2, <1>3, <1>4 DEF Doomed, Com!TypeOK
    <3> QED BY <3>1, <3>2
  <2>2. count = Cardinality(Com!Listed) - Cardinality(Coming) + Cardinality(Leaving)
    BY <1>2, <2>1 DEF CountKept
  <2>3. under[c] # None => comment[under[c]] = "live" /\ under[c] \in Ids
    BY <1>2, SMTT(30) DEF Com!Orphans, Com!TwoLevels, Com!TypeOK
  <2>4. Com!Listed' = Com!Listed \union {i} /\ i \notin Com!Listed
    BY <1>1, <1>3, <2>3, CommentsAssumption DEF Com!Listed, Com!Live, Com!TypeOK
  <2>5. /\ Cardinality(Com!Listed \union {i}) = Cardinality(Com!Listed) + 1
        /\ Cardinality(Com!Listed) \in Nat
    BY <2>4, CommentSetsFinite, FS_AddElement
  <2> QED BY <1>2, <1>6, <1>7, <2>2, <2>4, <2>5
<1> QED BY <1>5, <1>8, <1>9

\* A comment is deleted: a reply leaves alone, a root with the replies it has.
LEMMA SoftDeleteStep ==
  ASSUME CommentInv, Com!TypeOK', NEW c \in Calls, Com!SoftDelete(c)
  PROVE  SeenKept' /\ RepliesKept' /\ CountKept'
<1> USE DEF CommentInv
<1> DEFINE t == target[c]
<1>1. /\ t \in Ids /\ comment[t] # "absent" /\ commentPc[c] = "softDelete" /\ under[c] = parent[t]
      /\ comment' = [comment EXCEPT ![t] = "deleted"]
      /\ commentExcuse' = commentExcuse \union Com!Orphans(under[c])
                            \union (IF comment[t] = "deleted" THEN {"double"} ELSE {})
      /\ commentPc' = [commentPc EXCEPT ![c] = IF under[c] = None THEN "decCount" ELSE "decReplies"]
      /\ UNCHANGED <<target, under, seen, parent, replies, count, faults>>
  BY DEF Com!SoftDelete, Com!GoTo, Com!TypeOK, SeenKept
<1>2. comment'[t] = "deleted" /\ \A j \in Ids \ {t} : comment'[j] = comment[j]
  BY <1>1 DEF Com!TypeOK
<1>3. commentExcuse' \subseteq {"orphan"} => comment[t] = "live"
  BY <1>1 DEF Com!TypeOK
<1>4. commentPc'[c] = (IF under[c] = None THEN "decCount" ELSE "decReplies")
      /\ \A d \in Calls \ {c} : commentPc'[d] = commentPc[d]
  BY <1>1 DEF Com!TypeOK
<1>5. SeenKept'
  BY <1>1, <1>4 DEF SeenKept
<1>6. /\ \A j \in Ids :
           /\ Cardinality(Adds(j)) \in Nat
           /\ Cardinality(Adds(j)') = Cardinality(Adds(j)) - Added(c, j) + Added(c, j)'
           /\ Cardinality(Takes(j)) \in Nat
           /\ Cardinality(Takes(j)') = Cardinality(Takes(j)) - Taken(c, j) + Taken(c, j)'
      /\ Cardinality(Coming) \in Nat
      /\ Cardinality(Coming') = Cardinality(Coming) - Came(c) + Came(c)'
      /\ IsFiniteSet(Leaving') /\ Cardinality(Leaving) \in Nat
      /\ Cardinality(Leaving') = Cardinality(Leaving) - Dues(c) + Dues(c)'
  BY <1>1, <1>4, CommentLedger DEF CountKept
<1>7. /\ Came(c) = 0 /\ Came(c)' = 0 /\ Dues(c) = 0
      /\ Dues(c)' = 1 + (IF seen[c] > 0 THEN seen[c] ELSE 0)
      /\ \A j \in Ids : /\ Added(c, j) = 0 /\ Added(c, j)' = 0 /\ Taken(c, j) = 0
                        /\ Taken(c, j)' = IF under[c] = j THEN 1 ELSE 0
  BY <1>1, <1>4, CommentsAssumption DEF Came, Dues, Taken, Added
<1>8. RepliesKept'
  <2> SUFFICES ASSUME commentExcuse' \subseteq {"orphan"}, NEW j \in Ids
               PROVE  replies'[j] = Cardinality(Com!LiveReplies(j)') - Cardinality(Adds(j)') + Cardinality(Takes(j)')
    BY DEF RepliesKept
  <2>1. replies[j] = Cardinality(Com!LiveReplies(j)) - Cardinality(Adds(j)) + Cardinality(Takes(j))
    BY <1>1 DEF RepliesKept
  <2>2. IsFiniteSet(Com!LiveReplies(j)) /\ Cardinality(Com!LiveReplies(j)) \in Nat
    BY CommentSetsFinite
  <2>3. Com!LiveReplies(j)' = Com!LiveReplies(j) \ {t}
    BY <1>1, <1>2 DEF Com!LiveReplies, Com!Live
  <2>4. t \in Com!LiveReplies(j) <=> under[c] = j
    BY <1>1, <1>3 DEF Com!LiveReplies, Com!Live
  <2>5. Cardinality(Com!LiveReplies(j) \ {t}) =
          Cardinality(Com!LiveReplies(j)) - (IF t \in Com!LiveReplies(j) THEN 1 ELSE 0)
    BY <2>2, OneOf
  <2> QED BY <1>1, <1>6, <1>7, <2>1, <2>2, <2>3, <2>4, <2>5
<1>9. CountKept'
  <2> SUFFICES ASSUME commentExcuse' = {}, \A d \in Calls : ~Doomed(d)'
               PROVE  count' = Cardinality(Com!Listed') - Cardinality(Coming') + Cardinality(Leaving')
    BY <1>6 DEF CountKept
  <2>0. commentExcuse = {} /\ comment[t] = "live"
    BY <1>1, <1>3
  <2>1. \A d \in Calls : ~Doomed(d)
    <3>1. ~Doomed(c)
      BY <1>1 DEF Doomed
    <3>2. \A d \in Calls \ {c} : Doomed(d) => Doomed(d)'
      BY <1>1, <1>2, <1>4 DEF Doomed, Com!TypeOK
    <3> QED BY <3>1, <3>2
  <2>2. count = Cardinality(Com!Listed) - Cardinality(Coming) + Cardinality(Leaving)
    BY <2>0, <2>1 DEF CountKept
  <2>3. IsFiniteSet(Com!Listed) /\ Cardinality(Com!Listed) \in Nat
    BY CommentSetsFinite
  <2>4. CASE under[c] # None
    <3>1. comment[under[c]] = "live" /\ under[c] \in Ids /\ under[c] # t
      <4>1. Com!Orphans(under[c]) = {}
        BY <1>1
      <4>2. under[c] \in Ids /\ comment[under[c]] # "absent" /\ parent[under[c]] = None
        BY <2>4 DEF Com!TwoLevels, Com!TypeOK
      <4>3. comment[under[c]] # "deleted"
        BY <2>4, <4>1 DEF Com!Orphans
      <4> QED BY <1>1, <2>4, <4>2, <4>3 DEF Com!TypeOK
    <3>2. Com!Listed' = Com!Listed \ {t} /\ t \in Com!Listed
      BY <1>1, <1>2, <2>0, <2>4, <3>1 DEF Com!Listed, Com!Live, Com!TwoLevels
    <3>3. Cardinality(Com!Listed \ {t}) = Cardinality(Com!Listed) - 1
      BY <2>3, <3>2, FS_RemoveElement
    <3>4. seen[c] = 0
      BY <1>1, <2>0, <2>4 DEF SeenKept
    <3> QED BY <1>1, <1>6, <1>7, <2>2, <2>3, <3>2, <3>3, <3>4
  <2>5. CASE under[c] = None
    <3>1. Adds(t) = {} /\ Takes(t) = {}
      <4>1. \A d \in Calls : commentPc[d] \in {"incReplies", "decReplies"} /\ under[d] = t => d # c
        BY <1>1
      <4>2. \A d \in Calls \ {c} : commentPc[d] \in {"incReplies", "decReplies"} /\ under[d] = t => Doomed(d)'
        BY <1>1, <1>2, <1>4 DEF Doomed
      <4> QED BY <4>1, <4>2 DEF Adds, Takes
    <3>2. seen[c] = Cardinality(Com!LiveReplies(t)) /\ Cardinality(Com!LiveReplies(t)) \in Nat
      <4>1. seen[c] = replies[t]
        BY <1>1, <2>0, <2>5 DEF SeenKept
      <4>2. replies[t] = Cardinality(Com!LiveReplies(t)) - Cardinality(Adds(t)) + Cardinality(Takes(t))
        BY <1>1, <2>0 DEF RepliesKept
      <4> QED BY <1>1, <3>1, <4>1, <4>2, CommentSetsFinite, FS_EmptySet
    <3>3. /\ Com!Listed' = (Com!Listed \ Com!LiveReplies(t)) \ {t}
          /\ t \in Com!Listed \ Com!LiveReplies(t) /\ Com!LiveReplies(t) \subseteq Com!Listed
      <4>1. parent[t] = None
        BY <1>1, <2>5
      <4> QED BY <1>1, <1>2, <2>0, <4>1, CommentsAssumption DEF Com!Listed, Com!Live, Com!LiveReplies
    <3>4. /\ IsFiniteSet(Com!Listed \ Com!LiveReplies(t))
          /\ Cardinality(Com!Listed \ Com!LiveReplies(t)) = Cardinality(Com!Listed) - Cardinality(Com!LiveReplies(t))
      <4>1. IsFiniteSet(Com!LiveReplies(t)) /\ Com!Listed \intersect Com!LiveReplies(t) = Com!LiveReplies(t)
        BY <1>1, <3>3, CommentSetsFinite
      <4> QED BY <2>3, <4>1, FS_Difference
    <3>5. Cardinality((Com!Listed \ Com!LiveReplies(t)) \ {t}) = Cardinality(Com!Listed \ Com!LiveReplies(t)) - 1
      BY <3>3, <3>4, FS_RemoveElement
    <3> QED BY <1>1, <1>6, <1>7, <2>2, <2>3, <3>2, <3>3, <3>4, <3>5
  <2> QED BY <2>4, <2>5
<1> QED BY <1>5, <1>8, <1>9

\* With no comments the account is even.
LEMMA CommentInit == Com!Init => CommentInv
<1> SUFFICES ASSUME Com!Init PROVE CommentInv
  OBVIOUS
<1>1. Com!TypeOK /\ Com!TwoLevels
  BY CommentsAssumption DEF Com!Init, Com!TypeOK, Com!TwoLevels, Com!Steps
<1>2. SeenKept
  BY DEF Com!Init, SeenKept
<1>3. Coming = {} /\ Com!Listed = {} /\ Leaving = {} /\ \A i \in Ids : Adds(i) = {} /\ Takes(i) = {} /\ Com!LiveReplies(i) = {}
  BY DEF Com!Init, Coming, Com!Listed, Com!Live, Leaving, Dues, Adds, Takes, Com!LiveReplies
<1>4. RepliesKept /\ CountKept
  BY <1>3, FS_EmptySet DEF Com!Init, RepliesKept, CountKept
<1> QED BY <1>1, <1>2, <1>4 DEF CommentInv

\* Every step of a request for a comment keeps the account.
LEMMA CommentStep ==
  ASSUME CommentInv, [Com!Next]_commentVars
  PROVE  CommentInv'
<1>1. Com!TypeOK' /\ Com!TwoLevels'
  BY CommentTypes, LevelStep DEF CommentInv
<1>2. CASE \E c \in Calls : Com!InsertComment(c)
  BY <1>1, <1>2, InsertCommentStep DEF CommentInv
<1>3. CASE \E c \in Calls : Com!SoftDelete(c)
  BY <1>1, <1>3, SoftDeleteStep DEF CommentInv
<1>4. CASE \E c \in Calls :
             \/ Com!CreateCheck(c) \/ Com!IncReplies(c) \/ Com!IncCount(c) \/ Com!DeleteFind(c)
             \/ Com!DecReplies(c) \/ Com!DecCount(c) \/ Com!DecMore(c) \/ Com!Fail(c)
  BY <1>1, <1>4, CountingSteps DEF CommentInv
<1>5. CASE UNCHANGED commentVars
  BY <1>1, <1>5 DEF commentVars, CommentInv, SeenKept, RepliesKept, CountKept, Coming, Com!Listed, Com!Live,
     Leaving, Dues, Adds, Takes, Com!LiveReplies, Doomed
<1>6. CASE Com!Rest
  BY <1>5, <1>6 DEF Com!Rest, Com!vars, Com!rows, Com!requests, commentVars
<1> QED BY <1>2, <1>3, <1>4, <1>5, <1>6 DEF Com!Next, Com!Step

\* The accounts of a post balance in every state.
THEOREM CommentsInvariant == MCSpec => []CommentInv
<1>1. MCInit => CommentInv
  BY CommentInit DEF MCInit
<1>2. CommentInv /\ [MCNext]_allVars => CommentInv'
  BY StepOfOne, CommentStep
<1> QED BY <1>1, <1>2, PTL DEF MCSpec

\* A comment thread is two levels deep (MCSocial!TwoLevels).
THEOREM CommentsAreTwoLevels == MCSpec => []TwoLevels
<1>1. CommentInv => TwoLevels
  BY DEF CommentInv, TwoLevels
<1> QED BY <1>1, CommentsInvariant, PTL

\* At rest nothing is coming or leaving, and the counters are the rows.
LEMMA CommentsExplained == CommentInv => Com!CountExplained
<1> SUFFICES ASSUME CommentInv, Com!Idle PROVE Com!CountExplained
  BY DEF Com!CountExplained
<1>1. Coming = {} /\ Leaving = {} /\ \A i \in Ids : Adds(i) = {} /\ Takes(i) = {}
  BY DEF Com!Idle, Coming, Leaving, Dues, Adds, Takes
<1>2. \A c \in Calls : ~Doomed(c)
  BY DEF Com!Idle, Doomed
<1>3. Cardinality({}) = 0
  BY FS_EmptySet
<1>4. commentExcuse = {} => count = Cardinality(Com!Listed)
  BY <1>1, <1>2, <1>3, CommentSetsFinite DEF CommentInv, CountKept
<1>5. commentExcuse \subseteq {"orphan"} => \A i \in Ids : replies[i] = Cardinality(Com!LiveReplies(i))
  BY <1>1, <1>3, CommentSetsFinite DEF CommentInv, RepliesKept
<1> QED BY <1>4, <1>5, SameCardinality DEF Com!CountExplained

(***************************************************************************)
(* Likes.  The counter and the requests that have still to count are       *)
(* weighed against the rows.                                               *)
(***************************************************************************)
Incs == {c \in Calls : likePc[c] = "inc"}
Decs == {c \in Calls : likePc[c] = "dec"}

\* Two requests of one user overlap, and only then is the row that one has found
\* taken away by another.
LikeStage ==
  /\ \A c, d \in Calls :
       c # d /\ liker[c] = liker[d] /\ likePc[c] # "idle" /\ likePc[d] # "idle" => "overlap" \in likeExcuse
  /\ \A c \in Calls : likePc[c] = "delete" => like[liker[c]] = likeRow[c] \/ "overlap" \in likeExcuse

\* The counter is off only for a reason, also while requests are open.
LikeBalance ==
  LET rows == Cardinality(Lik!Likers) + Cardinality(Decs)
      told == likes + Cardinality(Incs) IN
    /\ told > rows => "unlikeLost" \in likeExcuse
    /\ told < rows => likeExcuse \intersect {"overlap", "likeLost"} # {}

LikeInv == Lik!TypeOK /\ LikeStage /\ LikeBalance


\* Likes, and the requests that have still to count, are finitely many.
LEMMA LikersFinite ==
  ASSUME Lik!TypeOK
  PROVE  /\ IsFiniteSet(Lik!Likers) /\ Cardinality(Lik!Likers) \in Nat
         /\ IsFiniteSet(Incs) /\ Cardinality(Incs) \in Nat
         /\ IsFiniteSet(Decs) /\ Cardinality(Decs) \in Nat
<1>1. Lik!Likers \in SUBSET Users
  BY DEF Lik!Likers
<1>2. Incs \in SUBSET Calls /\ Decs \in SUBSET Calls
  BY DEF Incs, Decs
<1> QED BY <1>1, <1>2, LikesAssumption, CommentsAssumption, FS_Subset, FS_CardinalityType

IsInc(c) == IF likePc[c] = "inc" THEN 1 ELSE 0
IsDec(c) == IF likePc[c] = "dec" THEN 1 ELSE 0
Row(u) == IF like[u] # 0 THEN 1 ELSE 0

\* A request that moves, and the row of one user, change what is weighed.
LEMMA LikeLedger ==
  ASSUME Lik!TypeOK, Lik!TypeOK', NEW c \in Calls, NEW u \in Users,
         \A d \in Calls \ {c} : likePc'[d] = likePc[d],
         \A v \in Users \ {u} : like'[v] = like[v]
  PROVE  /\ Cardinality(Incs') = Cardinality(Incs) - IsInc(c) + IsInc(c)'
         /\ Cardinality(Decs') = Cardinality(Decs) - IsDec(c) + IsDec(c)'
         /\ Cardinality(Lik!Likers') = Cardinality(Lik!Likers) - Row(u) + Row(u)'
<1>1. IsFiniteSet(Incs) /\ IsFiniteSet(Decs) /\ IsFiniteSet(Lik!Likers)
  BY LikersFinite
<1>2. Cardinality(Incs') = Cardinality(Incs) - IsInc(c) + IsInc(c)'
  <2>1. Incs' = IF IsInc(c)' = 1 THEN Incs \union {c} ELSE Incs \ {c}
    BY DEF Incs, IsInc
  <2>2. /\ Cardinality(Incs) \in Nat
        /\ Cardinality(Incs \union {c}) = Cardinality(Incs) + (IF c \in Incs THEN 0 ELSE 1)
        /\ Cardinality(Incs \ {c}) = Cardinality(Incs) - (IF c \in Incs THEN 1 ELSE 0)
    BY <1>1, OneOf
  <2>3. IsInc(c)' \in {0, 1} /\ IsInc(c) = (IF c \in Incs THEN 1 ELSE 0)
    BY DEF Incs, IsInc
  <2> QED BY <2>1, <2>2, <2>3
<1>3. Cardinality(Decs') = Cardinality(Decs) - IsDec(c) + IsDec(c)'
  <2>1. Decs' = IF IsDec(c)' = 1 THEN Decs \union {c} ELSE Decs \ {c}
    BY DEF Decs, IsDec
  <2>2. /\ Cardinality(Decs) \in Nat
        /\ Cardinality(Decs \union {c}) = Cardinality(Decs) + (IF c \in Decs THEN 0 ELSE 1)
        /\ Cardinality(Decs \ {c}) = Cardinality(Decs) - (IF c \in Decs THEN 1 ELSE 0)
    BY <1>1, OneOf
  <2>3. IsDec(c)' \in {0, 1} /\ IsDec(c) = (IF c \in Decs THEN 1 ELSE 0)
    BY DEF Decs, IsDec
  <2> QED BY <2>1, <2>2, <2>3
<1>4. Cardinality(Lik!Likers') = Cardinality(Lik!Likers) - Row(u) + Row(u)'
  <2>1. Lik!Likers' = IF Row(u)' = 1 THEN Lik!Likers \union {u} ELSE Lik!Likers \ {u}
    BY DEF Lik!Likers, Row
  <2>2. /\ Cardinality(Lik!Likers) \in Nat
        /\ Cardinality(Lik!Likers \union {u}) = Cardinality(Lik!Likers) + (IF u \in Lik!Likers THEN 0 ELSE 1)
        /\ Cardinality(Lik!Likers \ {u}) = Cardinality(Lik!Likers) - (IF u \in Lik!Likers THEN 1 ELSE 0)
    BY <1>1, OneOf
  <2>3. Row(u)' \in {0, 1} /\ Row(u) = (IF u \in Lik!Likers THEN 1 ELSE 0)
    BY DEF Lik!Likers, Row
  <2> QED BY <2>1, <2>2, <2>3
<1> QED BY <1>2, <1>3, <1>4

\* A request that stays or ends: nobody overlaps with it who did not, and what
\* the others have found is still there if no row but its user's changes.
LEMMA LikeStageStep ==
  ASSUME Lik!TypeOK, Lik!TypeOK', LikeStage, NEW c \in Calls, likePc[c] # "idle",
         \A d \in Calls \ {c} : likePc'[d] = likePc[d] /\ liker'[d] = liker[d] /\ likeRow'[d] = likeRow[d],
         likePc'[c] # "delete", likePc'[c] # "idle" => liker'[c] = liker[c],
         \A u \in Users : like[u] # 0 => like'[u] = like[u] \/ u = liker[c],
         likeExcuse \subseteq likeExcuse'
  PROVE  LikeStage'
<1>1. ASSUME NEW d \in Calls, NEW e \in Calls, d # e, liker'[d] = liker'[e], likePc'[d] # "idle", likePc'[e] # "idle"
      PROVE  "overlap" \in likeExcuse'
  BY <1>1 DEF LikeStage
<1>2. ASSUME NEW d \in Calls, likePc'[d] = "delete", "overlap" \notin likeExcuse'
      PROVE  like'[liker'[d]] = likeRow'[d]
  <2>1. d # c /\ likePc[d] = "delete" /\ liker'[d] = liker[d] /\ likeRow'[d] = likeRow[d]
    BY <1>2
  <2>2. like[liker[d]] = likeRow[d] /\ liker[d] # liker[c]
    BY <1>2, <2>1 DEF LikeStage
  <2>3. liker[d] \in Users /\ likeRow[d] # 0
    BY <2>1 DEF Lik!TypeOK
  <2> QED BY <2>1, <2>2, <2>3
<1> QED BY <1>1, <1>2 DEF LikeStage

\* Every step keeps the types, and who overlaps whom.
LEMMA LikeTypes ==
  ASSUME Lik!TypeOK, LikeStage, NEW c \in Calls, Lik!Step(c)
  PROVE  Lik!TypeOK' /\ LikeStage'
<1>1. CASE Lik!FindLike(c)
  <2>1. PICK u \in Users :
          /\ liker' = [liker EXCEPT ![c] = u]
          /\ likePc' = [likePc EXCEPT ![c] = IF like[u] = 0 THEN "insert" ELSE "delete"]
          /\ likeRow' = [likeRow EXCEPT ![c] = IF like[u] = 0 THEN toggles' ELSE like[u]]
          /\ likeExcuse' = IF \E d \in Calls : liker[d] = u THEN likeExcuse \union {"overlap"} ELSE likeExcuse
    BY <1>1 DEF Lik!FindLike
  <2>2. toggles < MaxToggles /\ toggles' = toggles + 1 /\ like' = like /\ likes' = likes /\ likePc[c] = "idle"
    BY <1>1 DEF Lik!FindLike
  <2>3. /\ likeExcuse \subseteq likeExcuse' /\ likeExcuse' \subseteq {"overlap", "likeLost", "unlikeLost"}
        /\ (\E d \in Calls : liker[d] = u) => "overlap" \in likeExcuse'
    BY <2>1 DEF Lik!TypeOK
  <2>4. Lik!TypeOK'
    BY <2>1, <2>2, <2>3, LikesAssumption DEF Lik!TypeOK
  <2>5. /\ liker'[c] = u /\ (likePc'[c] = "delete" => likeRow'[c] = like[u])
        /\ \A d \in Calls \ {c} : likePc'[d] = likePc[d] /\ liker'[d] = liker[d] /\ likeRow'[d] = likeRow[d]
    BY <2>1 DEF Lik!TypeOK
  <2>6. ASSUME NEW d \in Calls, NEW e \in Calls, d # e, liker'[d] = liker'[e], likePc'[d] # "idle", likePc'[e] # "idle"
        PROVE  "overlap" \in likeExcuse'
    <3>1. CASE d # c /\ e # c
      BY <2>3, <2>5, <2>6, <3>1 DEF LikeStage
    <3>2. CASE d = c
      <4>1. liker[e] = u
        BY <2>5, <2>6, <3>2
      <4> QED BY <2>3, <4>1
    <3>3. CASE e = c
      <4>1. liker[d] = u
        BY <2>5, <2>6, <3>3
      <4> QED BY <2>3, <4>1
    <3> QED BY <3>1, <3>2, <3>3
  <2>7. ASSUME NEW d \in Calls, likePc'[d] = "delete", "overlap" \notin likeExcuse'
        PROVE  like'[liker'[d]] = likeRow'[d]
    <3>1. CASE d = c
      BY <2>2, <2>5, <2>7, <3>1
    <3>2. CASE d # c
      <4>1. likePc[d] = "delete" /\ liker'[d] = liker[d] /\ likeRow'[d] = likeRow[d] /\ "overlap" \notin likeExcuse
        BY <2>3, <2>5, <2>7, <3>2
      <4> QED BY <2>2, <4>1 DEF LikeStage
    <3> QED BY <3>1, <3>2
  <2> QED BY <2>4, <2>6, <2>7 DEF LikeStage
<1>2. CASE Lik!InsertLike(c)
  <2>1. Lik!TypeOK'
    BY <1>2, LikesAssumption DEF Lik!InsertLike, Lik!GoTo, Lik!Return, Lik!TypeOK
  <2>2. /\ likePc[c] = "insert" /\ liker[c] \in Users /\ likeExcuse' = likeExcuse
        /\ like' = like \/ (like[liker[c]] = 0 /\ like' = [like EXCEPT ![liker[c]] = likeRow[c]])
        /\ likePc'[c] \in {"inc", "idle"} /\ (likePc'[c] # "idle" => liker'[c] = liker[c])
        /\ \A d \in Calls \ {c} : likePc'[d] = likePc[d] /\ liker'[d] = liker[d] /\ likeRow'[d] = likeRow[d]
    BY <1>2 DEF Lik!InsertLike, Lik!GoTo, Lik!Return, Lik!TypeOK
  <2>3. \A u \in Users : like[u] # 0 => like'[u] = like[u]
    BY <2>2 DEF Lik!TypeOK
  <2> QED BY <2>1, <2>2, <2>3, LikeStageStep
<1>3. CASE Lik!DeleteLike(c)
  <2>1. Lik!TypeOK'
    BY <1>3, LikesAssumption DEF Lik!DeleteLike, Lik!GoTo, Lik!TypeOK
  <2>2. /\ likePc[c] = "delete" /\ liker[c] \in Users /\ likeExcuse' = likeExcuse
        /\ \A u \in Users \ {liker[c]} : like'[u] = like[u]
        /\ likePc'[c] = "dec" /\ liker'[c] = liker[c]
        /\ \A d \in Calls \ {c} : likePc'[d] = likePc[d] /\ liker'[d] = liker[d] /\ likeRow'[d] = likeRow[d]
    BY <1>3 DEF Lik!DeleteLike, Lik!GoTo, Lik!TypeOK
  <2> QED BY <2>1, <2>2, LikeStageStep
<1>4. CASE Lik!IncLikes(c) \/ Lik!DecLikes(c) \/ Lik!Fail(c)
  <2>1. likeExcuse \subseteq likeExcuse' /\ likeExcuse' \subseteq {"overlap", "likeLost", "unlikeLost"}
    BY <1>4 DEF Lik!IncLikes, Lik!DecLikes, Lik!Fail, Lik!TypeOK
  <2>2. Lik!Return(c) /\ like' = like /\ toggles' = toggles /\ likePc[c] # "idle"
    BY <1>4 DEF Lik!IncLikes, Lik!DecLikes, Lik!Fail
  <2>3. likes' \in Int
    BY <1>4 DEF Lik!IncLikes, Lik!DecLikes, Lik!Fail, Lik!TypeOK
  <2>4. Lik!TypeOK'
    BY <2>1, <2>2, <2>3 DEF Lik!Return, Lik!TypeOK
  <2>5. /\ likePc'[c] = "idle"
        /\ \A d \in Calls \ {c} : likePc'[d] = likePc[d] /\ liker'[d] = liker[d] /\ likeRow'[d] = likeRow[d]
    BY <2>2 DEF Lik!Return, Lik!TypeOK
  <2> QED BY <2>1, <2>2, <2>4, <2>5, LikeStageStep
<1> QED BY <1>1, <1>2, <1>3, <1>4 DEF Lik!Step

\* What a step does to the counter, to the row of one user and to the requests
\* that have still to count decides what the balance needs.
LEMMA LikeWeighed ==
  ASSUME LikeInv, Lik!TypeOK', NEW c \in Calls, NEW u \in Users,
         \A d \in Calls \ {c} : likePc'[d] = likePc[d],
         \A v \in Users \ {u} : like'[v] = like[v],
         likeExcuse \subseteq likeExcuse',
         NEW before \in Int, before = likes + IsInc(c) - IsDec(c) - Row(u),
         NEW after \in Int, after = likes' + IsInc(c)' - IsDec(c)' - Row(u)',
         after > before => "unlikeLost" \in likeExcuse',
         after < before => likeExcuse' \intersect {"overlap", "likeLost"} # {}
  PROVE  LikeBalance'
<1>1. /\ Cardinality(Incs') = Cardinality(Incs) - IsInc(c) + IsInc(c)'
      /\ Cardinality(Decs') = Cardinality(Decs) - IsDec(c) + IsDec(c)'
      /\ Cardinality(Lik!Likers') = Cardinality(Lik!Likers) - Row(u) + Row(u)'
  BY LikeLedger DEF LikeInv
<1>2. /\ Cardinality(Lik!Likers) \in Nat /\ Cardinality(Incs) \in Nat /\ Cardinality(Decs) \in Nat
      /\ likes \in Int /\ likes' \in Int
  BY LikersFinite DEF LikeInv, Lik!TypeOK
<1>3. /\ IsInc(c) \in Int /\ IsDec(c) \in Int /\ Row(u) \in Int
      /\ IsInc(c)' \in Int /\ IsDec(c)' \in Int /\ Row(u)' \in Int
  BY DEF IsInc, IsDec, Row
<1> DEFINE X == likes + Cardinality(Incs) - Cardinality(Decs) - Cardinality(Lik!Likers)
           Y == likes' + Cardinality(Incs') - Cardinality(Decs') - Cardinality(Lik!Likers')
<1>4. Y - X = after - before /\ X \in Int /\ Y \in Int
  BY <1>1, <1>2, <1>3
<1>5. (X > 0 => "unlikeLost" \in likeExcuse) /\ (X < 0 => likeExcuse \intersect {"overlap", "likeLost"} # {})
  BY <1>2 DEF LikeInv, LikeBalance
<1>6. /\ X > 0 => "unlikeLost" \in likeExcuse'
      /\ X < 0 => likeExcuse' \intersect {"overlap", "likeLost"} # {}
  BY <1>5
<1>7. (Y > 0 => X > 0 \/ after > before) /\ (Y < 0 => X < 0 \/ after < before)
  BY <1>4
<1>8. (Y > 0 => "unlikeLost" \in likeExcuse') /\ (Y < 0 => likeExcuse' \intersect {"overlap", "likeLost"} # {})
  BY <1>6, <1>7
<1>9. /\ Cardinality(Lik!Likers') \in Int /\ Cardinality(Incs') \in Int /\ Cardinality(Decs') \in Int
  BY <1>1, <1>2, <1>3
<1> QED BY <1>2, <1>8, <1>9 DEF LikeBalance

\* No step upsets the balance without an excuse.
LEMMA LikeBalanceStep ==
  ASSUME LikeInv, Lik!TypeOK', NEW c \in Calls, Lik!Step(c)
  PROVE  LikeBalance'
<1> USE DEF LikeInv
<1>1. CASE Lik!FindLike(c)
  <2>1. like' = like /\ likes' = likes /\ likeExcuse \subseteq likeExcuse'
    BY <1>1 DEF Lik!FindLike
  <2>2. Incs' = Incs /\ Decs' = Decs
    BY <1>1 DEF Lik!FindLike, Incs, Decs, Lik!TypeOK
  <2>3. Lik!Likers' = Lik!Likers
    BY <2>1 DEF Lik!Likers
  <2> QED BY <2>1, <2>2, <2>3 DEF LikeBalance
<1>2. CASE likePc[c] # "idle"
  <2> DEFINE u == liker[c]
  <2>1. u \in Users
    BY <1>2 DEF Lik!TypeOK
  <2> HIDE DEF u
  <2> DEFINE before == likes + IsInc(c) - IsDec(c) - Row(u)
             after == likes' + IsInc(c)' - IsDec(c)' - (IF like'[u] # 0 THEN 1 ELSE 0)
  <2>2. /\ \A d \in Calls \ {c} : likePc'[d] = likePc[d]
        /\ \A v \in Users \ {u} : like'[v] = like[v]
        /\ likeExcuse \subseteq likeExcuse'
    <3>1. \A d \in Calls \ {c} : likePc'[d] = likePc[d]
      BY <1>2 DEF Lik!Step, Lik!FindLike, Lik!InsertLike, Lik!DeleteLike, Lik!IncLikes, Lik!DecLikes, Lik!Fail,
         Lik!GoTo, Lik!Return, Lik!TypeOK
    <3>2. \A v \in Users \ {u} : like'[v] = like[v]
      BY <1>2 DEF u, Lik!Step, Lik!FindLike, Lik!InsertLike, Lik!DeleteLike, Lik!IncLikes, Lik!DecLikes, Lik!Fail,
         Lik!TypeOK
    <3>3. likeExcuse \subseteq likeExcuse'
      BY <1>2 DEF Lik!Step, Lik!FindLike, Lik!InsertLike, Lik!DeleteLike, Lik!IncLikes, Lik!DecLikes, Lik!Fail
    <3> QED BY <3>1, <3>2, <3>3
  <2>3. before \in Int /\ after \in Int
    BY DEF IsInc, IsDec, Row, Lik!TypeOK
  <2>4. /\ after > before => "unlikeLost" \in likeExcuse'
        /\ after < before => likeExcuse' \intersect {"overlap", "likeLost"} # {}
    <3> USE DEF IsInc, IsDec, Row, Lik!TypeOK
    <3>1. CASE Lik!InsertLike(c)
      BY <2>1, <3>1 DEF u, Lik!InsertLike, Lik!GoTo, Lik!Return
    <3>2. CASE Lik!DeleteLike(c) /\ like[u] = likeRow[c]
      BY <2>1, <3>2 DEF u, Lik!DeleteLike, Lik!GoTo
    <3>3. CASE Lik!DeleteLike(c) /\ like[u] # likeRow[c]
      <4>1. "overlap" \in likeExcuse'
        BY <3>3 DEF u, Lik!DeleteLike, LikeStage
      <4>3. ~(after > before)
        BY <2>1, <3>3 DEF u, Lik!DeleteLike, Lik!GoTo
      <4>4. likeExcuse' \intersect {"overlap", "likeLost"} # {}
        BY <4>1
      <4> QED BY <4>3, <4>4
    <3>4. CASE Lik!IncLikes(c)
      BY <2>1, <3>4 DEF Lik!IncLikes, Lik!Return
    <3>5. CASE Lik!DecLikes(c)
      BY <2>1, <3>5 DEF Lik!DecLikes, Lik!Return
    <3>6. CASE Lik!Fail(c)
      <4>1. likes' = likes /\ like' = like /\ likePc'[c] = "idle"
        BY <3>6 DEF Lik!Fail, Lik!Return
      <4>2. likePc[c] = "dec" => "unlikeLost" \in likeExcuse'
        BY <3>6 DEF Lik!Fail
      <4>3. likePc[c] = "inc" => "likeLost" \in likeExcuse'
        BY <3>6 DEF Lik!Fail
      <4> QED BY <2>1, <4>1, <4>2, <4>3
    <3> QED BY <1>2, <3>1, <3>2, <3>3, <3>4, <3>5, <3>6 DEF Lik!Step, Lik!FindLike
  <2>5. PICK v \in Users : v = u
    BY <2>1
  <2>6. before = likes + IsInc(c) - IsDec(c) - Row(v) /\ after = likes' + IsInc(c)' - IsDec(c)' - Row(v)'
    BY <2>5 DEF Row
  <2> HIDE DEF before, after
  <2> QED BY <2>2, <2>3, <2>4, <2>5, <2>6, LikeWeighed
<1> QED BY <1>1, <1>2 DEF Lik!Step, Lik!InsertLike, Lik!DeleteLike, Lik!IncLikes, Lik!DecLikes, Lik!Fail

\* With no likes the account is even.
LEMMA LikeInit == Lik!Init => LikeInv
<1> SUFFICES ASSUME Lik!Init PROVE LikeInv
  OBVIOUS
<1>1. Lik!TypeOK /\ LikeStage
  BY LikesAssumption DEF Lik!Init, Lik!TypeOK, LikeStage
<1>2. Incs = {} /\ Decs = {} /\ Lik!Likers = {} /\ likes = 0
  BY DEF Lik!Init, Incs, Decs, Lik!Likers
<1>3. LikeBalance
  BY <1>2, FS_EmptySet DEF LikeBalance
<1> QED BY <1>1, <1>3 DEF LikeInv

\* Every step of a like or an unlike keeps the account.
LEMMA LikeStep ==
  ASSUME LikeInv, [Lik!Next]_likeVars
  PROVE  LikeInv'
<1>1. CASE \E c \in Calls : Lik!Step(c)
  BY <1>1, LikeTypes, LikeBalanceStep DEF LikeInv
<1>2. CASE UNCHANGED likeVars
  BY <1>2 DEF likeVars, LikeInv, LikeStage, LikeBalance, Lik!TypeOK, Lik!Likers, Incs, Decs
<1>3. CASE Lik!Rest
  BY <1>2, <1>3 DEF Lik!Rest, Lik!vars, likeVars
<1> QED BY <1>1, <1>2, <1>3 DEF Lik!Next

\* The likes are weighed in every state.
THEOREM LikesInvariant == MCSpec => []LikeInv
<1>1. MCInit => LikeInv
  BY LikeInit DEF MCInit
<1>2. LikeInv /\ [MCNext]_allVars => LikeInv'
  BY StepOfOne, LikeStep
<1> QED BY <1>1, <1>2, PTL DEF MCSpec

\* At rest no request has anything to count.
LEMMA LikesAreExplained == LikeInv => Lik!LikesExplained
<1> SUFFICES ASSUME LikeInv, Lik!Idle PROVE Lik!LikesExplained
  BY DEF Lik!LikesExplained
<1>1. Incs = {} /\ Decs = {} /\ Cardinality({}) = 0
  BY FS_EmptySet DEF Lik!Idle, Incs, Decs
<1>2. Cardinality(Lik!Likers) \in Nat /\ likes \in Int
  BY LikersFinite DEF LikeInv, Lik!TypeOK
<1> QED BY <1>1, <1>2, SameCardinality DEF LikeInv, LikeBalance, Lik!LikesExplained

(***************************************************************************)
(* Chat.  A marker is a date that was there, and a request of its reader   *)
(* that nobody has overtaken brings a later one.                           *)
(***************************************************************************)
Messages == [conv : Cht!Conversations, by : Users, at : 0..MaxClock, gone : BOOLEAN]
IsDate(x) == \E t \in 0..clock : x = Cht!Date(t)

\* What a request works on is there.
ChatStage ==
  /\ messages \in Seq(Messages)
  /\ \A c \in ChatCalls :
       /\ chatPc[c] \in {"sendBegin", "sendCommit", "readMessage", "readUpdate", "delete"} =>
            chatter[c] \in Users /\ conv[c] \in 1..conversations
       /\ chatPc[c] = "sendCommit" => at[c] \in 0..clock
       /\ chatPc[c] \in {"readMessage", "delete"} => msg[c] \in DOMAIN messages
       /\ chatPc[c] \in {"readMessage", "readUpdate"} => IsDate(at[c])

\* Two requests that open the chat at once are known; otherwise one conversation.
ChatOpening ==
  ~together =>
    /\ \A c, d \in ChatCalls :
         chatPc[c] \in {"openFind", "openCreate"} /\ chatPc[d] \in {"openFind", "openCreate"} => c = d
    /\ \A c \in ChatCalls : chatPc[c] = "openCreate" => conversations = 0
    /\ conversations <= 1

\* The marker is not later than what a request brings that was not overtaken.
MarkerStage ==
  /\ \A u \in Users, k \in Cht!Conversations : marker[u][k] = -1 \/ IsDate(marker[u][k])
  /\ \A c \in ChatCalls :
       /\ chatPc[c] \in {"readMessage", "readUpdate"} /\ c \notin overtaken
       /\ chatPc[c] = "readUpdate" => msg[c] = 0
       => marker[chatter[c]][conv[c]] <= at[c]

ChatInv == Cht!TypeOK /\ ChatStage /\ ChatOpening /\ MarkerStage


\* A date is not later than its time, and dates keep the order of their times.
LEMMA DateBounds ==
  /\ \A t \in Nat : Cht!Date(t) \in 0..t
  /\ \A s, t \in Nat : s <= t => Cht!Date(s) <= Cht!Date(t)
<1>1. ASSUME NEW t \in Nat
      PROVE  /\ t \div Milli \in Nat
             /\ (t \div Milli) * Milli \in Nat
             /\ (t \div Milli) * Milli <= t /\ t < (t \div Milli) * Milli + Milli
  <2>1. /\ t = Milli * (t \div Milli) + (t % Milli)
        /\ t % Milli \in 0..(Milli - 1) /\ t \div Milli \in Int
    BY ChatAssumption
  <2> QED BY <2>1, ChatAssumption
<1>2. ASSUME NEW s \in Nat, NEW t \in Nat, s <= t PROVE Cht!Date(s) <= Cht!Date(t)
  <2> DEFINE a == s \div Milli
             b == t \div Milli
  <2>1. a \in Nat /\ b \in Nat /\ a * Milli <= s /\ t < b * Milli + Milli
    BY <1>1
  <2> HIDE DEF a, b
  <2>2. a * Milli < b * Milli + Milli
    BY <1>2, <2>1, ChatAssumption
  <2>3. ~(b + 1 <= a)
    <3> SUFFICES ASSUME b + 1 <= a PROVE FALSE
      OBVIOUS
    <3>1. PICK e \in Nat : a = b + 1 + e
      BY <2>1
    <3>2. a * Milli = b * Milli + Milli + e * Milli
      BY <2>1, <3>1, ChatAssumption
    <3>3. e * Milli >= 0
      BY ChatAssumption
    <3> QED BY <2>1, <2>2, <3>2, <3>3, ChatAssumption
  <2>4. a <= b
    BY <2>1, <2>3
  <2>5. PICK e \in Nat : b = a + e
    BY <2>1, <2>4
  <2>6. b * Milli = a * Milli + e * Milli /\ e * Milli >= 0
    BY <2>1, <2>5, ChatAssumption
  <2>7. a * Milli <= b * Milli
    BY <2>1, <2>6, ChatAssumption
  <2> QED BY <2>7 DEF a, b, Cht!Date
<1> QED BY <1>1, <1>2 DEF Cht!Date

\* What was a date stays one, and no date is later than that of the clock.
LEMMA DatesStay ==
  ASSUME clock \in Nat, clock' \in Nat, clock <= clock'
  PROVE  \A x : IsDate(x) => IsDate(x)' /\ x \in 0..clock /\ x <= Cht!Date(clock)
<1> SUFFICES ASSUME NEW x, IsDate(x) PROVE IsDate(x)' /\ x \in 0..clock /\ x <= Cht!Date(clock)
  OBVIOUS
<1>1. PICK t \in 0..clock : x = Cht!Date(t)
  BY DEF IsDate
<1>2. t \in Nat /\ t <= clock /\ t \in 0..clock'
  BY <1>1
<1>3. Cht!Date(t) \in 0..t /\ Cht!Date(t) <= Cht!Date(clock)
  BY <1>2, DateBounds
<1>4. IsDate(x)'
  BY <1>1, <1>2 DEF IsDate
<1>5. x \in 0..clock
  BY <1>1, <1>2, <1>3
<1> QED BY <1>1, <1>3, <1>4, <1>5


\* What a request of c is about, and that the others go on as they were.
ChatStageOf(c) ==
  /\ chatPc[c] \in {"sendBegin", "sendCommit", "readMessage", "readUpdate", "delete"} =>
       chatter[c] \in Users /\ conv[c] \in 1..conversations
  /\ chatPc[c] = "sendCommit" => at[c] \in 0..clock
  /\ chatPc[c] \in {"readMessage", "delete"} => msg[c] \in DOMAIN messages
  /\ chatPc[c] \in {"readMessage", "readUpdate"} => IsDate(at[c])

OthersWait(c) ==
  \A d \in ChatCalls \ {c} :
    /\ chatPc'[d] = chatPc[d] /\ chatter'[d] = chatter[d]
    /\ conv'[d] = conv[d] /\ msg'[d] = msg[d] /\ at'[d] = at[d]

\* One request moves.
LEMMA OneChatRequest ==
  ASSUME Cht!TypeOK, NEW c \in ChatCalls, Cht!Step(c)
  PROVE  OthersWait(c) /\ UNCHANGED clock
<1> USE DEF Cht!TypeOK, OthersWait
<1>1. CASE Cht!OpenCheck(c)
  BY <1>1 DEF Cht!OpenCheck, Cht!Begin, Cht!history
<1>2. CASE Cht!OpenFind(c)
  BY <1>2 DEF Cht!OpenFind, Cht!Return, Cht!GoTo, Cht!history
<1>3. CASE Cht!OpenCreate(c)
  BY <1>3 DEF Cht!OpenCreate, Cht!Return, Cht!history
<1>4. CASE Cht!SendCheck(c)
  BY <1>4 DEF Cht!SendCheck, Cht!Begin, Cht!history
<1>5. CASE Cht!SendBegin(c)
  BY <1>5 DEF Cht!SendBegin, Cht!history
<1>6. CASE Cht!SendCommit(c)
  BY <1>6 DEF Cht!SendCommit, Cht!Return, Cht!history
<1>7. CASE Cht!ReadFind(c)
  BY <1>7 DEF Cht!ReadFind, Cht!Begin, Cht!history
<1>8. CASE Cht!ReadMessage(c)
  BY <1>8 DEF Cht!ReadMessage, Cht!history
<1>9. CASE Cht!ReadUpdate(c)
  BY <1>9 DEF Cht!ReadUpdate, Cht!Return
<1>10. CASE Cht!DeleteFind(c)
  BY <1>10 DEF Cht!DeleteFind, Cht!Begin, Cht!history
<1>11. CASE Cht!SoftDelete(c)
  BY <1>11 DEF Cht!SoftDelete, Cht!Return, Cht!history
<1>12. CASE Cht!Fail(c)
  BY <1>12 DEF Cht!Fail, Cht!Return
<1> QED BY <1>1, <1>2, <1>3, <1>4, <1>5, <1>6, <1>7, <1>8, <1>9, <1>10, <1>11, <1>12 DEF Cht!Step

\* One message is changed in its place.
LEMMA OneMessageChanged ==
  ASSUME messages \in Seq(Messages), NEW i \in DOMAIN messages, NEW m \in Messages,
         messages' = [messages EXCEPT ![i] = m]
  PROVE  /\ messages' \in Seq(Messages) /\ DOMAIN messages' = DOMAIN messages /\ Len(messages') = Len(messages)
         /\ \A j \in DOMAIN messages : messages'[j] = IF j = i THEN m ELSE messages[j]
<1> DEFINE n == Len(messages)
<1>1. n \in Nat /\ DOMAIN messages = 1..n /\ messages \in [1..n -> Messages]
  OBVIOUS
<1> HIDE DEF n
<1>2. messages' \in [1..n -> Messages] /\ \A j \in 1..n : messages'[j] = IF j = i THEN m ELSE messages[j]
  BY <1>1
<1>3. messages' \in Seq(Messages)
  BY <1>1, <1>2
<1>4. DOMAIN messages' = 1..n /\ Len(messages') = n
  BY <1>1, <1>2, <1>3
<1> QED BY <1>1, <1>2, <1>3, <1>4 DEF n

\* What a deletion makes of a message.
LEMMA MessageGone ==
  ASSUME messages \in Seq(Messages), NEW i \in DOMAIN messages
  PROVE  LET m == [messages[i] EXCEPT !.gone = TRUE] IN
         /\ m \in Messages /\ m.gone = TRUE
         /\ m.conv = messages[i].conv /\ m.by = messages[i].by /\ m.at = messages[i].at
<1>1. messages[i] \in Messages
  OBVIOUS
<1> QED BY <1>1 DEF Messages

\* A message that is deleted stays in its place and its conversation.
LEMMA SoftDeleteMessage ==
  ASSUME messages \in Seq(Messages), NEW i \in DOMAIN messages,
         messages' = [messages EXCEPT ![i].gone = TRUE]
  PROVE  /\ messages' \in Seq(Messages) /\ DOMAIN messages' = DOMAIN messages /\ Len(messages') = Len(messages)
         /\ \A j \in DOMAIN messages :
              /\ messages'[j].gone \in BOOLEAN /\ messages'[j].conv = messages[j].conv
              /\ messages'[j].by = messages[j].by /\ messages'[j].at = messages[j].at
<1> DEFINE m == [messages[i] EXCEPT !.gone = TRUE]
<1>1. /\ m \in Messages /\ m.gone = TRUE
      /\ m.conv = messages[i].conv /\ m.by = messages[i].by /\ m.at = messages[i].at
  BY MessageGone
<1>2. messages' = [messages EXCEPT ![i] = m]
  OBVIOUS
<1>3. \A j \in DOMAIN messages : messages[j].gone \in BOOLEAN
  <2>1. \A j \in DOMAIN messages : messages[j] \in Messages
    OBVIOUS
  <2> QED BY <2>1 DEF Messages
<1> HIDE DEF m
<1>4. /\ messages' \in Seq(Messages) /\ DOMAIN messages' = DOMAIN messages /\ Len(messages') = Len(messages)
      /\ \A j \in DOMAIN messages : messages'[j] = IF j = i THEN m ELSE messages[j]
  BY <1>1, <1>2, OneMessageChanged
<1> QED BY <1>1, <1>3, <1>4

\* Every step keeps the types.
LEMMA ChatTypes ==
  ASSUME Cht!TypeOK, ChatStage, NEW c \in ChatCalls, Cht!Step(c)
  PROVE  Cht!TypeOK' /\ messages' \in Seq(Messages) /\ ChatStageOf(c)'
<1> USE ChatAssumption, LikesAssumption DEF Cht!TypeOK, ChatStage, ChatStageOf, Messages, Cht!Conversations, Cht!Never, Cht!Steps, IsDate
<1>1. CASE Cht!OpenCheck(c)
  BY <1>1 DEF Cht!OpenCheck, Cht!Begin, Cht!history
<1>2. CASE Cht!OpenFind(c)
  <2>1. CASE conversations > 0
    <3>1. Cht!Return(c) /\ UNCHANGED <<conversations, messages, marker, clock, overtaken, together>>
      BY <1>2, <2>1 DEF Cht!OpenFind, Cht!history
    <3> QED BY <3>1 DEF Cht!Return
  <2>2. CASE ~(conversations > 0)
    BY <1>2, <2>2 DEF Cht!OpenFind, Cht!GoTo, Cht!history
  <2> QED BY <2>1, <2>2
<1>3. CASE Cht!OpenCreate(c)
  BY <1>3, SMTT(30) DEF Cht!OpenCreate, Cht!Return, Cht!history
<1>4. CASE Cht!SendCheck(c)
  BY <1>4 DEF Cht!SendCheck, Cht!Begin, Cht!history
<1>5. CASE Cht!SendBegin(c)
  BY <1>5 DEF Cht!SendBegin, Cht!history
<1>6. CASE Cht!SendCommit(c)
  <2> DEFINE m == [conv |-> conv[c], by |-> chatter[c], at |-> at[c], gone |-> FALSE]
  <2>1. m \in Messages /\ m.conv \in 1..conversations /\ m.by \in Users /\ m.at \in 0..clock /\ m.gone \in BOOLEAN
    BY <1>6 DEF Cht!SendCommit
  <2>2. messages' = Append(messages, m) /\ UNCHANGED <<conversations, marker, clock, overtaken, together>>
    BY <1>6 DEF Cht!SendCommit, Cht!history
  <2> HIDE DEF m
  <2>3. /\ messages' \in Seq(Messages) /\ Len(messages') = Len(messages) + 1 /\ Len(messages) \in Nat
        /\ \A i \in DOMAIN messages : messages'[i] = messages[i]
        /\ DOMAIN messages' = 1..(Len(messages) + 1) /\ messages'[Len(messages) + 1] = m
        /\ DOMAIN messages = 1..Len(messages)
    BY <2>1, <2>2, SMTT(30)
  <2>4. \A i \in DOMAIN messages' :
          /\ messages'[i].conv \in 1..conversations /\ messages'[i].by \in Users
          /\ messages'[i].at \in 0..clock /\ messages'[i].gone \in BOOLEAN
    <3> TAKE i \in DOMAIN messages'
    <3>1. CASE i \in DOMAIN messages
      BY <2>3, <3>1
    <3>2. CASE i = Len(messages) + 1
      BY <2>1, <2>3, <3>2
    <3> QED BY <2>3, <3>1, <3>2
  <2>5. Cht!Return(c)
    BY <1>6 DEF Cht!SendCommit
  <2>6. msg' \in [ChatCalls -> 0..Len(messages')]
    <3>1. \A d \in ChatCalls : msg'[d] \in 0..Len(messages) /\ msg' = [msg EXCEPT ![c] = 0]
      BY <2>3, <2>5 DEF Cht!Return
    <3> QED BY <2>3, <3>1
  <2>7. ChatStageOf(c)'
    BY <2>5 DEF Cht!Return
  <2>8. /\ chatPc' \in [ChatCalls -> Cht!Steps] /\ chatter' \in [ChatCalls -> Users \union {None}]
        /\ conv' \in [ChatCalls -> 0..conversations] /\ at' \in [ChatCalls -> {-1} \union 0..clock]
        /\ \A d \in ChatCalls : chatPc'[d] = "idle" <=> chatter'[d] = None
    BY <2>5 DEF Cht!Return
  <2> QED BY <2>2, <2>3, <2>4, <2>6, <2>7, <2>8
<1>7. CASE Cht!ReadFind(c)
  <2>1. PICK u \in Users, k \in 1..conversations :
          \/ Cht!Begin(c, "readUpdate", u, k, 0, Cht!Date(clock))
          \/ \E i \in DOMAIN messages :
               messages[i].conv = k /\ Cht!Begin(c, "readMessage", u, k, i, Cht!Date(clock))
    BY <1>7 DEF Cht!ReadFind
  <2>2. Cht!Date(clock) \in 0..clock
    BY DateBounds
  <2>3. UNCHANGED <<conversations, messages, marker, clock, overtaken, together>>
    BY <1>7 DEF Cht!ReadFind, Cht!history
  <2>4. PICK i \in 0..Len(messages), to \in {"readUpdate", "readMessage"} :
          /\ to = "readMessage" => i \in DOMAIN messages
          /\ Cht!Begin(c, to, u, k, i, Cht!Date(clock))
    BY <2>1
  <2>5. /\ chatPc' \in [ChatCalls -> Cht!Steps] /\ chatter' \in [ChatCalls -> Users \union {None}]
        /\ conv' \in [ChatCalls -> 0..conversations] /\ msg' \in [ChatCalls -> 0..Len(messages)]
        /\ at' \in [ChatCalls -> {-1} \union 0..clock]
        /\ chatPc'[c] = to /\ chatter'[c] = u /\ conv'[c] = k /\ msg'[c] = i /\ at'[c] = Cht!Date(clock)
    BY <2>2, <2>4 DEF Cht!Begin
  <2>6. \A d \in ChatCalls : chatPc'[d] = "idle" <=> chatter'[d] = None
    BY <2>4 DEF Cht!Begin
  <2>7. ChatStageOf(c)'
    BY <2>3, <2>4, <2>5
  <2> QED BY <2>3, <2>5, <2>6, <2>7
<1>8. CASE Cht!ReadMessage(c)
  <2>1. chatPc[c] = "readMessage" /\ msg[c] \in DOMAIN messages /\ IsDate(at[c])
    BY <1>8 DEF Cht!ReadMessage
  <2>2. /\ chatPc' = [chatPc EXCEPT ![c] = "readUpdate"]
        /\ UNCHANGED <<conversations, messages, marker, clock, chatter, conv, overtaken, together>>
    BY <1>8 DEF Cht!ReadMessage, Cht!history
  <2>3. PICK i \in 0..Len(messages), t \in 0..clock :
          msg' = [msg EXCEPT ![c] = i] /\ at' = [at EXCEPT ![c] = Cht!Date(t)]
    <3>1. CASE messages[msg[c]].gone
      <4>1. PICK t \in 0..clock : at[c] = Cht!Date(t)
        BY <2>1
      <4> QED BY <1>8, <3>1, <4>1 DEF Cht!ReadMessage
    <3>2. CASE ~messages[msg[c]].gone
      <4>1. messages[msg[c]].at \in 0..clock /\ msg' = [msg EXCEPT ![c] = msg[c]]
        BY <1>8, <2>1, <3>2 DEF Cht!ReadMessage
      <4> QED BY <1>8, <3>2, <4>1 DEF Cht!ReadMessage
    <3> QED BY <3>1, <3>2
  <2>4. Cht!Date(t) \in 0..clock
    BY DateBounds
  <2>5. Cht!TypeOK'
    BY <2>1, <2>2, <2>3, <2>4
  <2>6. ChatStageOf(c)'
    BY <2>1, <2>2, <2>3
  <2> QED BY <2>2, <2>5, <2>6
<1>9. CASE Cht!ReadUpdate(c)
  BY <1>9 DEF Cht!ReadUpdate, Cht!Return
<1>10. CASE Cht!DeleteFind(c)
  <2>1. UNCHANGED <<conversations, messages, marker, clock, overtaken, together>>
    BY <1>10 DEF Cht!DeleteFind, Cht!history
  <2>2. PICK i \in DOMAIN messages : Cht!Begin(c, "delete", messages[i].by, messages[i].conv, i, -1)
    BY <1>10 DEF Cht!DeleteFind
  <2>3. /\ i \in 0..Len(messages) /\ messages[i].by \in Users /\ messages[i].conv \in 1..conversations
        /\ -1 \in {-1} \union 0..clock
    OBVIOUS
  <2>4. /\ chatPc' \in [ChatCalls -> Cht!Steps] /\ chatter' \in [ChatCalls -> Users \union {None}]
        /\ conv' \in [ChatCalls -> 0..conversations] /\ msg' \in [ChatCalls -> 0..Len(messages)]
        /\ at' \in [ChatCalls -> {-1} \union 0..clock]
        /\ chatPc'[c] = "delete" /\ chatter'[c] = messages[i].by /\ conv'[c] = messages[i].conv /\ msg'[c] = i
    BY <2>2, <2>3, SMTT(30) DEF Cht!Begin
  <2>5. \A d \in ChatCalls : chatPc'[d] = "idle" <=> chatter'[d] = None
    BY <2>2, <2>3, SMTT(30) DEF Cht!Begin
  <2>6. ChatStageOf(c)'
    BY <2>1, <2>3, <2>4
  <2> QED BY <2>1, <2>4, <2>5, <2>6
<1>11. CASE Cht!SoftDelete(c)
  <2>1. msg[c] \in DOMAIN messages /\ messages' = [messages EXCEPT ![msg[c]].gone = TRUE]
    BY <1>11 DEF Cht!SoftDelete
  <2>2. Cht!Return(c) /\ UNCHANGED <<conversations, marker, clock, overtaken, together>>
    BY <1>11 DEF Cht!SoftDelete, Cht!history
  <2>3. /\ messages' \in Seq(Messages) /\ DOMAIN messages' = DOMAIN messages /\ Len(messages') = Len(messages)
        /\ \A j \in DOMAIN messages :
             /\ messages'[j].gone \in BOOLEAN /\ messages'[j].conv = messages[j].conv
             /\ messages'[j].by = messages[j].by /\ messages'[j].at = messages[j].at
    BY <2>1, SoftDeleteMessage
  <2>7. ChatStageOf(c)'
    BY <2>2 DEF Cht!Return
  <2>8. /\ chatPc' \in [ChatCalls -> Cht!Steps] /\ chatter' \in [ChatCalls -> Users \union {None}]
        /\ conv' \in [ChatCalls -> 0..conversations] /\ at' \in [ChatCalls -> {-1} \union 0..clock]
        /\ msg' \in [ChatCalls -> 0..Len(messages)]
        /\ \A d \in ChatCalls : chatPc'[d] = "idle" <=> chatter'[d] = None
    BY <2>2 DEF Cht!Return
  <2> QED BY <2>2, <2>3, <2>7, <2>8
<1>12. CASE Cht!Fail(c)
  BY <1>12 DEF Cht!Fail, Cht!Return
<1> QED BY <1>1, <1>2, <1>3, <1>4, <1>5, <1>6, <1>7, <1>8, <1>9, <1>10, <1>11, <1>12 DEF Cht!Step

\* A conversation that is there is within the bound.
LEMMA ConversationsBound ==
  ASSUME Cht!TypeOK, NEW k \in 1..conversations
  PROVE  k \in Cht!Conversations
<1>1. conversations \in 0..MaxConversations
  BY DEF Cht!TypeOK
<1> QED BY <1>1, ChatAssumption DEF Cht!Conversations

\* What a marker says is a number.
LEMMA MarkersAreNumbers ==
  ASSUME Cht!TypeOK, NEW u \in Users, NEW k \in Cht!Conversations
  PROVE  marker[u][k] \in Int /\ marker[u][k] \in {-1} \union 0..clock
<1>1. marker[u][k] \in {-1} \union 0..clock /\ clock \in 0..MaxClock
  BY DEF Cht!TypeOK, Cht!Never
<1> QED BY <1>1


\* Nothing is taken away from what the other requests work on.
LEMMA ChatGrows ==
  ASSUME Cht!TypeOK, ChatStage, NEW c \in ChatCalls, Cht!Step(c), messages' \in Seq(Messages)
  PROVE  /\ conversations \in Nat /\ conversations' \in Nat /\ conversations <= conversations'
         /\ DOMAIN messages \subseteq DOMAIN messages'
<1>1. conversations \in Nat /\ conversations' \in Nat /\ conversations <= conversations'
  BY DEF Cht!Step, Cht!OpenCheck, Cht!OpenFind, Cht!OpenCreate, Cht!SendCheck, Cht!SendBegin, Cht!SendCommit,
     Cht!ReadFind, Cht!ReadMessage, Cht!ReadUpdate, Cht!DeleteFind, Cht!SoftDelete, Cht!Fail, Cht!TypeOK
<1>2. DOMAIN messages \subseteq DOMAIN messages'
  <2>1. messages \in Seq(Messages)
    BY DEF ChatStage
  <2>2. CASE messages' = messages
    BY <2>2
  <2>3. CASE Cht!SendCommit(c)
    <3>1. PICK m : messages' = Append(messages, m)
      BY <2>3 DEF Cht!SendCommit
    <3>2. DOMAIN messages' = 1..(Len(messages) + 1) /\ DOMAIN messages = 1..Len(messages) /\ Len(messages) \in Nat
      BY <2>1, <3>1
    <3> QED BY <3>2
  <2>4. CASE Cht!SoftDelete(c)
    <3>1. DOMAIN messages' = DOMAIN messages
      BY <2>4 DEF Cht!SoftDelete
    <3> QED BY <3>1
  <2> QED BY <2>2, <2>3, <2>4 DEF Cht!Step, Cht!OpenCheck, Cht!OpenFind, Cht!OpenCreate, Cht!SendCheck,
        Cht!SendBegin, Cht!ReadFind, Cht!ReadMessage, Cht!ReadUpdate, Cht!DeleteFind, Cht!Fail
<1> QED BY <1>1, <1>2

\* Every step of a request keeps what is known of its user, chat and message.
LEMMA ChatStageStep ==
  ASSUME Cht!TypeOK, ChatStage, NEW c \in ChatCalls, Cht!Step(c)
  PROVE  Cht!TypeOK' /\ ChatStage'
<1>1. Cht!TypeOK' /\ messages' \in Seq(Messages) /\ ChatStageOf(c)'
  BY ChatTypes
<1>2. OthersWait(c) /\ clock' = clock
  BY OneChatRequest
<1>3. /\ conversations \in Nat /\ conversations' \in Nat /\ conversations <= conversations'
      /\ DOMAIN messages \subseteq DOMAIN messages'
  BY <1>1, ChatGrows
<1>4. \A x : IsDate(x) => IsDate(x)'
  BY <1>2 DEF IsDate
<1>5. \A d \in ChatCalls \ {c} : ChatStageOf(d)'
  <2> TAKE d \in ChatCalls \ {c}
  <2>1. ChatStageOf(d)
    BY DEF ChatStage, ChatStageOf
  <2>2. chatPc'[d] = chatPc[d] /\ chatter'[d] = chatter[d] /\ conv'[d] = conv[d] /\ msg'[d] = msg[d] /\ at'[d] = at[d]
    BY <1>2 DEF OthersWait
  <2> QED BY <1>2, <1>3, <1>4, <2>1, <2>2 DEF ChatStageOf
<1> QED BY <1>1, <1>5 DEF ChatStage, ChatStageOf

\* A second request that opens the chat is noted; a conversation is made by the one
\* that found none.
LEMMA ChatOpeningStep ==
  ASSUME Cht!TypeOK, ChatOpening, NEW c \in ChatCalls, Cht!Step(c)
  PROVE  ChatOpening'
<1>0. OthersWait(c)
  BY OneChatRequest
<1>1. CASE Cht!OpenCheck(c)
  <2>1. /\ chatPc'[c] = "openFind" /\ conversations' = conversations
        /\ together' = (together \/ \E d \in ChatCalls : chatPc[d] \in {"openFind", "openCreate"})
    BY <1>1 DEF Cht!OpenCheck, Cht!Begin, Cht!TypeOK
  <2>2. ~together' => ~together /\ \A d \in ChatCalls : chatPc[d] \notin {"openFind", "openCreate"}
    BY <2>1
  <2> QED BY <1>0, <2>1, <2>2 DEF OthersWait, ChatOpening
<1>2. CASE Cht!OpenFind(c)
  <2>1. /\ chatPc[c] = "openFind" /\ conversations' = conversations /\ together' = together
        /\ chatPc'[c] \in {"idle", "openCreate"} /\ (chatPc'[c] = "openCreate" => ~(conversations > 0))
    BY <1>2 DEF Cht!OpenFind, Cht!Return, Cht!GoTo, Cht!history, Cht!TypeOK
  <2>2. conversations \in Nat
    BY DEF Cht!TypeOK
  <2> QED BY <1>0, <2>1, <2>2 DEF OthersWait, ChatOpening
<1>3. CASE Cht!OpenCreate(c)
  <2>1. /\ chatPc[c] = "openCreate" /\ conversations' = conversations + 1 /\ together' = together
        /\ chatPc'[c] = "idle"
    BY <1>3 DEF Cht!OpenCreate, Cht!Return, Cht!history, Cht!TypeOK
  <2>2. conversations \in Nat
    BY DEF Cht!TypeOK
  <2> QED BY <1>0, <2>1, <2>2 DEF OthersWait, ChatOpening
<1>4. CASE ~(Cht!OpenCheck(c) \/ Cht!OpenFind(c) \/ Cht!OpenCreate(c))
  <2>1. conversations' = conversations /\ together' = together
    BY <1>4 DEF Cht!Step, Cht!SendCheck, Cht!SendBegin, Cht!SendCommit,
       Cht!ReadFind, Cht!ReadMessage, Cht!ReadUpdate, Cht!DeleteFind, Cht!SoftDelete, Cht!Fail, Cht!history
  <2>2. chatPc'[c] \notin {"openFind", "openCreate"}
    BY <1>4 DEF Cht!Step, Cht!SendCheck, Cht!SendBegin, Cht!SendCommit, Cht!Return, Cht!Begin,
       Cht!ReadFind, Cht!ReadMessage, Cht!ReadUpdate, Cht!DeleteFind, Cht!SoftDelete, Cht!Fail, Cht!TypeOK
  <2> QED BY <1>0, <2>1, <2>2 DEF OthersWait, ChatOpening
<1> QED BY <1>1, <1>2, <1>3, <1>4

\* A step that writes no marker: what c brings is not earlier than its marker.
LEMMA MarkerWaits ==
  ASSUME ChatInv, NEW c \in ChatCalls, OthersWait(c), UNCHANGED <<clock, marker>>,
         \A d \in ChatCalls \ {c} : d \in overtaken => d \in overtaken',
         \/ chatPc'[c] \notin {"readMessage", "readUpdate"}
         \/ c \notin overtaken' /\ (chatPc'[c] = "readUpdate" => msg'[c] = 0)
              => marker[chatter'[c]][conv'[c]] <= at'[c]
  PROVE  MarkerStage'
BY DEF ChatInv, MarkerStage, OthersWait, IsDate

\* Every step keeps the marker behind what a request brings that was not overtaken.
LEMMA MarkerStep ==
  ASSUME ChatInv, NEW c \in ChatCalls, Cht!Step(c)
  PROVE  MarkerStage'
<1>0. OthersWait(c) /\ clock' = clock /\ clock \in Nat
  BY OneChatRequest DEF ChatInv, Cht!TypeOK
<1>1. CASE Cht!ReadFind(c)
  <2>1. PICK u \in Users, k \in 1..conversations, to \in {"readUpdate", "readMessage"}, i \in {0} \union DOMAIN messages :
          Cht!Begin(c, to, u, k, i, Cht!Date(clock))
    BY <1>1 DEF Cht!ReadFind
  <2>2. UNCHANGED <<marker, overtaken>>
    BY <1>1 DEF Cht!ReadFind, Cht!history
  <2>3. k \in Cht!Conversations
    BY ConversationsBound DEF ChatInv
  <2>4. marker[u][k] <= Cht!Date(clock)
    <3>1. marker[u][k] = -1 \/ IsDate(marker[u][k])
      BY <2>3 DEF ChatInv, MarkerStage
    <3>2. Cht!Date(clock) \in Nat
      BY <1>0, DateBounds
    <3> QED BY <1>0, <3>1, <3>2, DatesStay
  <2>5. chatter'[c] = u /\ conv'[c] = k /\ at'[c] = Cht!Date(clock)
    BY <2>1 DEF Cht!Begin, ChatInv, Cht!TypeOK
  <2> QED BY <1>0, <2>2, <2>4, <2>5, MarkerWaits
<1>2. CASE Cht!ReadMessage(c)
  <2>1. /\ chatPc[c] = "readMessage" /\ chatter'[c] = chatter[c] /\ conv'[c] = conv[c]
        /\ UNCHANGED <<marker, overtaken>>
    BY <1>2 DEF Cht!ReadMessage, Cht!history
  <2>2. msg'[c] = 0 => at'[c] = at[c]
    <3>1. msg[c] # 0
      BY <2>1 DEF ChatInv, ChatStage
    <3> QED BY <1>2, <3>1 DEF Cht!ReadMessage, ChatInv, Cht!TypeOK
  <2>3. chatPc'[c] = "readUpdate"
    BY <1>2 DEF Cht!ReadMessage, ChatInv, Cht!TypeOK
  <2>4. c \notin overtaken => marker[chatter[c]][conv[c]] <= at[c]
    BY <2>1 DEF ChatInv, MarkerStage
  <2> QED BY <1>0, <2>1, <2>2, <2>3, <2>4, MarkerWaits
<1>3. CASE Cht!ReadUpdate(c)
  <2>1. /\ chatPc[c] = "readUpdate"
        /\ marker' = [marker EXCEPT ![chatter[c]][conv[c]] = at[c]]
        /\ overtaken' =
             {d \in ChatCalls \ {c} :
                \/ d \in overtaken
                \/ chatPc[d] \in {"readMessage", "readUpdate"} /\ chatter[d] = chatter[c] /\ conv[d] = conv[c]}
        /\ Cht!Return(c)
    BY <1>3 DEF Cht!ReadUpdate
  <2>2. chatter[c] \in Users /\ conv[c] \in Cht!Conversations /\ IsDate(at[c])
    <3>1. chatter[c] \in Users /\ conv[c] \in 1..conversations /\ IsDate(at[c])
      BY <2>1 DEF ChatInv, ChatStage
    <3> QED BY <3>1, ConversationsBound DEF ChatInv
  <2>3. /\ marker'[chatter[c]][conv[c]] = at[c]
        /\ \A u \in Users, k \in Cht!Conversations :
             u # chatter[c] \/ k # conv[c] => marker'[u][k] = marker[u][k]
    BY <2>1, <2>2 DEF ChatInv, Cht!TypeOK
  <2>4. (\A u \in Users, k \in Cht!Conversations : marker[u][k] = -1 \/ IsDate(marker[u][k]))'
    <3>1. \A x : IsDate(x) => IsDate(x)'
      BY <1>0 DEF IsDate
    <3>2. \A u \in Users, k \in Cht!Conversations : marker[u][k] = -1 \/ IsDate(marker[u][k])
      BY DEF ChatInv, MarkerStage
    <3>3. SUFFICES ASSUME NEW u \in Users, NEW k \in Cht!Conversations
                   PROVE  (marker[u][k] = -1 \/ IsDate(marker[u][k]))'
      BY DEF Cht!Conversations
    <3>4. marker'[u][k] = -1 \/ IsDate(marker'[u][k])
      <4>1. CASE u = chatter[c] /\ k = conv[c]
        BY <2>2, <2>3, <4>1
      <4>2. CASE u # chatter[c] \/ k # conv[c]
        BY <2>3, <3>2, <4>2
      <4> QED BY <4>1, <4>2
    <3>5. ASSUME NEW x PROVE IsDate(x) => (\E t \in 0..clock' : x = Cht!Date(t))
      BY <3>1 DEF IsDate
    <3> QED BY <3>4, <3>5 DEF IsDate
  <2>5. ASSUME NEW d \in ChatCalls, chatPc'[d] \in {"readMessage", "readUpdate"}, d \notin overtaken',
               chatPc'[d] = "readUpdate" => msg'[d] = 0
        PROVE  marker'[chatter'[d]][conv'[d]] <= at'[d]
    <3>1. d # c
      BY <2>1, <2>5 DEF Cht!Return, ChatInv, Cht!TypeOK
    <3>2. chatPc[d] = chatPc'[d] /\ chatter'[d] = chatter[d] /\ conv'[d] = conv[d] /\ msg'[d] = msg[d] /\ at'[d] = at[d]
      BY <1>0, <3>1 DEF OthersWait
    <3>3. d \notin overtaken /\ ~(chatter[d] = chatter[c] /\ conv[d] = conv[c])
      BY <2>1, <2>5, <3>1, <3>2
    <3>4. marker[chatter[d]][conv[d]] <= at[d]
      BY <2>5, <3>2, <3>3 DEF ChatInv, MarkerStage
    <3>5. chatter[d] \in Users /\ conv[d] \in Cht!Conversations
      <4>1. chatter[d] \in Users /\ conv[d] \in 1..conversations
        BY <2>5, <3>2 DEF ChatInv, ChatStage
      <4> QED BY <4>1, ConversationsBound DEF ChatInv
    <3> QED BY <2>3, <3>2, <3>3, <3>4, <3>5
  <2> QED BY <2>4, <2>5 DEF MarkerStage
<1>4. CASE ~(Cht!ReadFind(c) \/ Cht!ReadMessage(c) \/ Cht!ReadUpdate(c))
  <2>1. marker' = marker /\ \A d \in ChatCalls \ {c} : d \in overtaken => d \in overtaken'
    BY <1>4 DEF Cht!Step, Cht!OpenCheck, Cht!OpenFind, Cht!OpenCreate, Cht!SendCheck, Cht!SendBegin, Cht!SendCommit,
       Cht!DeleteFind, Cht!SoftDelete, Cht!Fail, Cht!history
  <2>2. chatPc'[c] \notin {"readMessage", "readUpdate"}
    BY <1>4 DEF Cht!Step, Cht!OpenCheck, Cht!OpenFind, Cht!OpenCreate, Cht!SendCheck, Cht!SendBegin, Cht!SendCommit,
       Cht!Return, Cht!GoTo, Cht!Begin, Cht!DeleteFind, Cht!SoftDelete, Cht!Fail, ChatInv, Cht!TypeOK
  <2> QED BY <1>0, <2>1, <2>2, MarkerWaits
<1> QED BY <1>1, <1>2, <1>3, <1>4

\* Time goes on.
LEMMA TickStep ==
  ASSUME ChatInv, Cht!Tick
  PROVE  ChatInv'
<1>1. clock \in Nat /\ clock' = clock + 1 /\ clock' \in 0..MaxClock
  BY ChatAssumption DEF Cht!Tick, ChatInv, Cht!TypeOK
<1>2. UNCHANGED <<conversations, messages, marker, chatPc, chatter, conv, msg, at, overtaken, together>>
  BY DEF Cht!Tick, Cht!requests, Cht!history
<1>3. \A x : (IsDate(x) => IsDate(x)') /\ (x \in 0..clock => x \in 0..clock')
  BY <1>1, DatesStay
<1>4. Cht!TypeOK'
  BY <1>1, <1>2, <1>3 DEF ChatInv, Cht!TypeOK
<1>5. ChatStage'
  BY <1>2, <1>3 DEF ChatInv, ChatStage
<1>6. MarkerStage'
  BY <1>2, <1>3 DEF ChatInv, MarkerStage
<1>7. ChatOpening'
  BY <1>2 DEF ChatInv, ChatOpening
<1> QED BY <1>4, <1>5, <1>6, <1>7 DEF ChatInv

\* Without conversations no request knows of one.
LEMMA ChatInit == Cht!Init => ChatInv
<1> SUFFICES ASSUME Cht!Init PROVE ChatInv
  OBVIOUS
<1>0. messages = <<>> /\ messages \in Seq(Messages) /\ Len(messages) = 0 /\ DOMAIN messages = {}
  BY DEF Cht!Init
<1>1. Cht!TypeOK
  <2>1. \A c \in ChatCalls : chatPc[c] = "idle" <=> chatter[c] = None
    BY DEF Cht!Init
  <2>2. /\ conversations \in 0..MaxConversations /\ clock \in 0..MaxClock
        /\ together \in BOOLEAN /\ overtaken \subseteq ChatCalls
    <3>1. conversations = 0 /\ clock = 0 /\ overtaken = {} /\ together = FALSE
      BY DEF Cht!Init
    <3>2. together \in BOOLEAN
      BY <3>1, Zenon
    <3> QED BY <3>1, <3>2, ChatAssumption
  <2>3. chatPc \in [ChatCalls -> Cht!Steps] /\ chatter \in [ChatCalls -> Users \union {None}]
    BY DEF Cht!Init, Cht!Steps
  <2>4. conv \in [ChatCalls -> 0..conversations] /\ msg \in [ChatCalls -> 0..Len(messages)]
    BY <1>0 DEF Cht!Init
  <2>5. at \in [ChatCalls -> {Cht!Never} \union 0..clock]
    BY DEF Cht!Init
  <2>6. marker \in [Users -> [Cht!Conversations -> {Cht!Never} \union 0..clock]]
    BY DEF Cht!Init
  <2> QED BY <1>0, <2>1, <2>2, <2>3, <2>4, <2>5, <2>6 DEF Cht!TypeOK
<1>2. ChatStage
  BY <1>0 DEF Cht!Init, ChatStage
<1>3. ChatOpening
  BY DEF Cht!Init, ChatOpening
<1>4. MarkerStage
  BY DEF Cht!Init, MarkerStage, Cht!Never
<1> QED BY <1>1, <1>2, <1>3, <1>4 DEF ChatInv

\* Every step of the chat, the clock among them, keeps its invariant.
LEMMA ChatStep ==
  ASSUME ChatInv, [Cht!Next]_chatVars
  PROVE  ChatInv'
<1>1. CASE \E c \in ChatCalls : Cht!Step(c)
  <2>1. PICK c \in ChatCalls : Cht!Step(c)
    BY <1>1
  <2>2. Cht!TypeOK' /\ ChatStage'
    BY <2>1, ChatStageStep DEF ChatInv
  <2>3. ChatOpening'
    BY <2>1, ChatOpeningStep DEF ChatInv
  <2>4. MarkerStage'
    BY <2>1, MarkerStep
  <2> QED BY <2>2, <2>3, <2>4 DEF ChatInv
<1>2. CASE Cht!Tick
  BY <1>2, TickStep
<1>3. CASE UNCHANGED chatVars
  BY <1>3 DEF chatVars, ChatInv, Cht!TypeOK, ChatStage, ChatOpening, MarkerStage, IsDate
<1> QED BY <1>1, <1>2, <1>3 DEF Cht!Next

\* The requests of a chat work on what is there, in every state.
THEOREM ChatInvariant == MCSpec => []ChatInv
<1>1. MCInit => ChatInv
  BY ChatInit DEF MCInit
<1>2. ChatInv /\ [MCNext]_allVars => ChatInv'
  BY StepOfOne, ChatStep
<1> QED BY <1>1, <1>2, PTL DEF MCSpec

\* A second chat of the same two users needs two requests that open it at once
\* (MCSocial!OneConversation).
THEOREM OneChat == MCSpec => []OneConversation
<1>1. ChatInv => OneConversation
  BY DEF ChatInv, ChatOpening, Cht!TypeOK, OneConversation, Cht!OneConversation
<1> QED BY <1>1, ChatInvariant, PTL

\* What a step does to the marker of u in k.
MarkerGoes(u, k) ==
  marker'[u][k] < marker[u][k] =>
    \E c \in ChatCalls :
      /\ chatPc[c] = "readUpdate" /\ chatter[c] = u /\ conv[c] = k
      /\ c \in overtaken \/ msg[c] # 0

\* The marker of a chat goes back only for a reason (MCSocial!MarkerForward).
THEOREM MarkersForward == MCSpec => MarkerForward
<1>1. ASSUME ChatInv, [Cht!Next]_chatVars, NEW u \in Users, NEW k \in Cht!Conversations
      PROVE  MarkerGoes(u, k)
  <2>0. marker[u][k] \in Int
    BY <1>1, MarkersAreNumbers DEF ChatInv
  <2>1. CASE marker' = marker
    BY <2>0, <2>1 DEF MarkerGoes
  <2>2. ASSUME NEW c \in ChatCalls, Cht!ReadUpdate(c) PROVE MarkerGoes(u, k)
    <3>1. chatPc[c] = "readUpdate" /\ marker' = [marker EXCEPT ![chatter[c]][conv[c]] = at[c]]
      BY <2>2 DEF Cht!ReadUpdate
    <3>2. chatter[c] \in Users /\ conv[c] \in Cht!Conversations /\ at[c] \in Int
      <4>1. chatter[c] \in Users /\ conv[c] \in 1..conversations /\ at[c] \in {-1} \union 0..clock
        BY <1>1, <3>1 DEF ChatInv, ChatStage, Cht!TypeOK, Cht!Never
      <4> QED BY <1>1, <4>1, ConversationsBound DEF ChatInv
    <3>3. marker'[u][k] = IF u = chatter[c] /\ k = conv[c] THEN at[c] ELSE marker[u][k]
      BY <1>1, <3>1, <3>2 DEF ChatInv, Cht!TypeOK
    <3>4. c \in overtaken \/ msg[c] # 0 \/ marker[chatter[c]][conv[c]] <= at[c]
      BY <1>1, <3>1 DEF ChatInv, MarkerStage
    <3> QED BY <2>0, <3>1, <3>2, <3>3, <3>4 DEF MarkerGoes
  <2> QED BY <1>1, <2>1, <2>2 DEF Cht!Next, Cht!Step, Cht!OpenCheck, Cht!OpenFind, Cht!OpenCreate, Cht!SendCheck,
        Cht!SendBegin, Cht!SendCommit, Cht!ReadFind, Cht!ReadMessage, Cht!DeleteFind, Cht!SoftDelete, Cht!Fail,
        Cht!Tick, chatVars
<1>2. ChatInv /\ [MCNext]_allVars => \A u \in Users, k \in Cht!Conversations : MarkerGoes(u, k)
  BY <1>1, StepOfOne
<1> QED BY ChatInvariant, <1>2, PTL DEF MCSpec, MarkerForward, Cht!MarkerForward, MarkerGoes

\* A request that is about to store the date of a message has that date.
MarkedDate ==
  \A c \in ChatCalls : chatPc[c] = "readUpdate" /\ msg[c] # 0 =>
    msg[c] \in DOMAIN messages /\ at[c] = Cht!Date(messages[msg[c]].at)

\* Messages stay where they are, with their times.
LEMMA MessagesStay ==
  ASSUME ChatInv, NEW c \in ChatCalls, Cht!Step(c), NEW i \in DOMAIN messages
  PROVE  i \in DOMAIN messages' /\ messages'[i].at = messages[i].at /\ messages'[i].conv = messages[i].conv
<1>1. messages \in Seq(Messages)
  BY DEF ChatInv, ChatStage
<1>2. CASE messages' = messages
  BY <1>2
<1>3. CASE Cht!SendCommit(c)
  <2>1. PICK m : messages' = Append(messages, m)
    BY <1>3 DEF Cht!SendCommit
  <2> QED BY <1>1, <2>1
<1>4. CASE Cht!SoftDelete(c)
  <2>1. msg[c] \in DOMAIN messages /\ messages' = [messages EXCEPT ![msg[c]].gone = TRUE]
    BY <1>4 DEF Cht!SoftDelete, ChatInv, ChatStage
  <2> QED BY <1>1, <2>1, SoftDeleteMessage
<1> QED BY <1>2, <1>3, <1>4 DEF Cht!Step, Cht!OpenCheck, Cht!OpenFind, Cht!OpenCreate, Cht!SendCheck,
      Cht!SendBegin, Cht!ReadFind, Cht!ReadMessage, Cht!ReadUpdate, Cht!DeleteFind, Cht!Fail

\* Every step keeps it so.
LEMMA MarkedDateStep == ChatInv /\ MarkedDate /\ [MCNext]_allVars => MarkedDate'
<1> SUFFICES ASSUME ChatInv, MarkedDate, [Cht!Next]_chatVars PROVE MarkedDate'
  BY StepOfOne
<1>1. ASSUME NEW c \in ChatCalls, Cht!Step(c) PROVE MarkedDate'
  <2>1. OthersWait(c)
    BY <1>1, OneChatRequest DEF ChatInv
  <2>2. \A i \in DOMAIN messages : i \in DOMAIN messages' /\ messages'[i].at = messages[i].at
    BY <1>1, MessagesStay
  <2>3. \A d \in ChatCalls \ {c} : chatPc'[d] = "readUpdate" /\ msg'[d] # 0 =>
          msg'[d] \in DOMAIN messages' /\ at'[d] = Cht!Date(messages'[msg'[d]].at)
    BY <2>1, <2>2 DEF OthersWait, MarkedDate
  <2>4. chatPc'[c] = "readUpdate" /\ msg'[c] # 0 =>
          msg'[c] \in DOMAIN messages' /\ at'[c] = Cht!Date(messages'[msg'[c]].at)
    <3>1. CASE Cht!ReadFind(c)
      <4>1. chatPc'[c] = "readUpdate" => msg'[c] = 0
        BY <3>1 DEF Cht!ReadFind, Cht!Begin, ChatInv, Cht!TypeOK
      <4> QED BY <4>1
    <3>2. CASE Cht!ReadMessage(c)
      <4>1. chatPc[c] = "readMessage" /\ msg[c] \in DOMAIN messages
        BY <3>2 DEF Cht!ReadMessage, ChatInv, ChatStage
      <4>2. messages' = messages
        BY <3>2 DEF Cht!ReadMessage
      <4>3. msg'[c] = 0 \/ (msg'[c] = msg[c] /\ at'[c] = Cht!Date(messages[msg[c]].at))
        BY <3>2 DEF Cht!ReadMessage, ChatInv, Cht!TypeOK
      <4> QED BY <4>1, <4>2, <4>3
    <3>3. CASE ~(Cht!ReadFind(c) \/ Cht!ReadMessage(c))
      <4>1. chatPc'[c] # "readUpdate"
        BY <1>1, <3>3 DEF Cht!Step, Cht!OpenCheck, Cht!OpenFind, Cht!OpenCreate, Cht!SendCheck, Cht!SendBegin,
           Cht!SendCommit, Cht!ReadUpdate, Cht!DeleteFind, Cht!SoftDelete, Cht!Fail, Cht!Return, Cht!GoTo,
           Cht!Begin, ChatInv, Cht!TypeOK
      <4> QED BY <4>1
    <3> QED BY <3>1, <3>2, <3>3
  <2> QED BY <2>3, <2>4 DEF MarkedDate
<1>2. CASE Cht!Tick \/ UNCHANGED chatVars
  BY <1>2 DEF Cht!Tick, Cht!requests, Cht!history, chatVars, MarkedDate
<1> QED BY <1>1, <1>2 DEF Cht!Next

\* A message that was just marked and is unread is less than a millisecond ahead of the marker.
MarkedGoes(u, k, i) ==
  (\E c \in ChatCalls : Cht!ReadUpdate(c) /\ chatter[c] = u /\ conv[c] = k /\ msg[c] = i)
    /\ i \in Cht!Unread(u, k)'
  => marker'[u][k] < messages'[i].at /\ messages'[i].at < marker'[u][k] + Milli

\* A date is less than a millisecond before its time.
LEMMA DateNear == \A t \in Nat : Cht!Date(t) \in Nat /\ t < Cht!Date(t) + Milli
<1> SUFFICES ASSUME NEW t \in Nat PROVE Cht!Date(t) \in Nat /\ t < Cht!Date(t) + Milli
  OBVIOUS
<1>1. /\ t = Milli * (t \div Milli) + (t % Milli)
      /\ t % Milli \in 0..(Milli - 1) /\ t \div Milli \in Int
  BY ChatAssumption
<1>2. Cht!Date(t) \in Nat
  BY DateBounds
<1> QED BY <1>1, <1>2, ChatAssumption DEF Cht!Date

\* Whatever requests overlap, only the clock is to blame for a marked message that is
\* unread: it is less than a millisecond ahead of its marker
\* (ChatService.markAsRead; the marker is a Date, created_at is not).
THEOREM MarkedToTheMilli ==
  MCSpec => [][\A u \in Users, k \in Cht!Conversations, i \in DOMAIN messages : MarkedGoes(u, k, i)]_allVars
<1>1. MCInit => MarkedDate
  BY DEF MCInit, Cht!Init, MarkedDate
<1>2. ASSUME ChatInv, MarkedDate, ChatInv',
             NEW u \in Users, NEW k \in Cht!Conversations, NEW i \in DOMAIN messages
      PROVE  MarkedGoes(u, k, i)
  <2> SUFFICES ASSUME NEW c \in ChatCalls, Cht!ReadUpdate(c), chatter[c] = u, conv[c] = k, msg[c] = i,
                      i \in Cht!Unread(u, k)'
               PROVE  marker'[u][k] < messages'[i].at /\ messages'[i].at < marker'[u][k] + Milli
    BY DEF MarkedGoes
  <2>1. /\ chatPc[c] = "readUpdate" /\ messages' = messages
        /\ marker' = [marker EXCEPT ![u][k] = at[c]]
    BY DEF Cht!ReadUpdate
  <2>2. i # 0 /\ messages \in Seq(Messages)
    BY <1>2 DEF ChatInv, ChatStage
  <2>3. messages[i].at \in Nat
    <3>1. messages[i] \in Messages
      BY <2>2
    <3> QED BY <3>1, ChatAssumption DEF Messages
  <2>4. marker'[u][k] = Cht!Date(messages[i].at)
    <3>1. at[c] = Cht!Date(messages[i].at)
      BY <1>2, <2>1, <2>2 DEF MarkedDate
    <3>2. marker \in [Users -> [Cht!Conversations -> {-1} \union 0..clock]]
      BY <1>2 DEF ChatInv, Cht!TypeOK, Cht!Never
    <3> QED BY <2>1, <3>1, <3>2
  <2>5. messages'[i].at > marker'[u][k]
    BY DEF Cht!Unread
  <2> QED BY <2>1, <2>3, <2>4, <2>5, DateNear
<1>3. ChatInv /\ MarkedDate /\ ChatInv' =>
        \A u \in Users, k \in Cht!Conversations, i \in DOMAIN messages : MarkedGoes(u, k, i)
  BY <1>2
<1> QED BY ChatInvariant, <1>1, <1>3, MarkedDateStep, PTL DEF MCSpec

\* So with a clock that counts milliseconds MarkedIsRead holds, for any requests: the run
\* that violates it has two ticks in one.
THEOREM CoarseClockReads ==
  ASSUME Milli = 1
  PROVE  MCSpec => Cht!MarkedIsRead
<1> DEFINE Goes == \A u \in Users, k \in Cht!Conversations, i \in DOMAIN messages : MarkedGoes(u, k, i)
           Reads == \A u \in Users, k \in Cht!Conversations, i \in DOMAIN messages :
             (\E c \in ChatCalls : Cht!ReadUpdate(c) /\ chatter[c] = u /\ conv[c] = k /\ msg[c] = i)
               => i \notin Cht!Unread(u, k)'
<1>1. ChatInv /\ ChatInv' /\ Goes => Reads
  <2> SUFFICES ASSUME ChatInv, ChatInv', Goes, NEW u \in Users, NEW k \in Cht!Conversations,
                      NEW i \in DOMAIN messages, i \in Cht!Unread(u, k)',
                      NEW c \in ChatCalls, Cht!ReadUpdate(c), chatter[c] = u, conv[c] = k, msg[c] = i
               PROVE  FALSE
    OBVIOUS
  <2>1. marker'[u][k] < messages'[i].at /\ messages'[i].at < marker'[u][k] + 1
    BY DEF MarkedGoes
  <2>2. marker'[u][k] \in Int
    BY DEF ChatInv, Cht!TypeOK, Cht!Never
  <2>3. messages'[i].at \in Int
    <3>1. messages' \in Seq(Messages) /\ i \in DOMAIN messages'
      BY DEF ChatInv, ChatStage, Cht!Unread
    <3>2. messages'[i] \in Messages
      BY <3>1
    <3> QED BY <3>2, ChatAssumption DEF Messages
  <2> QED BY <2>1, <2>2, <2>3
<1>2. Reads <=> \A u \in Users, k \in Cht!Conversations, i \in DOMAIN messages :
             (\E c \in ChatCalls : Cht!ReadUpdate(c) /\ chatter[c] = u /\ conv[c] = k /\ msg[c] = i)
               => i \notin Cht!Unread(u, k)'
  OBVIOUS
<1>3. UNCHANGED allVars => (Reads \/ UNCHANGED Cht!vars)
  BY DEF allVars, Cht!vars, Cht!requests, Cht!history, chatVars
<1> HIDE DEF Reads
<1> QED BY MarkedToTheMilli, ChatInvariant, <1>1, <1>2, <1>3, PTL DEF Cht!MarkedIsRead
=============================================================================
