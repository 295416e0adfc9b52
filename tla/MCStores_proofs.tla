---------------------------- MODULE MCStores_proofs ----------------------------
(***************************************************************************)
(* Proofs about what Redis keeps beside the database: the unread count, the *)
(* view counters and the cache, for any sets of notifications, listings,   *)
(* runs and requests and any number of failures.  Each has an inductive    *)
(* invariant of its own; a step of the whole is a step of one of them.     *)
(***************************************************************************)
EXTENDS MCStores, FiniteSetTheorems, TLAPS

allVars == <<focus, vars, viewVars, cacheVars>>

\* A step of the whole is a step of the one component and a stutter of the others.
LEMMA StepOfOne ==
  ASSUME [MCNext]_allVars
  PROVE  [Next]_vars /\ [Vie!Next]_viewVars /\ [Cac!Next]_cacheVars
  BY DEF MCNext, allVars

-----------------------------------------------------------------------------
\* The unread count.  The induction goes over the types, FillsFresh (what a
\* request remembers is still true when it acts on it, or somebody overtook it)
\* and CountExplained itself.

\* There are finitely many unread rows, and their number is a natural.
LEMMA UnreadNat == Unread \in Nat
<1>1. IsFiniteSet(UnreadRows)
  BY IdsAssumption, FS_Subset DEF UnreadRows
<1> QED
  BY <1>1, FS_CardinalityType DEF Unread

\* The count depends on the set of unread rows only.
LEMMA UnreadSame == UnreadRows' = UnreadRows => Unread' = Unread
BY DEF Unread

\* Every step keeps the types.
LEMMA TypeStep == TypeOK /\ FillsFresh /\ [Next]_vars => TypeOK'
<1> SUFFICES ASSUME TypeOK, FillsFresh, [Next]_vars PROVE TypeOK'
  OBVIOUS
<1> USE IdsAssumption, FaultsAssumption, UnreadNat DEF TypeOK, Pcs, Statuses, FillsFresh, localVars
<1>1. ASSUME NEW c \in Calls, Create(c) PROVE TypeOK'
  BY <1>1 DEF Create, Write, Go
<1>2. ASSUME NEW c \in Calls, FindToMark(c) PROVE TypeOK'
  BY <1>2 DEF FindToMark, Go
<1>3. ASSUME NEW c \in Calls, Mark(c) PROVE TypeOK'
  BY <1>3 DEF Mark, Write, Go
<1>4. ASSUME NEW c \in Calls, MarkAll(c) PROVE TypeOK'
  BY <1>4 DEF MarkAll, Write, Go
<1>5. ASSUME NEW c \in Calls, FindToDelete(c) PROVE TypeOK'
  BY <1>5 DEF FindToDelete, Go
<1>6. ASSUME NEW c \in Calls, DeleteRow(c) PROVE TypeOK'
  BY <1>6 DEF DeleteRow, Write, Go, End
<1>7. ASSUME NEW c \in Calls, Invalidate(c) PROVE TypeOK'
  BY <1>7 DEF Invalidate, DropEntry, Go, End
<1>8. ASSUME NEW c \in Calls, MissCache(c) PROVE TypeOK'
  BY <1>8 DEF MissCache, Go
<1>9. ASSUME NEW c \in Calls, CountRows(c) PROVE TypeOK'
  BY <1>9 DEF CountRows, Go
<1>10. ASSUME NEW c \in Calls, StoreCount(c) PROVE TypeOK'
  BY <1>10 DEF StoreCount, Go, End
<1>11. ASSUME NEW c \in Calls, CallFault(c) PROVE TypeOK'
  BY <1>11 DEF CallFault, Fault, Go, End
<1>12. ASSUME NEW c \in Calls, InvalidateFault(c) PROVE TypeOK'
  BY <1>12 DEF InvalidateFault, Fault, Go, End
<1>13. CASE DeleteOld
  BY <1>13 DEF DeleteOld, Write
<1>14. CASE Expire
  BY <1>14 DEF Expire, DropEntry
<1>15. CASE Restart
  BY <1>15 DEF Restart, Fault
<1>16. CASE UNCHANGED vars
  BY <1>16 DEF vars
<1> QED
  BY <1>1, <1>2, <1>3, <1>4, <1>5, <1>6, <1>7, <1>8, <1>9, <1>10, <1>11, <1>12, <1>13, <1>14, <1>15, <1>16 DEF Next, Start, Continue

\* Every step keeps what the requests remember true, or marks it overtaken.
LEMMA FreshStep == TypeOK /\ FillsFresh /\ [Next]_vars => FillsFresh'
<1> SUFFICES ASSUME TypeOK, FillsFresh, [Next]_vars PROVE FillsFresh'
  OBVIOUS
<1> USE IdsAssumption, UnreadNat, UnreadSame DEF TypeOK, Pcs, Statuses, FillsFresh, Exists, UnreadRows, localVars
<1>1. ASSUME NEW c \in Calls, Create(c) PROVE FillsFresh'
  BY <1>1 DEF Create, Write, Go
<1>2. ASSUME NEW c \in Calls, FindToMark(c) PROVE FillsFresh'
  BY <1>2 DEF FindToMark, Go
<1>3. ASSUME NEW c \in Calls, Mark(c) PROVE FillsFresh'
  BY <1>3 DEF Mark, Write, Go
<1>4. ASSUME NEW c \in Calls, MarkAll(c) PROVE FillsFresh'
  BY <1>4 DEF MarkAll, Write, Go
<1>5. ASSUME NEW c \in Calls, FindToDelete(c) PROVE FillsFresh'
  BY <1>5 DEF FindToDelete, Go
<1>6. ASSUME NEW c \in Calls, DeleteRow(c) PROVE FillsFresh'
  BY <1>6 DEF DeleteRow, Write, Go, End
<1>7. ASSUME NEW c \in Calls, Invalidate(c) PROVE FillsFresh'
  BY <1>7 DEF Invalidate, DropEntry, Go, End
<1>8. ASSUME NEW c \in Calls, MissCache(c) PROVE FillsFresh'
  BY <1>8 DEF MissCache, Go
<1>9. ASSUME NEW c \in Calls, CountRows(c) PROVE FillsFresh'
  BY <1>9 DEF CountRows, Go
<1>10. ASSUME NEW c \in Calls, StoreCount(c) PROVE FillsFresh'
  BY <1>10 DEF StoreCount, Go, End
<1>11. ASSUME NEW c \in Calls, CallFault(c) PROVE FillsFresh'
  BY <1>11 DEF CallFault, Fault, Go, End
<1>12. ASSUME NEW c \in Calls, InvalidateFault(c) PROVE FillsFresh'
  BY <1>12 DEF InvalidateFault, Fault, Go, End
<1>13. CASE DeleteOld
  BY <1>13 DEF DeleteOld, Write
<1>14. CASE Expire
  BY <1>14 DEF Expire, DropEntry
<1>15. CASE Restart
  BY <1>15 DEF Restart, Fault
<1>16. CASE UNCHANGED vars
  BY <1>16 DEF vars
<1> QED
  BY <1>1, <1>2, <1>3, <1>4, <1>5, <1>6, <1>7, <1>8, <1>9, <1>10, <1>11, <1>12, <1>13, <1>14, <1>15, <1>16 DEF Next, Start, Continue

\* Every step keeps a reason for a wrong count.
LEMMA ExplainedStep == TypeOK /\ FillsFresh /\ CountExplained /\ [Next]_vars => CountExplained'
<1> SUFFICES ASSUME TypeOK, FillsFresh, CountExplained, [Next]_vars PROVE CountExplained'
  OBVIOUS
<1> USE IdsAssumption, UnreadNat, UnreadSame DEF TypeOK, Pcs, Statuses, FillsFresh, CountExplained, Exists, UnreadRows, localVars
<1>1. ASSUME NEW c \in Calls, Create(c) PROVE CountExplained'
  BY <1>1 DEF Create, Write, Go
<1>2. ASSUME NEW c \in Calls, FindToMark(c) PROVE CountExplained'
  BY <1>2 DEF FindToMark, Go
<1>3. ASSUME NEW c \in Calls, Mark(c) PROVE CountExplained'
  BY <1>3 DEF Mark, Write, Go
<1>4. ASSUME NEW c \in Calls, MarkAll(c) PROVE CountExplained'
  BY <1>4 DEF MarkAll, Write, Go
<1>5. ASSUME NEW c \in Calls, FindToDelete(c) PROVE CountExplained'
  BY <1>5 DEF FindToDelete, Go
<1>6. ASSUME NEW c \in Calls, DeleteRow(c) PROVE CountExplained'
  BY <1>6 DEF DeleteRow, Write, Go, End
<1>7. ASSUME NEW c \in Calls, Invalidate(c) PROVE CountExplained'
  BY <1>7 DEF Invalidate, DropEntry, Go, End
<1>8. ASSUME NEW c \in Calls, MissCache(c) PROVE CountExplained'
  BY <1>8 DEF MissCache, Go
<1>9. ASSUME NEW c \in Calls, CountRows(c) PROVE CountExplained'
  BY <1>9 DEF CountRows, Go
<1>10. ASSUME NEW c \in Calls, StoreCount(c) PROVE CountExplained'
  BY <1>10 DEF StoreCount, Go, End
<1>11. ASSUME NEW c \in Calls, CallFault(c) PROVE CountExplained'
  BY <1>11 DEF CallFault, Fault, Go, End
<1>12. ASSUME NEW c \in Calls, InvalidateFault(c) PROVE CountExplained'
  BY <1>12 DEF InvalidateFault, Fault, Go, End
<1>13. CASE DeleteOld
  BY <1>13 DEF DeleteOld, Write
<1>14. CASE Expire
  BY <1>14 DEF Expire, DropEntry
<1>15. CASE Restart
  BY <1>15 DEF Restart, Fault
<1>16. CASE UNCHANGED vars
  BY <1>16 DEF vars
<1> QED
  BY <1>1, <1>2, <1>3, <1>4, <1>5, <1>6, <1>7, <1>8, <1>9, <1>10, <1>11, <1>12, <1>13, <1>14, <1>15, <1>16 DEF Next, Start, Continue

IInv == TypeOK /\ FillsFresh /\ CountExplained

\* The table and the key are empty at first.
LEMMA InitIInv == Init => IInv
<1> SUFFICES ASSUME Init PROVE IInv
  OBVIOUS
<1>1. TypeOK
  <2>1. entry \subseteq Nat /\ \A m, n \in entry : m = n
    BY DEF Init
  <2>2. /\ pc \in [Calls -> Pcs] /\ target \in [Calls -> Ids \cup {"none"}]
        /\ row \in [Ids -> Statuses] /\ found \in [Calls -> Statuses]
    BY DEF Init, Pcs, Statuses
  <2>3. /\ count \in [Calls -> Nat] /\ overtaken \subseteq Calls
        /\ excuse \in {"none", "raced", "lost"}
    BY DEF Init
  <2>4. expires \in BOOLEAN
    BY DEF Init
  <2>5. faults \in 0..MaxFaults
    BY FaultsAssumption DEF Init
  <2> QED
    BY <2>1, <2>2, <2>3, <2>4, <2>5 DEF TypeOK
<1>2. FillsFresh
  BY DEF Init, FillsFresh
<1>3. CountExplained
  BY DEF Init, CountExplained
<1> QED
  BY <1>1, <1>2, <1>3 DEF IInv

\* Every step of the unread counter keeps its invariant.
LEMMA StepIInv == IInv /\ [Next]_vars => IInv'
  BY TypeStep, FreshStep, ExplainedStep DEF IInv

RowForward(i) ==
  \/ row'[i] = row[i]
  \/ row[i] = "absent" /\ row'[i] = "unread"
  \/ row[i] = "unread" /\ row'[i] \in {"read", "gone"}
  \/ row[i] = "read" /\ row'[i] = "gone"

\* No request brings back a notification another one has read or deleted.
LEMMA RowsForwardStep == IInv /\ [Next]_vars => \A i \in Ids : RowForward(i)
<1> SUFFICES ASSUME IInv, [Next]_vars, NEW i \in Ids PROVE RowForward(i)
  OBVIOUS
<1> USE DEF IInv, TypeOK, Statuses, FillsFresh, RowForward, Exists
<1>1. ASSUME NEW c \in Calls, Create(c) \/ Mark(c) \/ MarkAll(c) \/ DeleteRow(c)
      PROVE  RowForward(i)
  BY <1>1 DEF Create, Mark, MarkAll, DeleteRow, Write
<1>2. ASSUME NEW c \in Calls,
             \/ FindToMark(c) \/ FindToDelete(c) \/ Invalidate(c) \/ MissCache(c)
             \/ CountRows(c) \/ StoreCount(c) \/ CallFault(c) \/ InvalidateFault(c)
      PROVE  RowForward(i)
  BY <1>2 DEF FindToMark, FindToDelete, Invalidate, MissCache, CountRows, StoreCount,
              CallFault, InvalidateFault
<1>3. CASE DeleteOld
  BY <1>3 DEF DeleteOld, Write
<1>4. CASE Expire \/ Restart \/ UNCHANGED vars
  BY <1>4 DEF Expire, Restart, vars
<1> QED
  BY <1>1, <1>2, <1>3, <1>4 DEF Next, Start, Continue

\* The unread counter stays explained, with what the open requests know.
THEOREM UnreadInvariant == MCSpec => []IInv
<1>1. MCInit => IInv
  BY InitIInv DEF MCInit
<1>2. IInv /\ [MCNext]_allVars => IInv'
  BY StepIInv, StepOfOne
<1> QED BY <1>1, <1>2, PTL DEF MCSpec, allVars

\* A wrong stored count always has one of the named reasons.
THEOREM CountSafe == MCSpec => []CountExplained
<1>1. IInv => CountExplained
  BY DEF IInv
<1> QED BY UnreadInvariant, <1>1, PTL

\* A notification is created once, read once and deleted once, in any behaviour.
THEOREM RowsForward == MCSpec => RowsMoveForward
<1>1. IInv /\ [MCNext]_allVars => \A i \in Ids : RowForward(i)
  BY RowsForwardStep, StepOfOne
<1> QED
  BY UnreadInvariant, <1>1, PTL DEF MCSpec, allVars, RowsMoveForward, RowForward

-----------------------------------------------------------------------------
\* The view counters.

\* Every step keeps the types.
LEMMA ViewsTypeStep == ViewFaults \in Nat /\ Vie!TypeOK /\ Vie!EveryViewOnce /\ [Vie!Next]_viewVars => Vie!TypeOK'
<1> SUFFICES ASSUME ViewFaults \in Nat, Vie!TypeOK, Vie!EveryViewOnce, [Vie!Next]_viewVars PROVE Vie!TypeOK'
  OBVIOUS
<1> USE DEF Vie!TypeOK, Vie!Views, Vie!Of, Vie!EveryViewOnce
<1>0. ASSUME NEW v \in Vie!Views, Vie!View(v) PROVE Vie!TypeOK'
  BY <1>0 DEF Vie!View, Vie!runs, Vie!InHand, Vie!Counted
<1>1. ASSUME NEW r \in Runs, Vie!ListKeys(r) PROVE Vie!TypeOK'
  BY <1>1 DEF Vie!ListKeys, Vie!GoTo
<1>2. ASSUME NEW r \in Runs, Vie!TakeKey(r) PROVE Vie!TypeOK'
  BY <1>2 DEF Vie!TakeKey, Vie!GoTo, Vie!Buffered
<1>3. ASSUME NEW r \in Runs, Vie!AddViews(r) PROVE Vie!TypeOK'
  BY <1>3 DEF Vie!AddViews, Vie!GoTo, Vie!PutDown
<1>4. ASSUME NEW r \in Runs, Vie!Finish(r) PROVE Vie!TypeOK'
  BY <1>4 DEF Vie!Finish, Vie!End, Vie!GoTo, Vie!PutDown
<1>5. ASSUME NEW r \in Runs, Vie!AddFails(r) PROVE Vie!TypeOK'
  BY <1>5 DEF Vie!AddFails, Vie!End, Vie!GoTo, Vie!PutDown, Vie!Fault
<1>6. ASSUME NEW r \in Runs, Vie!TakeFails(r) PROVE Vie!TypeOK'
  BY <1>6 DEF Vie!TakeFails, Vie!End, Vie!GoTo, Vie!PutDown, Vie!Fault
<1>7. ASSUME NEW r \in Runs, Vie!ReplyLost(r) PROVE Vie!TypeOK'
  BY <1>7 DEF Vie!ReplyLost, Vie!Buffered, Vie!Fault
<1>8. CASE Vie!FlushAll
  BY <1>8 DEF Vie!FlushAll, Vie!runs, Vie!Fault
<1>9. CASE Vie!Restart
  BY <1>9 DEF Vie!Restart, Vie!Fault, Vie!InHand
<1>10. CASE Vie!Rest
  BY <1>10 DEF Vie!Rest, Vie!vars, Vie!runs
<1>11. CASE UNCHANGED viewVars
  BY <1>11 DEF viewVars
<1> QED
  BY <1>0, <1>1, <1>2, <1>3, <1>4, <1>5, <1>6, <1>7, <1>8, <1>9, <1>10, <1>11 DEF Vie!Next, Vie!Continue

\* Every step moves a view from one place to one other.
LEMMA ViewsOnceStep == ViewFaults \in Nat /\ Vie!TypeOK /\ Vie!EveryViewOnce /\ [Vie!Next]_viewVars => Vie!EveryViewOnce'
<1> SUFFICES ASSUME ViewFaults \in Nat, Vie!TypeOK, Vie!EveryViewOnce, [Vie!Next]_viewVars PROVE Vie!EveryViewOnce'
  OBVIOUS
<1> USE DEF Vie!TypeOK, Vie!Views, Vie!Of, Vie!EveryViewOnce
<1>0. ASSUME NEW v \in Vie!Views, Vie!View(v) PROVE Vie!EveryViewOnce'
  BY <1>0 DEF Vie!View, Vie!runs, Vie!InHand, Vie!Counted
<1>1. ASSUME NEW r \in Runs, Vie!ListKeys(r) PROVE Vie!EveryViewOnce'
  BY <1>1 DEF Vie!ListKeys, Vie!GoTo
<1>2. ASSUME NEW r \in Runs, Vie!TakeKey(r) PROVE Vie!EveryViewOnce'
  BY <1>2 DEF Vie!TakeKey, Vie!GoTo, Vie!Buffered
<1>3. ASSUME NEW r \in Runs, Vie!AddViews(r) PROVE Vie!EveryViewOnce'
  BY <1>3 DEF Vie!AddViews, Vie!GoTo, Vie!PutDown
<1>4. ASSUME NEW r \in Runs, Vie!Finish(r) PROVE Vie!EveryViewOnce'
  BY <1>4 DEF Vie!Finish, Vie!End, Vie!GoTo, Vie!PutDown
<1>5. ASSUME NEW r \in Runs, Vie!AddFails(r) PROVE Vie!EveryViewOnce'
  BY <1>5 DEF Vie!AddFails, Vie!End, Vie!GoTo, Vie!PutDown, Vie!Fault
<1>6. ASSUME NEW r \in Runs, Vie!TakeFails(r) PROVE Vie!EveryViewOnce'
  BY <1>6 DEF Vie!TakeFails, Vie!End, Vie!GoTo, Vie!PutDown, Vie!Fault
<1>7. ASSUME NEW r \in Runs, Vie!ReplyLost(r) PROVE Vie!EveryViewOnce'
  BY <1>7 DEF Vie!ReplyLost, Vie!Buffered, Vie!Fault
<1>8. CASE Vie!FlushAll
  BY <1>8 DEF Vie!FlushAll, Vie!runs, Vie!Fault
<1>9. CASE Vie!Restart
  BY <1>9 DEF Vie!Restart, Vie!Fault, Vie!InHand
<1>10. CASE Vie!Rest
  BY <1>10 DEF Vie!Rest, Vie!vars, Vie!runs
<1>11. CASE UNCHANGED viewVars
  BY <1>11 DEF viewVars
<1> QED
  BY <1>0, <1>1, <1>2, <1>3, <1>4, <1>5, <1>6, <1>7, <1>8, <1>9, <1>10, <1>11 DEF Vie!Next, Vie!Continue

\* Before the first view there is none to be in two places.
LEMMA ViewsInit == ViewFaults \in Nat /\ Vie!Init => Vie!TypeOK /\ Vie!EveryViewOnce
  BY DEF Vie!Init, Vie!TypeOK, Vie!EveryViewOnce, Vie!Views, Vie!Of

\* Every step of the counters is a step of ViewFate or changes nothing there.
LEMMA ViewsSimulates ==
  ASSUME Vie!TypeOK, Vie!EveryViewOnce, [Vie!Next]_viewVars
  PROVE  [Vie!Fate!Next]_(Vie!Fate!fates)
<1> DEFINE open == buffer \union Vie!InHand
<1> SUFFICES \/ UNCHANGED <<open, Vie!Counted, lost>>
             \/ \E v \in Vie!Views :
                  /\ v \notin open \union Vie!Counted \union lost
                  /\ open' = open \union {v} /\ UNCHANGED <<Vie!Counted, lost>>
             \/ \E V \in SUBSET Vie!Views :
                  /\ V \subseteq open /\ open' = open \ V
                  /\ \/ Vie!Counted' = Vie!Counted \union V /\ UNCHANGED lost
                     \/ lost' = lost \union V /\ UNCHANGED Vie!Counted
  BY DEF Vie!Fate!Next, Vie!Fate!fates, Vie!Fate!Watch, Vie!Fate!Count, Vie!Fate!Lose
<1> USE DEF Vie!TypeOK, Vie!EveryViewOnce, Vie!Views, Vie!Of, Vie!InHand, Vie!Counted, Vie!Buffered, Vie!GoTo, Vie!PutDown, Vie!End
<1>1. ASSUME NEW v \in Vie!Views, Vie!View(v)
      PROVE  /\ v \notin open \union Vie!Counted \union lost
             /\ open' = open \union {v} /\ UNCHANGED <<Vie!Counted, lost>>
  BY <1>1 DEF Vie!View, Vie!runs
<1>2. ASSUME NEW r \in Runs, Vie!ListKeys(r) \/ Vie!TakeFails(r) \/ Vie!Finish(r)
      PROVE  UNCHANGED <<open, Vie!Counted, lost>>
  BY <1>2 DEF Vie!ListKeys, Vie!TakeFails, Vie!Finish
<1>3. ASSUME NEW r \in Runs, Vie!TakeKey(r) PROVE UNCHANGED <<open, Vie!Counted, lost>>
  BY <1>3 DEF Vie!TakeKey
<1>4. ASSUME NEW r \in Runs, Vie!AddViews(r) \/ Vie!AddFails(r)
      PROVE  /\ hand[r] \in SUBSET Vie!Views
             /\ hand[r] \subseteq open /\ open' = open \ hand[r]
             /\ \/ Vie!Counted' = Vie!Counted \union hand[r] /\ UNCHANGED lost
                \/ lost' = lost \union hand[r] /\ UNCHANGED Vie!Counted
  BY <1>4 DEF Vie!AddViews, Vie!AddFails
<1>5. ASSUME NEW r \in Runs, Vie!ReplyLost(r)
      PROVE  \E V \in SUBSET Vie!Views :
               /\ V \subseteq open /\ open' = open \ V
               /\ lost' = lost \union V /\ UNCHANGED Vie!Counted
  <2>1. PICK i \in keys[r] : lost' = lost \union Vie!Buffered(i) /\ buffer' = buffer \ Vie!Of(i)
    BY <1>5 DEF Vie!ReplyLost
  <2>2. UNCHANGED <<Vie!Counted, Vie!InHand>>
    BY <1>5 DEF Vie!ReplyLost
  <2>3. /\ Vie!Buffered(i) \in SUBSET Vie!Views
        /\ Vie!Buffered(i) \subseteq open /\ open' = open \ Vie!Buffered(i)
    BY <2>1, <2>2
  <2> QED
    BY <2>1, <2>2, <2>3
<1>6. ASSUME Vie!FlushAll
      PROVE  /\ buffer \in SUBSET Vie!Views
             /\ buffer \subseteq open /\ open' = open \ buffer
             /\ lost' = lost \union buffer /\ UNCHANGED Vie!Counted
  BY <1>6 DEF Vie!FlushAll, Vie!runs
<1>7. ASSUME Vie!Restart
      PROVE  /\ Vie!InHand \in SUBSET Vie!Views
             /\ Vie!InHand \subseteq open /\ open' = open \ Vie!InHand
             /\ lost' = lost \union Vie!InHand /\ UNCHANGED Vie!Counted
  BY <1>7 DEF Vie!Restart
<1>8. ASSUME UNCHANGED viewVars PROVE UNCHANGED <<open, Vie!Counted, lost>>
  BY <1>8 DEF viewVars
<1> HIDE DEF open, Vie!TypeOK, Vie!EveryViewOnce, Vie!Views, Vie!Of, Vie!InHand, Vie!Counted, Vie!Buffered, Vie!GoTo, Vie!PutDown, Vie!End
<1> QED
  BY <1>1, <1>2, <1>3, <1>4, <1>5, <1>6, <1>7, <1>8 DEF Vie!Next, Vie!Continue, Vie!Rest, Vie!vars, Vie!runs, viewVars

\* Every view stays in one place, with the types of the counters.
THEOREM ViewsInvariant == MCSpec => [](Vie!TypeOK /\ Vie!EveryViewOnce)
<1>1. MCInit => Vie!TypeOK /\ Vie!EveryViewOnce
  BY ViewsInit, CountersAssumption DEF MCInit
<1>2. (Vie!TypeOK /\ Vie!EveryViewOnce) /\ [MCNext]_allVars => (Vie!TypeOK /\ Vie!EveryViewOnce)'
  BY ViewsTypeStep, ViewsOnceStep, StepOfOne, CountersAssumption
<1> QED BY <1>1, <1>2, PTL DEF MCSpec, allVars

\* The counters implement ViewFate (ViewCounters!CountsOnce): a view is counted
\* once and for good, or it is lost, and nothing else happens to it.
THEOREM ViewsImplement == MCSpec => CountsOnce
<1>1. MCInit => Vie!Fate!Init
  BY DEF MCInit, Vie!Init, Vie!Fate!Init, Vie!InHand, Vie!Counted
<1>2. Vie!TypeOK /\ Vie!EveryViewOnce /\ [MCNext]_allVars => [Vie!Fate!Next]_(Vie!Fate!fates)
  BY ViewsSimulates, StepOfOne
<1> QED
  BY <1>1, <1>2, ViewsInvariant, PTL DEF MCSpec, allVars, CountsOnce, Vie!CountsOnce, Vie!Fate!Spec

-----------------------------------------------------------------------------
\* The cache: a request that took the lock finds it there until it releases it,
\* unless the lock expired under it.
CacheInv ==
  /\ Cac!TypeOK
  /\ Cac!OneHolder
  /\ Cac!EntryExplained
  /\ tooLong \/ \A c \in CacheCalls : holds[c] => lock

\* An empty cache holds no stale entry.
LEMMA CacheInit == Cac!Init => CacheInv
<1> SUFFICES ASSUME Cac!Init PROVE CacheInv
  OBVIOUS
<1> USE CountersAssumption DEF Cac!Init
<1>1. Cac!TypeOK
  <2>1. copy \in {{}} \union {{v} : v \in 0..source} /\ source \in Cac!Versions /\ cacheFaults \in 0..CacheFaults
    BY DEF Cac!Versions
  <2>2. lock \in BOOLEAN /\ copyExcuse \in BOOLEAN /\ tooLong \in BOOLEAN
    OBVIOUS
  <2>3. /\ cachePc \in [CacheCalls -> {"idle", "lock", "retry", "compute", "store", "release", "invalidate"}]
        /\ holds \in [CacheCalls -> BOOLEAN] /\ value \in [CacheCalls -> 0..source]
        /\ \A c \in CacheCalls : ~holds[c]
    OBVIOUS
  <2> QED BY <2>1, <2>2, <2>3 DEF Cac!TypeOK
<1>2. Cac!OneHolder /\ Cac!EntryExplained
  BY DEF Cac!OneHolder, Cac!EntryExplained
<1> QED BY <1>1, <1>2 DEF CacheInv

\* Every step keeps the types.
LEMMA CacheTypeStep == CacheInv /\ [Cac!Next]_cacheVars => Cac!TypeOK'
<1> SUFFICES ASSUME Cac!TypeOK, [Cac!Next]_cacheVars PROVE Cac!TypeOK'
  BY DEF CacheInv
<1> USE CountersAssumption DEF Cac!TypeOK, Cac!GoTo, Cac!Return, Cac!Fault, Cac!Versions
<1>1. ASSUME NEW c \in CacheCalls, Cac!Miss(c) PROVE Cac!TypeOK'
  BY <1>1 DEF Cac!Miss
<1>2. ASSUME NEW c \in CacheCalls, Cac!AcquireLock(c) PROVE Cac!TypeOK'
  BY <1>2 DEF Cac!AcquireLock
<1>3. ASSUME NEW c \in CacheCalls, Cac!LockRefused(c) PROVE Cac!TypeOK'
  <2>1. lock' \in BOOLEAN
    BY <1>3, Zenon DEF Cac!LockRefused
  <2>2. /\ cachePc' = [cachePc EXCEPT ![c] = "retry"] /\ cachePc[c] = "lock"
        /\ UNCHANGED <<source, copy, holds, value, copyExcuse, tooLong>>
        /\ cacheFaults' = cacheFaults \/ Cac!Fault
    BY <1>3, Zenon DEF Cac!LockRefused
  <2>3. cacheFaults' \in 0..CacheFaults
    BY <2>2
  <2> QED BY <2>1, <2>2, <2>3
<1>4. ASSUME NEW c \in CacheCalls, Cac!RetryHit(c) PROVE Cac!TypeOK'
  BY <1>4 DEF Cac!RetryHit
<1>5. ASSUME NEW c \in CacheCalls, Cac!RetryMiss(c) PROVE Cac!TypeOK'
  BY <1>5 DEF Cac!RetryMiss
<1>6. ASSUME NEW c \in CacheCalls, Cac!Compute(c) PROVE Cac!TypeOK'
  BY <1>6 DEF Cac!Compute
<1>7. ASSUME NEW c \in CacheCalls, Cac!Store(c) PROVE Cac!TypeOK'
  BY <1>7 DEF Cac!Store
<1>8. ASSUME NEW c \in CacheCalls, Cac!ComputeFails(c) PROVE Cac!TypeOK'
  BY <1>8 DEF Cac!ComputeFails
<1>9. ASSUME NEW c \in CacheCalls, Cac!Release(c) PROVE Cac!TypeOK'
  <2>1. lock' \in BOOLEAN
    BY <1>9, Zenon DEF Cac!Release
  <2>2. /\ cachePc' = [cachePc EXCEPT ![c] = "idle"] /\ holds' = [holds EXCEPT ![c] = FALSE]
        /\ value' = [value EXCEPT ![c] = 0] /\ cacheFaults' \in 0..CacheFaults
        /\ UNCHANGED <<source, copy, copyExcuse, tooLong>>
    BY <1>9 DEF Cac!Release
  <2> QED BY <2>1, <2>2
<1>10. ASSUME NEW c \in CacheCalls, Cac!Change(c) PROVE Cac!TypeOK'
  BY <1>10 DEF Cac!Change
<1>11. ASSUME NEW c \in CacheCalls, Cac!Invalidate(c) PROVE Cac!TypeOK'
  <2>1. /\ copy' = {} \/ copy' = copy
        /\ cacheFaults' = cacheFaults \/ Cac!Fault
    BY <1>11, Zenon DEF Cac!Invalidate
  <2>3. copyExcuse' \in BOOLEAN
    BY <1>11, Zenon DEF Cac!Invalidate
  <2>4. cacheFaults' \in 0..CacheFaults
    BY <2>1
  <2>2. /\ cachePc' = [cachePc EXCEPT ![c] = "idle"] /\ holds' = [holds EXCEPT ![c] = FALSE]
        /\ value' = [value EXCEPT ![c] = 0]
        /\ UNCHANGED <<source, lock, tooLong>>
    BY <1>11 DEF Cac!Invalidate
  <2> QED BY <2>1, <2>2, <2>3, <2>4
<1>12. CASE Cac!Expire \/ Cac!ExpireLock
  BY <1>12 DEF Cac!Expire, Cac!ExpireLock, Cac!requests
<1>13. CASE Cac!Restart
  BY <1>13 DEF Cac!Restart
<1>14. CASE UNCHANGED cacheVars
  BY <1>14 DEF cacheVars
<1> QED
  BY <1>1, <1>2, <1>3, <1>4, <1>5, <1>6, <1>7, <1>8, <1>9, <1>10, <1>11, <1>12, <1>13, <1>14
     DEF Cac!Next, Cac!Step, Cac!Rest, Cac!vars, Cac!requests, cacheVars

\* A request deletes the lock only if it took it, so that another one's goes only
\* when the lock had expired before.
LEMMA CacheLockStep ==
  ASSUME CacheInv, [Cac!Next]_cacheVars
  PROVE  Cac!OneHolder' /\ (tooLong' \/ \A c \in CacheCalls : holds'[c] => lock')
<1> DEFINE P == Cac!OneHolder' /\ (tooLong' \/ \A c \in CacheCalls : holds'[c] => lock')
<1> USE DEF CacheInv, Cac!TypeOK, Cac!OneHolder, Cac!Return
<1>1. ASSUME NEW c \in CacheCalls, Cac!AcquireLock(c) PROVE P
  BY <1>1 DEF Cac!AcquireLock
<1>2. ASSUME NEW c \in CacheCalls, Cac!LockRefused(c) PROVE P
  <2>1. (lock' = lock \/ lock' = TRUE) /\ UNCHANGED <<holds, tooLong>>
    BY <1>2, Zenon DEF Cac!LockRefused
  <2> QED BY <2>1
<1>3. ASSUME NEW c \in CacheCalls, Cac!Release(c) PROVE P
  BY <1>3 DEF Cac!Release
<1>4. ASSUME NEW c \in CacheCalls, Cac!RetryHit(c) \/ Cac!Invalidate(c) PROVE P
  BY <1>4 DEF Cac!RetryHit, Cac!Invalidate
<1>5. ASSUME NEW c \in CacheCalls,
             Cac!Miss(c) \/ Cac!RetryMiss(c) \/ Cac!Compute(c) \/ Cac!Store(c) \/ Cac!ComputeFails(c) \/ Cac!Change(c)
      PROVE  P
  <2>1. UNCHANGED <<lock, holds, tooLong>>
    BY <1>5 DEF Cac!Miss, Cac!RetryMiss, Cac!Compute, Cac!Store, Cac!ComputeFails, Cac!Change
  <2> QED BY <2>1
<1>6. CASE Cac!Expire \/ UNCHANGED cacheVars
  BY <1>6 DEF Cac!Expire, Cac!requests, cacheVars
<1>7. CASE Cac!ExpireLock
  BY <1>7 DEF Cac!ExpireLock, Cac!requests
<1>8. CASE Cac!Restart
  BY <1>8 DEF Cac!Restart
<1> QED
  BY <1>1, <1>2, <1>3, <1>4, <1>5, <1>6, <1>7, <1>8 DEF Cac!Next, Cac!Step, Cac!Rest, Cac!vars, Cac!requests, cacheVars

\* Whoever has changed the data deletes the key, before or after others store it.
LEMMA CacheEntryStep ==
  ASSUME CacheInv, [Cac!Next]_cacheVars
  PROVE  Cac!EntryExplained'
<1> USE DEF CacheInv, Cac!TypeOK, Cac!EntryExplained, Cac!GoTo, Cac!Return
<1>1. ASSUME NEW c \in CacheCalls,
             \/ Cac!Miss(c) \/ Cac!AcquireLock(c) \/ Cac!LockRefused(c) \/ Cac!RetryHit(c) \/ Cac!RetryMiss(c)
             \/ Cac!Compute(c) \/ Cac!ComputeFails(c) \/ Cac!Release(c)
      PROVE  Cac!EntryExplained'
  <2>1. /\ UNCHANGED <<source, copy, copyExcuse>>
        /\ \A d \in CacheCalls : cachePc[d] = "invalidate" => cachePc'[d] = "invalidate"
    BY <1>1 DEF Cac!Miss, Cac!AcquireLock, Cac!LockRefused, Cac!RetryHit, Cac!RetryMiss,
                Cac!Compute, Cac!ComputeFails, Cac!Release
  <2> QED BY <2>1
<1>2. ASSUME NEW c \in CacheCalls, Cac!Store(c) PROVE Cac!EntryExplained'
  BY <1>2 DEF Cac!Store
<1>3. ASSUME NEW c \in CacheCalls, Cac!Change(c) PROVE Cac!EntryExplained'
  BY <1>3 DEF Cac!Change
<1>4. ASSUME NEW c \in CacheCalls, Cac!Invalidate(c) PROVE Cac!EntryExplained'
  BY <1>4 DEF Cac!Invalidate
<1>5. CASE Cac!Expire \/ Cac!ExpireLock \/ UNCHANGED cacheVars
  BY <1>5 DEF Cac!Expire, Cac!ExpireLock, Cac!requests, cacheVars
<1>6. CASE Cac!Restart
  BY <1>6 DEF Cac!Restart
<1> QED
  BY <1>1, <1>2, <1>3, <1>4, <1>5, <1>6 DEF Cac!Next, Cac!Step, Cac!Rest, Cac!vars, Cac!requests, cacheVars

\* Entries stay explained, with what open readers have loaded.
THEOREM CacheInvariant == MCSpec => []CacheInv
<1>1. MCInit => CacheInv
  BY CacheInit DEF MCInit
<1>2. CacheInv /\ [MCNext]_allVars => CacheInv'
  BY CacheTypeStep, CacheLockStep, CacheEntryStep, StepOfOne DEF CacheInv
<1> QED BY <1>1, <1>2, PTL DEF MCSpec, allVars

\* A cached value is old only for a reason, and two requests hold the lock only
\* after it expired (CacheAside!EntryExplained and OneHolder).
THEOREM EntriesAreExplained == MCSpec => []EntryExplained
<1>1. CacheInv => EntryExplained
  BY DEF CacheInv, EntryExplained
<1> QED BY <1>1, CacheInvariant, PTL

\* Every component keeps its types, and no view is in two places.
THEOREM TypesHold == MCSpec => []Types
<1>1. IInv => TypeOK
  BY DEF IInv
<1>2. CacheInv => Cac!TypeOK
  BY DEF CacheInv
<1> QED BY <1>1, <1>2, UnreadInvariant, ViewsInvariant, CacheInvariant, PTL DEF Types
=============================================================================
