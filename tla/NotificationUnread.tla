-------------------------- MODULE NotificationUnread --------------------------
(***************************************************************************)
(* The unread counter of one user: the rows of the notifications table and *)
(* the Redis key notification:unread:{user} that NotificationsService      *)
(* keeps beside them.                                                      *)
(*                                                                         *)
(* A write changes the rows at one await and deletes the key at the next;  *)
(* getUnreadCount reads the key, counts the rows and stores the count at   *)
(* three.  Requests of the same user interleave at each of them, and a     *)
(* request that fails or dies with the server stops between two.  What     *)
(* create does before the insert and after the invalidation (preferences,  *)
(* socket, push) touches neither the rows nor the key.                     *)
(***************************************************************************)
EXTENDS Integers, FiniteSets

CONSTANTS
  Ids,         \* notification ids
  Calls,       \* requests in progress at the same time
  MaxFaults    \* bound on the failed calls and restarts

ASSUME IdsAssumption == IsFiniteSet(Ids) /\ "none" \notin Ids
ASSUME FaultsAssumption == MaxFaults \in Nat

VARIABLES
  row,         \* a row is "absent", "unread", "read" or "gone"
  entry,       \* the key: {} or the singleton of the stored count
  expires,     \* the key was stored with a time to live
  pc,          \* where a request waits; an idle one can start
  target,      \* the row markAsRead or delete found
  found,       \* its status when it was found
  count,       \* the number of rows getUnreadCount counted
  overtaken,   \* history: counts followed by a change of the unread rows
  excuse,      \* history: why the stored count may be wrong
  faults       \* the bound

localVars == <<target, found, count>>
vars == <<row, entry, expires, pc, localVars, overtaken, excuse, faults>>

UnreadRows == {i \in Ids : row[i] = "unread"}
Unread == Cardinality(UnreadRows)
Exists(i) == row[i] \in {"unread", "read"}

Init ==
  /\ row = [i \in Ids |-> "absent"]
  /\ entry = {}
  /\ expires = FALSE
  /\ pc = [c \in Calls |-> "idle"]
  /\ target = [c \in Calls |-> "none"]
  /\ found = [c \in Calls |-> "absent"]
  /\ count = [c \in Calls |-> 0]
  /\ overtaken = {}
  /\ excuse = "none"
  /\ faults = 0

Go(c, to) == pc' = [pc EXCEPT ![c] = to]

\* The request ends; its locals are gone.
End(c) ==
  /\ Go(c, "idle")
  /\ target' = [target EXCEPT ![c] = "none"]
  /\ found' = [found EXCEPT ![c] = "absent"]
  /\ count' = [count EXCEPT ![c] = 0]

Fault == faults < MaxFaults /\ faults' = faults + 1

\* The rows change; counts that wait to be stored are now out of date.
Write(newRow) ==
  /\ row' = newRow
  /\ overtaken' = IF UnreadRows' = UnreadRows THEN overtaken
                  ELSE overtaken \cup {d \in Calls : pc[d] = "store"}

DropEntry == entry' = {} /\ expires' = FALSE /\ excuse' = "none"

(***************************************************************************)
(* The requests                                                            *)
(***************************************************************************)
\* create: save.
Create(c) ==
  /\ pc[c] = "idle"
  /\ \E i \in Ids : row[i] = "absent" /\ Write([row EXCEPT ![i] = "unread"])
  /\ Go(c, "invalidate")
  /\ UNCHANGED <<entry, expires, localVars, excuse, faults>>

\* markAsRead: findOne.  A row that is read already ends the request.
FindToMark(c) ==
  /\ pc[c] = "idle"
  /\ \E i \in Ids : row[i] = "unread" /\ target' = [target EXCEPT ![c] = i]
  /\ Go(c, "mark")
  /\ UNCHANGED <<row, entry, expires, found, count, overtaken, excuse, faults>>

\* Mutant: the entity that was found is saved, as other services do, which
\* inserts it again when it has been deleted.
Mark_Save(c) ==
  /\ pc[c] = "mark"
  /\ Write([row EXCEPT ![target[c]] = "read"])
  /\ Go(c, "invalidate")
  /\ UNCHANGED <<entry, expires, localVars, excuse, faults>>

\* Mutant: a status the table does not know.
Mark_Status(c) ==
  /\ pc[c] = "mark"
  /\ Write(IF Exists(target[c]) THEN [row EXCEPT ![target[c]] = "seen"] ELSE row)
  /\ Go(c, "invalidate")
  /\ UNCHANGED <<entry, expires, localVars, excuse, faults>>

\* update(id, ...): nothing when the row has been deleted.
Mark(c) ==
  /\ pc[c] = "mark"
  /\ Write(IF Exists(target[c]) THEN [row EXCEPT ![target[c]] = "read"] ELSE row)
  /\ Go(c, "invalidate")
  /\ UNCHANGED <<entry, expires, localVars, excuse, faults>>

\* markAllAsRead: one UPDATE.
MarkAll(c) ==
  /\ pc[c] = "idle"
  /\ Write([i \in Ids |-> IF row[i] = "unread" THEN "read" ELSE row[i]])
  /\ Go(c, "invalidate")
  /\ UNCHANGED <<entry, expires, localVars, excuse, faults>>

FindToDelete(c) ==
  /\ pc[c] = "idle"
  /\ \E i \in Ids : /\ Exists(i)
                    /\ target' = [target EXCEPT ![c] = i]
                    /\ found' = [found EXCEPT ![c] = row[i]]
  /\ Go(c, "delete")
  /\ UNCHANGED <<row, entry, expires, count, overtaken, excuse, faults>>

\* Mutant: the key is dropped when the row was read, not when it was unread.
DeleteRow_Inverted(c) ==
  /\ pc[c] = "delete"
  /\ Write(IF Exists(target[c]) THEN [row EXCEPT ![target[c]] = "gone"] ELSE row)
  /\ IF found[c] = "read" THEN Go(c, "invalidate") /\ UNCHANGED localVars ELSE End(c)
  /\ UNCHANGED <<entry, expires, excuse, faults>>

\* delete: the key is dropped when the row was unread when it was found.
DeleteRow(c) ==
  /\ pc[c] = "delete"
  /\ Write(IF Exists(target[c]) THEN [row EXCEPT ![target[c]] = "gone"] ELSE row)
  /\ IF found[c] = "unread" THEN Go(c, "invalidate") /\ UNCHANGED localVars ELSE End(c)
  /\ UNCHANGED <<entry, expires, excuse, faults>>

\* invalidateUnreadCache: DEL.
Invalidate(c) ==
  /\ pc[c] = "invalidate"
  /\ DropEntry
  /\ End(c)
  /\ UNCHANGED <<row, overtaken, faults>>

\* getUnreadCount, called by the endpoints and by findAll: a hit answers.
MissCache(c) ==
  /\ pc[c] = "idle"
  /\ entry = {}
  /\ Go(c, "count")
  /\ UNCHANGED <<row, entry, expires, localVars, overtaken, excuse, faults>>

\* Mutant: the read rows are counted as well.
CountRows_All(c) ==
  /\ pc[c] = "count"
  /\ count' = [count EXCEPT ![c] = Cardinality({i \in Ids : Exists(i)})]
  /\ Go(c, "store")
  /\ UNCHANGED <<row, entry, expires, target, found, overtaken, excuse, faults>>

CountRows(c) ==
  /\ pc[c] = "count"
  /\ count' = [count EXCEPT ![c] = Unread]
  /\ Go(c, "store")
  /\ UNCHANGED <<row, entry, expires, target, found, overtaken, excuse, faults>>

\* Mutant: the third argument of set, the time to live, is missing.
StoreCount_NoTtl(c) ==
  /\ pc[c] = "store"
  /\ entry' = {count[c]}
  /\ expires' = FALSE
  /\ excuse' = IF c \in overtaken THEN "raced" ELSE "none"
  /\ overtaken' = overtaken \ {c}
  /\ End(c)
  /\ UNCHANGED <<row, faults>>

StoreCount(c) ==
  /\ pc[c] = "store"
  /\ entry' = {count[c]}
  /\ expires' = TRUE
  /\ excuse' = IF c \in overtaken THEN "raced" ELSE "none"
  /\ overtaken' = overtaken \ {c}
  /\ End(c)
  /\ UNCHANGED <<row, faults>>

(***************************************************************************)
(* The surroundings                                                        *)
(***************************************************************************)
\* deleteOld, the cleanup job: read rows older than the cut-off.
DeleteOld ==
  /\ \E old \in SUBSET {i \in Ids : row[i] = "read"} :
       old # {} /\ Write([i \in Ids |-> IF i \in old THEN "gone" ELSE row[i]])
  /\ UNCHANGED <<entry, expires, pc, localVars, excuse, faults>>

\* The time to live of the key, five minutes, is over.
Expire ==
  /\ entry # {} /\ expires
  /\ DropEntry
  /\ UNCHANGED <<row, pc, localVars, overtaken, faults>>

\* A database call or the SET fails: the request ends there.
CallFault(c) ==
  /\ Fault
  /\ pc[c] \in {"mark", "delete", "count", "store"}
  /\ overtaken' = overtaken \ {c}
  /\ End(c)
  /\ UNCHANGED <<row, entry, expires, excuse>>

\* The DEL fails: the request fails although its write was made.
InvalidateFault(c) ==
  /\ Fault
  /\ pc[c] = "invalidate"
  /\ End(c)
  /\ excuse' = IF entry = {} THEN "none" ELSE "lost"
  /\ UNCHANGED <<row, entry, expires, overtaken>>

\* The server restarts; the rows and the key stay.
Restart ==
  /\ Fault
  /\ pc' = [c \in Calls |-> "idle"]
  /\ target' = [c \in Calls |-> "none"]
  /\ found' = [c \in Calls |-> "absent"]
  /\ count' = [c \in Calls |-> 0]
  /\ overtaken' = {}
  /\ excuse' = IF entry # {} /\ \E c \in Calls : pc[c] = "invalidate"
               THEN "lost" ELSE excuse
  /\ UNCHANGED <<row, entry, expires>>

Start(c) == \/ Create(c) \/ FindToMark(c) \/ MarkAll(c) \/ FindToDelete(c)
            \/ MissCache(c)
Continue(c) == \/ Mark(c) \/ DeleteRow(c) \/ Invalidate(c)
               \/ CountRows(c) \/ StoreCount(c)

Next ==
  \/ \E c \in Calls : Start(c) \/ Continue(c) \/ CallFault(c) \/ InvalidateFault(c)
  \/ DeleteOld
  \/ Expire
  \/ Restart

Spec == Init /\ [][Next]_vars

\* A request that waits is resumed, and Redis expires the key.
FairSpec == Spec /\ WF_vars(Expire) /\ \A c \in Calls : WF_vars(Continue(c))

(***************************************************************************)
(* Properties                                                              *)
(***************************************************************************)
Pcs == {"idle", "mark", "delete", "invalidate", "count", "store"}
Statuses == {"absent", "unread", "read", "gone"}

\* The variables have their types, and the key holds one count at most.
TypeOK ==
  /\ row \in [Ids -> Statuses]
  /\ entry \subseteq Nat /\ \A m, n \in entry : m = n
  /\ expires \in BOOLEAN
  /\ pc \in [Calls -> Pcs]
  /\ target \in [Calls -> Ids \cup {"none"}]
  /\ found \in [Calls -> Statuses]
  /\ count \in [Calls -> Nat]
  /\ overtaken \subseteq Calls
  /\ excuse \in {"none", "raced", "lost"}
  /\ faults \in 0..MaxFaults

\* A stored count differs from the number of unread rows only while a request
\* has still to delete the key, or when the count was taken before a change
\* and stored after it, or when a deletion of the key was lost.  In particular
\* delete may skip the invalidation on the strength of what findOne returned,
\* although the row may have changed since.
CountExplained ==
  entry \notin {{}, {Unread}} =>
    excuse # "none" \/ \E c \in Calls : pc[c] = "invalidate"

\* Why: a count nobody overtook is still right when it is stored, and a row
\* that was found read never becomes unread again.
FillsFresh ==
  /\ \A c \in Calls : pc[c] = "store" /\ c \notin overtaken => count[c] = Unread
  /\ \A c \in Calls : pc[c] \in {"mark", "delete"} =>
       target[c] \in Ids /\ row[target[c]] # "absent"
  /\ \A c \in Calls : pc[c] = "delete" /\ found[c] # "unread" => row[target[c]] # "unread"

\* A notification is created once, read once and deleted once: no request puts
\* back what an overlapping one has read or deleted.
RowsMoveForward ==
  [][\A i \in Ids :
       \/ row'[i] = row[i]
       \/ row[i] = "absent" /\ row'[i] = "unread"
       \/ row[i] = "unread" /\ row'[i] \in {"read", "gone"}
       \/ row[i] = "read" /\ row'[i] = "gone"]_vars

\* A wrong count does not stay for ever, whatever went wrong.
StaleEnds == entry \notin {{}, {Unread}} ~> entry \in {{}, {Unread}}
=============================================================================
