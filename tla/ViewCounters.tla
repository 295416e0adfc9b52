---------------------------- MODULE ViewCounters ----------------------------
(***************************************************************************)
(* The view counts of listings; parts and threads have the same code.      *)
(* A request increments a counter in Redis; once a minute a timer lists    *)
(* the counters (KEYS), takes each (GETDEL) and adds it to the row.  The   *)
(* timer does not wait for a run that is late, so runs overlap.            *)
(*                                                                         *)
(* A number is modelled as the set of the views it stands for, which shows *)
(* whether a view is counted twice or not at all: a counter is right when  *)
(* each view is in one place.  A view is an increment that Redis executed. *)
(***************************************************************************)
EXTENDS Integers

CONSTANTS
  Items,      \* the listings
  Numbers,    \* the views of a listing are numbered; a bound on them
  Runs,       \* runs of the timer that may be under way at a time
  None,       \* no listing
  MaxFaults   \* bound on failures, restarts and flushes

Views == Items \X Numbers
Of(i) == {i} \X Numbers

VARIABLES
  buffer,     \* the views in Redis; the key of a listing without views is absent
  counted,    \* the views in the views_count of each row
  pc,         \* where each run stands
  keys,       \* the keys it has listed and not yet taken
  item, hand, \* the listing whose views it has taken, and these views
  lost,       \* history: views that are in no place any more
  faults

runs == <<pc, keys, item, hand>>
vars == <<buffer, counted, runs, lost, faults>>

Buffered(i) == buffer \intersect Of(i)
InHand == UNION {hand[r] : r \in Runs}
Counted == UNION {counted[i] : i \in Items}

Init ==
  /\ buffer = {}
  /\ counted = [i \in Items |-> {}]
  /\ pc = [r \in Runs |-> "idle"]
  /\ keys = [r \in Runs |-> {}]
  /\ item = [r \in Runs |-> None]
  /\ hand = [r \in Runs |-> {}]
  /\ lost = {}
  /\ faults = 0

GoTo(r, step) == pc' = [pc EXCEPT ![r] = step]

\* The run has no listing in hand.
PutDown(r) ==
  /\ item' = [item EXCEPT ![r] = None]
  /\ hand' = [hand EXCEPT ![r] = {}]

End(r) ==
  /\ GoTo(r, "idle")
  /\ keys' = [keys EXCEPT ![r] = {}]
  /\ PutDown(r)

-----------------------------------------------------------------------------
\* incrementViews, which the request does not wait for.
View(v) ==
  /\ v \notin buffer \union InHand \union Counted \union lost
  /\ buffer' = buffer \union {v}
  /\ UNCHANGED <<counted, runs, lost, faults>>

\* The timer fires; a run without keys is over at once and leaves no trace.
ListKeys(r) ==
  /\ pc[r] = "idle"
  /\ buffer # {}
  /\ keys' = [keys EXCEPT ![r] = {i \in Items : Buffered(i) # {}}]
  /\ GoTo(r, "take")
  /\ UNCHANGED <<buffer, counted, item, hand, lost, faults>>

\* Mutant: the counter is read, and its key stays.
TakeKey_Get(r) ==
  /\ pc[r] = "take"
  /\ \E i \in keys[r] :
       /\ keys' = [keys EXCEPT ![r] = @ \ {i}]
       /\ IF Buffered(i) = {}
          THEN UNCHANGED <<buffer, pc, item, hand>>
          ELSE /\ item' = [item EXCEPT ![r] = i]
               /\ hand' = [hand EXCEPT ![r] = Buffered(i)]
               /\ GoTo(r, "add")
               /\ UNCHANGED buffer
  /\ UNCHANGED <<counted, lost, faults>>

\* GETDEL of the next key, which another run may have taken meanwhile.
TakeKey(r) ==
  /\ pc[r] = "take"
  /\ \E i \in keys[r] :
       /\ keys' = [keys EXCEPT ![r] = @ \ {i}]
       /\ IF Buffered(i) = {}
          THEN UNCHANGED <<buffer, pc, item, hand>>
          ELSE /\ item' = [item EXCEPT ![r] = i]
               /\ hand' = [hand EXCEPT ![r] = Buffered(i)]
               /\ buffer' = buffer \ Of(i)
               /\ GoTo(r, "add")
  /\ UNCHANGED <<counted, lost, faults>>

\* Mutant: what was taken for one listing is still there for the next.
AddViews_Keep(r) ==
  /\ pc[r] = "add"
  /\ counted' = [counted EXCEPT ![item[r]] = @ \union hand[r]]
  /\ GoTo(r, "take")
  /\ UNCHANGED <<buffer, keys, item, hand, lost, faults>>

\* Mutant: the count is set and not incremented.
AddViews_Set(r) ==
  /\ pc[r] = "add"
  /\ counted' = [counted EXCEPT ![item[r]] = hand[r]]
  /\ GoTo(r, "take")
  /\ PutDown(r)
  /\ UNCHANGED <<buffer, keys, lost, faults>>

\* The increment of the row.
AddViews(r) ==
  /\ pc[r] = "add"
  /\ counted' = [counted EXCEPT ![item[r]] = @ \union hand[r]]
  /\ GoTo(r, "take")
  /\ PutDown(r)
  /\ UNCHANGED <<buffer, keys, lost, faults>>

\* Mutant: a run that is over still counts as under way.
Finish_Busy(r) ==
  /\ pc[r] = "take"
  /\ keys[r] = {}
  /\ UNCHANGED vars

\* No key is left (and the cache of popular listings is deleted).
Finish(r) ==
  /\ pc[r] = "take"
  /\ keys[r] = {}
  /\ End(r)
  /\ UNCHANGED <<buffer, counted, lost, faults>>

-----------------------------------------------------------------------------
Fault == faults < MaxFaults /\ faults' = faults + 1

\* The increment fails, before or after the row was written: the run ends,
\* what it had in hand may be lost, and the keys it had listed wait for the next.
AddFails(r) ==
  /\ pc[r] = "add"
  /\ Fault
  /\ \/ lost' = lost \union hand[r] /\ UNCHANGED counted
     \/ counted' = [counted EXCEPT ![item[r]] = @ \union hand[r]] /\ UNCHANGED lost
  /\ End(r)
  /\ UNCHANGED buffer

\* Redis answers with an error, to KEYS or GETDEL, and the run ends.
TakeFails(r) ==
  /\ pc[r] = "take"
  /\ Fault
  /\ End(r)
  /\ UNCHANGED <<buffer, counted, lost>>

\* The connection breaks after GETDEL was executed; ioredis sends it again,
\* and the answer is that there is no key.
ReplyLost(r) ==
  /\ pc[r] = "take"
  /\ Fault
  /\ \E i \in keys[r] :
       /\ keys' = [keys EXCEPT ![r] = @ \ {i}]
       /\ lost' = lost \union Buffered(i)
       /\ buffer' = buffer \ Of(i)
  /\ UNCHANGED <<counted, pc, item, hand>>

\* An administrator flushes the cache, which is the whole database of Redis.
FlushAll ==
  /\ Fault
  /\ lost' = lost \union buffer
  /\ buffer' = {}
  /\ UNCHANGED <<counted, runs>>

\* The process ends and is started again.
Restart ==
  /\ Fault
  /\ lost' = lost \union InHand
  /\ pc' = [r \in Runs |-> "idle"]
  /\ keys' = [r \in Runs |-> {}]
  /\ item' = [r \in Runs |-> None]
  /\ hand' = [r \in Runs |-> {}]
  /\ UNCHANGED <<buffer, counted>>

-----------------------------------------------------------------------------
Continue(r) == TakeKey(r) \/ AddViews(r) \/ Finish(r)

\* Everybody has looked at everything, and it is counted.
Rest ==
  /\ buffer = {} /\ \A r \in Runs : pc[r] = "idle"
  /\ Views \subseteq Counted \union lost
  /\ UNCHANGED vars

Next ==
  \/ \E v \in Views : View(v)
  \/ \E r \in Runs : ListKeys(r) \/ Continue(r) \/ AddFails(r) \/ TakeFails(r) \/ ReplyLost(r)
  \/ FlushAll \/ Restart \/ Rest

Spec == Init /\ [][Next]_vars

-----------------------------------------------------------------------------
\* Every variable keeps its type, and a run has views in hand exactly while
\* it is about to add them.
TypeOK ==
  /\ buffer \subseteq Views
  /\ counted \in [Items -> SUBSET Views]
  /\ pc \in [Runs -> {"idle", "take", "add"}]
  /\ keys \in [Runs -> SUBSET Items]
  /\ item \in [Runs -> Items \union {None}]
  /\ hand \in [Runs -> SUBSET Views]
  /\ \A r \in Runs :
       /\ pc[r] = "add" => item[r] \in Items /\ hand[r] \subseteq Of(item[r])
       /\ pc[r] # "add" => hand[r] = {}
  /\ lost \subseteq Views
  /\ faults \in 0..MaxFaults

\* A view is in one place, whatever runs overlap and wherever they fail: in
\* Redis, in the hand of one run, lost, or counted for its own listing.
EveryViewOnce ==
  /\ \A r \in Runs : hand[r] \intersect buffer = {} /\ hand[r] \intersect lost = {}
  /\ \A q, r \in Runs : q # r => hand[q] \intersect hand[r] = {}
  /\ buffer \intersect lost = {}
  /\ \A i \in Items :
       /\ counted[i] \subseteq Of(i)
       /\ counted[i] \intersect (buffer \union lost) = {}
       /\ \A r \in Runs : counted[i] \intersect hand[r] = {}

Fate == INSTANCE ViewFate WITH open <- buffer \union InHand, counted <- Counted

\* The timer fires again and again, and Redis and PostgreSQL settle every call.
Fair == WF_vars(\E r \in Runs : ListKeys(r)) /\ \A r \in Runs : WF_vars(Continue(r))

\* A view is counted in the end, or lost by a failure.
ViewsArrive ==
  \A v \in Views : v \in buffer \union InHand ~> v \in Counted \union lost

\* The counters are an implementation of ViewFate.
CountsOnce == Fate!Spec
=============================================================================
