------------------------------ MODULE MCStores ------------------------------
(***************************************************************************)
(* What Redis keeps beside the database, for TLC: the unread count, the    *)
(* view counters and the cache.  They share no state, so a behaviour moves *)
(* one of them, its focus, and leaves the others where they started.       *)
(***************************************************************************)
EXTENDS NotificationUnread, TLC

CONSTANTS Items, Numbers, Runs, None, ViewFaults, CacheCalls, MaxVersion, CacheFaults

VARIABLES
  focus,
  buffer, counted, runPc, keys, item, hand, lost, viewFaults,
  source, copy, lock, cachePc, holds, value, copyExcuse, tooLong, cacheFaults

viewVars == <<buffer, counted, runPc, keys, item, hand, lost, viewFaults>>
cacheVars == <<source, copy, lock, cachePc, holds, value, copyExcuse, tooLong, cacheFaults>>

Vie == INSTANCE ViewCounters WITH pc <- runPc, faults <- viewFaults, MaxFaults <- ViewFaults
Cac == INSTANCE CacheAside WITH
  Calls <- CacheCalls, MaxFaults <- CacheFaults, entry <- copy, pc <- cachePc,
  excuse <- copyExcuse, faults <- cacheFaults

ASSUME CountersAssumption == ViewFaults \in Nat /\ MaxVersion \in Nat /\ CacheFaults \in Nat

MCInit ==
  /\ Init /\ Vie!Init /\ Cac!Init
  /\ focus \in {"unread", "views", "cache"}

MCNext ==
  /\ UNCHANGED focus
  /\ \/ focus = "unread" /\ Next /\ UNCHANGED <<viewVars, cacheVars>>
     \/ focus = "views" /\ Vie!Next /\ UNCHANGED <<vars, cacheVars>>
     \/ focus = "cache" /\ Cac!Next /\ UNCHANGED <<vars, viewVars>>

\* The fairness of each component, which has no step to take without the focus.
Fairness ==
  /\ WF_vars(Expire)
  /\ \A c \in Calls : WF_vars(Continue(c))
  /\ Vie!Fair

MCSpec == MCInit /\ [][MCNext]_<<focus, vars, viewVars, cacheVars>> /\ Fairness

\* Every component keeps its types, and no view is in two places
\* (ViewCounters!EveryViewOnce).
Types == TypeOK /\ Vie!TypeOK /\ Cac!TypeOK /\ Vie!EveryViewOnce

\* A view is counted once and for good, or lost (ViewCounters!CountsOnce).
CountsOnce == Vie!CountsOnce

\* Every view is settled in the end (ViewCounters!ViewsArrive).
ViewsArrive == Vie!ViewsArrive

\* A cached value is old only for a reason, and the lock of the cache has one holder
\* (CacheAside!EntryExplained, CacheAside!OneHolder).
EntryExplained == Cac!EntryExplained /\ Cac!OneHolder
=============================================================================
