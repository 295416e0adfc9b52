----------------------------- MODULE CacheAside -----------------------------
(***************************************************************************)
(* One key of the cache (common/cache/cache.service.ts), the data it is a  *)
(* copy of, and the requests on it: getOrSet, getOrSetStale with its       *)
(* refresh in the background, and methods decorated with InvalidateCache,  *)
(* which change the data and then delete the key.                          *)
(*                                                                         *)
(* Errors of Redis never reach the caller: a failed read is a miss, a      *)
(* failed write or deletion changes nothing, and a failed attempt to lock  *)
(* is taken for a lock held by another.  A hit changes nothing and is left *)
(* out, as is the :stale twin, which only decides whether the caller waits *)
(* for the refresh: no invalidation by key deletes it.  Values are not     *)
(* null (a null would be stored and read as a miss).                       *)
(***************************************************************************)
EXTENDS Integers

CONSTANTS
  Calls,       \* the requests that may be open at a time
  MaxVersion,  \* bound on the changes of the data
  MaxFaults    \* bound on errors of Redis and of the factory, and on restarts

VARIABLES
  source,      \* the version of the data
  entry,       \* the version stored under the key, if any
  lock,        \* whether the lock key is there; it does not say whose it is
  pc, holds,   \* each request: where it stands, whether it took the lock,
  value,       \* and the version it has computed
  excuse,      \* history: the entry was stored late, or its deletion failed
  tooLong,     \* history: a lock has expired before its request released it
  faults

requests == <<pc, holds, value>>
vars == <<source, entry, lock, requests, excuse, tooLong, faults>>

Versions == 0..MaxVersion

Init ==
  /\ source = 0
  /\ entry = {}
  /\ lock = FALSE
  /\ pc = [c \in Calls |-> "idle"]
  /\ holds = [c \in Calls |-> FALSE]
  /\ value = [c \in Calls |-> 0]
  /\ excuse = FALSE
  /\ tooLong = FALSE
  /\ faults = 0

GoTo(c, step) == pc' = [pc EXCEPT ![c] = step]

Return(c) ==
  /\ GoTo(c, "idle")
  /\ holds' = [holds EXCEPT ![c] = FALSE]
  /\ value' = [value EXCEPT ![c] = 0]

Fault == faults < MaxFaults /\ faults' = faults + 1

-----------------------------------------------------------------------------
\* get finds nothing, or fails; the hit of a twin goes the same way.
Miss(c) ==
  /\ pc[c] = "idle"
  /\ (entry = {} /\ UNCHANGED faults) \/ Fault
  /\ GoTo(c, "lock")
  /\ UNCHANGED <<source, entry, lock, holds, value, excuse, tooLong>>

\* SET NX EX of the lock.
AcquireLock(c) ==
  /\ pc[c] = "lock"
  /\ ~lock
  /\ lock' = TRUE
  /\ holds' = [holds EXCEPT ![c] = TRUE]
  /\ GoTo(c, "compute")
  /\ UNCHANGED <<source, entry, value, excuse, tooLong, faults>>

\* The lock is there, or the attempt fails, whether or not it was executed.
LockRefused(c) ==
  /\ pc[c] = "lock"
  /\ \/ lock /\ UNCHANGED <<lock, faults>>
     \/ Fault /\ lock' \in {lock, TRUE}
  /\ GoTo(c, "retry")
  /\ UNCHANGED <<source, entry, holds, value, excuse, tooLong>>

\* 100 ms later the value is there ...
RetryHit(c) ==
  /\ pc[c] = "retry"
  /\ entry # {}
  /\ Return(c)
  /\ UNCHANGED <<source, entry, lock, excuse, tooLong, faults>>

\* ... or it is computed without the lock.
RetryMiss(c) ==
  /\ pc[c] = "retry"
  /\ (entry = {} /\ UNCHANGED faults) \/ Fault
  /\ GoTo(c, "compute")
  /\ UNCHANGED <<source, entry, lock, holds, value, excuse, tooLong>>

\* The factory reads the data.
Compute(c) ==
  /\ pc[c] = "compute"
  /\ value' = [value EXCEPT ![c] = source]
  /\ GoTo(c, "store")
  /\ UNCHANGED <<source, entry, lock, holds, excuse, tooLong, faults>>

\* set: what the factory has read may be old by now.
Store(c) ==
  /\ pc[c] = "store"
  /\ entry' = {value[c]}
  /\ excuse' = (value[c] # source)
  /\ GoTo(c, "release")
  /\ UNCHANGED <<source, lock, holds, value, tooLong, faults>>

\* The factory throws, or set fails; the lock is released all the same.
ComputeFails(c) ==
  /\ pc[c] \in {"compute", "store"}
  /\ Fault
  /\ GoTo(c, "release")
  /\ UNCHANGED <<source, entry, lock, holds, value, excuse, tooLong>>

\* Mutant: whoever has computed a value deletes the lock.
Release_Always(c) ==
  /\ pc[c] = "release"
  /\ lock' = FALSE
  /\ Return(c)
  /\ UNCHANGED <<source, entry, excuse, tooLong, faults>>

\* DEL of the lock, by who took it and whoever holds it now; it may fail.
Release(c) ==
  /\ pc[c] = "release"
  /\ \/ lock' = (lock /\ ~holds[c]) /\ UNCHANGED faults
     \/ holds[c] /\ Fault /\ UNCHANGED lock
  /\ Return(c)
  /\ UNCHANGED <<source, entry, excuse, tooLong>>

-----------------------------------------------------------------------------
\* A decorated method changes the data ...
Change(c) ==
  /\ pc[c] = "idle"
  /\ source < MaxVersion
  /\ source' = source + 1
  /\ GoTo(c, "invalidate")
  /\ UNCHANGED <<entry, lock, holds, value, excuse, tooLong, faults>>

\* Mutant: a placeholder of the key is not resolved, and another key deleted.
Invalidate_Unresolved(c) ==
  /\ pc[c] = "invalidate"
  /\ Return(c)
  /\ UNCHANGED <<source, entry, lock, excuse, tooLong, faults>>

\* ... and then deletes the key, which may fail.
Invalidate(c) ==
  /\ pc[c] = "invalidate"
  /\ \/ entry' = {} /\ excuse' = FALSE /\ UNCHANGED faults
     \/ entry # {} /\ Fault /\ excuse' = TRUE /\ UNCHANGED entry
  /\ Return(c)
  /\ UNCHANGED <<source, lock, tooLong>>

-----------------------------------------------------------------------------
\* The time to live of the entry, and the 30 seconds of the lock.
Expire ==
  /\ entry # {}
  /\ entry' = {}
  /\ excuse' = FALSE
  /\ UNCHANGED <<source, lock, requests, tooLong, faults>>

ExpireLock ==
  /\ lock
  /\ lock' = FALSE
  /\ tooLong' = (tooLong \/ \E c \in Calls : holds[c])
  /\ UNCHANGED <<source, entry, requests, excuse, faults>>

\* The process ends: what was changed and not yet invalidated stays so.
Restart ==
  /\ Fault
  /\ excuse' = (excuse \/ \E c \in Calls : pc[c] = "invalidate")
  /\ pc' = [c \in Calls |-> "idle"]
  /\ holds' = [c \in Calls |-> FALSE]
  /\ value' = [c \in Calls |-> 0]
  /\ UNCHANGED <<source, entry, lock, tooLong>>

Step(c) ==
  \/ Miss(c) \/ AcquireLock(c) \/ LockRefused(c) \/ RetryHit(c) \/ RetryMiss(c)
  \/ Compute(c) \/ Store(c) \/ ComputeFails(c) \/ Release(c)
  \/ Change(c) \/ Invalidate(c)

\* Everybody may be served from the cache.
Rest == (\A c \in Calls : pc[c] = "idle") /\ UNCHANGED vars

Next == Expire \/ ExpireLock \/ Restart \/ Rest \/ \E c \in Calls : Step(c)

Spec == Init /\ [][Next]_vars

-----------------------------------------------------------------------------
\* Every variable keeps its type, and only a request that computes has the lock.
TypeOK ==
  /\ source \in Versions
  /\ entry \in {{}} \union {{v} : v \in 0..source}
  /\ lock \in BOOLEAN
  /\ pc \in [Calls -> {"idle", "lock", "retry", "compute", "store", "release", "invalidate"}]
  /\ holds \in [Calls -> BOOLEAN]
  /\ \A c \in Calls : holds[c] => pc[c] \in {"compute", "store", "release"}
  /\ value \in [Calls -> 0..source]
  /\ excuse \in BOOLEAN
  /\ tooLong \in BOOLEAN
  /\ faults \in 0..MaxFaults

\* Two requests compute under the lock at once only when a lock had expired
\* under a computation: its release then deletes the lock of the next one.
OneHolder ==
  \A c, d \in Calls : holds[c] /\ holds[d] => (c = d \/ tooLong)

\* The entry is older than the data only while an invalidation is to come, or
\* when it was stored by a computation that the change overtook, or its
\* deletion failed.
EntryExplained ==
  \/ entry \subseteq {source}
  \/ excuse
  \/ \E c \in Calls : pc[c] = "invalidate"
=============================================================================
