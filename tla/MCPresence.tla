----------------------------- MODULE MCPresence -----------------------------
(***************************************************************************)
(* Instances of Presence for TLC: every socket belongs to the one user, so *)
(* sockets can be exchanged for each other, and so can messages.           *)
(***************************************************************************)
EXTENDS Presence, TLC

CONSTANT u1

OneUser == [s \in Sockets |-> u1]
Symmetry == Permutations(Sockets) \cup Permutations(Toggles)

UsedSockets == Cardinality({s \in Sockets : conn[s] # "new"})
UsedToggles == Cardinality({t \in Toggles : req[t].pc # "idle"})
Running ==
  Cardinality({s \in Sockets : ConnRunning(s)})
    + Cardinality({s \in Sockets : DiscRunning(s)})
    + Cardinality({t \in Toggles : req[t].pc \notin {"idle", "done"}})

\* The states from which the safety run goes on: two sockets with everything that
\* can happen to them; three without failures and two handlers at a time; four and
\* two messages as long as one handler follows the other.
Explored ==
  \/ UsedSockets <= 2 /\ UsedToggles = 0
  \/ UsedSockets <= 3 /\ UsedToggles = 0 /\ faults = 0 /\ Running <= 2
  \/ overlapped = {} /\ faults = 0

\* The behaviours the liveness run looks at: those with two sockets and nothing
\* else, and those with one socket, a message and failures.  The steps that lead
\* out (a connection, a message, a failure) are not fair, so a behaviour that never
\* takes them is a behaviour of FairSpec.
ExploredLive ==
  \/ UsedToggles = 0 /\ faults = 0
  \/ UsedSockets <= 1
=============================================================================
