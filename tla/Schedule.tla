------------------------------ MODULE Schedule ------------------------------
(***************************************************************************)
(* The recurring clean-up jobs (queue/queue.service.ts): every server that *)
(* starts removes the repeatable jobs it finds in Redis and adds its four, *)
(* one command after the other; two servers may start together, and one    *)
(* may stop, or be cut off from Redis, in between.  After ten seconds the  *)
(* start goes on without waiting (Promise.race), while the commands still  *)
(* run, so that the timeout changes nothing here.                          *)
(***************************************************************************)
EXTENDS Integers, Sequences

CONSTANTS
  Recurring,        \* the jobs, in the order in which they are added
  Servers,
  MaxStarts,        \* bound on starts
  ScheduleFaults    \* bound on failures

VARIABLES
  repeatable,       \* the jobs that Redis has
  starting,         \* where the start of each server stands
  starts, scheduleFaults,
  gap               \* history: jobs that no start has added since one was cut off

scheduleVars == <<repeatable, starting, starts, scheduleFaults, gap>>

Jobs == {Recurring[i] : i \in 1..Len(Recurring)}
Idle == [at |-> "idle", remove |-> {}, add |-> <<>>]
GoTo(s, to) == starting' = [starting EXCEPT ![s] = to]

\* What the start of a server has still to add.
Owed(s) == {starting[s].add[i] : i \in 1..Len(starting[s].add)}

Init ==
  /\ repeatable = {}
  /\ starting = [s \in Servers |-> Idle]
  /\ starts = 0 /\ scheduleFaults = 0
  /\ gap = Jobs

\* scheduleRecurringJobs: the jobs there are, ...
GetRepeatableJobs(s) ==
  /\ starting[s] = Idle /\ starts < MaxStarts /\ starts' = starts + 1
  /\ GoTo(s, [at |-> IF repeatable = {} THEN "add" ELSE "remove", remove |-> repeatable, add |-> Recurring])
  /\ UNCHANGED <<repeatable, scheduleFaults, gap>>

\* ... each is removed, ...
RemoveRepeatable(s) ==
  /\ starting[s].at = "remove"
  /\ \E j \in starting[s].remove :
       /\ repeatable' = repeatable \ {j}
       /\ GoTo(s, [starting[s] EXCEPT !.remove = @ \ {j},
                                      !.at = IF starting[s].remove = {j} THEN "add" ELSE "remove"])
  /\ UNCHANGED <<starts, scheduleFaults, gap>>

\* Mutant: a job that was there at the start is not added again.
Add_Missing(s) ==
  /\ starting[s].at = "add"
  /\ LET j == Head(starting[s].add) IN
     /\ repeatable' = IF starts = 1 THEN repeatable \union {j} ELSE repeatable
     /\ gap' = gap \ {j}
  /\ GoTo(s, IF Len(starting[s].add) = 1 THEN Idle ELSE [starting[s] EXCEPT !.add = Tail(@)])
  /\ UNCHANGED <<starts, scheduleFaults>>

\* ... and the four are added; one that is there already stays as it is.
Add(s) ==
  /\ starting[s].at = "add"
  /\ LET j == Head(starting[s].add) IN
     repeatable' = repeatable \union {j} /\ gap' = gap \ {j}
  /\ GoTo(s, IF Len(starting[s].add) = 1 THEN Idle ELSE [starting[s] EXCEPT !.add = Tail(@)])
  /\ UNCHANGED <<starts, scheduleFaults>>

\* Redis answers with an error, or the server stops: the failure is only logged.
Fail(s) ==
  /\ starting[s] # Idle /\ scheduleFaults < ScheduleFaults /\ scheduleFaults' = scheduleFaults + 1
  /\ gap' = gap \union Owed(s)
  /\ GoTo(s, Idle)
  /\ UNCHANGED <<repeatable, starts>>

\* All servers run.
Running ==
  /\ starts = MaxStarts /\ \A s \in Servers : starting[s] = Idle
  /\ UNCHANGED scheduleVars

Next ==
  \/ \E s \in Servers : GetRepeatableJobs(s) \/ RemoveRepeatable(s) \/ Add(s) \/ Fail(s)
  \/ Running

Spec == Init /\ [][Next]_scheduleVars

-----------------------------------------------------------------------------
\* Types.
TypeOK ==
  /\ repeatable \subseteq Jobs /\ gap \subseteq Jobs
  /\ \A s \in Servers : starting[s].remove \subseteq Jobs /\ Owed(s) \subseteq Jobs

\* A job is missing only while a server has still to add it, or since the start
\* that should have added it was cut off: overlapping starts undo each other's
\* work, but not for good.
ScheduleExplained ==
  \A j \in Jobs \ repeatable : j \in gap \/ \E s \in Servers : j \in Owed(s)
=============================================================================
