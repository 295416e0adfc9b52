------------------------- MODULE NotificationDelivery -------------------------
(***************************************************************************)
(* How the events addressed to one user reach him: NotificationsService's  *)
(* create, called by a request or by the notification job that stands for  *)
(* it, the choice between socket and push, and the push job.               *)
(*                                                                         *)
(* Each event is worked on by one activity at a time, so an event is its   *)
(* own process; a worker runs one job of its queue at a time.  A job that  *)
(* throws is tried again until its attempts are used up; one whose server  *)
(* dies is given back once.  Whether the user is online is a set in Redis  *)
(* that connections change at any moment.  The unread count is in          *)
(* NotificationUnread, the set of online users in Presence.                *)
(***************************************************************************)
EXTENDS Integers, FiniteSets

CONSTANTS
  Events,        \* what happens: a like, a message, a follower
  MaxAttempts,   \* attempts of a job: 3 in the code
  MaxFaults      \* bound on failed calls and restarts

ASSUME AttemptsAssumption == MaxAttempts \in Nat \ {0}
ASSUME FaultsAssumption == MaxFaults \in Nat

VARIABLES
  online,     \* the user is in the set of online users
  prefs,      \* his preferences row: "missing", or whether it lets events pass
  edit,       \* updatePreferences: "no", or the save it waits for
  want,       \* and the setting it saves, "on" when there is none
  via,        \* an event is created by a "request" or a "job"
  pc,         \* where it stands
  attempts,   \* started attempts of its job
  stalls,     \* times its job was given back after a crash
  rows,       \* notification rows written for it
  deleted,    \* events whose row is deleted before it is sent to the sockets
  emitted,    \* it was sent to the sockets of the user
  push,       \* its push job
  pushAttempts, pushStalls,
  missed,     \* history: the user came online between the two checks, or deleted the row
  faults      \* the bound

settings == <<prefs, edit, want>>
job == <<via, attempts, stalls>>
pushJob == <<push, pushAttempts, pushStalls>>
vars == <<online, settings, pc, job, rows, deleted, emitted, pushJob, missed, faults>>

Init ==
  /\ online \in BOOLEAN
  /\ prefs = "missing" /\ edit = "no" /\ want = "on"
  /\ via = [e \in Events |-> "none"]
  /\ pc = [e \in Events |-> "new"]
  /\ attempts = [e \in Events |-> 0]
  /\ stalls = [e \in Events |-> 0]
  /\ rows = [e \in Events |-> 0]
  /\ deleted = {}
  /\ emitted = [e \in Events |-> FALSE]
  /\ push = [e \in Events |-> "none"]
  /\ pushAttempts = [e \in Events |-> 0]
  /\ pushStalls = [e \in Events |-> 0]
  /\ missed = {}
  /\ faults = 0

Final == {"done", "skipped", "failed"}
Working == {"findPrefs", "makePrefs", "save", "invalidate", "emitCheck", "emit",
            "pushCheck", "queuePush"}

Go(e, to) == pc' = [pc EXCEPT ![e] = to]
Step(e, from, to) == pc[e] = from /\ Go(e, to)

(***************************************************************************)
(* Submitting, and the queue                                               *)
(***************************************************************************)
Request(e) ==
  /\ Step(e, "new", "findPrefs")
  /\ via' = [via EXCEPT ![e] = "request"]
  /\ UNCHANGED <<online, settings, attempts, stalls, rows, deleted, emitted, pushJob, missed, faults>>

\* addNotificationJob.
AddJob(e) ==
  /\ Step(e, "new", "waiting")
  /\ via' = [via EXCEPT ![e] = "job"]
  /\ UNCHANGED <<online, settings, attempts, stalls, rows, deleted, emitted, pushJob, missed, faults>>

\* Mutant: the limit of the worker is one below that of Throw.
Take_Limit(e) ==
  /\ Step(e, "waiting", "findPrefs")
  /\ attempts[e] < MaxAttempts - 1
  /\ \A f \in Events : via[f] = "job" => pc[f] \notin Working
  /\ attempts' = [attempts EXCEPT ![e] = @ + 1]
  /\ UNCHANGED <<online, settings, via, stalls, rows, deleted, emitted, pushJob, missed, faults>>

\* The worker takes the job, at once or after its backoff.
Take(e) ==
  /\ Step(e, "waiting", "findPrefs")
  /\ \A f \in Events : via[f] = "job" => pc[f] \notin Working
  /\ attempts' = [attempts EXCEPT ![e] = @ + 1]
  /\ UNCHANGED <<online, settings, via, stalls, rows, deleted, emitted, pushJob, missed, faults>>

\* Mutant: the processor does not throw again, as push.processor's sender.
Throw_Swallow(e) ==
  pc' = [pc EXCEPT ![e] = IF via[e] = "request" THEN "failed" ELSE "done"]

\* Mutant: a request is tried again as well.
Throw_Retry(e) ==
  pc' = [pc EXCEPT ![e] = IF attempts[e] - stalls[e] < MaxAttempts THEN "waiting" ELSE "failed"]

\* An exception: a request ends, a job is tried again; having been given back is no attempt.
Throw(e) ==
  pc' = [pc EXCEPT ![e] = IF via[e] = "job" /\ attempts[e] - stalls[e] < MaxAttempts
                          THEN "waiting" ELSE "failed"]

(***************************************************************************)
(* create                                                                  *)
(***************************************************************************)
\* checkPreferences: the row is looked up; an event it does not let pass ends.
FindPrefs(e) ==
  /\ pc[e] = "findPrefs"
  /\ Go(e, CASE prefs = "missing" -> "makePrefs"
             [] prefs = "on" -> "save"
             [] prefs = "off" -> "skipped")
  /\ UNCHANGED <<online, settings, job, rows, deleted, emitted, pushJob, missed, faults>>

\* getPreferences inserts the defaults, unless another event did it meanwhile:
\* then the unique index on user_id throws.
MakePrefs(e) ==
  /\ pc[e] = "makePrefs"
  /\ IF prefs = "missing" THEN prefs' = "on" /\ Go(e, "save")
     ELSE Throw(e) /\ UNCHANGED prefs
  /\ UNCHANGED <<online, edit, want, job, rows, deleted, emitted, pushJob, missed, faults>>

SaveRow(e) ==
  /\ Step(e, "save", "invalidate")
  /\ rows' = [rows EXCEPT ![e] = @ + 1] /\ deleted' = deleted \ {e}
  /\ UNCHANGED <<online, settings, job, emitted, pushJob, missed, faults>>

\* The cached unread count is dropped.
Invalidate(e) ==
  /\ Step(e, "invalidate", "emitCheck")
  /\ UNCHANGED <<online, settings, job, rows, deleted, emitted, pushJob, missed, faults>>

\* Mutant: a state no event has.
AfterEmit_State(e) == IF via[e] = "job" THEN "complete" ELSE "pushCheck"

\* After the socket: a request goes on with the push.  A job ends: create was
\* told to leave the push to the processor, whose gateway service is never
\* there (QueueModule does not import it), so it reports pushQueued and no more.
AfterEmit(e) == IF via[e] = "job" THEN "done" ELSE "pushCheck"

\* emitNotification: isUserOnline, for the first time.
EmitCheck(e) ==
  /\ pc[e] = "emitCheck"
  /\ Go(e, IF online THEN "emit" ELSE AfterEmit(e))
  /\ UNCHANGED <<online, settings, job, rows, deleted, emitted, pushJob, missed, faults>>

\* The row is loaded again and sent to the room of the user, if it is still there.
Emit(e) ==
  /\ pc[e] = "emit"
  /\ Go(e, AfterEmit(e))
  /\ IF e \in deleted THEN missed' = missed \cup {e} /\ UNCHANGED emitted
     ELSE emitted' = [emitted EXCEPT ![e] = TRUE] /\ UNCHANGED missed
  /\ deleted' = deleted \ {e}
  /\ UNCHANGED <<online, settings, job, rows, pushJob, faults>>

\* The user reads his list and deletes the row meanwhile (before isUserOnline answers
\* it comes to the same, and after the row is sent to nothing).
DeleteRow(e) ==
  /\ pc[e] = "emit" /\ deleted' = deleted \cup {e}
  /\ UNCHANGED <<online, settings, pc, job, rows, emitted, pushJob, missed, faults>>

\* Mutant: the answer is used the wrong way round.
PushCheck_Inverted(e) ==
  /\ pc[e] = "pushCheck"
  /\ Go(e, IF online THEN "queuePush" ELSE "done")
  /\ UNCHANGED <<online, settings, job, rows, deleted, emitted, pushJob, missed, faults>>

\* isUserOnline, for the second time.
PushCheck(e) ==
  /\ pc[e] = "pushCheck"
  /\ Go(e, IF online THEN "done" ELSE "queuePush")
  /\ UNCHANGED <<online, settings, job, rows, deleted, emitted, pushJob, missed, faults>>

\* addPushJob.
QueuePush(e) ==
  /\ Step(e, "queuePush", "done")
  /\ push' = [push EXCEPT ![e] = "waiting"]
  /\ UNCHANGED <<online, settings, job, rows, deleted, emitted, pushAttempts, pushStalls, missed, faults>>

(***************************************************************************)
(* The push job                                                            *)
(***************************************************************************)
PushActive == {"tokens", "send"}
SetPush(e, to) == push' = [push EXCEPT ![e] = to]

PushTake(e) ==
  /\ push[e] = "waiting" /\ SetPush(e, "tokens")
  /\ \A f \in Events : push[f] \notin PushActive
  /\ pushAttempts' = [pushAttempts EXCEPT ![e] = @ + 1]
  /\ UNCHANGED <<online, settings, pc, job, rows, deleted, emitted, pushStalls, missed, faults>>

\* Firebase is not configured, or the user has no active device.
PushNobody(e) ==
  /\ push[e] = "tokens" /\ SetPush(e, "nobody")
  /\ UNCHANGED <<online, settings, pc, job, rows, deleted, emitted, pushAttempts, pushStalls, missed, faults>>

PushTokens(e) ==
  /\ push[e] = "tokens" /\ SetPush(e, "send")
  /\ UNCHANGED <<online, settings, pc, job, rows, deleted, emitted, pushAttempts, pushStalls, missed, faults>>

PushSend(e) ==
  /\ push[e] = "send" /\ SetPush(e, "sent")
  /\ UNCHANGED <<online, settings, pc, job, rows, deleted, emitted, pushAttempts, pushStalls, missed, faults>>

\* sendToTokens catches what Firebase throws: the job completes.
PushLost(e) ==
  /\ faults < MaxFaults /\ faults' = faults + 1
  /\ push[e] = "send" /\ SetPush(e, "lost")
  /\ UNCHANGED <<online, settings, pc, job, rows, deleted, emitted, pushAttempts, pushStalls, missed>>

(***************************************************************************)
(* The surroundings                                                        *)
(***************************************************************************)
\* The user connects, when an event may stand between the two checks.
ComeOnline ==
  /\ ~online /\ online' = TRUE
  /\ missed' = missed \cup {e \in Events : pc[e] = "pushCheck" /\ ~emitted[e]}
  /\ UNCHANGED <<settings, pc, job, rows, deleted, emitted, pushJob, faults>>

GoOffline ==
  /\ online /\ online' = FALSE
  /\ UNCHANGED <<settings, pc, job, rows, deleted, emitted, pushJob, missed, faults>>

\* updatePreferences: the row is looked up.
EditFind ==
  /\ edit = "no"
  /\ edit' = IF prefs = "missing" THEN "insert" ELSE "update"
  /\ want' \in {"on", "off"}
  /\ UNCHANGED <<online, prefs, pc, job, rows, deleted, emitted, pushJob, missed, faults>>

\* An insert fails when the defaults have appeared meanwhile.
EditSave ==
  /\ edit # "no" /\ edit' = "no" /\ want' = "on"
  /\ prefs' = IF edit = "insert" /\ prefs # "missing" THEN prefs ELSE want
  /\ UNCHANGED <<online, pc, job, rows, deleted, emitted, pushJob, missed, faults>>

\* A call to the database, Redis or the queue throws.
Fail(e) ==
  /\ faults < MaxFaults /\ faults' = faults + 1
  /\ \/ pc[e] \in Working /\ Throw(e) /\ UNCHANGED push
     \/ /\ push[e] = "tokens"
        /\ SetPush(e, IF pushAttempts[e] - pushStalls[e] < MaxAttempts THEN "waiting" ELSE "failed")
        /\ UNCHANGED pc
  /\ UNCHANGED <<online, settings, job, rows, deleted, emitted, pushAttempts, pushStalls, missed>>

\* The server dies: requests are gone, jobs stall and are given back once.
Restart ==
  /\ faults < MaxFaults /\ faults' = faults + 1
  /\ pc' = [e \in Events |->
       IF pc[e] \notin Working THEN pc[e]
       ELSE IF via[e] = "job" /\ stalls[e] = 0 THEN "waiting" ELSE "failed"]
  /\ stalls' = [e \in Events |->
       IF pc[e] \in Working /\ via[e] = "job" THEN stalls[e] + 1 ELSE stalls[e]]
  /\ push' = [e \in Events |->
       IF push[e] \notin PushActive THEN push[e]
       ELSE IF pushStalls[e] = 0 THEN "waiting" ELSE "failed"]
  /\ pushStalls' = [e \in Events |->
       IF push[e] \in PushActive THEN pushStalls[e] + 1 ELSE pushStalls[e]]
  /\ edit' = "no" /\ want' = "on"
  /\ UNCHANGED <<online, prefs, via, attempts, rows, deleted, emitted, pushAttempts, missed>>

Create(e) == \/ FindPrefs(e) \/ MakePrefs(e) \/ SaveRow(e) \/ Invalidate(e)
             \/ EmitCheck(e) \/ Emit(e) \/ PushCheck(e) \/ QueuePush(e)
Push(e) == PushTake(e) \/ PushNobody(e) \/ PushTokens(e) \/ PushSend(e)

Next ==
  \/ \E e \in Events : \/ Request(e) \/ AddJob(e) \/ Take(e) \/ Create(e)
                       \/ Push(e) \/ PushLost(e) \/ DeleteRow(e) \/ Fail(e)
  \/ ComeOnline \/ GoOffline
  \/ EditFind \/ EditSave
  \/ Restart

Spec == Init /\ [][Next]_vars

\* Each event goes on: what was awaited answers, and the workers take the jobs that
\* wait.  Its push job starts when nothing else of it is left.
FairSpec == Spec /\ \A e \in Events : WF_vars(Take(e) \/ Create(e) \/ Push(e))

(***************************************************************************)
(* Properties                                                              *)
(***************************************************************************)
\* The variables have their types.
TypeOK ==
  /\ online \in BOOLEAN
  /\ prefs \in {"missing", "on", "off"}
  /\ edit \in {"no", "insert", "update"} /\ want \in {"on", "off"}
  /\ via \in [Events -> {"none", "request", "job"}]
  /\ pc \in [Events -> Working \cup Final \cup {"new", "waiting"}]
  /\ attempts \in [Events -> 0..MaxAttempts + 1]
  /\ stalls \in [Events -> 0..2]
  /\ rows \in [Events -> Nat]
  /\ deleted \subseteq Events
  /\ emitted \in [Events -> BOOLEAN]
  /\ push \in [Events -> PushActive \cup {"none", "waiting", "nobody", "sent", "lost", "failed"}]
  /\ pushAttempts \in [Events -> 0..MaxAttempts + 1]
  /\ pushStalls \in [Events -> 0..2]
  /\ missed \subseteq Events
  /\ faults \in 0..MaxFaults

\* Nothing ends well without its row: an event that is done has been written,
\* whatever failed, stalled or was tried again on the way.
NoSilentLoss == \A e \in Events : pc[e] = "done" => rows[e] > 0

\* A request writes one row at most, a job one per attempt: an attempt that fails
\* after the save leaves its row, and the next one writes another.
RowsBounded ==
  \A e \in Events : rows[e] <= IF via[e] = "job" THEN attempts[e] ELSE 1

\* An event a request has created goes to the sockets of the user or becomes a push
\* job, or he came online after the one check had found him offline and before the
\* other found him online, or had deleted its row before it was sent.
HeardOrMissed ==
  \A e \in Events : pc[e] = "done" /\ via[e] = "request" =>
    emitted[e] \/ push[e] # "none" \/ e \in missed

\* Every event that was submitted ends, done, skipped or given up, and every push
\* job ends: retries are bounded and no conflict over the defaults goes round for
\* ever.
Settled ==
  \A e \in Events : /\ pc[e] \in Final \cup {"new"}
                    /\ push[e] \in {"none", "nobody", "sent", "lost", "failed"}
AllSettle == <>[]Settled
=============================================================================
