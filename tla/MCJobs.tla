------------------------------- MODULE MCJobs -------------------------------
(***************************************************************************)
(* What goes on in the background, for TLC: notifications and pushes from  *)
(* the queues, the tokens that pushes are sent to, the recurring jobs, and *)
(* stories that an hourly job removes.  They share no state, so a          *)
(* behaviour moves one of them, its focus, and leaves the others where     *)
(* they started.                                                           *)
(***************************************************************************)
EXTENDS NotificationDelivery, Sequences, TLC

CONSTANTS
  Ids, Viewers, Calls, Job, Life, MaxClock, StoryFaults,
  Holders, Tokens, Phones, Registers, MaxRegisters, DeviceFaults,
  Recurring, Servers, MaxStarts, ScheduleFaults

VARIABLES
  focus,
  clock, story, expires, url, objects, erased, views, viewsCount, call, storyFaults, cut,
  known, activeTokens, phone, signing, registers, deviceFaults, shared, doubled, signedOff,
  repeatable, starting, starts, scheduleFaults, gap

\* CLEANUP_JOBS, as scheduled (queue/queue.service.ts).
RecurringJobs == <<"stories", "notifications", "tokens", "media">>

storyVars == <<clock, story, expires, url, objects, erased, views, viewsCount, call, storyFaults, cut>>
deviceVars == <<known, activeTokens, phone, signing, registers, deviceFaults, shared, doubled, signedOff>>
scheduleVars == <<repeatable, starting, starts, scheduleFaults, gap>>

Sto == INSTANCE Stories WITH MaxFaults <- StoryFaults
Dev == INSTANCE Devices
Sch == INSTANCE Schedule

ASSUME StoriesAssumption ==
  /\ Ids \subseteq Nat \ {0} /\ IsFiniteSet(Viewers) /\ IsFiniteSet(Calls)
  /\ Life \in Nat /\ MaxClock \in Nat /\ StoryFaults \in Nat
ASSUME RecurringAssumption == Recurring \in Seq(Sch!Jobs) /\ Recurring # <<>>

MCInit ==
  /\ Init /\ Sto!Init /\ Dev!Init /\ Sch!Init
  /\ focus \in {"delivery", "stories", "devices", "schedule"}
  /\ focus # "delivery" => ~online

MCNext ==
  /\ UNCHANGED focus
  /\ \/ focus = "delivery" /\ Next /\ UNCHANGED <<storyVars, deviceVars, scheduleVars>>
     \/ focus = "stories" /\ Sto!Next /\ UNCHANGED <<vars, deviceVars, scheduleVars>>
     \/ focus = "devices" /\ Dev!Next /\ UNCHANGED <<vars, storyVars, scheduleVars>>
     \/ focus = "schedule" /\ Sch!Next /\ UNCHANGED <<vars, storyVars, deviceVars>>

\* The fairness of each component, of stories only with the focus on them: Tick
\* could always be taken.
MCSpec ==
  /\ MCInit /\ [][MCNext]_<<focus, vars, storyVars, deviceVars, scheduleVars>>
  /\ \A e \in Events : WF_vars(Take(e) \/ Create(e) \/ Push(e))
  /\ WF_storyVars(focus = "stories" /\ Sto!Tick)
  /\ WF_storyVars(focus = "stories" /\ (Sto!ExpireFind \/ Sto!Continue(Job)))

\* The region explored of stories: addresses that are reused and objects that are deleted
\* from outside, or views, which have nothing to do with objects.
Explored ==
  \/ erased = {} /\ \A s \in Ids : story[s] = "live" => url[s] = s
  \/ views = {} /\ \A c \in Calls : call[c].at \notin {"insertView", "incViews"}

\* Every component keeps its types.
Types == TypeOK /\ Sto!TypeOK /\ Dev!TypeOK /\ Sch!TypeOK

\* Rows are written, and not more than attempts (NotificationDelivery!NoSilentLoss,
\* NotificationDelivery!RowsBounded).
RowsCounted == NoSilentLoss /\ RowsBounded

\* Stories show their media and count their views (Stories!MediaThere,
\* Stories!ViewsCounted).
StoriesExplained == Sto!MediaThere /\ Sto!ViewsCounted

\* Pushes go where they should, and the recurring jobs are there
\* (Devices!DevicesExplained, Schedule!ScheduleExplained).
TargetsExplained == Dev!DevicesExplained /\ Sch!ScheduleExplained

\* Events and pushes end, and expired stories go (NotificationDelivery!AllSettle,
\* Stories!ExpiredGo).
AllEnd == AllSettle /\ Sto!ExpiredGo
=============================================================================
