------------------------------ MODULE Stories ------------------------------
(***************************************************************************)
(* Stories (social/stories/stories.service.ts): rows that expire a day     *)
(* after they are written, the views counted on them, and the media they   *)
(* show, which lie in the object store.  An hourly job deletes what has    *)
(* expired; owners and viewers act at the same time.                       *)
(***************************************************************************)
EXTENDS Integers, FiniteSets

CONSTANTS
  Ids,        \* the stories, numbered from 1 as they are made, and the objects uploaded for them
  Viewers,    \* users other than the owner
  Calls,      \* requests that may be open at a time
  Job,        \* the hourly job
  Life,       \* how long a story lives
  MaxClock,   \* bound on the clock
  MaxFaults   \* bound on failures and restarts

VARIABLES
  clock,
  story,      \* each row: absent, live or gone
  expires,    \* expires_at
  url,        \* the object a row names; 0 is an address of none of these objects
  objects,    \* what is in the object store
  erased,     \* history: objects deleted by their key, or with a row of another service
  views,      \* the rows of story_views
  viewsCount, \* views_count
  call,       \* where each request stands, and what it works on
  storyFaults,
  cut         \* history: stories with a view uncounted, or a deletion cut short

storyVars == <<clock, story, expires, url, objects, erased, views, viewsCount, call, storyFaults, cut>>

\* A request at an await, with the stories and the viewer or the address it works on.
At(step, ids, by) == [at |-> step, ids |-> ids, by |-> by]
Nowhere == At("idle", {}, {})
Fault == storyFaults < MaxFaults /\ storyFaults' = storyFaults + 1
GoTo(c, place) == call' = [call EXCEPT ![c] = place]

Workers == Calls \union {Job}

Init ==
  /\ clock = 0
  /\ story = [s \in Ids |-> "absent"]
  /\ expires = [s \in Ids |-> 0]
  /\ url = [s \in Ids |-> 0]
  /\ objects = {} /\ erased = {}
  /\ views = {}
  /\ viewsCount = [s \in Ids |-> 0]
  /\ call = [c \in Workers |-> Nowhere]
  /\ storyFaults = 0
  /\ cut = {}

\* What every list and findOne may show (MoreThan(now)).
Visible == {s \in Ids : story[s] = "live" /\ expires[s] > clock}

\* Mutant: the job looks only for what has expired since its last run.
Expired_Last == {s \in Ids : story[s] = "live" /\ expires[s] = clock - 1}

\* What the job looks for (LessThan(now)).
Expired == {s \in Ids : story[s] = "live" /\ expires[s] < clock}

\* Rows are removed, and the database removes their views (ON DELETE CASCADE).
RemoveRows(S) ==
  /\ story' = [s \in Ids |-> IF s \in S THEN "gone" ELSE story[s]]
  /\ expires' = [s \in Ids |-> IF s \in S THEN 0 ELSE expires[s]]
  /\ viewsCount' = [s \in Ids |-> IF s \in S THEN 0 ELSE viewsCount[s]]
  /\ views' = {v \in views : v[1] \notin S}

-----------------------------------------------------------------------------
\* The addresses that may be known, of objects that are there or were.
Addresses == objects \union erased \union {url[t] : t \in Ids}

\* Bound: the next story not used yet.
Unused(s) == story[s] = "absent" /\ s \notin Addresses /\ \A d \in Workers : s \notin call[d].ids
Fresh(s) == Unused(s) /\ \A t \in Ids : Unused(t) => s <= t

\* Mutant: a failure of the upload is logged, and the row written.
Upload_Swallow(c) ==
  /\ call[c] = Nowhere
  /\ \E s \in Ids :
       /\ Fresh(s)
       /\ objects' \in {objects, objects \union {s}}
       /\ GoTo(c, At("save", {s}, {s}))
  /\ UNCHANGED <<clock, story, expires, url, erased, views, viewsCount, storyFaults, cut>>

\* create with a file: the object is uploaded before the row is written.
Upload(c) ==
  /\ call[c] = Nowhere
  /\ \E s \in Ids :
       /\ Fresh(s)
       /\ objects' = objects \union {s}
       /\ GoTo(c, At("save", {s}, {s}))
  /\ UNCHANGED <<clock, story, expires, url, erased, views, viewsCount, storyFaults, cut>>

\* create with an address instead of a file: any string, which is not looked at.
Reuse(c) ==
  /\ call[c] = Nowhere
  /\ \E s \in Ids, o \in {0} \union Addresses : Fresh(s) /\ GoTo(c, At("save", {s}, {o}))
  /\ UNCHANGED <<clock, story, expires, url, objects, erased, views, viewsCount, storyFaults, cut>>

SaveStory(c) ==
  /\ call[c].at = "save"
  /\ \E s \in call[c].ids, o \in call[c].by :
       /\ clock + Life <= MaxClock
       /\ url' = [url EXCEPT ![s] = o]
       /\ story' = [story EXCEPT ![s] = "live"]
       /\ expires' = [expires EXCEPT ![s] = clock + Life]
  /\ GoTo(c, Nowhere)
  /\ UNCHANGED <<clock, objects, erased, views, viewsCount, storyFaults, cut>>

-----------------------------------------------------------------------------
\* markAsViewed: the story is visible, and there is no view of this user.
ViewFind(c) ==
  /\ call[c] = Nowhere
  /\ \E s \in Visible, u \in Viewers :
       /\ <<s, u>> \notin views
       /\ GoTo(c, At("insertView", {s}, {u}))
  /\ UNCHANGED <<clock, story, expires, url, objects, erased, views, viewsCount, storyFaults, cut>>

\* Mutant: the save is an upsert, and every request counts.
InsertView_Upsert(c) ==
  /\ call[c].at = "insertView"
  /\ \E s \in call[c].ids, u \in call[c].by :
       views' = views \union {<<s, u>>} /\ GoTo(c, At("incViews", {s}, {u}))
  /\ UNCHANGED <<clock, story, expires, url, objects, erased, viewsCount, storyFaults, cut>>

\* The unique index and the foreign key decide; when they refuse, save throws.
InsertView(c) ==
  /\ call[c].at = "insertView"
  /\ \E s \in call[c].ids, u \in call[c].by :
       IF <<s, u>> \in views \/ story[s] # "live"
       THEN UNCHANGED views /\ GoTo(c, Nowhere)
       ELSE views' = views \union {<<s, u>>} /\ GoTo(c, At("incViews", {s}, {u}))
  /\ UNCHANGED <<clock, story, expires, url, objects, erased, viewsCount, storyFaults, cut>>

IncViews(c) ==
  /\ call[c].at = "incViews"
  /\ \E s \in call[c].ids :
       viewsCount' = IF story[s] = "live" THEN [viewsCount EXCEPT ![s] = @ + 1] ELSE viewsCount
  /\ GoTo(c, Nowhere)
  /\ UNCHANGED <<clock, story, expires, url, objects, erased, views, storyFaults, cut>>

-----------------------------------------------------------------------------
\* delete, by the owner, and deleteExpired, by the job: the media first ...
DeleteFind(c) ==
  /\ call[c] = Nowhere
  /\ \E s \in Ids : story[s] = "live" /\ GoTo(c, At("deleteMedia", {s}, {s}))
  /\ UNCHANGED <<clock, story, expires, url, objects, erased, views, viewsCount, storyFaults, cut>>

ExpireFind ==
  /\ call[Job] = Nowhere
  /\ Expired # {}
  /\ GoTo(Job, At("deleteMedia", Expired, Expired))
  /\ UNCHANGED <<clock, story, expires, url, objects, erased, views, viewsCount, storyFaults, cut>>

\* (the store may refuse, or not know the address, which is only logged)
DeleteMedia(c) ==
  /\ call[c].at = "deleteMedia"
  /\ \E s \in call[c].by :
       /\ \/ objects' = objects \ {url[s]} /\ UNCHANGED storyFaults
          \/ UNCHANGED objects /\ Fault
       /\ GoTo(c, IF call[c].by = {s} THEN At("deleteRows", call[c].ids, {})
                                      ELSE [call[c] EXCEPT !.by = @ \ {s}])
  /\ UNCHANGED <<clock, story, expires, url, erased, views, viewsCount, cut>>

\* ... and then all the rows, by their ids.
DeleteRows(c) ==
  /\ call[c].at = "deleteRows"
  /\ RemoveRows(call[c].ids)
  /\ GoTo(c, Nowhere)
  /\ UNCHANGED <<clock, url, objects, erased, storyFaults, cut>>

\* DELETE /media/:key, by any user, and the deletion of a post, a part or a profile
\* that names the object: no row of a story is looked at.
DeleteByKey ==
  /\ \E o \in objects : objects' = objects \ {o} /\ erased' = erased \union {o}
  /\ UNCHANGED <<clock, story, expires, url, views, viewsCount, call, storyFaults, cut>>

-----------------------------------------------------------------------------
Tick ==
  /\ clock < MaxClock
  /\ clock' = clock + 1
  /\ UNCHANGED <<story, expires, url, objects, erased, views, viewsCount, call, storyFaults, cut>>

\* A query fails, or the process ends: the request stops where it stands.
Fail(c) ==
  /\ call[c] # Nowhere
  /\ Fault
  /\ cut' = cut \union (IF call[c].at \in {"incViews", "deleteRows"} THEN call[c].ids ELSE {})
                \union (IF call[c].at = "deleteMedia" THEN call[c].ids \ call[c].by ELSE {})
  /\ GoTo(c, Nowhere)
  /\ UNCHANGED <<clock, story, expires, url, objects, erased, views, viewsCount>>

Act(c) ==
  \/ Upload(c) \/ Reuse(c) \/ ViewFind(c) \/ DeleteFind(c)

Continue(c) ==
  \/ SaveStory(c) \/ InsertView(c) \/ IncViews(c) \/ DeleteMedia(c) \/ DeleteRows(c)

Next ==
  \/ Tick
  \/ ExpireFind
  \/ DeleteByKey
  \/ \E c \in Calls : Act(c)
  \/ \E c \in Workers : Continue(c) \/ Fail(c)
  \/ clock = MaxClock /\ UNCHANGED storyVars

\* The clock runs, and the job is started every hour and goes on.
Fair == WF_storyVars(Tick) /\ WF_storyVars(ExpireFind \/ Continue(Job))

Spec == Init /\ [][Next]_storyVars

-----------------------------------------------------------------------------
Pending(s) == {c \in Workers : call[c].at = "incViews" /\ s \in call[c].ids}
Doomed == {s \in Ids : \E c \in Workers :
             call[c].at \in {"deleteMedia", "deleteRows"} /\ s \in call[c].ids}

\* Types; a view has a live story, and an open request the ids its step needs.
TypeOK ==
  /\ clock \in 0..MaxClock /\ storyFaults \in 0..MaxFaults /\ cut \subseteq Ids
  /\ story \in [Ids -> {"absent", "live", "gone"}]
  /\ expires \in [Ids -> 0..MaxClock] /\ url \in [Ids -> Ids \union {0}]
  /\ objects \subseteq Ids /\ erased \subseteq Ids /\ views \subseteq Ids \X Viewers
  /\ viewsCount \in [Ids -> 0..Cardinality(Viewers)]
  /\ \A v \in views : story[v[1]] = "live"
  /\ \A c \in Workers : call[c].at \in {"save", "insertView", "incViews"} =>
       Cardinality(call[c].ids) = 1 /\ Cardinality(call[c].by) = 1

\* Every view of a live story is counted once, or about to be, or its request
\* was cut off: two clicks of one user, or a view racing with the end of the
\* story, change nothing.
ViewsCounted ==
  \A s \in Ids : story[s] = "live" =>
    LET rows == Cardinality({v \in views : v[1] = s})
        known == viewsCount[s] + Cardinality(Pending(s))
    IN  known <= rows /\ (s \notin cut => known = rows)

\* A visible story shows its media, unless it was given an address of nothing, its
\* own deletion is under way or was cut off, it names the media of another story
\* that was deleted, or the object was deleted from outside.
MediaThere ==
  \A s \in Visible : url[s] \notin objects =>
    \/ url[s] \in {0} \union erased
    \/ s \in Doomed \union cut
    \/ \E t \in Ids \ {s} : url[t] = url[s] /\ (story[t] = "gone" \/ t \in Doomed \union cut)

\* A story that nobody sees any more is removed in the end: again and again there
\* is none.
ExpiredGo == []<>(\A s \in Ids : story[s] = "live" => expires[s] >= clock)
=============================================================================
