---------------------------- MODULE ForumThreads ----------------------------
(***************************************************************************)
(* Threads and replies of the forum (forum/forum-threads.service.ts): rows *)
(* that are soft-deleted, the counters kept beside them in the category    *)
(* and in the thread, the lock, and subscriptions, which a second request  *)
(* of the same kind takes back.  The database removes the threads of a     *)
(* category with it, and with a reply every reply that names it as its     *)
(* parent, on whatever thread.  Likes are in Likes, views in ViewCounters, *)
(* and the cache of the categories in Catalog.                             *)
(***************************************************************************)
EXTENDS Integers, FiniteSets

CONSTANTS
  Categories,    \* categories of the forum
  Threads,       \* thread rows, numbered as they are made
  Answers,       \* reply rows, numbered as they are made
  Members,       \* users who subscribe
  Posters,       \* requests that may be open at a time
  MaxRequests,   \* bound on requests
  ForumFaults    \* bound on failures

VARIABLES
  category,      \* the categories that are there
  thread,        \* each row: absent, live, soft-deleted or removed
  inCategory,    \* category_id
  locked,        \* is_locked
  subscribed,    \* rows of thread_subscriptions
  reply, onThread, replyTo,   \* the rows, thread_id, and parent_id or 0
  threadsCount, repliesCount,
  posting,       \* where each request stands, and its rows
  requests, forumFaults,
  miscounted     \* history: rows whose counter a failure, a second deletion or a cascade put off

forumVars == <<category, thread, inCategory, locked, subscribed, reply, onThread, replyTo,
               threadsCount, repliesCount, posting, requests, forumFaults, miscounted>>

Idle == [at |-> "idle", row |-> 0, user |-> {}]
GoTo(c, at, row, user) == posting' = [posting EXCEPT ![c] = [at |-> at, row |-> row, user |-> user]]
End(c) == posting' = [posting EXCEPT ![c] = Idle]
Start(c) == posting[c] = Idle /\ requests < MaxRequests /\ requests' = requests + 1
At(c, step) == posting[c].at = step /\ UNCHANGED <<requests, forumFaults>>
Next1(rows, state) == {i \in rows : state[i] = "absent" /\ \A j \in rows : j < i => state[j] # "absent"}

Init ==
  /\ category = Categories
  /\ thread = [t \in Threads |-> "absent"] /\ inCategory \in [Threads -> Categories]
  /\ locked = {} /\ subscribed = {}
  /\ reply = [r \in Answers |-> "absent"]
  /\ onThread = [r \in Answers |-> CHOOSE t \in Threads : TRUE] /\ replyTo = [r \in Answers |-> 0]
  /\ threadsCount = [k \in Categories |-> 0] /\ repliesCount = [t \in Threads |-> 0]
  /\ posting = [c \in Posters |-> Idle]
  /\ requests = 0 /\ forumFaults = 0 /\ miscounted = {}

-----------------------------------------------------------------------------
\* create: the category was found, and may be gone when the row is written.
InsertThread(c) ==
  /\ Start(c)
  /\ \E t \in Next1(Threads, thread) :
       /\ inCategory[t] \in category
       /\ thread' = [thread EXCEPT ![t] = "live"]
       /\ GoTo(c, "incThreads", t, {})
  /\ UNCHANGED <<category, inCategory, locked, subscribed, reply, onThread, replyTo,
                 threadsCount, repliesCount, forumFaults, miscounted>>

\* incrementThreadsCount; a category that is gone is updated in vain.
IncThreads(c) ==
  LET t == posting[c].row IN
  /\ At(c, "incThreads")
  /\ threadsCount' = IF inCategory[t] \in category
                     THEN [threadsCount EXCEPT ![inCategory[t]] = @ + 1] ELSE threadsCount
  /\ \E u \in Members : GoTo(c, "findSubscription", t, {u})
  /\ UNCHANGED <<category, thread, inCategory, locked, subscribed, reply, onThread, replyTo,
                 repliesCount, miscounted>>

\* subscribe, of the author after create and of anyone: a toggle.
Subscribe(c) ==
  /\ Start(c)
  /\ \E t \in Threads, u \in Members : thread[t] = "live" /\ GoTo(c, "findSubscription", t, {u})
  /\ UNCHANGED <<category, thread, inCategory, locked, subscribed, reply, onThread, replyTo,
                 threadsCount, repliesCount, forumFaults, miscounted>>

FindSubscription(c) ==
  LET w == posting[c] IN
  /\ At(c, "findSubscription")
  /\ IF thread[w.row] # "live" THEN End(c)
     ELSE GoTo(c, IF {w.row} \X w.user \subseteq subscribed THEN "unsubscribe" ELSE "subscribe", w.row, w.user)
  /\ UNCHANGED <<category, thread, inCategory, locked, subscribed, reply, onThread, replyTo,
                 threadsCount, repliesCount, miscounted>>

\* The unique index or the foreign key may refuse the row; a deletion finds nothing.
WriteSubscription(c) ==
  LET rows == {posting[c].row} \X posting[c].user IN
  /\ \/ /\ At(c, "subscribe")
        /\ subscribed' = IF thread[posting[c].row] = "removed" THEN subscribed ELSE subscribed \union rows
     \/ At(c, "unsubscribe") /\ subscribed' = subscribed \ rows
  /\ End(c)
  /\ UNCHANGED <<category, thread, inCategory, locked, reply, onThread, replyTo,
                 threadsCount, repliesCount, miscounted>>

-----------------------------------------------------------------------------
FindDoomedThread(c) ==
  /\ Start(c)
  /\ \E t \in Threads : thread[t] = "live" /\ GoTo(c, "deleteThread", t, {})
  /\ UNCHANGED <<category, thread, inCategory, locked, subscribed, reply, onThread, replyTo,
                 threadsCount, repliesCount, forumFaults, miscounted>>

\* softDelete says nothing when the row is deleted already.
DeleteThread(c) ==
  LET t == posting[c].row IN
  /\ At(c, "deleteThread")
  /\ IF thread[t] = "live"
     THEN thread' = [thread EXCEPT ![t] = "deleted"] /\ UNCHANGED miscounted
     ELSE UNCHANGED thread /\ miscounted' = miscounted \union {inCategory[t]}
  /\ GoTo(c, "decThreads", t, {})
  /\ UNCHANGED <<category, inCategory, locked, subscribed, reply, onThread, replyTo, threadsCount, repliesCount>>

DecThreads(c) ==
  LET k == inCategory[posting[c].row] IN
  /\ At(c, "decThreads")
  /\ threadsCount' = IF k \in category THEN [threadsCount EXCEPT ![k] = @ - 1] ELSE threadsCount
  /\ End(c)
  /\ UNCHANGED <<category, thread, inCategory, locked, subscribed, reply, onThread, replyTo, repliesCount, miscounted>>

\* Mutant: the rows of a thread are looked at, and not those that name them as parents.
WithReplies_Thread(S) == S

\* A reply goes with the reply it names as its parent: the least set that holds S and
\* the replies to what it holds.
WithReplies(S) ==
  {r \in Answers : \A T \in SUBSET Answers :
     S \subseteq T /\ (\A a \in Answers : replyTo[a] \in T => a \in T) => r \in T}

\* delete of a category, and what the foreign keys remove with it; a thread elsewhere
\* is not told of the replies it loses.
DeleteCategory(c) ==
  /\ Start(c)
  /\ \E k \in category :
       LET lost == {t \in Threads : inCategory[t] = k /\ thread[t] # "absent"}
           gone == WithReplies({r \in Answers : reply[r] # "absent" /\ onThread[r] \in lost})
       IN  /\ category' = category \ {k}
           /\ thread' = [t \in Threads |-> IF t \in lost THEN "removed" ELSE thread[t]]
           /\ reply' = [r \in Answers |-> IF r \in gone THEN "removed" ELSE reply[r]]
           /\ subscribed' = {s \in subscribed : s[1] \notin lost}
           /\ miscounted' = miscounted \union ({onThread[r] : r \in {a \in gone : reply[a] = "live"}} \ lost)
  /\ UNCHANGED <<inCategory, locked, onThread, replyTo, threadsCount, repliesCount, posting, forumFaults>>

-----------------------------------------------------------------------------
\* lock reads the flag and writes its negation.
FindLock(c) ==
  /\ Start(c)
  /\ \E t \in Threads : thread[t] = "live" /\ GoTo(c, IF t \in locked THEN "unlock" ELSE "lock", t, {})
  /\ UNCHANGED <<category, thread, inCategory, locked, subscribed, reply, onThread, replyTo,
                 threadsCount, repliesCount, forumFaults, miscounted>>

WriteLock(c) ==
  /\ \/ At(c, "lock") /\ locked' = locked \union {posting[c].row}
     \/ At(c, "unlock") /\ locked' = locked \ {posting[c].row}
  /\ End(c)
  /\ UNCHANGED <<category, thread, inCategory, subscribed, reply, onThread, replyTo,
                 threadsCount, repliesCount, miscounted>>

\* createReply: a locked thread takes none; the check is over before the row is written.
FindThread(c) ==
  /\ Start(c)
  /\ \E t \in Threads : thread[t] = "live" /\ t \notin locked /\ GoTo(c, "insertReply", t, {})
  /\ UNCHANGED <<category, thread, inCategory, locked, subscribed, reply, onThread, replyTo,
                 threadsCount, repliesCount, forumFaults, miscounted>>

\* The parent is stored as it is given: any row that is there, of any thread, deleted
\* or not.  The foreign keys refuse a thread or a parent that is not there.
InsertReply(c) ==
  LET t == posting[c].row IN
  /\ At(c, "insertReply")
  /\ \/ End(c) /\ UNCHANGED <<reply, onThread, replyTo>>
     \/ /\ thread[t] # "removed"
        /\ \E r \in Next1(Answers, reply), p \in {0} \union {a \in Answers : reply[a] \in {"live", "deleted"}} :
             /\ reply' = [reply EXCEPT ![r] = "live"]
             /\ onThread' = [onThread EXCEPT ![r] = t]
             /\ replyTo' = [replyTo EXCEPT ![r] = p]
        /\ GoTo(c, "incReplies", t, {})
  /\ UNCHANGED <<category, thread, inCategory, locked, subscribed, threadsCount, repliesCount, miscounted>>

IncReplies(c) ==
  /\ At(c, "incReplies")
  /\ repliesCount' = [repliesCount EXCEPT ![posting[c].row] = @ + 1]
  /\ End(c)
  /\ UNCHANGED <<category, thread, inCategory, locked, subscribed, reply, onThread, replyTo, threadsCount, miscounted>>

FindReply(c) ==
  /\ Start(c)
  /\ \E r \in Answers : reply[r] = "live" /\ GoTo(c, "deleteReply", r, {})
  /\ UNCHANGED <<category, thread, inCategory, locked, subscribed, reply, onThread, replyTo,
                 threadsCount, repliesCount, forumFaults, miscounted>>

DeleteReply(c) ==
  LET r == posting[c].row IN
  /\ At(c, "deleteReply")
  /\ IF reply[r] = "live"
     THEN reply' = [reply EXCEPT ![r] = "deleted"] /\ UNCHANGED miscounted
     ELSE UNCHANGED reply /\ miscounted' = miscounted \union {onThread[r]}
  /\ GoTo(c, "decReplies", r, {})
  /\ UNCHANGED <<category, thread, inCategory, locked, subscribed, onThread, replyTo, threadsCount, repliesCount>>

\* Mutant: the counter of the category is taken down.
DecReplies_Thread(c) ==
  /\ At(c, "decReplies")
  /\ threadsCount' = [threadsCount EXCEPT ![inCategory[onThread[posting[c].row]]] = @ - 1]
  /\ End(c)
  /\ UNCHANGED <<category, thread, inCategory, locked, subscribed, reply, onThread, replyTo, repliesCount, miscounted>>

DecReplies(c) ==
  /\ At(c, "decReplies")
  /\ repliesCount' = [repliesCount EXCEPT ![onThread[posting[c].row]] = @ - 1]
  /\ End(c)
  /\ UNCHANGED <<category, thread, inCategory, locked, subscribed, reply, onThread, replyTo, threadsCount, miscounted>>

\* The counter a request has still to change, and by how much it is too high.
Owes(c) ==
  LET w == posting[c] IN
  CASE w.at = "incThreads" -> <<inCategory[w.row], -1>>
    [] w.at = "decThreads" -> <<inCategory[w.row], 1>>
    [] w.at = "incReplies" -> <<w.row, -1>>
    [] w.at = "decReplies" -> <<onThread[w.row], 1>>
    [] OTHER -> <<0, 0>>

Fail(c) ==
  /\ posting[c] # Idle /\ forumFaults < ForumFaults /\ forumFaults' = forumFaults + 1
  /\ miscounted' = miscounted \union {Owes(c)[1]}
  /\ End(c)
  /\ UNCHANGED <<category, thread, inCategory, locked, subscribed, reply, onThread, replyTo,
                 threadsCount, repliesCount, requests>>

Next ==
  \E c \in Posters :
    \/ InsertThread(c) \/ IncThreads(c) \/ Subscribe(c) \/ FindSubscription(c) \/ WriteSubscription(c)
    \/ FindDoomedThread(c) \/ DeleteThread(c) \/ DecThreads(c) \/ DeleteCategory(c)
    \/ FindLock(c) \/ WriteLock(c) \/ FindThread(c) \/ InsertReply(c) \/ IncReplies(c)
    \/ FindReply(c) \/ DeleteReply(c) \/ DecReplies(c) \/ Fail(c)

Spec == Init /\ [][Next]_forumVars

-----------------------------------------------------------------------------
\* Types; nothing that hangs on a removed thread or reply is left.
TypeOK ==
  /\ category \subseteq Categories
  /\ \A t \in Threads : thread[t] \in {"live", "deleted"} => inCategory[t] \in category
  /\ \A r \in Answers : reply[r] \in {"live", "deleted"} =>
       /\ thread[onThread[r]] \in {"live", "deleted"}
       /\ replyTo[r] # 0 => reply[replyTo[r]] \in {"live", "deleted"}
  /\ subscribed \subseteq {t \in Threads : thread[t] \in {"live", "deleted"}} \X Members
  /\ threadsCount \in [Categories -> -MaxRequests..MaxRequests]
  /\ repliesCount \in [Threads -> -MaxRequests..MaxRequests]

TooHigh(x) ==
  Cardinality({c \in Posters : Owes(c) = <<x, 1>>}) - Cardinality({c \in Posters : Owes(c) = <<x, -1>>})

\* The counters of the forum are its live rows and the steps still open, unless
\* a row was deleted twice, a request failed before it counted, or a reply of the
\* thread went with a parent on a thread of a deleted category.
ForumExplained ==
  /\ \A k \in category \ miscounted :
       threadsCount[k] - TooHigh(k) = Cardinality({t \in Threads : thread[t] = "live" /\ inCategory[t] = k})
  /\ \A t \in Threads \ miscounted : thread[t] # "removed" =>
       repliesCount[t] - TooHigh(t) = Cardinality({r \in Answers : reply[r] = "live" /\ onThread[r] = t})
=============================================================================
