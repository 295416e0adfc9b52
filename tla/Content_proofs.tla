---------------------------- MODULE Content_proofs ----------------------------
(***************************************************************************)
(* Posts and the forum, for any requests, rows and bounds, and with them   *)
(* what the runs check of all social components: the requests of a post    *)
(* or of a thread are several statements long, so a counter is weighed     *)
(* together with what each open request has still to count.                *)
(***************************************************************************)
EXTENDS MCSocial_proofs

(***************************************************************************)
(* The forum.  A request that has changed a row and not yet its counter    *)
(* takes one from it, or gives it one.                                     *)
(***************************************************************************)
RowStates == {"absent", "live", "deleted", "removed"}
OnThreads == {"incThreads", "findSubscription", "subscribe", "unsubscribe", "deleteThread",
              "decThreads", "lock", "unlock", "insertReply", "incReplies"}
OnReplies == {"deleteReply", "decReplies"}
Counting == {"incThreads", "deleteThread", "decThreads", "insertReply", "incReplies",
             "deleteReply", "decReplies"}
PostingRecords == [at : {"idle"} \union OnThreads \union OnReplies, row : Nat, user : SUBSET Members]

Lowers(c, x) ==
  \/ posting[c].at = "decThreads" /\ inCategory[posting[c].row] = x
  \/ posting[c].at = "decReplies" /\ onThread[posting[c].row] = x
Raises(c, x) ==
  \/ posting[c].at = "incThreads" /\ inCategory[posting[c].row] = x
  \/ posting[c].at = "incReplies" /\ posting[c].row = x

Taking(x) == {c \in Posters : Lowers(c, x)}
Giving(x) == {c \in Posters : Raises(c, x)}
Busy == {c \in Posters : posting[c].at \in Counting}
LiveIn(k) == {t \in Threads : thread[t] = "live" /\ inCategory[t] = k}
LiveOn(t) == {r \in Answers : reply[r] = "live" /\ onThread[r] = t}

ForumTypes ==
  /\ category \subseteq Categories /\ inCategory \in [Threads -> Categories]
  /\ thread \in [Threads -> RowStates] /\ reply \in [Answers -> RowStates]
  /\ onThread \in [Answers -> Threads] /\ replyTo \in [Answers -> Answers \union {0}]
  /\ threadsCount \in [Categories -> Int] /\ repliesCount \in [Threads -> Int]
  /\ requests \in 0..MaxRequests
  /\ posting \in [Posters -> PostingRecords]

\* A row hangs on what is there, and a request is about a row that was made.
ForumRows ==
  /\ \A t \in Threads : thread[t] \in {"live", "deleted"} => inCategory[t] \in category
  /\ \A r \in Answers : reply[r] \in {"live", "deleted"} =>
       /\ thread[onThread[r]] \in {"live", "deleted"}
       /\ replyTo[r] # 0 => reply[replyTo[r]] \in {"live", "deleted"}
  /\ \A s \in subscribed : \E t \in Threads, m \in Members :
       s = <<t, m>> /\ thread[t] \in {"live", "deleted"}
  /\ \A c \in Posters :
       /\ posting[c].at \in OnThreads => posting[c].row \in Threads /\ thread[posting[c].row] # "absent"
       /\ posting[c].at \in OnReplies => posting[c].row \in Answers /\ reply[posting[c].row] # "absent"

\* Rows and counters, with what the open requests have still to count.
ForumBalance ==
  /\ \A k \in category \ miscounted :
       threadsCount[k] + Cardinality(Giving(k)) = Cardinality(LiveIn(k)) + Cardinality(Taking(k))
  /\ \A t \in Threads \ miscounted : thread[t] # "removed" =>
       repliesCount[t] + Cardinality(Giving(t)) = Cardinality(LiveOn(t)) + Cardinality(Taking(t))

\* A request changes a counter once.
ForumBounds ==
  LET over == requests - Cardinality(Busy) IN
    /\ over \in Nat
    /\ \A k \in Categories : -over <= threadsCount[k] /\ threadsCount[k] <= over
    /\ \A t \in Threads : -over <= repliesCount[t] /\ repliesCount[t] <= over

ForumInv == ForumTypes /\ ForumRows /\ ForumBalance /\ ForumBounds

GiveN(c, x) == IF Raises(c, x) THEN 1 ELSE 0
TakeN(c, x) == IF Lowers(c, x) THEN 1 ELSE 0
LiveInN(t, k) == IF t \in LiveIn(k) THEN 1 ELSE 0
LiveOnN(r, t) == IF r \in LiveOn(t) THEN 1 ELSE 0
BusyN(c) == IF posting[c].at \in Counting THEN 1 ELSE 0

OthersPost(c) == \A d \in Posters \ {c} : posting'[d] = posting[d]

\* Whatever the forum counts is finite.
LEMMA ForumFinite ==
  /\ \A x : IsFiniteSet(Giving(x)) /\ IsFiniteSet(Taking(x)) /\ IsFiniteSet(LiveIn(x)) /\ IsFiniteSet(LiveOn(x))
  /\ IsFiniteSet(Busy)
<1>1. ASSUME NEW x
      PROVE  IsFiniteSet(Giving(x)) /\ IsFiniteSet(Taking(x)) /\ IsFiniteSet(LiveIn(x)) /\ IsFiniteSet(LiveOn(x))
  <2>1. Giving(x) \in SUBSET Posters /\ Taking(x) \in SUBSET Posters
    BY DEF Giving, Taking
  <2>2. LiveIn(x) \in SUBSET Threads /\ LiveOn(x) \in SUBSET Answers
    BY DEF LiveIn, LiveOn
  <2> QED BY <2>1, <2>2, ForumAssumption, FS_Subset
<1>2. Busy \in SUBSET Posters
  BY DEF Busy
<1>3. IsFiniteSet(Busy)
  BY <1>2, ForumAssumption, FS_Subset
<1> QED BY <1>1, <1>3

\* What the steps of c change in the numbers that are weighed.
LEMMA RequestLedger ==
  ASSUME NEW c \in Posters, NEW x,
         \A d \in Posters \ {c} : (Lowers(d, x)' <=> Lowers(d, x)) /\ (Raises(d, x)' <=> Raises(d, x))
  PROVE  /\ Cardinality(Giving(x)) \in Nat /\ Cardinality(Giving(x)') \in Nat
         /\ Cardinality(Taking(x)) \in Nat /\ Cardinality(Taking(x)') \in Nat
         /\ Cardinality(Giving(x)') - GiveN(c, x)' = Cardinality(Giving(x)) - GiveN(c, x)
         /\ Cardinality(Taking(x)') - TakeN(c, x)' = Cardinality(Taking(x)) - TakeN(c, x)
<1>1. IsFiniteSet(Giving(x)) /\ IsFiniteSet(Taking(x))
  BY ForumFinite
<1>2. /\ Cardinality(Giving(x)) \in Nat /\ Cardinality(Giving(x)') \in Nat
      /\ Cardinality(Giving(x)') - GiveN(c, x)' = Cardinality(Giving(x)) - GiveN(c, x)
  <2> DEFINE S == Giving(x)
             T == Giving(x)'
  <2>1. T \ {c} = S \ {c}
    BY DEF Giving
  <2>2. GiveN(c, x) = (IF c \in S THEN 1 ELSE 0) /\ GiveN(c, x)' = (IF c \in T THEN 1 ELSE 0)
    BY DEF Giving, GiveN
  <2>3. IsFiniteSet(S)
    BY <1>1
  <2> HIDE DEF S, T
  <2>4. /\ Cardinality(S) \in Nat /\ Cardinality(T) \in Nat
        /\ Cardinality(T) - (IF c \in T THEN 1 ELSE 0) = Cardinality(S) - (IF c \in S THEN 1 ELSE 0)
    BY <2>1, <2>3, OneCounted
  <2>5. Cardinality(S) \in Nat /\ Cardinality(T) \in Nat /\ Cardinality(T) - GiveN(c, x)' = Cardinality(S) - GiveN(c, x)
    BY <2>2, <2>4
  <2> QED BY <2>5 DEF S, T
<1>3. /\ Cardinality(Taking(x)) \in Nat /\ Cardinality(Taking(x)') \in Nat
      /\ Cardinality(Taking(x)') - TakeN(c, x)' = Cardinality(Taking(x)) - TakeN(c, x)
  <2> DEFINE S == Taking(x)
             T == Taking(x)'
  <2>1. T \ {c} = S \ {c}
    BY DEF Taking
  <2>2. TakeN(c, x) = (IF c \in S THEN 1 ELSE 0) /\ TakeN(c, x)' = (IF c \in T THEN 1 ELSE 0)
    BY DEF Taking, TakeN
  <2>3. IsFiniteSet(S)
    BY <1>1
  <2> HIDE DEF S, T
  <2>4. /\ Cardinality(S) \in Nat /\ Cardinality(T) \in Nat
        /\ Cardinality(T) - (IF c \in T THEN 1 ELSE 0) = Cardinality(S) - (IF c \in S THEN 1 ELSE 0)
    BY <2>1, <2>3, OneCounted
  <2>5. Cardinality(S) \in Nat /\ Cardinality(T) \in Nat /\ Cardinality(T) - TakeN(c, x)' = Cardinality(S) - TakeN(c, x)
    BY <2>2, <2>4
  <2> QED BY <2>5 DEF S, T
<1> QED BY <1>2, <1>3

\* One request opens or ends: the number of open ones.
LEMMA BusyLedger ==
  ASSUME NEW c \in Posters, OthersPost(c)
  PROVE  /\ Cardinality(Busy) \in Nat /\ Cardinality(Busy') \in Nat
         /\ Cardinality(Busy') - BusyN(c)' = Cardinality(Busy) - BusyN(c)
<1> DEFINE S == Busy
           T == Busy'
<1>1. IsFiniteSet(S)
  BY ForumFinite
<1>2. T \ {c} = S \ {c}
  BY DEF Busy, OthersPost
<1>3. BusyN(c) = (IF c \in S THEN 1 ELSE 0) /\ BusyN(c)' = (IF c \in T THEN 1 ELSE 0)
  BY DEF Busy, BusyN
<1> HIDE DEF S, T
<1>4. /\ Cardinality(S) \in Nat /\ Cardinality(T) \in Nat
      /\ Cardinality(T) - (IF c \in T THEN 1 ELSE 0) = Cardinality(S) - (IF c \in S THEN 1 ELSE 0)
  BY <1>1, <1>2, OneCounted
<1>5. Cardinality(S) \in Nat /\ Cardinality(T) \in Nat /\ Cardinality(T) - BusyN(c)' = Cardinality(S) - BusyN(c)
  BY <1>3, <1>4
<1> QED BY <1>5 DEF S, T

\* One thread comes or goes: the threads of a category.
LEMMA ThreadLedger ==
  ASSUME NEW t, NEW k,
         \A s \in Threads \ {t} :
           (thread'[s] = "live" /\ inCategory'[s] = k) <=> (thread[s] = "live" /\ inCategory[s] = k)
  PROVE  /\ Cardinality(LiveIn(k)) \in Nat /\ Cardinality(LiveIn(k)') \in Nat
         /\ Cardinality(LiveIn(k)') - LiveInN(t, k)' = Cardinality(LiveIn(k)) - LiveInN(t, k)
<1> DEFINE S == LiveIn(k)
           T == LiveIn(k)'
<1>1. IsFiniteSet(S)
  BY ForumFinite
<1>2. T \ {t} = S \ {t}
  BY DEF LiveIn
<1>3. LiveInN(t, k) = (IF t \in S THEN 1 ELSE 0) /\ LiveInN(t, k)' = (IF t \in T THEN 1 ELSE 0)
  BY DEF LiveInN
<1> HIDE DEF S, T
<1>4. /\ Cardinality(S) \in Nat /\ Cardinality(T) \in Nat
      /\ Cardinality(T) - (IF t \in T THEN 1 ELSE 0) = Cardinality(S) - (IF t \in S THEN 1 ELSE 0)
  BY <1>1, <1>2, OneCounted
<1>5. Cardinality(S) \in Nat /\ Cardinality(T) \in Nat /\ Cardinality(T) - LiveInN(t, k)' = Cardinality(S) - LiveInN(t, k)
  BY <1>3, <1>4
<1> QED BY <1>5 DEF S, T

\* One reply comes or goes: the replies of a thread.
LEMMA ReplyLedger ==
  ASSUME NEW r, NEW t,
         \A s \in Answers \ {r} :
           (reply'[s] = "live" /\ onThread'[s] = t) <=> (reply[s] = "live" /\ onThread[s] = t)
  PROVE  /\ Cardinality(LiveOn(t)) \in Nat /\ Cardinality(LiveOn(t)') \in Nat
         /\ Cardinality(LiveOn(t)') - LiveOnN(r, t)' = Cardinality(LiveOn(t)) - LiveOnN(r, t)
<1> DEFINE S == LiveOn(t)
           T == LiveOn(t)'
<1>1. IsFiniteSet(S)
  BY ForumFinite
<1>2. T \ {r} = S \ {r}
  BY DEF LiveOn
<1>3. LiveOnN(r, t) = (IF r \in S THEN 1 ELSE 0) /\ LiveOnN(r, t)' = (IF r \in T THEN 1 ELSE 0)
  BY DEF LiveOnN
<1> HIDE DEF S, T
<1>4. /\ Cardinality(S) \in Nat /\ Cardinality(T) \in Nat
      /\ Cardinality(T) - (IF r \in T THEN 1 ELSE 0) = Cardinality(S) - (IF r \in S THEN 1 ELSE 0)
  BY <1>1, <1>2, OneCounted
<1>5. Cardinality(S) \in Nat /\ Cardinality(T) \in Nat /\ Cardinality(T) - LiveOnN(r, t)' = Cardinality(S) - LiveOnN(r, t)
  BY <1>3, <1>4
<1> QED BY <1>5 DEF S, T

\* A request is written as a whole.
LEMMA PostingMoves ==
  ASSUME ForumTypes, NEW c \in Posters, NEW w \in PostingRecords, posting' = [posting EXCEPT ![c] = w]
  PROVE  posting' \in [Posters -> PostingRecords] /\ posting'[c] = w /\ OthersPost(c)
BY DEF ForumTypes, OthersPost

\* What a request of the forum is made of.
LEMMA PostingOf ==
  ASSUME ForumTypes, NEW c \in Posters
  PROVE  /\ posting[c] \in PostingRecords /\ posting[c].row \in Nat /\ posting[c].user \in SUBSET Members
         /\ posting[c].at \in {"idle"} \union OnThreads \union OnReplies
BY DEF ForumTypes, PostingRecords

\* A request that is not open is idle.
LEMMA PostingIdle == For!Idle \in PostingRecords /\ For!Idle.at = "idle"
BY DEF For!Idle, PostingRecords

\* Steps that leave rows and counters alone: what they make of the request.
ForumQuiet(c) ==
  /\ UNCHANGED <<category, thread, inCategory, reply, onThread, replyTo, threadsCount, repliesCount, miscounted>>
  /\ OthersPost(c) /\ posting' \in [Posters -> PostingRecords] /\ requests' \in 0..MaxRequests
  /\ posting'[c].at \in OnThreads => posting'[c].row \in Threads /\ thread[posting'[c].row] # "absent"
  /\ posting'[c].at \in OnReplies => posting'[c].row \in Answers /\ reply[posting'[c].row] # "absent"
  /\ posting[c].at \notin {"incThreads", "decThreads", "incReplies", "decReplies"}
  /\ posting'[c].at \notin {"incThreads", "decThreads", "incReplies", "decReplies"}
  /\ \A s \in subscribed' : s \in subscribed \/
       (\E t \in Threads, m \in Members : s = <<t, m>> /\ thread[t] \in {"live", "deleted"})
  /\ \/ requests' = requests /\ (posting'[c].at \in Counting => posting[c].at \in Counting)
     \/ requests' = requests + 1 /\ posting[c].at \notin Counting

\* Subscribing by hand counts nothing.
LEMMA SubscribeQuiet ==
  ASSUME ForumInv, NEW c \in Posters, For!Subscribe(c)
  PROVE  ForumQuiet(c)
<1>1. PICK t \in Threads, u \in Members :
        thread[t] = "live" /\ posting' = [posting EXCEPT ![c] = [at |-> "findSubscription", row |-> t, user |-> {u}]]
  BY DEF For!Subscribe, For!GoTo
<1>2. /\ posting[c] = For!Idle /\ requests < MaxRequests /\ requests' = requests + 1
      /\ UNCHANGED <<category, thread, inCategory, subscribed, reply, onThread, replyTo, threadsCount, repliesCount, miscounted>>
  BY DEF For!Subscribe, For!Start
<1> DEFINE w == [at |-> "findSubscription", row |-> t, user |-> {u}]
<1>3. w \in PostingRecords /\ w.at = "findSubscription" /\ w.row = t
  BY ForumAssumption DEF PostingRecords, OnThreads
<1>4. posting' = [posting EXCEPT ![c] = w]
  BY <1>1
<1> HIDE DEF w
<1>5. posting' \in [Posters -> PostingRecords] /\ posting'[c] = w /\ OthersPost(c)
  BY <1>3, <1>4, PostingMoves DEF ForumInv
<1>6. requests' \in 0..MaxRequests
  BY <1>2, ForumAssumption DEF ForumInv, ForumTypes
<1> QED BY <1>1, <1>2, <1>3, <1>5, <1>6, PostingIdle DEF ForumQuiet, Counting, OnThreads, OnReplies

\* Finding what a request is about counts nothing.
LEMMA StartsQuiet ==
  ASSUME ForumInv, NEW c \in Posters,
         For!FindDoomedThread(c) \/ For!FindLock(c) \/ For!FindThread(c) \/ For!FindReply(c)
  PROVE  ForumQuiet(c)
<1>1. /\ posting[c] = For!Idle /\ requests < MaxRequests /\ requests' = requests + 1
      /\ UNCHANGED <<category, thread, inCategory, subscribed, reply, onThread, replyTo, threadsCount, repliesCount, miscounted>>
  BY DEF For!FindDoomedThread, For!FindLock, For!FindThread, For!FindReply, For!Start
<1>2. PICK a \in {"deleteThread", "lock", "unlock", "insertReply", "deleteReply"}, i \in Nat :
        /\ posting' = [posting EXCEPT ![c] = [at |-> a, row |-> i, user |-> {}]]
        /\ a # "deleteReply" => i \in Threads /\ thread[i] = "live"
        /\ a = "deleteReply" => i \in Answers /\ reply[i] = "live"
  <2>1. CASE For!FindDoomedThread(c)
    BY <2>1, ForumAssumption DEF For!FindDoomedThread, For!GoTo
  <2>2. CASE For!FindLock(c)
    <3>1. PICK t \in Threads : thread[t] = "live" /\ For!GoTo(c, IF t \in locked THEN "unlock" ELSE "lock", t, {})
      BY <2>2 DEF For!FindLock
    <3>2. t \in Nat
      BY ForumAssumption
    <3>3. CASE t \in locked
      BY <3>1, <3>2, <3>3 DEF For!GoTo
    <3>4. CASE t \notin locked
      BY <3>1, <3>2, <3>4 DEF For!GoTo
    <3> QED BY <3>3, <3>4
  <2>3. CASE For!FindThread(c)
    BY <2>3, ForumAssumption DEF For!FindThread, For!GoTo
  <2>4. CASE For!FindReply(c)
    BY <2>4, ForumAssumption DEF For!FindReply, For!GoTo
  <2> QED BY <2>1, <2>2, <2>3, <2>4
<1> DEFINE w == [at |-> a, row |-> i, user |-> {}]
<1>3. w \in PostingRecords /\ w.at = a /\ w.row = i
  BY DEF PostingRecords, OnThreads, OnReplies
<1>4. posting' = [posting EXCEPT ![c] = w]
  BY <1>2
<1> HIDE DEF w
<1>5. posting' \in [Posters -> PostingRecords] /\ posting'[c] = w /\ OthersPost(c)
  BY <1>3, <1>4, PostingMoves DEF ForumInv
<1>6. requests' \in 0..MaxRequests
  BY <1>1, ForumAssumption DEF ForumInv, ForumTypes
<1> QED BY <1>1, <1>2, <1>3, <1>5, <1>6, PostingIdle DEF ForumQuiet, Counting, OnThreads, OnReplies

\* Looking for a subscription counts nothing.
LEMMA FindSubscriptionQuiet ==
  ASSUME ForumInv, NEW c \in Posters, For!FindSubscription(c)
  PROVE  ForumQuiet(c)
<1>1. /\ posting[c].at = "findSubscription" /\ requests' = requests
      /\ UNCHANGED <<category, thread, inCategory, subscribed, reply, onThread, replyTo, threadsCount, repliesCount, miscounted>>
  BY DEF For!FindSubscription, For!At
<1>2. PICK w \in PostingRecords :
        /\ posting' = [posting EXCEPT ![c] = w]
        /\ w.at \in {"idle", "subscribe", "unsubscribe"}
        /\ w.at # "idle" => w.row \in Threads /\ thread[w.row] # "absent"
  <2>1. CASE thread[posting[c].row] # "live"
    BY <2>1, PostingIdle DEF For!FindSubscription, For!End
  <2>2. CASE thread[posting[c].row] = "live"
    <3>1. PICK a \in {"subscribe", "unsubscribe"} :
            posting' = [posting EXCEPT ![c] = [at |-> a, row |-> posting[c].row, user |-> posting[c].user]]
      BY <2>2 DEF For!FindSubscription, For!GoTo
    <3> DEFINE w == [at |-> a, row |-> posting[c].row, user |-> posting[c].user]
    <3>2. w \in PostingRecords /\ w.at = a /\ w.row = posting[c].row
      BY PostingOf DEF ForumInv, PostingRecords, OnThreads
    <3>3. posting[c].row \in Threads
      BY <1>1 DEF ForumInv, ForumRows, OnThreads
    <3> HIDE DEF w
    <3>4. posting' = [posting EXCEPT ![c] = w]
      BY <3>1 DEF w
    <3> QED BY <2>2, <3>2, <3>3, <3>4
  <2> QED BY <2>1, <2>2
<1>3. posting' \in [Posters -> PostingRecords] /\ posting'[c] = w /\ OthersPost(c)
  BY <1>2, PostingMoves DEF ForumInv
<1> QED BY <1>1, <1>2, <1>3 DEF ForumQuiet, ForumInv, ForumTypes, Counting, OnThreads, OnReplies

\* Writing a subscription or a lock counts nothing.
LEMMA WriteQuiet ==
  ASSUME ForumInv, NEW c \in Posters, For!WriteSubscription(c) \/ For!WriteLock(c)
  PROVE  ForumQuiet(c)
<1>1. /\ posting[c].at \in {"subscribe", "unsubscribe", "lock", "unlock"} /\ requests' = requests
      /\ UNCHANGED <<category, thread, inCategory, reply, onThread, replyTo, threadsCount, repliesCount, miscounted>>
      /\ posting' = [posting EXCEPT ![c] = For!Idle]
  BY DEF For!WriteSubscription, For!WriteLock, For!At, For!End
<1>2. posting' \in [Posters -> PostingRecords] /\ posting'[c] = For!Idle /\ OthersPost(c)
  BY <1>1, PostingIdle, PostingMoves DEF ForumInv
<1>3. \A s \in subscribed' : s \in subscribed \/
        (\E t \in Threads, m \in Members : s = <<t, m>> /\ thread[t] \in {"live", "deleted"})
  <2>1. CASE subscribed' \subseteq subscribed
    BY <2>1
  <2>2. CASE For!WriteSubscription(c) /\ posting[c].at = "subscribe" /\ thread[posting[c].row] # "removed"
    <3>1. subscribed' = subscribed \union ({posting[c].row} \X posting[c].user)
      BY <2>2 DEF For!WriteSubscription, For!At
    <3>2. posting[c].row \in Threads /\ thread[posting[c].row] # "absent" /\ posting[c].user \in SUBSET Members
      BY <2>2, PostingOf DEF ForumInv, ForumRows, OnThreads
    <3>3. thread[posting[c].row] \in {"live", "deleted"}
      BY <2>2, <3>2 DEF ForumInv, ForumTypes, RowStates
    <3> QED BY <3>1, <3>2, <3>3
  <2> QED BY <1>1, <2>1, <2>2 DEF For!WriteSubscription, For!WriteLock, For!At
<1> QED BY <1>1, <1>2, <1>3, PostingIdle DEF ForumQuiet, ForumInv, ForumTypes, Counting, OnThreads, OnReplies

\* What a step adds to a counter beyond its rows and what is owed.
NetIn(c, t, k) == threadsCount[k] + GiveN(c, k) - TakeN(c, k) - LiveInN(t, k)
NetOn(c, r, t) == repliesCount[t] + GiveN(c, t) - TakeN(c, t) - LiveOnN(r, t)

\* The shares of one request or row are 0 or 1.
LEMMA Indicators ==
  \A c, x, y : /\ GiveN(c, x) \in {0, 1} /\ TakeN(c, x) \in {0, 1} /\ LiveInN(y, x) \in {0, 1}
               /\ LiveOnN(y, x) \in {0, 1} /\ BusyN(c) \in {0, 1}
               /\ GiveN(c, x)' \in {0, 1} /\ TakeN(c, x)' \in {0, 1} /\ LiveInN(y, x)' \in {0, 1}
               /\ LiveOnN(y, x)' \in {0, 1} /\ BusyN(c)' \in {0, 1}
BY DEF GiveN, TakeN, LiveInN, LiveOnN, BusyN

\* What the other requests owe stays.
LEMMA OthersOwe ==
  ASSUME ForumRows, NEW c \in Posters, OthersPost(c), inCategory' = inCategory,
         \A r \in Answers : reply[r] # "absent" => onThread'[r] = onThread[r], NEW x
  PROVE  \A d \in Posters \ {c} : (Lowers(d, x)' <=> Lowers(d, x)) /\ (Raises(d, x)' <=> Raises(d, x))
<1> TAKE d \in Posters \ {c}
<1>1. posting'[d] = posting[d]
  BY DEF OthersPost
<1>2. posting[d].at = "decReplies" => onThread'[posting[d].row] = onThread[posting[d].row]
  BY DEF ForumRows, OnReplies
<1> QED BY <1>1, <1>2 DEF Lowers, Raises

\* One request, one thread and one reply change: the rest stays weighed.
LEMMA ForumCounting ==
  ASSUME ForumInv, ForumTypes', NEW c \in Posters, OthersPost(c), inCategory' = inCategory,
         \A r \in Answers : reply[r] # "absent" => onThread'[r] = onThread[r],
         category' \subseteq category, miscounted \subseteq miscounted', NEW t, NEW r,
         \A k \in category' \ miscounted', s \in Threads \ {t} :
           inCategory[s] = k => (thread'[s] = "live" <=> thread[s] = "live"),
         \A s \in Threads : thread[s] = "removed" => thread'[s] = "removed",
         \A s \in Answers \ {r} : onThread'[s] = onThread[s]
             /\ (thread'[onThread[s]] # "removed" =>
                   onThread[s] \in miscounted' \/ (reply'[s] = "live" <=> reply[s] = "live")),
         \A k \in category' \ miscounted' : NetIn(c, t, k)' = NetIn(c, t, k),
         \A s \in Threads \ miscounted' : thread'[s] # "removed" => NetOn(c, r, s)' = NetOn(c, r, s)
  PROVE  ForumBalance'
<1>1. ASSUME NEW k \in category' \ miscounted'
      PROVE  threadsCount'[k] + Cardinality(Giving(k)') = Cardinality(LiveIn(k)') + Cardinality(Taking(k)')
  <2>1. threadsCount[k] + Cardinality(Giving(k)) = Cardinality(LiveIn(k)) + Cardinality(Taking(k))
    BY DEF ForumInv, ForumBalance
  <2>2. /\ Cardinality(Giving(k)) \in Nat /\ Cardinality(Giving(k)') \in Nat
        /\ Cardinality(Taking(k)) \in Nat /\ Cardinality(Taking(k)') \in Nat
        /\ Cardinality(Giving(k)') - GiveN(c, k)' = Cardinality(Giving(k)) - GiveN(c, k)
        /\ Cardinality(Taking(k)') - TakeN(c, k)' = Cardinality(Taking(k)) - TakeN(c, k)
    BY OthersOwe, RequestLedger DEF ForumInv
  <2>3. \A s \in Threads \ {t} :
          (thread'[s] = "live" /\ inCategory'[s] = k) <=> (thread[s] = "live" /\ inCategory[s] = k)
    OBVIOUS
  <2>4. /\ Cardinality(LiveIn(k)) \in Nat /\ Cardinality(LiveIn(k)') \in Nat
        /\ Cardinality(LiveIn(k)') - LiveInN(t, k)' = Cardinality(LiveIn(k)) - LiveInN(t, k)
    BY <2>3, ThreadLedger
  <2>5. threadsCount[k] \in Int /\ threadsCount'[k] \in Int
    BY DEF ForumInv, ForumTypes
  <2>6. threadsCount'[k] + GiveN(c, k)' - TakeN(c, k)' - LiveInN(t, k)' = threadsCount[k] + GiveN(c, k) - TakeN(c, k) - LiveInN(t, k)
    BY DEF NetIn
  <2>7. /\ GiveN(c, k) \in {0, 1} /\ TakeN(c, k) \in {0, 1} /\ LiveInN(t, k) \in {0, 1}
        /\ GiveN(c, k)' \in {0, 1} /\ TakeN(c, k)' \in {0, 1} /\ LiveInN(t, k)' \in {0, 1}
    BY Indicators
  <2> DEFINE a == threadsCount[k]
             b == threadsCount'[k]
             g == Cardinality(Giving(k))
             h == Cardinality(Giving(k)')
             l == Cardinality(LiveIn(k))
             m == Cardinality(LiveIn(k)')
             u == Cardinality(Taking(k))
             w == Cardinality(Taking(k)')
             g1 == GiveN(c, k)
             h1 == GiveN(c, k)'
             l1 == LiveInN(t, k)
             m1 == LiveInN(t, k)'
             u1 == TakeN(c, k)
             w1 == TakeN(c, k)'
  <2>8. /\ a \in Int /\ b \in Int /\ g \in Int /\ h \in Int /\ l \in Int /\ m \in Int /\ u \in Int /\ w \in Int
        /\ g1 \in Int /\ h1 \in Int /\ l1 \in Int /\ m1 \in Int /\ u1 \in Int /\ w1 \in Int
    BY <2>2, <2>4, <2>5, <2>7
  <2>9. a + g = l + u /\ h - h1 = g - g1 /\ w - w1 = u - u1 /\ m - m1 = l - l1 /\ b + h1 - w1 - m1 = a + g1 - u1 - l1
    BY <2>1, <2>2, <2>4, <2>6
  <2> HIDE DEF a, b, g, h, l, m, u, w, g1, h1, l1, m1, u1, w1
  <2>10. b + h = m + w
    BY <2>8, <2>9
  <2> QED BY <2>10 DEF b, h, m, w
<1>2. ASSUME NEW s \in Threads \ miscounted', thread'[s] # "removed"
      PROVE  repliesCount'[s] + Cardinality(Giving(s)') = Cardinality(LiveOn(s)') + Cardinality(Taking(s)')
  <2>1. repliesCount[s] + Cardinality(Giving(s)) = Cardinality(LiveOn(s)) + Cardinality(Taking(s))
    BY <1>2 DEF ForumInv, ForumBalance
  <2>2. /\ Cardinality(Giving(s)) \in Nat /\ Cardinality(Giving(s)') \in Nat
        /\ Cardinality(Taking(s)) \in Nat /\ Cardinality(Taking(s)') \in Nat
        /\ Cardinality(Giving(s)') - GiveN(c, s)' = Cardinality(Giving(s)) - GiveN(c, s)
        /\ Cardinality(Taking(s)') - TakeN(c, s)' = Cardinality(Taking(s)) - TakeN(c, s)
    BY OthersOwe, RequestLedger DEF ForumInv
  <2>3. \A a \in Answers \ {r} :
          (reply'[a] = "live" /\ onThread'[a] = s) <=> (reply[a] = "live" /\ onThread[a] = s)
    BY <1>2
  <2>4. /\ Cardinality(LiveOn(s)) \in Nat /\ Cardinality(LiveOn(s)') \in Nat
        /\ Cardinality(LiveOn(s)') - LiveOnN(r, s)' = Cardinality(LiveOn(s)) - LiveOnN(r, s)
    BY <2>3, ReplyLedger
  <2>5. repliesCount[s] \in Int /\ repliesCount'[s] \in Int
    BY DEF ForumInv, ForumTypes
  <2>6. repliesCount'[s] + GiveN(c, s)' - TakeN(c, s)' - LiveOnN(r, s)' = repliesCount[s] + GiveN(c, s) - TakeN(c, s) - LiveOnN(r, s)
    BY <1>2 DEF NetOn
  <2>7. /\ GiveN(c, s) \in {0, 1} /\ TakeN(c, s) \in {0, 1} /\ LiveOnN(r, s) \in {0, 1}
        /\ GiveN(c, s)' \in {0, 1} /\ TakeN(c, s)' \in {0, 1} /\ LiveOnN(r, s)' \in {0, 1}
    BY Indicators
  <2> DEFINE a == repliesCount[s]
             b == repliesCount'[s]
             g == Cardinality(Giving(s))
             h == Cardinality(Giving(s)')
             l == Cardinality(LiveOn(s))
             m == Cardinality(LiveOn(s)')
             u == Cardinality(Taking(s))
             w == Cardinality(Taking(s)')
             g1 == GiveN(c, s)
             h1 == GiveN(c, s)'
             l1 == LiveOnN(r, s)
             m1 == LiveOnN(r, s)'
             u1 == TakeN(c, s)
             w1 == TakeN(c, s)'
  <2>8. /\ a \in Int /\ b \in Int /\ g \in Int /\ h \in Int /\ l \in Int /\ m \in Int /\ u \in Int /\ w \in Int
        /\ g1 \in Int /\ h1 \in Int /\ l1 \in Int /\ m1 \in Int /\ u1 \in Int /\ w1 \in Int
    BY <2>2, <2>4, <2>5, <2>7
  <2>9. a + g = l + u /\ h - h1 = g - g1 /\ w - w1 = u - u1 /\ m - m1 = l - l1 /\ b + h1 - w1 - m1 = a + g1 - u1 - l1
    BY <2>1, <2>2, <2>4, <2>6
  <2> HIDE DEF a, b, g, h, l, m, u, w, g1, h1, l1, m1, u1, w1
  <2>10. b + h = m + w
    BY <2>8, <2>9
  <2> QED BY <2>10 DEF b, h, m, w
<1> QED BY <1>1, <1>2 DEF ForumBalance

\* A counter is moved by one by a request that was to count and ends its counting,
\* or by none, and no request counts without having been a request.
LEMMA ForumBounding ==
  ASSUME ForumInv, ForumTypes', NEW c \in Posters, OthersPost(c),
         \/ requests' = requests /\ (posting'[c].at \in Counting => posting[c].at \in Counting)
         \/ requests' = requests + 1 /\ posting[c].at \notin Counting,
         \/ threadsCount' = threadsCount /\ repliesCount' = repliesCount
         \/ /\ posting[c].at \in Counting /\ posting'[c].at \notin Counting /\ requests' = requests
            /\ \A x \in Categories : threadsCount'[x] \in {threadsCount[x], threadsCount[x] + 1, threadsCount[x] - 1}
            /\ \A x \in Threads : repliesCount'[x] \in {repliesCount[x], repliesCount[x] + 1, repliesCount[x] - 1}
  PROVE  ForumBounds'
<1> DEFINE b == Cardinality(Busy)
           d == Cardinality(Busy')
           over == requests - b
           next == requests' - d
<1>1. b \in Nat /\ d \in Nat /\ d - BusyN(c)' = b - BusyN(c)
  BY BusyLedger
<1>2. /\ over \in Nat
      /\ \A x \in Categories : -over <= threadsCount[x] /\ threadsCount[x] <= over /\ threadsCount[x] \in Int
      /\ \A x \in Threads : -over <= repliesCount[x] /\ repliesCount[x] <= over /\ repliesCount[x] \in Int
  BY DEF ForumInv, ForumBounds, ForumTypes
<1>3. requests \in Nat /\ requests' \in Nat
  BY ForumAssumption DEF ForumInv, ForumTypes
<1>4. BusyN(c) = (IF posting[c].at \in Counting THEN 1 ELSE 0) /\ BusyN(c)' = (IF posting'[c].at \in Counting THEN 1 ELSE 0)
  BY DEF BusyN
<1> HIDE DEF b, d
<1>5. next \in Nat /\ over <= next
  BY <1>1, <1>2, <1>3, <1>4
<1>6. posting[c].at \in Counting /\ posting'[c].at \notin Counting /\ requests' = requests => over + 1 <= next
  BY <1>1, <1>2, <1>3, <1>4
<1> HIDE DEF over, next
<1>7. \A x \in Categories : -next <= threadsCount'[x] /\ threadsCount'[x] <= next
  BY <1>2, <1>5, <1>6
<1>8. \A x \in Threads : -next <= repliesCount'[x] /\ repliesCount'[x] <= next
  BY <1>2, <1>5, <1>6
<1> QED BY <1>5, <1>7, <1>8 DEF ForumBounds, next, d

\* The steps that leave rows and counters alone.
LEMMA QuietStep ==
  ASSUME ForumInv, NEW c \in Posters, ForumQuiet(c)
  PROVE  ForumInv'
<1>1. ForumTypes'
  BY DEF ForumQuiet, ForumInv, ForumTypes
<1>2. ForumRows'
  BY DEF ForumQuiet, ForumInv, ForumRows, OthersPost
<1>3. ForumBalance'
  <2>1. \A x, y : /\ GiveN(c, x)' = GiveN(c, x) /\ TakeN(c, x)' = TakeN(c, x)
                  /\ LiveInN(y, x)' = LiveInN(y, x) /\ LiveOnN(y, x)' = LiveOnN(y, x)
    BY DEF ForumQuiet, GiveN, TakeN, Raises, Lowers, LiveInN, LiveOnN, LiveIn, LiveOn
  <2>2. \A x, y : NetIn(c, y, x)' = NetIn(c, y, x) /\ NetOn(c, y, x)' = NetOn(c, y, x)
    BY <2>1 DEF ForumQuiet, NetIn, NetOn
  <2>3. /\ OthersPost(c) /\ UNCHANGED <<category, thread, inCategory, reply, onThread, replyTo, miscounted>>
    BY DEF ForumQuiet
  <2> QED BY <1>1, <2>2, <2>3, ForumCounting
<1>4. ForumBounds'
  <2>1. /\ OthersPost(c) /\ UNCHANGED <<threadsCount, repliesCount>>
        /\ \/ requests' = requests /\ (posting'[c].at \in Counting => posting[c].at \in Counting)
           \/ requests' = requests + 1 /\ posting[c].at \notin Counting
    BY DEF ForumQuiet
  <2> QED BY <1>1, <2>1, ForumBounding
<1> QED BY <1>1, <1>2, <1>3, <1>4 DEF ForumInv

\* No category is a thread.
LEMMA CategoriesApart ==
  /\ \A k \in Categories, t \in Threads : k # t
  /\ \A t \in Threads : t \in Nat
BY ForumAssumption

\* A thread is inserted, and owed to its category until it is counted.
LEMMA InsertThreadStep ==
  ASSUME ForumInv, NEW c \in Posters, For!InsertThread(c)
  PROVE  ForumInv'
<1>1. PICK t \in Threads :
        /\ thread[t] = "absent" /\ inCategory[t] \in category
        /\ thread' = [thread EXCEPT ![t] = "live"]
        /\ posting' = [posting EXCEPT ![c] = [at |-> "incThreads", row |-> t, user |-> {}]]
  BY DEF For!InsertThread, For!Next1, For!GoTo
<1>2. /\ posting[c].at = "idle" /\ requests < MaxRequests /\ requests' = requests + 1
      /\ UNCHANGED <<category, inCategory, subscribed, reply, onThread, replyTo, threadsCount, repliesCount, miscounted>>
  BY PostingIdle DEF For!InsertThread, For!Start
<1> DEFINE w == [at |-> "incThreads", row |-> t, user |-> {}]
<1>3. w \in PostingRecords /\ w.at = "incThreads" /\ w.row = t
  BY CategoriesApart DEF PostingRecords, OnThreads
<1>4. posting' = [posting EXCEPT ![c] = w]
  BY <1>1
<1> HIDE DEF w
<1>5. posting' \in [Posters -> PostingRecords] /\ posting'[c] = w /\ OthersPost(c)
  BY <1>3, <1>4, PostingMoves DEF ForumInv
<1>6. \A s \in Threads : thread'[s] = IF s = t THEN "live" ELSE thread[s]
  BY <1>1 DEF ForumInv, ForumTypes
<1>7. ForumTypes'
  BY <1>1, <1>2, <1>5, ForumAssumption DEF ForumInv, ForumTypes, RowStates
<1>8. ForumRows'
  BY <1>1, <1>2, <1>3, <1>5, <1>6 DEF ForumInv, ForumRows, OthersPost, OnThreads, OnReplies, ForumTypes
<1>9. \A k \in category' \ miscounted' : NetIn(c, t, k)' = NetIn(c, t, k)
  <2> TAKE k \in category' \ miscounted'
  <2>1. GiveN(c, k) = 0 /\ TakeN(c, k) = 0 /\ TakeN(c, k)' = 0 /\ LiveInN(t, k) = 0
    BY <1>1, <1>2, <1>3, <1>5 DEF GiveN, TakeN, Raises, Lowers, LiveInN, LiveIn
  <2>2. GiveN(c, k)' = LiveInN(t, k)'
    <3>1. k # t
      BY <1>2, CategoriesApart DEF ForumInv, ForumTypes
    <3> QED BY <1>2, <1>3, <1>5, <1>6, <3>1 DEF GiveN, Raises, LiveInN, LiveIn
  <2>3. threadsCount'[k] = threadsCount[k] /\ threadsCount[k] \in Int
    BY <1>2 DEF ForumInv, ForumTypes
  <2> QED BY <2>1, <2>2, <2>3, Indicators DEF NetIn
<1>10. \A s \in Threads : NetOn(c, 0, s)' = NetOn(c, 0, s)
  <2> TAKE s \in Threads
  <2>1. GiveN(c, s) = 0 /\ TakeN(c, s) = 0 /\ TakeN(c, s)' = 0 /\ LiveOnN(0, s)' = LiveOnN(0, s)
    BY <1>2, <1>3, <1>5 DEF GiveN, TakeN, Raises, Lowers, LiveOnN, LiveOn
  <2>2. GiveN(c, s)' = 0
    <3>1. inCategory[t] # s
      BY CategoriesApart DEF ForumInv, ForumTypes
    <3> QED BY <1>2, <1>3, <1>5, <3>1 DEF GiveN, Raises
  <2> QED BY <1>2, <2>1, <2>2 DEF NetOn
<1>11. ForumBalance'
  BY <1>1, <1>2, <1>5, <1>6, <1>7, <1>9, <1>10, ForumCounting
<1>12. ForumBounds'
  BY <1>2, <1>5, <1>7, ForumBounding DEF Counting
<1> QED BY <1>7, <1>8, <1>11, <1>12 DEF ForumInv

\* The category is told of a thread it was owed.
LEMMA IncThreadsStep ==
  ASSUME ForumInv, NEW c \in Posters, For!IncThreads(c)
  PROVE  ForumInv'
<1>0. PICK t, h : t = posting[c].row /\ h = inCategory[t]
  OBVIOUS
<1>1. /\ posting[c].at = "incThreads" /\ requests' = requests
      /\ threadsCount' = IF h \in category THEN [threadsCount EXCEPT ![h] = @ + 1] ELSE threadsCount
      /\ UNCHANGED <<category, thread, inCategory, subscribed, reply, onThread, replyTo, repliesCount, miscounted>>
  BY <1>0 DEF For!IncThreads, For!At
<1>2. t \in Threads /\ thread[t] # "absent" /\ h \in Categories
  BY <1>0, <1>1 DEF ForumInv, ForumRows, ForumTypes, OnThreads
<1>3. PICK u \in Members : posting' = [posting EXCEPT ![c] = [at |-> "findSubscription", row |-> t, user |-> {u}]]
  BY <1>0 DEF For!IncThreads, For!GoTo
<1> DEFINE w == [at |-> "findSubscription", row |-> t, user |-> {u}]
<1>4. w \in PostingRecords /\ w.at = "findSubscription" /\ w.row = t
  BY <1>2, CategoriesApart DEF PostingRecords, OnThreads
<1>5. posting' = [posting EXCEPT ![c] = w]
  BY <1>3
<1> HIDE DEF w
<1>6. posting' \in [Posters -> PostingRecords] /\ posting'[c] = w /\ OthersPost(c)
  BY <1>4, <1>5, PostingMoves DEF ForumInv
<1>7. /\ threadsCount' \in [Categories -> Int]
      /\ \A k \in Categories : threadsCount'[k] = IF k = h /\ h \in category THEN threadsCount[k] + 1 ELSE threadsCount[k]
  BY <1>1, <1>2 DEF ForumInv, ForumTypes
<1>8. ForumTypes'
  BY <1>1, <1>6, <1>7 DEF ForumInv, ForumTypes
<1>9. ForumRows'
  BY <1>1, <1>2, <1>4, <1>6 DEF ForumInv, ForumRows, OthersPost, OnThreads, OnReplies
<1>10. \A k \in category' \ miscounted' : NetIn(c, t, k)' = NetIn(c, t, k)
  <2> TAKE k \in category' \ miscounted'
  <2>1. /\ GiveN(c, k) = (IF k = h THEN 1 ELSE 0) /\ TakeN(c, k) = 0 /\ TakeN(c, k)' = 0 /\ GiveN(c, k)' = 0
        /\ LiveInN(t, k)' = LiveInN(t, k)
    BY <1>0, <1>1, <1>4, <1>6 DEF GiveN, TakeN, Raises, Lowers, LiveInN, LiveIn
  <2>2. threadsCount'[k] = (IF k = h THEN threadsCount[k] + 1 ELSE threadsCount[k]) /\ threadsCount[k] \in Int
    BY <1>1, <1>7 DEF ForumInv, ForumTypes
  <2> QED BY <2>1, <2>2, Indicators DEF NetIn
<1>11. \A s \in Threads : NetOn(c, 0, s)' = NetOn(c, 0, s)
  <2> TAKE s \in Threads
  <2>1. h # s
    BY <1>2, CategoriesApart
  <2>2. /\ GiveN(c, s) = 0 /\ TakeN(c, s) = 0 /\ TakeN(c, s)' = 0 /\ GiveN(c, s)' = 0
        /\ LiveOnN(0, s)' = LiveOnN(0, s)
    BY <1>0, <1>1, <1>4, <1>6, <2>1 DEF GiveN, TakeN, Raises, Lowers, LiveOnN, LiveOn
  <2> QED BY <1>1, <2>2 DEF NetOn
<1>12. ForumBalance'
  BY <1>1, <1>6, <1>8, <1>10, <1>11, ForumCounting
<1>13. ForumBounds'
  <2>1. /\ \A x \in Categories : threadsCount'[x] \in {threadsCount[x], threadsCount[x] + 1, threadsCount[x] - 1}
        /\ \A x \in Threads : repliesCount'[x] \in {repliesCount[x], repliesCount[x] + 1, repliesCount[x] - 1}
    BY <1>1, <1>7
  <2>2. posting[c].at \in Counting /\ posting'[c].at \notin Counting
    BY <1>1, <1>4, <1>6 DEF Counting
  <2> QED BY <1>1, <1>6, <1>8, <2>1, <2>2, ForumBounding
<1> QED BY <1>8, <1>9, <1>12, <1>13 DEF ForumInv

\* A thread is deleted, and its category is over by it until it is told.
LEMMA DeleteThreadStep ==
  ASSUME ForumInv, NEW c \in Posters, For!DeleteThread(c)
  PROVE  ForumInv'
<1>0. PICK t, h : t = posting[c].row /\ h = inCategory[t]
  OBVIOUS
<1> DEFINE w == [at |-> "decThreads", row |-> t, user |-> {}]
<1>1. /\ posting[c].at = "deleteThread" /\ requests' = requests /\ posting' = [posting EXCEPT ![c] = w]
      /\ IF thread[t] = "live"
         THEN thread' = [thread EXCEPT ![t] = "deleted"] /\ miscounted' = miscounted
         ELSE thread' = thread /\ miscounted' = miscounted \union {h}
      /\ UNCHANGED <<category, inCategory, subscribed, reply, onThread, replyTo, threadsCount, repliesCount>>
  BY <1>0 DEF For!DeleteThread, For!At, For!GoTo
<1>2. t \in Threads /\ thread[t] # "absent" /\ h \in Categories
  BY <1>0, <1>1 DEF ForumInv, ForumRows, ForumTypes, OnThreads
<1>3. w \in PostingRecords /\ w.at = "decThreads" /\ w.row = t
  BY <1>2, CategoriesApart DEF PostingRecords, OnThreads
<1> HIDE DEF w
<1>4. posting' \in [Posters -> PostingRecords] /\ posting'[c] = w /\ OthersPost(c)
  BY <1>1, <1>3, PostingMoves DEF ForumInv
<1>5. /\ thread' \in [Threads -> RowStates]
      /\ \A s \in Threads : thread'[s] = IF s = t /\ thread[t] = "live" THEN "deleted" ELSE thread[s]
  BY <1>1, <1>2 DEF ForumInv, ForumTypes, RowStates
<1>6. ForumTypes'
  BY <1>1, <1>4, <1>5 DEF ForumInv, ForumTypes
<1>7. ForumRows'
  BY <1>1, <1>2, <1>3, <1>4, <1>5 DEF ForumInv, ForumRows, ForumTypes, OthersPost, OnThreads, OnReplies
<1>8. \A k \in category' \ miscounted' : NetIn(c, t, k)' = NetIn(c, t, k)
  <2> TAKE k \in category' \ miscounted'
  <2>1. GiveN(c, k) = 0 /\ TakeN(c, k) = 0 /\ GiveN(c, k)' = 0 /\ TakeN(c, k)' = (IF k = h THEN 1 ELSE 0)
    BY <1>0, <1>1, <1>3, <1>4 DEF GiveN, TakeN, Raises, Lowers
  <2>2. LiveInN(t, k)' = 0 /\ LiveInN(t, k) = (IF k = h THEN 1 ELSE 0)
    BY <1>0, <1>1, <1>2, <1>5 DEF LiveInN, LiveIn
  <2>3. threadsCount'[k] = threadsCount[k] /\ threadsCount[k] \in Int
    BY <1>1 DEF ForumInv, ForumTypes
  <2> QED BY <2>1, <2>2, <2>3 DEF NetIn
<1>9. \A s \in Threads : NetOn(c, 0, s)' = NetOn(c, 0, s)
  <2> TAKE s \in Threads
  <2>1. h # s
    BY <1>2, CategoriesApart
  <2>2. /\ GiveN(c, s) = 0 /\ TakeN(c, s) = 0 /\ TakeN(c, s)' = 0 /\ GiveN(c, s)' = 0
        /\ LiveOnN(0, s)' = LiveOnN(0, s)
    BY <1>0, <1>1, <1>3, <1>4, <2>1 DEF GiveN, TakeN, Raises, Lowers, LiveOnN, LiveOn
  <2> QED BY <1>1, <2>2 DEF NetOn
<1>10. ForumBalance'
  <2>1. miscounted \subseteq miscounted' /\ \A s \in Threads : thread[s] = "removed" => thread'[s] = "removed"
    BY <1>1, <1>5
  <2>2. \A s \in Threads \ {t} : thread'[s] = thread[s]
    BY <1>5
  <2> QED BY <1>1, <1>4, <1>6, <1>8, <1>9, <2>1, <2>2, ForumCounting
<1>11. ForumBounds'
  BY <1>1, <1>4, <1>6, ForumBounding DEF Counting
<1> QED BY <1>6, <1>7, <1>10, <1>11 DEF ForumInv

\* The category is told of a thread that has gone.
LEMMA DecThreadsStep ==
  ASSUME ForumInv, NEW c \in Posters, For!DecThreads(c)
  PROVE  ForumInv'
<1>0. PICK t, h : t = posting[c].row /\ h = inCategory[t]
  OBVIOUS
<1>1. /\ posting[c].at = "decThreads" /\ requests' = requests /\ posting' = [posting EXCEPT ![c] = For!Idle]
      /\ threadsCount' = IF h \in category THEN [threadsCount EXCEPT ![h] = @ - 1] ELSE threadsCount
      /\ UNCHANGED <<category, thread, inCategory, subscribed, reply, onThread, replyTo, repliesCount, miscounted>>
  BY <1>0 DEF For!DecThreads, For!At, For!End
<1>2. t \in Threads /\ h \in Categories
  BY <1>0, <1>1 DEF ForumInv, ForumRows, ForumTypes, OnThreads
<1>3. posting' \in [Posters -> PostingRecords] /\ posting'[c] = For!Idle /\ posting'[c].at = "idle" /\ OthersPost(c)
  BY <1>1, PostingIdle, PostingMoves DEF ForumInv
<1>4. /\ threadsCount' \in [Categories -> Int]
      /\ \A k \in Categories : threadsCount'[k] = IF k = h /\ h \in category THEN threadsCount[k] - 1 ELSE threadsCount[k]
  BY <1>1, <1>2 DEF ForumInv, ForumTypes
<1>5. ForumTypes'
  BY <1>1, <1>3, <1>4 DEF ForumInv, ForumTypes
<1>6. ForumRows'
  BY <1>1, <1>3 DEF ForumInv, ForumRows, OthersPost, OnThreads, OnReplies
<1>7. \A k \in category' \ miscounted' : NetIn(c, t, k)' = NetIn(c, t, k)
  <2> TAKE k \in category' \ miscounted'
  <2>1. /\ GiveN(c, k) = 0 /\ TakeN(c, k) = (IF k = h THEN 1 ELSE 0) /\ TakeN(c, k)' = 0 /\ GiveN(c, k)' = 0
        /\ LiveInN(t, k)' = LiveInN(t, k)
    BY <1>0, <1>1, <1>3 DEF GiveN, TakeN, Raises, Lowers, LiveInN, LiveIn
  <2>2. threadsCount'[k] = (IF k = h THEN threadsCount[k] - 1 ELSE threadsCount[k]) /\ threadsCount[k] \in Int
    BY <1>1, <1>4 DEF ForumInv, ForumTypes
  <2> QED BY <2>1, <2>2, Indicators DEF NetIn
<1>8. \A s \in Threads : NetOn(c, 0, s)' = NetOn(c, 0, s)
  <2> TAKE s \in Threads
  <2>1. h # s
    BY <1>2, CategoriesApart
  <2>2. /\ GiveN(c, s) = 0 /\ TakeN(c, s) = 0 /\ TakeN(c, s)' = 0 /\ GiveN(c, s)' = 0
        /\ LiveOnN(0, s)' = LiveOnN(0, s)
    BY <1>0, <1>1, <1>3, <2>1 DEF GiveN, TakeN, Raises, Lowers, LiveOnN, LiveOn
  <2> QED BY <1>1, <2>2 DEF NetOn
<1>9. ForumBalance'
  BY <1>1, <1>3, <1>5, <1>7, <1>8, ForumCounting
<1>10. ForumBounds'
  <2>1. /\ \A x \in Categories : threadsCount'[x] \in {threadsCount[x], threadsCount[x] + 1, threadsCount[x] - 1}
        /\ \A x \in Threads : repliesCount'[x] \in {repliesCount[x], repliesCount[x] + 1, repliesCount[x] - 1}
    BY <1>1, <1>4
  <2>2. posting[c].at \in Counting /\ posting'[c].at \notin Counting
    BY <1>1, <1>3 DEF Counting
  <2> QED BY <1>1, <1>3, <1>5, <2>1, <2>2, ForumBounding
<1> QED BY <1>5, <1>6, <1>9, <1>10 DEF ForumInv

\* A category goes with its threads and their replies, and these with the replies to
\* them; a thread elsewhere that loses one so is miscounted.
LEMMA DeleteCategoryStep ==
  ASSUME ForumInv, NEW c \in Posters, For!DeleteCategory(c)
  PROVE  ForumInv'
<1>1. PICK h \in category, lost \in SUBSET Threads, gone \in SUBSET Answers :
        /\ lost = {t \in Threads : inCategory[t] = h /\ thread[t] # "absent"}
        /\ gone = For!WithReplies({r \in Answers : reply[r] # "absent" /\ onThread[r] \in lost})
        /\ category' = category \ {h}
        /\ thread' = [t \in Threads |-> IF t \in lost THEN "removed" ELSE thread[t]]
        /\ reply' = [r \in Answers |-> IF r \in gone THEN "removed" ELSE reply[r]]
        /\ subscribed' = {s \in subscribed : s[1] \notin lost}
        /\ miscounted' = miscounted \union ({onThread[r] : r \in {a \in gone : reply[a] = "live"}} \ lost)
  BY DEF For!DeleteCategory, For!WithReplies
<1>2. /\ posting[c].at = "idle" /\ requests < MaxRequests /\ requests' = requests + 1
      /\ UNCHANGED <<inCategory, onThread, replyTo, threadsCount, repliesCount, posting>>
  BY PostingIdle DEF For!DeleteCategory, For!Start
<1>3. OthersPost(c)
  BY <1>2 DEF OthersPost
<1>4. /\ \A t \in Threads : thread'[t] = IF inCategory[t] = h /\ thread[t] # "absent" THEN "removed" ELSE thread[t]
      /\ \A r \in Answers : reply'[r] = IF r \in gone THEN "removed" ELSE reply[r]
  BY <1>1
<1> DEFINE base == {r \in Answers : reply[r] # "absent" /\ onThread[r] \in lost}
<1>13. /\ \A r \in base : r \in gone
       /\ \A r \in Answers : replyTo[r] \in gone => r \in gone
  <2>1. gone = {r \in Answers : \A T \in SUBSET Answers :
           base \subseteq T /\ (\A a \in Answers : replyTo[a] \in T => a \in T) => r \in T}
    BY <1>1 DEF For!WithReplies
  <2>2. \A r \in base : r \in gone
    BY <2>1
  <2>3. ASSUME NEW r \in Answers, replyTo[r] \in gone PROVE r \in gone
    BY <2>1, <2>3
  <2> QED BY <2>2, <2>3
<1>14. \A r \in Answers : r \notin gone => onThread[r] \notin lost \/ reply[r] = "absent"
  BY <1>13
<1> HIDE DEF base
<1>5. ForumTypes'
  <2>1. thread' \in [Threads -> RowStates] /\ reply' \in [Answers -> RowStates]
    BY <1>1 DEF ForumInv, ForumTypes, RowStates
  <2> QED BY <1>1, <1>2, <2>1, ForumAssumption DEF ForumInv, ForumTypes
<1>6. ForumRows'
  <2>1. ASSUME NEW t \in Threads, thread'[t] \in {"live", "deleted"} PROVE inCategory'[t] \in category'
    BY <1>1, <1>2, <1>4, <2>1 DEF ForumInv, ForumRows
  <2>2. ASSUME NEW r \in Answers, reply'[r] \in {"live", "deleted"}
        PROVE  /\ thread'[onThread'[r]] \in {"live", "deleted"}
               /\ replyTo'[r] # 0 => reply'[replyTo'[r]] \in {"live", "deleted"}
    <3>1. reply[r] \in {"live", "deleted"} /\ r \notin gone /\ onThread[r] \notin lost /\ replyTo[r] \notin gone
      BY <1>4, <1>13, <1>14, <2>2
    <3>2. onThread[r] \in Threads /\ replyTo[r] \in Answers \union {0}
      BY DEF ForumInv, ForumTypes
    <3>3. thread[onThread[r]] \in {"live", "deleted"} /\ (replyTo[r] # 0 => reply[replyTo[r]] \in {"live", "deleted"})
      BY <3>1 DEF ForumInv, ForumRows
    <3> QED BY <1>1, <1>2, <1>4, <3>1, <3>2, <3>3
  <2>3. ASSUME NEW s \in subscribed'
        PROVE  \E t \in Threads, m \in Members : s = <<t, m>> /\ thread'[t] \in {"live", "deleted"}
    <3>1. PICK t \in Threads, m \in Members : s = <<t, m>> /\ thread[t] \in {"live", "deleted"}
      BY <1>1, <2>3 DEF ForumInv, ForumRows
    <3>2. t \notin lost
      BY <1>1, <2>3, <3>1
    <3> QED BY <1>1, <3>1, <3>2
  <2>4. ASSUME NEW d \in Posters
        PROVE  /\ posting'[d].at \in OnThreads => posting'[d].row \in Threads /\ thread'[posting'[d].row] # "absent"
               /\ posting'[d].at \in OnReplies => posting'[d].row \in Answers /\ reply'[posting'[d].row] # "absent"
    <3>1. /\ posting[d].at \in OnThreads => posting[d].row \in Threads /\ thread[posting[d].row] # "absent"
          /\ posting[d].at \in OnReplies => posting[d].row \in Answers /\ reply[posting[d].row] # "absent"
      BY DEF ForumInv, ForumRows
    <3> QED BY <1>2, <1>4, <3>1
  <2> QED BY <2>1, <2>2, <2>3, <2>4 DEF ForumRows
<1>7. \A x : /\ GiveN(c, x)' = GiveN(c, x) /\ TakeN(c, x)' = TakeN(c, x)
  BY <1>2 DEF GiveN, TakeN, Raises, Lowers
<1>8. \A k \in category' \ miscounted' : NetIn(c, 0, k)' = NetIn(c, 0, k)
  <2> TAKE k \in category' \ miscounted'
  <2>1. LiveInN(0, k)' = LiveInN(0, k)
    BY <1>1, <1>2, <1>4 DEF LiveInN, LiveIn
  <2> QED BY <1>2, <1>7, <2>1 DEF NetIn
<1>15. 0 \notin Answers
  BY ForumAssumption
<1>9. \A s \in Threads \ miscounted' : thread'[s] # "removed" => NetOn(c, 0, s)' = NetOn(c, 0, s)
  <2> SUFFICES ASSUME NEW s \in Threads, thread'[s] # "removed" PROVE NetOn(c, 0, s)' = NetOn(c, 0, s)
    OBVIOUS
  <2>1. LiveOnN(0, s) = 0 /\ LiveOnN(0, s)' = 0
    BY <1>15 DEF LiveOnN, LiveOn
  <2> QED BY <1>2, <1>7, <2>1 DEF NetOn
<1>10. ForumBalance'
  <2>1. /\ category' \subseteq category /\ miscounted \subseteq miscounted' /\ inCategory' = inCategory
        /\ \A r \in Answers : reply[r] # "absent" => onThread'[r] = onThread[r]
    BY <1>1, <1>2
  <2>2. \A k \in category' \ miscounted', s \in Threads \ {0} :
          inCategory[s] = k => (thread'[s] = "live" <=> thread[s] = "live")
    BY <1>1, <1>4
  <2>3. \A s \in Threads : thread[s] = "removed" => thread'[s] = "removed"
    BY <1>4
  <2>4. ASSUME NEW s \in Answers \ {0}
        PROVE  /\ onThread'[s] = onThread[s]
               /\ (thread'[onThread[s]] # "removed" =>
                     onThread[s] \in miscounted' \/ (reply'[s] = "live" <=> reply[s] = "live"))
    <3>1. onThread[s] \in Threads
      BY DEF ForumInv, ForumTypes
    <3>2. onThread[s] \in lost => thread'[onThread[s]] = "removed"
      BY <1>1, <3>1
    <3>3. s \in gone /\ reply[s] = "live" /\ onThread[s] \notin lost => onThread[s] \in miscounted'
      BY <1>1
    <3> QED BY <1>2, <1>4, <3>2, <3>3
  <2> QED BY <1>3, <1>5, <1>8, <1>9, <2>1, <2>2, <2>3, <2>4, ForumCounting
<1>11. ForumBounds'
  BY <1>2, <1>3, <1>5, ForumBounding DEF Counting
<1> QED BY <1>5, <1>6, <1>10, <1>11 DEF ForumInv

\* A reply is inserted, and owed to its thread until it is counted.
LEMMA InsertReplyStep ==
  ASSUME ForumInv, NEW c \in Posters, For!InsertReply(c)
  PROVE  ForumInv'
<1>0. PICK t : t = posting[c].row
  OBVIOUS
<1>1. /\ posting[c].at = "insertReply" /\ requests' = requests
      /\ UNCHANGED <<category, thread, inCategory, subscribed, threadsCount, repliesCount, miscounted>>
  BY DEF For!InsertReply, For!At
<1>2. t \in Threads /\ thread[t] # "absent"
  BY <1>0, <1>1 DEF ForumInv, ForumRows, OnThreads
<1>3. CASE For!End(c) /\ UNCHANGED <<reply, onThread, replyTo>>
  <2>1. posting' = [posting EXCEPT ![c] = For!Idle]
    BY <1>3 DEF For!End
  <2>2. posting' \in [Posters -> PostingRecords] /\ posting'[c] = For!Idle /\ OthersPost(c)
    BY <2>1, PostingIdle, PostingMoves DEF ForumInv
  <2>3. ForumQuiet(c)
    BY <1>1, <1>3, <2>2, PostingIdle DEF ForumQuiet, ForumInv, ForumTypes, Counting, OnThreads, OnReplies
  <2> QED BY <2>3, QuietStep
<1>4. CASE ~(For!End(c) /\ UNCHANGED <<reply, onThread, replyTo>>)
  <2>1. PICK r \in Answers, p \in {0} \union {a \in Answers : reply[a] \in {"live", "deleted"}} :
          /\ reply[r] = "absent" /\ thread[t] # "removed"
          /\ reply' = [reply EXCEPT ![r] = "live"] /\ onThread' = [onThread EXCEPT ![r] = t]
          /\ replyTo' = [replyTo EXCEPT ![r] = p]
          /\ posting' = [posting EXCEPT ![c] = [at |-> "incReplies", row |-> t, user |-> {}]]
    BY <1>0, <1>4 DEF For!InsertReply, For!Next1, For!GoTo
  <2> DEFINE w == [at |-> "incReplies", row |-> t, user |-> {}]
  <2>2. w \in PostingRecords /\ w.at = "incReplies" /\ w.row = t
    BY <1>2, CategoriesApart DEF PostingRecords, OnThreads
  <2>3. posting' = [posting EXCEPT ![c] = w]
    BY <2>1
  <2> HIDE DEF w
  <2>4. posting' \in [Posters -> PostingRecords] /\ posting'[c] = w /\ OthersPost(c)
    BY <2>2, <2>3, PostingMoves DEF ForumInv
  <2>5. /\ reply' \in [Answers -> RowStates] /\ onThread' \in [Answers -> Threads]
        /\ replyTo' \in [Answers -> Answers \union {0}]
        /\ \A s \in Answers : /\ reply'[s] = IF s = r THEN "live" ELSE reply[s]
                              /\ onThread'[s] = IF s = r THEN t ELSE onThread[s]
                              /\ replyTo'[s] = IF s = r THEN p ELSE replyTo[s]
    BY <1>2, <2>1 DEF ForumInv, ForumTypes, RowStates
  <2>6. ForumTypes'
    BY <1>1, <2>4, <2>5 DEF ForumInv, ForumTypes
  <2>7. ForumRows'
    <3>1. thread[t] \in {"live", "deleted"}
      BY <1>2, <2>1 DEF ForumInv, ForumTypes, RowStates
    <3>2. ASSUME NEW s \in Answers, reply'[s] \in {"live", "deleted"}
          PROVE  /\ thread'[onThread'[s]] \in {"live", "deleted"}
                 /\ replyTo'[s] # 0 => reply'[replyTo'[s]] \in {"live", "deleted"}
      <4>1. CASE s = r
        BY <1>1, <2>1, <2>5, <3>1, <4>1
      <4>2. CASE s # r
        <5>1. /\ reply[s] \in {"live", "deleted"} /\ thread[onThread[s]] \in {"live", "deleted"}
              /\ replyTo[s] # 0 => reply[replyTo[s]] \in {"live", "deleted"}
          BY <2>5, <3>2, <4>2 DEF ForumInv, ForumRows
        <5>2. replyTo[s] \in Answers \union {0}
          BY DEF ForumInv, ForumTypes
        <5> QED BY <1>1, <2>5, <4>2, <5>1, <5>2
      <4> QED BY <4>1, <4>2
    <3> QED BY <1>1, <1>2, <2>2, <2>4, <2>5, <3>2 DEF ForumInv, ForumRows, OthersPost, OnThreads, OnReplies
  <2>8. \A k \in category' \ miscounted' : NetIn(c, 0, k)' = NetIn(c, 0, k)
    <3> TAKE k \in category' \ miscounted'
    <3>1. k # t
      BY <1>1, <1>2, CategoriesApart DEF ForumInv, ForumTypes
    <3>2. /\ GiveN(c, k) = 0 /\ TakeN(c, k) = 0 /\ TakeN(c, k)' = 0 /\ GiveN(c, k)' = 0
          /\ LiveInN(0, k)' = LiveInN(0, k)
      BY <1>1, <2>2, <2>4, <3>1 DEF GiveN, TakeN, Raises, Lowers, LiveInN, LiveIn
    <3> QED BY <1>1, <3>2 DEF NetIn
  <2>9. \A s \in Threads : NetOn(c, r, s)' = NetOn(c, r, s)
    <3> TAKE s \in Threads
    <3>1. /\ GiveN(c, s) = 0 /\ TakeN(c, s) = 0 /\ TakeN(c, s)' = 0
          /\ GiveN(c, s)' = (IF s = t THEN 1 ELSE 0)
      BY <1>1, <2>2, <2>4 DEF GiveN, TakeN, Raises, Lowers
    <3>2. LiveOnN(r, s) = 0 /\ LiveOnN(r, s)' = (IF s = t THEN 1 ELSE 0)
      BY <2>1, <2>5 DEF LiveOnN, LiveOn
    <3>3. repliesCount'[s] = repliesCount[s] /\ repliesCount[s] \in Int
      BY <1>1 DEF ForumInv, ForumTypes
    <3> QED BY <3>1, <3>2, <3>3 DEF NetOn
  <2>10. ForumBalance'
    <3>1. /\ \A a \in Answers : reply[a] # "absent" => onThread'[a] = onThread[a]
          /\ \A a \in Answers \ {r} : onThread'[a] = onThread[a] /\ reply'[a] = reply[a]
      BY <2>1, <2>5
    <3> QED BY <1>1, <2>4, <2>6, <2>8, <2>9, <3>1, ForumCounting
  <2>11. ForumBounds'
    BY <1>1, <2>4, <2>6, ForumBounding DEF Counting
  <2> QED BY <2>6, <2>7, <2>10, <2>11 DEF ForumInv
<1> QED BY <1>3, <1>4

\* The thread is told of a reply it was owed.
LEMMA IncRepliesStep ==
  ASSUME ForumInv, NEW c \in Posters, For!IncReplies(c)
  PROVE  ForumInv'
<1>0. PICK t : t = posting[c].row
  OBVIOUS
<1>1. /\ posting[c].at = "incReplies" /\ requests' = requests /\ posting' = [posting EXCEPT ![c] = For!Idle]
      /\ repliesCount' = [repliesCount EXCEPT ![t] = @ + 1]
      /\ UNCHANGED <<category, thread, inCategory, subscribed, reply, onThread, replyTo, threadsCount, miscounted>>
  BY <1>0 DEF For!IncReplies, For!At, For!End
<1>2. t \in Threads
  BY <1>0, <1>1 DEF ForumInv, ForumRows, OnThreads
<1>3. posting' \in [Posters -> PostingRecords] /\ posting'[c] = For!Idle /\ posting'[c].at = "idle" /\ OthersPost(c)
  BY <1>1, PostingIdle, PostingMoves DEF ForumInv
<1>4. /\ repliesCount' \in [Threads -> Int]
      /\ \A s \in Threads : repliesCount'[s] = IF s = t THEN repliesCount[s] + 1 ELSE repliesCount[s]
  BY <1>1, <1>2 DEF ForumInv, ForumTypes
<1>5. ForumTypes'
  BY <1>1, <1>3, <1>4 DEF ForumInv, ForumTypes
<1>6. ForumRows'
  BY <1>1, <1>3 DEF ForumInv, ForumRows, OthersPost, OnThreads, OnReplies
<1>7. \A k \in category' \ miscounted' : NetIn(c, 0, k)' = NetIn(c, 0, k)
  <2> TAKE k \in category' \ miscounted'
  <2>1. k # t
    BY <1>1, <1>2, CategoriesApart DEF ForumInv, ForumTypes
  <2>2. /\ GiveN(c, k) = 0 /\ TakeN(c, k) = 0 /\ TakeN(c, k)' = 0 /\ GiveN(c, k)' = 0
        /\ LiveInN(0, k)' = LiveInN(0, k)
    BY <1>0, <1>1, <1>3, <2>1 DEF GiveN, TakeN, Raises, Lowers, LiveInN, LiveIn
  <2> QED BY <1>1, <2>2 DEF NetIn
<1>8. \A s \in Threads : NetOn(c, 0, s)' = NetOn(c, 0, s)
  <2> TAKE s \in Threads
  <2>1. /\ GiveN(c, s) = (IF s = t THEN 1 ELSE 0) /\ TakeN(c, s) = 0 /\ TakeN(c, s)' = 0 /\ GiveN(c, s)' = 0
        /\ LiveOnN(0, s)' = LiveOnN(0, s)
    BY <1>0, <1>1, <1>3 DEF GiveN, TakeN, Raises, Lowers, LiveOnN, LiveOn
  <2>2. repliesCount[s] \in Int
    BY DEF ForumInv, ForumTypes
  <2> QED BY <1>4, <2>1, <2>2, Indicators DEF NetOn
<1>9. ForumBalance'
  BY <1>1, <1>3, <1>5, <1>7, <1>8, ForumCounting
<1>10. ForumBounds'
  <2>1. /\ \A x \in Categories : threadsCount'[x] \in {threadsCount[x], threadsCount[x] + 1, threadsCount[x] - 1}
        /\ \A x \in Threads : repliesCount'[x] \in {repliesCount[x], repliesCount[x] + 1, repliesCount[x] - 1}
    BY <1>1, <1>4
  <2>2. posting[c].at \in Counting /\ posting'[c].at \notin Counting
    BY <1>1, <1>3 DEF Counting
  <2> QED BY <1>1, <1>3, <1>5, <2>1, <2>2, ForumBounding
<1> QED BY <1>5, <1>6, <1>9, <1>10 DEF ForumInv

\* A reply is deleted, and its thread is over by it until it is told.
LEMMA DeleteReplyStep ==
  ASSUME ForumInv, NEW c \in Posters, For!DeleteReply(c)
  PROVE  ForumInv'
<1>0. PICK r, t : r = posting[c].row /\ t = onThread[r]
  OBVIOUS
<1> DEFINE w == [at |-> "decReplies", row |-> r, user |-> {}]
<1>1. /\ posting[c].at = "deleteReply" /\ requests' = requests /\ posting' = [posting EXCEPT ![c] = w]
      /\ IF reply[r] = "live"
         THEN reply' = [reply EXCEPT ![r] = "deleted"] /\ miscounted' = miscounted
         ELSE reply' = reply /\ miscounted' = miscounted \union {t}
      /\ UNCHANGED <<category, thread, inCategory, subscribed, onThread, replyTo, threadsCount, repliesCount>>
  BY <1>0 DEF For!DeleteReply, For!At, For!GoTo
<1>2. r \in Answers /\ reply[r] # "absent" /\ t \in Threads
  BY <1>0, <1>1 DEF ForumInv, ForumRows, ForumTypes, OnReplies
<1>3. w \in PostingRecords /\ w.at = "decReplies" /\ w.row = r
  BY <1>2, ForumAssumption DEF PostingRecords, OnReplies
<1> HIDE DEF w
<1>4. posting' \in [Posters -> PostingRecords] /\ posting'[c] = w /\ OthersPost(c)
  BY <1>1, <1>3, PostingMoves DEF ForumInv
<1>5. /\ reply' \in [Answers -> RowStates]
      /\ \A s \in Answers : reply'[s] = IF s = r /\ reply[r] = "live" THEN "deleted" ELSE reply[s]
  BY <1>1, <1>2 DEF ForumInv, ForumTypes, RowStates
<1>6. ForumTypes'
  BY <1>1, <1>4, <1>5 DEF ForumInv, ForumTypes
<1>7. ForumRows'
  <2>1. \A s \in Answers : reply'[s] \in {"live", "deleted"} <=> reply[s] \in {"live", "deleted"}
    BY <1>5
  <2>2. \A s \in Answers : replyTo[s] \in Answers \union {0}
    BY DEF ForumInv, ForumTypes
  <2>3. \A s \in Answers : reply'[s] \in {"live", "deleted"} =>
          /\ thread'[onThread'[s]] \in {"live", "deleted"}
          /\ replyTo'[s] # 0 => reply'[replyTo'[s]] \in {"live", "deleted"}
    BY <1>1, <2>1, <2>2 DEF ForumInv, ForumRows
  <2> QED BY <1>1, <1>2, <1>3, <1>4, <1>5, <2>3 DEF ForumInv, ForumRows, OthersPost, OnThreads, OnReplies
<1>8. \A k \in category' \ miscounted' : NetIn(c, 0, k)' = NetIn(c, 0, k)
  <2> TAKE k \in category' \ miscounted'
  <2>1. k # t
    BY <1>1, <1>2, CategoriesApart DEF ForumInv, ForumTypes
  <2>2. /\ GiveN(c, k) = 0 /\ TakeN(c, k) = 0 /\ TakeN(c, k)' = 0 /\ GiveN(c, k)' = 0
        /\ LiveInN(0, k)' = LiveInN(0, k)
    BY <1>0, <1>1, <1>3, <1>4, <2>1 DEF GiveN, TakeN, Raises, Lowers, LiveInN, LiveIn
  <2> QED BY <1>1, <2>2 DEF NetIn
<1>9. \A s \in Threads \ miscounted' : NetOn(c, r, s)' = NetOn(c, r, s)
  <2> TAKE s \in Threads \ miscounted'
  <2>1. /\ GiveN(c, s) = 0 /\ TakeN(c, s) = 0 /\ GiveN(c, s)' = 0 /\ TakeN(c, s)' = (IF s = t THEN 1 ELSE 0)
    BY <1>0, <1>1, <1>3, <1>4 DEF GiveN, TakeN, Raises, Lowers
  <2>2. LiveOnN(r, s)' = 0 /\ LiveOnN(r, s) = (IF s = t THEN 1 ELSE 0)
    BY <1>0, <1>1, <1>2, <1>5 DEF LiveOnN, LiveOn
  <2>3. repliesCount'[s] = repliesCount[s] /\ repliesCount[s] \in Int
    BY <1>1 DEF ForumInv, ForumTypes
  <2> QED BY <2>1, <2>2, <2>3 DEF NetOn
<1>10. ForumBalance'
  <2>1. miscounted \subseteq miscounted'
    BY <1>1
  <2>2. \A s \in Answers \ {r} : reply'[s] = reply[s]
    BY <1>5
  <2> QED BY <1>1, <1>4, <1>6, <1>8, <1>9, <2>1, <2>2, ForumCounting
<1>11. ForumBounds'
  BY <1>1, <1>4, <1>6, ForumBounding DEF Counting
<1> QED BY <1>6, <1>7, <1>10, <1>11 DEF ForumInv

\* The thread is told of a reply that has gone.
LEMMA DecRepliesStep ==
  ASSUME ForumInv, NEW c \in Posters, For!DecReplies(c)
  PROVE  ForumInv'
<1>0. PICK r, t : r = posting[c].row /\ t = onThread[r]
  OBVIOUS
<1>1. /\ posting[c].at = "decReplies" /\ requests' = requests /\ posting' = [posting EXCEPT ![c] = For!Idle]
      /\ repliesCount' = [repliesCount EXCEPT ![t] = @ - 1]
      /\ UNCHANGED <<category, thread, inCategory, subscribed, reply, onThread, replyTo, threadsCount, miscounted>>
  BY <1>0 DEF For!DecReplies, For!At, For!End
<1>2. r \in Answers /\ t \in Threads
  BY <1>0, <1>1 DEF ForumInv, ForumRows, ForumTypes, OnReplies
<1>3. posting' \in [Posters -> PostingRecords] /\ posting'[c] = For!Idle /\ posting'[c].at = "idle" /\ OthersPost(c)
  BY <1>1, PostingIdle, PostingMoves DEF ForumInv
<1>4. /\ repliesCount' \in [Threads -> Int]
      /\ \A s \in Threads : repliesCount'[s] = IF s = t THEN repliesCount[s] - 1 ELSE repliesCount[s]
  BY <1>1, <1>2 DEF ForumInv, ForumTypes
<1>5. ForumTypes'
  BY <1>1, <1>3, <1>4 DEF ForumInv, ForumTypes
<1>6. ForumRows'
  BY <1>1, <1>3 DEF ForumInv, ForumRows, OthersPost, OnThreads, OnReplies
<1>7. \A k \in category' \ miscounted' : NetIn(c, 0, k)' = NetIn(c, 0, k)
  <2> TAKE k \in category' \ miscounted'
  <2>1. k # t
    BY <1>1, <1>2, CategoriesApart DEF ForumInv, ForumTypes
  <2>2. /\ GiveN(c, k) = 0 /\ TakeN(c, k) = 0 /\ TakeN(c, k)' = 0 /\ GiveN(c, k)' = 0
        /\ LiveInN(0, k)' = LiveInN(0, k)
    BY <1>0, <1>1, <1>3, <2>1 DEF GiveN, TakeN, Raises, Lowers, LiveInN, LiveIn
  <2> QED BY <1>1, <2>2 DEF NetIn
<1>8. \A s \in Threads : NetOn(c, 0, s)' = NetOn(c, 0, s)
  <2> TAKE s \in Threads
  <2>1. /\ GiveN(c, s) = 0 /\ TakeN(c, s) = (IF s = t THEN 1 ELSE 0) /\ TakeN(c, s)' = 0 /\ GiveN(c, s)' = 0
        /\ LiveOnN(0, s)' = LiveOnN(0, s)
    BY <1>0, <1>1, <1>3 DEF GiveN, TakeN, Raises, Lowers, LiveOnN, LiveOn
  <2>2. repliesCount[s] \in Int
    BY DEF ForumInv, ForumTypes
  <2> QED BY <1>4, <2>1, <2>2, Indicators DEF NetOn
<1>9. ForumBalance'
  BY <1>1, <1>3, <1>5, <1>7, <1>8, ForumCounting
<1>10. ForumBounds'
  <2>1. /\ \A x \in Categories : threadsCount'[x] \in {threadsCount[x], threadsCount[x] + 1, threadsCount[x] - 1}
        /\ \A x \in Threads : repliesCount'[x] \in {repliesCount[x], repliesCount[x] + 1, repliesCount[x] - 1}
    BY <1>1, <1>4
  <2>2. posting[c].at \in Counting /\ posting'[c].at \notin Counting
    BY <1>1, <1>3 DEF Counting
  <2> QED BY <1>1, <1>3, <1>5, <2>1, <2>2, ForumBounding
<1> QED BY <1>5, <1>6, <1>9, <1>10 DEF ForumInv

\* What a request owes, without the pairs.
LEMMA OwesIs ==
  ASSUME NEW c \in Posters, NEW x
  PROVE  /\ For!Owes(c) = <<x, 1>> <=> Lowers(c, x)
         /\ For!Owes(c) = <<x, -1>> <=> Raises(c, x)
         /\ Lowers(c, x) \/ Raises(c, x) => For!Owes(c)[1] = x
BY DEF For!Owes, Lowers, Raises

\* A request that fails leaves what it owed miscounted.
LEMMA ForumFailStep ==
  ASSUME ForumInv, NEW c \in Posters, For!Fail(c)
  PROVE  ForumInv'
<1>1. /\ posting' = [posting EXCEPT ![c] = For!Idle] /\ requests' = requests
      /\ miscounted' = miscounted \union {For!Owes(c)[1]}
      /\ UNCHANGED <<category, thread, inCategory, subscribed, reply, onThread, replyTo, threadsCount, repliesCount>>
  BY DEF For!Fail, For!End
<1>2. posting' \in [Posters -> PostingRecords] /\ posting'[c] = For!Idle /\ posting'[c].at = "idle" /\ OthersPost(c)
  BY <1>1, PostingIdle, PostingMoves DEF ForumInv
<1>3. ForumTypes'
  BY <1>1, <1>2 DEF ForumInv, ForumTypes
<1>4. ForumRows'
  BY <1>1, <1>2 DEF ForumInv, ForumRows, OthersPost, OnThreads, OnReplies
<1>5. ASSUME NEW x, x \notin miscounted'
      PROVE  GiveN(c, x)' = GiveN(c, x) /\ TakeN(c, x)' = TakeN(c, x)
  <2>1. ~Lowers(c, x) /\ ~Raises(c, x)
    BY <1>1, <1>5, OwesIs
  <2>2. ~Lowers(c, x)' /\ ~Raises(c, x)'
    BY <1>2 DEF Lowers, Raises
  <2> QED BY <2>1, <2>2 DEF GiveN, TakeN
<1>6. \A k \in category' \ miscounted' : NetIn(c, 0, k)' = NetIn(c, 0, k)
  <2> TAKE k \in category' \ miscounted'
  <2>1. LiveInN(0, k)' = LiveInN(0, k)
    BY <1>1 DEF LiveInN, LiveIn
  <2> QED BY <1>1, <1>5, <2>1 DEF NetIn
<1>7. \A s \in Threads \ miscounted' : NetOn(c, 0, s)' = NetOn(c, 0, s)
  <2> TAKE s \in Threads \ miscounted'
  <2>1. LiveOnN(0, s)' = LiveOnN(0, s)
    BY <1>1 DEF LiveOnN, LiveOn
  <2> QED BY <1>1, <1>5, <2>1 DEF NetOn
<1>8. ForumBalance'
  <2>1. miscounted \subseteq miscounted'
    BY <1>1
  <2> QED BY <1>1, <1>2, <1>3, <1>6, <1>7, <2>1, ForumCounting
<1>9. ForumBounds'
  BY <1>1, <1>2, <1>3, ForumBounding DEF Counting
<1> QED BY <1>3, <1>4, <1>8, <1>9 DEF ForumInv

\* An empty forum is weighed.
LEMMA ForumInit == For!Init => ForumInv
<1> SUFFICES ASSUME For!Init PROVE ForumInv
  OBVIOUS
<1>1. \A c \in Posters : posting[c] = For!Idle /\ posting[c].at = "idle"
  BY PostingIdle DEF For!Init
<1>2. ForumTypes
  <2>1. (CHOOSE t \in Threads : TRUE) \in Threads
    BY ForumAssumption
  <2>2. posting \in [Posters -> PostingRecords]
    BY PostingIdle DEF For!Init
  <2> QED BY <2>1, <2>2, ForumAssumption DEF For!Init, ForumTypes, RowStates
<1>3. ForumRows
  BY <1>1 DEF For!Init, ForumRows, OnThreads, OnReplies
<1>4. \A x : Giving(x) = {} /\ Taking(x) = {}
  BY <1>1 DEF Giving, Taking, Raises, Lowers
<1>5. \A k \in Categories : LiveIn(k) = {}
  BY DEF For!Init, LiveIn
<1>6. \A t \in Threads : LiveOn(t) = {}
  BY DEF For!Init, LiveOn
<1>7. Busy = {}
  BY <1>1 DEF Busy, Counting
<1>8. Cardinality({}) = 0
  BY FS_EmptySet
<1>9. ForumBalance
  BY <1>4, <1>5, <1>6, <1>8 DEF For!Init, ForumBalance
<1>10. ForumBounds
  BY <1>7, <1>8 DEF For!Init, ForumBounds
<1> QED BY <1>2, <1>3, <1>9, <1>10 DEF ForumInv

\* Every step of the forum keeps it weighed.
LEMMA ForumStep ==
  ASSUME ForumInv, [For!Next]_forumVars
  PROVE  ForumInv'
<1>1. CASE UNCHANGED forumVars
  <2>1. UNCHANGED <<category, thread, inCategory, subscribed, reply, onThread, replyTo, threadsCount, repliesCount,
                    posting, requests, miscounted>>
    BY <1>1 DEF forumVars
  <2>2. \A x : /\ Giving(x)' = Giving(x) /\ Taking(x)' = Taking(x)
               /\ LiveIn(x)' = LiveIn(x) /\ LiveOn(x)' = LiveOn(x)
    BY <2>1 DEF Giving, Taking, Raises, Lowers, LiveIn, LiveOn
  <2>3. ForumBalance'
    BY <2>1, <2>2 DEF ForumInv, ForumBalance
  <2>4. ForumBounds'
    BY <2>1 DEF ForumInv, ForumBounds, Busy
  <2>5. ForumTypes' /\ ForumRows'
    BY <2>1 DEF ForumInv, ForumTypes, ForumRows
  <2> QED BY <2>3, <2>4, <2>5 DEF ForumInv
<1>2. CASE For!Next
  BY <1>2, InsertThreadStep, IncThreadsStep, SubscribeQuiet, FindSubscriptionQuiet, WriteQuiet, StartsQuiet,
     QuietStep, DeleteThreadStep, DecThreadsStep, DeleteCategoryStep, InsertReplyStep, IncRepliesStep,
     DeleteReplyStep, DecRepliesStep, ForumFailStep DEF For!Next
<1> QED BY <1>1, <1>2

\* The forum stays weighed, with what the open requests have still to count.
THEOREM ForumInvariant == MCSpec => []ForumInv
<1>1. MCInit => ForumInv
  BY ForumInit DEF MCInit
<1>2. ForumInv /\ [MCNext]_allVars => ForumInv'
  BY StepOfOne, ForumStep
<1> QED BY <1>1, <1>2, PTL DEF MCSpec

\* What is weighed is explained, and the types hold with the bounds on counters.
LEMMA ForumIsExplained == ForumInv => For!ForumExplained /\ For!TypeOK
<1> SUFFICES ASSUME ForumInv PROVE For!ForumExplained /\ For!TypeOK
  OBVIOUS
<1>1. ASSUME NEW x
      PROVE  /\ For!TooHigh(x) = Cardinality(Taking(x)) - Cardinality(Giving(x))
             /\ Cardinality(Taking(x)) \in Nat /\ Cardinality(Giving(x)) \in Nat
  <2>1. {c \in Posters : For!Owes(c) = <<x, 1>>} = Taking(x)
    BY OwesIs DEF Taking
  <2>2. {c \in Posters : For!Owes(c) = <<x, -1>>} = Giving(x)
    BY OwesIs DEF Giving
  <2>3. Cardinality(Taking(x)) \in Nat /\ Cardinality(Giving(x)) \in Nat
    BY ForumFinite, FS_CardinalityType
  <2> QED BY <2>1, <2>2, <2>3, SameCardinality DEF For!TooHigh
<1>2. For!ForumExplained
  <2>1. ASSUME NEW k \in category \ miscounted
        PROVE  threadsCount[k] - For!TooHigh(k) = Cardinality(LiveIn(k))
    <3>1. threadsCount[k] + Cardinality(Giving(k)) = Cardinality(LiveIn(k)) + Cardinality(Taking(k))
      BY DEF ForumInv, ForumBalance
    <3>2. threadsCount[k] \in Int /\ Cardinality(LiveIn(k)) \in Nat
      BY ForumFinite, FS_CardinalityType DEF ForumInv, ForumTypes
    <3> QED BY <1>1, <3>1, <3>2
  <2>2. ASSUME NEW t \in Threads \ miscounted, thread[t] # "removed"
        PROVE  repliesCount[t] - For!TooHigh(t) = Cardinality(LiveOn(t))
    <3>1. repliesCount[t] + Cardinality(Giving(t)) = Cardinality(LiveOn(t)) + Cardinality(Taking(t))
      BY <2>2 DEF ForumInv, ForumBalance
    <3>2. repliesCount[t] \in Int /\ Cardinality(LiveOn(t)) \in Nat
      BY ForumFinite, FS_CardinalityType DEF ForumInv, ForumTypes
    <3> QED BY <1>1, <3>1, <3>2
  <2> QED BY <2>1, <2>2, SameCardinality DEF For!ForumExplained, LiveIn, LiveOn
<1>3. For!TypeOK
  <2>1. subscribed \subseteq {t \in Threads : thread[t] \in {"live", "deleted"}} \X Members
    BY DEF ForumInv, ForumRows
  <2> DEFINE over == requests - Cardinality(Busy)
  <2>2. Cardinality(Busy) \in Nat /\ requests \in Nat /\ requests <= MaxRequests
    BY ForumFinite, FS_CardinalityType, ForumAssumption DEF ForumInv, ForumTypes
  <2>3. over \in Nat /\ over <= MaxRequests
    <3>1. over \in Nat
      BY DEF ForumInv, ForumBounds
    <3> QED BY <2>2, <3>1, ForumAssumption
  <2>4. /\ \A k \in Categories : -over <= threadsCount[k] /\ threadsCount[k] <= over /\ threadsCount[k] \in Int
        /\ \A t \in Threads : -over <= repliesCount[t] /\ repliesCount[t] <= over /\ repliesCount[t] \in Int
    BY DEF ForumInv, ForumBounds, ForumTypes
  <2> HIDE DEF over
  <2>5. /\ \A k \in Categories : threadsCount[k] \in -MaxRequests..MaxRequests
        /\ \A t \in Threads : repliesCount[t] \in -MaxRequests..MaxRequests
    BY <2>3, <2>4, ForumAssumption
  <2>6. threadsCount \in [Categories -> -MaxRequests..MaxRequests] /\ repliesCount \in [Threads -> -MaxRequests..MaxRequests]
    BY <2>5 DEF ForumInv, ForumTypes
  <2> QED BY <2>1, <2>6 DEF For!TypeOK, ForumInv, ForumTypes, ForumRows
<1> QED BY <1>2, <1>3

(***************************************************************************)
(* Posts.  A request is weighed by what it owes; what two requests for one *)
(* post may disagree on is astray.                                         *)
(***************************************************************************)
WritingRecords ==
  [at : {"idle", "findRows", "decRows", "dropRows", "decShare", "softDelete",
         "findTag", "insertTag", "saveTag", "incTag", "incShare"},
   kind : {"none", "create", "update", "delete"}, post : Nat,
   tag : SUBSET Tags, add : SUBSET Tags, rows : SUBSET Tags, done : SUBSET Tags]

PostTypes ==
  /\ post \in [PostIds -> {"absent", "live", "deleted"}]
  /\ original \in [PostIds -> PostIds \union {0}]
  /\ hashtags \subseteq Tags /\ tagged \subseteq PostIds \X hashtags
  /\ counter \in [Pos!Counted -> Int]
  /\ writing \in [Writers -> WritingRecords]
  /\ writes \in 0..MaxWrites /\ astray \subseteq Pos!Counted

\* Where a request stands, and what it knows of the rows of its post.
WriterStage(w) ==
  LET has == Pos!TagsOf(w.post) IN
  /\ w.at = "idle" => w = Pos!Idle
  /\ w.at # "idle" => w.post \in PostIds /\ post[w.post] # "absent"
  /\ w.at \in {"findRows", "decRows", "dropRows"} => w.kind \in {"update", "delete"}
  /\ w.at \in {"decShare", "softDelete"} => w.kind = "delete"
  /\ w.at \in {"findTag", "insertTag", "saveTag", "incTag"} => w.kind \in {"create", "update"}
  /\ w.at = "incShare" => w.kind = "create" /\ w.add = {}
  /\ w.kind = "delete" =>
       w.add = {} /\ (post[w.post] # "live" => Pos!OriginalOf(w.post) \subseteq astray)
  /\ w.at \notin {"decRows", "dropRows"} => w.done = {}
  /\ w.at \in {"decRows", "dropRows"} =>
       /\ w.rows \intersect w.done = {}
       /\ w.rows \union w.done \subseteq has \union astray
       /\ has \subseteq w.rows \union w.done \union astray
  /\ w.at = "dropRows" => w.rows = {}
  /\ w.at \in {"insertTag", "saveTag", "incTag"} => \E t \in Tags : w.tag = {t} /\ t \notin w.add
  /\ w.at \notin {"insertTag", "saveTag", "incTag"} => w.tag = {}
  /\ w.at \in {"saveTag", "incTag"} => w.tag \subseteq hashtags
  /\ w.at \in {"findTag", "insertTag", "saveTag"} => (w.add \union w.tag) \intersect has \subseteq astray
  /\ w.at = "incTag" => w.add \intersect has \subseteq astray

\* A post that is not there has no rows, and requests for one post are astray.
PostRows ==
  /\ \A p \in PostIds : post[p] = "absent" => Pos!TagsOf(p) = {} /\ original[p] = 0
  /\ \A c \in Writers : WriterStage(writing[c])
  /\ \A c, d \in Writers :
       c # d /\ writing[c].at # "idle" /\ writing[d].at # "idle" /\ writing[c].post = writing[d].post =>
         /\ Pos!TagsOf(writing[c].post) \subseteq astray
         /\ Pos!OriginalOf(writing[c].post) \subseteq astray
         /\ writing[c].add \union writing[c].tag \subseteq astray

\* Rows and counters, with what the open requests owe.
Owing(x) == {c \in Writers : x \in Pos!Owed(c)}
PostBalance ==
  \A x \in Pos!Counted \ astray : counter[x] + Cardinality(Owing(x)) = Cardinality(Pos!Rows(x))

\* A request takes a counter up once and down once.
MayInc(w, x) ==
  x \in w.add \union w.tag \/ (w.kind = "create" /\ x \in Pos!OriginalOf(w.post))
MayDec(w, x) ==
  \/ x \in Tags /\ w.at = "findRows"
  \/ x \in w.rows /\ w.at = "decRows"
  \/ x \in PostIds /\ w.kind = "delete" /\ w.at # "softDelete"
Inclined(x) == {c \in Writers : MayInc(writing[c], x)}
Declined(x) == {c \in Writers : MayDec(writing[c], x)}
PostBounds ==
  \A x \in Pos!Counted :
    /\ counter[x] + Cardinality(Inclined(x)) <= writes
    /\ Cardinality(Declined(x)) - counter[x] <= writes

PostsInv == PostTypes /\ PostRows /\ PostBalance /\ PostBounds

OthersWrite(c) == \A d \in Writers \ {c} : writing'[d] = writing[d]

OwesRow(w, x) ==
  \/ w.at = "incTag" /\ x \in w.tag
  \/ x \in w.done /\ x \in Pos!TagsOf(w.post)
  \/ (w.kind = "create" \/ w.at = "softDelete") /\ x \in Pos!OriginalOf(w.post)

OwedN(c, x) == IF OwesRow(writing[c], x) THEN 1 ELSE 0
RowN(p, x) == IF p \in Pos!Rows(x) THEN 1 ELSE 0
IncN(c, x) == IF MayInc(writing[c], x) THEN 1 ELSE 0
DecN(c, x) == IF MayDec(writing[c], x) THEN 1 ELSE 0

\* The shares of one request or post are 0 or 1.
LEMMA PostIndicators ==
  \A c, p, x : /\ OwedN(c, x) \in {0, 1} /\ RowN(p, x) \in {0, 1} /\ IncN(c, x) \in {0, 1} /\ DecN(c, x) \in {0, 1}
               /\ OwedN(c, x)' \in {0, 1} /\ RowN(p, x)' \in {0, 1} /\ IncN(c, x)' \in {0, 1} /\ DecN(c, x)' \in {0, 1}
BY DEF OwedN, RowN, IncN, DecN

\* What a request owes, written for one hashtag or post.
LEMMA OwedIs ==
  ASSUME NEW c \in Writers, NEW x
  PROVE  (x \in Pos!Owed(c) <=> OwesRow(writing[c], x)) /\ (x \in Pos!Owed(c)' <=> OwesRow(writing[c], x)')
BY DEF Pos!Owed, OwesRow

\* Hashtags and posts are counted apart.
LEMMA TagsApart ==
  /\ \A x \in Tags, p \in PostIds : x # p
  /\ \A p \in PostIds : p \in Nat /\ p # 0
BY PostsAssumption

\* The hashtags and the original of a post.
LEMMA TablesOf ==
  ASSUME PostTypes, NEW p \in PostIds
  PROVE  /\ Pos!TagsOf(p) \in SUBSET Tags
         /\ Pos!OriginalOf(p) \in SUBSET PostIds
         /\ original[p] = 0 => Pos!OriginalOf(p) = {}
         /\ original[p] # 0 => Pos!OriginalOf(p) = {original[p]} /\ original[p] \in PostIds
BY DEF PostTypes, Pos!TagsOf, Pos!OriginalOf

\* Whatever posts are weighed by is finite.
LEMMA PostFinite ==
  \A x : /\ IsFiniteSet(Owing(x)) /\ IsFiniteSet(Inclined(x)) /\ IsFiniteSet(Declined(x))
         /\ IsFiniteSet(Pos!Rows(x))
<1> TAKE x
<1>1. Owing(x) \in SUBSET Writers /\ Inclined(x) \in SUBSET Writers /\ Declined(x) \in SUBSET Writers
  BY DEF Owing, Inclined, Declined
<1>2. Pos!Rows(x) \in SUBSET PostIds
  BY DEF Pos!Rows
<1> QED BY <1>1, <1>2, PostsAssumption, FS_Subset

\* One request is written and the others stay.
LEMMA WritingMoves ==
  ASSUME PostTypes, NEW c \in Writers, NEW w \in WritingRecords, writing' = [writing EXCEPT ![c] = w]
  PROVE  writing' \in [Writers -> WritingRecords] /\ writing'[c] = w /\ OthersWrite(c)
BY DEF PostTypes, OthersWrite

\* What a record of a request is made of.
LEMMA WritingFields ==
  \A w \in WritingRecords :
    /\ w.at \in {"idle", "findRows", "decRows", "dropRows", "decShare", "softDelete",
                 "findTag", "insertTag", "saveTag", "incTag", "incShare"}
    /\ w.kind \in {"none", "create", "update", "delete"} /\ w.post \in Nat
    /\ w.tag \in SUBSET Tags /\ w.add \in SUBSET Tags /\ w.rows \in SUBSET Tags /\ w.done \in SUBSET Tags
BY DEF WritingRecords

\* A request that is not open owes nothing and moves no counter.
LEMMA WritingIdle ==
  /\ Pos!Idle \in WritingRecords /\ Pos!Idle.at = "idle" /\ Pos!Idle.kind = "none" /\ Pos!Idle.post = 0
  /\ Pos!Idle.tag = {} /\ Pos!Idle.add = {} /\ Pos!Idle.rows = {} /\ Pos!Idle.done = {}
  /\ \A x : ~MayInc(Pos!Idle, x) /\ ~MayDec(Pos!Idle, x) /\ ~OwesRow(Pos!Idle, x) /\ ~OwesRow(Pos!Idle, x)'
            /\ ~MayInc(Pos!Idle, x)' /\ ~MayDec(Pos!Idle, x)'
  /\ WriterStage(Pos!Idle) /\ WriterStage(Pos!Idle)'
<1>1. /\ Pos!Idle \in WritingRecords /\ Pos!Idle.at = "idle" /\ Pos!Idle.kind = "none" /\ Pos!Idle.post = 0
      /\ Pos!Idle.tag = {} /\ Pos!Idle.add = {} /\ Pos!Idle.rows = {} /\ Pos!Idle.done = {}
  BY DEF Pos!Idle, WritingRecords
<1>2. \A x : ~MayInc(Pos!Idle, x) /\ ~MayDec(Pos!Idle, x) /\ ~OwesRow(Pos!Idle, x) /\ ~OwesRow(Pos!Idle, x)'
            /\ ~MayInc(Pos!Idle, x)' /\ ~MayDec(Pos!Idle, x)'
  BY <1>1 DEF MayInc, MayDec, OwesRow
<1>3. WriterStage(Pos!Idle) /\ WriterStage(Pos!Idle)'
  BY <1>1 DEF WriterStage
<1> QED BY <1>1, <1>2, <1>3

\* A request that is through with its rows, or with a hashtag, takes up the next,
\* or what is left of a repost, or ends.
More(w, v, o) ==
  /\ v \in WritingRecords
  /\ \/ v = Pos!Idle /\ w.add = {} /\ (w.kind = "create" => o = {})
     \/ /\ v.at = "findTag" /\ v.kind = w.kind /\ v.post = w.post /\ v.tag = w.tag /\ v.add = w.add
        /\ v.rows = w.rows /\ v.done = {} /\ w.add # {}
     \/ /\ v.at = "incShare" /\ v.kind = w.kind /\ v.post = w.post /\ v.tag = w.tag /\ v.add = w.add
        /\ v.rows = w.rows /\ v.done = w.done /\ w.kind = "create" /\ o # {} /\ w.add = {}

\* TagMore goes on as More says.
LEMMA TagMoreIs ==
  ASSUME NEW w \in WritingRecords, NEW o
  PROVE  More(w, Pos!TagMore(w, o), o)
<1>1. CASE w.add # {}
  <2> DEFINE v == [w EXCEPT !.at = "findTag", !.done = {}]
  <2>1. /\ v \in WritingRecords /\ v.at = "findTag" /\ v.kind = w.kind /\ v.post = w.post /\ v.tag = w.tag
        /\ v.add = w.add /\ v.rows = w.rows /\ v.done = {}
    BY DEF WritingRecords
  <2>2. Pos!TagMore(w, o) = v
    BY <1>1 DEF Pos!TagMore
  <2> HIDE DEF v
  <2> QED BY <1>1, <2>1, <2>2 DEF More
<1>2. CASE w.add = {} /\ w.kind = "create" /\ o # {}
  <2> DEFINE v == [w EXCEPT !.at = "incShare"]
  <2>1. /\ v \in WritingRecords /\ v.at = "incShare" /\ v.kind = w.kind /\ v.post = w.post /\ v.tag = w.tag
        /\ v.add = w.add /\ v.rows = w.rows /\ v.done = w.done
    BY DEF WritingRecords
  <2>2. Pos!TagMore(w, o) = v
    BY <1>2 DEF Pos!TagMore, Pos!Tagged
  <2> HIDE DEF v
  <2> QED BY <1>2, <2>1, <2>2 DEF More
<1>3. CASE w.add = {} /\ ~(w.kind = "create" /\ o # {})
  <2>1. Pos!TagMore(w, o) = Pos!Idle
    BY <1>3 DEF Pos!TagMore, Pos!Tagged
  <2> QED BY <1>3, <2>1, WritingIdle DEF More
<1> QED BY <1>1, <1>2, <1>3

\* UntagMore changes only where the request stands.
LEMMA UntagMoreIs ==
  ASSUME NEW w \in WritingRecords
  PROVE  LET v == Pos!UntagMore(w) IN
         /\ v \in WritingRecords /\ v.at = (IF w.rows = {} THEN "dropRows" ELSE "decRows")
         /\ v.kind = w.kind /\ v.post = w.post /\ v.tag = w.tag /\ v.add = w.add /\ v.rows = w.rows /\ v.done = w.done
BY DEF Pos!UntagMore, WritingRecords

\* One request moves, and the rows of one post: what that changes in what is weighed.
LEMMA OwingLedger ==
  ASSUME NEW c \in Writers, NEW x,
         \A d \in Writers \ {c} : OwesRow(writing[d], x)' <=> OwesRow(writing[d], x)
  PROVE  /\ Cardinality(Owing(x)) \in Nat /\ Cardinality(Owing(x)') \in Nat
         /\ Cardinality(Owing(x)') - OwedN(c, x)' = Cardinality(Owing(x)) - OwedN(c, x)
<1> DEFINE S == Owing(x)
           T == Owing(x)'
<1>1. IsFiniteSet(S)
  BY PostFinite
<1>2. T \ {c} = S \ {c}
  BY OwedIs DEF Owing
<1>3. OwedN(c, x) = (IF c \in S THEN 1 ELSE 0) /\ OwedN(c, x)' = (IF c \in T THEN 1 ELSE 0)
  BY OwedIs DEF Owing, OwedN
<1> HIDE DEF S, T
<1>4. /\ Cardinality(S) \in Nat /\ Cardinality(T) \in Nat
      /\ Cardinality(T) - (IF c \in T THEN 1 ELSE 0) = Cardinality(S) - (IF c \in S THEN 1 ELSE 0)
  BY <1>1, <1>2, OneCounted
<1>5. Cardinality(S) \in Nat /\ Cardinality(T) \in Nat /\ Cardinality(T) - OwedN(c, x)' = Cardinality(S) - OwedN(c, x)
  BY <1>3, <1>4
<1> QED BY <1>5 DEF S, T

\* One request moves: those that may still take a counter up.
LEMMA InclinedLedger ==
  ASSUME NEW c \in Writers, NEW x,
         \A d \in Writers \ {c} : MayInc(writing[d], x)' <=> MayInc(writing[d], x)
  PROVE  /\ Cardinality(Inclined(x)) \in Nat /\ Cardinality(Inclined(x)') \in Nat
         /\ Cardinality(Inclined(x)') - IncN(c, x)' = Cardinality(Inclined(x)) - IncN(c, x)
<1> DEFINE S == Inclined(x)
           T == Inclined(x)'
<1>1. IsFiniteSet(S)
  BY PostFinite
<1>2. T \ {c} = S \ {c}
  BY DEF Inclined
<1>3. IncN(c, x) = (IF c \in S THEN 1 ELSE 0) /\ IncN(c, x)' = (IF c \in T THEN 1 ELSE 0)
  BY DEF Inclined, IncN
<1> HIDE DEF S, T
<1>4. /\ Cardinality(S) \in Nat /\ Cardinality(T) \in Nat
      /\ Cardinality(T) - (IF c \in T THEN 1 ELSE 0) = Cardinality(S) - (IF c \in S THEN 1 ELSE 0)
  BY <1>1, <1>2, OneCounted
<1>5. Cardinality(S) \in Nat /\ Cardinality(T) \in Nat /\ Cardinality(T) - IncN(c, x)' = Cardinality(S) - IncN(c, x)
  BY <1>3, <1>4
<1> QED BY <1>5 DEF S, T

\* One request moves: those that may still take a counter down.
LEMMA DeclinedLedger ==
  ASSUME NEW c \in Writers, OthersWrite(c), NEW x
  PROVE  /\ Cardinality(Declined(x)) \in Nat /\ Cardinality(Declined(x)') \in Nat
         /\ Cardinality(Declined(x)') - DecN(c, x)' = Cardinality(Declined(x)) - DecN(c, x)
<1> DEFINE S == Declined(x)
           T == Declined(x)'
<1>1. IsFiniteSet(S)
  BY PostFinite
<1>2. T \ {c} = S \ {c}
  BY DEF Declined, MayDec, OthersWrite
<1>3. DecN(c, x) = (IF c \in S THEN 1 ELSE 0) /\ DecN(c, x)' = (IF c \in T THEN 1 ELSE 0)
  BY DEF Declined, DecN
<1> HIDE DEF S, T
<1>4. /\ Cardinality(S) \in Nat /\ Cardinality(T) \in Nat
      /\ Cardinality(T) - (IF c \in T THEN 1 ELSE 0) = Cardinality(S) - (IF c \in S THEN 1 ELSE 0)
  BY <1>1, <1>2, OneCounted
<1>5. Cardinality(S) \in Nat /\ Cardinality(T) \in Nat /\ Cardinality(T) - DecN(c, x)' = Cardinality(S) - DecN(c, x)
  BY <1>3, <1>4
<1> QED BY <1>5 DEF S, T

\* The rows of one post change: the rows a counter counts.
LEMMA RowsLedger ==
  ASSUME NEW p, NEW x, \A q \in PostIds \ {p} : q \in Pos!Rows(x)' <=> q \in Pos!Rows(x)
  PROVE  /\ Cardinality(Pos!Rows(x)) \in Nat /\ Cardinality(Pos!Rows(x)') \in Nat
         /\ Cardinality(Pos!Rows(x)') - RowN(p, x)' = Cardinality(Pos!Rows(x)) - RowN(p, x)
<1> DEFINE S == Pos!Rows(x)
           T == Pos!Rows(x)'
<1>1. IsFiniteSet(S)
  BY PostFinite
<1>2. T \ {p} = S \ {p}
  BY DEF Pos!Rows
<1>3. RowN(p, x) = (IF p \in S THEN 1 ELSE 0) /\ RowN(p, x)' = (IF p \in T THEN 1 ELSE 0)
  BY DEF RowN
<1> HIDE DEF S, T
<1>4. /\ Cardinality(S) \in Nat /\ Cardinality(T) \in Nat
      /\ Cardinality(T) - (IF p \in T THEN 1 ELSE 0) = Cardinality(S) - (IF p \in S THEN 1 ELSE 0)
  BY <1>1, <1>2, OneCounted
<1>5. Cardinality(S) \in Nat /\ Cardinality(T) \in Nat /\ Cardinality(T) - RowN(p, x)' = Cardinality(S) - RowN(p, x)
  BY <1>3, <1>4
<1> QED BY <1>5 DEF S, T

\* The balance: nothing is to be said of the others but that they owe what they owed.
PostNet(c, p, x) == counter[x] + OwedN(c, x) - RowN(p, x)

\* If each counter moves with the debt of c and the row of p, all stays balanced.
LEMMA PostCounting ==
  ASSUME PostsInv, PostTypes', NEW c \in Writers, NEW p, astray \subseteq astray',
         \A x \in Pos!Counted \ astray' :
           /\ \A d \in Writers \ {c} : OwesRow(writing[d], x)' <=> OwesRow(writing[d], x)
           /\ \A q \in PostIds \ {p} : q \in Pos!Rows(x)' <=> q \in Pos!Rows(x)
           /\ PostNet(c, p, x)' = PostNet(c, p, x)
  PROVE  PostBalance'
<1> SUFFICES ASSUME NEW x \in Pos!Counted \ astray'
             PROVE  counter'[x] + Cardinality(Owing(x)') = Cardinality(Pos!Rows(x)')
  BY DEF PostBalance, Pos!Counted
<1> DEFINE a == counter[x]
           b == counter'[x]
           g == Cardinality(Owing(x))
           h == Cardinality(Owing(x)')
           l == Cardinality(Pos!Rows(x))
           m == Cardinality(Pos!Rows(x)')
           g1 == OwedN(c, x)
           h1 == OwedN(c, x)'
           l1 == RowN(p, x)
           m1 == RowN(p, x)'
<1>1. a + g = l
  BY DEF PostsInv, PostBalance
<1>2. g \in Nat /\ h \in Nat /\ h - h1 = g - g1
  BY OwingLedger
<1>3. l \in Nat /\ m \in Nat /\ m - m1 = l - l1
  BY RowsLedger
<1>4. a \in Int /\ b \in Int
  BY DEF PostsInv, PostTypes, Pos!Counted
<1>5. g1 \in {0, 1} /\ h1 \in {0, 1} /\ l1 \in {0, 1} /\ m1 \in {0, 1}
  BY PostIndicators
<1>6. b + h1 - m1 = a + g1 - l1
  BY DEF PostNet
<1> HIDE DEF a, b, g, h, l, m, g1, h1, l1, m1
<1>7. b + h = m
  BY <1>1, <1>2, <1>3, <1>4, <1>5, <1>6
<1> QED BY <1>7 DEF b, h, m

\* The bounds: what a counter moves is paid by the request that moves it.
LEMMA PostBounding ==
  ASSUME PostsInv, PostTypes', NEW c \in Writers, OthersWrite(c),
         \A x \in Pos!Counted :
           /\ \A d \in Writers \ {c} : MayInc(writing[d], x)' <=> MayInc(writing[d], x)
           /\ counter'[x] + IncN(c, x)' - writes' <= counter[x] + IncN(c, x) - writes
           /\ DecN(c, x)' - counter'[x] - writes' <= DecN(c, x) - counter[x] - writes
  PROVE  PostBounds'
<1> SUFFICES ASSUME NEW x \in Pos!Counted
             PROVE  /\ counter'[x] + Cardinality(Inclined(x)') <= writes'
                    /\ Cardinality(Declined(x)') - counter'[x] <= writes'
  BY DEF PostBounds, Pos!Counted
<1> DEFINE a == counter[x]
           b == counter'[x]
           g == Cardinality(Inclined(x))
           h == Cardinality(Inclined(x)')
           l == Cardinality(Declined(x))
           m == Cardinality(Declined(x)')
           g1 == IncN(c, x)
           h1 == IncN(c, x)'
           l1 == DecN(c, x)
           m1 == DecN(c, x)'
           n == writes
           o == writes'
<1>1. a + g <= n /\ l - a <= n
  BY DEF PostsInv, PostBounds
<1>2. g \in Nat /\ h \in Nat /\ h - h1 = g - g1
  BY InclinedLedger
<1>3. l \in Nat /\ m \in Nat /\ m - m1 = l - l1
  BY DeclinedLedger
<1>4. a \in Int /\ b \in Int /\ n \in Int /\ o \in Int
  BY PostsAssumption DEF PostsInv, PostTypes, Pos!Counted
<1>5. g1 \in {0, 1} /\ h1 \in {0, 1} /\ l1 \in {0, 1} /\ m1 \in {0, 1}
  BY PostIndicators
<1>6. b + h1 - o <= a + g1 - n /\ m1 - b - o <= l1 - a - n
  OBVIOUS
<1> HIDE DEF a, b, g, h, l, m, g1, h1, l1, m1, n, o
<1>7. b + h <= o /\ m - b <= o
  BY <1>1, <1>2, <1>3, <1>4, <1>5, <1>6
<1> QED BY <1>7 DEF b, h, m, o

\* What a request knows holds on, if its post stays, and its rows stay or are astray.
LEMMA StageStays ==
  ASSUME NEW w \in WritingRecords, WriterStage(w), astray \subseteq astray', hashtags \subseteq hashtags',
         w.at # "idle" =>
           /\ post'[w.post] # "absent"
           /\ Pos!OriginalOf(w.post)' = Pos!OriginalOf(w.post)
           /\ (post'[w.post] = "live" <=> post[w.post] = "live") \/ Pos!OriginalOf(w.post) \subseteq astray'
           /\ \/ Pos!TagsOf(w.post)' = Pos!TagsOf(w.post)
              \/ Pos!TagsOf(w.post)' \union Pos!TagsOf(w.post) \subseteq astray'
  PROVE  WriterStage(w)'
<1>1. CASE w.at = "idle"
  BY <1>1, WritingIdle DEF WriterStage
<1>2. CASE w.at # "idle"
  <2> DEFINE has == Pos!TagsOf(w.post)
             will == Pos!TagsOf(w.post)'
             o == Pos!OriginalOf(w.post)
  <2>1. will = has \/ will \union has \subseteq astray'
    BY <1>2
  <2>2. w.at \in {"decRows", "dropRows"} =>
          /\ w.rows \union w.done \subseteq will \union astray'
          /\ will \subseteq w.rows \union w.done \union astray'
    BY <2>1 DEF WriterStage
  <2>3. /\ w.at \in {"findTag", "insertTag", "saveTag"} => (w.add \union w.tag) \intersect will \subseteq astray'
        /\ w.at = "incTag" => w.add \intersect will \subseteq astray'
    BY <2>1 DEF WriterStage
  <2>4. w.kind = "delete" => w.add = {} /\ (post'[w.post] # "live" => Pos!OriginalOf(w.post)' \subseteq astray')
    BY <1>2 DEF WriterStage
  <2>5. w.at \in {"saveTag", "incTag"} => w.tag \subseteq hashtags'
    BY DEF WriterStage
  <2> HIDE DEF has, will, o
  <2> QED BY <1>2, <2>2, <2>3, <2>4, <2>5 DEF WriterStage, will
<1> QED BY <1>1, <1>2

\* A step of c that leaves the tables of posts alone.
TablesStay ==
  /\ UNCHANGED <<post, original, tagged>>
  /\ hashtags \subseteq hashtags' /\ astray \subseteq astray'

\* While the tables stay, the others owe what they owed.
LEMMA TablesKeep ==
  ASSUME PostsInv, NEW c \in Writers, OthersWrite(c), TablesStay
  PROVE  /\ \A p : Pos!TagsOf(p)' = Pos!TagsOf(p) /\ Pos!OriginalOf(p)' = Pos!OriginalOf(p)
         /\ \A x : Pos!Rows(x)' = Pos!Rows(x)
         /\ \A x, d : d \in Writers \ {c} =>
              /\ OwesRow(writing[d], x)' <=> OwesRow(writing[d], x)
              /\ MayInc(writing[d], x)' <=> MayInc(writing[d], x)
<1>1. \A p : Pos!TagsOf(p)' = Pos!TagsOf(p) /\ Pos!OriginalOf(p)' = Pos!OriginalOf(p)
  BY DEF TablesStay, Pos!TagsOf, Pos!OriginalOf
<1>2. \A x : Pos!Rows(x)' = Pos!Rows(x)
  BY DEF TablesStay, Pos!Rows
<1>3. ASSUME NEW x, NEW d \in Writers \ {c}
      PROVE  /\ OwesRow(writing[d], x)' <=> OwesRow(writing[d], x)
             /\ MayInc(writing[d], x)' <=> MayInc(writing[d], x)
  BY <1>1 DEF OwesRow, MayInc, OthersWrite
<1> QED BY <1>1, <1>2, <1>3

\* While the tables stay, it is enough that c knows what its step tells it.
LEMMA RowsKeep ==
  ASSUME PostsInv, NEW c \in Writers, OthersWrite(c), TablesStay, WriterStage(writing[c])',
         writing'[c].at # "idle" =>
           /\ writing[c].at # "idle" /\ writing'[c].post = writing[c].post
           /\ writing'[c].add \union writing'[c].tag \subseteq writing[c].add \union writing[c].tag
  PROVE  PostRows'
<1>1. \A p : Pos!TagsOf(p)' = Pos!TagsOf(p) /\ Pos!OriginalOf(p)' = Pos!OriginalOf(p)
  BY TablesKeep
<1>2. UNCHANGED <<post, original>> /\ hashtags \subseteq hashtags' /\ astray \subseteq astray'
  BY DEF TablesStay
<1>3. \A d \in Writers : WriterStage(writing[d])'
  <2> TAKE d \in Writers
  <2>1. CASE d = c
    BY <2>1
  <2>2. CASE d # c
    <3> DEFINE w == writing[d]
    <3>1. w \in WritingRecords /\ WriterStage(w) /\ writing'[d] = w
      BY <2>2 DEF PostsInv, PostTypes, PostRows, OthersWrite
    <3>2. w.at # "idle" => post'[w.post] # "absent"
      BY <1>2, <3>1 DEF WriterStage
    <3> HIDE DEF w
    <3>3. PICK v : v = w
      OBVIOUS
    <3>4. v \in WritingRecords /\ WriterStage(v) /\ (v.at # "idle" => post'[v.post] # "absent")
      BY <3>1, <3>2, <3>3
    <3>5. WriterStage(v)'
      BY <1>1, <1>2, <3>4, StageStays
    <3> QED BY <3>1, <3>3, <3>5
  <2> QED BY <2>1, <2>2
<1>4. \A p \in PostIds : post'[p] = "absent" => Pos!TagsOf(p)' = {} /\ original'[p] = 0
  BY <1>1, <1>2 DEF PostsInv, PostRows
<1>5. (\A d, e \in Writers :
        d # e /\ writing[d].at # "idle" /\ writing[e].at # "idle" /\ writing[d].post = writing[e].post =>
          /\ Pos!TagsOf(writing[d].post) \subseteq astray
          /\ Pos!OriginalOf(writing[d].post) \subseteq astray
          /\ writing[d].add \union writing[d].tag \subseteq astray)'
  <2> SUFFICES ASSUME NEW d \in Writers, NEW e \in Writers, d # e, writing'[d].at # "idle", writing'[e].at # "idle",
                      writing'[d].post = writing'[e].post
               PROVE  (/\ Pos!TagsOf(writing[d].post) \subseteq astray
                       /\ Pos!OriginalOf(writing[d].post) \subseteq astray
                       /\ writing[d].add \union writing[d].tag \subseteq astray)'
    OBVIOUS
  <2>0. PICK p : p = writing'[d].post
    OBVIOUS
  <2>1. /\ writing[d].at # "idle" /\ p = writing[d].post
        /\ writing'[d].add \union writing'[d].tag \subseteq writing[d].add \union writing[d].tag
    BY <2>0 DEF OthersWrite
  <2>2. writing[e].at # "idle" /\ p = writing[e].post
    BY <2>0 DEF OthersWrite
  <2>3. /\ Pos!TagsOf(p) \subseteq astray /\ Pos!OriginalOf(p) \subseteq astray
        /\ writing[d].add \union writing[d].tag \subseteq astray
    BY <2>1, <2>2 DEF PostsInv, PostRows
  <2>4. Pos!TagsOf(p)' \subseteq astray' /\ Pos!OriginalOf(p)' \subseteq astray'
    BY <1>1, <1>2, <2>3
  <2>5. Pos!TagsOf(writing[d].post)' = Pos!TagsOf(p)' /\ Pos!OriginalOf(writing[d].post)' = Pos!OriginalOf(p)'
    BY <2>0 DEF Pos!TagsOf, Pos!OriginalOf
  <2> QED BY <1>2, <2>1, <2>3, <2>4, <2>5
<1> QED BY <1>3, <1>4, <1>5 DEF PostRows

\* A step of c between two tables that stay: what is to be shown of it.
LEMMA StepOnTables ==
  ASSUME PostsInv, PostTypes', NEW c \in Writers, NEW w, w = writing[c], NEW v, v = writing'[c],
         OthersWrite(c), TablesStay, writes' = writes, WriterStage(v)',
         v.at # "idle" => w.at # "idle" /\ v.post = w.post /\ v.add \union v.tag \subseteq w.add \union w.tag,
         \A x \in Pos!Counted \ astray' : counter'[x] + OwedN(c, x)' = counter[x] + OwedN(c, x),
         \A x \in Pos!Counted :
           /\ counter'[x] + IncN(c, x)' <= counter[x] + IncN(c, x)
           /\ DecN(c, x)' - counter'[x] <= DecN(c, x) - counter[x]
  PROVE  PostsInv'
<1>0. PICK p : p = 0
  OBVIOUS
<1>1. PostRows'
  BY RowsKeep
<1>2. \A x : Pos!Rows(x)' = Pos!Rows(x) /\ RowN(p, x)' = RowN(p, x)
  BY TablesKeep DEF RowN
<1>3. PostBalance'
  <2>1. ASSUME NEW x \in Pos!Counted \ astray' PROVE PostNet(c, p, x)' = PostNet(c, p, x)
    <3>1. counter'[x] + OwedN(c, x)' = counter[x] + OwedN(c, x)
      BY <2>1
    <3>2. RowN(p, x)' = RowN(p, x)
      BY <1>2
    <3>3. /\ OwedN(c, x) \in {0, 1} /\ OwedN(c, x)' \in {0, 1} /\ RowN(p, x) \in {0, 1}
          /\ counter[x] \in Int /\ counter'[x] \in Int
      BY PostIndicators DEF PostsInv, PostTypes, Pos!Counted
    <3> QED BY <3>1, <3>2, <3>3 DEF PostNet
  <2>2. astray \subseteq astray'
    BY DEF TablesStay
  <2>3. \A x \in Pos!Counted \ astray' :
           /\ \A d \in Writers \ {c} : OwesRow(writing[d], x)' <=> OwesRow(writing[d], x)
           /\ \A q \in PostIds \ {p} : q \in Pos!Rows(x)' <=> q \in Pos!Rows(x)
           /\ PostNet(c, p, x)' = PostNet(c, p, x)
    BY <1>2, <2>1, TablesKeep
  <2> QED BY <2>2, <2>3, PostCounting
<1>4. PostBounds'
  <2>1. \A x \in Pos!Counted :
          /\ \A d \in Writers \ {c} : MayInc(writing[d], x)' <=> MayInc(writing[d], x)
          /\ counter'[x] + IncN(c, x)' - writes' <= counter[x] + IncN(c, x) - writes
          /\ DecN(c, x)' - counter'[x] - writes' <= DecN(c, x) - counter[x] - writes
    <3> TAKE x \in Pos!Counted
    <3>1. \A d \in Writers \ {c} : MayInc(writing[d], x)' <=> MayInc(writing[d], x)
      BY TablesKeep
    <3> DEFINE a == counter[x]
               b == counter'[x]
               g == IncN(c, x)
               h == IncN(c, x)'
               l == DecN(c, x)
               m == DecN(c, x)'
               n == writes
    <3>2. a \in Int /\ b \in Int /\ n \in Int
      BY PostsAssumption DEF PostsInv, PostTypes, Pos!Counted
    <3>3. g \in Int /\ h \in Int /\ l \in Int /\ m \in Int
      BY DEF IncN, DecN
    <3>4. b + h <= a + g /\ m - b <= l - a
      OBVIOUS
    <3> HIDE DEF a, b, g, h, l, m, n
    <3>5. b + h - n <= a + g - n /\ m - b - n <= l - a - n
      BY <3>2, <3>3, <3>4
    <3> QED BY <3>1, <3>5 DEF a, b, g, h, l, m, n
  <2> QED BY <2>1, PostBounding
<1> QED BY <1>1, <1>3, <1>4 DEF PostsInv

\* The types, when a request is written and counters go up or down.
LEMMA CounterTypes ==
  ASSUME PostsInv, NEW c \in Writers, NEW v \in WritingRecords, writing' = [writing EXCEPT ![c] = v],
         TablesStay, hashtags' \subseteq Tags, astray' \subseteq Pos!Counted, writes' = writes,
         counter' \in [Pos!Counted -> Int]
  PROVE  PostTypes'
<1>1. writing' \in [Writers -> WritingRecords]
  BY WritingMoves DEF PostsInv
<1>2. Pos!Counted' = Pos!Counted
  BY DEF Pos!Counted
<1> QED BY <1>1, <1>2 DEF PostsInv, PostTypes, TablesStay

\* What the step before a request ends knows of it.
LEMMA StageGoesOn ==
  ASSUME PostsInv, TablesStay, NEW v \in WritingRecords, WriterStage(v)
  PROVE  WriterStage(v)'
<1>1. /\ Pos!TagsOf(v.post)' = Pos!TagsOf(v.post) /\ Pos!OriginalOf(v.post)' = Pos!OriginalOf(v.post)
      /\ post' = post /\ astray \subseteq astray' /\ hashtags \subseteq hashtags'
  BY DEF TablesStay, Pos!TagsOf, Pos!OriginalOf
<1>2. v.at # "idle" => post'[v.post] # "absent"
  BY <1>1 DEF WriterStage
<1> QED BY <1>1, <1>2, StageStays

\* What is known of a request that is open.
LEMMA StageOf ==
  ASSUME PostsInv, NEW c \in Writers
  PROVE  /\ writing[c] \in WritingRecords /\ WriterStage(writing[c])
         /\ writing[c].at # "idle" =>
              /\ writing[c].post \in PostIds
              /\ Pos!TagsOf(writing[c].post) \in SUBSET Tags
              /\ Pos!OriginalOf(writing[c].post) \in SUBSET PostIds
<1>1. writing[c] \in WritingRecords /\ WriterStage(writing[c])
  BY DEF PostsInv, PostTypes, PostRows
<1>2. writing[c].at # "idle" => writing[c].post \in PostIds
  BY <1>1 DEF WriterStage
<1> QED BY <1>1, <1>2, TablesOf DEF PostsInv

\* The rows are read: c knows what it will count off.
LEMMA FindRowsStep ==
  ASSUME PostsInv, NEW c \in Writers, Pos!FindRows(c)
  PROVE  PostsInv'
<1>0. PICK w : w = writing[c]
  OBVIOUS
<1> DEFINE has == Pos!TagsOf(w.post)
           r == [w EXCEPT !.rows = has]
<1>1. /\ w.at = "findRows" /\ writing' = [writing EXCEPT ![c] = Pos!UntagMore(r)]
      /\ UNCHANGED <<post, original, hashtags, tagged, counter, writes, postFaults, astray>>
  BY <1>0 DEF Pos!FindRows, Pos!GoTo
<1>2. w \in WritingRecords /\ WriterStage(w) /\ has \in SUBSET Tags
  BY <1>0, <1>1, StageOf
<1>3. /\ r \in WritingRecords /\ r.rows = has /\ r.kind = w.kind /\ r.post = w.post
      /\ r.tag = w.tag /\ r.add = w.add /\ r.done = w.done
  BY <1>2 DEF WritingRecords
<1>4. PICK v \in WritingRecords :
        /\ v = Pos!UntagMore(r) /\ v.at = (IF has = {} THEN "dropRows" ELSE "decRows")
        /\ v.kind = w.kind /\ v.post = w.post /\ v.tag = w.tag /\ v.add = w.add /\ v.rows = has /\ v.done = w.done
  <2> HIDE DEF r
  <2> QED BY <1>3, UntagMoreIs
<1> HIDE DEF r
<1>5. writing' = [writing EXCEPT ![c] = v] /\ writing'[c] = v /\ OthersWrite(c)
  BY <1>1, <1>4, WritingMoves DEF PostsInv
<1>6. TablesStay
  BY <1>1 DEF TablesStay
<1>7. PostTypes'
  BY <1>1, <1>5, <1>6, CounterTypes DEF PostsInv, PostTypes
<1>8. WriterStage(v)
  BY <1>1, <1>2, <1>4 DEF WriterStage
<1>9. WriterStage(v)'
  BY <1>6, <1>8, StageGoesOn
<1>10. \A x : ~OwesRow(w, x) /\ ~OwesRow(v, x)'
  BY <1>1, <1>2, <1>4 DEF WriterStage, OwesRow
<1>11. \A x : (MayInc(v, x)' => MayInc(w, x)) /\ (MayDec(v, x)' => MayDec(w, x))
  BY <1>1, <1>2, <1>4, <1>6 DEF WriterStage, MayInc, MayDec
<1>12. \A x : /\ OwedN(c, x)' = OwedN(c, x) /\ IncN(c, x)' <= IncN(c, x) /\ DecN(c, x)' <= DecN(c, x)
              /\ IncN(c, x) \in Int /\ IncN(c, x)' \in Int /\ DecN(c, x) \in Int /\ DecN(c, x)' \in Int
  BY <1>0, <1>5, <1>10, <1>11 DEF OwedN, IncN, DecN
<1>13. \A x \in Pos!Counted : counter'[x] = counter[x] /\ counter[x] \in Int
  BY <1>1 DEF PostsInv, PostTypes
<1>14. \A x \in Pos!Counted :
         /\ counter'[x] + IncN(c, x)' <= counter[x] + IncN(c, x)
         /\ DecN(c, x)' - counter'[x] <= DecN(c, x) - counter[x]
  BY <1>12, <1>13
<1> QED BY <1>0, <1>1, <1>4, <1>5, <1>6, <1>7, <1>9, <1>12, <1>13, <1>14, StepOnTables

\* A hashtag is counted off: the row is owed until it is removed.
LEMMA DecTagStep ==
  ASSUME PostsInv, NEW c \in Writers, Pos!DecTag(c)
  PROVE  PostsInv'
<1>0. PICK w : w = writing[c]
  OBVIOUS
<1>1. w.at = "decRows" /\ UNCHANGED <<post, original, hashtags, tagged, writes, postFaults, astray>>
  BY <1>0 DEF Pos!DecTag
<1>2. PICK t \in w.rows :
        /\ counter' = [counter EXCEPT ![t] = @ - 1]
        /\ writing' = [writing EXCEPT ![c] = Pos!UntagMore([w EXCEPT !.rows = @ \ {t}, !.done = @ \union {t}])]
  BY <1>0 DEF Pos!DecTag, Pos!GoTo
<1> DEFINE r == [w EXCEPT !.rows = @ \ {t}, !.done = @ \union {t}]
           has == Pos!TagsOf(w.post)
<1>3. w \in WritingRecords /\ WriterStage(w) /\ t \in Tags /\ t \in Pos!Counted
  BY <1>0, <1>2, StageOf, WritingFields DEF Pos!Counted
<1>4. /\ r \in WritingRecords /\ r.rows = w.rows \ {t} /\ r.done = w.done \union {t} /\ r.kind = w.kind
      /\ r.post = w.post /\ r.tag = w.tag /\ r.add = w.add
  BY <1>3 DEF WritingRecords
<1>5. PICK v \in WritingRecords :
        /\ v = Pos!UntagMore(r) /\ v.at = (IF w.rows \ {t} = {} THEN "dropRows" ELSE "decRows")
        /\ v.kind = w.kind /\ v.post = w.post /\ v.tag = w.tag /\ v.add = w.add
        /\ v.rows = w.rows \ {t} /\ v.done = w.done \union {t}
  <2> HIDE DEF r
  <2> QED BY <1>4, UntagMoreIs
<1>6. writing' = [writing EXCEPT ![c] = v] /\ writing'[c] = v /\ OthersWrite(c)
  BY <1>2, <1>5, WritingMoves DEF PostsInv
<1> HIDE DEF r
<1>7. TablesStay
  BY <1>1 DEF TablesStay
<1>8. /\ counter' \in [Pos!Counted -> Int]
      /\ \A x \in Pos!Counted : counter[x] \in Int /\ counter'[x] = IF x = t THEN counter[x] - 1 ELSE counter[x]
  BY <1>2, <1>3 DEF PostsInv, PostTypes
<1>9. PostTypes'
  BY <1>1, <1>6, <1>7, <1>8, CounterTypes DEF PostsInv, PostTypes
<1>10. WriterStage(v)
  BY <1>1, <1>2, <1>3, <1>5 DEF WriterStage
<1>11. WriterStage(v)'
  BY <1>7, <1>10, StageGoesOn
<1>12. has' = has /\ (t \in astray \/ t \in has) /\ t \notin w.done
  <2>1. has' = has
    BY <1>1 DEF Pos!TagsOf
  <2>2. w.rows \intersect w.done = {} /\ w.rows \subseteq has \union astray
    BY <1>1, <1>3 DEF WriterStage
  <2> QED BY <1>2, <2>1, <2>2
<1>13. \A x : x # t => (OwesRow(v, x)' <=> OwesRow(w, x))
  BY <1>1, <1>3, <1>5, <1>12 DEF OwesRow, WriterStage
<1>14. t \notin astray => ~OwesRow(w, t) /\ OwesRow(v, t)'
  BY <1>1, <1>3, <1>5, <1>12 DEF OwesRow, WriterStage
<1>15. \A x : (MayInc(v, x)' => MayInc(w, x)) /\ (MayDec(v, x)' => MayDec(w, x))
  BY <1>1, <1>3, <1>5 DEF WriterStage, MayInc, MayDec
<1>16. MayDec(w, t) /\ ~MayDec(v, t)'
  BY <1>1, <1>2, <1>3, <1>5, TagsApart DEF MayDec
<1>17. \A x : /\ IncN(c, x)' <= IncN(c, x) /\ DecN(c, x)' <= DecN(c, x)
              /\ IncN(c, x) \in Int /\ IncN(c, x)' \in Int /\ DecN(c, x) \in Int /\ DecN(c, x)' \in Int
  BY <1>0, <1>6, <1>15 DEF IncN, DecN
<1>18. DecN(c, t) = 1 /\ DecN(c, t)' = 0
  BY <1>0, <1>6, <1>16 DEF DecN
<1>19. \A x \in Pos!Counted :
         /\ counter'[x] + IncN(c, x)' <= counter[x] + IncN(c, x)
         /\ DecN(c, x)' - counter'[x] <= DecN(c, x) - counter[x]
  BY <1>8, <1>17, <1>18
<1>20. \A x \in Pos!Counted \ astray' : counter'[x] + OwedN(c, x)' = counter[x] + OwedN(c, x)
  <2> TAKE x \in Pos!Counted \ astray'
  <2>1. CASE x = t
    <3>1. OwedN(c, t) = 0 /\ OwedN(c, t)' = 1
      BY <1>0, <1>1, <1>6, <1>14, <2>1 DEF OwedN
    <3> QED BY <1>8, <2>1, <3>1
  <2>2. CASE x # t
    <3>1. OwedN(c, x) = OwedN(c, x)'
      BY <1>0, <1>6, <1>13, <2>2 DEF OwedN
    <3> QED BY <1>8, <2>2, <3>1
  <2> QED BY <2>1, <2>2
<1> QED BY <1>0, <1>1, <1>5, <1>6, <1>7, <1>9, <1>11, <1>19, <1>20, StepOnTables

\* The original is counted off: the repost is owed until it is deleted.
LEMMA DecShareStep ==
  ASSUME PostsInv, NEW c \in Writers, Pos!DecShare(c)
  PROVE  PostsInv'
<1>0. PICK w : w = writing[c]
  OBVIOUS
<1> DEFINE v == [w EXCEPT !.at = "softDelete"]
           o == Pos!OriginalOf(w.post)
<1>1. /\ w.at = "decShare" /\ writing' = [writing EXCEPT ![c] = v]
      /\ UNCHANGED <<post, original, hashtags, tagged, writes, postFaults, astray>>
  BY <1>0 DEF Pos!DecShare, Pos!GoTo
<1>2. PICK t \in o : counter' = [counter EXCEPT ![t] = @ - 1]
  BY <1>0 DEF Pos!DecShare
<1>3. w \in WritingRecords /\ WriterStage(w) /\ o = {t} /\ t \in PostIds /\ t \in Pos!Counted
  <2>1. w \in WritingRecords /\ WriterStage(w) /\ o \in SUBSET PostIds
    BY <1>0, <1>1, StageOf
  <2>2. o = {t}
    BY <1>2 DEF Pos!OriginalOf
  <2> QED BY <1>2, <2>1, <2>2 DEF Pos!Counted
<1>4. /\ v \in WritingRecords /\ v.at = "softDelete" /\ v.kind = w.kind /\ v.post = w.post /\ v.tag = w.tag
      /\ v.add = w.add /\ v.rows = w.rows /\ v.done = w.done
  BY <1>3 DEF WritingRecords
<1> HIDE DEF v
<1>6. writing' = [writing EXCEPT ![c] = v] /\ writing'[c] = v /\ OthersWrite(c)
  BY <1>1, <1>4, WritingMoves DEF PostsInv
<1>7. TablesStay
  BY <1>1 DEF TablesStay
<1>8. /\ counter' \in [Pos!Counted -> Int]
      /\ \A x \in Pos!Counted : counter[x] \in Int /\ counter'[x] = IF x = t THEN counter[x] - 1 ELSE counter[x]
  BY <1>2, <1>3 DEF PostsInv, PostTypes
<1>9. PostTypes'
  BY <1>1, <1>4, <1>6, <1>7, <1>8, CounterTypes DEF PostsInv, PostTypes
<1>10. WriterStage(v)
  BY <1>1, <1>3, <1>4 DEF WriterStage
<1>11. WriterStage(v)'
  BY <1>4, <1>7, <1>10, StageGoesOn
<1>12. o' = o
  BY <1>1 DEF Pos!OriginalOf
<1>13. \A x : ~OwesRow(w, x) /\ (OwesRow(v, x)' <=> x = t)
  BY <1>1, <1>3, <1>4, <1>12 DEF OwesRow, WriterStage
<1>15. \A x : (MayInc(v, x)' => MayInc(w, x)) /\ (MayDec(v, x)' => MayDec(w, x))
  BY <1>1, <1>3, <1>4 DEF WriterStage, MayInc, MayDec
<1>16. MayDec(w, t) /\ ~MayDec(v, t)'
  BY <1>1, <1>3, <1>4 DEF MayDec, WriterStage
<1>17. \A x : /\ IncN(c, x)' <= IncN(c, x) /\ DecN(c, x)' <= DecN(c, x)
              /\ IncN(c, x) \in Int /\ IncN(c, x)' \in Int /\ DecN(c, x) \in Int /\ DecN(c, x)' \in Int
  BY <1>0, <1>6, <1>15 DEF IncN, DecN
<1>18. DecN(c, t) = 1 /\ DecN(c, t)' = 0
  BY <1>0, <1>6, <1>16 DEF DecN
<1>19. \A x \in Pos!Counted :
         /\ counter'[x] + IncN(c, x)' <= counter[x] + IncN(c, x)
         /\ DecN(c, x)' - counter'[x] <= DecN(c, x) - counter[x]
  BY <1>8, <1>17, <1>18
<1>20. \A x \in Pos!Counted \ astray' : counter'[x] + OwedN(c, x)' = counter[x] + OwedN(c, x)
  <2> TAKE x \in Pos!Counted \ astray'
  <2>1. OwedN(c, x) = 0 /\ OwedN(c, x)' = IF x = t THEN 1 ELSE 0
    BY <1>0, <1>6, <1>13 DEF OwedN
  <2> QED BY <1>8, <2>1
<1> QED BY <1>0, <1>1, <1>4, <1>6, <1>7, <1>9, <1>11, <1>19, <1>20, StepOnTables

\* Steps that touch no counter: nobody else's debt, and no new one.
LEMMA StillStep ==
  ASSUME PostsInv, NEW c \in Writers, NEW w, w = writing[c], NEW v \in WritingRecords,
         writing' = [writing EXCEPT ![c] = v], TablesStay, counter' = counter, writes' = writes,
         hashtags' \subseteq Tags, astray' \subseteq Pos!Counted, WriterStage(v)',
         v.at # "idle" => w.at # "idle" /\ v.post = w.post /\ v.add \union v.tag \subseteq w.add \union w.tag,
         \A x \in Pos!Counted \ astray' : OwesRow(v, x)' <=> OwesRow(w, x),
         \A x : (MayInc(v, x)' => MayInc(w, x)) /\ (MayDec(v, x)' => MayDec(w, x))
  PROVE  PostsInv'
<1>1. writing'[c] = v /\ OthersWrite(c)
  BY WritingMoves DEF PostsInv
<1>2. PostTypes'
  BY CounterTypes DEF PostsInv, PostTypes
<1>3. \A x : /\ IncN(c, x)' <= IncN(c, x) /\ DecN(c, x)' <= DecN(c, x)
             /\ IncN(c, x) \in Int /\ IncN(c, x)' \in Int /\ DecN(c, x) \in Int /\ DecN(c, x)' \in Int
  BY <1>1 DEF IncN, DecN
<1>4. \A x \in Pos!Counted \ astray' : OwedN(c, x)' = OwedN(c, x)
  BY <1>1 DEF OwedN
<1>5. \A x \in Pos!Counted : counter'[x] = counter[x] /\ counter[x] \in Int
  BY DEF PostsInv, PostTypes
<1>6. \A x \in Pos!Counted :
        /\ counter'[x] + IncN(c, x)' <= counter[x] + IncN(c, x)
        /\ DecN(c, x)' - counter'[x] <= DecN(c, x) - counter[x]
  BY <1>3, <1>5
<1>7. \A x \in Pos!Counted \ astray' : counter'[x] + OwedN(c, x)' = counter[x] + OwedN(c, x)
  BY <1>4, <1>5
<1> QED BY <1>1, <1>2, <1>6, <1>7, StepOnTables

\* A hashtag is looked up; nothing is counted.
LEMMA FindTagStep ==
  ASSUME PostsInv, NEW c \in Writers, Pos!FindTag(c)
  PROVE  PostsInv'
<1>0. PICK w : w = writing[c]
  OBVIOUS
<1>1. w.at = "findTag" /\ UNCHANGED <<post, original, hashtags, tagged, counter, writes, postFaults, astray>>
  BY <1>0 DEF Pos!FindTag
<1>2. PICK t \in w.add, a \in {"saveTag", "insertTag"} :
        /\ a = "saveTag" => t \in hashtags
        /\ writing' = [writing EXCEPT ![c] = [w EXCEPT !.add = @ \ {t}, !.tag = {t}, !.at = a]]
  <2>1. PICK t \in w.add :
          Pos!GoTo(c, [w EXCEPT !.add = @ \ {t}, !.tag = {t}, !.at = IF t \in hashtags THEN "saveTag" ELSE "insertTag"])
    BY <1>0 DEF Pos!FindTag
  <2>2. CASE t \in hashtags
    BY <2>1, <2>2 DEF Pos!GoTo
  <2>3. CASE t \notin hashtags
    BY <2>1, <2>3 DEF Pos!GoTo
  <2> QED BY <2>2, <2>3
<1> DEFINE v == [w EXCEPT !.add = @ \ {t}, !.tag = {t}, !.at = a]
<1>3. w \in WritingRecords /\ WriterStage(w) /\ t \in Tags
  BY <1>0, <1>2, StageOf, WritingFields
<1>4. /\ v \in WritingRecords /\ v.at = a /\ v.kind = w.kind /\ v.post = w.post /\ v.tag = {t}
      /\ v.add = w.add \ {t} /\ v.rows = w.rows /\ v.done = w.done
  BY <1>3 DEF WritingRecords
<1>5. writing' = [writing EXCEPT ![c] = v]
  BY <1>2
<1> HIDE DEF v
<1>6. TablesStay
  BY <1>1 DEF TablesStay
<1>7. WriterStage(v)
  BY <1>1, <1>2, <1>3, <1>4 DEF WriterStage
<1>8. WriterStage(v)'
  BY <1>4, <1>6, <1>7, StageGoesOn
<1>9. w.tag = {} /\ w.done = {}
  BY <1>1, <1>3 DEF WriterStage
<1>10. Pos!OriginalOf(w.post)' = Pos!OriginalOf(w.post)
  BY <1>1 DEF Pos!OriginalOf
<1>11. \A x : OwesRow(v, x)' <=> OwesRow(w, x)
  BY <1>1, <1>4, <1>9, <1>10 DEF OwesRow
<1>12. \A x : (MayInc(v, x)' => MayInc(w, x)) /\ (MayDec(v, x)' => MayDec(w, x))
  BY <1>1, <1>2, <1>3, <1>4, <1>10 DEF WriterStage, MayInc, MayDec
<1>13. v.add \union v.tag \subseteq w.add \union w.tag
  BY <1>2, <1>4
<1>14. hashtags' \subseteq Tags /\ astray' \subseteq Pos!Counted
  BY <1>1 DEF PostsInv, PostTypes
<1> QED BY <1>0, <1>1, <1>4, <1>5, <1>6, <1>8, <1>11, <1>12, <1>13, <1>14, StillStep

\* What a request owes is counted.
LEMMA OwedCounted ==
  ASSUME PostsInv, NEW c \in Writers, writing[c].at # "idle"
  PROVE  Pos!Owed(c) \subseteq Pos!Counted
<1>1. /\ writing[c].tag \in SUBSET Tags /\ writing[c].done \in SUBSET Tags
      /\ Pos!OriginalOf(writing[c].post) \in SUBSET PostIds
  BY StageOf, WritingFields
<1> QED BY <1>1 DEF Pos!Owed, Pos!Counted

\* A request that gives up leaves what it owed astray.
LEMMA GivesUp ==
  ASSUME PostsInv, NEW c \in Writers, writing[c].at # "idle",
         writing' = [writing EXCEPT ![c] = Pos!Idle], astray' = astray \union Pos!Owed(c),
         UNCHANGED <<post, original, hashtags, tagged, counter, writes>>
  PROVE  PostsInv'
<1>0. PICK w, v : w = writing[c] /\ v = Pos!Idle
  OBVIOUS
<1>1. TablesStay
  BY DEF TablesStay
<1>2. hashtags' \subseteq Tags /\ astray' \subseteq Pos!Counted
  BY OwedCounted DEF PostsInv, PostTypes
<1>3. \A x \in Pos!Counted \ astray' : OwesRow(v, x)' <=> OwesRow(w, x)
  BY <1>0, OwedIs, WritingIdle
<1>4. \A x : (MayInc(v, x)' => MayInc(w, x)) /\ (MayDec(v, x)' => MayDec(w, x))
  BY <1>0, WritingIdle
<1>5. v \in WritingRecords /\ v.at = "idle" /\ WriterStage(v)'
  BY <1>0, WritingIdle
<1> QED BY <1>0, <1>1, <1>2, <1>3, <1>4, <1>5, StillStep

\* A hashtag is inserted, or was there by then and the request gives up.
LEMMA InsertTagStep ==
  ASSUME PostsInv, NEW c \in Writers, Pos!InsertTag(c)
  PROVE  PostsInv'
<1>0. PICK w : w = writing[c]
  OBVIOUS
<1>1. w.at = "insertTag" /\ UNCHANGED <<post, original, tagged, counter, writes, postFaults>>
  BY <1>0 DEF Pos!InsertTag
<1>2. CASE w.tag \subseteq hashtags
  <2>1. /\ writing' = [writing EXCEPT ![c] = Pos!Idle] /\ astray' = astray \union Pos!Owed(c)
        /\ hashtags' = hashtags
    BY <1>0, <1>2 DEF Pos!InsertTag, Pos!GoTo
  <2> QED BY <1>0, <1>1, <2>1, GivesUp
<1>3. CASE ~(w.tag \subseteq hashtags)
  <2> DEFINE v == [w EXCEPT !.at = "saveTag"]
  <2>1. /\ writing' = [writing EXCEPT ![c] = v] /\ astray' = astray /\ hashtags' = hashtags \union w.tag
    BY <1>0, <1>3 DEF Pos!InsertTag, Pos!GoTo
  <2>2. w \in WritingRecords /\ WriterStage(w)
    BY <1>0, StageOf
  <2>3. /\ v \in WritingRecords /\ v.at = "saveTag" /\ v.kind = w.kind /\ v.post = w.post /\ v.tag = w.tag
        /\ v.add = w.add /\ v.rows = w.rows /\ v.done = w.done
    BY <2>2 DEF WritingRecords
  <2> HIDE DEF v
  <2>4. TablesStay
    BY <1>1, <2>1 DEF TablesStay
  <2>5. WriterStage(w)'
    BY <2>2, <2>4, StageGoesOn
  <2>6. WriterStage(v)'
    BY <1>1, <2>1, <2>3, <2>5 DEF WriterStage
  <2>7. Pos!OriginalOf(w.post)' = Pos!OriginalOf(w.post) /\ Pos!TagsOf(w.post)' = Pos!TagsOf(w.post)
    BY <1>1 DEF Pos!OriginalOf, Pos!TagsOf
  <2>8. \A x : OwesRow(v, x)' <=> OwesRow(w, x)
    BY <1>1, <2>3, <2>7 DEF OwesRow
  <2>9. \A x : (MayInc(v, x)' => MayInc(w, x)) /\ (MayDec(v, x)' => MayDec(w, x))
    BY <1>1, <2>2, <2>3, <2>7 DEF WriterStage, MayInc, MayDec
  <2>10. hashtags' \subseteq Tags /\ astray' \subseteq Pos!Counted
    BY <2>1, <2>2, WritingFields DEF PostsInv, PostTypes
  <2> QED BY <1>0, <1>1, <2>1, <2>3, <2>4, <2>6, <2>8, <2>9, <2>10, StillStep
<1> QED BY <1>2, <1>3

\* A hashtag is counted: its row is owed no more.
LEMMA IncTagStep ==
  ASSUME PostsInv, NEW c \in Writers, Pos!IncTag(c)
  PROVE  PostsInv'
<1>0. PICK w : w = writing[c]
  OBVIOUS
<1> DEFINE o == Pos!OriginalOf(w.post)
           r == [w EXCEPT !.tag = {}]
<1>1. /\ w.at = "incTag" /\ writing' = [writing EXCEPT ![c] = Pos!TagMore(r, o)]
      /\ UNCHANGED <<post, original, hashtags, tagged, writes, postFaults, astray>>
  BY <1>0 DEF Pos!IncTag, Pos!GoTo
<1>2. PICK t \in w.tag : counter' = [counter EXCEPT ![t] = @ + 1]
  BY <1>0 DEF Pos!IncTag
<1>3. /\ w \in WritingRecords /\ WriterStage(w) /\ w.tag = {t} /\ t \notin w.add /\ t \in Tags /\ t \in Pos!Counted
      /\ o \in SUBSET PostIds /\ w.done = {} /\ w.kind \in {"create", "update"}
  <2>1. w \in WritingRecords /\ WriterStage(w) /\ o \in SUBSET PostIds
    BY <1>0, <1>1, StageOf
  <2> HIDE DEF o
  <2>2. /\ \E s \in Tags : w.tag = {s} /\ s \notin w.add
        /\ w.done = {} /\ w.kind \in {"create", "update"}
    BY <1>1, <2>1 DEF WriterStage
  <2> QED BY <1>2, <2>1, <2>2 DEF Pos!Counted
<1>4. /\ r \in WritingRecords /\ r.at = "incTag" /\ r.kind = w.kind /\ r.post = w.post /\ r.tag = {}
      /\ r.add = w.add /\ r.rows = w.rows /\ r.done = w.done
  BY <1>1, <1>3 DEF WritingRecords
<1>5. PICK v : v = Pos!TagMore(r, o) /\ v \in WritingRecords /\ More(r, v, o)
  <2> HIDE DEF r, o
  <2> QED BY <1>4, TagMoreIs DEF More
<1>6. writing' = [writing EXCEPT ![c] = v] /\ writing'[c] = v /\ OthersWrite(c)
  BY <1>1, <1>5, WritingMoves DEF PostsInv
<1> HIDE DEF r
<1>7. TablesStay
  BY <1>1 DEF TablesStay
<1>8. /\ counter' \in [Pos!Counted -> Int]
      /\ \A x \in Pos!Counted : counter[x] \in Int /\ counter'[x] = IF x = t THEN counter[x] + 1 ELSE counter[x]
  BY <1>2, <1>3 DEF PostsInv, PostTypes
<1>9. PostTypes'
  BY <1>1, <1>5, <1>6, <1>7, <1>8, CounterTypes DEF PostsInv, PostTypes
<1>10. \/ v = Pos!Idle /\ w.add = {} /\ (w.kind = "create" => o = {})
       \/ /\ v.at = "findTag" /\ v.kind = w.kind /\ v.post = w.post /\ v.tag = {} /\ v.add = w.add /\ v.done = {}
       \/ /\ v.at = "incShare" /\ v.kind = w.kind /\ v.post = w.post /\ v.tag = {} /\ v.add = w.add /\ v.done = {}
          /\ w.kind = "create" /\ w.add = {}
  BY <1>3, <1>4, <1>5 DEF More
<1>11. WriterStage(v)
  <2>1. CASE v = Pos!Idle
    BY <2>1, WritingIdle
  <2>2. CASE v # Pos!Idle
    BY <1>1, <1>3, <1>10, <2>2 DEF WriterStage
  <2> QED BY <2>1, <2>2
<1>12. WriterStage(v)'
  BY <1>5, <1>7, <1>11, StageGoesOn
<1>13. o' = o /\ t \notin o
  <2>1. o' = o
    BY <1>1 DEF Pos!OriginalOf
  <2> HIDE DEF o
  <2> QED BY <1>3, <2>1, TagsApart
<1>14. \A x : (OwesRow(w, x) <=> x = t \/ (w.kind = "create" /\ x \in o)) /\ (OwesRow(v, x)' <=> w.kind = "create" /\ x \in o)
  <2>1. \A x : OwesRow(w, x) <=> x = t \/ (w.kind = "create" /\ x \in o)
    BY <1>1, <1>3 DEF OwesRow
  <2>2. CASE v = Pos!Idle
    <3>1. w.kind = "create" => o = {}
      BY <1>10, <2>2, WritingIdle
    <3> HIDE DEF o
    <3> QED BY <2>1, <2>2, <3>1, WritingIdle
  <2>3. CASE v # Pos!Idle
    <3>1. \A x : OwesRow(v, x)' <=> w.kind = "create" /\ x \in o
      BY <1>10, <1>13, <2>3 DEF OwesRow
    <3> QED BY <2>1, <3>1
  <2> QED BY <2>2, <2>3
<1>15. \A x : (MayInc(v, x)' => MayInc(w, x) /\ x # t) /\ ~MayDec(v, x)'
  <2>1. CASE v = Pos!Idle
    BY <2>1, WritingIdle
  <2>2. CASE v # Pos!Idle
    BY <1>3, <1>10, <1>13, <2>2 DEF MayInc, MayDec
  <2> QED BY <2>1, <2>2
<1>16. MayInc(w, t)
  BY <1>3 DEF MayInc
<1>17. \A x : /\ IncN(c, x)' <= IncN(c, x) /\ DecN(c, x)' <= DecN(c, x)
              /\ IncN(c, x) \in Int /\ IncN(c, x)' \in Int /\ DecN(c, x) \in Int /\ DecN(c, x)' \in Int
  BY <1>0, <1>6, <1>15 DEF IncN, DecN
<1>18. IncN(c, t) = 1 /\ IncN(c, t)' = 0
  BY <1>0, <1>6, <1>15, <1>16 DEF IncN
<1>19. \A x \in Pos!Counted :
         /\ counter'[x] + IncN(c, x)' <= counter[x] + IncN(c, x)
         /\ DecN(c, x)' - counter'[x] <= DecN(c, x) - counter[x]
  BY <1>8, <1>17, <1>18
<1>20. \A x \in Pos!Counted \ astray' : counter'[x] + OwedN(c, x)' = counter[x] + OwedN(c, x)
  <2> TAKE x \in Pos!Counted \ astray'
  <2>1. CASE x = t
    <3>1. OwedN(c, t) = 1 /\ OwedN(c, t)' = 0
      BY <1>0, <1>6, <1>13, <1>14 DEF OwedN
    <3> QED BY <1>8, <2>1, <3>1
  <2>2. CASE x # t
    <3>1. OwedN(c, x) = OwedN(c, x)'
      BY <1>0, <1>6, <1>14, <2>2 DEF OwedN
    <3> QED BY <1>8, <2>2, <3>1
  <2> QED BY <2>1, <2>2
<1>21. v.at # "idle" => w.at # "idle" /\ v.post = w.post /\ v.add \union v.tag \subseteq w.add \union w.tag
  BY <1>1, <1>10, WritingIdle
<1> QED BY <1>0, <1>1, <1>5, <1>6, <1>7, <1>9, <1>12, <1>19, <1>20, <1>21, StepOnTables

\* The original is counted: the repost is owed no more.
LEMMA IncShareStep ==
  ASSUME PostsInv, NEW c \in Writers, Pos!IncShare(c)
  PROVE  PostsInv'
<1>0. PICK w, v : w = writing[c] /\ v = Pos!Idle
  OBVIOUS
<1> DEFINE o == Pos!OriginalOf(w.post)
<1>1. /\ w.at = "incShare" /\ writing' = [writing EXCEPT ![c] = v]
      /\ UNCHANGED <<post, original, hashtags, tagged, writes, postFaults, astray>>
  BY <1>0 DEF Pos!IncShare, Pos!GoTo
<1>2. PICK t \in o : counter' = [counter EXCEPT ![t] = @ + 1]
  BY <1>0 DEF Pos!IncShare
<1>3. /\ w \in WritingRecords /\ WriterStage(w) /\ o = {t} /\ t \in Pos!Counted
      /\ w.kind = "create" /\ w.done = {}
  <2>1. w \in WritingRecords /\ WriterStage(w) /\ o \in SUBSET PostIds
    BY <1>0, <1>1, StageOf
  <2>2. o = {t}
    BY <1>2 DEF Pos!OriginalOf
  <2>3. w.kind = "create" /\ w.done = {}
    BY <1>1, <2>1 DEF WriterStage
  <2> QED BY <1>2, <2>1, <2>2, <2>3 DEF Pos!Counted
<1>4. v \in WritingRecords /\ v.at = "idle" /\ WriterStage(v)'
  BY <1>0, WritingIdle
<1>6. writing' = [writing EXCEPT ![c] = v] /\ writing'[c] = v /\ OthersWrite(c)
  BY <1>1, <1>4, WritingMoves DEF PostsInv
<1>7. TablesStay
  BY <1>1 DEF TablesStay
<1>8. /\ counter' \in [Pos!Counted -> Int]
      /\ \A x \in Pos!Counted : counter[x] \in Int /\ counter'[x] = IF x = t THEN counter[x] + 1 ELSE counter[x]
  BY <1>2, <1>3 DEF PostsInv, PostTypes
<1>9. PostTypes'
  BY <1>1, <1>4, <1>6, <1>7, <1>8, CounterTypes DEF PostsInv, PostTypes
<1>10. \A x : (OwesRow(w, x) <=> x = t) /\ ~OwesRow(v, x)'
  BY <1>0, <1>1, <1>3, WritingIdle DEF OwesRow
<1>11. MayInc(w, t) /\ \A x : ~MayInc(v, x)' /\ ~MayDec(v, x)'
  BY <1>0, <1>3, WritingIdle DEF MayInc
<1>12. \A x : /\ IncN(c, x)' <= IncN(c, x) /\ DecN(c, x)' <= DecN(c, x)
              /\ IncN(c, x) \in Int /\ IncN(c, x)' \in Int /\ DecN(c, x) \in Int /\ DecN(c, x)' \in Int
  BY <1>0, <1>6, <1>11 DEF IncN, DecN
<1>13. IncN(c, t) = 1 /\ IncN(c, t)' = 0
  BY <1>0, <1>6, <1>11 DEF IncN
<1>14. \A x \in Pos!Counted :
         /\ counter'[x] + IncN(c, x)' <= counter[x] + IncN(c, x)
         /\ DecN(c, x)' - counter'[x] <= DecN(c, x) - counter[x]
  BY <1>8, <1>12, <1>13
<1>15. \A x \in Pos!Counted \ astray' : counter'[x] + OwedN(c, x)' = counter[x] + OwedN(c, x)
  <2> TAKE x \in Pos!Counted \ astray'
  <2>1. OwedN(c, x)' = 0 /\ OwedN(c, x) = IF x = t THEN 1 ELSE 0
    BY <1>0, <1>6, <1>10 DEF OwedN
  <2> QED BY <1>8, <2>1
<1> QED BY <1>0, <1>1, <1>4, <1>6, <1>7, <1>9, <1>14, <1>15, StepOnTables

\* A request that fails leaves what it owed astray.
LEMMA PostFailStep ==
  ASSUME PostsInv, NEW c \in Writers, Pos!Fail(c)
  PROVE  PostsInv'
<1>1. writing[c].at # "idle"
  BY StageOf DEF WriterStage, Pos!Fail
<1> QED BY <1>1, GivesUp DEF Pos!Fail, Pos!GoTo

\* A step of c that writes one post: those who work on it as well find it astray.
LEMMA OnePostMoves ==
  ASSUME PostsInv, PostTypes', NEW c \in Writers, NEW p \in PostIds, NEW v, v = writing'[c], OthersWrite(c),
         astray \subseteq astray', hashtags \subseteq hashtags', WriterStage(v)', v.at # "idle" => v.post = p,
         post'[p] # "absent",
         \A q \in PostIds \ {p} :
           Pos!TagsOf(q)' = Pos!TagsOf(q) /\ original'[q] = original[q] /\ post'[q] = post[q],
         \A d \in Writers \ {c} : writing[d].at # "idle" /\ writing[d].post = p =>
           /\ original'[p] = original[p] /\ Pos!OriginalOf(p) \subseteq astray'
           /\ Pos!TagsOf(p)' \union Pos!TagsOf(p) \subseteq astray'
           /\ writing[d].add \union writing[d].tag \subseteq astray'
           /\ v.at # "idle" => v.add \union v.tag \subseteq astray'
  PROVE  /\ PostRows'
         /\ \A d \in Writers \ {c} : \A x :
              /\ x \notin astray' => (OwesRow(writing[d], x)' <=> OwesRow(writing[d], x))
              /\ MayInc(writing[d], x)' <=> MayInc(writing[d], x)
         /\ \A x \in Pos!Counted : \A q \in PostIds \ {p} : q \in Pos!Rows(x)' <=> q \in Pos!Rows(x)
<1>1. \A q \in PostIds \ {p} : Pos!OriginalOf(q)' = Pos!OriginalOf(q)
  BY DEF Pos!OriginalOf
<1>2. ASSUME NEW d \in Writers \ {c}
      PROVE  /\ writing'[d] = writing[d] /\ WriterStage(writing[d])'
             /\ \A x : /\ x \notin astray' => (OwesRow(writing[d], x)' <=> OwesRow(writing[d], x))
                       /\ MayInc(writing[d], x)' <=> MayInc(writing[d], x)
  <2>0. PICK w : w = writing[d]
    OBVIOUS
  <2>1. w = writing'[d] /\ w \in WritingRecords /\ WriterStage(w)
    BY <2>0, StageOf DEF OthersWrite
  <2>2. CASE w.at = "idle"
    <3>1. w = Pos!Idle
      BY <2>1, <2>2 DEF WriterStage
    <3> QED BY <2>0, <2>1, <3>1, WritingIdle
  <2>3. CASE w.at # "idle" /\ w.post # p
    <3>1. w.post \in PostIds \ {p} /\ post[w.post] # "absent"
      BY <2>1, <2>3 DEF WriterStage
    <3>2. /\ Pos!TagsOf(w.post)' = Pos!TagsOf(w.post) /\ Pos!OriginalOf(w.post)' = Pos!OriginalOf(w.post)
          /\ post'[w.post] = post[w.post]
      BY <1>1, <3>1
    <3>3. WriterStage(w)'
      BY <2>1, <3>1, <3>2, StageStays
    <3>4. \A x : (OwesRow(w, x)' <=> OwesRow(w, x)) /\ (MayInc(w, x)' <=> MayInc(w, x))
      BY <3>2 DEF OwesRow, MayInc
    <3> QED BY <2>0, <2>1, <3>3, <3>4
  <2>4. CASE w.at # "idle" /\ w.post = p
    <3>1. /\ original'[p] = original[p] /\ Pos!OriginalOf(p) \subseteq astray'
          /\ Pos!TagsOf(p)' \union Pos!TagsOf(p) \subseteq astray'
      BY <2>0, <2>4
    <3>2. Pos!OriginalOf(p)' = Pos!OriginalOf(p)
      BY <3>1 DEF Pos!OriginalOf
    <3>3. WriterStage(w)'
      BY <2>1, <2>4, <3>1, <3>2, StageStays
    <3>4. \A x : /\ x \notin astray' => (OwesRow(w, x)' <=> OwesRow(w, x))
                 /\ MayInc(w, x)' <=> MayInc(w, x)
      BY <2>4, <3>1, <3>2 DEF OwesRow, MayInc
    <3> QED BY <2>0, <2>1, <3>3, <3>4
  <2> QED BY <2>2, <2>3, <2>4
<1>3. \A q \in PostIds : post'[q] = "absent" => Pos!TagsOf(q)' = {} /\ original'[q] = 0
  BY DEF PostsInv, PostRows
<1>4. \A d \in Writers : WriterStage(writing[d])'
  BY <1>2
<1>5. (\A d, e \in Writers :
        d # e /\ writing[d].at # "idle" /\ writing[e].at # "idle" /\ writing[d].post = writing[e].post =>
          /\ Pos!TagsOf(writing[d].post) \subseteq astray
          /\ Pos!OriginalOf(writing[d].post) \subseteq astray
          /\ writing[d].add \union writing[d].tag \subseteq astray)'
  <2> SUFFICES ASSUME NEW d \in Writers, NEW e \in Writers, d # e, writing'[d].at # "idle", writing'[e].at # "idle",
                      writing'[d].post = writing'[e].post
               PROVE  (/\ Pos!TagsOf(writing[d].post) \subseteq astray
                       /\ Pos!OriginalOf(writing[d].post) \subseteq astray
                       /\ writing[d].add \union writing[d].tag \subseteq astray)'
    OBVIOUS
  <2>0. PICK u, q : u = writing'[d] /\ q = u.post
    OBVIOUS
  <2>1. CASE q = p
    <3>1. PICK b \in Writers \ {c} : b \in {d, e} /\ writing[b].at # "idle" /\ writing[b].post = p
      BY <2>0, <2>1 DEF OthersWrite
    <3>2. /\ original'[p] = original[p] /\ Pos!OriginalOf(p) \subseteq astray' /\ Pos!TagsOf(p)' \subseteq astray'
      BY <3>1
    <3>3. Pos!OriginalOf(p)' = Pos!OriginalOf(p)
      BY <3>2 DEF Pos!OriginalOf
    <3>4. u.add \union u.tag \subseteq astray'
      <4>1. CASE d = c
        BY <2>0, <3>1, <4>1
      <4>2. CASE d # c
        BY <2>0, <2>1, <4>2 DEF OthersWrite
      <4> QED BY <4>1, <4>2
    <3> QED BY <2>0, <2>1, <3>2, <3>3, <3>4
  <2>2. CASE q # p
    <3>1. d # c /\ e # c
      BY <2>0, <2>2
    <3>2. writing'[d] = writing[d] /\ writing'[e] = writing[e]
      BY <3>1 DEF OthersWrite
    <3>3. /\ Pos!TagsOf(q) \subseteq astray /\ Pos!OriginalOf(q) \subseteq astray /\ u.add \union u.tag \subseteq astray
      BY <2>0, <3>2 DEF PostsInv, PostRows
    <3>4. q \in PostIds \ {p}
      BY <2>0, <2>2, <3>2, StageOf
    <3>5. Pos!TagsOf(q)' = Pos!TagsOf(q) /\ Pos!OriginalOf(q)' = Pos!OriginalOf(q)
      BY <1>1, <3>4
    <3> QED BY <2>0, <3>3, <3>5
  <2> QED BY <2>1, <2>2
<1>6. ASSUME NEW x \in Pos!Counted, NEW q \in PostIds \ {p}
      PROVE  q \in Pos!Rows(x)' <=> q \in Pos!Rows(x)
  <2>1. CASE x \in Tags
    <3>1. (q \in Pos!Rows(x) <=> x \in Pos!TagsOf(q)) /\ (q \in Pos!Rows(x)' <=> x \in Pos!TagsOf(q)')
      BY <2>1 DEF Pos!Rows, Pos!TagsOf
    <3> QED BY <3>1
  <2>2. CASE x \notin Tags
    BY <2>2 DEF Pos!Rows
  <2> QED BY <2>1, <2>2
<1> QED BY <1>2, <1>3, <1>4, <1>5, <1>6 DEF PostRows

\* Such a step leaves the counters, so a row comes or goes with its debt.
LEMMA StepOnPost ==
  ASSUME PostsInv, PostTypes', NEW c \in Writers, NEW p \in PostIds, NEW w, w = writing[c], NEW v, v = writing'[c],
         OthersWrite(c), PostRows', astray \subseteq astray', counter' = counter,
         \A d \in Writers \ {c} : \A x :
              /\ x \notin astray' => (OwesRow(writing[d], x)' <=> OwesRow(writing[d], x))
              /\ MayInc(writing[d], x)' <=> MayInc(writing[d], x),
         \A x \in Pos!Counted : \A q \in PostIds \ {p} : q \in Pos!Rows(x)' <=> q \in Pos!Rows(x),
         \A x \in Pos!Counted \ astray' :
           \/ (OwesRow(v, x)' <=> OwesRow(w, x)) /\ (p \in Pos!Rows(x)' <=> p \in Pos!Rows(x))
           \/ (OwesRow(v, x)' <=> p \in Pos!Rows(x)') /\ (OwesRow(w, x) <=> p \in Pos!Rows(x)),
         \/ writes' = writes + 1
         \/ writes' = writes /\ \A x : (MayInc(v, x)' => MayInc(w, x)) /\ (MayDec(v, x)' => MayDec(w, x))
  PROVE  PostsInv'
<1>1. \A x \in Pos!Counted : counter'[x] = counter[x] /\ counter[x] \in Int
  BY DEF PostsInv, PostTypes
<1>2. PostBalance'
  <2>1. ASSUME NEW x \in Pos!Counted \ astray' PROVE PostNet(c, p, x)' = PostNet(c, p, x)
    <3>1. OwedN(c, x)' - RowN(p, x)' = OwedN(c, x) - RowN(p, x)
      <4>1. CASE (OwesRow(v, x)' <=> OwesRow(w, x)) /\ (p \in Pos!Rows(x)' <=> p \in Pos!Rows(x))
        <5>1. OwedN(c, x)' = OwedN(c, x) /\ RowN(p, x)' = RowN(p, x)
          BY <4>1 DEF OwedN, RowN
        <5> QED BY <5>1
      <4>2. CASE (OwesRow(v, x)' <=> p \in Pos!Rows(x)') /\ (OwesRow(w, x) <=> p \in Pos!Rows(x))
        <5>1. OwedN(c, x)' = RowN(p, x)' /\ OwedN(c, x) = RowN(p, x)
          BY <4>2 DEF OwedN, RowN
        <5> QED BY <5>1, PostIndicators
      <4> QED BY <4>1, <4>2
    <3> QED BY <1>1, <3>1, PostIndicators DEF PostNet
  <2>2. \A x \in Pos!Counted \ astray' :
           /\ \A d \in Writers \ {c} : OwesRow(writing[d], x)' <=> OwesRow(writing[d], x)
           /\ \A q \in PostIds \ {p} : q \in Pos!Rows(x)' <=> q \in Pos!Rows(x)
           /\ PostNet(c, p, x)' = PostNet(c, p, x)
    BY <2>1
  <2> QED BY <2>2, PostCounting
<1>3. PostBounds'
  <2>1. \A x \in Pos!Counted :
          /\ \A d \in Writers \ {c} : MayInc(writing[d], x)' <=> MayInc(writing[d], x)
          /\ counter'[x] + IncN(c, x)' - writes' <= counter[x] + IncN(c, x) - writes
          /\ DecN(c, x)' - counter'[x] - writes' <= DecN(c, x) - counter[x] - writes
    <3> TAKE x \in Pos!Counted
    <3> DEFINE a == counter[x]
               b == counter'[x]
               g == IncN(c, x)
               h == IncN(c, x)'
               l == DecN(c, x)
               m == DecN(c, x)'
               n == writes
               o == writes'
    <3>1. a \in Int /\ b = a /\ n \in Int /\ o \in Int
      BY <1>1, PostsAssumption DEF PostsInv, PostTypes
    <3>2. g \in {0, 1} /\ h \in {0, 1} /\ l \in {0, 1} /\ m \in {0, 1}
      BY PostIndicators
    <3>3. o = n + 1 \/ (o = n /\ h <= g /\ m <= l)
      BY DEF IncN, DecN
    <3> HIDE DEF a, b, g, h, l, m, n, o
    <3>4. b + h - o <= a + g - n /\ m - b - o <= l - a - n
      BY <3>1, <3>2, <3>3
    <3> QED BY <3>4 DEF a, b, g, h, l, m, n, o
  <2> QED BY <2>1, PostBounding
<1> QED BY <1>2, <1>3 DEF PostsInv

\* Requests for one post: what the one who is at it leaves to the others.
LEMMA SharedPost ==
  ASSUME PostsInv, NEW c \in Writers, NEW d \in Writers \ {c}, NEW w, w = writing[c],
         w.at # "idle", writing[d].at # "idle", writing[d].post = w.post
  PROVE  /\ Pos!TagsOf(w.post) \subseteq astray /\ Pos!OriginalOf(w.post) \subseteq astray
         /\ writing[d].add \union writing[d].tag \subseteq astray
         /\ w.add \union w.tag \subseteq astray
<1>1. /\ Pos!TagsOf(writing[c].post) \subseteq astray
      /\ Pos!OriginalOf(writing[c].post) \subseteq astray
      /\ writing[c].add \union writing[c].tag \subseteq astray
  BY DEF PostsInv, PostRows
<1>2. writing[d].add \union writing[d].tag \subseteq astray
  BY DEF PostsInv, PostRows
<1> QED BY <1>1, <1>2

\* The post is soft-deleted: the repost that was counted off is no row any more.
LEMMA DropPostStep ==
  ASSUME PostsInv, NEW c \in Writers, Pos!SoftDelete(c)
  PROVE  PostsInv'
<1>0. PICK w, v, p : w = writing[c] /\ v = Pos!Idle /\ p = w.post
  OBVIOUS
<1>1. /\ w.at = "softDelete" /\ writing' = [writing EXCEPT ![c] = v] /\ post' = [post EXCEPT ![p] = "deleted"]
      /\ UNCHANGED <<original, hashtags, tagged, counter, writes, postFaults, astray>>
  BY <1>0 DEF Pos!SoftDelete, Pos!GoTo
<1>2. /\ w \in WritingRecords /\ p \in PostIds /\ w.kind = "delete" /\ w.done = {}
      /\ post[p] = "live" \/ Pos!OriginalOf(p) \subseteq astray
      /\ post[p] \in {"absent", "live", "deleted"}
  <2>1. w \in WritingRecords /\ WriterStage(w) /\ p \in PostIds
    BY <1>0, <1>1, StageOf
  <2>2. post[p] \in {"absent", "live", "deleted"}
    BY <2>1 DEF PostsInv, PostTypes
  <2> QED BY <1>0, <1>1, <2>1, <2>2 DEF WriterStage
<1>3. v \in WritingRecords /\ v.at = "idle" /\ WriterStage(v)'
  BY <1>0, WritingIdle
<1>4. writing' \in [Writers -> WritingRecords] /\ writing'[c] = v /\ OthersWrite(c)
  BY <1>1, <1>3, WritingMoves DEF PostsInv
<1>5. PostTypes'
  <2>1. post' \in [PostIds -> {"absent", "live", "deleted"}]
    BY <1>1 DEF PostsInv, PostTypes
  <2>2. Pos!Counted' = Pos!Counted
    BY DEF Pos!Counted
  <2> QED BY <1>1, <1>4, <2>1, <2>2 DEF PostsInv, PostTypes
<1>6. \A q : Pos!TagsOf(q)' = Pos!TagsOf(q) /\ Pos!OriginalOf(q)' = Pos!OriginalOf(q)
  BY <1>1 DEF Pos!TagsOf, Pos!OriginalOf
<1>7. post'[p] = "deleted" /\ \A q \in PostIds \ {p} : post'[q] = post[q]
  BY <1>1, <1>2 DEF PostsInv, PostTypes
<1>8. \A d \in Writers \ {c} : writing[d].at # "idle" /\ writing[d].post = p =>
           /\ original'[p] = original[p] /\ Pos!OriginalOf(p) \subseteq astray'
           /\ Pos!TagsOf(p)' \union Pos!TagsOf(p) \subseteq astray'
           /\ writing[d].add \union writing[d].tag \subseteq astray'
           /\ v.at # "idle" => v.add \union v.tag \subseteq astray'
  <2> TAKE d \in Writers \ {c}
  <2> HAVE writing[d].at # "idle" /\ writing[d].post = p
  <2>1. w.at # "idle"
    BY <1>1
  <2>2. /\ Pos!TagsOf(p) \subseteq astray /\ Pos!OriginalOf(p) \subseteq astray
        /\ writing[d].add \union writing[d].tag \subseteq astray
    BY <1>0, <2>1, SharedPost
  <2> QED BY <1>1, <1>3, <1>6, <2>2
<1>9. \A q \in PostIds \ {p} :
        Pos!TagsOf(q)' = Pos!TagsOf(q) /\ original'[q] = original[q] /\ post'[q] = post[q]
  BY <1>1, <1>6, <1>7
<1>10. astray \subseteq astray' /\ hashtags \subseteq hashtags' /\ post'[p] # "absent"
  BY <1>1, <1>7
<1>11. /\ PostRows'
       /\ \A d \in Writers \ {c} : \A x :
            /\ x \notin astray' => (OwesRow(writing[d], x)' <=> OwesRow(writing[d], x))
            /\ MayInc(writing[d], x)' <=> MayInc(writing[d], x)
       /\ \A x \in Pos!Counted : \A q \in PostIds \ {p} : q \in Pos!Rows(x)' <=> q \in Pos!Rows(x)
  BY <1>2, <1>3, <1>4, <1>5, <1>8, <1>9, <1>10, OnePostMoves
<1>12. \A x \in Pos!Counted \ astray' :
         \/ (OwesRow(v, x)' <=> OwesRow(w, x)) /\ (p \in Pos!Rows(x)' <=> p \in Pos!Rows(x))
         \/ (OwesRow(v, x)' <=> p \in Pos!Rows(x)') /\ (OwesRow(w, x) <=> p \in Pos!Rows(x))
  <2> TAKE x \in Pos!Counted \ astray'
  <2>0. ~OwesRow(v, x)' /\ (OwesRow(w, x) <=> x \in Pos!OriginalOf(p)) /\ x \notin astray
    BY <1>0, <1>1, <1>2, WritingIdle DEF OwesRow
  <2>1. CASE x \in Tags
    <3>1. x \notin Pos!OriginalOf(p)
      BY <1>2, <2>1, TagsApart, TablesOf DEF PostsInv
    <3>2. p \in Pos!Rows(x)' <=> p \in Pos!Rows(x)
      BY <1>1, <2>1 DEF Pos!Rows
    <3> QED BY <2>0, <3>1, <3>2
  <2>2. CASE x \notin Tags
    <3>1. x # 0 /\ (x \in Pos!OriginalOf(p) <=> original[p] = x)
      BY <2>2, TagsApart DEF Pos!Counted, Pos!OriginalOf
    <3>2. p \notin Pos!Rows(x)'
      BY <1>7, <2>2 DEF Pos!Rows
    <3>3. p \in Pos!Rows(x) <=> original[p] = x /\ post[p] = "live"
      BY <1>2, <2>2 DEF Pos!Rows
    <3> QED BY <1>2, <2>0, <3>1, <3>2, <3>3
  <2> QED BY <2>1, <2>2
<1>13. writes' = writes /\ \A x : (MayInc(v, x)' => MayInc(w, x)) /\ (MayDec(v, x)' => MayDec(w, x))
  BY <1>0, <1>1, WritingIdle
<1> QED BY <1>0, <1>1, <1>2, <1>4, <1>5, <1>10, <1>11, <1>12, <1>13, StepOnPost

\* A row is saved: it is owed until it is counted.
LEMMA SaveTagStep ==
  ASSUME PostsInv, NEW c \in Writers, Pos!SaveTag(c)
  PROVE  PostsInv'
<1>0. PICK w, p : w = writing[c] /\ p = w.post
  OBVIOUS
<1> DEFINE v == [w EXCEPT !.at = "incTag"]
<1>1. /\ w.at = "saveTag" /\ writing' = [writing EXCEPT ![c] = v] /\ tagged' = tagged \union ({p} \X w.tag)
      /\ UNCHANGED <<post, original, hashtags, counter, writes, postFaults, astray>>
  BY <1>0 DEF Pos!SaveTag, Pos!GoTo
<1>2. w \in WritingRecords /\ WriterStage(w) /\ p \in PostIds
  BY <1>0, <1>1, StageOf
<1>3. PICK t \in Tags : /\ w.tag = {t} /\ t \notin w.add /\ t \in hashtags /\ w.done = {}
                        /\ (w.add \union {t}) \intersect Pos!TagsOf(p) \subseteq astray
                        /\ w.kind \in {"create", "update"} /\ post[p] # "absent"
  BY <1>0, <1>1, <1>2 DEF WriterStage
<1>4. /\ v \in WritingRecords /\ v.at = "incTag" /\ v.kind = w.kind /\ v.post = p /\ v.tag = {t}
      /\ v.add = w.add /\ v.rows = w.rows /\ v.done = {}
  BY <1>0, <1>2, <1>3 DEF WritingRecords
<1> HIDE DEF v
<1>5. writing' \in [Writers -> WritingRecords] /\ writing'[c] = v /\ OthersWrite(c)
  BY <1>1, <1>4, WritingMoves DEF PostsInv
<1>6. PostTypes'
  <2>1. tagged' \subseteq PostIds \X hashtags'
    BY <1>1, <1>2, <1>3 DEF PostsInv, PostTypes
  <2>2. Pos!Counted' = Pos!Counted
    BY DEF Pos!Counted
  <2> QED BY <1>1, <1>5, <2>1, <2>2 DEF PostsInv, PostTypes
<1>7. /\ \A q : Pos!OriginalOf(q)' = Pos!OriginalOf(q)
      /\ Pos!TagsOf(p)' = Pos!TagsOf(p) \union {t}
      /\ \A q \in PostIds \ {p} : Pos!TagsOf(q)' = Pos!TagsOf(q)
  <2>1. \A q, s : <<q, s>> \in tagged' <=> <<q, s>> \in tagged \/ (q = p /\ s = t)
    BY <1>1, <1>3
  <2> QED BY <1>1, <2>1 DEF Pos!TagsOf, Pos!OriginalOf
<1>8. WriterStage(v)'
  <2>1. v.add \intersect Pos!TagsOf(p)' \subseteq astray'
    BY <1>1, <1>3, <1>4, <1>7
  <2> QED BY <1>1, <1>2, <1>3, <1>4, <2>1 DEF WriterStage
<1>9. \A d \in Writers \ {c} : writing[d].at # "idle" /\ writing[d].post = p =>
           /\ original'[p] = original[p] /\ Pos!OriginalOf(p) \subseteq astray'
           /\ Pos!TagsOf(p)' \union Pos!TagsOf(p) \subseteq astray'
           /\ writing[d].add \union writing[d].tag \subseteq astray'
           /\ v.at # "idle" => v.add \union v.tag \subseteq astray'
  <2> TAKE d \in Writers \ {c}
  <2> HAVE writing[d].at # "idle" /\ writing[d].post = p
  <2>1. w.at # "idle"
    BY <1>1
  <2>2. /\ Pos!TagsOf(p) \subseteq astray /\ Pos!OriginalOf(p) \subseteq astray
        /\ writing[d].add \union writing[d].tag \subseteq astray
        /\ w.add \union w.tag \subseteq astray
    BY <1>0, <2>1, SharedPost
  <2> QED BY <1>1, <1>3, <1>4, <1>7, <2>2
<1>10. /\ \A q \in PostIds \ {p} :
           Pos!TagsOf(q)' = Pos!TagsOf(q) /\ original'[q] = original[q] /\ post'[q] = post[q]
       /\ astray \subseteq astray' /\ hashtags \subseteq hashtags' /\ post'[p] # "absent"
  BY <1>1, <1>3, <1>7
<1>11. /\ PostRows'
       /\ \A d \in Writers \ {c} : \A x :
            /\ x \notin astray' => (OwesRow(writing[d], x)' <=> OwesRow(writing[d], x))
            /\ MayInc(writing[d], x)' <=> MayInc(writing[d], x)
       /\ \A x \in Pos!Counted : \A q \in PostIds \ {p} : q \in Pos!Rows(x)' <=> q \in Pos!Rows(x)
  BY <1>2, <1>4, <1>5, <1>6, <1>8, <1>9, <1>10, OnePostMoves
<1>12. \A x \in Pos!Counted \ astray' :
         \/ (OwesRow(v, x)' <=> OwesRow(w, x)) /\ (p \in Pos!Rows(x)' <=> p \in Pos!Rows(x))
         \/ (OwesRow(v, x)' <=> p \in Pos!Rows(x)') /\ (OwesRow(w, x) <=> p \in Pos!Rows(x))
  <2> TAKE x \in Pos!Counted \ astray'
  <2>0. /\ OwesRow(w, x) <=> w.kind = "create" /\ x \in Pos!OriginalOf(p)
        /\ OwesRow(v, x)' <=> x = t \/ (w.kind = "create" /\ x \in Pos!OriginalOf(p))
    BY <1>0, <1>1, <1>3, <1>4, <1>7 DEF OwesRow
  <2>1. CASE x = t
    <3>1. x \notin Pos!OriginalOf(p)
      BY <1>2, <2>1, TagsApart, TablesOf DEF PostsInv
    <3>2. p \in Pos!Rows(x)' /\ p \notin Pos!Rows(x)
      <4>1. x \in Pos!TagsOf(p)' /\ x \notin Pos!TagsOf(p)
        BY <1>1, <1>3, <1>7, <2>1
      <4> QED BY <1>2, <2>1, <4>1 DEF Pos!Rows, Pos!TagsOf
    <3> QED BY <2>0, <2>1, <3>1, <3>2
  <2>2. CASE x # t
    <3>1. x \in Pos!TagsOf(p)' <=> x \in Pos!TagsOf(p)
      BY <1>7, <2>2
    <3>2. p \in Pos!Rows(x)' <=> p \in Pos!Rows(x)
      BY <1>1, <3>1 DEF Pos!Rows, Pos!TagsOf
    <3> QED BY <2>0, <2>2, <3>2
  <2> QED BY <2>1, <2>2
<1>13. writes' = writes /\ \A x : (MayInc(v, x)' => MayInc(w, x)) /\ (MayDec(v, x)' => MayDec(w, x))
  BY <1>0, <1>1, <1>3, <1>4, <1>7 DEF MayInc, MayDec
<1> QED BY <1>0, <1>1, <1>2, <1>5, <1>6, <1>10, <1>11, <1>12, <1>13, StepOnPost

\* The rows are removed: what was counted off is no row any more.
LEMMA DropRowsStep ==
  ASSUME PostsInv, NEW c \in Writers, Pos!DropRows(c)
  PROVE  PostsInv'
<1>0. PICK w, p : w = writing[c] /\ p = w.post
  OBVIOUS
<1> DEFINE o == Pos!OriginalOf(p)
<1>1. /\ w.at = "dropRows" /\ tagged' = {r \in tagged : r[1] # p}
      /\ writing' = [writing EXCEPT ![c] = Pos!Untagged(w, o)]
      /\ UNCHANGED <<post, original, hashtags, counter, writes, postFaults, astray>>
  BY <1>0 DEF Pos!DropRows, Pos!GoTo
<1>2. w \in WritingRecords /\ WriterStage(w) /\ p \in PostIds /\ o \in SUBSET PostIds
  BY <1>0, <1>1, StageOf
<1>3. /\ w.rows = {} /\ w.tag = {} /\ post[p] # "absent" /\ w.kind \in {"update", "delete"}
      /\ w.done \subseteq Pos!TagsOf(p) \union astray /\ Pos!TagsOf(p) \subseteq w.done \union astray
      /\ w.kind = "delete" => w.add = {} /\ (post[p] # "live" => o \subseteq astray)
  <2> HIDE DEF o
  <2> QED BY <1>0, <1>1, <1>2 DEF WriterStage, o
<1>4. PICK v \in WritingRecords :
        /\ v = Pos!Untagged(w, o) /\ v.at \in {"idle", "findTag", "decShare", "softDelete"}
        /\ v.at = "idle" => v = Pos!Idle
        /\ v.at # "idle" => v.kind = w.kind /\ v.post = p /\ v.tag = {} /\ v.add = w.add /\ v.done = {}
        /\ v.at = "findTag" => w.kind = "update"
        /\ v.at = "decShare" => w.kind = "delete"
        /\ v.at = "softDelete" => w.kind = "delete" /\ o = {}
  <2> HIDE DEF o
  <2>1. CASE w.kind = "update"
    <3>1. PICK v : v = Pos!TagMore(w, o) /\ v \in WritingRecords /\ More(w, v, o)
      BY <1>2, TagMoreIs DEF More
    <3>2. v = Pos!Untagged(w, o)
      BY <2>1, <3>1 DEF Pos!Untagged
    <3>3. \/ v = Pos!Idle
          \/ v.at = "findTag" /\ v.kind = w.kind /\ v.post = w.post /\ v.tag = {} /\ v.add = w.add /\ v.done = {}
      BY <1>3, <2>1, <3>1 DEF More
    <3> QED BY <1>0, <2>1, <3>1, <3>2, <3>3, WritingIdle
  <2>2. CASE w.kind = "delete"
    <3>1. PICK a \in {"decShare", "softDelete"} : a = (IF o # {} THEN "decShare" ELSE "softDelete")
      OBVIOUS
    <3> DEFINE v == [w EXCEPT !.at = a, !.done = {}]
    <3>2. /\ v \in WritingRecords /\ v.at = a /\ v.kind = w.kind /\ v.post = w.post /\ v.tag = {}
          /\ v.add = w.add /\ v.done = {}
      BY <1>2, <1>3 DEF WritingRecords
    <3>3. v = Pos!Untagged(w, o)
      BY <2>2, <3>1 DEF Pos!Untagged
    <3> HIDE DEF v
    <3> QED BY <1>0, <2>2, <3>1, <3>2, <3>3
  <2> QED BY <1>3, <2>1, <2>2
<1>5. /\ writing' = [writing EXCEPT ![c] = v] /\ writing' \in [Writers -> WritingRecords]
      /\ writing'[c] = v /\ OthersWrite(c)
  BY <1>1, <1>4, WritingMoves DEF PostsInv
<1>6. PostTypes'
  <2>1. tagged' \subseteq PostIds \X hashtags'
    BY <1>1 DEF PostsInv, PostTypes
  <2>2. Pos!Counted' = Pos!Counted
    BY DEF Pos!Counted
  <2> QED BY <1>1, <1>5, <2>1, <2>2 DEF PostsInv, PostTypes
<1>7. /\ \A q : Pos!OriginalOf(q)' = Pos!OriginalOf(q)
      /\ Pos!TagsOf(p)' = {}
      /\ \A q \in PostIds \ {p} : Pos!TagsOf(q)' = Pos!TagsOf(q)
  <2>1. \A q, s : <<q, s>> \in tagged' <=> <<q, s>> \in tagged /\ q # p
    BY <1>1
  <2> QED BY <1>1, <2>1 DEF Pos!TagsOf, Pos!OriginalOf
<1>8. WriterStage(v)'
  <2>1. CASE v.at = "idle"
    BY <1>4, <2>1, WritingIdle
  <2>2. CASE v.at # "idle"
    <3>1. Pos!TagsOf(v.post)' = {} /\ Pos!OriginalOf(v.post)' = o
      BY <1>4, <1>7, <2>2
    <3> HIDE DEF o
    <3> QED BY <1>1, <1>2, <1>3, <1>4, <2>2, <3>1 DEF WriterStage
  <2> QED BY <2>1, <2>2
<1>9. \A d \in Writers \ {c} : writing[d].at # "idle" /\ writing[d].post = p =>
           /\ original'[p] = original[p] /\ Pos!OriginalOf(p) \subseteq astray'
           /\ Pos!TagsOf(p)' \union Pos!TagsOf(p) \subseteq astray'
           /\ writing[d].add \union writing[d].tag \subseteq astray'
           /\ v.at # "idle" => v.add \union v.tag \subseteq astray'
  <2> TAKE d \in Writers \ {c}
  <2> HAVE writing[d].at # "idle" /\ writing[d].post = p
  <2>1. w.at # "idle"
    BY <1>1
  <2>2. /\ Pos!TagsOf(p) \subseteq astray /\ Pos!OriginalOf(p) \subseteq astray
        /\ writing[d].add \union writing[d].tag \subseteq astray
        /\ w.add \union w.tag \subseteq astray
    BY <1>0, <2>1, SharedPost
  <2> QED BY <1>1, <1>4, <1>7, <2>2
<1>10. /\ \A q \in PostIds \ {p} :
           Pos!TagsOf(q)' = Pos!TagsOf(q) /\ original'[q] = original[q] /\ post'[q] = post[q]
       /\ astray \subseteq astray' /\ hashtags \subseteq hashtags' /\ post'[p] # "absent"
  BY <1>1, <1>3, <1>7
<1>11. /\ PostRows'
       /\ \A d \in Writers \ {c} : \A x :
            /\ x \notin astray' => (OwesRow(writing[d], x)' <=> OwesRow(writing[d], x))
            /\ MayInc(writing[d], x)' <=> MayInc(writing[d], x)
       /\ \A x \in Pos!Counted : \A q \in PostIds \ {p} : q \in Pos!Rows(x)' <=> q \in Pos!Rows(x)
  BY <1>2, <1>4, <1>5, <1>6, <1>8, <1>9, <1>10, OnePostMoves
<1>12. \A x \in Pos!Counted \ astray' :
         \/ (OwesRow(v, x)' <=> OwesRow(w, x)) /\ (p \in Pos!Rows(x)' <=> p \in Pos!Rows(x))
         \/ (OwesRow(v, x)' <=> p \in Pos!Rows(x)') /\ (OwesRow(w, x) <=> p \in Pos!Rows(x))
  <2> TAKE x \in Pos!Counted \ astray'
  <2>0. (OwesRow(w, x) <=> x \in w.done /\ x \in Pos!TagsOf(p)) /\ ~OwesRow(v, x)'
    <3>1. OwesRow(w, x) <=> x \in w.done /\ x \in Pos!TagsOf(p)
      BY <1>0, <1>1, <1>3 DEF OwesRow
    <3>2. CASE v.at = "idle"
      BY <1>4, <3>1, <3>2, WritingIdle
    <3>3. CASE v.at # "idle"
      <4>1. Pos!OriginalOf(v.post)' = o
        BY <1>4, <1>7, <3>3
      <4> HIDE DEF o
      <4> QED BY <1>3, <1>4, <3>1, <3>3, <4>1 DEF OwesRow
    <3> QED BY <3>2, <3>3
  <2>1. OwesRow(w, x) <=> x \in Pos!TagsOf(p)
    BY <1>1, <1>3, <2>0
  <2>2. CASE x \in Tags
    <3>1. p \in Pos!Rows(x) <=> x \in Pos!TagsOf(p)
      BY <1>2, <2>2 DEF Pos!Rows, Pos!TagsOf
    <3>2. p \in Pos!Rows(x)' <=> x \in Pos!TagsOf(p)'
      BY <1>2, <2>2 DEF Pos!Rows, Pos!TagsOf
    <3> QED BY <1>7, <2>0, <2>1, <3>1, <3>2
  <2>3. CASE x \notin Tags
    <3>1. p \in Pos!Rows(x)' <=> p \in Pos!Rows(x)
      BY <1>1, <2>3 DEF Pos!Rows
    <3>2. x \notin Pos!TagsOf(p)
      BY <2>3 DEF Pos!TagsOf
    <3> QED BY <2>0, <2>1, <3>1, <3>2
  <2> QED BY <2>2, <2>3
<1>13. \A x : (MayInc(v, x)' => MayInc(w, x)) /\ (MayDec(v, x)' => MayDec(w, x))
  <2>1. CASE v.at = "idle"
    BY <1>4, <2>1, WritingIdle
  <2>2. CASE v.at # "idle"
    BY <1>1, <1>3, <1>4, <2>2 DEF MayInc, MayDec
  <2> QED BY <2>1, <2>2
<1> QED BY <1>0, <1>1, <1>2, <1>5, <1>6, <1>10, <1>11, <1>12, <1>13, StepOnPost

\* An update or a delete opens; if another is open for the post it is astray.
LEMMA ChangeStep ==
  ASSUME PostsInv, NEW c \in Writers, NEW k \in {"update", "delete"}, NEW T \in SUBSET Tags,
         k = "delete" => T = {}, Pos!Change(c, k, T)
  PROVE  PostsInv'
<1>0. PICK w : w = writing[c] /\ w = Pos!Idle
  BY DEF Pos!Change
<1>1. /\ writes < MaxWrites /\ writes' = writes + 1
      /\ UNCHANGED <<post, original, hashtags, tagged, counter, postFaults>>
  BY DEF Pos!Change
<1>2. PICK p \in PostIds :
        /\ post[p] = "live"
        /\ writing' = [writing EXCEPT ![c] = [Pos!Idle EXCEPT !.at = "findRows", !.kind = k, !.post = p, !.add = T]]
        /\ astray' = IF Pos!Open(p) = {} THEN astray
                     ELSE astray \union Pos!TagsOf(p) \union T \union Pos!OriginalOf(p)
                          \union UNION {writing[d].add \union writing[d].tag : d \in Pos!Open(p)}
  BY DEF Pos!Change, Pos!GoTo
<1> DEFINE v == [Pos!Idle EXCEPT !.at = "findRows", !.kind = k, !.post = p, !.add = T]
<1>3. /\ v \in WritingRecords /\ v.at = "findRows" /\ v.kind = k /\ v.post = p /\ v.tag = {}
      /\ v.add = T /\ v.done = {}
  BY TagsApart DEF WritingRecords, Pos!Idle
<1> HIDE DEF v
<1>4. /\ writing' = [writing EXCEPT ![c] = v] /\ writing' \in [Writers -> WritingRecords]
      /\ writing'[c] = v /\ OthersWrite(c)
  BY <1>2, <1>3, WritingMoves DEF PostsInv, v
<1>5. astray \subseteq astray' /\ astray' \subseteq Pos!Counted
  <2>1. Pos!TagsOf(p) \in SUBSET Tags /\ Pos!OriginalOf(p) \in SUBSET PostIds
    BY TablesOf DEF PostsInv
  <2>2. \A d \in Pos!Open(p) : writing[d].add \union writing[d].tag \subseteq Tags
    BY StageOf, WritingFields DEF Pos!Open
  <2>3. UNION {writing[d].add \union writing[d].tag : d \in Pos!Open(p)} \subseteq Tags
    BY <2>2
  <2>4. astray \subseteq Pos!Counted
    BY DEF PostsInv, PostTypes
  <2> QED BY <1>2, <2>1, <2>3, <2>4 DEF Pos!Counted
<1>6. PostTypes'
  <2>1. writes' \in 0..MaxWrites
    BY <1>1, PostsAssumption DEF PostsInv, PostTypes
  <2>2. Pos!Counted' = Pos!Counted
    BY DEF Pos!Counted
  <2> QED BY <1>1, <1>4, <1>5, <2>1, <2>2 DEF PostsInv, PostTypes
<1>7. \A q : Pos!OriginalOf(q)' = Pos!OriginalOf(q) /\ Pos!TagsOf(q)' = Pos!TagsOf(q)
  BY <1>1 DEF Pos!TagsOf, Pos!OriginalOf
<1>8. WriterStage(v)'
  BY <1>1, <1>2, <1>3 DEF WriterStage
<1>9. \A d \in Writers \ {c} : writing[d].at # "idle" /\ writing[d].post = p =>
           /\ original'[p] = original[p] /\ Pos!OriginalOf(p) \subseteq astray'
           /\ Pos!TagsOf(p)' \union Pos!TagsOf(p) \subseteq astray'
           /\ writing[d].add \union writing[d].tag \subseteq astray'
           /\ v.at # "idle" => v.add \union v.tag \subseteq astray'
  <2> TAKE d \in Writers \ {c}
  <2> HAVE writing[d].at # "idle" /\ writing[d].post = p
  <2>1. d \in Pos!Open(p)
    BY WritingIdle DEF Pos!Open
  <2>2. astray' = astray \union Pos!TagsOf(p) \union T \union Pos!OriginalOf(p)
                  \union UNION {writing[e].add \union writing[e].tag : e \in Pos!Open(p)}
    BY <1>2, <2>1
  <2>3. writing[d].add \union writing[d].tag \subseteq UNION {writing[e].add \union writing[e].tag : e \in Pos!Open(p)}
    BY <2>1
  <2> QED BY <1>1, <1>3, <1>7, <2>2, <2>3
<1>10. /\ \A q \in PostIds \ {p} :
           Pos!TagsOf(q)' = Pos!TagsOf(q) /\ original'[q] = original[q] /\ post'[q] = post[q]
       /\ hashtags \subseteq hashtags' /\ post'[p] # "absent"
  BY <1>1, <1>2, <1>7
<1>11. /\ PostRows'
       /\ \A d \in Writers \ {c} : \A x :
            /\ x \notin astray' => (OwesRow(writing[d], x)' <=> OwesRow(writing[d], x))
            /\ MayInc(writing[d], x)' <=> MayInc(writing[d], x)
       /\ \A x \in Pos!Counted : \A q \in PostIds \ {p} : q \in Pos!Rows(x)' <=> q \in Pos!Rows(x)
  BY <1>3, <1>4, <1>5, <1>6, <1>8, <1>9, <1>10, OnePostMoves
<1>12. \A x \in Pos!Counted \ astray' :
         \/ (OwesRow(v, x)' <=> OwesRow(w, x)) /\ (p \in Pos!Rows(x)' <=> p \in Pos!Rows(x))
         \/ (OwesRow(v, x)' <=> p \in Pos!Rows(x)') /\ (OwesRow(w, x) <=> p \in Pos!Rows(x))
  <2>1. \A x : ~OwesRow(w, x) /\ ~OwesRow(v, x)'
    BY <1>0, <1>3, WritingIdle DEF OwesRow
  <2>2. \A x : p \in Pos!Rows(x)' <=> p \in Pos!Rows(x)
    BY <1>1 DEF Pos!Rows
  <2> QED BY <2>1, <2>2
<1> QED BY <1>0, <1>1, <1>4, <1>5, <1>6, <1>11, <1>12, StepOnPost

\* A post is inserted: nobody knows it yet, and a repost is owed to its original.
LEMMA InsertPostStep ==
  ASSUME PostsInv, NEW c \in Writers, NEW o \in PostIds \union {0}, NEW T \in SUBSET Tags,
         Pos!InsertPost(c, o, T)
  PROVE  PostsInv'
<1>0. PICK w : w = writing[c] /\ w = Pos!Idle
  BY DEF Pos!InsertPost
<1>1. /\ writes < MaxWrites /\ writes' = writes + 1
      /\ UNCHANGED <<hashtags, tagged, counter, postFaults, astray>>
  BY DEF Pos!InsertPost
<1>2. PICK p \in PostIds :
        /\ post[p] = "absent" /\ post' = [post EXCEPT ![p] = "live"] /\ original' = [original EXCEPT ![p] = o]
        /\ writing' = [writing EXCEPT ![c] =
             Pos!TagMore([Pos!Idle EXCEPT !.kind = "create", !.post = p, !.add = T], {o} \ {0})]
  BY DEF Pos!InsertPost, Pos!GoTo
<1> DEFINE r == [Pos!Idle EXCEPT !.kind = "create", !.post = p, !.add = T]
<1>3. PICK u \in WritingRecords :
        /\ u = r /\ u.at = "idle" /\ u.kind = "create" /\ u.post = p /\ u.tag = {} /\ u.add = T /\ u.done = {}
  <2>1. /\ r \in WritingRecords /\ r.at = "idle" /\ r.kind = "create" /\ r.post = p /\ r.tag = {}
        /\ r.add = T /\ r.done = {}
    BY TagsApart DEF WritingRecords, Pos!Idle
  <2> HIDE DEF r
  <2> QED BY <2>1
<1>4. PICK v \in WritingRecords :
        /\ v = Pos!TagMore(u, {o} \ {0})
        /\ \/ v = Pos!Idle /\ o = 0
           \/ /\ v.at \in {"findTag", "incShare"} /\ v.kind = "create" /\ v.post = p
              /\ v.tag = {} /\ v.add = T /\ v.done = {}
              /\ v.at = "incShare" => T = {}
  <2>1. PICK v : v = Pos!TagMore(u, {o} \ {0}) /\ v \in WritingRecords /\ More(u, v, {o} \ {0})
    BY <1>3, TagMoreIs DEF More
  <2>2. {o} \ {0} = {} => o = 0
    OBVIOUS
  <2> QED BY <1>3, <2>1, <2>2 DEF More
<1> HIDE DEF r
<1>5. /\ writing' = [writing EXCEPT ![c] = v] /\ writing' \in [Writers -> WritingRecords]
      /\ writing'[c] = v /\ OthersWrite(c)
  BY <1>2, <1>3, <1>4, WritingMoves DEF PostsInv, r
<1>6. PostTypes'
  <2>1. writes' \in 0..MaxWrites
    BY <1>1, PostsAssumption DEF PostsInv, PostTypes
  <2>2. Pos!Counted' = Pos!Counted
    BY DEF Pos!Counted
  <2>3. /\ post' \in [PostIds -> {"absent", "live", "deleted"}]
        /\ original' \in [PostIds -> PostIds \union {0}]
    BY <1>2 DEF PostsInv, PostTypes
  <2> QED BY <1>1, <1>5, <2>1, <2>2, <2>3 DEF PostsInv, PostTypes
<1>7. /\ \A q : Pos!TagsOf(q)' = Pos!TagsOf(q)
      /\ post'[p] = "live" /\ original'[p] = o
      /\ \A q \in PostIds \ {p} : post'[q] = post[q] /\ original'[q] = original[q]
      /\ Pos!TagsOf(p) = {} /\ original[p] = 0
  <2>1. \A q : Pos!TagsOf(q)' = Pos!TagsOf(q)
    BY <1>1 DEF Pos!TagsOf
  <2>2. /\ post'[p] = "live" /\ original'[p] = o
        /\ \A q \in PostIds \ {p} : post'[q] = post[q] /\ original'[q] = original[q]
    BY <1>2 DEF PostsInv, PostTypes
  <2> QED BY <1>2, <2>1, <2>2 DEF PostsInv, PostRows
<1>8. WriterStage(v)'
  <2>1. CASE v = Pos!Idle
    BY <2>1, WritingIdle
  <2>2. CASE v # Pos!Idle
    <3>1. Pos!TagsOf(v.post)' = {} /\ post'[v.post] = "live" /\ v.post \in PostIds
      BY <1>4, <1>7, <2>2
    <3> QED BY <1>4, <2>2, <3>1 DEF WriterStage
  <2> QED BY <2>1, <2>2
<1>9. \A d \in Writers \ {c} : ~(writing[d].at # "idle" /\ writing[d].post = p)
  BY <1>2, StageOf DEF WriterStage
<1>10. /\ \A q \in PostIds \ {p} :
           Pos!TagsOf(q)' = Pos!TagsOf(q) /\ original'[q] = original[q] /\ post'[q] = post[q]
       /\ astray \subseteq astray' /\ hashtags \subseteq hashtags' /\ post'[p] # "absent"
       /\ v.at # "idle" => v.post = p
  BY <1>1, <1>4, <1>7, WritingIdle
<1>11. /\ PostRows'
       /\ \A d \in Writers \ {c} : \A x :
            /\ x \notin astray' => (OwesRow(writing[d], x)' <=> OwesRow(writing[d], x))
            /\ MayInc(writing[d], x)' <=> MayInc(writing[d], x)
       /\ \A x \in Pos!Counted : \A q \in PostIds \ {p} : q \in Pos!Rows(x)' <=> q \in Pos!Rows(x)
  BY <1>5, <1>6, <1>8, <1>9, <1>10, OnePostMoves
<1>12. ASSUME NEW x \in Pos!Counted \ astray'
       PROVE  (OwesRow(v, x)' <=> p \in Pos!Rows(x)') /\ (OwesRow(w, x) <=> p \in Pos!Rows(x))
  <2>1. {o} \ {0} \subseteq PostIds
    OBVIOUS
  <2>2. ~OwesRow(w, x)
    BY <1>0, WritingIdle
  <2>3. p \notin Pos!Rows(x)
    <3>1. <<p, x>> \in tagged => x \notin Tags
      BY <1>7 DEF Pos!TagsOf
    <3>2. x = 0 => x \in Tags
      BY TagsApart DEF Pos!Counted
    <3> QED BY <1>7, <3>1, <3>2 DEF Pos!Rows
  <2>4. p \in Pos!Rows(x)' <=> x \in {o} \ {0}
    <3>1. CASE x \in Tags
      <4>1. <<p, x>> \notin tagged'
        BY <1>7, <3>1 DEF Pos!TagsOf
      <4>2. x \notin {o} \ {0}
        BY <2>1, <3>1, TagsApart
      <4> QED BY <3>1, <4>1, <4>2 DEF Pos!Rows
    <3>2. CASE x \notin Tags
      <4>1. x # 0
        BY <3>2, TagsApart DEF Pos!Counted
      <4> QED BY <1>7, <3>2, <4>1 DEF Pos!Rows
    <3> QED BY <3>1, <3>2
  <2>5. OwesRow(v, x)' <=> x \in {o} \ {0}
    <3>1. CASE v = Pos!Idle
      BY <1>4, <2>1, <3>1, WritingIdle
    <3>2. CASE v # Pos!Idle
      <4>1. Pos!OriginalOf(v.post)' = {o} \ {0}
        BY <1>4, <1>7, <3>2 DEF Pos!OriginalOf
      <4> QED BY <1>4, <2>1, <3>2, <4>1 DEF OwesRow
    <3> QED BY <3>1, <3>2
  <2> QED BY <2>2, <2>3, <2>4, <2>5
<1> QED BY <1>0, <1>1, <1>5, <1>6, <1>10, <1>11, <1>12, StepOnPost

\* With no posts all is balanced.
LEMMA PostInit == Pos!Init => PostsInv
<1> SUFFICES ASSUME Pos!Init PROVE PostsInv
  OBVIOUS
<1>1. \A c \in Writers : writing[c] = Pos!Idle
  BY DEF Pos!Init
<1>2. PostTypes
  <2>1. writing \in [Writers -> WritingRecords]
    BY <1>1, WritingIdle DEF Pos!Init
  <2>2. counter \in [Pos!Counted -> Int]
    BY DEF Pos!Init, Pos!Counted
  <2>3. /\ post \in [PostIds -> {"absent", "live", "deleted"}]
        /\ original \in [PostIds -> PostIds \union {0}]
    BY DEF Pos!Init
  <2>4. writes \in 0..MaxWrites
    BY PostsAssumption DEF Pos!Init
  <2> QED BY <2>1, <2>2, <2>3, <2>4 DEF Pos!Init, PostTypes
<1>3. PostRows
  BY <1>1, WritingIdle DEF Pos!Init, PostRows, Pos!TagsOf
<1>4. \A x : Owing(x) = {} /\ Inclined(x) = {} /\ Declined(x) = {}
  BY <1>1, OwedIs, WritingIdle DEF Owing, Inclined, Declined
<1>5. \A x \in Pos!Counted : Pos!Rows(x) = {} /\ counter[x] = 0
  <2> TAKE x \in Pos!Counted
  <2>1. Pos!Rows(x) = {}
    BY DEF Pos!Init, Pos!Rows
  <2> QED BY <2>1 DEF Pos!Init
<1>6. Cardinality({}) = 0
  BY FS_EmptySet
<1>7. PostBalance
  BY <1>4, <1>5, <1>6 DEF PostBalance
<1>8. PostBounds
  BY <1>4, <1>5, <1>6 DEF PostBounds, Pos!Init
<1> QED BY <1>2, <1>3, <1>7, <1>8 DEF PostsInv

\* Every step of posts keeps them balanced.
LEMMA PostStep ==
  ASSUME PostsInv, [Pos!Next]_postVars
  PROVE  PostsInv'
<1>1. CASE UNCHANGED postVars
  <2>1. UNCHANGED <<post, original, hashtags, tagged, counter, writing, writes, postFaults, astray>>
    BY <1>1 DEF postVars
  <2>2. (\A p : Pos!TagsOf(p)' = Pos!TagsOf(p) /\ Pos!OriginalOf(p)' = Pos!OriginalOf(p)) /\ Pos!Counted' = Pos!Counted
    BY <2>1 DEF Pos!TagsOf, Pos!OriginalOf, Pos!Counted
  <2>3. PostTypes'
    BY <2>1, <2>2 DEF PostsInv, PostTypes
  <2>4. \A w \in WritingRecords : WriterStage(w) => WriterStage(w)'
    BY <2>1, <2>2 DEF WriterStage
  <2>5. PostRows'
    <3>1. \A c \in Writers : WriterStage(writing[c])'
      <4> TAKE c \in Writers
      <4>1. PICK w : w = writing[c]
        OBVIOUS
      <4>2. WriterStage(w)'
        BY <2>4, <4>1, StageOf
      <4> QED BY <2>1, <4>1, <4>2
    <3>2. \A c \in Writers : writing'[c] = writing[c]
      BY <2>1
    <3> QED BY <2>1, <2>2, <3>1, <3>2 DEF PostsInv, PostRows
  <2>6. /\ \A x : Owing(x)' = Owing(x) /\ Inclined(x)' = Inclined(x) /\ Declined(x)' = Declined(x)
        /\ \A x : Pos!Rows(x)' = Pos!Rows(x)
    <3>1. \A c \in Writers : Pos!Owed(c)' = Pos!Owed(c)
      BY <2>1, <2>2 DEF Pos!Owed
    <3>2. \A c \in Writers : \A x : (MayInc(writing[c], x)' <=> MayInc(writing[c], x)) /\ (MayDec(writing[c], x)' <=> MayDec(writing[c], x))
      BY <2>1, <2>2 DEF MayInc, MayDec
    <3> QED BY <2>1, <3>1, <3>2 DEF Owing, Inclined, Declined, Pos!Rows
  <2>7. PostBalance' /\ PostBounds'
    BY <2>1, <2>2, <2>6 DEF PostsInv, PostBalance, PostBounds
  <2> QED BY <2>3, <2>5, <2>7 DEF PostsInv
<1>2. CASE Pos!Next
  <2>1. ASSUME NEW c \in Writers, Pos!Create(c) PROVE PostsInv'
    BY <2>1, InsertPostStep DEF Pos!Create
  <2>2. ASSUME NEW c \in Writers, Pos!Share(c) PROVE PostsInv'
    BY <2>2, InsertPostStep DEF Pos!Share
  <2>3. ASSUME NEW c \in Writers, Pos!Update(c) PROVE PostsInv'
    BY <2>3, ChangeStep DEF Pos!Update
  <2>4. ASSUME NEW c \in Writers, Pos!Delete(c) PROVE PostsInv'
    BY <2>4, ChangeStep DEF Pos!Delete
  <2> QED BY <1>2, <2>1, <2>2, <2>3, <2>4, FindRowsStep, DecTagStep, DropRowsStep, DecShareStep, DropPostStep,
            FindTagStep, InsertTagStep, SaveTagStep, IncTagStep, IncShareStep, PostFailStep DEF Pos!Next
<1> QED BY <1>1, <1>2

\* The posts stay weighed, with what the open requests have still to count.
THEOREM PostsInvariant == MCSpec => []PostsInv
<1>1. MCInit => PostsInv
  BY PostInit DEF MCInit
<1>2. PostsInv /\ [MCNext]_allVars => PostsInv'
  BY StepOfOne, PostStep
<1> QED BY <1>1, <1>2, PTL DEF MCSpec

\* What is balanced is explained, and the types hold with the bounds on counters.
LEMMA PostsAreExplained == PostsInv => Pos!PostsExplained /\ Pos!TypeOK
<1> SUFFICES ASSUME PostsInv PROVE Pos!PostsExplained /\ Pos!TypeOK
  OBVIOUS
<1>1. Pos!PostsExplained
  <2>1. ASSUME NEW x \in Pos!Counted \ astray
        PROVE  counter[x] = Cardinality(Pos!Rows(x)) - Cardinality({c \in Writers : x \in Pos!Owed(c)})
    <3>1. counter[x] + Cardinality(Owing(x)) = Cardinality(Pos!Rows(x))
      BY DEF PostsInv, PostBalance
    <3>2. counter[x] \in Int /\ Cardinality(Owing(x)) \in Nat /\ Cardinality(Pos!Rows(x)) \in Nat
      BY PostFinite, FS_CardinalityType DEF PostsInv, PostTypes
    <3> QED BY <3>1, <3>2 DEF Owing
  <2> QED BY <2>1, SameCardinality DEF Pos!PostsExplained
<1>2. Pos!TypeOK
  <2>1. ASSUME NEW x \in Pos!Counted PROVE counter[x] \in -MaxWrites..2 * MaxWrites
    <3> DEFINE a == counter[x]
               g == Cardinality(Inclined(x))
               l == Cardinality(Declined(x))
    <3>1. a + g <= writes /\ l - a <= writes
      BY DEF PostsInv, PostBounds
    <3>2. a \in Int /\ g \in Nat /\ l \in Nat
      BY PostFinite, FS_CardinalityType DEF PostsInv, PostTypes
    <3>3. writes \in Nat /\ writes <= MaxWrites /\ MaxWrites \in Nat
      BY PostsAssumption DEF PostsInv, PostTypes
    <3> HIDE DEF a, g, l
    <3>4. a \in -MaxWrites..2 * MaxWrites
      BY <3>1, <3>2, <3>3
    <3> QED BY <3>4 DEF a
  <2>2. counter \in [Pos!Counted -> -MaxWrites..2 * MaxWrites]
    BY <2>1 DEF PostsInv, PostTypes
  <2> QED BY <2>2 DEF Pos!TypeOK, PostsInv, PostTypes
<1> QED BY <1>1, <1>2

(***************************************************************************)
(* What the runs check of all components.                                  *)
(***************************************************************************)
\* A counter kept beside rows is off only for a reason: for comments, likes,
\* hashtags, reposts, categories and threads.
THEOREM CountersAreExplained == MCSpec => []CountersExplained
<1>1. CommentInv /\ LikeInv /\ PostsInv /\ ForumInv => CountersExplained
  BY CommentsExplained, LikesAreExplained, PostsAreExplained, ForumIsExplained DEF CountersExplained
<1> QED BY <1>1, CommentsInvariant, LikesInvariant, PostsInvariant, ForumInvariant, PTL

\* Every component keeps its types.
THEOREM TypesHold == MCSpec => []Types
<1>1. GraphInv /\ CommentInv /\ LikeInv /\ ChatInv /\ PostsInv /\ ForumInv => Types
  BY PostsAreExplained, ForumIsExplained DEF Types, GraphInv, CommentInv, LikeInv, ChatInv
<1> QED
  BY <1>1, GraphInvariant, CommentsInvariant, LikesInvariant, ChatInvariant, PostsInvariant, ForumInvariant, PTL

=============================================================================
