------------------------------- MODULE Ratings -------------------------------
(***************************************************************************)
(* A service and its reviews (services/services.service.ts).  The average  *)
(* and the number of the reviews are stored on the service: after every    *)
(* change of a review they are computed by one statement and written by    *)
(* another, so that two computations may be written in the wrong order.    *)
(* The pictures of a service are rows that an update deletes and inserts   *)
(* again; an update is taken to give at least one (an empty list leaves    *)
(* none).                                                                  *)
(***************************************************************************)
EXTENDS Integers, FiniteSets

CONSTANTS
  Reviewers,      \* users other than the owner
  Stars,          \* ratings
  Clients,        \* requests that may be open at a time
  MaxReviews,     \* bound on requests
  RatingFaults    \* bound on failures

VARIABLES
  service,        \* live or soft-deleted
  stars,          \* the review of each user, 0 when there is none
  stored,         \* rating_avg and reviews_count, as the reviews they were computed from
  primary,        \* how many rows of service_images have is_primary
  client,         \* where each request stands, and what it has read
  reviewed, ratingFaults,
  outdated,       \* history: what was written last was computed before a change, or a request failed
  crossed         \* history: two updates of the pictures overlapped, or one failed

ratingVars == <<service, stars, stored, primary, client, reviewed, ratingFaults, outdated, crossed>>

Idle == [at |-> "idle", by |-> {}, seen |-> {}]
GoTo(c, to) == client' = [client EXCEPT ![c] = to]
Start(c) == client[c] = Idle /\ reviewed < MaxReviews /\ reviewed' = reviewed + 1

\* What AVG and COUNT depend on: the reviews, as <<user, stars>>.
Reviews == {r \in Reviewers \X Stars : stars[r[1]] = r[2]}

Init ==
  /\ service = "live"
  /\ stars = [u \in Reviewers |-> 0]
  /\ stored = {} /\ primary = 1
  /\ client = [c \in Clients |-> Idle]
  /\ reviewed = 0 /\ ratingFaults = 0 /\ outdated = FALSE /\ crossed = FALSE

-----------------------------------------------------------------------------
\* createReview: the service is live and the user has no review of it yet.
FindService(c) ==
  /\ Start(c) /\ service = "live"
  /\ \E u \in Reviewers : stars[u] = 0 /\ GoTo(c, [Idle EXCEPT !.at = "insertReview", !.by = {u}])
  /\ UNCHANGED <<service, stars, stored, primary, ratingFaults, outdated, crossed>>

\* One review for each user and service: the unique index refuses a second.
InsertReview(c) ==
  /\ client[c].at = "insertReview"
  /\ \E u \in client[c].by :
       IF stars[u] # 0 THEN GoTo(c, Idle) /\ UNCHANGED stars
       ELSE \E k \in Stars :
              stars' = [stars EXCEPT ![u] = k] /\ GoTo(c, [Idle EXCEPT !.at = "compute"])
  /\ UNCHANGED <<service, stored, primary, reviewed, ratingFaults, outdated, crossed>>

\* updateReview and deleteReview, whatever became of the service.
FindReview(c) ==
  /\ Start(c)
  /\ \E u \in Reviewers, at \in {"updateReview", "deleteReview"} :
       stars[u] # 0 /\ GoTo(c, [Idle EXCEPT !.at = at, !.by = {u}])
  /\ UNCHANGED <<service, stars, stored, primary, ratingFaults, outdated, crossed>>

UpdateReview(c) ==
  /\ client[c].at = "updateReview"
  /\ \E u \in client[c].by, k \in Stars :
       stars' = IF stars[u] = 0 THEN stars ELSE [stars EXCEPT ![u] = k]
  /\ GoTo(c, [Idle EXCEPT !.at = "compute"])
  /\ UNCHANGED <<service, stored, primary, reviewed, ratingFaults, outdated, crossed>>

\* Mutant: the rating is left as it was.
DeleteReview_Only(c) ==
  /\ client[c].at = "deleteReview"
  /\ \E u \in client[c].by : stars' = [stars EXCEPT ![u] = 0]
  /\ GoTo(c, Idle)
  /\ UNCHANGED <<service, stored, primary, reviewed, ratingFaults, outdated, crossed>>

DeleteReview(c) ==
  /\ client[c].at = "deleteReview"
  /\ \E u \in client[c].by : stars' = [stars EXCEPT ![u] = 0]
  /\ GoTo(c, [Idle EXCEPT !.at = "compute"])
  /\ UNCHANGED <<service, stored, primary, reviewed, ratingFaults, outdated, crossed>>

\* updateServiceRating: the query, ...
Compute(c) ==
  /\ client[c].at = "compute"
  /\ GoTo(c, [Idle EXCEPT !.at = "store", !.seen = Reviews])
  /\ UNCHANGED <<service, stars, stored, primary, reviewed, ratingFaults, outdated, crossed>>

\* ... and the update with what the query gave.
Store(c) ==
  /\ client[c].at = "store"
  /\ stored' = client[c].seen
  /\ outdated' = (client[c].seen # Reviews)
  /\ GoTo(c, Idle)
  /\ UNCHANGED <<service, stars, primary, reviewed, ratingFaults, crossed>>

-----------------------------------------------------------------------------
\* update: the row, and when pictures are given all rows are deleted, ...
UpdateService(c) ==
  /\ Start(c) /\ service = "live"
  /\ GoTo(c, [Idle EXCEPT !.at = "deleteImages"])
  /\ UNCHANGED <<service, stars, stored, primary, ratingFaults, outdated, crossed>>

DeleteImages(c) ==
  /\ client[c].at = "deleteImages"
  /\ primary' = 0
  /\ crossed' = (crossed \/ \E d \in Clients \ {c} : client[d].at \in {"deleteImages", "insertImages"})
  /\ GoTo(c, [Idle EXCEPT !.at = "insertImages"])
  /\ UNCHANGED <<service, stars, stored, reviewed, ratingFaults, outdated>>

\* ... and the new ones inserted, the first of them primary.
InsertImages(c) ==
  /\ client[c].at = "insertImages"
  /\ primary' = primary + 1
  /\ GoTo(c, Idle)
  /\ UNCHANGED <<service, stars, stored, reviewed, ratingFaults, outdated, crossed>>

\* delete of the service; its reviews stay.
DeleteService(c) ==
  /\ Start(c) /\ service = "live"
  /\ service' = "deleted"
  /\ UNCHANGED <<stars, stored, primary, client, ratingFaults, outdated, crossed>>

Fail(c) ==
  /\ client[c] # Idle /\ ratingFaults < RatingFaults /\ ratingFaults' = ratingFaults + 1
  /\ outdated' = (outdated \/ client[c].at \in {"compute", "store"})
  /\ crossed' = (crossed \/ client[c].at = "insertImages")
  /\ GoTo(c, Idle)
  /\ UNCHANGED <<service, stars, stored, primary, reviewed>>

Next ==
  \E c \in Clients :
    \/ FindService(c) \/ InsertReview(c) \/ FindReview(c) \/ UpdateReview(c) \/ DeleteReview(c)
    \/ Compute(c) \/ Store(c) \/ UpdateService(c) \/ DeleteImages(c) \/ InsertImages(c)
    \/ DeleteService(c) \/ Fail(c)

Spec == Init /\ [][Next]_ratingVars

-----------------------------------------------------------------------------
\* Types; a computation counts each reviewer once.
TypeOK ==
  /\ service \in {"live", "deleted"} /\ stars \in [Reviewers -> Stars \union {0}]
  /\ primary \in 0..MaxReviews
  /\ \A r, q \in stored : r[1] = q[1] => r = q

\* The stored rating is that of the reviews there are, unless a request has still
\* to compute or write it, or an older computation was written last; and a
\* service has one primary picture, unless an update is under way or crossed another.
RatingExplained ==
  /\ stored # Reviews => outdated \/ \E c \in Clients : client[c].at \in {"compute", "store"}
  /\ primary # 1 => crossed \/ \E c \in Clients : client[c].at = "insertImages"
=============================================================================
