------------------------------- MODULE Shelves -------------------------------
(***************************************************************************)
(* What is for sale: listings, parts or services of one seller, the lists  *)
(* in which the seller, other members and guests find them, and the copy   *)
(* of the popular listings that Redis keeps for five minutes.  Filters     *)
(* other than the status, the order and the pages choose some of the rows  *)
(* and are left out; pictures are in Galleries and Ratings, views in       *)
(* ViewCounters, favourites in Favorites.                                  *)
(***************************************************************************)
EXTENDS Integers, FiniteSets

CONSTANTS
  Items,          \* rows
  Shoppers,       \* requests for a list that may be open at a time
  Sellers,        \* requests of the seller that may be open at a time
  Limits,         \* how many popular rows a request may ask for
  MaxOffers       \* bound on requests that change a row

VARIABLES
  kind,           \* which of the three services this is
  status,         \* of each row, "none" before it is made
  deleted,        \* rows that are soft-deleted
  popular,        \* the copy of the popular listings, if any
  shopping,       \* where each request stands, and the rows it has read
  offers

shelfVars == <<kind, status, deleted, popular, shopping, offers>>

Idle == [at |-> "idle", list |-> "none", to |-> "none", asked |-> "none", limit |-> 0,
         item |-> {}, rows |-> {}, since |-> {}]

Min(a, b) == IF a < b THEN a ELSE b
Statuses == IF kind = "service" THEN {"active"} ELSE {"draft", "active", "sold", "expired"}
Live == {i \in Items : status[i] # "none"} \ deleted
Active == {i \in Live : status[i] = "active"}
Visitors == Shoppers \union Sellers
GoTo(c, to) == shopping' = [shopping EXCEPT ![c] = to]

\* A row changes: history in whatever was read before.
Turn(c, i) ==
  /\ shopping' = [d \in Visitors |-> IF d = c \/ shopping[d] = Idle THEN Idle
                                  ELSE [shopping[d] EXCEPT !.since = @ \union {i}]]
  /\ popular' = {[p EXCEPT !.since = @ \union {i}] : p \in popular}

Init ==
  /\ kind \in {"listing", "part", "service"}
  /\ status = [i \in Items |-> "none"] /\ deleted = {}
  /\ popular = {}
  /\ shopping = [c \in Visitors |-> Idle]
  /\ offers = 0

-----------------------------------------------------------------------------
\* create: active, unless the request says otherwise.
Create(c) ==
  /\ shopping[c] = Idle /\ offers < MaxOffers /\ offers' = offers + 1
  /\ \E i \in Items, s \in Statuses :
       status[i] = "none" /\ status' = [status EXCEPT ![i] = s] /\ Turn(c, i)
  /\ UNCHANGED <<kind, deleted>>

\* update, markAsSold and delete read the row and compare its seller, ...
FindOwn(c) ==
  /\ shopping[c] = Idle /\ offers < MaxOffers /\ offers' = offers + 1
  /\ \E i \in Live, at \in {"update", "markAsSold", "delete"} :
       /\ kind = "service" => at = "delete"
       /\ GoTo(c, [Idle EXCEPT !.at = at, !.item = {i}])
  /\ UNCHANGED <<kind, status, deleted, popular>>

\* ... and write it, deleted or not.  An update that gives no status gives ACTIVE:
\* UpdateListingDto takes over the default of CreateListingDto.
Update(c) ==
  /\ shopping[c].at = "update"
  /\ \E i \in shopping[c].item, s \in Statuses : status' = [status EXCEPT ![i] = s] /\ Turn(c, i)
  /\ UNCHANGED <<kind, deleted, offers>>

MarkAsSold(c) ==
  /\ shopping[c].at = "markAsSold"
  /\ \E i \in shopping[c].item : status' = [status EXCEPT ![i] = "sold"] /\ Turn(c, i)
  /\ UNCHANGED <<kind, deleted, offers>>

Delete(c) ==
  /\ shopping[c].at = "delete"
  /\ \E i \in shopping[c].item : deleted' = deleted \union {i} /\ Turn(c, i)
  /\ UNCHANGED <<kind, status, offers>>

-----------------------------------------------------------------------------
\* A list is an answer, or first, for whoever is signed in, asks which of its
\* listings are favourites.
Answer(c, w, marked) ==
  \/ GoTo(c, [w EXCEPT !.at = "answered"])
  \/ /\ kind = "listing" /\ marked /\ w.rows # {}
     /\ GoTo(c, [w EXCEPT !.at = "markFavorites"])

\* createListingQuery and createPartQuery: one status, active when none is asked for.
FindAll(c) ==
  /\ shopping[c] = Idle
  /\ \E s \in Statuses : \E some \in SUBSET {i \in Live : status[i] = s} :
       Answer(c, [Idle EXCEPT !.list = "all", !.asked = s, !.rows = some], TRUE)
  /\ UNCHANGED <<kind, status, deleted, popular, offers>>

\* getByUser: the seller sees all his rows, others those that are active;
\* a service is shown whatever its status.
GetByUser(c) ==
  /\ shopping[c] = Idle
  /\ \E to \in {"other", "seller"} :
       Answer(c, [Idle EXCEPT !.list = "byUser", !.to = to,
                              !.rows = IF to = "seller" \/ kind = "service" THEN Live ELSE Active], TRUE)
  /\ UNCHANGED <<kind, status, deleted, popular, offers>>

\* findOne: any row that is not deleted, to anyone.
FindOne(c) ==
  /\ shopping[c] = Idle
  /\ \E i \in Live : Answer(c, [Idle EXCEPT !.list = "one", !.rows = {i}], TRUE)
  /\ UNCHANGED <<kind, status, deleted, popular, offers>>

\* getRelated: the listing, ...
FindForRelated(c) ==
  /\ shopping[c] = Idle /\ kind = "listing"
  /\ \E i \in Live : GoTo(c, [Idle EXCEPT !.at = "related", !.list = "related", !.item = {i}])
  /\ UNCHANGED <<kind, status, deleted, popular, offers>>

\* ... then others that are active.
GetRelated(c) ==
  /\ shopping[c].at = "related"
  /\ \E some \in SUBSET (Active \ shopping[c].item) :
       GoTo(c, [shopping[c] EXCEPT !.at = "answered", !.rows = some, !.since = {}])
  /\ UNCHANGED <<kind, status, deleted, popular, offers>>

\* searchByCompatibility.
SearchByCompatibility(c) ==
  /\ shopping[c] = Idle /\ kind = "part"
  /\ \E some \in SUBSET Active : Answer(c, [Idle EXCEPT !.list = "compatible", !.rows = some], FALSE)
  /\ UNCHANGED <<kind, status, deleted, popular, offers>>

\* getUserFavorites: of the rows of one page, those that are still active.
GetUserFavorites(c) ==
  /\ shopping[c] = Idle /\ kind = "listing"
  /\ \E some \in SUBSET Active : Answer(c, [Idle EXCEPT !.list = "favorites", !.rows = some], FALSE)
  /\ UNCHANGED <<kind, status, deleted, popular, offers>>

\* markFavorites: one statement more, after which the answer goes out.
MarkFavorites(c) ==
  /\ shopping[c].at = "markFavorites"
  /\ GoTo(c, [shopping[c] EXCEPT !.at = "answered"])
  /\ UNCHANGED <<kind, status, deleted, popular, offers>>

Receive(c) ==
  /\ shopping[c].at = "answered"
  /\ GoTo(c, Idle)
  /\ UNCHANGED <<kind, status, deleted, popular, offers>>

-----------------------------------------------------------------------------
\* getPopular of listings: the copy, whatever limit it was made with, ...
LookUp(c) ==
  /\ shopping[c] = Idle /\ kind = "listing"
  /\ \E n \in Limits :
       LET w == [Idle EXCEPT !.list = "popular", !.limit = n] IN
       IF popular = {} THEN GoTo(c, [w EXCEPT !.at = "findPopular"])
       ELSE \E p \in popular : GoTo(c, [w EXCEPT !.at = "answered", !.rows = p.rows, !.since = p.since])
  /\ UNCHANGED <<kind, status, deleted, popular, offers>>

\* The first rows of Shown, by their views.
Top(Shown, n) == {some \in SUBSET Shown : Cardinality(some) = Min(n, Cardinality(Shown))}

\* Mutant: every row that is not deleted.
FindPopular_All(c) ==
  /\ shopping[c].at = "findPopular"
  /\ \E some \in Top(Live, shopping[c].limit) :
       GoTo(c, [shopping[c] EXCEPT !.at = "storePopular", !.rows = some, !.since = {}])
  /\ UNCHANGED <<kind, status, deleted, popular, offers>>

\* ... or the rows, ...
FindPopular(c) ==
  /\ shopping[c].at = "findPopular"
  /\ \E some \in Top(Active, shopping[c].limit) :
       GoTo(c, [shopping[c] EXCEPT !.at = "storePopular", !.rows = some, !.since = {}])
  /\ UNCHANGED <<kind, status, deleted, popular, offers>>

\* ... of which a copy is kept.
StorePopular(c) ==
  LET w == shopping[c] IN
  /\ w.at = "storePopular"
  /\ popular' = {[rows |-> w.rows, limit |-> w.limit, since |-> w.since]}
  /\ GoTo(c, [w EXCEPT !.at = "answered"])
  /\ UNCHANGED <<kind, status, deleted, offers>>

\* getPopular of parts has no copy.
PopularParts(c) ==
  /\ shopping[c] = Idle /\ kind = "part"
  /\ \E n \in Limits : \E some \in Top(Active, n) :
       Answer(c, [Idle EXCEPT !.list = "popular", !.limit = n, !.rows = some], FALSE)
  /\ UNCHANGED <<kind, status, deleted, popular, offers>>

\* The five minutes are over, or syncViewCounts has written the views.
DropPopular ==
  /\ popular # {} /\ popular' = {}
  /\ UNCHANGED <<kind, status, deleted, shopping, offers>>

Next ==
  \/ \E c \in Sellers : Create(c) \/ FindOwn(c) \/ Update(c) \/ MarkAsSold(c) \/ Delete(c)
  \/ \E c \in Shoppers :
       \/ FindAll(c) \/ GetByUser(c) \/ FindOne(c) \/ FindForRelated(c) \/ GetRelated(c)
       \/ SearchByCompatibility(c) \/ GetUserFavorites(c) \/ MarkFavorites(c) \/ Receive(c)
       \/ LookUp(c) \/ FindPopular(c) \/ StorePopular(c) \/ PopularParts(c)
  \/ DropPopular

Spec == Init /\ [][Next]_shelfVars

-----------------------------------------------------------------------------
\* Types; only listings have a copy.
TypeOK ==
  /\ status \in [Items -> {"none", "draft", "active", "sold", "expired"}] /\ deleted \subseteq Items
  /\ popular # {} => kind = "listing"
  /\ \A c \in Shoppers : shopping[c].rows \subseteq Items

\* A row is on a list that anyone can open although it is not active only when it
\* has changed since the list, or the copy it came from, was read; or when the
\* row or its status was asked for.  A copy with fewer rows than its limit leaves an
\* active row out only if that has changed since the rows were read.
ShelvesExplained ==
  /\ \A c \in Shoppers :
       LET w == shopping[c] IN
       \A i \in w.rows \ Active :
         \/ i \in w.since
         \/ w.list = "one" \/ (w.list = "all" /\ w.asked # "active")
         \/ (w.list = "byUser" /\ w.to = "seller")
  /\ \A p \in popular :
       /\ p.rows \ Active \subseteq p.since
       /\ Cardinality(p.rows) < p.limit => \A i \in Active \ p.rows : i \in p.since
=============================================================================
