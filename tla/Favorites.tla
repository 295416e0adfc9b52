------------------------------ MODULE Favorites ------------------------------
(***************************************************************************)
(* Favourites of listings (favorites.service.ts): toggle, add and remove   *)
(* look for the row of a member and a listing and then insert it or delete *)
(* it by its id.  The unique index on the pair is all that orders two      *)
(* requests.  A listing is only soft-deleted, and its favourites stay.     *)
(***************************************************************************)
EXTENDS Integers

CONSTANTS
  Listings, Members,
  Taps,          \* requests that may be open at a time
  MaxFavorites   \* bound on the ids of rows

VARIABLES
  listed,        \* listings that are not deleted
  favorite,      \* the id of the row of each <<member, listing>>, 0 when there is none
  lastId,
  tap,           \* where each request stands, and the row it has found
  told,          \* isFavorited, as it was last answered for each pair
  outrun         \* history: pairs whose row was replaced under the last request that answered

favoriteVars == <<listed, favorite, lastId, tap, told, outrun>>

Pairs == Members \X Listings
Idle == [at |-> "idle", how |-> "none", pair |-> <<>>, row |-> 0]
GoTo(c, to) == tap' = [tap EXCEPT ![c] = to]

Init ==
  /\ listed = Listings
  /\ favorite = [p \in Pairs |-> 0] /\ lastId = 0
  /\ tap = [c \in Taps |-> Idle]
  /\ told = [p \in Pairs |-> FALSE] /\ outrun = {}

\* toggle and add want a listing that is there; remove does not look.
FindListing(c) ==
  /\ tap[c] = Idle
  /\ \E p \in Pairs, how \in {"toggle", "add", "remove"} :
       /\ how # "remove" => p[2] \in listed
       /\ GoTo(c, [Idle EXCEPT !.at = "find", !.how = how, !.pair = p])
  /\ UNCHANGED <<listed, favorite, lastId, told, outrun>>

Answer(c, is) ==
  /\ told' = [told EXCEPT ![tap[c].pair] = is]
  /\ GoTo(c, Idle)

\* An existing row ends add, and makes toggle delete; remove without one is refused.
FindFavorite(c) ==
  LET w == tap[c]
      i == favorite[w.pair]
  IN
  /\ w.at = "find"
  /\ \/ i = 0 /\ w.how \in {"toggle", "add"} /\ GoTo(c, [w EXCEPT !.at = "insert"]) /\ UNCHANGED <<told, outrun>>
     \/ i = 0 /\ w.how = "remove" /\ GoTo(c, Idle) /\ UNCHANGED <<told, outrun>>
     \/ i # 0 /\ w.how = "add" /\ Answer(c, TRUE) /\ outrun' = outrun \ {w.pair}
     \/ i # 0 /\ w.how \in {"toggle", "remove"} /\ GoTo(c, [w EXCEPT !.at = "delete", !.row = i])
        /\ UNCHANGED <<told, outrun>>
  /\ UNCHANGED <<listed, favorite, lastId>>

\* The index refuses a row that was inserted meanwhile.
Insert(c) ==
  LET w == tap[c] IN
  /\ w.at = "insert"
  /\ IF favorite[w.pair] # 0 THEN GoTo(c, Idle) /\ UNCHANGED <<favorite, lastId, told, outrun>>
     ELSE /\ lastId < MaxFavorites /\ lastId' = lastId + 1
          /\ favorite' = [favorite EXCEPT ![w.pair] = lastId + 1]
          /\ Answer(c, TRUE)
          /\ outrun' = outrun \ {w.pair}
  /\ UNCHANGED listed

\* Mutant: the favourites of everybody.
Delete_All(c) ==
  LET w == tap[c] IN
  /\ w.at = "delete"
  /\ favorite' = [p \in Pairs |-> IF p[2] = w.pair[2] THEN 0 ELSE favorite[p]]
  /\ Answer(c, FALSE)
  /\ outrun' = IF favorite[w.pair] \in {0, w.row} THEN outrun \ {w.pair} ELSE outrun \union {w.pair}
  /\ UNCHANGED <<listed, lastId>>

\* The row with the id that was found, if it is still there.
Delete(c) ==
  LET w == tap[c] IN
  /\ w.at = "delete"
  /\ favorite' = IF favorite[w.pair] = w.row THEN [favorite EXCEPT ![w.pair] = 0] ELSE favorite
  /\ Answer(c, FALSE)
  /\ outrun' = IF favorite[w.pair] \in {0, w.row} THEN outrun \ {w.pair} ELSE outrun \union {w.pair}
  /\ UNCHANGED <<listed, lastId>>

\* The seller deletes a listing.
SoftDelete(l) ==
  /\ l \in listed /\ listed' = listed \ {l}
  /\ UNCHANGED <<favorite, lastId, tap, told, outrun>>

\* A query fails before it has done anything.
Fail(c) ==
  /\ tap[c] # Idle /\ GoTo(c, Idle)
  /\ UNCHANGED <<listed, favorite, lastId, told, outrun>>

Next ==
  \/ \E c \in Taps : FindListing(c) \/ FindFavorite(c) \/ Insert(c) \/ Delete(c) \/ Fail(c)
  \/ \E l \in Listings : SoftDelete(l)

Spec == Init /\ [][Next]_favoriteVars

-----------------------------------------------------------------------------
\* Types; no two rows have the same id.
TypeOK ==
  /\ favorite \in [Pairs -> 0..MaxFavorites] /\ told \in [Pairs -> BOOLEAN]
  /\ \A p, q \in Pairs : favorite[p] = favorite[q] /\ favorite[p] # 0 => p = q

\* A member was last told what is there, unless another of his requests replaced
\* the row between the search and the deletion of the one that told him.
FavoritesExplained ==
  \A p \in Pairs : told[p] # (favorite[p] # 0) => p \in outrun
=============================================================================
