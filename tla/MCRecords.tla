------------------------------ MODULE MCRecords ------------------------------
(***************************************************************************)
(* The records that users keep and others see, for TLC: registration, the  *)
(* profile, the caller a request acts for, what a viewer is shown,         *)
(* pictures, services, categories, lists of what is for sale, favourites,  *)
(* and the schema below them.  They share no state, so a behaviour moves   *)
(* one of them, its focus, and leaves the others where they started: the   *)
(* states to explore are the sum of theirs and not the product.            *)
(***************************************************************************)
EXTENDS Registration, FiniteSets, TLC

CONSTANTS
  Users, Requests, Nobody,
  Authors, Readers,
  ProfileNames, Objects, Edits, MaxEdits, ProfileFaults,
  Owners, Pictures, Editors, MediaFaults,
  Reviewers, Stars, Clients, MaxReviews, RatingFaults,
  Categories, Slugs, Managers, MaxChanges, CatalogFaults,
  Items, Shoppers, Sellers, Limits, MaxOffers,
  Listings, Members, Taps, MaxFavorites,
  Runners, MaxOverlaps

\* Nobody is no user, no row is numbered 0 or called "none", and what is counted is
\* finite; the bounds are numbers.
ASSUME AccessAssumption == Nobody \notin Users
ASSUME MediaAssumption ==
  Objects \subseteq Nat /\ Pictures \subseteq Nat \ {0} /\ "none" \notin Owners
ASSUME RatingsAssumption ==
  IsFiniteSet(Clients) /\ 0 \notin Stars /\ MaxReviews \in Nat \ {0}
ASSUME CatalogAssumption == Categories \subseteq Nat \ {0} /\ "none" \notin Slugs
ASSUME ShelvesAssumption == IsFiniteSet(Items) /\ Limits \subseteq Nat
ASSUME FavoritesAssumption == MaxFavorites \in Nat
ASSUME MigrationsAssumption == MaxOverlaps \in Nat

VARIABLES
  focus,
  active, admins, rows, request,
  blocked, following, visibility, original, reading,
  row, stored, copy, edits, profileFaults, overlapped, cleared, undeleted,
  owner, imageRows, of, names, pictures, thumbnails, editing, mediaFaults, dropped, uploads, loose,
  service, stars, ratingOf, primary, client, reviewed, ratingFaults, outdated, crossed,
  slug, parent, place, listCopy, task, changes, catalogFaults, late, lifted, slipped,
  kind, status, deleted, popular, shopping, offers,
  listed, favorite, lastId, tap, told, outrun,
  objects, done, runner, overlaps

accessVars == <<active, admins, rows, request>>
audienceVars == <<blocked, following, visibility, original, reading>>
profileVars == <<row, stored, copy, edits, profileFaults, overlapped, cleared, undeleted>>
mediaVars == <<owner, imageRows, of, names, pictures, thumbnails, editing, mediaFaults, dropped, uploads,
              loose>>
ratingVars == <<service, stars, ratingOf, primary, client, reviewed, ratingFaults, outdated, crossed>>
catalogVars == <<slug, parent, place, listCopy, task, changes, catalogFaults, late, lifted, slipped>>
shelfVars == <<kind, status, deleted, popular, shopping, offers>>
favoriteVars == <<listed, favorite, lastId, tap, told, outrun>>
migrationVars == <<objects, done, runner, overlaps>>

Acc == INSTANCE Access
Aud == INSTANCE Audience
Pro == INSTANCE Profiles WITH Names <- ProfileNames
Gal == INSTANCE Galleries WITH rows <- imageRows
Rat == INSTANCE Ratings WITH stored <- ratingOf
Cat == INSTANCE Catalog WITH copy <- listCopy
She == INSTANCE Shelves
Fav == INSTANCE Favorites
Mig == INSTANCE Migrations

\* Users and requests have the same model values in every component.
Symmetry == Permutations(Users) \union Permutations(Requests)

Components == {"registration", "access", "audience", "profile", "pictures", "ratings",
               "catalog", "shelves", "favorites", "schema"}

\* Of the table of routes, which has no parameter: a route that changes rows asks for
\* somebody who is signed in.
ASSUME RoutesAssumption ==
  \A r \in Acc!Reached :
    r.rule \in {"insert", "owner", "own", "toggle", "any"} => r.guard \in {"jwt", "admin"}

\* Of the nine migrations, which have none either: they make and drop tables in an
\* order that their references allow.
ASSUME SchemaAssumption == Mig!WellFormed

\* Only the component in focus has more than one state to begin with.
MCInit ==
  /\ focus \in Components
  /\ Init /\ Acc!Init /\ Aud!Init /\ Pro!Init /\ Gal!Init /\ Rat!Init /\ Cat!Init
  /\ She!Init /\ Fav!Init /\ Mig!Init
  /\ focus # "access" => admins = {}
  /\ focus # "audience" =>
       /\ following = {}
       /\ visibility = [a \in Authors |-> "public"] /\ original = [a \in Authors |-> a]
  /\ focus # "profile" => row.username = CHOOSE n \in ProfileNames : TRUE
  /\ focus # "shelves" => kind = "listing"

\* Where a bound on requests or rows is reached a component may rest.
Rest ==
  /\ \/ focus = "profile" /\ \A c \in Edits : copy[c] = Pro!Idle
     \/ focus = "pictures" /\ \A c \in Editors : editing[c] = Gal!Idle
     \/ focus = "ratings" /\ \A c \in Clients : client[c] = Rat!Idle
     \/ focus = "catalog" /\ \A c \in Managers : task[c] = Cat!Idle
  /\ UNCHANGED <<vars, accessVars, audienceVars, profileVars, mediaVars, ratingVars, catalogVars,
                 shelfVars, favoriteVars, migrationVars>>

Others(component) ==
  /\ component # "registration" => UNCHANGED vars
  /\ component # "access" => UNCHANGED accessVars
  /\ component # "audience" => UNCHANGED audienceVars
  /\ component # "profile" => UNCHANGED profileVars
  /\ component # "pictures" => UNCHANGED mediaVars
  /\ component # "ratings" => UNCHANGED ratingVars
  /\ component # "catalog" => UNCHANGED catalogVars
  /\ component # "shelves" => UNCHANGED shelfVars
  /\ component # "favorites" => UNCHANGED favoriteVars
  /\ component # "schema" => UNCHANGED migrationVars

MCNext ==
  /\ UNCHANGED focus
  /\ \/ focus = "registration" /\ Next /\ Others(focus)
     \/ focus = "access" /\ Acc!Next /\ Others(focus)
     \/ focus = "audience" /\ Aud!Next /\ Others(focus)
     \/ focus = "profile" /\ Pro!Next /\ Others(focus)
     \/ focus = "pictures" /\ Gal!Next /\ Others(focus)
     \/ focus = "ratings" /\ Rat!Next /\ Others(focus)
     \/ focus = "catalog" /\ Cat!Next /\ Others(focus)
     \/ focus = "shelves" /\ She!Next /\ Others(focus)
     \/ focus = "favorites" /\ Fav!Next /\ Others(focus)
     \/ focus = "schema" /\ Mig!Next /\ Others(focus)
     \/ Rest

allVars == <<focus, vars, accessVars, audienceVars, profileVars, mediaVars, ratingVars, catalogVars,
             shelfVars, favoriteVars, migrationVars>>

MCSpec == MCInit /\ [][MCNext]_allVars

-----------------------------------------------------------------------------
\* A component that is not in focus has not moved, so that what follows is looked at
\* only in the one that is.

\* Every component keeps its types (those of the schema are part of SchemaSound).
Types ==
  /\ TypeOK
  /\ focus = "access" => Acc!TypeOK
  /\ focus = "audience" => Aud!TypeOK
  /\ focus = "profile" => Pro!TypeOK
  /\ focus = "pictures" => Gal!TypeOK
  /\ focus = "ratings" => Rat!TypeOK
  /\ focus = "catalog" => Cat!TypeOK
  /\ focus = "shelves" => She!TypeOK
  /\ focus = "favorites" => Fav!TypeOK

\* A request changes what belongs to its user (Access!AccessExplained).
AccessExplained == focus = "access" => Acc!AccessExplained

\* Nobody is shown what is not meant for him (Audience!AudienceExplained).
AudienceExplained == focus = "audience" => Aud!AudienceExplained

\* Profiles and pictures are what their owners left (Profiles!ProfileExplained,
\* Galleries!PicturesExplained).
MediaExplained ==
  /\ focus = "profile" => Pro!ProfileExplained
  /\ focus = "pictures" => Gal!PicturesExplained

\* What is for sale: lists, copies, favourites and ratings differ from the rows only
\* for a reason (Shelves!ShelvesExplained, Catalog!CatalogExplained,
\* Favorites!FavoritesExplained, Ratings!RatingExplained).
MarketExplained ==
  /\ focus = "shelves" => She!ShelvesExplained
  /\ focus = "catalog" => Cat!CatalogExplained
  /\ focus = "favorites" => Fav!FavoritesExplained
  /\ focus = "ratings" => Rat!RatingExplained

\* Migrations are done once and find what they need (Migrations!TypeOK,
\* Migrations!SchemaSound).
SchemaSound == focus = "schema" => Mig!TypeOK /\ Mig!SchemaSound
=============================================================================
