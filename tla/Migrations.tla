----------------------------- MODULE Migrations -----------------------------
(***************************************************************************)
(* The nine migrations of the database (database/migrations), run and      *)
(* reverted from the command line, perhaps by two deployments at once.     *)
(* TypeORM runs all that are pending in one transaction, and reverts the   *)
(* one that was run last in one; it takes no lock of its own.  A table     *)
(* stands for its columns, indexes and constraints, and a column that is   *)
(* added later is an object of its own.  Categories that a migration       *)
(* inserts are left out.                                                   *)
(***************************************************************************)
EXTENDS Integers, Sequences, SequencesExt

CONSTANTS
  Runners,     \* commands that may be running at a time
  MaxOverlaps  \* bound on commands that begin while another is running

VARIABLES
  objects,    \* tables, types and columns, as committed
  done,       \* rows of the table "migrations", in their order
  runner,     \* what each command has still to do, and sees in its transaction
  overlaps

migrationVars == <<objects, done, runner, overlaps>>

Ensure(o) == <<[do |-> "ensure", what |-> o, refs |-> {}]>>
Create(o, refs) == <<[do |-> "create", what |-> o, refs |-> refs]>>
Alter(o) == <<[do |-> "alter", what |-> o, refs |-> {}]>>
Drop(o) == <<[do |-> "drop", what |-> o, refs |-> {}]>>
DropAll(os) == [i \in DOMAIN os |-> Drop(os[i])[1]]

-----------------------------------------------------------------------------
\* The statements of each migration.
InitialSchema ==
  Ensure("uuid-ossp") \o Create("users", {"uuid-ossp"})
  \o Create("user_profiles", {"users"}) \o Create("refresh_tokens", {"users"})
  \o Create("otp_codes", {"users"}) \o Create("user_follows", {"users"}) \o Create("user_blocks", {"users"})
InitialSchemaDown ==
  DropAll(<<"user_blocks", "user_follows", "otp_codes", "refresh_tokens", "user_profiles", "users">>)

CreateMarketplaceTables ==
  Create("listing_categories", {}) \o Create("listings", {"users", "listing_categories"})
  \o Create("listing_images", {"listings"}) \o Create("listing_favorites", {"users", "listings"})
  \o Alter("listing_categories")
CreateMarketplaceTablesDown ==
  DropAll(<<"listing_favorites", "listing_images", "listings", "listing_categories">>)

CreatePartsTables ==
  Create("parts_categories", {}) \o Create("parts", {"users", "parts_categories"})
  \o Create("part_images", {"parts"}) \o Alter("parts_categories")
CreatePartsTablesDown == DropAll(<<"part_images", "parts", "parts_categories">>)

CreateSocialTables ==
  Create("posts", {"users"}) \o Create("post_images", {"posts"}) \o Create("post_likes", {"users", "posts"})
  \o Create("hashtags", {}) \o Create("post_hashtags", {"posts", "hashtags"})
  \o Create("post_mentions", {"posts", "users"})

CreateSocialTablesDown ==
  DropAll(<<"post_mentions", "post_hashtags", "hashtags", "post_likes", "post_images", "posts">>)

CreateStoriesTables == Create("stories", {"users"}) \o Create("story_views", {"stories", "users"})
CreateStoriesTablesDown == DropAll(<<"story_views", "stories">>)

CreateCommentsTables == Create("comments", {"users", "posts"}) \o Create("comment_likes", {"users", "comments"})
CreateCommentsTablesDown == DropAll(<<"comment_likes", "comments">>)

ForumCategoryTable == Create("forum_categories", {})
ForumThreadTable == Create("forum_threads", {"users", "forum_categories"})
ForumReplyTables ==
  Create("thread_replies", {"forum_threads", "users"}) \o Create("thread_likes", {"forum_threads", "users"})
ForumLinkTables ==
  Create("thread_subscriptions", {"forum_threads", "users"}) \o Create("reply_likes", {"thread_replies", "users"})
ForumIndexes ==
  Alter("forum_threads") \o Alter("thread_replies") \o Alter("thread_likes") \o Alter("thread_subscriptions")
  \o Alter("reply_likes")
CreateForumTablesDown ==
  DropAll(<<"reply_likes", "thread_subscriptions", "thread_likes", "thread_replies", "forum_threads",
            "forum_categories">>)

ServiceCategoryTable == Create("service_categories", {})
ServiceTable == Create("services", {"users", "service_categories"})
ServiceLinkTables ==
  Create("service_images", {"services"}) \o Create("service_reviews", {"services", "users"})
ServiceIndexes == Alter("services") \o Alter("service_images") \o Alter("service_reviews")
CreateServicesTablesDown ==
  Alter("service_reviews")
  \o DropAll(<<"service_reviews", "service_images", "services", "service_categories">>)

AddUserRole == Create("user_role_enum", {}) \o Create("users.role", {"users", "user_role_enum"})
AddUserRoleDown == DropAll(<<"users.role", "user_role_enum">>)

\* The migrations in the order of their timestamps.
Up == <<InitialSchema, CreateMarketplaceTables, CreatePartsTables, CreateSocialTables, CreateStoriesTables,
        CreateCommentsTables,
        ForumCategoryTable \o ForumThreadTable \o ForumReplyTables \o ForumLinkTables \o ForumIndexes,
        ServiceCategoryTable \o ServiceTable \o ServiceLinkTables \o ServiceIndexes, AddUserRole>>
Down == <<InitialSchemaDown, CreateMarketplaceTablesDown, CreatePartsTablesDown, CreateSocialTablesDown,
          CreateStoriesTablesDown, CreateCommentsTablesDown, CreateForumTablesDown, CreateServicesTablesDown,
          AddUserRoleDown>>

Statements == {s \in UNION {ToSet(Up[m]) : m \in DOMAIN Up} : s.do \in {"create", "ensure"}}
References(os) == UNION {s.refs : s \in {t \in Statements : t.what \in os}}
Made(m) == {s.what : s \in {t \in ToSet(Up[m]) : t.do = "create"}}

-----------------------------------------------------------------------------
\* What the first k statements of a migration make, there or new, and what the
\* first k of its reversal drop.
MadeBy(m, k) == {Up[m][i].what : i \in {j \in 1..k : Up[m][j].do # "alter"}}
DroppedBy(m, k) == {Down[m][i].what : i \in {j \in 1..k : Down[m][j].do = "drop"}}

Statement == [do : {"ensure", "create", "alter", "drop"}, what : STRING, refs : SUBSET STRING]

\* What is so of the nine migrations, and the proofs about them need: it is evaluated, as
\* the table has no parameters.  A table is made once, after those it refers to; no migration drops anything on its
\* way up, and the extension is there if need be and never dropped.
UpInOrder(m) ==
  /\ Made(m) # {}
  /\ \A i \in DOMAIN Up[m] : LET s == Up[m][i] IN
       /\ s.do # "drop"
       /\ s.do = "ensure" => s.what = "uuid-ossp" /\ s.refs = {}
       /\ s.do = "create" => s.what # "uuid-ossp"
                             /\ s.refs \subseteq MadeBy(m, i - 1) \union UNION {Made(n) : n \in 1..(m - 1)}
       /\ s.do = "alter" => s.what \in MadeBy(m, i - 1)
       /\ \A n \in DOMAIN Up : \A j \in DOMAIN Up[n] :
            s.do = "create" /\ Up[n][j].do = "create" /\ s.what = Up[n][j].what => m = n /\ i = j

\* Its reversal drops what it has made, all of it, each after what refers to it.
DownInOrder(m) ==
  /\ DroppedBy(m, Len(Down[m])) = Made(m)
  /\ \A i \in DOMAIN Down[m] : LET s == Down[m][i] IN
       /\ s.do \in {"alter", "drop"} /\ s.what \in Made(m) \ DroppedBy(m, i - 1)
       /\ s.do = "drop" => s.what \notin References(Made(m) \ DroppedBy(m, i))

WellFormed ==
  /\ Up \in Seq(Seq(Statement)) /\ Down \in Seq(Seq(Statement)) /\ Len(Down) = Len(Up)
  /\ "uuid-ossp" \in {s.what : s \in Statements}
  /\ \A m \in DOMAIN Up : UpInOrder(m) /\ DownInOrder(m)

-----------------------------------------------------------------------------
\* A command that is over, and one in its transaction: the migrations it has to
\* run or revert, the one it is at and how many of its statements it has executed,
\* those it has run, the objects it has made and dropped, those it has locked, and
\* whether another command has committed since it began.
Over == [dir |-> "none", todo |-> {}, now |-> 0, at |-> 0, ran |-> <<>>,
         adds |-> {}, drops |-> {}, held |-> {}, late |-> FALSE]
GoTo(r, to) == runner' = [runner EXCEPT ![r] = to]

Script(w) == IF w.dir = "up" THEN Up[w.now] ELSE Down[w.now]
MoreToDo(w) == w.dir # "none" /\ w.at < Len(Script(w))
Upcoming(w) == Script(w)[w.at + 1]

Init ==
  /\ objects = {} /\ done = <<>> /\ overlaps = 0
  /\ runner = [r \in Runners |-> Over]

Begin(r) ==
  /\ runner[r] = Over
  /\ IF \A q \in Runners : runner[q] = Over THEN UNCHANGED overlaps
     ELSE overlaps < MaxOverlaps /\ overlaps' = overlaps + 1

\* Mutant: in the order in which they are found.
Oldest_AsFound(ms) == ms

\* In the order of their timestamps.
Oldest(ms) == {m \in ms : \A n \in ms : m <= n}

\* migration:run: what is not in the table "migrations", oldest first.
Run(r) ==
  LET pending == DOMAIN Up \ ToSet(done) IN
  /\ Begin(r)
  /\ \E m \in Oldest(pending) : GoTo(r, [Over EXCEPT !.dir = "up", !.todo = pending, !.now = m])
  /\ UNCHANGED <<objects, done>>

\* migration:revert: the one that was run last.
Revert(r) ==
  /\ Begin(r) /\ done # <<>>
  /\ GoTo(r, [Over EXCEPT !.dir = "down", !.todo = {Last(done)}, !.now = Last(done)])
  /\ UNCHANGED <<objects, done>>

\* What a command sees: what others have committed, and its own changes.
Sees(w) == (objects \union w.adds) \ w.drops

\* A statement locks its table and those it refers to.
Locks(s) == {s.what} \union References({s.what})
Waits(r) ==
  /\ MoreToDo(runner[r])
  /\ \E q \in Runners \ {r} : Locks(Upcoming(runner[r])) \intersect runner[q].held # {}

\* Whether the database accepts a statement.
Accepted(w, s) ==
  LET seen == Sees(w) IN
  CASE s.do = "ensure" -> TRUE
    [] s.do = "create" -> s.what \notin seen /\ s.refs \subseteq seen
    [] s.do = "alter" -> s.what \in seen
    [] s.do = "drop" -> s.what \in seen /\ s.what \notin References(seen \ {s.what})

Execute(r) ==
  LET w == runner[r]
      s == Upcoming(w)
  IN  /\ MoreToDo(w) /\ ~Waits(r) /\ Accepted(w, s)
      /\ GoTo(r, [w EXCEPT !.at = @ + 1, !.held = @ \union Locks(s),
                    !.adds = CASE s.do \in {"create", "ensure"} -> @ \union {s.what}
                               [] s.do = "drop" -> @ \ {s.what} [] OTHER -> @,
                    !.drops = IF s.do = "drop" THEN @ \union {s.what} ELSE @ \ {s.what}])
      /\ UNCHANGED <<objects, done, overlaps>>

\* The row in "migrations" follows the statements, in the same transaction, ...
NextMigration(r) ==
  LET w == runner[r]
      left == w.todo \ {w.now}
  IN  /\ w.dir # "none" /\ ~MoreToDo(w)
      /\ \E m \in Oldest(left) :
           GoTo(r, [w EXCEPT !.todo = left, !.now = m, !.at = 0, !.ran = Append(@, w.now)])
      /\ UNCHANGED <<objects, done, overlaps>>

\* The table "migrations" without the row of a migration, if it has one.
Without(m) ==
  IF m \in ToSet(done) THEN RemoveAt(done, CHOOSE i \in DOMAIN done : done[i] = m) ELSE done

\* ... and one commit is for them all.
Commit(r) ==
  LET w == runner[r] IN
  /\ w.dir # "none" /\ ~MoreToDo(w) /\ w.todo = {w.now}
  /\ objects' = Sees(w)
  /\ done' = IF w.dir = "up" THEN done \o Append(w.ran, w.now) ELSE Without(w.now)
  /\ runner' = [q \in Runners |-> IF q = r THEN Over
                                  ELSE [runner[q] EXCEPT !.late = runner[q].dir # "none"]]
  /\ UNCHANGED overlaps

\* A statement is refused, a deadlock broken, or the command ends: all is rolled back.
Rollback(r) ==
  /\ runner[r] # Over
  /\ GoTo(r, Over)
  /\ UNCHANGED <<objects, done, overlaps>>

Next == \E r \in Runners : Run(r) \/ Revert(r) \/ Execute(r) \/ NextMigration(r) \/ Commit(r) \/ Rollback(r)

Spec == Init /\ [][Next]_migrationVars

-----------------------------------------------------------------------------
\* Types; a migration is done once.
TypeOK ==
  /\ done \in Seq(DOMAIN Up) /\ \A i, j \in DOMAIN done : i # j => done[i] # done[j]
  /\ overlaps \in 0..MaxOverlaps /\ objects \subseteq {s.what : s \in Statements}
  /\ \A r \in Runners : runner[r].dir \in {"none", "up", "down"}

\* The database has what the migrations in its table have made, and nothing of
\* the others; what a table refers to is there; and the database refuses a
\* statement only if another command has committed since this one began.
SchemaSound ==
  /\ objects \ {"uuid-ossp"} = UNION {Made(m) : m \in ToSet(done)}
  /\ References(objects) \subseteq objects
  /\ \A r \in Runners : LET w == runner[r] IN
       MoreToDo(w) /\ ~w.late /\ ~Waits(r) => Accepted(w, Upcoming(w))
=============================================================================
