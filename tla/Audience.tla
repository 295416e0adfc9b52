------------------------------ MODULE Audience ------------------------------
(***************************************************************************)
(* Who sees what: the lists of posts, stories, comments and users, as one  *)
(* viewer asks for them.  A list reads the blocks, then perhaps the        *)
(* follows, then the rows, by three statements, and others follow, block,  *)
(* edit and delete in between.  Order, paging and the flags that are added *)
(* to each row (liked, viewed, followed) are left out.                     *)
(***************************************************************************)
EXTENDS Integers

CONSTANTS
  Authors,   \* users other than the viewer
  Readers    \* requests of the viewer that may be open at a time

VARIABLES
  blocked,     \* authors with a block from or to the viewer
  following,   \* authors the viewer follows
  visibility,  \* of the post of each author, "gone" when deleted
  original,    \* whose post the author's public repost repeats
  reading      \* what each open request asked for, and what it has read

audienceVars == <<blocked, following, visibility, original, reading>>

Idle == [list |-> "none", at |-> "idle", who |-> {}, blocked |-> {}, following |-> {}, late |-> {}, left |-> {}]

Post(A) == {"post"} \X A
Repost(A) == {"repost"} \X A
Story(A) == {"story"} \X A
Comment(A) == {"comment"} \X A
User(A) == {"user"} \X A

Live(levels) == {a \in Authors : visibility[a] \in levels}
\* A repost carries its original, whatever the visibility of that is.
Carried(A) == Repost(A) \union Post({original[a] : a \in A} \intersect Live({"public", "followers", "private"}))

-----------------------------------------------------------------------------
\* Mutant: the feed forgets the blocks.
Feed_Open(r, popular) ==
  Post(r.following \intersect Live({"public", "followers", "private"})) \union Post(Live({"public"}) \intersect popular)

\* getFeed: all of those who are followed, and popular public posts.
Feed(r, popular) ==
  LET shown == Authors \ r.blocked
      liked == IF r.following = {} THEN Authors ELSE popular
  IN  Post(shown \intersect r.following \intersect Live({"public", "followers", "private"}))
      \union Post(shown \intersect Live({"public"}) \intersect liked)
      \union Carried(shown \intersect (r.following \union liked))

\* getUserPosts: nothing across a block; else by the follow.  For a visitor who is not
\* signed in the follower is undefined, and the follow of anybody is found: the author
\* is then one of those who have followers.
UserPosts(r, haveFollowers) ==
  LET follows == r.who \subseteq (IF r.at = "anonymous" THEN haveFollowers ELSE r.following)
  IN  IF r.who \subseteq r.blocked THEN {}
      ELSE Carried(r.who)
           \union Post(r.who \intersect Live(IF follows THEN {"public", "followers"} ELSE {"public"}))

\* getByHashtag and getTrendingPosts: public posts, not across a block.
\* (they carry no original)
ByHashtag(r, tagged) == Post((Live({"public"}) \intersect tagged) \ r.blocked) \union Repost(tagged \ r.blocked)
TrendingPosts(r, recent) == Post((Live({"public"}) \intersect recent) \ r.blocked) \union Repost(recent \ r.blocked)

\* findOne of a post: it looks at the visibility, not at blocks, and lets
\* somebody who is not signed in see what is for followers.
OnePost(r) ==
  Carried(r.who)
  \union Post(r.who \intersect Live(
       IF r.at = "anonymous" \/ r.who \subseteq r.following THEN {"public", "followers"} ELSE {"public"}))

\* Stories: of one user, one story, and of those who are followed.
UserStories(r) == Story(r.who \ r.blocked)
OneStory(r) == Story(r.who \ r.blocked)
FeedStories(r) == Story(r.following \ r.blocked)

\* Comments of a post, and replies to one: any post, whoever may see it.
CommentsOf(r) == Comment(Authors \ r.blocked)
RepliesOf(r) == Comment(Authors \ r.blocked)
\* findOne of a comment looks at no blocks.
OneComment(r) == Comment(r.who)

\* Users: search, followers, followings, and a profile.
SearchUsers(r) == User(Authors \ r.blocked)
Followers(r, theirs) == User(theirs \ r.blocked)
Following(r, theirs) == User(theirs \ r.blocked)
Profile(r) == User(r.who \ r.blocked)

\* Lists about one author, those that read the follows, or no blocks, and those that
\* show a visitor who is not signed in what is for followers.
OfOne == {"userPosts", "post", "userStories", "story", "comment", "profile"}
ReadFollows == {"feed", "userPosts", "post", "stories"}
NoBlocks == {"post", "comment"}
OpenToGuests == {"post", "userPosts"}
Lists == {"feed", "userPosts", "hashtag", "trending", "post", "userStories", "story", "stories",
          "comments", "replies", "comment", "search", "followers", "following", "profile"}

About(list) == IF list \in OfOne THEN {{a} : a \in Authors} ELSE {{}}

Shown(r, some) ==
  CASE r.list = "feed" -> Feed(r, some)
    [] r.list = "userPosts" -> UserPosts(r, some)
    [] r.list = "hashtag" -> ByHashtag(r, some)
    [] r.list = "trending" -> TrendingPosts(r, some)
    [] r.list = "post" -> OnePost(r)
    [] r.list = "userStories" -> UserStories(r)
    [] r.list = "story" -> OneStory(r)
    [] r.list = "stories" -> FeedStories(r)
    [] r.list = "comments" -> CommentsOf(r)
    [] r.list = "replies" -> RepliesOf(r)
    [] r.list = "comment" -> OneComment(r)
    [] r.list = "search" -> SearchUsers(r)
    [] r.list = "followers" -> Followers(r, some)
    [] r.list = "following" -> Following(r, some)
    [] r.list = "profile" -> Profile(r)

-----------------------------------------------------------------------------
Init ==
  /\ blocked = {} /\ following \in SUBSET Authors
  /\ visibility \in [Authors -> {"public", "followers", "private"}]
  /\ original \in [Authors -> Authors]
  /\ reading = [c \in Readers |-> Idle]

\* A request begins; it knows the blocks of this moment, or needs none.
GetBlockedUserIds(c) ==
  /\ reading[c].list = "none"
  /\ \E list \in Lists, signedIn \in BOOLEAN : \E who \in About(list) :
       /\ ~signedIn => list \notin {"feed", "stories"}
       /\ reading' = [reading EXCEPT ![c] =
            [Idle EXCEPT !.list = list, !.who = who,
               !.at = IF ~signedIn THEN "anonymous" ELSE IF list \in ReadFollows THEN "signedIn" ELSE "query",
               !.blocked = IF ~signedIn \/ list \in NoBlocks THEN {}
                           ELSE IF list \in OfOne THEN blocked \intersect who ELSE blocked]]
  /\ UNCHANGED <<blocked, following, visibility, original>>

\* It reads the follows, if it needs them.
GetFollowing(c) ==
  /\ reading[c].at = "signedIn"
  /\ reading' = [reading EXCEPT ![c].at = "query", ![c].following =
                  IF reading[c].list \in OfOne THEN following \intersect reading[c].who ELSE following]
  /\ UNCHANGED <<blocked, following, visibility, original>>

\* It reads the rows, answers, and is over.
Query(c) ==
  /\ reading[c].at \in {"query", "anonymous"}
  /\ reading' = [reading EXCEPT ![c] = Idle]
  /\ UNCHANGED <<blocked, following, visibility, original>>

\* What others do meanwhile: blocks, which end the follow, ...
Late(a) == [c \in Readers |-> IF reading[c].list = "none" THEN Idle
              ELSE [reading[c] EXCEPT !.late = @ \union {a}, !.left = @ \union {a}]]
Block(a) ==
  /\ a \notin blocked
  /\ blocked' = blocked \union {a} /\ following' = following \ {a}
  /\ reading' = Late(a)
  /\ UNCHANGED <<visibility, original>>

\* ... follows and their ends (a follow across a block: see SocialGraph), ...
Relate(a) ==
  /\ \/ a \in blocked /\ blocked' = blocked \ {a} /\ UNCHANGED <<following, reading>>
     \/ a \notin following /\ following' = following \union {a} /\ UNCHANGED <<blocked, reading>>
     \/ /\ a \in following /\ following' = following \ {a} /\ UNCHANGED blocked
        /\ reading' = [c \in Readers |-> IF reading[c].list = "none" THEN Idle
                                         ELSE [reading[c] EXCEPT !.left = @ \union {a}]]
  /\ UNCHANGED <<visibility, original>>

\* ... edits and deletions.
Edit(a) ==
  /\ \E level \in {"public", "followers", "private", "gone"} \ {visibility[a]} :
       visibility[a] # "gone" /\ visibility' = [visibility EXCEPT ![a] = level]
  /\ UNCHANGED <<blocked, following, original, reading>>

Next ==
  \/ \E c \in Readers : GetBlockedUserIds(c) \/ GetFollowing(c) \/ Query(c)
  \/ \E a \in Authors : Block(a) \/ Relate(a) \/ Edit(a)

Spec == Init /\ [][Next]_audienceVars

-----------------------------------------------------------------------------
\* Types; a request that began knows no more blocks and follows than there were.
TypeOK ==
  /\ blocked \subseteq Authors /\ following \subseteq Authors
  /\ visibility \in [Authors -> {"public", "followers", "private", "gone"}]
  /\ \A c \in Readers : reading[c].blocked \union reading[c].following \union reading[c].late \subseteq Authors

\* The original is carried by a repost that is shown with it.
CarriedBy(r, items, a) ==
  r.list \in {"feed", "userPosts", "post"} /\ \E b \in Authors : <<"repost", b>> \in items /\ original[b] = a

\* A signed-in viewer sees nothing of somebody he has a block with, unless the
\* block is younger than the request, or he opens a post or a comment by its
\* address, or a third user's repost carries it.
BlockKept(r, items) ==
  r.at = "query" =>
    \A i \in items : i[2] \in blocked \ r.late =>
      r.list \in NoBlocks \/ (i[1] = "post" /\ CarriedBy(r, items, i[2]))

\* A post that is not public reaches only followers, or those who followed when
\* the request read the follows, except that a repost carries it, that a visitor
\* who is not signed in may open a post for followers, and find it among the
\* author's, and that the feed of followers has private posts too.
VisibilityKept(r, items) ==
  \A i \in items : i[1] = "post" =>
    LET a == i[2]
        follower == r.at = "query" /\ a \in following \union r.left
    IN  CASE visibility[a] = "public" -> TRUE
          [] visibility[a] = "followers" ->
               follower \/ (r.at = "anonymous" /\ r.list \in OpenToGuests) \/ CarriedBy(r, items, a)
          [] visibility[a] = "private" ->
               (r.list = "feed" /\ follower) \/ CarriedBy(r, items, a)

\* Both hold of whatever an open request would answer now.
AudienceExplained ==
  \A c \in Readers : reading[c].at \in {"query", "anonymous"} =>
    \A some \in SUBSET Authors :
      LET items == Shown(reading[c], some)
      IN  BlockKept(reading[c], items) /\ VisibilityKept(reading[c], items)
=============================================================================
