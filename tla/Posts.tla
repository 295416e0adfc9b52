------------------------------- MODULE Posts -------------------------------
(***************************************************************************)
(* Writing posts (social/posts/posts.service.ts): a post, the rows that    *)
(* tie it to hashtags, and two counters kept beside the rows they count,   *)
(* posts_count of a hashtag and shares_count of a post.  Every statement   *)
(* is a step of its own and nothing is in a transaction.  Images are in    *)
(* Galleries; a failure of theirs is a Fail here.  The feed caches that    *)
(* create deletes are written by nobody.                                   *)
(***************************************************************************)
EXTENDS Integers, FiniteSets

CONSTANTS
  PostIds,      \* posts, numbered as they are made
  Tags,         \* hashtags
  Writers,      \* requests that may be open at a time
  MaxWrites,    \* bound on requests
  PostFaults    \* bound on failures

VARIABLES
  post,         \* each row: absent, live or soft-deleted
  original,     \* original_post_id, or 0
  hashtags,     \* rows of hashtags
  tagged,       \* rows of post_hashtags
  counter,      \* posts_count of a hashtag, shares_count of a post
  writing,      \* where each request stands, and what it has left to do
  writes, postFaults,
  astray        \* history: what two requests for one post, or a failure, left miscounted

postVars == <<post, original, hashtags, tagged, counter, writing, writes, postFaults, astray>>

Idle == [at |-> "idle", kind |-> "none", post |-> 0, tag |-> {}, add |-> {}, rows |-> {}, done |-> {}]
GoTo(c, to) == writing' = [writing EXCEPT ![c] = to]
Counted == Tags \union PostIds

Init ==
  /\ post = [p \in PostIds |-> "absent"]
  /\ original = [p \in PostIds |-> 0]
  /\ hashtags = {} /\ tagged = {}
  /\ counter = [x \in Counted |-> 0]
  /\ writing = [c \in Writers |-> Idle]
  /\ writes = 0 /\ postFaults = 0 /\ astray = {}

TagsOf(p) == {t \in Tags : <<p, t>> \in tagged}
OriginalOf(p) == {original[p]} \ {0}
Open(p) == {c \in Writers : writing[c].post = p /\ writing[c] # Idle}

\* The rows this request has made and not counted, or taken off and not removed.
Owed(c) ==
  LET w == writing[c] IN
    (IF w.at = "incTag" THEN w.tag ELSE {})
    \union (w.done \intersect TagsOf(w.post))
    \union (IF w.kind = "create" \/ w.at = "softDelete" THEN OriginalOf(w.post) ELSE {})

\* What a request does when it has nothing more to tag, or to untag.
Tagged(w, o) == IF w.kind = "create" /\ o # {} THEN [w EXCEPT !.at = "incShare"] ELSE Idle
TagMore(w, o) == IF w.add # {} THEN [w EXCEPT !.at = "findTag", !.done = {}] ELSE Tagged(w, o)
Untagged(w, o) ==
  IF w.kind = "update" THEN TagMore(w, o)
  ELSE [w EXCEPT !.at = IF o # {} THEN "decShare" ELSE "softDelete", !.done = {}]
UntagMore(w) == [w EXCEPT !.at = IF w.rows = {} THEN "dropRows" ELSE "decRows"]

-----------------------------------------------------------------------------
\* The row of a post comes first.
InsertPost(c, o, T) ==
  /\ writing[c] = Idle /\ writes < MaxWrites /\ writes' = writes + 1
  /\ \E p \in PostIds :
       /\ post[p] = "absent" /\ \A q \in PostIds : q < p => post[q] # "absent"
       /\ post' = [post EXCEPT ![p] = "live"]
       /\ original' = [original EXCEPT ![p] = o]
       /\ GoTo(c, TagMore([Idle EXCEPT !.kind = "create", !.post = p, !.add = T], {o} \ {0}))
  /\ UNCHANGED <<hashtags, tagged, counter, postFaults, astray>>

\* create; with an originalPostId, which nobody checks, it does what share does.
Create(c) == \E T \in SUBSET Tags : InsertPost(c, 0, T)

\* share finds the original and creates a post; by then it may be deleted.
Share(c) == \E o \in PostIds, T \in SUBSET Tags : post[o] # "absent" /\ InsertPost(c, o, T)

\* update and delete: the post is found; requests for one post may overlap.
Change(c, kind, T) ==
  /\ writing[c] = Idle /\ writes < MaxWrites /\ writes' = writes + 1
  /\ \E p \in PostIds :
       /\ post[p] = "live"
       /\ GoTo(c, [Idle EXCEPT !.at = "findRows", !.kind = kind, !.post = p, !.add = T])
       /\ astray' = IF Open(p) = {} THEN astray
                    ELSE astray \union TagsOf(p) \union T \union OriginalOf(p)
                         \union UNION {writing[d].add \union writing[d].tag : d \in Open(p)}
  /\ UNCHANGED <<post, original, hashtags, tagged, counter, postFaults>>

Update(c) == \E T \in SUBSET Tags : Change(c, "update", T)
Delete(c) == Change(c, "delete", {})

\* removePostHashtags: the rows are read, counted off one by one, ...
FindRows(c) ==
  /\ writing[c].at = "findRows"
  /\ GoTo(c, UntagMore([writing[c] EXCEPT !.rows = TagsOf(writing[c].post)]))
  /\ UNCHANGED <<post, original, hashtags, tagged, counter, writes, postFaults, astray>>

\* Mutant: the counter is left alone.
DecTag_Skip(c) ==
  /\ writing[c].at = "decRows"
  /\ \E t \in writing[c].rows : GoTo(c, UntagMore([writing[c] EXCEPT !.rows = @ \ {t}]))
  /\ UNCHANGED <<post, original, hashtags, tagged, counter, writes, postFaults, astray>>

DecTag(c) ==
  /\ writing[c].at = "decRows"
  /\ \E t \in writing[c].rows :
       /\ counter' = [counter EXCEPT ![t] = @ - 1]
       /\ GoTo(c, UntagMore([writing[c] EXCEPT !.rows = @ \ {t}, !.done = @ \union {t}]))
  /\ UNCHANGED <<post, original, hashtags, tagged, writes, postFaults, astray>>

\* ... and deleted, all that the post has by then.
DropRows(c) ==
  /\ writing[c].at = "dropRows"
  /\ tagged' = {r \in tagged : r[1] # writing[c].post}
  /\ GoTo(c, Untagged(writing[c], OriginalOf(writing[c].post)))
  /\ UNCHANGED <<post, original, hashtags, counter, writes, postFaults, astray>>

DecShare(c) ==
  /\ writing[c].at = "decShare"
  /\ \E o \in OriginalOf(writing[c].post) : counter' = [counter EXCEPT ![o] = @ - 1]
  /\ GoTo(c, [writing[c] EXCEPT !.at = "softDelete"])
  /\ UNCHANGED <<post, original, hashtags, tagged, writes, postFaults, astray>>

SoftDelete(c) ==
  /\ writing[c].at = "softDelete"
  /\ post' = [post EXCEPT ![writing[c].post] = "deleted"]
  /\ GoTo(c, Idle)
  /\ UNCHANGED <<original, hashtags, tagged, counter, writes, postFaults, astray>>

-----------------------------------------------------------------------------
\* processHashtags, for one tag after the other.
FindTag(c) ==
  /\ writing[c].at = "findTag"
  /\ \E t \in writing[c].add :
       GoTo(c, [writing[c] EXCEPT !.add = @ \ {t}, !.tag = {t},
                  !.at = IF t \in hashtags THEN "saveTag" ELSE "insertTag"])
  /\ UNCHANGED <<post, original, hashtags, tagged, counter, writes, postFaults, astray>>

\* The name is unique: who comes second gets an error, and the rest is left undone.
InsertTag(c) ==
  /\ writing[c].at = "insertTag"
  /\ IF writing[c].tag \subseteq hashtags
     THEN GoTo(c, Idle) /\ astray' = astray \union Owed(c) /\ UNCHANGED hashtags
     ELSE /\ hashtags' = hashtags \union writing[c].tag
          /\ GoTo(c, [writing[c] EXCEPT !.at = "saveTag"])
          /\ UNCHANGED astray
  /\ UNCHANGED <<post, original, tagged, counter, writes, postFaults>>

\* save of a row with a composite key updates what is there already.
SaveTag(c) ==
  /\ writing[c].at = "saveTag"
  /\ tagged' = tagged \union ({writing[c].post} \X writing[c].tag)
  /\ GoTo(c, [writing[c] EXCEPT !.at = "incTag"])
  /\ UNCHANGED <<post, original, hashtags, counter, writes, postFaults, astray>>

IncTag(c) ==
  /\ writing[c].at = "incTag"
  /\ \E t \in writing[c].tag : counter' = [counter EXCEPT ![t] = @ + 1]
  /\ GoTo(c, TagMore([writing[c] EXCEPT !.tag = {}], OriginalOf(writing[c].post)))
  /\ UNCHANGED <<post, original, hashtags, tagged, writes, postFaults, astray>>

IncShare(c) ==
  /\ writing[c].at = "incShare"
  /\ \E o \in OriginalOf(writing[c].post) : counter' = [counter EXCEPT ![o] = @ + 1]
  /\ GoTo(c, Idle)
  /\ UNCHANGED <<post, original, hashtags, tagged, writes, postFaults, astray>>

Fail(c) ==
  /\ writing[c] # Idle /\ postFaults < PostFaults /\ postFaults' = postFaults + 1
  /\ astray' = astray \union Owed(c)
  /\ GoTo(c, Idle)
  /\ UNCHANGED <<post, original, hashtags, tagged, counter, writes>>

Next ==
  \E c \in Writers :
    \/ Create(c) \/ Share(c) \/ Update(c) \/ Delete(c) \/ FindRows(c) \/ DecTag(c) \/ DropRows(c)
    \/ DecShare(c) \/ SoftDelete(c) \/ FindTag(c) \/ InsertTag(c) \/ SaveTag(c) \/ IncTag(c)
    \/ IncShare(c) \/ Fail(c)

Spec == Init /\ [][Next]_postVars

-----------------------------------------------------------------------------
\* Types; a hashtag row is there before any post is tied to it.
TypeOK ==
  /\ post \in [PostIds -> {"absent", "live", "deleted"}]
  /\ original \in [PostIds -> PostIds \union {0}]
  /\ hashtags \subseteq Tags /\ tagged \subseteq PostIds \X hashtags
  /\ counter \in [Counted -> -MaxWrites..2 * MaxWrites]
  /\ astray \subseteq Counted

\* What a counter counts: the posts of a hashtag, the live reposts of a post.
Rows(x) ==
  IF x \in Tags THEN {p \in PostIds : <<p, x>> \in tagged}
  ELSE {p \in PostIds : original[p] = x /\ post[p] = "live"}

\* A counter differs from its rows by the steps still open, unless two requests
\* worked on one post at a time, a request failed in the middle, or two posts
\* introduced the same hashtag at once and one of them was left half written.
PostsExplained ==
  \A x \in Counted \ astray :
    counter[x] = Cardinality(Rows(x)) - Cardinality({c \in Writers : x \in Owed(c)})
=============================================================================
