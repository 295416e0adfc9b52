------------------------------ MODULE MCSocial ------------------------------
(***************************************************************************)
(* The social components for TLC: follows and blocks, comments, likes,     *)
(* chat, posts and the forum.  They share no state, so a behaviour moves   *)
(* one of them, its focus, and leaves the others where they started: the   *)
(* states to explore are the sum of theirs and not the product.            *)
(***************************************************************************)
EXTENDS SocialGraph, FiniteSets, TLC

CONSTANTS Ids, None, MaxFaults, MaxToggles, ChatCalls, Milli, MaxClock,
  MaxConversations, MaxMessages,
  PostIds, Tags, Writers, MaxWrites, PostFaults,
  Categories, Threads, Answers, Members, Posters, MaxRequests, ForumFaults

\* What is counted is finite, a row is not the absence of one, and the rows of
\* one table are not those of another; the bounds are numbers.
ASSUME CommentsAssumption ==
  /\ IsFiniteSet(Ids) /\ IsFiniteSet(Calls)
  /\ None \notin Ids /\ MaxFaults \in Nat
ASSUME LikesAssumption ==
  IsFiniteSet(Users) /\ None \notin Users /\ MaxToggles \in Nat
ASSUME ChatAssumption ==
  /\ Milli \in Nat \ {0} /\ MaxClock \in Nat
  /\ MaxConversations \in Nat /\ MaxMessages \in Nat
ASSUME PostsAssumption ==
  /\ PostIds \subseteq Nat \ {0} /\ IsFiniteSet(PostIds) /\ IsFiniteSet(Writers)
  /\ Tags \intersect PostIds = {} /\ MaxWrites \in Nat /\ PostFaults \in Nat
ASSUME ForumAssumption ==
  /\ Threads \subseteq Nat /\ Threads # {} /\ IsFiniteSet(Threads)
  /\ Answers \subseteq Nat \ {0} /\ IsFiniteSet(Answers) /\ IsFiniteSet(Posters)
  /\ Categories \intersect Threads = {}
  /\ MaxRequests \in Nat /\ ForumFaults \in Nat

VARIABLES
  focus,
  comment, parent, replies, count, commentPc, target, under, seen, faults, commentExcuse,
  like, likes, likePc, liker, likeRow, toggles, likeExcuse,
  conversations, messages, marker, clock, chatPc, chatter, conv, msg, at, overtaken, together,
  post, original, hashtags, tagged, counter, writing, writes, postFaults, astray,
  category, thread, inCategory, locked, subscribed, reply, onThread, replyTo, threadsCount,
  repliesCount, posting, requests, forumFaults, miscounted

commentVars == <<comment, parent, replies, count, commentPc, target, under, seen, faults, commentExcuse>>
likeVars == <<like, likes, likePc, liker, likeRow, toggles, likeExcuse>>
chatVars == <<conversations, messages, marker, clock, chatPc, chatter, conv, msg, at, overtaken, together>>
postVars == <<post, original, hashtags, tagged, counter, writing, writes, postFaults, astray>>
forumVars == <<category, thread, inCategory, locked, subscribed, reply, onThread, replyTo,
               threadsCount, repliesCount, posting, requests, forumFaults, miscounted>>

Com == INSTANCE Comments WITH
  row <- comment, pc <- commentPc, excuse <- commentExcuse
Lik == INSTANCE Likes WITH
  pc <- likePc, user <- liker, row <- likeRow, excuse <- likeExcuse
Cht == INSTANCE Chat WITH
  Calls <- ChatCalls, Nobody <- None, pc <- chatPc, user <- chatter

Pos == INSTANCE Posts
For == INSTANCE ForumThreads

\* The requests of posts and of the forum have the model values of ChatCalls.
Symmetry ==
  Permutations(Users) \union Permutations(Calls) \union Permutations(ChatCalls)

MCInit ==
  /\ Init /\ Com!Init /\ Lik!Init /\ Cht!Init /\ Pos!Init /\ For!Init
  /\ focus \in {"graph", "comments", "likes", "chat", "posts", "forum"}
  /\ focus # "forum" => inCategory = [t \in Threads |-> CHOOSE k \in Categories : TRUE]

Others ==
  /\ focus # "graph" => UNCHANGED vars
  /\ focus # "comments" => UNCHANGED commentVars
  /\ focus # "likes" => UNCHANGED likeVars
  /\ focus # "chat" => UNCHANGED chatVars
  /\ focus # "posts" => UNCHANGED postVars
  /\ focus # "forum" => UNCHANGED forumVars

\* Where a bound on requests or rows is reached a component may rest.
Rest ==
  /\ \/ focus = "posts" /\ \A c \in Writers : writing[c] = Pos!Idle
     \/ focus = "forum" /\ \A c \in Posters : posting[c] = For!Idle
  /\ UNCHANGED <<vars, commentVars, likeVars, chatVars, postVars, forumVars>>

MCNext ==
  /\ UNCHANGED focus
  /\ \/ focus = "graph" /\ Next /\ Others
     \/ focus = "comments" /\ Com!Next /\ Others
     \/ focus = "likes" /\ Lik!Next /\ Others
     \/ focus = "chat" /\ Cht!Next /\ Others
     \/ focus = "posts" /\ Pos!Next /\ Others
     \/ focus = "forum" /\ For!Next /\ Others
     \/ Rest

allVars == <<focus, vars, commentVars, likeVars, chatVars, postVars, forumVars>>
MCSpec == MCInit /\ [][MCNext]_allVars

\* Every component keeps its types.
Types == TypeOK /\ Com!TypeOK /\ Lik!TypeOK /\ Cht!TypeOK /\ Pos!TypeOK /\ For!TypeOK

\* Counters kept beside rows are off only for a reason (Comments!CountExplained,
\* Likes!LikesExplained, Posts!PostsExplained, ForumThreads!ForumExplained).
CountersExplained ==
  Com!CountExplained /\ Lik!LikesExplained /\ Pos!PostsExplained /\ For!ForumExplained

\* Comment threads are two levels deep (Comments!TwoLevels).
TwoLevels == Com!TwoLevels

\* Two users have one chat unless they opened it at once (Chat!OneConversation).
OneConversation == Cht!OneConversation

\* The marker of a chat goes back only for a reason (Chat!MarkerForward).
MarkerForward == Cht!MarkerForward
=============================================================================
