-------------------------------- MODULE Chat --------------------------------
(***************************************************************************)
(* The private chat of two users (modules/chat/chat.service.ts): their     *)
(* conversations, the messages and each user's marker, last_read_at.       *)
(*                                                                         *)
(* A conversation with its participants, and a message with the date of    *)
(* its conversation, are each written by one transaction: what it wrote    *)
(* appears at its commit, with the time of its beginning, which is what    *)
(* now() is in PostgreSQL.  The database counts microseconds; a Date of    *)
(* JavaScript, where every marker comes from, counts milliseconds.  Both   *)
(* read the same clock here.                                               *)
(*                                                                         *)
(* left_at is never set, so both users stay participants.  The keys of the *)
(* unread cache are deleted and never written, and are left out; so are    *)
(* the requests that a block refuses, which write nothing.                 *)
(***************************************************************************)
EXTENDS Integers, Sequences

CONSTANTS
  Users,          \* the two users
  Calls,          \* the requests that may be open at a time
  Nobody,
  Milli,          \* ticks of the database's clock in a millisecond
  MaxClock,       \* bound on the clock
  MaxConversations, MaxMessages  \* bounds on what is written

VARIABLES
  conversations,  \* how many conversations the two have; they have numbers
  messages,       \* the messages in the order of their commits
  marker,         \* last_read_at of each user in each conversation, Never before it is set
  clock,
  pc, user,       \* each request: where it stands, whose it is,
  conv, msg, at,  \* the conversation, the message it is about, the time it took
  overtaken,      \* history: requests a later mark of the same reader has passed
  together        \* history: two requests were opening the chat at once

requests == <<pc, user, conv, msg, at>>
history == <<overtaken, together>>
vars == <<conversations, messages, marker, clock, requests, history>>

Conversations == 1..MaxConversations
Never == -1
Date(t) == (t \div Milli) * Milli

\* getConversationUnreadCount: the messages of the other, later than the marker.
Unread(u, k) ==
  {i \in DOMAIN messages :
     /\ messages[i].conv = k /\ messages[i].by # u /\ ~messages[i].gone
     /\ messages[i].at > marker[u][k]}

Init ==
  /\ conversations = 0
  /\ messages = <<>>
  /\ marker = [u \in Users |-> [k \in Conversations |-> Never]]
  /\ clock = 0
  /\ pc = [c \in Calls |-> "idle"]
  /\ user = [c \in Calls |-> Nobody]
  /\ conv = [c \in Calls |-> 0]
  /\ msg = [c \in Calls |-> 0]
  /\ at = [c \in Calls |-> Never]
  /\ overtaken = {}
  /\ together = FALSE

Return(c) ==
  /\ pc' = [pc EXCEPT ![c] = "idle"]
  /\ user' = [user EXCEPT ![c] = Nobody]
  /\ conv' = [conv EXCEPT ![c] = 0]
  /\ msg' = [msg EXCEPT ![c] = 0]
  /\ at' = [at EXCEPT ![c] = Never]

GoTo(c, step) ==
  /\ pc' = [pc EXCEPT ![c] = step]
  /\ UNCHANGED <<user, conv, msg, at>>

\* A request of u starts, about message i of conversation k, with time t.
Begin(c, step, u, k, i, t) ==
  /\ pc[c] = "idle"
  /\ pc' = [pc EXCEPT ![c] = step]
  /\ user' = [user EXCEPT ![c] = u]
  /\ conv' = [conv EXCEPT ![c] = k]
  /\ msg' = [msg EXCEPT ![c] = i]
  /\ at' = [at EXCEPT ![c] = t]

-----------------------------------------------------------------------------
\* findOrCreateConversation: no block, and the other user is active ...
OpenCheck(c) ==
  /\ \E u \in Users : Begin(c, "openFind", u, 0, 0, Never)
  /\ together' = (together \/ \E d \in Calls : pc[d] \in {"openFind", "openCreate"})
  /\ UNCHANGED <<conversations, messages, marker, clock, overtaken>>

\* Mutant: a conversation is found only when a message was sent in it.
OpenFind_Silent(c) ==
  /\ pc[c] = "openFind"
  /\ IF conversations > 0 /\ messages # <<>> THEN Return(c) ELSE GoTo(c, "openCreate")
  /\ UNCHANGED <<conversations, messages, marker, clock, history>>

\* ... an existing conversation is the answer ...
OpenFind(c) ==
  /\ pc[c] = "openFind"
  /\ IF conversations > 0 THEN Return(c) ELSE GoTo(c, "openCreate")
  /\ UNCHANGED <<conversations, messages, marker, clock, history>>

\* ... and without one a transaction makes it, with both participants.
OpenCreate(c) ==
  /\ pc[c] = "openCreate"
  /\ conversations < MaxConversations
  /\ conversations' = conversations + 1
  /\ Return(c)
  /\ UNCHANGED <<messages, marker, clock, history>>

-----------------------------------------------------------------------------
\* sendMessage: the sender takes part and there is no block ...
SendCheck(c) ==
  /\ \E u \in Users, k \in 1..conversations : Begin(c, "sendBegin", u, k, 0, Never)
  /\ UNCHANGED <<conversations, messages, marker, clock, history>>

\* ... the transaction begins, and its time is created_at ...
SendBegin(c) ==
  /\ pc[c] = "sendBegin"
  /\ pc' = [pc EXCEPT ![c] = "sendCommit"]
  /\ at' = [at EXCEPT ![c] = clock]
  /\ UNCHANGED <<conversations, messages, marker, clock, user, conv, msg, history>>

\* ... and with its commit the message is there.
SendCommit(c) ==
  /\ pc[c] = "sendCommit"
  /\ Len(messages) < MaxMessages
  /\ messages' = Append(messages, [conv |-> conv[c], by |-> user[c], at |-> at[c], gone |-> FALSE])
  /\ Return(c)
  /\ UNCHANGED <<conversations, marker, clock, history>>

-----------------------------------------------------------------------------
\* markAsRead: the reader takes part, and the marker is to be the present ...
ReadFind(c) ==
  /\ \E u \in Users, k \in 1..conversations :
       \/ Begin(c, "readUpdate", u, k, 0, Date(clock))
       \/ \E i \in DOMAIN messages :
            messages[i].conv = k /\ Begin(c, "readMessage", u, k, i, Date(clock))
  /\ UNCHANGED <<conversations, messages, marker, clock, history>>

\* Mutant: a message that is not found leaves the marker without a time.
ReadMessage_Zero(c) ==
  /\ pc[c] = "readMessage"
  /\ pc' = [pc EXCEPT ![c] = "readUpdate"]
  /\ IF messages[msg[c]].gone
     THEN msg' = [msg EXCEPT ![c] = 0] /\ at' = [at EXCEPT ![c] = 0]
     ELSE UNCHANGED msg /\ at' = [at EXCEPT ![c] = Date(messages[msg[c]].at)]
  /\ UNCHANGED <<conversations, messages, marker, clock, user, conv, history>>

\* ... or the date of a message, unless it was deleted meanwhile ...
ReadMessage(c) ==
  /\ pc[c] = "readMessage"
  /\ pc' = [pc EXCEPT ![c] = "readUpdate"]
  /\ IF messages[msg[c]].gone
     THEN msg' = [msg EXCEPT ![c] = 0] /\ UNCHANGED at
     ELSE UNCHANGED msg /\ at' = [at EXCEPT ![c] = Date(messages[msg[c]].at)]
  /\ UNCHANGED <<conversations, messages, marker, clock, user, conv, history>>

\* ... and is stored, whatever it was.
ReadUpdate(c) ==
  /\ pc[c] = "readUpdate"
  /\ marker' = [marker EXCEPT ![user[c]][conv[c]] = at[c]]
  /\ overtaken' =
       {d \in Calls \ {c} :
          \/ d \in overtaken
          \/ pc[d] \in {"readMessage", "readUpdate"} /\ user[d] = user[c] /\ conv[d] = conv[c]}
  /\ Return(c)
  /\ UNCHANGED <<conversations, messages, clock, together>>

-----------------------------------------------------------------------------
\* deleteMessage: one's own message is looked up and soft-deleted.
DeleteFind(c) ==
  /\ \E i \in DOMAIN messages :
       ~messages[i].gone /\ Begin(c, "delete", messages[i].by, messages[i].conv, i, Never)
  /\ UNCHANGED <<conversations, messages, marker, clock, history>>

SoftDelete(c) ==
  /\ pc[c] = "delete"
  /\ messages' = [messages EXCEPT ![msg[c]].gone = TRUE]
  /\ Return(c)
  /\ UNCHANGED <<conversations, marker, clock, history>>

-----------------------------------------------------------------------------
\* A query fails or the client's request is cut off; transactions roll back.
Fail(c) ==
  /\ pc[c] # "idle"
  /\ overtaken' = overtaken \ {c}
  /\ Return(c)
  /\ UNCHANGED <<conversations, messages, marker, clock, together>>

Tick ==
  /\ clock < MaxClock
  /\ clock' = clock + 1
  /\ UNCHANGED <<conversations, messages, marker, requests, history>>

Step(c) ==
  \/ OpenCheck(c) \/ OpenFind(c) \/ OpenCreate(c)
  \/ SendCheck(c) \/ SendBegin(c) \/ SendCommit(c)
  \/ ReadFind(c) \/ ReadMessage(c) \/ ReadUpdate(c)
  \/ DeleteFind(c) \/ SoftDelete(c) \/ Fail(c)

Next == Tick \/ \E c \in Calls : Step(c)

Spec == Init /\ [][Next]_vars

-----------------------------------------------------------------------------
Steps == {"idle", "openFind", "openCreate", "sendBegin", "sendCommit",
          "readMessage", "readUpdate", "delete"}

\* Every variable keeps its type, and a request is about what exists.
TypeOK ==
  /\ conversations \in 0..MaxConversations
  /\ \A i \in DOMAIN messages :
       /\ messages[i].conv \in 1..conversations /\ messages[i].by \in Users
       /\ messages[i].at \in 0..clock /\ messages[i].gone \in BOOLEAN
  /\ marker \in [Users -> [Conversations -> {Never} \union 0..clock]]
  /\ clock \in 0..MaxClock
  /\ pc \in [Calls -> Steps]
  /\ user \in [Calls -> Users \union {Nobody}]
  /\ conv \in [Calls -> 0..conversations]
  /\ msg \in [Calls -> 0..Len(messages)]
  /\ at \in [Calls -> {Never} \union 0..clock]
  /\ \A c \in Calls : pc[c] = "idle" <=> user[c] = Nobody
  /\ overtaken \subseteq Calls
  /\ together \in BOOLEAN

\* Two users have one chat, unless two requests were opening it at once: no
\* index forbids a second private conversation, only the look-up before it.
OneConversation == conversations > 1 => together

\* The marker of a reader goes back only for one who names an older message,
\* or by a request that a later mark of the same reader has passed.
MarkerForward ==
  [][\A u \in Users, k \in Conversations :
       marker'[u][k] < marker[u][k] =>
         \E c \in Calls :
           /\ pc[c] = "readUpdate" /\ user[c] = u /\ conv[c] = k
           /\ c \in overtaken \/ msg[c] # 0]_vars

\* "Mark messages as read up to a specific message": when the marker has been
\* set to the date of a message, that message is read.
MarkedIsRead ==
  [][\A u \in Users, k \in Conversations, i \in DOMAIN messages :
       (\E c \in Calls : ReadUpdate(c) /\ user[c] = u /\ conv[c] = k /\ msg[c] = i)
         => i \notin Unread(u, k)']_vars
=============================================================================
