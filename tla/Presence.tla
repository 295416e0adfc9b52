------------------------------ MODULE Presence ------------------------------
(***************************************************************************)
(* Who is online: the socket gateway (AppGateway, GatewayService), the     *)
(* Redis keys it keeps, the user_activity table and the presence events    *)
(* the followers of a user receive.                                        *)
(*                                                                         *)
(* handleConnection and handleDisconnect run once per socket.  They are    *)
(* asynchronous: every await on Redis or on the database is a point where  *)
(* the handlers of other sockets, and the other handler of the same        *)
(* socket, can run.  A step of a handler is what it does between two       *)
(* awaits; its program counter is cpc or dpc.  The commands of one         *)
(* Promise.all are issued in one tick on one connection, so Redis runs     *)
(* them together, in order; when the connection fails a prefix of them     *)
(* may have run.                                                           *)
(***************************************************************************)
EXTENDS Integers, FiniteSets

CONSTANTS
  Sockets,     \* socket ids; socket.io draws a fresh one for every connection
  Users,
  UserOf,      \* the user the token of a socket's handshake names
  Toggles,     \* presence:online and presence:offline messages
  MaxFaults    \* bound on the failed Redis or database calls and crashes

ASSUME UserOfAssumption == UserOf \in [Sockets -> Users]
ASSUME MaxFaultsAssumption == MaxFaults \in Nat

VARIABLES
  \* the process
  conn,        \* a socket is "new", "open" or "closed"
  authed,      \* sockets with client.user attached
  joined,      \* sockets in the room user:{id} of their user
  cpc, dpc,    \* where handleConnection and handleDisconnect of a socket are
  wasOffline,  \* handleConnection's local of that name
  first,       \* registerSocket's local wasOffline
  req,         \* the setAppearOffline calls
  \* Redis
  socketUser,  \* sockets with a key socket:user:{socket}
  userSockets, \* user:sockets:{user}
  online,      \* online:users
  hidden,      \* users with the appear-offline key
  \* the database
  rows,        \* users with a user_activity row
  activity,    \* the row's isOnline, activeConnections and appearOffline
  \* the followers
  seen,        \* the last presence event they got about a user
  \* history, read by no step
  orphaned,    \* sockets whose clean-up did not run, or not to its end
  raced,       \* users who connected while a handler was taking them offline
  overlapped,  \* users two of whose handlers have run at the same time
  \* the bound
  faults

procVars  == <<conn, authed, joined, wasOffline, first>>
redisVars == <<socketUser, userSockets, online, hidden>>
dbVars    == <<rows, activity>>
histVars  == <<orphaned, raced, overlapped>>
vars == <<procVars, cpc, dpc, req, redisVars, dbVars, seen, histVars, faults>>

CPc == {"idle", "auth", "check", "count", "write", "regFind", "regUpdate",
        "regInsert", "bump", "onAdd", "onFind", "onUpdate", "onInsert",
        "announce", "done"}
DPc == {"idle", "get", "srem", "del", "count", "unregRemove", "unregFind",
        "unregUpdate", "unregInsert", "drop", "offRemove", "offFind",
        "offUpdate", "offInsert", "announce", "done"}
TPc == {"idle", "upsert", "read", "announce", "done"}

SocketsOf(u) == {s \in Sockets : UserOf[s] = u}

ConnRunning(s) == cpc[s] \notin {"idle", "done"}
DiscRunning(s) == dpc[s] \notin {"idle", "done"}
Busy(u) == \/ \E s \in SocketsOf(u) : ConnRunning(s) \/ DiscRunning(s)
           \/ \E t \in Toggles : req[t].pc \notin {"idle", "done"} /\ req[t].user = u

\* The handler of socket d found no other socket of its user and has still
\* to remove the user from online:users, in unregisterSocket or setUserOffline.
TakingOffline(d) == dpc[d] \in {"unregRemove", "unregFind", "unregUpdate",
                                "unregInsert", "offRemove"}

Init ==
  /\ conn = [s \in Sockets |-> "new"]
  /\ authed = {}
  /\ joined = {}
  /\ cpc = [s \in Sockets |-> "idle"]
  /\ dpc = [s \in Sockets |-> "idle"]
  /\ wasOffline = [s \in Sockets |-> FALSE]
  /\ first = [s \in Sockets |-> FALSE]
  /\ \E u \in Users :
       req = [t \in Toggles |-> [pc |-> "idle", user |-> u, hide |-> FALSE, say |-> FALSE]]
  /\ socketUser = {}
  /\ userSockets = [u \in Users |-> {}]
  /\ online = {}
  /\ hidden = {}
  /\ rows = {}
  /\ activity = [u \in Users |-> [online |-> FALSE, conns |-> 0, hidden |-> FALSE]]
  /\ seen = [u \in Users |-> "none"]
  /\ orphaned = {}
  /\ raced = {}
  /\ overlapped = {}
  /\ faults = 0

(***************************************************************************)
(* Pieces shared by the handlers                                           *)
(***************************************************************************)
GoC(s, to) == cpc' = [cpc EXCEPT ![s] = to]
GoD(s, to) == dpc' = [dpc EXCEPT ![s] = to]

\* A call fails: one of the failures the bound allows.
Fault == faults < MaxFaults /\ faults' = faults + 1

\* The socket is closed; socket.io removes it from its rooms and calls
\* handleDisconnect, which returns at once when client.user is not attached.
CloseSocket(s) ==
  /\ conn' = [conn EXCEPT ![s] = "closed"]
  /\ joined' = joined \ {s}
  /\ GoD(s, IF s \in authed THEN "get" ELSE "done")

\* A new handler of user u starts: does it overlap with another one?
NoteOverlap(u) == overlapped' = IF Busy(u) THEN overlapped \cup {u} ELSE overlapped

\* updateUserActivityDb, first await: is there a row?
AfterFind(u, update, insert) == IF u \in rows THEN update ELSE insert

\* updateUserActivityDb, second await.  An insert that loses the race against
\* another one violates the primary key; that error, as any other, is
\* caught and dropped.
StoreActivity(u, insert, on) ==
  \/ /\ ~(insert /\ u \in rows)
     /\ rows' = rows \cup {u}
     /\ activity' = [activity EXCEPT ![u].online = on,
                                     ![u].conns = IF on THEN 1 ELSE 0]
     /\ UNCHANGED faults
  \/ insert /\ u \in rows /\ UNCHANGED <<dbVars, faults>>
  \/ Fault /\ UNCHANGED dbVars

\* increment and decrement of activeConnections: an UPDATE ... SET n = n + 1,
\* which matches no row when there is none.
AddConnections(u, n) ==
  \/ /\ activity' = IF u \in rows
                    THEN [activity EXCEPT ![u].conns = @ + n] ELSE activity
     /\ UNCHANGED <<rows, faults>>
  \/ Fault /\ UNCHANGED dbVars

(***************************************************************************)
(* handleConnection                                                        *)
(***************************************************************************)
Connect(s) ==
  /\ conn[s] = "new"
  /\ conn' = [conn EXCEPT ![s] = "open"]
  /\ GoC(s, "auth")
  /\ NoteOverlap(UserOf[s])
  /\ UNCHANGED <<authed, joined, wasOffline, first, dpc, req, redisVars, dbVars,
                 seen, orphaned, raced, faults>>

\* authenticateClient returned the user; a socket that closed while the
\* token was verified is treated like any other.
Authenticate(s) ==
  /\ cpc[s] = "auth"
  /\ authed' = authed \cup {s}
  /\ GoC(s, "check")
  /\ UNCHANGED <<conn, joined, wasOffline, first, dpc, req, redisVars, dbVars,
                 seen, histVars, faults>>

\* authenticateClient returned null: auth:error, disconnect(true), return.
Reject(s) ==
  /\ cpc[s] = "auth"
  /\ GoC(s, "done")
  /\ CloseSocket(s)
  /\ UNCHANGED <<authed, wasOffline, first, req, redisVars, dbVars, seen,
                 histVars, faults>>

CheckOnline(s) ==
  /\ cpc[s] = "check"
  /\ wasOffline' = [wasOffline EXCEPT ![s] = UserOf[s] \notin online]
  /\ GoC(s, "count")
  /\ UNCHANGED <<conn, authed, joined, first, dpc, req, redisVars, dbVars, seen,
                 histVars, faults>>

\* registerSocket, first await: smembers.
CountSockets(s) ==
  /\ cpc[s] = "count"
  /\ first' = [first EXCEPT ![s] = userSockets[UserOf[s]] = {}]
  /\ GoC(s, "write")
  /\ UNCHANGED <<conn, authed, joined, wasOffline, dpc, req, redisVars, dbVars,
                 seen, histVars, faults>>

\* Mutant: user:sockets is written before socket:user.
RegisterWrites_SetFirst(s, n) ==
  /\ userSockets' = IF n >= 1 THEN [userSockets EXCEPT ![UserOf[s]] = @ \cup {s}]
                              ELSE userSockets
  /\ socketUser' = IF n >= 2 THEN socketUser \cup {s} ELSE socketUser
  /\ online' = IF n >= 3 THEN online \cup {UserOf[s]} ELSE online
  /\ raced' = IF \E d \in SocketsOf(UserOf[s]) : TakingOffline(d)
              THEN raced \cup {UserOf[s]} ELSE raced
  /\ UNCHANGED hidden

\* The first n of registerSocket's writes: SET socket:user, SADD user:sockets,
\* SADD online:users (the fourth, the last-seen time, is left out).
RegisterWrites(s, n) ==
  /\ socketUser' = IF n >= 1 THEN socketUser \cup {s} ELSE socketUser
  /\ userSockets' = IF n >= 2 THEN [userSockets EXCEPT ![UserOf[s]] = @ \cup {s}]
                              ELSE userSockets
  /\ online' = IF n >= 3 THEN online \cup {UserOf[s]} ELSE online
  /\ raced' = IF \E d \in SocketsOf(UserOf[s]) : TakingOffline(d)
              THEN raced \cup {UserOf[s]} ELSE raced
  /\ UNCHANGED hidden

\* registerSocket, second await: Promise.all.
WriteSocket(s) ==
  /\ cpc[s] = "write"
  /\ RegisterWrites(s, 3)
  /\ GoC(s, IF first[s] THEN "regFind" ELSE "bump")
  /\ UNCHANGED <<procVars, dpc, req, dbVars, seen, orphaned, overlapped, faults>>

FindOnConnect(s) ==
  /\ \/ cpc[s] = "regFind" /\ GoC(s, AfterFind(UserOf[s], "regUpdate", "regInsert"))
     \/ cpc[s] = "onFind" /\ GoC(s, AfterFind(UserOf[s], "onUpdate", "onInsert"))
  /\ UNCHANGED <<procVars, dpc, req, redisVars, dbVars, seen, histVars, faults>>

\* Mutant: setUserOnline is called for every device, not only for the first.
Greet_Always(s) ==
  /\ joined' = joined \cup {s}
  /\ GoC(s, "onAdd")

\* registerSocket returned: the socket joins its user's room and is greeted
\* with auth:success; setUserOnline follows when the user was offline.
Greet(s) ==
  /\ joined' = joined \cup {s}
  /\ GoC(s, IF wasOffline[s] THEN "onAdd" ELSE "done")

\* The end of registerSocket: the activity row is stored or its count raised.
FinishRegister(s) ==
  /\ \/ cpc[s] = "regUpdate" /\ StoreActivity(UserOf[s], FALSE, TRUE)
     \/ cpc[s] = "regInsert" /\ StoreActivity(UserOf[s], TRUE, TRUE)
     \/ cpc[s] = "bump" /\ AddConnections(UserOf[s], 1)
  /\ Greet(s)
  /\ UNCHANGED <<conn, authed, wasOffline, first, dpc, req, redisVars, seen, histVars>>

\* Mutant: the socket's id is added, not the user's.
AddOnline_Socket(s) ==
  /\ cpc[s] = "onAdd"
  /\ online' = online \cup {s}
  /\ GoC(s, "onFind")
  /\ UNCHANGED <<procVars, dpc, req, socketUser, userSockets, hidden, dbVars, seen,
                 histVars, faults>>

\* setUserOnline: SADD online:users again, store the row again, announce.
AddOnline(s) ==
  /\ cpc[s] = "onAdd"
  /\ online' = online \cup {UserOf[s]}
  /\ GoC(s, "onFind")
  /\ UNCHANGED <<procVars, dpc, req, socketUser, userSockets, hidden, dbVars, seen,
                 histVars, faults>>

StoreOnline(s) ==
  /\ \/ cpc[s] = "onUpdate" /\ StoreActivity(UserOf[s], FALSE, TRUE)
     \/ cpc[s] = "onInsert" /\ StoreActivity(UserOf[s], TRUE, TRUE)
  /\ GoC(s, "announce")
  /\ UNCHANGED <<procVars, dpc, req, redisVars, seen, histVars>>

\* broadcastPresenceToFollowers(user, true).
AnnounceOnline(s) ==
  /\ cpc[s] = "announce"
  /\ seen' = [seen EXCEPT ![UserOf[s]] = "online"]
  /\ GoC(s, "done")
  /\ UNCHANGED <<procVars, dpc, req, redisVars, dbVars, histVars, faults>>

\* Mutant: the catch block does not disconnect the client.
ConnectionFault_KeepOpen(s) ==
  /\ Fault
  /\ cpc[s] \in {"check", "count", "write", "onAdd"}
  /\ GoC(s, "done")
  /\ UNCHANGED <<procVars, dpc, req, redisVars, dbVars, seen, histVars>>

\* A Redis call of handleConnection fails: error event, disconnect(true).
ConnectionFault(s) ==
  /\ Fault
  /\ \/ cpc[s] \in {"check", "count"} /\ UNCHANGED <<redisVars, raced>>
     \/ cpc[s] = "write" /\ \E n \in 0..3 : RegisterWrites(s, n)
     \/ /\ cpc[s] = "onAdd"
        /\ online' \in {online, online \cup {UserOf[s]}}
        /\ UNCHANGED <<socketUser, userSockets, hidden, raced>>
  /\ GoC(s, "done")
  /\ IF conn[s] = "open" THEN CloseSocket(s) ELSE UNCHANGED <<conn, joined, dpc>>
  /\ UNCHANGED <<authed, wasOffline, first, req, dbVars, seen, orphaned, overlapped>>

(***************************************************************************)
(* handleDisconnect                                                        *)
(***************************************************************************)
\* The transport closes: the client left, the connection dropped, a ping
\* timed out, or disconnectUser was called.
Close(s) ==
  /\ conn[s] = "open"
  /\ CloseSocket(s)
  /\ orphaned' = IF ConnRunning(s) THEN orphaned \cup {s} ELSE orphaned
  /\ NoteOverlap(UserOf[s])
  /\ UNCHANGED <<authed, wasOffline, first, cpc, req, redisVars, dbVars, seen, raced,
                 faults>>

\* Mutant: a missing mapping is not treated as an unknown socket.
GetUser_Unchecked(s) ==
  /\ dpc[s] = "get"
  /\ GoD(s, "srem")
  /\ UNCHANGED <<procVars, cpc, req, redisVars, dbVars, seen, histVars, faults>>

\* unregisterSocket, step by step.
GetUser(s) ==
  /\ dpc[s] = "get"
  /\ GoD(s, IF s \in socketUser THEN "srem" ELSE "done")
  /\ UNCHANGED <<procVars, cpc, req, redisVars, dbVars, seen, histVars, faults>>

\* Mutant: the socket is never removed from its user's set.
RemoveSocket_Forgotten(s) ==
  /\ dpc[s] = "srem"
  /\ GoD(s, "del")
  /\ UNCHANGED <<procVars, cpc, req, redisVars, dbVars, seen, histVars, faults>>

RemoveSocket(s) ==
  /\ dpc[s] = "srem"
  /\ userSockets' = [userSockets EXCEPT ![UserOf[s]] = @ \ {s}]
  /\ GoD(s, "del")
  /\ UNCHANGED <<procVars, cpc, req, socketUser, online, hidden, dbVars, seen, histVars,
                 faults>>

DeleteMapping(s) ==
  /\ dpc[s] = "del"
  /\ socketUser' = socketUser \ {s}
  /\ GoD(s, "count")
  /\ UNCHANGED <<procVars, cpc, req, userSockets, online, hidden, dbVars, seen, histVars,
                 faults>>

\* Mutants: the set is counted as if the socket were still in it, and a
\* comparison that includes one remaining socket.
CountRemaining_StillIn(s) ==
  /\ dpc[s] = "count"
  /\ GoD(s, IF Cardinality(userSockets[UserOf[s]]) = 1 THEN "unregRemove" ELSE "drop")
  /\ UNCHANGED <<procVars, cpc, req, redisVars, dbVars, seen, histVars, faults>>

CountRemaining_AtMostOne(s) ==
  /\ dpc[s] = "count"
  /\ GoD(s, IF Cardinality(userSockets[UserOf[s]]) <= 1 THEN "unregRemove" ELSE "drop")
  /\ UNCHANGED <<procVars, cpc, req, redisVars, dbVars, seen, histVars, faults>>

\* wentOffline: no socket of the user is left.
CountRemaining(s) ==
  /\ dpc[s] = "count"
  /\ GoD(s, IF userSockets[UserOf[s]] = {} THEN "unregRemove" ELSE "drop")
  /\ UNCHANGED <<procVars, cpc, req, redisVars, dbVars, seen, histVars, faults>>

\* SREM online:users, in unregisterSocket and again in setUserOffline.
RemoveOnline(s) ==
  /\ \/ dpc[s] = "unregRemove" /\ GoD(s, "unregFind")
     \/ dpc[s] = "offRemove" /\ GoD(s, "offFind")
  /\ online' = online \ {UserOf[s]}
  /\ UNCHANGED <<procVars, cpc, req, socketUser, userSockets, hidden, dbVars, seen,
                 histVars, faults>>

FindOnDisconnect(s) ==
  /\ \/ /\ dpc[s] = "unregFind"
        /\ GoD(s, AfterFind(UserOf[s], "unregUpdate", "unregInsert"))
     \/ dpc[s] = "offFind" /\ GoD(s, AfterFind(UserOf[s], "offUpdate", "offInsert"))
  /\ UNCHANGED <<procVars, cpc, req, redisVars, dbVars, seen, histVars, faults>>

StoreOffline(s) ==
  /\ \/ /\ dpc[s] \in {"unregUpdate", "unregInsert"}
        /\ StoreActivity(UserOf[s], dpc[s] = "unregInsert", FALSE)
        /\ GoD(s, "offRemove")
     \/ /\ dpc[s] \in {"offUpdate", "offInsert"}
        /\ StoreActivity(UserOf[s], dpc[s] = "offInsert", FALSE)
        /\ GoD(s, "announce")
  /\ UNCHANGED <<procVars, cpc, req, redisVars, seen, histVars>>

DropConnection(s) ==
  /\ dpc[s] = "drop"
  /\ AddConnections(UserOf[s], -1)
  /\ GoD(s, "done")
  /\ UNCHANGED <<procVars, cpc, req, redisVars, seen, histVars>>

AnnounceOffline(s) ==
  /\ dpc[s] = "announce"
  /\ seen' = [seen EXCEPT ![UserOf[s]] = "offline"]
  /\ GoD(s, "done")
  /\ UNCHANGED <<procVars, cpc, req, redisVars, dbVars, histVars, faults>>

\* A Redis call of handleDisconnect fails: the error is logged, and the rest
\* of the clean-up does not run.
DisconnectFault(s) ==
  /\ Fault
  /\ dpc[s] \in {"get", "srem", "del", "count", "unregRemove", "offRemove"}
  /\ \/ UNCHANGED online
     \/ dpc[s] \in {"unregRemove", "offRemove"} /\ online' = online \ {UserOf[s]}
  /\ GoD(s, "done")
  /\ orphaned' = orphaned \cup {s}
  /\ UNCHANGED <<procVars, cpc, req, socketUser, userSockets, hidden, dbVars, seen, raced,
                 overlapped>>

(***************************************************************************)
(* setAppearOffline, called by presence:online and presence:offline        *)
(***************************************************************************)
SetHidden(t) ==
  /\ req[t].pc = "idle"
  /\ \E s \in Sockets, hide \in BOOLEAN :
       /\ conn[s] = "open"
       /\ req' = [req EXCEPT ![t] = [pc |-> "upsert", user |-> UserOf[s],
                                     hide |-> hide, say |-> FALSE]]
       /\ hidden' = IF hide THEN hidden \cup {UserOf[s]} ELSE hidden \ {UserOf[s]}
       /\ NoteOverlap(UserOf[s])
  /\ UNCHANGED <<procVars, cpc, dpc, socketUser, userSockets, online, dbVars, seen,
                 orphaned, raced, faults>>

UpsertHidden(t) ==
  /\ req[t].pc = "upsert"
  /\ rows' = rows \cup {req[t].user}
  /\ activity' = [activity EXCEPT ![req[t].user].hidden = req[t].hide]
  /\ req' = [req EXCEPT ![t].pc = "read"]
  /\ UNCHANGED <<procVars, cpc, dpc, redisVars, seen, histVars, faults>>

\* What the followers will be told: isOnline && !appearOffline.
ReadStatus(t) ==
  /\ req[t].pc = "read"
  /\ req' = [req EXCEPT ![t].pc = "announce",
                        ![t].say = req[t].user \in online /\ ~req[t].hide]
  /\ UNCHANGED <<procVars, cpc, dpc, redisVars, dbVars, seen, histVars, faults>>

AnnounceStatus(t) ==
  /\ req[t].pc = "announce"
  /\ seen' = [seen EXCEPT ![req[t].user] = IF req[t].say THEN "online" ELSE "offline"]
  /\ req' = [req EXCEPT ![t].pc = "done"]
  /\ UNCHANGED <<procVars, cpc, dpc, redisVars, dbVars, histVars, faults>>

\* The upsert or the read fails: the rest of the call does not run.
StatusFault(t) ==
  /\ Fault
  /\ req[t].pc \in {"upsert", "read"}
  /\ req' = [req EXCEPT ![t].pc = "done"]
  /\ UNCHANGED <<procVars, cpc, dpc, redisVars, dbVars, seen, histVars>>

(***************************************************************************)
(* The server stops and starts again: the sockets and the running handlers *)
(* are gone, Redis and the database keep what was written, and nothing at  *)
(* start-up (afterInit) looks at it.                                       *)
(***************************************************************************)
Crash ==
  /\ Fault
  /\ conn' = [s \in Sockets |-> IF conn[s] = "open" THEN "closed" ELSE conn[s]]
  /\ cpc' = [s \in Sockets |-> IF conn[s] = "new" THEN "idle" ELSE "done"]
  /\ dpc' = [s \in Sockets |-> IF conn[s] = "new" THEN "idle" ELSE "done"]
  /\ joined' = {}
  /\ req' = [t \in Toggles |-> IF req[t].pc = "idle" THEN req[t]
                               ELSE [req[t] EXCEPT !.pc = "done"]]
  /\ orphaned' = orphaned \cup {s \in Sockets : \/ conn[s] = "open"
                                                \/ ConnRunning(s) \/ DiscRunning(s)}
  /\ UNCHANGED <<authed, wasOffline, first, redisVars, dbVars, seen, raced, overlapped>>

\* Every socket and message of the bound has been used.
Finished ==
  /\ \A s \in Sockets : conn[s] = "closed" /\ cpc[s] = "done" /\ dpc[s] = "done"
  /\ UNCHANGED vars

ConnectionStep(s) ==
  \/ Authenticate(s) \/ Reject(s) \/ CheckOnline(s) \/ CountSockets(s)
  \/ WriteSocket(s) \/ FindOnConnect(s) \/ FinishRegister(s)
  \/ AddOnline(s) \/ StoreOnline(s) \/ AnnounceOnline(s)

DisconnectStep(s) ==
  \/ GetUser(s) \/ RemoveSocket(s) \/ DeleteMapping(s) \/ CountRemaining(s)
  \/ RemoveOnline(s) \/ FindOnDisconnect(s) \/ StoreOffline(s)
  \/ DropConnection(s) \/ AnnounceOffline(s)

StatusStep(t) == UpsertHidden(t) \/ ReadStatus(t) \/ AnnounceStatus(t)

Next ==
  \/ \E s \in Sockets : \/ Connect(s) \/ Close(s)
                        \/ ConnectionStep(s) \/ DisconnectStep(s)
                        \/ ConnectionFault(s) \/ DisconnectFault(s)
  \/ \E t \in Toggles : SetHidden(t) \/ StatusStep(t) \/ StatusFault(t)
  \/ Crash
  \/ Finished

Spec == Init /\ [][Next]_vars

\* A handler that waits is resumed: ioredis settles every command, with an
\* error after maxRetriesPerRequest, and so does the database driver.
Fairness ==
  /\ \A s \in Sockets : WF_vars(ConnectionStep(s)) /\ WF_vars(DisconnectStep(s))
  /\ \A t \in Toggles : WF_vars(StatusStep(t))

FairSpec == Spec /\ Fairness

(***************************************************************************)
(* Properties                                                              *)
(***************************************************************************)
\* Every variable has its type; activeConnections may be negative.
TypeOK ==
  /\ conn \in [Sockets -> {"new", "open", "closed"}]
  /\ authed \subseteq Sockets
  /\ joined \subseteq Sockets
  /\ cpc \in [Sockets -> CPc]
  /\ dpc \in [Sockets -> DPc]
  /\ wasOffline \in [Sockets -> BOOLEAN]
  /\ first \in [Sockets -> BOOLEAN]
  /\ req \in [Toggles -> [pc : TPc, user : Users, hide : BOOLEAN, say : BOOLEAN]]
  /\ socketUser \subseteq Sockets
  /\ userSockets \in [Users -> SUBSET Sockets]
  /\ online \subseteq Users
  /\ hidden \subseteq Users
  /\ rows \subseteq Users
  /\ activity \in [Users -> [online : BOOLEAN, conns : Int, hidden : BOOLEAN]]
  /\ seen \in [Users -> {"none", "online", "offline"}]
  /\ orphaned \subseteq Sockets
  /\ raced \subseteq Users
  /\ overlapped \subseteq Users
  /\ faults \in 0..MaxFaults

\* How the two handlers of a socket and the records fit together: the client
\* is attached before anything is recorded, nothing is recorded before the
\* writes of registerSocket, what is recorded stays until the socket's own
\* clean-up, which only takes a recorded socket apart, and a handshake that
\* outlives its socket is counted among the orphans.
BeforeWrite == {"idle", "auth", "check", "count", "write"}

SocketLife(s) ==
  /\ conn[s] = "new" <=> cpc[s] = "idle"
  /\ conn[s] # "closed" => dpc[s] = "idle"
  /\ cpc[s] \in {"idle", "auth"} => s \notin authed
  /\ ConnRunning(s) => cpc[s] = "auth" \/ s \in authed
  /\ s \notin authed => ~DiscRunning(s)
  /\ ConnRunning(s) /\ conn[s] = "closed" => s \in orphaned
  /\ s \in socketUser => s \in authed /\ cpc[s] \notin BeforeWrite
  /\ cpc[s] \notin BeforeWrite \cup {"done"} =>
       s \in orphaned \/ s \in userSockets[UserOf[s]]
  /\ dpc[s] \in {"srem", "del"} => cpc[s] \notin BeforeWrite
  /\ dpc[s] = "del" => s \notin userSockets[UserOf[s]]

Lifecycle == \A s \in Sockets : SocketLife(s)

\* A socket in a user's set can be found again from its id, whatever failed
\* and wherever the handlers are: registerSocket writes socket:user before
\* user:sockets, unregisterSocket removes them in the opposite order, so that
\* the clean-up, which starts from socket:user, never misses a socket.
SocketIndexed ==
  \A u \in Users : userSockets[u] \subseteq socketUser \cap SocketsOf(u)

\* A closed socket stays in its user's set only while its own clean-up has
\* still to remove it, or when that clean-up ran too early (the socket closed
\* during its handshake), failed, or died with the server.
NoGhostSocket ==
  \A u \in Users : \A s \in userSockets[u] :
    conn[s] = "closed" => s \in orphaned \/ dpc[s] \in {"get", "srem"}

\* A user without any socket is in online:users only while a handleDisconnect
\* is on its way to remove it, or after the clean-up of one of the user's
\* sockets was cut short.  Concurrent connections and disconnections alone
\* never leave a user online for ever.
NoZombieUser ==
  \A u \in online : userSockets[u] = {} =>
    \E s \in SocketsOf(u) : s \in orphaned \/ dpc[s] \in {"del", "count", "unregRemove"}

\* A user with an open, registered socket is missing from online:users only if
\* one of the user's sockets registered while a handleDisconnect that had
\* found no socket left was still taking the user offline.
OfflineOnlyIfRaced ==
  \A s \in Sockets :
    conn[s] = "open" /\ s \in userSockets[UserOf[s]] /\ UserOf[s] \notin online
      => UserOf[s] \in raced

\* Why: a handler that is taking a user offline found the set empty, so a
\* socket in it now was registered since.
OfflineDecisionStale ==
  \A d \in Sockets :
    TakingOffline(d) /\ userSockets[UserOf[d]] # {} => UserOf[d] \in raced

LiveSockets(u) == {s \in SocketsOf(u) : conn[s] = "open"}

\* As long as the handlers of a user run one after the other and no call
\* fails, the five records of presence agree after each of them, however long
\* the sequence: the open sockets, the Redis sets, the row, its connection
\* count and what the followers were last told.
SequentialExact ==
  \A u \in Users : ~Busy(u) /\ u \notin overlapped /\ faults = 0 =>
    LET live == LiveSockets(u) IN
    /\ userSockets[u] = live /\ socketUser \cap SocketsOf(u) = live
    /\ joined \cap SocketsOf(u) = live
    /\ u \in online <=> live # {}
    /\ activity[u].online <=> live # {}
    /\ activity[u].conns = Cardinality(live)
    /\ activity[u].hidden <=> u \in hidden
    /\ seen[u] = "online" => u \in online
    /\ u \in online /\ (\A t \in Toggles : req[t].pc = "idle") => seen[u] = "online"

\* When all devices of a user have gone and none of them was orphaned, the
\* user does not stay online, and the followers do not stay with the belief
\* that the user is (as long as no setAppearOffline call interferes).
LastDeviceLeaves ==
  \A u \in Users :
    (\A s \in SocketsOf(u) : conn[s] = "closed") ~>
      \/ \E s \in SocketsOf(u) : s \in orphaned
      \/ \E t \in Toggles : req[t].pc # "idle"
      \/ u \notin online /\ seen[u] # "online"

\* A connection is never left waiting: it is greeted and in its user's room,
\* or closed.
HandshakeEnds ==
  \A s \in Sockets : conn[s] = "open" ~> s \in joined \/ conn[s] = "closed"

\* No handler leaves its work half done for ever (handleConnection, handleDisconnect).
HandlersSettle == LastDeviceLeaves /\ HandshakeEnds

(***************************************************************************)
(* What the handlers promise of a user as long as they run one at a time   *)
(***************************************************************************)
\* Nothing of u has overlapped so far and no call has failed.
Sequential(u) == u \notin overlapped /\ faults = 0

\* A device is on from registerSocket's writes until unregisterSocket has removed
\* the user, or lowered the count.
Place(s) ==
  CASE ~Sequential(UserOf[s]) -> "off"
    [] Sequential(UserOf[s]) /\ conn[s] = "closed" ->
         IF dpc[s] \in {"get", "srem", "del", "count", "drop", "unregRemove"} THEN "on" ELSE "off"
    [] OTHER -> IF cpc[s] \in BeforeWrite THEN "new" ELSE "on"

Promise == INSTANCE OnlineStatus WITH
  Devices <- Sockets, OwnerOf <- UserOf,
  device <- [s \in Sockets |-> Place(s)],
  online <- {u \in online : Sequential(u)},
  trusted <- {u \in Users : Sequential(u)}

\* The gateway implements OnlineStatus: whatever happens to other users, online:users
\* gains a user at the registration of a first device and loses him with the last
\* one, at no other await (registerSocket, unregisterSocket, setUserOnline,
\* setUserOffline).
KeepsPromise == Promise!Spec

(***************************************************************************)
(* What the documents say of presence and the code does not keep.          *)
(***************************************************************************)
\* plan/phase-4-realtime.md:542, "user online if ANY device connected".
AnyDeviceOnline ==
  \A u \in Users : ~Busy(u) /\ faults = 0 /\ LiveSockets(u) # {} => u \in online
=============================================================================
