-------------------------- MODULE Presence_proofs --------------------------
(***************************************************************************)
(* Type correctness and the safety invariants of Presence, for any sets of *)
(* sockets, users and messages and any number of failures.                 *)
(***************************************************************************)
EXTENDS Presence, FiniteSetTheorems, TLAPS

\* The initial states have the types.
LEMMA InitType == Init => TypeOK
BY UserOfAssumption, MaxFaultsAssumption DEF Init, TypeOK, CPc, DPc, TPc

RowsType == /\ rows \subseteq Users
            /\ activity \in [Users -> [online : BOOLEAN, conns : Int, hidden : BOOLEAN]]
            /\ faults \in 0..MaxFaults

\* updateUserActivityDb, increment and decrement keep the table's type.
LEMMA RowsTyped ==
  ASSUME RowsType, NEW u \in Users
  PROVE  /\ \A insert, on \in BOOLEAN : StoreActivity(u, insert, on) => RowsType'
         /\ \A n \in Int : AddConnections(u, n) => RowsType'
<1> USE MaxFaultsAssumption DEF RowsType, dbVars, Fault
<1>1. ASSUME NEW insert \in BOOLEAN, NEW on \in BOOLEAN, StoreActivity(u, insert, on)
      PROVE  RowsType'
  BY <1>1 DEF StoreActivity
<1>2. ASSUME NEW n \in Int, AddConnections(u, n)
      PROVE  RowsType'
  BY <1>2 DEF AddConnections
<1> QED
  BY <1>1, <1>2

Request == [pc : TPc, user : Users, hide : BOOLEAN, say : BOOLEAN]

\* The steps of setAppearOffline change its program counter and its answer.
LEMMA RequestStep == \A r \in Request, x \in TPc : [r EXCEPT !.pc = x] \in Request
BY DEF Request

\* So do they inside the function of all calls.
LEMMA ReqTyped ==
  ASSUME req \in [Toggles -> Request], NEW t \in Toggles
  PROVE  /\ \A x \in TPc : [req EXCEPT ![t].pc = x] \in [Toggles -> Request]
         /\ \A x \in TPc, y \in BOOLEAN :
              [req EXCEPT ![t].pc = x, ![t].say = y] \in [Toggles -> Request]
BY DEF Request

\* Every step keeps the types.
LEMMA NextType == TypeOK /\ [Next]_vars => TypeOK'
<1> SUFFICES ASSUME TypeOK, [Next]_vars PROVE TypeOK'
  OBVIOUS
<1> USE UserOfAssumption, MaxFaultsAssumption
    DEF TypeOK, Request, CPc, DPc, TPc, procVars, redisVars, dbVars, histVars, GoC, GoD
<1>1. CASE UNCHANGED vars
  BY <1>1 DEF vars
<1>2. ASSUME NEW s \in Sockets, Connect(s)
      PROVE  TypeOK'
  BY <1>2 DEF Connect, NoteOverlap
<1>3. ASSUME NEW s \in Sockets, Close(s)
      PROVE  TypeOK'
  BY <1>3 DEF Close, NoteOverlap, CloseSocket
<1>4. ASSUME NEW s \in Sockets, ConnectionStep(s)
      PROVE  TypeOK'
  <2>1. CASE Authenticate(s)
    BY <2>1 DEF Authenticate
  <2>2. CASE Reject(s)
    BY <2>2 DEF Reject, CloseSocket
  <2>3. CASE CheckOnline(s)
    BY <2>3 DEF CheckOnline
  <2>4. CASE CountSockets(s)
    BY <2>4 DEF CountSockets
  <2>5. CASE WriteSocket(s)
    BY <2>5 DEF WriteSocket, RegisterWrites
  <2>6. CASE FindOnConnect(s)
    BY <2>6 DEF FindOnConnect, AfterFind
  <2>7. CASE FinishRegister(s)
    <3>0. RowsType /\ UserOf[s] \in Users
      BY DEF RowsType
    <3>1. RowsType'
      <4>1. CASE StoreActivity(UserOf[s], FALSE, TRUE) \/ StoreActivity(UserOf[s], TRUE, TRUE)
        BY <3>0, <4>1, RowsTyped
      <4>2. CASE AddConnections(UserOf[s], 1)
        BY <3>0, <4>2, RowsTyped
      <4> QED
        BY <2>7, <4>1, <4>2 DEF FinishRegister
    <3> QED
      BY <2>7, <3>1 DEF FinishRegister, Greet, RowsType
  <2>8. CASE AddOnline(s)
    BY <2>8 DEF AddOnline
  <2>9. CASE StoreOnline(s)
    <3>1. RowsType'
      BY <2>9, RowsTyped DEF StoreOnline, RowsType
    <3> QED
      BY <2>9, <3>1 DEF StoreOnline, RowsType
  <2>10. CASE AnnounceOnline(s)
    BY <2>10 DEF AnnounceOnline
  <2> QED
    BY <1>4, <2>1, <2>2, <2>3, <2>4, <2>5, <2>6, <2>7, <2>8, <2>9, <2>10 DEF ConnectionStep
<1>5. ASSUME NEW s \in Sockets, DisconnectStep(s)
      PROVE  TypeOK'
  <2>1. CASE GetUser(s)
    BY <2>1 DEF GetUser
  <2>2. CASE RemoveSocket(s)
    BY <2>2 DEF RemoveSocket
  <2>3. CASE DeleteMapping(s)
    BY <2>3 DEF DeleteMapping
  <2>4. CASE CountRemaining(s)
    BY <2>4 DEF CountRemaining
  <2>5. CASE RemoveOnline(s)
    BY <2>5 DEF RemoveOnline
  <2>6. CASE FindOnDisconnect(s)
    BY <2>6 DEF FindOnDisconnect, AfterFind
  <2>7. CASE StoreOffline(s)
    <3>1. RowsType'
      BY <2>7, RowsTyped DEF StoreOffline, RowsType
    <3>2. dpc' \in [Sockets -> DPc]
      <4>1. CASE GoD(s, "offRemove")
        BY <4>1
      <4>2. CASE GoD(s, "announce")
        BY <4>2
      <4> QED
        BY <2>7, <4>1, <4>2 DEF StoreOffline
    <3> QED
      BY <2>7, <3>1, <3>2 DEF StoreOffline, RowsType
  <2>8. CASE DropConnection(s)
    <3>1. RowsType'
      BY <2>8, RowsTyped DEF DropConnection, RowsType
    <3> QED
      BY <2>8, <3>1 DEF DropConnection, RowsType
  <2>9. CASE AnnounceOffline(s)
    BY <2>9 DEF AnnounceOffline
  <2> QED
    BY <1>5, <2>1, <2>2, <2>3, <2>4, <2>5, <2>6, <2>7, <2>8, <2>9 DEF DisconnectStep
<1>6. ASSUME NEW s \in Sockets, ConnectionFault(s)
      PROVE  TypeOK'
  <2>1. /\ conn' \in [Sockets -> {"new", "open", "closed"}]
        /\ joined' \subseteq Sockets
    BY <1>6 DEF ConnectionFault, CloseSocket
  <2>2. cpc' \in [Sockets -> CPc] /\ faults' \in 0..MaxFaults
    BY <1>6 DEF ConnectionFault, Fault
  <2>3. dpc' \in [Sockets -> DPc]
    BY <1>6 DEF ConnectionFault, CloseSocket
  <2>4. /\ socketUser' \subseteq Sockets /\ userSockets' \in [Users -> SUBSET Sockets]
        /\ online' \subseteq Users /\ hidden' \subseteq Users /\ raced' \subseteq Users
    BY <1>6 DEF ConnectionFault, RegisterWrites
  <2> QED
    BY <1>6, <2>1, <2>2, <2>3, <2>4 DEF ConnectionFault
<1>7. ASSUME NEW s \in Sockets, DisconnectFault(s)
      PROVE  TypeOK'
  BY <1>7 DEF DisconnectFault, Fault
<1>8. ASSUME NEW t \in Toggles, SetHidden(t)
      PROVE  TypeOK'
  BY <1>8 DEF SetHidden, NoteOverlap
<1>9. ASSUME NEW t \in Toggles, StatusStep(t) \/ StatusFault(t)
      PROVE  TypeOK'
  <2>1. req' \in [Toggles -> Request]
    <3>1. CASE UpsertHidden(t)
      BY ReqTyped, <3>1 DEF UpsertHidden
    <3>2. CASE ReadStatus(t)
      BY ReqTyped, <3>2 DEF ReadStatus
    <3>3. CASE AnnounceStatus(t)
      BY ReqTyped, <3>3 DEF AnnounceStatus
    <3>4. CASE StatusFault(t)
      BY ReqTyped, <3>4 DEF StatusFault
    <3> QED
      BY <1>9, <3>1, <3>2, <3>3, <3>4 DEF StatusStep
  <2>2. CASE UpsertHidden(t)
    <3>1. activity' \in [Users -> [online : BOOLEAN, conns : Int, hidden : BOOLEAN]]
      BY <2>2 DEF UpsertHidden
    <3> QED
      BY <2>1, <2>2, <3>1 DEF UpsertHidden
  <2>3. CASE ReadStatus(t)
    BY <2>1, <2>3 DEF ReadStatus
  <2>4. CASE AnnounceStatus(t)
    <3>1. seen' \in [Users -> {"none", "online", "offline"}]
      BY <2>4 DEF AnnounceStatus
    <3> QED
      BY <2>1, <2>4, <3>1 DEF AnnounceStatus
  <2>5. CASE StatusFault(t)
    BY <2>1, <2>5 DEF StatusFault, Fault
  <2> QED
    BY <1>9, <2>2, <2>3, <2>4, <2>5 DEF StatusStep
<1>10. CASE Crash
  <2>1. req' \in [Toggles -> Request]
    <3> SUFFICES ASSUME NEW t \in Toggles
                 PROVE  (IF req[t].pc = "idle" THEN req[t]
                         ELSE [req[t] EXCEPT !.pc = "done"]) \in Request
      BY <1>10 DEF Crash
    <3>1. req[t] \in Request
      OBVIOUS
    <3>2. "done" \in TPc
      OBVIOUS
    <3> HIDE DEF Request, TPc, TypeOK
    <3> QED
      BY <3>1, <3>2, RequestStep
  <2>2. conn' \in [Sockets -> {"new", "open", "closed"}]
    BY <1>10 DEF Crash
  <2>6. cpc' \in [Sockets -> CPc]
    BY <1>10 DEF Crash
  <2>3. dpc' \in [Sockets -> DPc]
    BY <1>10 DEF Crash
  <2>4. orphaned' \subseteq Sockets
    BY <1>10 DEF Crash
  <2> QED
    BY <1>10, <2>1, <2>2, <2>3, <2>4, <2>6 DEF Crash, Fault
<1>11. CASE Finished
  BY <1>11 DEF Finished, vars
<1> QED
  BY <1>1, <1>2, <1>3, <1>4, <1>5, <1>6, <1>7, <1>8, <1>9, <1>10, <1>11
  DEF Next

\* Every variable of the gateway keeps its type in every behaviour.
THEOREM TypeCorrect == Spec => []TypeOK
BY InitType, NextType, PTL DEF Spec

(***************************************************************************)
(* The safety invariants.  None is inductive alone: Lifecycle ties the two *)
(* handlers of a socket to the records, OfflineDecisionStale says when the *)
(* decision of a handleDisconnect is out of date, and together with the    *)
(* types they make the others inductive.                                   *)
(***************************************************************************)

\* The appear-offline messages touch neither the sockets nor who is online.
LEMMA StatusFrame ==
  ASSUME NEW t \in Toggles, SetHidden(t) \/ StatusStep(t) \/ StatusFault(t)
  PROVE  UNCHANGED <<procVars, cpc, dpc, socketUser, userSockets, online, orphaned, raced>>
<1> USE DEF procVars, redisVars, histVars
<1>1. CASE SetHidden(t)
  BY <1>1 DEF SetHidden
<1>2. CASE UpsertHidden(t)
  BY <1>2 DEF UpsertHidden
<1>3. CASE ReadStatus(t)
  BY <1>3 DEF ReadStatus
<1>4. CASE AnnounceStatus(t)
  BY <1>4 DEF AnnounceStatus
<1>5. CASE StatusFault(t)
  BY <1>5 DEF StatusFault
<1> QED
  BY <1>1, <1>2, <1>3, <1>4, <1>5 DEF StatusStep

\* Every step keeps the two handlers of every socket in step with its records.
LEMMA LifecycleStep == TypeOK /\ Lifecycle /\ SocketIndexed /\ [Next]_vars => Lifecycle'
<1> SUFFICES ASSUME TypeOK, Lifecycle, SocketIndexed, [Next]_vars PROVE Lifecycle'
  OBVIOUS
<1> USE UserOfAssumption DEF TypeOK, SocketIndexed, SocketsOf, Lifecycle, SocketLife, BeforeWrite, ConnRunning, DiscRunning, procVars, redisVars, histVars, GoC, GoD
<1>1. ASSUME NEW s \in Sockets, Connect(s)
      PROVE  Lifecycle'
  BY <1>1 DEF Connect, NoteOverlap
<1>2. ASSUME NEW s \in Sockets, Close(s)
      PROVE  Lifecycle'
  BY <1>2 DEF Close, CloseSocket, NoteOverlap
<1>3. ASSUME NEW s \in Sockets, ConnectionStep(s)
      PROVE  Lifecycle'
  <2>1. CASE Authenticate(s)
    BY <2>1 DEF Authenticate
  <2>2. CASE Reject(s)
    BY <2>2 DEF Reject, CloseSocket
  <2>3. CASE CheckOnline(s)
    BY <2>3 DEF CheckOnline
  <2>4. CASE CountSockets(s)
    BY <2>4 DEF CountSockets
  <2>5. CASE WriteSocket(s)
    <3> SUFFICES ASSUME NEW x \in Sockets PROVE SocketLife(x)'
      BY DEF Lifecycle
    <3>1. /\ cpc[s] = "write" /\ cpc' = [cpc EXCEPT ![s] = IF first[s] THEN "regFind" ELSE "bump"]
           /\ socketUser' = socketUser \cup {s}
           /\ userSockets' = [userSockets EXCEPT ![UserOf[s]] = @ \cup {s}]
           /\ UNCHANGED <<conn, authed, dpc, orphaned>>
      BY <2>5 DEF WriteSocket, RegisterWrites
    <3>2. CASE x = s
      BY <3>1, <3>2
    <3>3. CASE x # s
      BY <3>1, <3>3
    <3> QED
      BY <3>2, <3>3
  <2>6. CASE FindOnConnect(s)
    BY <2>6 DEF FindOnConnect, AfterFind
  <2>7. CASE FinishRegister(s)
    <3> SUFFICES ASSUME NEW x \in Sockets PROVE SocketLife(x)'
      BY DEF Lifecycle
    <3>1. /\ cpc[s] \in {"regUpdate", "regInsert", "bump"}
           /\ cpc' = [cpc EXCEPT ![s] = IF wasOffline[s] THEN "onAdd" ELSE "done"]
           /\ UNCHANGED <<conn, authed, socketUser, userSockets, dpc, orphaned>>
      BY <2>7 DEF FinishRegister, Greet
    <3>2. CASE x = s
      BY <3>1, <3>2
    <3>3. CASE x # s
      BY <3>1, <3>3
    <3> QED
      BY <3>2, <3>3
  <2>8. CASE AddOnline(s)
    BY <2>8 DEF AddOnline
  <2>9. CASE StoreOnline(s)
    <3> SUFFICES ASSUME NEW x \in Sockets PROVE SocketLife(x)'
      BY DEF Lifecycle
    <3>1. /\ cpc[s] \in {"onUpdate", "onInsert"} /\ cpc' = [cpc EXCEPT ![s] = "announce"]
           /\ UNCHANGED <<conn, authed, socketUser, userSockets, dpc, orphaned>>
      BY <2>9 DEF StoreOnline
    <3>2. CASE x = s
      BY <3>1, <3>2
    <3>3. CASE x # s
      BY <3>1, <3>3
    <3> QED
      BY <3>2, <3>3
  <2>10. CASE AnnounceOnline(s)
    BY <2>10 DEF AnnounceOnline
  <2> QED
    BY <1>3, <2>1, <2>2, <2>3, <2>4, <2>5, <2>6, <2>7, <2>8, <2>9, <2>10 DEF ConnectionStep
<1>4. ASSUME NEW s \in Sockets, DisconnectStep(s)
      PROVE  Lifecycle'
  <2>1. CASE GetUser(s)
    BY <2>1 DEF GetUser
  <2>2. CASE RemoveSocket(s)
    BY <2>2 DEF RemoveSocket
  <2>3. CASE DeleteMapping(s)
    BY <2>3 DEF DeleteMapping
  <2>4. CASE CountRemaining(s)
    BY <2>4 DEF CountRemaining
  <2>5. CASE RemoveOnline(s)
    BY <2>5 DEF RemoveOnline
  <2>6. CASE FindOnDisconnect(s)
    BY <2>6 DEF FindOnDisconnect, AfterFind
  <2>7. CASE StoreOffline(s)
    <3> SUFFICES ASSUME NEW x \in Sockets PROVE SocketLife(x)'
      BY DEF Lifecycle
    <3>1. /\ dpc[s] \in {"unregUpdate", "unregInsert", "offUpdate", "offInsert"}
           /\ dpc' \in {[dpc EXCEPT ![s] = "offRemove"], [dpc EXCEPT ![s] = "announce"]}
           /\ UNCHANGED <<conn, authed, socketUser, userSockets, cpc, orphaned>>
      BY <2>7 DEF StoreOffline
    <3>2. CASE x = s
      BY <3>1, <3>2
    <3>3. CASE x # s
      BY <3>1, <3>3
    <3> QED
      BY <3>2, <3>3
  <2>8. CASE DropConnection(s)
    BY <2>8 DEF DropConnection
  <2>9. CASE AnnounceOffline(s)
    BY <2>9 DEF AnnounceOffline
  <2> QED
    BY <1>4, <2>1, <2>2, <2>3, <2>4, <2>5, <2>6, <2>7, <2>8, <2>9 DEF DisconnectStep
<1>5. ASSUME NEW s \in Sockets, ConnectionFault(s)
      PROVE  Lifecycle'
  <2> SUFFICES ASSUME NEW x \in Sockets PROVE SocketLife(x)'
    BY DEF Lifecycle
  <2>1. /\ cpc[s] \in {"check", "count", "write", "onAdd"}
        /\ cpc' = [cpc EXCEPT ![s] = "done"]
        /\ UNCHANGED <<authed, orphaned>>
    BY <1>5 DEF ConnectionFault
  <2>2. /\ conn[s] = "open" => /\ conn' = [conn EXCEPT ![s] = "closed"]
                               /\ dpc' = [dpc EXCEPT ![s] = IF s \in authed THEN "get" ELSE "done"]
        /\ conn[s] # "open" => UNCHANGED <<conn, dpc>>
    BY <1>5 DEF ConnectionFault, CloseSocket
  <2>3. /\ socketUser' \in {socketUser, socketUser \cup {s}}
        /\ userSockets' \in {userSockets, [userSockets EXCEPT ![UserOf[s]] = @ \cup {s}]}
        /\ cpc[s] # "write" => UNCHANGED <<socketUser, userSockets>>
    BY <1>5 DEF ConnectionFault, RegisterWrites
  <2>4. CASE x = s
    <3>1. SocketLife(s)
      BY DEF Lifecycle
    <3>2. conn'[s] = "closed" /\ cpc'[s] = "done" /\ s \in authed'
      BY <2>1, <2>2, <3>1
    <3>3. dpc'[s] = "del" => s \notin userSockets'[UserOf[s]]
      BY <2>1, <2>2, <2>3, <3>1
    <3> QED
      BY <2>4, <3>2, <3>3
  <2>5. CASE x # s
    <3>1. /\ conn'[x] = conn[x] /\ cpc'[x] = cpc[x] /\ dpc'[x] = dpc[x]
          /\ x \in socketUser' <=> x \in socketUser
          /\ x \in userSockets'[UserOf[x]] <=> x \in userSockets[UserOf[x]]
          /\ x \in authed' <=> x \in authed
          /\ x \in orphaned' <=> x \in orphaned
      BY <2>1, <2>2, <2>3, <2>5
    <3>2. SocketLife(x)
      BY DEF Lifecycle
    <3> QED
      BY <3>1, <3>2
  <2> QED
    BY <2>4, <2>5
<1>6. ASSUME NEW s \in Sockets, DisconnectFault(s)
      PROVE  Lifecycle'
  BY <1>6 DEF DisconnectFault
<1>7. ASSUME NEW t \in Toggles, SetHidden(t) \/ StatusStep(t) \/ StatusFault(t)
      PROVE  Lifecycle'
  BY <1>7, StatusFrame
<1>8. CASE Crash
  BY <1>8 DEF Crash
<1>9. CASE Finished \/ UNCHANGED vars
  BY <1>9 DEF Finished, vars
<1> QED
  BY <1>1, <1>2, <1>3, <1>4, <1>5, <1>6, <1>7, <1>8, <1>9 DEF Next

\* Every step keeps every registered socket reachable from its id.
LEMMA IndexedStep == TypeOK /\ Lifecycle /\ SocketIndexed /\ [Next]_vars => SocketIndexed'
<1> SUFFICES ASSUME TypeOK, Lifecycle, SocketIndexed, [Next]_vars PROVE SocketIndexed'
  OBVIOUS
<1> USE UserOfAssumption DEF TypeOK, SocketIndexed, SocketsOf, Lifecycle, SocketLife, BeforeWrite, procVars, redisVars, histVars, GoC, GoD
<1>1. ASSUME NEW s \in Sockets, Connect(s)
      PROVE  SocketIndexed'
  BY <1>1 DEF Connect, NoteOverlap
<1>2. ASSUME NEW s \in Sockets, Close(s)
      PROVE  SocketIndexed'
  BY <1>2 DEF Close, CloseSocket, NoteOverlap
<1>3. ASSUME NEW s \in Sockets, ConnectionStep(s)
      PROVE  SocketIndexed'
  <2>1. CASE Authenticate(s)
    BY <2>1 DEF Authenticate
  <2>2. CASE Reject(s)
    BY <2>2 DEF Reject, CloseSocket
  <2>3. CASE CheckOnline(s)
    BY <2>3 DEF CheckOnline
  <2>4. CASE CountSockets(s)
    BY <2>4 DEF CountSockets
  <2>5. CASE WriteSocket(s)
    BY <2>5 DEF WriteSocket, RegisterWrites
  <2>6. CASE FindOnConnect(s)
    BY <2>6 DEF FindOnConnect, AfterFind
  <2>7. CASE FinishRegister(s)
    BY <2>7 DEF FinishRegister, Greet
  <2>8. CASE AddOnline(s)
    BY <2>8 DEF AddOnline
  <2>9. CASE StoreOnline(s)
    BY <2>9 DEF StoreOnline
  <2>10. CASE AnnounceOnline(s)
    BY <2>10 DEF AnnounceOnline
  <2> QED
    BY <1>3, <2>1, <2>2, <2>3, <2>4, <2>5, <2>6, <2>7, <2>8, <2>9, <2>10 DEF ConnectionStep
<1>4. ASSUME NEW s \in Sockets, DisconnectStep(s)
      PROVE  SocketIndexed'
  <2>1. CASE GetUser(s)
    BY <2>1 DEF GetUser
  <2>2. CASE RemoveSocket(s)
    BY <2>2 DEF RemoveSocket
  <2>3. CASE DeleteMapping(s)
    BY <2>3 DEF DeleteMapping
  <2>4. CASE CountRemaining(s)
    BY <2>4 DEF CountRemaining
  <2>5. CASE RemoveOnline(s)
    BY <2>5 DEF RemoveOnline
  <2>6. CASE FindOnDisconnect(s)
    BY <2>6 DEF FindOnDisconnect, AfterFind
  <2>7. CASE StoreOffline(s)
    BY <2>7 DEF StoreOffline
  <2>8. CASE DropConnection(s)
    BY <2>8 DEF DropConnection
  <2>9. CASE AnnounceOffline(s)
    BY <2>9 DEF AnnounceOffline
  <2> QED
    BY <1>4, <2>1, <2>2, <2>3, <2>4, <2>5, <2>6, <2>7, <2>8, <2>9 DEF DisconnectStep
<1>5. ASSUME NEW s \in Sockets, ConnectionFault(s)
      PROVE  SocketIndexed'
  BY <1>5 DEF ConnectionFault, RegisterWrites, CloseSocket
<1>6. ASSUME NEW s \in Sockets, DisconnectFault(s)
      PROVE  SocketIndexed'
  BY <1>6 DEF DisconnectFault
<1>7. ASSUME NEW t \in Toggles, SetHidden(t) \/ StatusStep(t) \/ StatusFault(t)
      PROVE  SocketIndexed'
  BY <1>7, StatusFrame
<1>8. CASE Crash
  BY <1>8 DEF Crash
<1>9. CASE Finished \/ UNCHANGED vars
  BY <1>9 DEF Finished, vars
<1> QED
  BY <1>1, <1>2, <1>3, <1>4, <1>5, <1>6, <1>7, <1>8, <1>9 DEF Next

\* Every step leaves a closed socket recorded only under its own clean-up.
LEMMA GhostStep == TypeOK /\ Lifecycle /\ SocketIndexed /\ NoGhostSocket /\ [Next]_vars => NoGhostSocket'
<1> SUFFICES ASSUME TypeOK, Lifecycle, SocketIndexed, NoGhostSocket, [Next]_vars PROVE NoGhostSocket'
  OBVIOUS
<1> USE UserOfAssumption DEF TypeOK, SocketIndexed, SocketsOf, NoGhostSocket, ConnRunning, DiscRunning, procVars, redisVars, histVars, GoC, GoD
<1>0. \A s \in Sockets :
        /\ cpc[s] \notin {"idle", "done"} /\ conn[s] = "closed" => s \in orphaned
        /\ s \in socketUser => s \in authed
        /\ cpc[s] \in {"check", "count", "write", "onAdd"} => s \in authed
  BY DEF Lifecycle, SocketLife, ConnRunning
<1>1. ASSUME NEW s \in Sockets, Connect(s)
      PROVE  NoGhostSocket'
  BY <1>0, <1>1 DEF Connect, NoteOverlap
<1>2. ASSUME NEW s \in Sockets, Close(s)
      PROVE  NoGhostSocket'
  BY <1>0, <1>2 DEF Close, CloseSocket, NoteOverlap
<1>3. ASSUME NEW s \in Sockets, ConnectionStep(s)
      PROVE  NoGhostSocket'
  <2>1. CASE Authenticate(s)
    BY <1>0, <2>1 DEF Authenticate
  <2>2. CASE Reject(s)
    BY <1>0, <2>2 DEF Reject, CloseSocket
  <2>3. CASE CheckOnline(s)
    BY <1>0, <2>3 DEF CheckOnline
  <2>4. CASE CountSockets(s)
    BY <1>0, <2>4 DEF CountSockets
  <2>5. CASE WriteSocket(s)
    <3>1. /\ cpc[s] = "write" /\ online' = online \cup {UserOf[s]}
           /\ userSockets' = [userSockets EXCEPT ![UserOf[s]] = @ \cup {s}]
           /\ UNCHANGED <<conn, dpc, orphaned>>
      BY <2>5 DEF WriteSocket, RegisterWrites
    <3> QED
      BY <1>0, <3>1
  <2>6. CASE FindOnConnect(s)
    BY <1>0, <2>6 DEF FindOnConnect, AfterFind
  <2>7. CASE FinishRegister(s)
    BY <1>0, <2>7 DEF FinishRegister, Greet
  <2>8. CASE AddOnline(s)
    BY <1>0, <2>8 DEF AddOnline
  <2>9. CASE StoreOnline(s)
    BY <1>0, <2>9 DEF StoreOnline
  <2>10. CASE AnnounceOnline(s)
    BY <1>0, <2>10 DEF AnnounceOnline
  <2> QED
    BY <1>3, <2>1, <2>2, <2>3, <2>4, <2>5, <2>6, <2>7, <2>8, <2>9, <2>10 DEF ConnectionStep
<1>4. ASSUME NEW s \in Sockets, DisconnectStep(s)
      PROVE  NoGhostSocket'
  <2>1. CASE GetUser(s)
    BY <1>0, <2>1 DEF GetUser
  <2>2. CASE RemoveSocket(s)
    BY <1>0, <2>2 DEF RemoveSocket
  <2>3. CASE DeleteMapping(s)
    BY <1>0, <2>3 DEF DeleteMapping
  <2>4. CASE CountRemaining(s)
    BY <1>0, <2>4 DEF CountRemaining
  <2>5. CASE RemoveOnline(s)
    <3>1. /\ dpc[s] \in {"unregRemove", "offRemove"}
          /\ \A x \in Sockets \ {s} : dpc'[x] = dpc[x]
          /\ UNCHANGED <<procVars, cpc, socketUser, userSockets, histVars>>
      BY <2>5 DEF RemoveOnline
    <3> QED BY <1>0, <3>1
  <2>6. CASE FindOnDisconnect(s)
    <3>1. /\ dpc[s] \in {"unregFind", "offFind"}
          /\ \A x \in Sockets \ {s} : dpc'[x] = dpc[x]
          /\ UNCHANGED <<procVars, cpc, redisVars, histVars>>
      BY <2>6 DEF FindOnDisconnect
    <3> QED BY <1>0, <3>1
  <2>7. CASE StoreOffline(s)
    <3>1. /\ dpc[s] \in {"unregUpdate", "unregInsert", "offUpdate", "offInsert"}
           /\ dpc' \in {[dpc EXCEPT ![s] = "offRemove"], [dpc EXCEPT ![s] = "announce"]}
           /\ UNCHANGED <<procVars, cpc, redisVars, histVars>>
      BY <2>7 DEF StoreOffline
    <3> QED
      BY <3>1
  <2>8. CASE DropConnection(s)
    BY <1>0, <2>8 DEF DropConnection
  <2>9. CASE AnnounceOffline(s)
    BY <1>0, <2>9 DEF AnnounceOffline
  <2> QED
    BY <1>4, <2>1, <2>2, <2>3, <2>4, <2>5, <2>6, <2>7, <2>8, <2>9 DEF DisconnectStep
<1>5. ASSUME NEW s \in Sockets, ConnectionFault(s)
      PROVE  NoGhostSocket'
  <2> SUFFICES ASSUME NEW u \in Users, NEW x \in userSockets'[u], conn'[x] = "closed"
               PROVE  x \in orphaned' \/ dpc'[x] \in {"get", "srem"}
    OBVIOUS
  <2>1. cpc[s] \in {"check", "count", "write", "onAdd"} /\ orphaned' = orphaned
    BY <1>5 DEF ConnectionFault
  <2>2. /\ conn[s] = "open" => /\ conn' = [conn EXCEPT ![s] = "closed"]
                               /\ dpc' = [dpc EXCEPT ![s] = "get"]
        /\ conn[s] # "open" => UNCHANGED <<conn, dpc>>
    BY <1>0, <1>5, <2>1 DEF ConnectionFault, CloseSocket
  <2>3. userSockets' \in {userSockets, [userSockets EXCEPT ![UserOf[s]] = @ \cup {s}]}
    BY <1>5 DEF ConnectionFault, RegisterWrites
  <2>4. CASE x = s
    BY <1>0, <2>1, <2>2, <2>4
  <2>5. CASE x # s
    BY <2>1, <2>2, <2>3, <2>5
  <2> QED
    BY <2>4, <2>5
<1>6. ASSUME NEW s \in Sockets, DisconnectFault(s)
      PROVE  NoGhostSocket'
  BY <1>0, <1>6 DEF DisconnectFault
<1>7. ASSUME NEW t \in Toggles, SetHidden(t) \/ StatusStep(t) \/ StatusFault(t)
      PROVE  NoGhostSocket'
  BY <1>7, StatusFrame
<1>8. CASE Crash
  BY <1>0, <1>8 DEF Crash
<1>9. CASE Finished \/ UNCHANGED vars
  BY <1>9 DEF Finished, vars
<1> QED
  BY <1>1, <1>2, <1>3, <1>4, <1>5, <1>6, <1>7, <1>8, <1>9 DEF Next

\* Every step leaves an online user without sockets only under a clean-up.
LEMMA ZombieStep == TypeOK /\ Lifecycle /\ SocketIndexed /\ NoZombieUser /\ [Next]_vars => NoZombieUser'
<1> SUFFICES ASSUME TypeOK, Lifecycle, SocketIndexed, NoZombieUser, [Next]_vars PROVE NoZombieUser'
  OBVIOUS
<1> USE UserOfAssumption DEF TypeOK, SocketsOf, NoZombieUser, DiscRunning, procVars, redisVars, histVars, GoC, GoD
<1>0. \A s \in Sockets :
        /\ cpc[s] \in {"auth", "onAdd"} => dpc[s] \in {"idle", "done"} \/ s \in orphaned
        /\ conn[s] = "open" => dpc[s] = "idle"
        /\ cpc[s] = "onAdd" => s \in orphaned \/ s \in userSockets[UserOf[s]]
  BY DEF Lifecycle, SocketLife, ConnRunning, DiscRunning, BeforeWrite
<1>1. ASSUME NEW s \in Sockets, Connect(s)
      PROVE  NoZombieUser'
  BY <1>0, <1>1 DEF Connect, NoteOverlap
<1>2. ASSUME NEW s \in Sockets, Close(s)
      PROVE  NoZombieUser'
  BY <1>0, <1>2 DEF Close, CloseSocket, NoteOverlap
<1>3. ASSUME NEW s \in Sockets, ConnectionStep(s)
      PROVE  NoZombieUser'
  <2>1. CASE Authenticate(s)
    BY <1>0, <2>1 DEF Authenticate
  <2>2. CASE Reject(s)
    <3> SUFFICES ASSUME NEW u \in online', userSockets'[u] = {}
                 PROVE  \E d \in SocketsOf(u) :
                          d \in orphaned' \/ dpc'[d] \in {"del", "count", "unregRemove"}
      OBVIOUS
    <3>1. /\ cpc[s] = "auth" /\ UNCHANGED <<userSockets, online, orphaned>>
          /\ dpc' \in {[dpc EXCEPT ![s] = "get"], [dpc EXCEPT ![s] = "done"]}
      BY <2>2 DEF Reject, CloseSocket
    <3>2. u \in online /\ userSockets[u] = {}
      BY <3>1
    <3>3. PICK d \in SocketsOf(u) :
            d \in orphaned \/ dpc[d] \in {"del", "count", "unregRemove"}
      BY <3>2
    <3>4. CASE d = s
      BY <1>0, <3>1, <3>3, <3>4
    <3>5. CASE d # s
      BY <3>1, <3>3, <3>5
    <3> QED
      BY <3>4, <3>5
  <2>3. CASE CheckOnline(s)
    BY <1>0, <2>3 DEF CheckOnline
  <2>4. CASE CountSockets(s)
    BY <1>0, <2>4 DEF CountSockets
  <2>5. CASE WriteSocket(s)
    <3> SUFFICES ASSUME NEW u \in online', userSockets'[u] = {}
                 PROVE  \E d \in SocketsOf(u) :
                          d \in orphaned' \/ dpc'[d] \in {"del", "count", "unregRemove"}
      OBVIOUS
    <3>1. /\ cpc[s] = "write" /\ online' = online \cup {UserOf[s]}
          /\ userSockets' = [userSockets EXCEPT ![UserOf[s]] = @ \cup {s}]
          /\ UNCHANGED <<conn, dpc, orphaned>>
      BY <2>5 DEF WriteSocket, RegisterWrites
    <3>6. UserOf[s] \in Users /\ u \in Users /\ s \in userSockets'[UserOf[s]]
      BY <3>1
    <3>7. u # UserOf[s]
      BY <3>6
    <3>2. u \in online /\ userSockets[u] = {}
      BY <3>1, <3>6, <3>7
    <3>3. PICK d \in SocketsOf(u) :
            d \in orphaned \/ dpc[d] \in {"del", "count", "unregRemove"}
      BY <3>2
    <3>4. CASE d = s
      BY <1>0, <3>1, <3>3, <3>4
    <3>5. CASE d # s
      BY <3>1, <3>3, <3>5
    <3> QED
      BY <3>4, <3>5
  <2>6. CASE FindOnConnect(s)
    BY <1>0, <2>6 DEF FindOnConnect, AfterFind
  <2>7. CASE FinishRegister(s)
    BY <1>0, <2>7 DEF FinishRegister, Greet
  <2>8. CASE AddOnline(s)
    BY <1>0, <2>8 DEF AddOnline
  <2>9. CASE StoreOnline(s)
    BY <1>0, <2>9 DEF StoreOnline
  <2>10. CASE AnnounceOnline(s)
    BY <1>0, <2>10 DEF AnnounceOnline
  <2> QED
    BY <1>3, <2>1, <2>2, <2>3, <2>4, <2>5, <2>6, <2>7, <2>8, <2>9, <2>10 DEF ConnectionStep
<1>4. ASSUME NEW s \in Sockets, DisconnectStep(s)
      PROVE  NoZombieUser'
  <2>1. CASE GetUser(s)
    BY <1>0, <2>1 DEF GetUser
  <2>2. CASE RemoveSocket(s)
    BY <1>0, <2>2 DEF RemoveSocket
  <2>3. CASE DeleteMapping(s)
    BY <1>0, <2>3 DEF DeleteMapping
  <2>4. CASE CountRemaining(s)
    <3> SUFFICES ASSUME NEW u \in online, userSockets[u] = {}
                 PROVE  \E d \in SocketsOf(u) :
                          d \in orphaned \/ dpc'[d] \in {"del", "count", "unregRemove"}
      BY <2>4 DEF CountRemaining
    <3>1. PICK d \in SocketsOf(u) : d \in orphaned \/ dpc[d] \in {"del", "count", "unregRemove"}
      OBVIOUS
    <3>2. CASE d = s
      BY <2>4, <3>1, <3>2 DEF CountRemaining
    <3>3. CASE d # s
      BY <2>4, <3>1, <3>3 DEF CountRemaining
    <3> QED
      BY <3>2, <3>3
  <2>5. CASE RemoveOnline(s)
    BY <1>0, <2>5, SMTT(30) DEF RemoveOnline
  <2>6. CASE FindOnDisconnect(s)
    BY <1>0, <2>6, SMTT(30) DEF FindOnDisconnect, AfterFind
  <2>7. CASE StoreOffline(s)
    <3> SUFFICES ASSUME NEW u \in online', userSockets'[u] = {}
                 PROVE  \E d \in SocketsOf(u) :
                          d \in orphaned' \/ dpc'[d] \in {"del", "count", "unregRemove"}
      OBVIOUS
    <3>1. /\ dpc[s] \in {"unregUpdate", "unregInsert", "offUpdate", "offInsert"}
          /\ dpc' \in {[dpc EXCEPT ![s] = "offRemove"], [dpc EXCEPT ![s] = "announce"]}
          /\ UNCHANGED <<procVars, cpc, redisVars, histVars>>
      BY <2>7 DEF StoreOffline
    <3>2. u \in online /\ userSockets[u] = {}
      BY <3>1
    <3>3. PICK d \in SocketsOf(u) :
            d \in orphaned \/ dpc[d] \in {"del", "count", "unregRemove"}
      BY <3>2
    <3>4. CASE d = s
      BY <1>0, <3>1, <3>3, <3>4
    <3>5. CASE d # s
      BY <3>1, <3>3, <3>5
    <3> QED
      BY <3>4, <3>5
  <2>8. CASE DropConnection(s)
    BY <1>0, <2>8 DEF DropConnection
  <2>9. CASE AnnounceOffline(s)
    BY <1>0, <2>9 DEF AnnounceOffline
  <2> QED
    BY <1>4, <2>1, <2>2, <2>3, <2>4, <2>5, <2>6, <2>7, <2>8, <2>9 DEF DisconnectStep
<1>5. ASSUME NEW s \in Sockets, ConnectionFault(s)
      PROVE  NoZombieUser'
  <2>1. /\ conn[s] = "open" =>
             /\ conn' = [conn EXCEPT ![s] = "closed"]
             /\ dpc' = [dpc EXCEPT ![s] = IF s \in authed THEN "get" ELSE "done"]
        /\ conn[s] # "open" => UNCHANGED <<conn, dpc>>
        /\ cpc[s] \in {"check", "count", "write", "onAdd"}
        /\ userSockets' \in {userSockets, [userSockets EXCEPT ![UserOf[s]] = @ \cup {s}]}
        /\ online' \in {online, online \cup {UserOf[s]}}
        /\ online' # online => cpc[s] = "onAdd" \/ s \in userSockets'[UserOf[s]]
        /\ UNCHANGED <<authed, orphaned>>
    BY <1>5 DEF ConnectionFault, RegisterWrites, CloseSocket
  <2> QED
    BY <1>0, <2>1, SMTT(30)
<1>6. ASSUME NEW s \in Sockets, DisconnectFault(s)
      PROVE  NoZombieUser'
  BY <1>0, <1>6 DEF DisconnectFault
<1>7. ASSUME NEW t \in Toggles, SetHidden(t) \/ StatusStep(t) \/ StatusFault(t)
      PROVE  NoZombieUser'
  BY <1>7, StatusFrame
<1>8. CASE Crash
  BY <1>0, <1>8 DEF Crash
<1>9. CASE Finished \/ UNCHANGED vars
  BY <1>9 DEF Finished, vars
<1> QED
  BY <1>1, <1>2, <1>3, <1>4, <1>5, <1>6, <1>7, <1>8, <1>9 DEF Next

\* Every step keeps the reason why a decision to go offline can be stale.
LEMMA StaleStep == TypeOK /\ OfflineDecisionStale /\ [Next]_vars => OfflineDecisionStale'
<1> SUFFICES ASSUME TypeOK, OfflineDecisionStale, [Next]_vars PROVE OfflineDecisionStale'
  OBVIOUS
<1> USE UserOfAssumption DEF TypeOK, SocketsOf, OfflineDecisionStale, TakingOffline, procVars, redisVars, histVars, GoC, GoD
<1>1. ASSUME NEW s \in Sockets, Connect(s)
      PROVE  OfflineDecisionStale'
  BY <1>1 DEF Connect, NoteOverlap
<1>2. ASSUME NEW s \in Sockets, Close(s)
      PROVE  OfflineDecisionStale'
  BY <1>2 DEF Close, CloseSocket, NoteOverlap
<1>3. ASSUME NEW s \in Sockets, ConnectionStep(s)
      PROVE  OfflineDecisionStale'
  <2>1. CASE Authenticate(s)
    BY <2>1 DEF Authenticate
  <2>2. CASE Reject(s)
    BY <2>2 DEF Reject, CloseSocket
  <2>3. CASE CheckOnline(s)
    BY <2>3 DEF CheckOnline
  <2>4. CASE CountSockets(s)
    BY <2>4 DEF CountSockets
  <2>5. CASE WriteSocket(s)
    BY <2>5 DEF WriteSocket, RegisterWrites
  <2>6. CASE FindOnConnect(s)
    BY <2>6 DEF FindOnConnect, AfterFind
  <2>7. CASE FinishRegister(s)
    BY <2>7 DEF FinishRegister, Greet
  <2>8. CASE AddOnline(s)
    BY <2>8 DEF AddOnline
  <2>9. CASE StoreOnline(s)
    BY <2>9 DEF StoreOnline
  <2>10. CASE AnnounceOnline(s)
    BY <2>10 DEF AnnounceOnline
  <2> QED
    BY <1>3, <2>1, <2>2, <2>3, <2>4, <2>5, <2>6, <2>7, <2>8, <2>9, <2>10 DEF ConnectionStep
<1>4. ASSUME NEW s \in Sockets, DisconnectStep(s)
      PROVE  OfflineDecisionStale'
  <2>1. CASE GetUser(s)
    BY <2>1 DEF GetUser
  <2>2. CASE RemoveSocket(s)
    BY <2>2 DEF RemoveSocket
  <2>3. CASE DeleteMapping(s)
    BY <2>3 DEF DeleteMapping
  <2>4. CASE CountRemaining(s)
    BY <2>4 DEF CountRemaining
  <2>5. CASE RemoveOnline(s)
    BY <2>5 DEF RemoveOnline
  <2>6. CASE FindOnDisconnect(s)
    BY <2>6 DEF FindOnDisconnect, AfterFind
  <2>7. CASE StoreOffline(s)
    BY <2>7 DEF StoreOffline
  <2>8. CASE DropConnection(s)
    BY <2>8 DEF DropConnection
  <2>9. CASE AnnounceOffline(s)
    BY <2>9 DEF AnnounceOffline
  <2> QED
    BY <1>4, <2>1, <2>2, <2>3, <2>4, <2>5, <2>6, <2>7, <2>8, <2>9 DEF DisconnectStep
<1>5. ASSUME NEW s \in Sockets, ConnectionFault(s)
      PROVE  OfflineDecisionStale'
  BY <1>5 DEF ConnectionFault, RegisterWrites, CloseSocket
<1>6. ASSUME NEW s \in Sockets, DisconnectFault(s)
      PROVE  OfflineDecisionStale'
  BY <1>6 DEF DisconnectFault
<1>7. ASSUME NEW t \in Toggles, SetHidden(t) \/ StatusStep(t) \/ StatusFault(t)
      PROVE  OfflineDecisionStale'
  BY <1>7, StatusFrame
<1>8. CASE Crash
  BY <1>8 DEF Crash
<1>9. CASE Finished \/ UNCHANGED vars
  BY <1>9 DEF Finished, vars
<1> QED
  BY <1>1, <1>2, <1>3, <1>4, <1>5, <1>6, <1>7, <1>8, <1>9 DEF Next

\* Every step takes a connected user offline only through the race.
LEMMA RacedStep == TypeOK /\ Lifecycle /\ SocketIndexed /\ OfflineDecisionStale /\ OfflineOnlyIfRaced /\ [Next]_vars => OfflineOnlyIfRaced'
<1> SUFFICES ASSUME TypeOK, Lifecycle, SocketIndexed, OfflineDecisionStale, OfflineOnlyIfRaced, [Next]_vars PROVE OfflineOnlyIfRaced'
  OBVIOUS
<1> USE UserOfAssumption DEF TypeOK, SocketsOf, OfflineDecisionStale, TakingOffline, OfflineOnlyIfRaced, procVars, redisVars, histVars, GoC, GoD
<1>0. \A s \in Sockets : s \in userSockets[UserOf[s]] => conn[s] # "new"
  BY DEF Lifecycle, SocketLife, SocketIndexed, BeforeWrite
<1>1. ASSUME NEW s \in Sockets, Connect(s)
      PROVE  OfflineOnlyIfRaced'
  BY <1>0, <1>1 DEF Connect, NoteOverlap
<1>2. ASSUME NEW s \in Sockets, Close(s)
      PROVE  OfflineOnlyIfRaced'
  BY <1>0, <1>2 DEF Close, CloseSocket, NoteOverlap
<1>3. ASSUME NEW s \in Sockets, ConnectionStep(s)
      PROVE  OfflineOnlyIfRaced'
  <2>1. CASE Authenticate(s)
    BY <1>0, <2>1 DEF Authenticate
  <2>2. CASE Reject(s)
    BY <1>0, <2>2 DEF Reject, CloseSocket
  <2>3. CASE CheckOnline(s)
    BY <1>0, <2>3 DEF CheckOnline
  <2>4. CASE CountSockets(s)
    BY <1>0, <2>4 DEF CountSockets
  <2>5. CASE WriteSocket(s)
    BY <1>0, <2>5 DEF WriteSocket, RegisterWrites
  <2>6. CASE FindOnConnect(s)
    BY <1>0, <2>6 DEF FindOnConnect, AfterFind
  <2>7. CASE FinishRegister(s)
    BY <1>0, <2>7 DEF FinishRegister, Greet
  <2>8. CASE AddOnline(s)
    BY <1>0, <2>8 DEF AddOnline
  <2>9. CASE StoreOnline(s)
    BY <1>0, <2>9 DEF StoreOnline
  <2>10. CASE AnnounceOnline(s)
    BY <1>0, <2>10 DEF AnnounceOnline
  <2> QED
    BY <1>3, <2>1, <2>2, <2>3, <2>4, <2>5, <2>6, <2>7, <2>8, <2>9, <2>10 DEF ConnectionStep
<1>4. ASSUME NEW s \in Sockets, DisconnectStep(s)
      PROVE  OfflineOnlyIfRaced'
  <2>1. CASE GetUser(s)
    BY <1>0, <2>1 DEF GetUser
  <2>2. CASE RemoveSocket(s)
    BY <1>0, <2>2 DEF RemoveSocket
  <2>3. CASE DeleteMapping(s)
    BY <1>0, <2>3 DEF DeleteMapping
  <2>4. CASE CountRemaining(s)
    BY <1>0, <2>4 DEF CountRemaining
  <2>5. CASE RemoveOnline(s)
    BY <1>0, <2>5 DEF RemoveOnline
  <2>6. CASE FindOnDisconnect(s)
    BY <1>0, <2>6 DEF FindOnDisconnect, AfterFind
  <2>7. CASE StoreOffline(s)
    BY <1>0, <2>7 DEF StoreOffline
  <2>8. CASE DropConnection(s)
    BY <1>0, <2>8 DEF DropConnection
  <2>9. CASE AnnounceOffline(s)
    BY <1>0, <2>9 DEF AnnounceOffline
  <2> QED
    BY <1>4, <2>1, <2>2, <2>3, <2>4, <2>5, <2>6, <2>7, <2>8, <2>9 DEF DisconnectStep
<1>5. ASSUME NEW s \in Sockets, ConnectionFault(s)
      PROVE  OfflineOnlyIfRaced'
  BY <1>0, <1>5 DEF ConnectionFault, RegisterWrites, CloseSocket
<1>6. ASSUME NEW s \in Sockets, DisconnectFault(s)
      PROVE  OfflineOnlyIfRaced'
  BY <1>0, <1>6 DEF DisconnectFault
<1>7. ASSUME NEW t \in Toggles, SetHidden(t) \/ StatusStep(t) \/ StatusFault(t)
      PROVE  OfflineOnlyIfRaced'
  BY <1>7, StatusFrame
<1>8. CASE Crash
  BY <1>0, <1>8 DEF Crash
<1>9. CASE Finished \/ UNCHANGED vars
  BY <1>9 DEF Finished, vars
<1> QED
  BY <1>1, <1>2, <1>3, <1>4, <1>5, <1>6, <1>7, <1>8, <1>9 DEF Next

Inv ==
  /\ TypeOK
  /\ Lifecycle
  /\ SocketIndexed
  /\ NoGhostSocket
  /\ NoZombieUser
  /\ OfflineDecisionStale
  /\ OfflineOnlyIfRaced

\* Before the first connection nothing is recorded and no handler runs.
LEMMA InitInv == Init => Inv
<1> SUFFICES ASSUME Init PROVE Inv
  OBVIOUS
<1> USE UserOfAssumption
<1>1. TypeOK
  BY InitType
<1>2. Lifecycle
  BY DEF Init, Lifecycle, SocketLife, BeforeWrite, ConnRunning, DiscRunning
<1>3. SocketIndexed /\ NoGhostSocket /\ NoZombieUser
  BY DEF Init, SocketIndexed, NoGhostSocket, NoZombieUser
<1>4. OfflineDecisionStale /\ OfflineOnlyIfRaced
  BY DEF Init, OfflineDecisionStale, TakingOffline, OfflineOnlyIfRaced
<1> QED
  BY <1>1, <1>2, <1>3, <1>4 DEF Inv

\* The conjunction of all invariants is inductive.
THEOREM Safety == Spec => []Inv
<1>1. Inv /\ [Next]_vars => Inv'
  BY NextType, LifecycleStep, IndexedStep, GhostStep, ZombieStep, StaleStep, RacedStep DEF Inv
<1> QED
  BY InitInv, <1>1, PTL DEF Spec

\* Every registered socket can be found again from its id, whatever failed.
THEOREM IndexSafe == Spec => []SocketIndexed
<1>1. Inv => SocketIndexed
  BY DEF Inv
<1> QED
  BY Safety, <1>1, PTL

\* A closed socket stays recorded only under its own clean-up, or when that
\* clean-up was cut short.
THEOREM GhostSafe == Spec => []NoGhostSocket
<1>1. Inv => NoGhostSocket
  BY DEF Inv
<1> QED
  BY Safety, <1>1, PTL

\* A user without sockets is online only under a clean-up, or when one of the
\* user's clean-ups was cut short.
THEOREM ZombieSafe == Spec => []NoZombieUser
<1>1. Inv => NoZombieUser
  BY DEF Inv
<1> QED
  BY Safety, <1>1, PTL

\* A connected user is recorded offline only after the one race the model
\* names, between a registration and a disconnection.
THEOREM OfflineSafe == Spec => []OfflineOnlyIfRaced
<1>1. Inv => OfflineOnlyIfRaced
  BY DEF Inv
<1> QED
  BY Safety, <1>1, PTL

-----------------------------------------------------------------------------
(***************************************************************************)
(* While the handlers of a user run one after the other: the stage of the  *)
(* handler that runs, and what sockets, Redis, row and followers hold then *)
(***************************************************************************)

\* A handler runs for the socket; a request is on its way to tell of u.
Handled(s) == ConnRunning(s) \/ DiscRunning(s)
Saying(t, u) == req[t].pc \notin {"idle", "done"} /\ req[t].user = u

\* The handlers of a user run one at a time.
Alone(u) ==
  /\ \A s, d \in SocketsOf(u) : Handled(s) /\ Handled(d) => s = d
  /\ \A s \in SocketsOf(u) : ~(ConnRunning(s) /\ DiscRunning(s))
  /\ \A s \in SocketsOf(u), t \in Toggles : ~(Handled(s) /\ Saying(t, u))
  /\ \A t, r \in Toggles : Saying(t, u) /\ Saying(r, u) => t = r

\* What each record stands for, as a set of sockets: user:sockets, socket:user, the
\* room, online:users and the row.
Agree(u, indexed, mapped, greeted, on, counted) ==
  /\ userSockets[u] = indexed
  /\ socketUser \cap SocketsOf(u) = mapped
  /\ joined \cap SocketsOf(u) = greeted
  /\ u \in online <=> on # {}
  /\ activity[u].online <=> counted # {}
  /\ activity[u].conns = Cardinality(counted)

\* The places after registerSocket's writes, after online:users and after unregisterSocket's.
Registering == {"regFind", "regUpdate", "regInsert", "bump"}
Greeting == {"onAdd", "onFind", "onUpdate", "onInsert", "announce"}
Leaving == {"unregFind", "unregUpdate", "unregInsert", "offRemove", "offFind", "offUpdate", "offInsert", "announce"}

\* How far handleConnection has come in adding s to the others.
ConnStage(u, s) ==
  LET live == LiveSockets(u)  others == live \ {s} IN
  /\ conn[s] = "open"
  /\ cpc[s] \in BeforeWrite => Agree(u, others, others, others, others, others)
  /\ cpc[s] \in {"count", "write"} \union Registering => (wasOffline[s] <=> others = {})
  /\ cpc[s] = "write" => (first[s] <=> others = {})
  /\ cpc[s] \in Registering => Agree(u, live, live, others, live, others)
  /\ cpc[s] = "bump" <=> cpc[s] \in Registering /\ others # {}
  /\ cpc[s] = "regInsert" => u \notin rows
  /\ cpc[s] \in Greeting =>
       others = {} /\ wasOffline[s] /\ cpc[s] # "onInsert" /\ Agree(u, live, live, live, live, live)

\* How far handleDisconnect has come in taking s away from the others.
DiscStage(u, s) ==
  LET live == LiveSockets(u)  all == live \union {s} IN
  /\ conn[s] = "closed"
  /\ dpc[s] \in {"get", "srem"} => Agree(u, all, all, live, all, all)
  /\ dpc[s] = "del" => Agree(u, live, all, live, all, all)
  /\ dpc[s] \in {"count", "drop", "unregRemove"} => Agree(u, live, live, live, all, all)
  /\ dpc[s] = "drop" => live # {}
  /\ dpc[s] = "unregRemove" \/ dpc[s] \in Leaving => live = {}
  /\ dpc[s] \in {"unregFind", "unregUpdate"} => Agree(u, live, live, live, live, all)
  /\ dpc[s] \in {"offRemove", "offFind", "offUpdate", "announce"} => Agree(u, live, live, live, live, live)
  /\ dpc[s] \notin {"unregInsert", "offInsert"}
  /\ u \in rows

\* No handler runs: every record stands for the live sockets.
Settled(u) == LET live == LiveSockets(u) IN Agree(u, live, live, live, live, live)

\* What the row and the followers were told of the user.
Told(u) ==
  /\ activity[u].online => u \in rows
  /\ \A t \in Toggles : Saying(t, u) =>
       /\ req[t].pc = "upsert" => (req[t].hide <=> u \in hidden)
       /\ req[t].pc = "announce" /\ req[t].say => u \in online
  /\ (activity[u].hidden <=> u \in hidden) \/ \E t \in Toggles : Saying(t, u) /\ req[t].pc = "upsert"
  /\ seen[u] = "online" => u \in online \/ \E s \in SocketsOf(u) : dpc[s] \in Leaving
  /\ u \in online /\ (\A t \in Toggles : req[t].pc = "idle") =>
       \/ seen[u] = "online"
       \/ \E s \in SocketsOf(u) : cpc[s] \in Registering \union Greeting /\ wasOffline[s]

\* One handler at most, at its stage; with none, every record agrees.
Staged(u) ==
  /\ IsFiniteSet(LiveSockets(u))
  /\ Alone(u)
  /\ \A s \in SocketsOf(u) : /\ ConnRunning(s) => ConnStage(u, s)
                             /\ DiscRunning(s) => DiscStage(u, s)
  /\ (\A s \in SocketsOf(u) : ~Handled(s)) => Settled(u)
  /\ Told(u)

\* A step leaves the socket s, u's records, and what is being said of u as they were.
Kept(u, s) ==
  /\ conn'[s] = conn[s] /\ cpc'[s] = cpc[s] /\ dpc'[s] = dpc[s]
  /\ wasOffline'[s] = wasOffline[s] /\ first'[s] = first[s]
  /\ s \in socketUser' <=> s \in socketUser
  /\ s \in joined' <=> s \in joined
KeptOf(u) ==
  /\ userSockets'[u] = userSockets[u] /\ activity'[u] = activity[u] /\ seen'[u] = seen[u]
  /\ u \in online' <=> u \in online
  /\ u \in rows' <=> u \in rows
  /\ u \in hidden' <=> u \in hidden
KeptSaying(u) ==
  /\ \A t \in Toggles : Saying(t, u)' <=> Saying(t, u)
  /\ \A t \in Toggles : Saying(t, u) => req'[t] = req[t]
  /\ (\A t \in Toggles : req'[t].pc = "idle") => \A t \in Toggles : req[t].pc = "idle"

\* A step that is not about u leaves its stage as it was.
LEMMA Untouched ==
  ASSUME NEW u \in Users, TypeOK, Staged(u),
         \A s \in SocketsOf(u) : Kept(u, s), KeptOf(u), KeptSaying(u)
  PROVE  Staged(u)'
<1> DEFINE live == LiveSockets(u)
<1>1. LiveSockets(u)' = live
  BY DEF LiveSockets, Kept, SocketsOf
<1>2. socketUser' \cap SocketsOf(u) = socketUser \cap SocketsOf(u) /\ joined' \cap SocketsOf(u) = joined \cap SocketsOf(u)
  BY DEF Kept
<1>3. \A s \in SocketsOf(u) : /\ Handled(s)' <=> Handled(s)
                              /\ ConnRunning(s)' <=> ConnRunning(s)
                              /\ DiscRunning(s)' <=> DiscRunning(s)
  BY DEF Kept, Handled, ConnRunning, DiscRunning
<1>9. \A t \in Toggles : Saying(t, u)' <=> Saying(t, u)
  BY DEF KeptSaying
<1>4. Alone(u)'
  <2>1. Alone(u)
    BY DEF Staged
  <2> QED BY <1>3, <1>9, <2>1 DEF Alone, SocketsOf
<1>5. Settled(u)' <=> Settled(u)
  BY <1>1, <1>2 DEF Settled, Agree, KeptOf, SocketsOf
<1>6. ASSUME NEW s \in SocketsOf(u), ConnStage(u, s) PROVE ConnStage(u, s)'
  BY <1>6, <1>1, <1>2 DEF ConnStage, Agree, KeptOf, Kept, SocketsOf
<1>7. ASSUME NEW s \in SocketsOf(u), DiscStage(u, s) PROVE DiscStage(u, s)'
  BY <1>7, <1>1, <1>2 DEF DiscStage, Agree, KeptOf, Kept, SocketsOf
<1>8. Told(u)'
  BY <1>9 DEF Told, Staged, KeptOf, Kept, KeptSaying, SocketsOf
<1>10. IsFiniteSet(live)
  BY DEF Staged
<1>11. \A s \in SocketsOf(u) : (ConnRunning(s) => ConnStage(u, s)) /\ (DiscRunning(s) => DiscStage(u, s))
  BY DEF Staged
<1>12. (\A s \in SocketsOf(u) : ~Handled(s)) => Settled(u)
  BY DEF Staged
<1>13. \A s \in SocketsOf(u)' : (ConnRunning(s)' => ConnStage(u, s)') /\ (DiscRunning(s)' => DiscStage(u, s)')
  BY <1>3, <1>6, <1>7, <1>11 DEF SocketsOf
<1>14. (\A s \in SocketsOf(u)' : ~Handled(s)') => Settled(u)'
  BY <1>3, <1>5, <1>12 DEF SocketsOf
<1> QED BY <1>1, <1>4, <1>8, <1>10, <1>13, <1>14 DEF Staged

\* Where one handler of u runs, its own stage and the records after the step are enough.
LEMMA OneHandler ==
  ASSUME NEW u \in Users, NEW s \in SocketsOf(u), TypeOK,
         \A x \in SocketsOf(u) \ {s} : ~Handled(x) /\ cpc'[x] = cpc[x] /\ dpc'[x] = dpc[x],
         \A t \in Toggles : ~Saying(t, u), req' = req,
         IsFiniteSet(LiveSockets(u)'), ~(ConnRunning(s)' /\ DiscRunning(s)'),
         ConnRunning(s)' => ConnStage(u, s)', DiscRunning(s)' => DiscStage(u, s)',
         ~Handled(s)' => Settled(u)', Told(u)'
  PROVE  Staged(u)'
<1>1. \A x \in SocketsOf(u) \ {s} : ~Handled(x)' /\ ~ConnRunning(x)' /\ ~DiscRunning(x)'
  BY DEF Handled, ConnRunning, DiscRunning
<1>2. \A t \in Toggles : ~Saying(t, u)'
  BY DEF Saying
<1>3. SocketsOf(u)' = SocketsOf(u)
  BY DEF SocketsOf
<1>4. Alone(u)'
  BY <1>1, <1>2, <1>3 DEF Alone
<1>5. \A x \in SocketsOf(u)' : (ConnRunning(x)' => ConnStage(u, x)') /\ (DiscRunning(x)' => DiscStage(u, x)')
  BY <1>1, <1>3
<1>6. (\A x \in SocketsOf(u)' : ~Handled(x)') => Settled(u)'
  BY <1>3
<1> QED BY <1>4, <1>5, <1>6 DEF Staged

\* When handleConnection of s runs, nothing else of its user does.
LEMMA Connecting ==
  ASSUME NEW u \in Users, NEW s \in SocketsOf(u), TypeOK, Lifecycle, Staged(u), ConnRunning(s)
  PROVE  /\ \A x \in SocketsOf(u) \ {s} : ~Handled(x)
         /\ \A t \in Toggles : ~Saying(t, u)
         /\ ConnStage(u, s) /\ dpc[s] = "idle" /\ Told(u) /\ IsFiniteSet(LiveSockets(u))
         /\ s \in LiveSockets(u) /\ \A x \in SocketsOf(u) : dpc[x] \notin Leaving
<1>1. Alone(u) /\ ConnStage(u, s) /\ Told(u) /\ IsFiniteSet(LiveSockets(u))
  BY DEF Staged
<1>2. s \in Sockets /\ UserOf[s] = u /\ conn[s] = "open"
  BY <1>1 DEF SocketsOf, ConnStage
<1>3. dpc[s] = "idle" /\ s \in LiveSockets(u)
  BY <1>2 DEF Lifecycle, SocketLife, LiveSockets, SocketsOf
<1>4. \A x \in SocketsOf(u) \ {s} : ~Handled(x)
  BY <1>1 DEF Alone, Handled
<1>5. \A x \in SocketsOf(u) : dpc[x] \notin Leaving
  BY <1>3, <1>4 DEF Handled, DiscRunning, Leaving
<1> QED BY <1>1, <1>3, <1>4, <1>5 DEF Alone, Handled

\* A row that is stored without a failure, and without losing a race, says what it should.
LEMMA Stored ==
  ASSUME NEW u \in Users, NEW insert \in BOOLEAN, NEW on \in BOOLEAN, TypeOK,
         faults = 0, faults' = 0, StoreActivity(u, insert, on), insert => u \notin rows
  PROVE  /\ activity'[u].online = on /\ activity'[u].conns = (IF on THEN 1 ELSE 0)
         /\ activity'[u].hidden = activity[u].hidden /\ u \in rows'
<1>1. ~Fault
  BY DEF Fault
<1>2. /\ rows' = rows \cup {u}
      /\ activity' = [activity EXCEPT ![u].online = on, ![u].conns = IF on THEN 1 ELSE 0]
  BY <1>1 DEF StoreActivity
<1>3. activity[u] \in [online : BOOLEAN, conns : Int, hidden : BOOLEAN]
  BY DEF TypeOK
<1>4. activity'[u] = [activity[u] EXCEPT !.online = on, !.conns = IF on THEN 1 ELSE 0]
  BY <1>2 DEF TypeOK
<1> QED BY <1>2, <1>3, <1>4

\* A step of handleConnection that leaves the sockets alone and goes on.
LEMMA ConnectionStage ==
  ASSUME NEW u \in Users, NEW s \in Sockets, UserOf[s] = u, TypeOK, Lifecycle, SocketIndexed, Staged(u),
         faults = 0, faults' = 0, ConnectionStep(s)
  PROVE  Staged(u)'
<1> DEFINE live == LiveSockets(u)
<1>0. s \in SocketsOf(u) /\ SocketsOf(u) \subseteq Sockets
  BY DEF SocketsOf
<1>1. ConnRunning(s)
  BY DEF ConnectionStep, Authenticate, Reject, CheckOnline, CountSockets, WriteSocket, FindOnConnect,
         FinishRegister, AddOnline, StoreOnline, AnnounceOnline, ConnRunning
<1>2. /\ \A x \in SocketsOf(u) \ {s} : ~Handled(x)
      /\ \A t \in Toggles : ~Saying(t, u)
      /\ ConnStage(u, s) /\ dpc[s] = "idle" /\ Told(u) /\ IsFiniteSet(live)
      /\ s \in live /\ \A x \in SocketsOf(u) : dpc[x] \notin Leaving
  BY <1>0, <1>1, Connecting
<1>3. \A x \in SocketsOf(u) \ {s} : cpc[x] \in {"idle", "done"}
  BY <1>2 DEF Handled, ConnRunning
<1>4. ASSUME NEW to \in CPc, cpc' = [cpc EXCEPT ![s] = to], conn' = conn, dpc' = dpc, req' = req,
             to # "done" => ConnStage(u, s)', to = "done" => Settled(u)', Told(u)', to # "idle"
      PROVE  Staged(u)'
  <2>1. LiveSockets(u)' = live
    BY <1>4 DEF LiveSockets, SocketsOf
  <2>2. cpc'[s] = to /\ dpc'[s] = "idle"
    BY <1>2, <1>4 DEF TypeOK
  <2>3. ConnRunning(s)' <=> to # "done"
    BY <2>2, <1>4 DEF ConnRunning
  <2>4. ~DiscRunning(s)'
    BY <2>2 DEF DiscRunning
  <2>5. \A x \in SocketsOf(u) \ {s} : ~Handled(x) /\ cpc'[x] = cpc[x] /\ dpc'[x] = dpc[x]
    BY <1>0, <1>2, <1>4 DEF TypeOK
  <2>6. ~Handled(s)' => Settled(u)'
    BY <1>4, <2>3 DEF Handled
  <2> QED BY <1>0, <1>2, <1>4, <2>1, <2>3, <2>4, <2>5, <2>6, OneHandler
<1>5. CASE Authenticate(s)
  <2>1. /\ cpc[s] = "auth" /\ cpc' = [cpc EXCEPT ![s] = "check"] /\ cpc'[s] = "check"
        /\ UNCHANGED <<conn, joined, wasOffline, first, dpc, req, redisVars, dbVars, seen>>
    BY <1>5 DEF Authenticate, GoC, TypeOK
  <2>2. ConnStage(u, s)'
    BY <1>0, <1>2, <2>1 DEF ConnStage, Agree, redisVars, dbVars, BeforeWrite, Registering, Greeting, LiveSockets, SocketsOf
  <2>3. Told(u)'
    BY <1>0, <1>2, <1>3, <2>1 DEF Told, redisVars, dbVars, Saying, Registering, Greeting, SocketsOf
  <2> QED BY <1>4, <2>1, <2>2, <2>3 DEF CPc
<1>6. CASE Reject(s)
  <2>1. /\ cpc[s] = "auth" /\ cpc' = [cpc EXCEPT ![s] = "done"] /\ cpc'[s] = "done"
        /\ conn' = [conn EXCEPT ![s] = "closed"] /\ joined' = joined \ {s}
        /\ dpc' = [dpc EXCEPT ![s] = IF s \in authed THEN "get" ELSE "done"]
        /\ UNCHANGED <<wasOffline, first, req, redisVars, dbVars, seen>>
    BY <1>6 DEF Reject, CloseSocket, GoC, GoD, TypeOK
  <2>2. s \notin authed
    BY <2>1 DEF Lifecycle, SocketLife
  <2>3. dpc'[s] = "done"
    BY <2>1, <2>2 DEF TypeOK
  <2>4. LiveSockets(u)' = live \ {s}
    BY <2>1 DEF LiveSockets, SocketsOf, TypeOK
  <2>5. Agree(u, live \ {s}, live \ {s}, live \ {s}, live \ {s}, live \ {s})
    BY <1>2, <2>1 DEF ConnStage, BeforeWrite
  <2>6. Settled(u)'
    BY <1>0, <2>1, <2>4, <2>5 DEF Settled, Agree, redisVars, dbVars, SocketsOf
  <2>7. Told(u)'
    BY <1>0, <1>2, <1>3, <2>1, <2>3 DEF Told, redisVars, dbVars, Saying, Registering, Greeting, Leaving, SocketsOf, TypeOK
  <2>8. \A x \in SocketsOf(u) \ {s} : ~Handled(x) /\ cpc'[x] = cpc[x] /\ dpc'[x] = dpc[x]
    BY <1>0, <1>2, <2>1 DEF TypeOK
  <2>9. ~ConnRunning(s)' /\ ~DiscRunning(s)' /\ IsFiniteSet(live \ {s})
    BY <1>2, <2>1, <2>3, FS_RemoveElement DEF ConnRunning, DiscRunning
  <2> QED BY <1>0, <1>2, <2>1, <2>4, <2>6, <2>7, <2>8, <2>9, OneHandler
<1>7. CASE CheckOnline(s)
  <2>1. /\ cpc[s] = "check" /\ cpc' = [cpc EXCEPT ![s] = "count"] /\ cpc'[s] = "count"
        /\ wasOffline'[s] = (u \notin online) /\ \A x \in Sockets \ {s} : wasOffline'[x] = wasOffline[x]
        /\ UNCHANGED <<conn, joined, first, dpc, req, redisVars, dbVars, seen>>
    BY <1>7 DEF CheckOnline, GoC, TypeOK
  <2>2. ConnStage(u, s)'
    BY <1>0, <1>2, <2>1 DEF ConnStage, Agree, redisVars, dbVars, BeforeWrite, Registering, Greeting, LiveSockets, SocketsOf
  <2>3. Told(u)'
    BY <1>0, <1>2, <1>3, <2>1 DEF Told, redisVars, dbVars, Saying, Registering, Greeting, SocketsOf
  <2> QED BY <1>4, <2>1, <2>2, <2>3 DEF CPc
<1>8. CASE CountSockets(s)
  <2>1. /\ cpc[s] = "count" /\ cpc' = [cpc EXCEPT ![s] = "write"] /\ cpc'[s] = "write"
        /\ first'[s] = (userSockets[u] = {})
        /\ UNCHANGED <<conn, joined, wasOffline, dpc, req, redisVars, dbVars, seen>>
    BY <1>8 DEF CountSockets, GoC, TypeOK
  <2>2. ConnStage(u, s)'
    BY <1>0, <1>2, <2>1 DEF ConnStage, Agree, redisVars, dbVars, BeforeWrite, Registering, Greeting, LiveSockets, SocketsOf
  <2>3. Told(u)'
    BY <1>0, <1>2, <1>3, <2>1 DEF Told, redisVars, dbVars, Saying, Registering, Greeting, SocketsOf
  <2> QED BY <1>4, <2>1, <2>2, <2>3 DEF CPc
<1>9. CASE WriteSocket(s)
  <2> DEFINE to == IF first[s] THEN "regFind" ELSE "bump"
  <2>1. /\ cpc[s] = "write" /\ cpc' = [cpc EXCEPT ![s] = to] /\ cpc'[s] = to
        /\ socketUser' = socketUser \cup {s} /\ userSockets'[u] = userSockets[u] \cup {s}
        /\ online' = online \cup {u}
        /\ UNCHANGED <<conn, joined, wasOffline, first, dpc, req, hidden, dbVars, seen>>
    BY <1>9 DEF WriteSocket, RegisterWrites, GoC, TypeOK, procVars
  <2>2. Agree(u, live \ {s}, live \ {s}, live \ {s}, live \ {s}, live \ {s})
        /\ (wasOffline[s] <=> live \ {s} = {}) /\ (first[s] <=> live \ {s} = {}) /\ conn[s] = "open"
    BY <1>2, <2>1 DEF ConnStage, BeforeWrite
  <2>3. LiveSockets(u)' = live
    BY <2>1 DEF LiveSockets, SocketsOf
  <2>4. Agree(u, live, live, live \ {s}, live, live \ {s})'
    BY <1>0, <1>2, <2>1, <2>2, <2>3 DEF Agree, dbVars, SocketsOf
  <2>5. ConnStage(u, s)'
    BY <1>0, <2>1, <2>2, <2>3, <2>4 DEF ConnStage, BeforeWrite, Registering, Greeting
  <2>6. Told(u)'
    BY <1>0, <1>2, <1>3, <2>1, <2>2 DEF Told, Agree, dbVars, Saying, Registering, Greeting, SocketsOf
  <2> QED BY <1>4, <2>1, <2>5, <2>6 DEF CPc
<1>10. CASE FindOnConnect(s)
  <2>1. CASE cpc[s] = "regFind"
    <3> DEFINE to == IF u \in rows THEN "regUpdate" ELSE "regInsert"
    <3>1. /\ cpc' = [cpc EXCEPT ![s] = to] /\ cpc'[s] = to
          /\ UNCHANGED <<conn, joined, wasOffline, first, dpc, req, redisVars, dbVars, seen>>
      BY <1>10, <2>1 DEF FindOnConnect, AfterFind, GoC, TypeOK, procVars
    <3>2. ConnStage(u, s)'
      BY <1>0, <1>2, <2>1, <3>1 DEF ConnStage, Agree, redisVars, dbVars, BeforeWrite, Registering, Greeting, LiveSockets, SocketsOf
    <3>3. Told(u)'
      BY <1>0, <1>2, <1>3, <2>1, <3>1 DEF Told, redisVars, dbVars, Saying, Registering, Greeting, SocketsOf
    <3> QED BY <1>4, <3>1, <3>2, <3>3 DEF CPc
  <2>2. CASE cpc[s] = "onFind"
    <3>1. u \in rows
      BY <1>2, <2>2 DEF ConnStage, Agree, Told, Greeting
    <3>2. /\ cpc' = [cpc EXCEPT ![s] = "onUpdate"] /\ cpc'[s] = "onUpdate"
          /\ UNCHANGED <<conn, joined, wasOffline, first, dpc, req, redisVars, dbVars, seen>>
      BY <1>10, <2>2, <3>1 DEF FindOnConnect, AfterFind, GoC, TypeOK, procVars
    <3>3. ConnStage(u, s)'
      BY <1>0, <1>2, <2>2, <3>2 DEF ConnStage, Agree, redisVars, dbVars, BeforeWrite, Registering, Greeting, LiveSockets, SocketsOf
    <3>4. Told(u)'
      BY <1>0, <1>2, <1>3, <2>2, <3>2 DEF Told, redisVars, dbVars, Saying, Registering, Greeting, SocketsOf
    <3> QED BY <1>4, <3>2, <3>3, <3>4 DEF CPc
  <2> QED BY <1>10, <2>1, <2>2 DEF FindOnConnect
<1>11. CASE FinishRegister(s)
  <2> DEFINE to == IF wasOffline[s] THEN "onAdd" ELSE "done"
  <2>1. /\ cpc[s] \in {"regUpdate", "regInsert", "bump"}
        /\ cpc' = [cpc EXCEPT ![s] = to] /\ cpc'[s] = to /\ joined' = joined \cup {s}
        /\ UNCHANGED <<conn, wasOffline, first, dpc, req, redisVars, seen>>
    BY <1>11 DEF FinishRegister, Greet, GoC, TypeOK
  <2>2. /\ Agree(u, live, live, live \ {s}, live, live \ {s}) /\ (wasOffline[s] <=> live \ {s} = {})
        /\ (cpc[s] = "bump" <=> live \ {s} # {}) /\ conn[s] = "open" /\ (cpc[s] = "regInsert" => u \notin rows)
    BY <1>2, <2>1 DEF ConnStage, Registering
  <2>3. LiveSockets(u)' = live
    BY <2>1 DEF LiveSockets, SocketsOf
  <2>4. /\ activity'[u].online /\ activity'[u].conns = Cardinality(live)
        /\ activity'[u].hidden = activity[u].hidden /\ u \in rows'
    <3>1. CASE cpc[s] # "bump"
      <4>1. PICK i \in BOOLEAN : StoreActivity(u, i, TRUE) /\ (i => u \notin rows)
        BY <1>11, <2>1, <2>2, <3>1 DEF FinishRegister
      <4>2. /\ activity'[u].online /\ activity'[u].conns = 1
            /\ activity'[u].hidden = activity[u].hidden /\ u \in rows'
        BY <4>1, Stored
      <4>3. live = {s} /\ Cardinality({s}) = 1
        BY <1>2, <2>2, <3>1, FS_Singleton
      <4> QED BY <4>2, <4>3
    <3>2. CASE cpc[s] = "bump"
      <4>1. u \in rows /\ activity[u].online
        BY <1>2, <2>2, <3>2 DEF Agree, Told
      <4>2. AddConnections(u, 1)
        BY <1>11, <3>2 DEF FinishRegister
      <4>3. activity' = [activity EXCEPT ![u].conns = @ + 1] /\ rows' = rows
        BY <4>1, <4>2 DEF AddConnections, Fault
      <4>4. Cardinality(live) = Cardinality(live \ {s}) + 1
        <5>1. Cardinality(live) \in Nat /\ Cardinality(live \ {s}) = Cardinality(live) - 1
          BY <1>2, FS_RemoveElement, FS_CardinalityType
        <5> DEFINE n == Cardinality(live)  m == Cardinality(live \ {s})
        <5>2. n \in Nat /\ m = n - 1
          BY <5>1
        <5> HIDE DEF n, m
        <5>3. n = m + 1
          BY <5>2
        <5> QED BY <5>3 DEF n, m
      <4>5. activity[u].conns = Cardinality(live \ {s})
        BY <2>2 DEF Agree
      <4> QED BY <4>1, <4>3, <4>4, <4>5 DEF TypeOK
    <3> QED BY <3>1, <3>2
  <2>5. Agree(u, live, live, live, live, live)'
    BY <1>0, <1>2, <2>1, <2>2, <2>3, <2>4 DEF Agree, redisVars, SocketsOf
  <2>6. to # "done" => ConnStage(u, s)'
    BY <1>0, <2>1, <2>2, <2>3, <2>5 DEF ConnStage, BeforeWrite, Registering, Greeting
  <2>7. to = "done" => Settled(u)'
    BY <2>5 DEF Settled
  <2>8. Told(u)'
    BY <1>0, <1>2, <1>3, <2>1, <2>2, <2>4 DEF Told, Agree, redisVars, Saying, Registering, Greeting, SocketsOf
  <2> QED BY <1>4, <2>1, <2>6, <2>7, <2>8 DEF CPc
<1>12. CASE AddOnline(s)
  <2>1. /\ cpc[s] = "onAdd" /\ cpc' = [cpc EXCEPT ![s] = "onFind"] /\ cpc'[s] = "onFind"
        /\ online' = online \cup {u}
        /\ UNCHANGED <<conn, joined, wasOffline, first, dpc, req, socketUser, userSockets, hidden, dbVars, seen>>
    BY <1>12 DEF AddOnline, GoC, TypeOK, procVars
  <2>2. ConnStage(u, s)'
    BY <1>0, <1>2, <2>1 DEF ConnStage, Agree, dbVars, BeforeWrite, Registering, Greeting, LiveSockets, SocketsOf
  <2>3. Told(u)'
    BY <1>0, <1>2, <1>3, <2>1 DEF Told, ConnStage, dbVars, Saying, Registering, Greeting, SocketsOf
  <2> QED BY <1>4, <2>1, <2>2, <2>3 DEF CPc
<1>13. CASE StoreOnline(s)
  <2>1. /\ cpc[s] \in {"onUpdate", "onInsert"} /\ cpc' = [cpc EXCEPT ![s] = "announce"] /\ cpc'[s] = "announce"
        /\ UNCHANGED <<conn, joined, wasOffline, first, dpc, req, redisVars, seen>>
    BY <1>13 DEF StoreOnline, GoC, TypeOK, procVars
  <2>2. /\ Agree(u, live, live, live, live, live) /\ wasOffline[s] /\ live \ {s} = {}
        /\ cpc[s] = "onUpdate" /\ conn[s] = "open"
    BY <1>2, <2>1 DEF ConnStage, Greeting
  <2>3. LiveSockets(u)' = live
    BY <2>1 DEF LiveSockets, SocketsOf
  <2>4. StoreActivity(u, FALSE, TRUE)
    BY <1>13, <2>2 DEF StoreOnline
  <2>5. /\ activity'[u].online /\ activity'[u].conns = 1
        /\ activity'[u].hidden = activity[u].hidden /\ u \in rows'
    BY <2>4, Stored
  <2>6. live = {s} /\ Cardinality({s}) = 1
    BY <1>2, <2>2, FS_Singleton
  <2>7. /\ activity'[u].online /\ activity'[u].conns = Cardinality(live)
        /\ activity'[u].hidden = activity[u].hidden /\ u \in rows'
    BY <2>5, <2>6
  <2>8. Agree(u, live, live, live, live, live)'
    BY <1>0, <1>2, <2>1, <2>2, <2>3, <2>7 DEF Agree, redisVars, SocketsOf
  <2>9. ConnStage(u, s)'
    BY <1>0, <2>1, <2>2, <2>3, <2>8 DEF ConnStage, BeforeWrite, Registering, Greeting
  <2>10. Told(u)'
    BY <1>0, <1>2, <1>3, <2>1, <2>2, <2>7 DEF Told, Agree, redisVars, Saying, Registering, Greeting, SocketsOf
  <2> QED BY <1>4, <2>1, <2>9, <2>10 DEF CPc
<1>14. CASE AnnounceOnline(s)
  <2>1. /\ cpc[s] = "announce" /\ cpc' = [cpc EXCEPT ![s] = "done"] /\ cpc'[s] = "done" /\ seen'[u] = "online"
        /\ UNCHANGED <<conn, joined, wasOffline, first, dpc, req, redisVars, dbVars>>
    BY <1>14 DEF AnnounceOnline, GoC, TypeOK, procVars
  <2>2. Agree(u, live, live, live, live, live)
    BY <1>2, <2>1 DEF ConnStage, Greeting
  <2>3. LiveSockets(u)' = live
    BY <2>1 DEF LiveSockets, SocketsOf
  <2>4. Settled(u)'
    BY <1>0, <2>1, <2>2, <2>3 DEF Settled, Agree, redisVars, dbVars, SocketsOf
  <2>5. u \in online
    BY <1>2, <2>2 DEF Agree
  <2>6. Told(u)'
    BY <1>0, <1>2, <1>3, <2>1, <2>5 DEF Told, redisVars, dbVars, Saying, Registering, Greeting, SocketsOf
  <2> QED BY <1>4, <2>1, <2>4, <2>6 DEF CPc
<1> QED BY <1>5, <1>6, <1>7, <1>8, <1>9, <1>10, <1>11, <1>12, <1>13, <1>14 DEF ConnectionStep

\* When handleDisconnect of s runs, nothing else of its user does.
LEMMA Disconnecting ==
  ASSUME NEW u \in Users, NEW s \in SocketsOf(u), TypeOK, Lifecycle, Staged(u), DiscRunning(s)
  PROVE  /\ \A x \in SocketsOf(u) \ {s} : ~Handled(x)
         /\ \A t \in Toggles : ~Saying(t, u)
         /\ DiscStage(u, s) /\ ~ConnRunning(s) /\ Told(u) /\ IsFiniteSet(LiveSockets(u))
         /\ s \notin LiveSockets(u) /\ \A x \in SocketsOf(u) : cpc[x] \notin Registering \union Greeting
<1>1. Alone(u) /\ DiscStage(u, s) /\ Told(u) /\ IsFiniteSet(LiveSockets(u))
  BY DEF Staged
<1>2. s \notin LiveSockets(u)
  BY <1>1 DEF DiscStage, LiveSockets
<1>3. (\A x \in SocketsOf(u) \ {s} : ~Handled(x)) /\ ~ConnRunning(s)
  BY <1>1 DEF Alone, Handled
<1>4. \A x \in SocketsOf(u) : cpc[x] \notin Registering \union Greeting
  BY <1>3 DEF Handled, ConnRunning, Registering, Greeting
<1> QED BY <1>1, <1>2, <1>3, <1>4 DEF Alone, Handled

\* Every step of handleDisconnect takes the socket away from one record more.
LEMMA DisconnectionStage ==
  ASSUME NEW u \in Users, NEW s \in Sockets, UserOf[s] = u, TypeOK, Lifecycle, Staged(u),
         faults = 0, faults' = 0, DisconnectStep(s)
  PROVE  Staged(u)'
<1> DEFINE live == LiveSockets(u)  all == live \union {s}
<1>0. s \in SocketsOf(u) /\ SocketsOf(u) \subseteq Sockets
  BY DEF SocketsOf
<1>1. DiscRunning(s)
  BY DEF DisconnectStep, GetUser, RemoveSocket, DeleteMapping, CountRemaining, RemoveOnline,
         FindOnDisconnect, StoreOffline, DropConnection, AnnounceOffline, DiscRunning
<1>2. /\ \A x \in SocketsOf(u) \ {s} : ~Handled(x)
      /\ \A t \in Toggles : ~Saying(t, u)
      /\ DiscStage(u, s) /\ ~ConnRunning(s) /\ Told(u) /\ IsFiniteSet(live)
      /\ s \notin live /\ \A x \in SocketsOf(u) : cpc[x] \notin Registering \union Greeting
  BY <1>0, <1>1, Disconnecting
<1>3. \A x \in SocketsOf(u) \ {s} : dpc[x] \in {"idle", "done"}
  BY <1>2 DEF Handled, DiscRunning
<1>4. ASSUME NEW to \in DPc, dpc' = [dpc EXCEPT ![s] = to], conn' = conn, cpc' = cpc, req' = req,
             to # "done" => DiscStage(u, s)', to = "done" => Settled(u)', Told(u)', to # "idle"
      PROVE  Staged(u)'
  <2>1. LiveSockets(u)' = live
    BY <1>4 DEF LiveSockets, SocketsOf
  <2>2. dpc'[s] = to
    BY <1>4 DEF TypeOK
  <2>3. DiscRunning(s)' <=> to # "done"
    BY <2>2, <1>4 DEF DiscRunning
  <2>4. ~ConnRunning(s)'
    BY <1>2, <1>4 DEF ConnRunning
  <2>5. \A x \in SocketsOf(u) \ {s} : ~Handled(x) /\ cpc'[x] = cpc[x] /\ dpc'[x] = dpc[x]
    BY <1>0, <1>2, <1>4 DEF TypeOK
  <2>6. ~Handled(s)' => Settled(u)'
    BY <1>4, <2>3 DEF Handled
  <2> QED BY <1>0, <1>2, <1>4, <2>1, <2>3, <2>4, <2>5, <2>6, OneHandler
<1>5. CASE GetUser(s)
  <2>1. dpc[s] = "get" /\ UNCHANGED <<conn, joined, wasOffline, cpc, req, redisVars, dbVars, seen>>
        /\ dpc' = [dpc EXCEPT ![s] = IF s \in socketUser THEN "srem" ELSE "done"]
    BY <1>5 DEF GetUser, GoD, procVars
  <2>2. s \in socketUser
    BY <1>0, <1>2, <2>1 DEF DiscStage, Agree
  <2>3. dpc' = [dpc EXCEPT ![s] = "srem"] /\ dpc'[s] = "srem"
    BY <2>1, <2>2 DEF TypeOK
  <2>4. DiscStage(u, s)'
    BY <1>0, <1>2, <2>1, <2>3 DEF DiscStage, Agree, redisVars, dbVars, Leaving, LiveSockets, SocketsOf
  <2>5. Told(u)'
    BY <1>0, <1>2, <1>3, <2>1, <2>3 DEF Told, redisVars, dbVars, Saying, Leaving, SocketsOf
  <2> QED BY <1>4, <2>1, <2>3, <2>4, <2>5 DEF DPc
<1>6. CASE RemoveSocket(s)
  <2>1. /\ dpc[s] = "srem" /\ dpc' = [dpc EXCEPT ![s] = "del"] /\ dpc'[s] = "del"
        /\ userSockets'[u] = userSockets[u] \ {s}
        /\ UNCHANGED <<conn, joined, wasOffline, cpc, req, socketUser, online, hidden, dbVars, seen>>
    BY <1>6 DEF RemoveSocket, GoD, procVars, TypeOK
  <2>2. DiscStage(u, s)'
    BY <1>0, <1>2, <2>1 DEF DiscStage, Agree, dbVars, Leaving, LiveSockets, SocketsOf
  <2>3. Told(u)'
    BY <1>0, <1>2, <1>3, <2>1 DEF Told, dbVars, Saying, Leaving, SocketsOf
  <2> QED BY <1>4, <2>1, <2>2, <2>3 DEF DPc
<1>7. CASE DeleteMapping(s)
  <2>1. /\ dpc[s] = "del" /\ dpc' = [dpc EXCEPT ![s] = "count"] /\ dpc'[s] = "count"
        /\ socketUser' = socketUser \ {s}
        /\ UNCHANGED <<conn, joined, wasOffline, cpc, req, userSockets, online, hidden, dbVars, seen>>
    BY <1>7 DEF DeleteMapping, GoD, procVars, TypeOK
  <2>2. DiscStage(u, s)'
    BY <1>0, <1>2, <2>1 DEF DiscStage, Agree, dbVars, Leaving, LiveSockets, SocketsOf
  <2>3. Told(u)'
    BY <1>0, <1>2, <1>3, <2>1 DEF Told, dbVars, Saying, Leaving, SocketsOf
  <2> QED BY <1>4, <2>1, <2>2, <2>3 DEF DPc
<1>8. CASE CountRemaining(s)
  <2> DEFINE to == IF userSockets[u] = {} THEN "unregRemove" ELSE "drop"
  <2>1. /\ dpc[s] = "count" /\ dpc' = [dpc EXCEPT ![s] = to] /\ dpc'[s] = to
        /\ UNCHANGED <<conn, joined, wasOffline, cpc, req, redisVars, dbVars, seen>>
    BY <1>8 DEF CountRemaining, GoD, procVars, TypeOK
  <2>2. DiscStage(u, s)'
    BY <1>0, <1>2, <2>1 DEF DiscStage, Agree, redisVars, dbVars, Leaving, LiveSockets, SocketsOf
  <2>3. Told(u)'
    BY <1>0, <1>2, <1>3, <2>1 DEF Told, redisVars, dbVars, Saying, Leaving, SocketsOf
  <2> QED BY <1>4, <2>1, <2>2, <2>3 DEF DPc
<1>9. CASE RemoveOnline(s)
  <2> DEFINE to == IF dpc[s] = "unregRemove" THEN "unregFind" ELSE "offFind"
  <2>1. /\ dpc[s] \in {"unregRemove", "offRemove"} /\ dpc' = [dpc EXCEPT ![s] = to] /\ dpc'[s] = to
        /\ online' = online \ {u}
        /\ UNCHANGED <<conn, joined, wasOffline, cpc, req, socketUser, userSockets, hidden, dbVars, seen>>
    BY <1>9 DEF RemoveOnline, GoD, procVars, TypeOK
  <2>2. DiscStage(u, s)'
    BY <1>0, <1>2, <2>1 DEF DiscStage, Agree, dbVars, Leaving, LiveSockets, SocketsOf
  <2>3. Told(u)'
    BY <1>0, <1>2, <1>3, <2>1 DEF Told, dbVars, Saying, Leaving, SocketsOf
  <2> QED BY <1>4, <2>1, <2>2, <2>3 DEF DPc
<1>10. CASE FindOnDisconnect(s)
  <2> DEFINE to == IF dpc[s] = "unregFind" THEN "unregUpdate" ELSE "offUpdate"
  <2>1. u \in rows
    BY <1>2 DEF DiscStage
  <2>2. /\ dpc[s] \in {"unregFind", "offFind"} /\ dpc' = [dpc EXCEPT ![s] = to] /\ dpc'[s] = to
        /\ UNCHANGED <<conn, joined, wasOffline, cpc, req, redisVars, dbVars, seen>>
    BY <1>10, <2>1 DEF FindOnDisconnect, AfterFind, GoD, procVars, TypeOK
  <2>3. DiscStage(u, s)'
    BY <1>0, <1>2, <2>2 DEF DiscStage, Agree, redisVars, dbVars, Leaving, LiveSockets, SocketsOf
  <2>4. Told(u)'
    BY <1>0, <1>2, <1>3, <2>2 DEF Told, redisVars, dbVars, Saying, Leaving, SocketsOf
  <2> QED BY <1>4, <2>2, <2>3, <2>4 DEF DPc
<1>11. CASE StoreOffline(s)
  <2> DEFINE to == IF dpc[s] = "unregUpdate" THEN "offRemove" ELSE "announce"
  <2>1. dpc[s] \in {"unregUpdate", "offUpdate"} /\ live = {} /\ conn[s] = "closed"
    BY <1>2, <1>11 DEF StoreOffline, DiscStage, Leaving
  <2>2. StoreActivity(u, FALSE, FALSE)
    BY <1>11, <2>1 DEF StoreOffline
  <2>3. /\ dpc' = [dpc EXCEPT ![s] = to] /\ dpc'[s] = to
        /\ UNCHANGED <<conn, joined, wasOffline, cpc, req, redisVars, seen>>
    BY <1>11, <2>1 DEF StoreOffline, GoD, procVars, TypeOK
  <2>4. /\ activity'[u].online = FALSE /\ activity'[u].conns = 0
        /\ activity'[u].hidden = activity[u].hidden /\ u \in rows'
    BY <2>2, Stored
  <2>5. LiveSockets(u)' = live
    BY <2>3 DEF LiveSockets, SocketsOf
  <2>6. /\ userSockets[u] = live /\ socketUser \cap SocketsOf(u) = live /\ joined \cap SocketsOf(u) = live
        /\ u \notin online
    BY <1>2, <2>1 DEF DiscStage, Agree
  <2>7. Cardinality(live) = 0
    BY <2>1, FS_EmptySet
  <2>8. Agree(u, live, live, live, live, live)'
    BY <2>1, <2>3, <2>4, <2>5, <2>6, <2>7 DEF Agree, redisVars, SocketsOf
  <2>9. DiscStage(u, s)'
    BY <2>1, <2>3, <2>4, <2>5, <2>8 DEF DiscStage, Leaving
  <2>10. Told(u)'
    BY <1>0, <1>2, <1>3, <2>1, <2>3, <2>4, <2>6 DEF Told, redisVars, Saying, Leaving, SocketsOf
  <2> QED BY <1>4, <2>3, <2>9, <2>10 DEF DPc
<1>12. CASE DropConnection(s)
  <2>1. /\ dpc[s] = "drop" /\ dpc' = [dpc EXCEPT ![s] = "done"] /\ dpc'[s] = "done" /\ AddConnections(u, -1)
        /\ UNCHANGED <<conn, joined, wasOffline, cpc, req, redisVars, seen>>
    BY <1>12 DEF DropConnection, GoD, procVars, TypeOK
  <2>2. Agree(u, live, live, live, all, all) /\ live # {} /\ u \in rows
    BY <1>2, <2>1 DEF DiscStage
  <2>3. activity' = [activity EXCEPT ![u].conns = @ + -1] /\ rows' = rows
    BY <2>1, <2>2 DEF AddConnections, Fault
  <2>4. Cardinality(all) + -1 = Cardinality(live)
    <3>1. Cardinality(live) \in Nat /\ Cardinality(all) = Cardinality(live) + 1
      BY <1>2, FS_AddElement, FS_CardinalityType
    <3> DEFINE n == Cardinality(live)  m == Cardinality(all)
    <3>2. n \in Nat /\ m = n + 1
      BY <3>1
    <3> HIDE DEF n, m
    <3>3. m + -1 = n
      BY <3>2
    <3> QED BY <3>3 DEF n, m
  <2>5. activity[u].conns = Cardinality(all) /\ activity[u].online
    BY <2>2 DEF Agree
  <2>6. /\ activity'[u].online /\ activity'[u].conns = Cardinality(live)
        /\ activity'[u].hidden = activity[u].hidden /\ u \in rows'
    BY <2>2, <2>3, <2>4, <2>5 DEF TypeOK
  <2>7. LiveSockets(u)' = live
    BY <2>1 DEF LiveSockets, SocketsOf
  <2>8. Settled(u)'
    BY <1>0, <2>1, <2>2, <2>6, <2>7 DEF Settled, Agree, redisVars, SocketsOf
  <2>9. u \in online
    BY <2>2 DEF Agree
  <2>10. Told(u)'
    BY <1>0, <1>2, <1>3, <2>1, <2>6, <2>9 DEF Told, redisVars, Saying, Leaving, SocketsOf
  <2> QED BY <1>4, <2>1, <2>8, <2>10 DEF DPc
<1>13. CASE AnnounceOffline(s)
  <2>1. /\ dpc[s] = "announce" /\ dpc' = [dpc EXCEPT ![s] = "done"] /\ dpc'[s] = "done" /\ seen'[u] = "offline"
        /\ UNCHANGED <<conn, joined, wasOffline, cpc, req, redisVars, dbVars>>
    BY <1>13 DEF AnnounceOffline, GoD, procVars, TypeOK
  <2>2. Agree(u, live, live, live, live, live) /\ live = {}
    BY <1>2, <2>1 DEF DiscStage, Leaving
  <2>3. LiveSockets(u)' = live
    BY <2>1 DEF LiveSockets, SocketsOf
  <2>4. Settled(u)'
    BY <1>0, <2>1, <2>2, <2>3 DEF Settled, Agree, redisVars, dbVars, SocketsOf
  <2>5. u \notin online
    BY <2>2 DEF Agree
  <2>6. Told(u)'
    BY <1>0, <1>2, <1>3, <2>1, <2>5 DEF Told, redisVars, dbVars, Saying, Leaving, SocketsOf
  <2> QED BY <1>4, <2>1, <2>4, <2>6 DEF DPc
<1> QED BY <1>5, <1>6, <1>7, <1>8, <1>9, <1>10, <1>11, <1>12, <1>13 DEF DisconnectStep

\* A connection that does not overlap begins from records that agree.
LEMMA ConnectStage ==
  ASSUME NEW u \in Users, NEW s \in Sockets, UserOf[s] = u, TypeOK, Lifecycle, Staged(u), ~Busy(u), Connect(s)
  PROVE  Staged(u)'
<1> DEFINE live == LiveSockets(u)
<1>0. s \in SocketsOf(u) /\ SocketsOf(u) \subseteq Sockets
  BY DEF SocketsOf
<1>1. /\ conn[s] = "new" /\ conn' = [conn EXCEPT ![s] = "open"] /\ conn'[s] = "open"
      /\ cpc' = [cpc EXCEPT ![s] = "auth"] /\ cpc'[s] = "auth"
      /\ UNCHANGED <<joined, wasOffline, first, dpc, req, redisVars, dbVars, seen>>
  BY DEF Connect, GoC, TypeOK
<1>2. (\A x \in SocketsOf(u) : ~Handled(x)) /\ (\A t \in Toggles : ~Saying(t, u))
  BY DEF Busy, Handled, Saying
<1>3. Settled(u) /\ Told(u) /\ IsFiniteSet(live)
  BY <1>2 DEF Staged
<1>4. dpc[s] = "idle" /\ s \notin live
  BY <1>0, <1>1 DEF Lifecycle, SocketLife, LiveSockets
<1>5. LiveSockets(u)' = live \union {s}
  BY <1>0, <1>1 DEF LiveSockets, SocketsOf, TypeOK
<1>6. LiveSockets(u)' \ {s} = live
  BY <1>4, <1>5
<1>7. ConnStage(u, s)'
  <2>1. Agree(u, live, live, live, live, live)
    BY <1>3 DEF Settled
  <2>2. Agree(u, LiveSockets(u) \ {s}, LiveSockets(u) \ {s}, LiveSockets(u) \ {s}, LiveSockets(u) \ {s}, LiveSockets(u) \ {s})'
    BY <1>0, <1>1, <1>6, <2>1 DEF Agree, redisVars, dbVars, SocketsOf
  <2> QED BY <1>1, <2>2 DEF ConnStage, Registering, Greeting
<1>8. \A x \in SocketsOf(u) \ {s} : ~Handled(x) /\ cpc'[x] = cpc[x] /\ dpc'[x] = dpc[x]
  BY <1>0, <1>1, <1>2 DEF TypeOK
<1>9. Told(u)'
  <2>1. \A x \in SocketsOf(u) : cpc[x] \notin Registering \union Greeting
    BY <1>2 DEF Handled, ConnRunning, Registering, Greeting
  <2> QED BY <1>0, <1>1, <1>2, <1>3, <2>1 DEF Told, redisVars, dbVars, Saying, SocketsOf
<1>10. ConnRunning(s)' /\ ~DiscRunning(s)' /\ Handled(s)'
  BY <1>1, <1>4 DEF ConnRunning, DiscRunning, Handled
<1>11. IsFiniteSet(LiveSockets(u)')
  BY <1>3, <1>5, FS_AddElement
<1> QED BY <1>0, <1>1, <1>2, <1>7, <1>8, <1>9, <1>10, <1>11, OneHandler

\* So does a disconnection: the socket is recorded, and will be taken away.
LEMMA CloseStage ==
  ASSUME NEW u \in Users, NEW s \in Sockets, UserOf[s] = u, TypeOK, Lifecycle, Staged(u), ~Busy(u), Close(s)
  PROVE  Staged(u)'
<1> DEFINE live == LiveSockets(u)
<1>0. s \in SocketsOf(u) /\ SocketsOf(u) \subseteq Sockets
  BY DEF SocketsOf
<1>1. (\A x \in SocketsOf(u) : ~Handled(x)) /\ (\A t \in Toggles : ~Saying(t, u))
  BY DEF Busy, Handled, Saying
<1>2. Settled(u) /\ Told(u) /\ IsFiniteSet(live)
  BY <1>1 DEF Staged
<1>3. conn[s] = "open" /\ s \in live
  BY <1>0 DEF Close, LiveSockets
<1>4. s \in authed
  BY <1>0, <1>2, <1>3 DEF Settled, Agree, Lifecycle, SocketLife
<1>5. /\ conn' = [conn EXCEPT ![s] = "closed"] /\ conn'[s] = "closed" /\ joined' = joined \ {s}
      /\ dpc' = [dpc EXCEPT ![s] = "get"] /\ dpc'[s] = "get"
      /\ UNCHANGED <<wasOffline, first, cpc, req, redisVars, dbVars, seen>>
  BY <1>4 DEF Close, CloseSocket, GoD, TypeOK
<1>6. LiveSockets(u)' = live \ {s}
  BY <1>0, <1>5 DEF LiveSockets, SocketsOf, TypeOK
<1>7. LiveSockets(u)' \union {s} = live
  BY <1>3, <1>6
<1>8. DiscStage(u, s)'
  <2>1. Agree(u, live, live, live, live, live)
    BY <1>2 DEF Settled
  <2>2. joined' \cap SocketsOf(u) = live \ {s}
    BY <1>5, <2>1 DEF Agree
  <2>3. Agree(u, LiveSockets(u) \union {s}, LiveSockets(u) \union {s}, LiveSockets(u), LiveSockets(u) \union {s},
              LiveSockets(u) \union {s})'
    BY <1>0, <1>5, <1>6, <1>7, <2>1, <2>2 DEF Agree, redisVars, dbVars, SocketsOf
  <2>4. u \in rows'
    BY <1>2, <1>3, <1>5, <2>1 DEF Agree, Told, dbVars
  <2> QED BY <1>5, <2>3, <2>4 DEF DiscStage, Leaving
<1>9. \A x \in SocketsOf(u) \ {s} : ~Handled(x) /\ cpc'[x] = cpc[x] /\ dpc'[x] = dpc[x]
  BY <1>0, <1>1, <1>5 DEF TypeOK
<1>10. Told(u)'
  <2>1. \A x \in SocketsOf(u) : cpc[x] \notin Registering \union Greeting /\ dpc[x] \notin Leaving
    BY <1>1 DEF Handled, ConnRunning, DiscRunning, Registering, Greeting, Leaving
  <2> QED BY <1>0, <1>1, <1>2, <1>5, <2>1 DEF Told, redisVars, dbVars, Saying, SocketsOf
<1>11. ~ConnRunning(s)' /\ DiscRunning(s)' /\ Handled(s)'
  BY <1>0, <1>1, <1>5 DEF ConnRunning, DiscRunning, Handled
<1>12. IsFiniteSet(LiveSockets(u)')
  BY <1>2, <1>6, FS_RemoveElement
<1> QED BY <1>0, <1>1, <1>5, <1>8, <1>9, <1>10, <1>11, <1>12, OneHandler

\* A message is all that runs for its user; it moves no socket.
LEMMA OneMessage ==
  ASSUME NEW u \in Users, NEW t \in Toggles, TypeOK, Staged(u),
         \A x \in SocketsOf(u) : ~Handled(x) /\ Kept(u, x),
         \A r \in Toggles \ {t} : ~Saying(r, u) /\ req'[r] = req[r],
         userSockets'[u] = userSockets[u], u \in online' <=> u \in online,
         activity'[u].online = activity[u].online, activity'[u].conns = activity[u].conns, Told(u)'
  PROVE  Staged(u)'
<1> DEFINE live == LiveSockets(u)
<1>1. Settled(u) /\ IsFiniteSet(live)
  BY DEF Staged
<1>2. LiveSockets(u)' = live /\ SocketsOf(u)' = SocketsOf(u)
  BY DEF LiveSockets, SocketsOf, Kept
<1>3. \A x \in SocketsOf(u) : ~Handled(x)' /\ ~ConnRunning(x)' /\ ~DiscRunning(x)'
  BY DEF Handled, ConnRunning, DiscRunning, Kept
<1>4. \A r \in Toggles \ {t} : ~Saying(r, u)'
  BY DEF Saying
<1>5. Alone(u)'
  BY <1>2, <1>3, <1>4 DEF Alone
<1>6. socketUser' \cap SocketsOf(u) = socketUser \cap SocketsOf(u) /\ joined' \cap SocketsOf(u) = joined \cap SocketsOf(u)
  BY DEF Kept
<1>7. Settled(u)'
  BY <1>1, <1>2, <1>6 DEF Settled, Agree
<1> QED BY <1>1, <1>2, <1>3, <1>5, <1>7 DEF Staged

\* A message that begins when nothing else of its user runs.
LEMMA HideStage ==
  ASSUME NEW u \in Users, NEW t \in Toggles, TypeOK, Staged(u), ~Busy(u), req[t].pc = "idle", NEW hide \in BOOLEAN,
         req' = [req EXCEPT ![t] = [pc |-> "upsert", user |-> u, hide |-> hide, say |-> FALSE]],
         hidden' = IF hide THEN hidden \cup {u} ELSE hidden \ {u},
         UNCHANGED <<procVars, cpc, dpc, socketUser, userSockets, online, dbVars, seen>>
  PROVE  Staged(u)'
<1>1. (\A x \in SocketsOf(u) : ~Handled(x)) /\ (\A r \in Toggles : ~Saying(r, u))
  BY DEF Busy, Handled, Saying
<1>2. \A x \in SocketsOf(u) : ~Handled(x) /\ Kept(u, x)
  BY <1>1 DEF Kept, procVars
<1>3. \A r \in Toggles \ {t} : ~Saying(r, u) /\ req'[r] = req[r]
  BY <1>1 DEF TypeOK
<1>4. req'[t] = [pc |-> "upsert", user |-> u, hide |-> hide, say |-> FALSE]
  BY DEF TypeOK
<1>5. Saying(t, u)' /\ req'[t].pc = "upsert" /\ (req'[t].hide <=> u \in hidden')
  BY <1>4 DEF Saying
<1>6. Told(u)
  BY DEF Staged
<1>7. \A r \in Toggles \ {t} : ~Saying(r, u)'
  BY <1>3 DEF Saying
<1>8. \A x \in SocketsOf(u) : dpc[x] \notin Leaving
  BY <1>1 DEF Handled, DiscRunning, Leaving
<1>9. Told(u)'
  BY <1>4, <1>5, <1>6, <1>7, <1>8 DEF Told, dbVars, SocketsOf
<1> QED BY <1>2, <1>3, <1>9, OneMessage DEF dbVars

\* A message stores the choice, reads whether the user is online, and tells it.
LEMMA StatusStage ==
  ASSUME NEW u \in Users, NEW t \in Toggles, TypeOK, Staged(u), req[t].user = u, StatusStep(t)
  PROVE  Staged(u)'
<1>1. Saying(t, u)
  BY DEF StatusStep, UpsertHidden, ReadStatus, AnnounceStatus, Saying
<1>2. Alone(u) /\ Told(u)
  BY DEF Staged
<1>3. (\A x \in SocketsOf(u) : ~Handled(x)) /\ \A r \in Toggles \ {t} : ~Saying(r, u)
  BY <1>1, <1>2 DEF Alone
<1>4. \A x \in SocketsOf(u) : dpc[x] \notin Leaving
  BY <1>3 DEF Handled, DiscRunning, Leaving
<1>5. ASSUME NEW r \in [pc : TPc, user : Users, hide : BOOLEAN, say : BOOLEAN], req' = [req EXCEPT ![t] = r], r.user = u,
             UNCHANGED <<procVars, cpc, dpc, redisVars>>,
             activity'[u].online = activity[u].online, activity'[u].conns = activity[u].conns,
             r.pc # "idle", r.pc # "upsert",
             activity'[u].hidden <=> u \in hidden, activity[u].online => u \in rows',
             r.pc = "announce" /\ r.say => u \in online, seen'[u] = "online" => u \in online
      PROVE  Staged(u)'
  <2>1. \A x \in SocketsOf(u) : ~Handled(x) /\ Kept(u, x)
    BY <1>3, <1>5 DEF Kept, procVars, redisVars
  <2>2. \A x \in Toggles \ {t} : ~Saying(x, u) /\ req'[x] = req[x]
    BY <1>3, <1>5 DEF TypeOK
  <2>3. req'[t] = r
    BY <1>5 DEF TypeOK
  <2>4. \A x \in Toggles \ {t} : ~Saying(x, u)'
    BY <2>2 DEF Saying
  <2>5. Told(u)'
    BY <1>5, <2>3, <2>4 DEF Told, redisVars, SocketsOf
  <2> QED BY <1>5, <2>1, <2>2, <2>5, OneMessage DEF redisVars
<1>6. PICK q \in [pc : TPc, user : Users, hide : BOOLEAN, say : BOOLEAN] : q = req[t]
  BY DEF TypeOK
<1>7. CASE UpsertHidden(t)
  <2> DEFINE r == [q EXCEPT !.pc = "read"]
  <2>1. /\ req' = [req EXCEPT ![t] = r] /\ rows' = rows \cup {u} /\ q.pc = "upsert"
        /\ UNCHANGED <<procVars, cpc, dpc, redisVars, seen>>
        /\ activity' = [activity EXCEPT ![u].hidden = q.hide]
    BY <1>6, <1>7 DEF UpsertHidden
  <2>2. /\ r \in [pc : TPc, user : Users, hide : BOOLEAN, say : BOOLEAN] /\ r.user = u /\ r.pc = "read"
    BY <1>6 DEF TPc
  <2>3. q.hide <=> u \in hidden
    BY <1>1, <1>2, <1>6, <2>1 DEF Told
  <2>4. activity'[u].hidden = q.hide /\ activity'[u].online = activity[u].online
        /\ activity'[u].conns = activity[u].conns
    BY <2>1 DEF TypeOK
  <2>5. seen'[u] = "online" => u \in online
    BY <1>2, <1>4, <2>1 DEF Told
  <2> HIDE DEF r
  <2> QED BY <1>5, <2>1, <2>2, <2>3, <2>4, <2>5
<1>8. (activity[u].hidden <=> u \in hidden) \/ q.pc = "upsert"
  BY <1>2, <1>3, <1>6 DEF Told
<1>9. CASE ReadStatus(t)
  <2> DEFINE r == [q EXCEPT !.pc = "announce", !.say = q.user \in online /\ ~q.hide]
  <2>1. /\ req' = [req EXCEPT ![t] = r] /\ q.pc = "read"
        /\ UNCHANGED <<procVars, cpc, dpc, redisVars, dbVars, seen>>
    BY <1>6, <1>9 DEF ReadStatus
  <2>2. /\ r \in [pc : TPc, user : Users, hide : BOOLEAN, say : BOOLEAN] /\ r.user = u /\ r.pc = "announce"
        /\ (r.say => u \in online)
    BY <1>6 DEF TPc
  <2> HIDE DEF r
  <2> QED BY <1>2, <1>4, <1>5, <1>8, <2>1, <2>2 DEF Told, dbVars
<1>10. CASE AnnounceStatus(t)
  <2> DEFINE r == [q EXCEPT !.pc = "done"]
  <2>1. /\ req' = [req EXCEPT ![t] = r] /\ q.pc = "announce" /\ (seen'[u] = "online" => q.say)
        /\ UNCHANGED <<procVars, cpc, dpc, redisVars, dbVars>>
    BY <1>6, <1>10 DEF AnnounceStatus, TypeOK
  <2>2. r \in [pc : TPc, user : Users, hide : BOOLEAN, say : BOOLEAN] /\ r.user = u /\ r.pc = "done"
    BY <1>6 DEF TPc
  <2>3. q.say => u \in online
    BY <1>1, <1>2, <1>6, <2>1 DEF Told
  <2> HIDE DEF r
  <2> QED BY <1>2, <1>5, <1>8, <2>1, <2>2, <2>3 DEF Told, dbVars
<1> QED BY <1>7, <1>9, <1>10 DEF StatusStep

\* What has overlapped or failed stays so, and a step that fails is counted.
LEMMA SequentialBefore ==
  ASSUME TypeOK, [Next]_vars, NEW u \in Users, u \notin overlapped', faults' = 0
  PROVE  /\ u \notin overlapped /\ faults = 0
         /\ \A s \in Sockets : ~ConnectionFault(s) /\ ~DisconnectFault(s)
         /\ \A t \in Toggles : ~StatusFault(t)
         /\ ~Crash
<1> USE MaxFaultsAssumption DEF histVars
<1>0. faults \in Nat /\ ~(Fault)
  BY DEF TypeOK, Fault
<1>1. \A s \in Sockets : ~ConnectionFault(s) /\ ~DisconnectFault(s)
  BY <1>0 DEF ConnectionFault, DisconnectFault
<1>2. (\A t \in Toggles : ~StatusFault(t)) /\ ~Crash
  BY <1>0 DEF StatusFault, Crash
<1>3. ASSUME NEW s \in Sockets, Connect(s) \/ Close(s) \/ ConnectionStep(s) \/ DisconnectStep(s)
      PROVE u \notin overlapped /\ faults = 0
  <2>1. CASE Connect(s) \/ Close(s)
    BY <2>1 DEF Connect, Close, NoteOverlap
  <2>2. CASE ConnectionStep(s)
    BY <1>0, <2>2 DEF ConnectionStep, Authenticate, Reject, CheckOnline, CountSockets, WriteSocket, FindOnConnect,
       FinishRegister, AddOnline, StoreOnline, AnnounceOnline, StoreActivity, AddConnections
  <2>3. CASE DisconnectStep(s)
    BY <1>0, <2>3 DEF DisconnectStep, GetUser, RemoveSocket, DeleteMapping, CountRemaining, RemoveOnline,
         FindOnDisconnect, StoreOffline, DropConnection, AnnounceOffline, StoreActivity, AddConnections
  <2> QED BY <1>3, <2>1, <2>2, <2>3
<1>4. ASSUME NEW t \in Toggles, SetHidden(t) \/ StatusStep(t)
      PROVE u \notin overlapped /\ faults = 0
  BY <1>4 DEF SetHidden, NoteOverlap, StatusStep, UpsertHidden, ReadStatus, AnnounceStatus
<1>5. CASE Finished \/ UNCHANGED vars
  <2>1. UNCHANGED vars
    BY <1>5 DEF Finished
  <2>2. overlapped' = overlapped /\ faults' = faults
    BY <2>1 DEF vars
  <2> QED BY <1>1, <1>2, <2>2
<1> QED BY <1>1, <1>2, <1>3, <1>4, <1>5 DEF Next

\* A handler of one user leaves the records of the others alone.
LEMMA OthersStage ==
  ASSUME NEW u \in Users, NEW s \in Sockets, UserOf[s] # u, TypeOK, Staged(u),
         Connect(s) \/ Close(s) \/ ConnectionStep(s) \/ DisconnectStep(s)
  PROVE  Staged(u)'
<1> USE UserOfAssumption DEF TypeOK, procVars, redisVars, dbVars, histVars, GoC, GoD
<1>0. SocketsOf(u) \subseteq Sockets \ {s}
  BY DEF SocketsOf
<1>1. req' = req => KeptSaying(u)
  BY DEF KeptSaying, Saying
<1>2. ASSUME \A x \in Sockets \ {s} : Kept(u, x), KeptOf(u), req' = req PROVE Staged(u)'
  BY <1>0, <1>1, <1>2, Untouched
<1>3. CASE Connect(s)
  BY <1>2, <1>3 DEF Connect, Kept, KeptOf
<1>4. CASE Close(s)
  BY <1>2, <1>4 DEF Close, CloseSocket, Kept, KeptOf
<1>5. ASSUME NEW i \in BOOLEAN, NEW on \in BOOLEAN, StoreActivity(UserOf[s], i, on)
      PROVE  activity'[u] = activity[u] /\ (u \in rows' <=> u \in rows)
  BY <1>5 DEF StoreActivity
<1>6. ASSUME NEW n \in Int, AddConnections(UserOf[s], n)
      PROVE  activity'[u] = activity[u] /\ (u \in rows' <=> u \in rows)
  BY <1>6 DEF AddConnections
<1>7. CASE ConnectionStep(s)
  <2>1. CASE Authenticate(s) \/ CheckOnline(s) \/ CountSockets(s) \/ FindOnConnect(s)
    BY <1>2, <2>1 DEF Authenticate, CheckOnline, CountSockets, FindOnConnect, Kept, KeptOf
  <2>2. CASE Reject(s)
    BY <1>2, <2>2 DEF Reject, CloseSocket, Kept, KeptOf
  <2>3. CASE WriteSocket(s)
    BY <1>2, <2>3 DEF WriteSocket, RegisterWrites, Kept, KeptOf
  <2>4. CASE FinishRegister(s)
    <3>1. StoreActivity(UserOf[s], FALSE, TRUE) \/ StoreActivity(UserOf[s], TRUE, TRUE) \/ AddConnections(UserOf[s], 1)
      BY <2>4 DEF FinishRegister
    <3>2. activity'[u] = activity[u] /\ (u \in rows' <=> u \in rows)
      <4>1. CASE StoreActivity(UserOf[s], FALSE, TRUE) \/ StoreActivity(UserOf[s], TRUE, TRUE)
        BY <1>5, <4>1
      <4>2. CASE AddConnections(UserOf[s], 1)
        BY <1>6, <4>2
      <4> QED BY <3>1, <4>1, <4>2
    <3> QED BY <1>2, <2>4, <3>2 DEF FinishRegister, Greet, Kept, KeptOf
  <2>5. CASE AddOnline(s) \/ AnnounceOnline(s)
    BY <1>2, <2>5 DEF AddOnline, AnnounceOnline, Kept, KeptOf
  <2>6. CASE StoreOnline(s)
    <3>1. activity'[u] = activity[u] /\ (u \in rows' <=> u \in rows)
      BY <1>5, <2>6 DEF StoreOnline
    <3> QED BY <1>2, <2>6, <3>1 DEF StoreOnline, Kept, KeptOf
  <2> QED BY <1>7, <2>1, <2>2, <2>3, <2>4, <2>5, <2>6 DEF ConnectionStep
<1>8. CASE DisconnectStep(s)
  <2>1. CASE GetUser(s) \/ CountRemaining(s) \/ FindOnDisconnect(s)
    BY <1>2, <2>1 DEF GetUser, CountRemaining, FindOnDisconnect, Kept, KeptOf
  <2>2. CASE RemoveSocket(s) \/ DeleteMapping(s) \/ RemoveOnline(s) \/ AnnounceOffline(s)
    BY <1>2, <2>2 DEF RemoveSocket, DeleteMapping, RemoveOnline, AnnounceOffline, Kept, KeptOf
  <2>3. CASE StoreOffline(s)
    <3>1. activity'[u] = activity[u] /\ (u \in rows' <=> u \in rows)
      BY <1>5, <2>3 DEF StoreOffline
    <3> QED BY <1>2, <2>3, <3>1 DEF StoreOffline, Kept, KeptOf
  <2>4. CASE DropConnection(s)
    <3>1. activity'[u] = activity[u] /\ (u \in rows' <=> u \in rows)
      BY <1>6, <2>4 DEF DropConnection
    <3> QED BY <1>2, <2>4, <3>1 DEF DropConnection, Kept, KeptOf
  <2> QED BY <1>8, <2>1, <2>2, <2>3, <2>4 DEF DisconnectStep
<1> QED BY <1>3, <1>4, <1>7, <1>8

\* So does a message of another user.
LEMMA OtherMessages ==
  ASSUME NEW u \in Users, NEW t \in Toggles, TypeOK, Staged(u), req'[t].user # u,
         SetHidden(t) \/ StatusStep(t), ~Saying(t, u)
  PROVE  Staged(u)'
<1> USE UserOfAssumption DEF TypeOK, procVars, redisVars, dbVars, histVars
<1>1. \A x \in SocketsOf(u) : Kept(u, x)
  BY DEF Kept, SetHidden, StatusStep, UpsertHidden, ReadStatus, AnnounceStatus
<1>2. \A r \in Toggles \ {t} : req'[r] = req[r]
  BY DEF SetHidden, StatusStep, UpsertHidden, ReadStatus, AnnounceStatus
<1>3. req'[t].pc # "idle"
  BY DEF SetHidden, StatusStep, UpsertHidden, ReadStatus, AnnounceStatus
<1>4. KeptSaying(u)
  BY <1>2, <1>3 DEF KeptSaying, Saying
<1>5. CASE SetHidden(t)
  <2>1. PICK s \in Sockets, hide \in BOOLEAN :
          /\ req' = [req EXCEPT ![t] = [pc |-> "upsert", user |-> UserOf[s], hide |-> hide, say |-> FALSE]]
          /\ hidden' = IF hide THEN hidden \cup {UserOf[s]} ELSE hidden \ {UserOf[s]}
    BY <1>5 DEF SetHidden
  <2>2. UserOf[s] # u
    BY <2>1
  <2>3. KeptOf(u)
    BY <1>5, <2>1, <2>2 DEF KeptOf, SetHidden
  <2> QED BY <1>1, <1>4, <2>3, Untouched
<1>6. CASE StatusStep(t)
  <2>1. req[t].user # u
    BY <1>6 DEF StatusStep, UpsertHidden, ReadStatus, AnnounceStatus, Saying
  <2>2. KeptOf(u)
    BY <1>6, <2>1 DEF KeptOf, StatusStep, UpsertHidden, ReadStatus, AnnounceStatus
  <2> QED BY <1>1, <1>4, <2>2, Untouched
<1> QED BY <1>5, <1>6

\* While the handlers of a user have not overlapped and nothing has failed, whatever
\* happens next finds and leaves the records where the running handler stands.
LEMMA StagedStep ==
  ASSUME TypeOK, Lifecycle, SocketIndexed, \A u \in Users : Sequential(u) => Staged(u), [Next]_vars
  PROVE  \A u \in Users : Sequential(u)' => Staged(u)'
<1> SUFFICES ASSUME NEW u \in Users, u \notin overlapped', faults' = 0 PROVE Staged(u)'
  BY DEF Sequential
<1> USE UserOfAssumption
<1>1. /\ faults = 0 /\ Staged(u) /\ \A s \in Sockets : ~ConnectionFault(s) /\ ~DisconnectFault(s)
      /\ (\A t \in Toggles : ~StatusFault(t)) /\ ~Crash
  BY SequentialBefore DEF Sequential
<1>2. ASSUME NEW s \in Sockets, Connect(s) \/ Close(s) \/ ConnectionStep(s) \/ DisconnectStep(s) PROVE Staged(u)'
  <2>1. CASE UserOf[s] # u
    BY <1>1, <1>2, <2>1, OthersStage
  <2>2. CASE UserOf[s] = u /\ (Connect(s) \/ Close(s))
    <3>1. ~Busy(u)
      BY <2>2 DEF Connect, Close, NoteOverlap
    <3> QED BY <1>1, <2>2, <3>1, ConnectStage, CloseStage
  <2>3. CASE UserOf[s] = u /\ (ConnectionStep(s) \/ DisconnectStep(s))
    BY <1>1, <2>3, ConnectionStage, DisconnectionStage
  <2> QED BY <1>2, <2>1, <2>2, <2>3
<1>3. ASSUME NEW t \in Toggles, SetHidden(t) PROVE Staged(u)'
  <2>1. PICK s \in Sockets, hide \in BOOLEAN :
          /\ req' = [req EXCEPT ![t] = [pc |-> "upsert", user |-> UserOf[s], hide |-> hide, say |-> FALSE]]
          /\ hidden' = IF hide THEN hidden \cup {UserOf[s]} ELSE hidden \ {UserOf[s]}
          /\ NoteOverlap(UserOf[s])
    BY <1>3 DEF SetHidden
  <2>2. /\ req[t].pc = "idle" /\ UNCHANGED <<procVars, cpc, dpc, socketUser, userSockets, online, dbVars, seen>>
    BY <1>3 DEF SetHidden
  <2>3. CASE UserOf[s] = u
    <3>1. ~Busy(u)
      BY <2>1, <2>3 DEF NoteOverlap
    <3> QED BY <1>1, <2>1, <2>2, <2>3, <3>1, HideStage
  <2>4. CASE UserOf[s] # u
    <3>1. req'[t].user # u /\ ~Saying(t, u)
      BY <2>1, <2>2, <2>4 DEF TypeOK, Saying
    <3> QED BY <1>1, <1>3, <3>1, OtherMessages
  <2> QED BY <2>3, <2>4
<1>4. ASSUME NEW t \in Toggles, StatusStep(t) PROVE Staged(u)'
  <2>1. CASE req[t].user = u
    BY <1>1, <1>4, <2>1, StatusStage
  <2>2. CASE req[t].user # u
    <3>1. req'[t].user # u /\ ~Saying(t, u)
      BY <1>4, <2>2 DEF StatusStep, UpsertHidden, ReadStatus, AnnounceStatus, TypeOK, Saying
    <3> QED BY <1>1, <1>4, <3>1, OtherMessages
  <2> QED BY <2>1, <2>2
<1>5. CASE Finished \/ UNCHANGED vars
  <2>1. UNCHANGED vars
    BY <1>5 DEF Finished
  <2>2. (\A x \in SocketsOf(u) : Kept(u, x)) /\ KeptOf(u)
    BY <2>1 DEF vars, procVars, redisVars, dbVars, Kept, KeptOf
  <2>3. KeptSaying(u)
    BY <2>1 DEF vars, KeptSaying, Saying
  <2> QED BY <1>1, <2>2, <2>3, Untouched
<1> QED BY <1>1, <1>2, <1>3, <1>4, <1>5 DEF Next

\* At the start nobody runs and every record stands for no socket.
LEMMA StagedInit == Init => \A u \in Users : Staged(u)
<1> SUFFICES ASSUME Init, NEW u \in Users PROVE Staged(u)
  OBVIOUS
<1> USE DEF Init
<1>1. (\A s \in SocketsOf(u) : ~Handled(s) /\ ~ConnRunning(s) /\ ~DiscRunning(s)) /\ \A t \in Toggles : ~Saying(t, u)
  BY DEF Handled, ConnRunning, DiscRunning, Saying, SocketsOf
<1>2. LiveSockets(u) = {}
  BY DEF LiveSockets, SocketsOf
<1>3. Settled(u) /\ IsFiniteSet(LiveSockets(u))
  BY <1>2, FS_EmptySet DEF Settled, Agree
<1>4. Alone(u) /\ Told(u)
  BY <1>1 DEF Alone, Told
<1> QED BY <1>1, <1>3, <1>4 DEF Staged

\* For any number of devices, connections and messages: as long as the handlers of a
\* user run one after the other and nothing fails, sockets, Redis, row, connection
\* count and followers agree after each of them (AppGateway and GatewayService).
THEOREM RecordsAgree == Spec => []SequentialExact
<1> DEFINE Stages == \A u \in Users : Sequential(u) => Staged(u)
<1>1. Init => Inv /\ Stages
  BY InitInv, StagedInit
<1>2. (Inv /\ Stages) /\ [Next]_vars => (Inv /\ Stages)'
  <2>1. Inv /\ [Next]_vars => Inv'
    BY NextType, LifecycleStep, IndexedStep, GhostStep, ZombieStep, StaleStep, RacedStep DEF Inv
  <2>2. Inv /\ Stages /\ [Next]_vars => Stages'
    BY StagedStep DEF Inv
  <2> QED BY <2>1, <2>2
<1>3. Stages => SequentialExact
  <2> SUFFICES ASSUME Stages, NEW u \in Users, ~Busy(u), u \notin overlapped, faults = 0
               PROVE  LET live == LiveSockets(u) IN
                        /\ userSockets[u] = live /\ socketUser \cap SocketsOf(u) = live
                        /\ joined \cap SocketsOf(u) = live
                        /\ u \in online <=> live # {}
                        /\ activity[u].online <=> live # {}
                        /\ activity[u].conns = Cardinality(live)
                        /\ activity[u].hidden <=> u \in hidden
                        /\ seen[u] = "online" => u \in online
                        /\ u \in online /\ (\A t \in Toggles : req[t].pc = "idle") => seen[u] = "online"
    BY DEF SequentialExact
  <2>1. Staged(u)
    BY DEF Sequential
  <2>2. (\A s \in SocketsOf(u) : ~Handled(s)) /\ \A t \in Toggles : ~Saying(t, u)
    BY DEF Busy, Handled, Saying
  <2>3. Settled(u) /\ Told(u)
    BY <2>1, <2>2 DEF Staged
  <2>4. \A s \in SocketsOf(u) : cpc[s] \notin Registering \union Greeting /\ dpc[s] \notin Leaving
    BY <2>2 DEF Handled, ConnRunning, DiscRunning, Registering, Greeting, Leaving
  <2>5. (activity[u].hidden <=> u \in hidden) /\ (seen[u] = "online" => u \in online)
        /\ (u \in online /\ (\A t \in Toggles : req[t].pc = "idle") => seen[u] = "online")
    BY <2>2, <2>3, <2>4 DEF Told
  <2> QED BY <2>3, <2>5 DEF Settled, Agree
<1> QED BY <1>1, <1>2, <1>3, PTL DEF Spec

-----------------------------------------------------------------------------
(***************************************************************************)
(* The gateway implements OnlineStatus                                     *)
(***************************************************************************)
\* handleDisconnect has not yet taken the socket away.
StillOn == {"get", "srem", "del", "count", "drop", "unregRemove"}

\* Place, for a trusted user.
IsOn(s) == IF conn[s] = "closed" THEN dpc[s] \in StillOn ELSE cpc[s] \notin BeforeWrite

\* What a trusted user's devices are, without the case of the others.
LEMMA PlaceOf ==
  ASSUME NEW s \in Sockets, Sequential(UserOf[s])
  PROVE  /\ Place(s) \in {"new", "on", "off"}
         /\ Place(s) = "on" <=> IsOn(s)
         /\ Place(s) = "new" <=> conn[s] # "closed" /\ cpc[s] \in BeforeWrite
<1>1. CASE conn[s] = "closed"
  BY <1>1 DEF Place, IsOn, StillOn
<1>2. CASE conn[s] # "closed"
  BY <1>2 DEF Place, IsOn
<1> QED BY <1>1, <1>2

\* online:users has a trusted user exactly while a device of his is on.
LEMMA OnlineMeans ==
  ASSUME NEW u \in Users, TypeOK, Lifecycle, Staged(u)
  PROVE  u \in online <=> \E s \in SocketsOf(u) : IsOn(s)
<1> DEFINE live == LiveSockets(u)  on == {s \in SocketsOf(u) : IsOn(s)}
<1>0. SocketsOf(u) \subseteq Sockets
  BY DEF SocketsOf
<1>1. \A s \in SocketsOf(u) : ~Handled(s) => (IsOn(s) <=> s \in live)
  <2> SUFFICES ASSUME NEW s \in SocketsOf(u), ~Handled(s) PROVE IsOn(s) <=> conn[s] = "open"
    BY DEF LiveSockets
  <2>1. s \in Sockets /\ cpc[s] \in {"idle", "done"} /\ dpc[s] \in {"idle", "done"}
    BY <1>0 DEF Handled, ConnRunning, DiscRunning
  <2>2. (conn[s] = "new" <=> cpc[s] = "idle") /\ conn[s] \in {"new", "open", "closed"}
    BY <2>1 DEF Lifecycle, SocketLife, TypeOK
  <2> QED BY <2>1, <2>2 DEF IsOn, StillOn, BeforeWrite
<1>2. CASE \A s \in SocketsOf(u) : ~Handled(s)
  <2>1. on = live
    BY <1>1, <1>2 DEF LiveSockets
  <2>2. u \in online <=> live # {}
    BY <1>2 DEF Staged, Settled, Agree
  <2> QED BY <2>1, <2>2
<1>3. ASSUME NEW s \in SocketsOf(u), Handled(s) PROVE u \in online <=> on # {}
  <2>1. \A x \in SocketsOf(u) \ {s} : ~Handled(x)
    BY <1>3 DEF Staged, Alone
  <2>2. on \ {s} = live \ {s}
    BY <1>1, <2>1 DEF LiveSockets
  <2>3. CASE ConnRunning(s)
    <3>1. ConnStage(u, s) /\ conn[s] = "open" /\ s \in live
      BY <1>3, <2>3 DEF Staged, ConnStage, LiveSockets
    <3>2. cpc[s] \in CPc /\ cpc[s] \notin {"idle", "done"}
      BY <1>0, <2>3 DEF TypeOK, ConnRunning
    <3>3. CASE cpc[s] \in BeforeWrite
      <4>1. u \in online <=> live \ {s} # {}
        BY <3>1, <3>3 DEF ConnStage, Agree
      <4>2. s \notin on
        BY <3>1, <3>3 DEF IsOn
      <4> QED BY <2>2, <4>1, <4>2
    <3>4. CASE cpc[s] \notin BeforeWrite
      <4>1. cpc[s] \in Registering \union Greeting
        BY <3>2, <3>4 DEF CPc, BeforeWrite, Registering, Greeting
      <4>2. u \in online <=> live # {}
        BY <3>1, <4>1 DEF ConnStage, Agree
      <4>3. s \in on
        BY <3>1, <3>4 DEF IsOn
      <4> QED BY <3>1, <4>2, <4>3
    <3> QED BY <3>3, <3>4
  <2>4. CASE DiscRunning(s)
    <3>1. DiscStage(u, s) /\ conn[s] = "closed" /\ s \notin live
      BY <1>3, <2>4 DEF Staged, DiscStage, LiveSockets
    <3>2. dpc[s] \in DPc /\ dpc[s] \notin {"idle", "done", "unregInsert", "offInsert"}
      BY <1>0, <2>4, <3>1 DEF TypeOK, DiscRunning, DiscStage
    <3>3. CASE dpc[s] \in StillOn
      <4>1. u \in online
        BY <3>1, <3>3 DEF DiscStage, Agree, StillOn
      <4>2. s \in on
        BY <3>1, <3>3 DEF IsOn
      <4> QED BY <4>1, <4>2
    <3>4. CASE dpc[s] \notin StillOn
      <4>1. dpc[s] \in {"unregFind", "unregUpdate", "offRemove", "offFind", "offUpdate", "announce"}
        BY <3>2, <3>4 DEF DPc, StillOn
      <4>2. u \in online <=> live # {}
        BY <3>1, <4>1 DEF DiscStage, Agree
      <4>3. s \notin on
        BY <3>1, <3>4 DEF IsOn
      <4> QED BY <2>2, <3>1, <4>2, <4>3
    <3> QED BY <3>3, <3>4
  <2> QED BY <1>3, <2>3, <2>4 DEF Handled
<1>4. (\E s \in SocketsOf(u) : IsOn(s)) <=> on # {}
  OBVIOUS
<1> QED BY <1>2, <1>3, <1>4

\* Failures are never taken back.
LEMMA FaultsStay ==
  ASSUME TypeOK, [Next]_vars, faults' = 0
  PROVE  faults = 0
<1>0. faults \in Nat /\ ~Fault
  BY MaxFaultsAssumption DEF TypeOK, Fault
<1>1. ASSUME NEW s \in Sockets, Connect(s) \/ Close(s) PROVE faults = 0
  BY <1>1 DEF Connect, Close
<1>2. ASSUME NEW s \in Sockets, ConnectionStep(s) PROVE faults = 0
  BY <1>0, <1>2 DEF ConnectionStep, Authenticate, Reject, CheckOnline, CountSockets, WriteSocket, FindOnConnect,
       FinishRegister, AddOnline, StoreOnline, AnnounceOnline, StoreActivity, AddConnections
<1>3. ASSUME NEW s \in Sockets, DisconnectStep(s) PROVE faults = 0
  BY <1>0, <1>3 DEF DisconnectStep, GetUser, RemoveSocket, DeleteMapping, CountRemaining, RemoveOnline,
       FindOnDisconnect, StoreOffline, DropConnection, AnnounceOffline, StoreActivity, AddConnections
<1>4. ASSUME NEW s \in Sockets, ConnectionFault(s) \/ DisconnectFault(s) PROVE FALSE
  BY <1>0, <1>4 DEF ConnectionFault, DisconnectFault
<1>5. ASSUME NEW t \in Toggles, SetHidden(t) \/ StatusStep(t) PROVE faults = 0
  BY <1>5 DEF SetHidden, StatusStep, UpsertHidden, ReadStatus, AnnounceStatus
<1>6. ASSUME NEW t \in Toggles, StatusFault(t) PROVE FALSE
  BY <1>0, <1>6 DEF StatusFault
<1>7. ~Crash
  BY <1>0 DEF Crash
<1>8. Finished \/ UNCHANGED vars => faults = 0
  BY DEF Finished, vars
<1> QED BY <1>1, <1>2, <1>3, <1>4, <1>5, <1>6, <1>7, <1>8 DEF Next

\* A step leaves the other sockets alone, moves s onward, and lets at most u overlap.
Others(s) == \A x \in Sockets \ {s} : conn'[x] = conn[x] /\ cpc'[x] = cpc[x] /\ dpc'[x] = dpc[x]
Onward(s) ==
  /\ conn[s] # "new" => conn'[s] # "new"
  /\ conn[s] = "closed" => conn'[s] = "closed"
  /\ conn[s] = "closed" /\ dpc[s] \notin StillOn => dpc'[s] \notin StillOn
  /\ cpc[s] \notin BeforeWrite => cpc'[s] \notin BeforeWrite
Notes(u) == overlapped' \in {overlapped, overlapped \union {u}}

\* A step without a failure moves one socket onward, and at most its user overlaps.
LEMMA OneMoves ==
  ASSUME TypeOK, Lifecycle, [Next]_vars, faults' = 0
  PROVE  \/ /\ UNCHANGED <<conn, cpc, dpc>>
            /\ overlapped' = overlapped \/ \E u \in Users : Notes(u)
         \/ \E s \in Sockets : /\ Others(s) /\ Notes(UserOf[s])
                               /\ Onward(s) \/ UserOf[s] \in overlapped'
<1> USE MaxFaultsAssumption, UserOfAssumption DEF TypeOK, procVars, histVars, Notes
<1>0. faults \in Nat /\ ~Fault
  BY DEF Fault
<1>1. ASSUME NEW s \in Sockets, Connect(s) \/ Close(s) \/ ConnectionStep(s) \/ DisconnectStep(s)
      PROVE  Others(s) /\ Notes(UserOf[s]) /\ (Onward(s) \/ UserOf[s] \in overlapped')
  <2>1. CASE Connect(s)
    BY <2>1 DEF Connect, NoteOverlap, GoC, Others, Onward, BeforeWrite, StillOn, Lifecycle, SocketLife
  <2>2. CASE Close(s)
    BY <2>2 DEF Close, CloseSocket, NoteOverlap, GoD, Others, Onward, BeforeWrite, StillOn
  <2>3. CASE ConnectionStep(s)
    <3>1. CASE Reject(s)
      <4>1. cpc[s] = "auth" /\ s \notin authed
        BY <3>1 DEF Reject, Lifecycle, SocketLife
      <4> QED BY <3>1, <4>1 DEF Reject, CloseSocket, GoC, GoD, Others, Onward, BeforeWrite, StillOn
    <3>2. CASE Authenticate(s) \/ CheckOnline(s) \/ CountSockets(s) \/ WriteSocket(s) \/ FindOnConnect(s)
      BY <3>2 DEF Authenticate, CheckOnline, CountSockets, WriteSocket, FindOnConnect, AfterFind, RegisterWrites,
           GoC, Others, Onward, BeforeWrite, StillOn
    <3>3. CASE FinishRegister(s) \/ AddOnline(s) \/ StoreOnline(s) \/ AnnounceOnline(s)
      BY <3>3 DEF FinishRegister, Greet, AddOnline, StoreOnline, AnnounceOnline,
           GoC, Others, Onward, BeforeWrite, StillOn
    <3> QED BY <2>3, <3>1, <3>2, <3>3 DEF ConnectionStep
  <2>4. CASE DisconnectStep(s)
    <3>1. CASE GetUser(s) \/ RemoveSocket(s) \/ DeleteMapping(s) \/ CountRemaining(s)
      BY <3>1 DEF GetUser, RemoveSocket, DeleteMapping, CountRemaining, GoD, Others, Onward, StillOn
    <3>2. CASE RemoveOnline(s) \/ FindOnDisconnect(s) \/ StoreOffline(s)
      BY <3>2 DEF RemoveOnline, FindOnDisconnect, AfterFind, StoreOffline, GoD, Others, Onward, StillOn
    <3>3. CASE DropConnection(s) \/ AnnounceOffline(s)
      BY <3>3 DEF DropConnection, AnnounceOffline, GoD, Others, Onward, StillOn
    <3> QED BY <2>4, <3>1, <3>2, <3>3 DEF DisconnectStep
  <2> QED BY <1>1, <2>1, <2>2, <2>3, <2>4
<1>2. ASSUME NEW s \in Sockets, ConnectionFault(s) \/ DisconnectFault(s) PROVE FALSE
  BY <1>0, <1>2 DEF ConnectionFault, DisconnectFault
<1>3. ASSUME NEW t \in Toggles, SetHidden(t)
      PROVE UNCHANGED <<conn, cpc, dpc>> /\ \E u \in Users : Notes(u)
  BY <1>3 DEF SetHidden, NoteOverlap
<1>4. ASSUME NEW t \in Toggles, StatusStep(t) \/ StatusFault(t)
      PROVE UNCHANGED <<conn, cpc, dpc, overlapped>>
  BY <1>0, <1>4 DEF StatusStep, UpsertHidden, ReadStatus, AnnounceStatus, StatusFault
<1>5. ~Crash
  BY <1>0 DEF Crash
<1>6. Finished \/ UNCHANGED vars => UNCHANGED <<conn, cpc, dpc, overlapped>>
  BY DEF Finished, vars
<1> QED BY <1>1, <1>2, <1>3, <1>4, <1>5, <1>6 DEF Next

\* PlaceOf and OnlineMeans, before and after a step.
Means ==
  /\ \A s \in Sockets : Sequential(UserOf[s]) =>
       /\ Place(s) \in {"new", "on", "off"}
       /\ Place(s) = "on" <=> IsOn(s)
       /\ Place(s) = "new" <=> conn[s] # "closed" /\ cpc[s] \in BeforeWrite
  /\ TypeOK /\ Lifecycle =>
       \A u \in Users : Staged(u) => (u \in online <=> \E s \in SocketsOf(u) : IsOn(s))

\* Both are facts of every state,
LEMMA MeansHolds == Means
BY PlaceOf, OnlineMeans DEF Means

\* and so of the state after a step.
LEMMA MeansNext == Means'
BY MeansHolds, PTL

\* The records of a trusted user are at the stage of the handler that runs.
Trusts == \A u \in Users : Sequential(u) => Staged(u)

\* A step of the gateway is a step of OnlineStatus: a failure loses all users, an
\* overlap one, and any other step moves at most one device, whose user's status
\* follows by OnlineMeans.
LEMMA PromiseStep ==
  ASSUME TypeOK, Lifecycle, Trusts, TypeOK', Lifecycle', Trusts', [Next]_vars
  PROVE  [Promise!Next]_(Promise!status)
<1> DEFINE device == [s \in Sockets |-> Place(s)]
           up == {u \in online : Sequential(u)}
           trusted == {u \in Users : Sequential(u)}
<1> USE UserOfAssumption
<1>0. \A s \in Sockets : UserOf[s] \in Users
  OBVIOUS
<1>a. Means /\ Means'
  BY MeansHolds, MeansNext
<1>1. ASSUME NEW us \in SUBSET trusted,
             \A u \in Users : Sequential(u)' <=> Sequential(u) /\ u \notin us,
             \A s \in Sockets : Sequential(UserOf[s])' => Place(s)' = Place(s)
      PROVE  Promise!Next
  <2>1. trusted' = trusted \ us
    BY <1>1
  <2>2. \A s \in Sockets : Place(s)' = IF UserOf[s] \in us THEN "off" ELSE Place(s)
    <3> SUFFICES ASSUME NEW s \in Sockets
                 PROVE  Place(s)' = IF UserOf[s] \in us THEN "off" ELSE Place(s)
      OBVIOUS
    <3>1. CASE Sequential(UserOf[s])'
      BY <1>0, <1>1, <3>1
    <3>2. CASE ~Sequential(UserOf[s])'
      <4>1. Place(s)' = "off"
        BY <3>2 DEF Place
      <4>2. UserOf[s] \notin us => ~Sequential(UserOf[s])
        BY <1>0, <1>1, <3>2
      <4>3. UserOf[s] \notin us => Place(s) = "off"
        BY <4>2 DEF Place
      <4> QED BY <4>1, <4>3
    <3> QED BY <3>1, <3>2
  <2>3. device' = [s \in Sockets |-> IF UserOf[s] \in us THEN "off" ELSE device[s]]
    BY <2>2
  <2>4. up' = up \ us
    <3>1. ASSUME NEW u \in Users, Sequential(u)' PROVE u \in online' <=> u \in online
      <4>1. Sequential(u) /\ Staged(u) /\ Staged(u)'
        BY <1>1, <3>1 DEF Trusts
      <4>2. \A s \in SocketsOf(u) : IsOn(s)' <=> IsOn(s)
        <5> SUFFICES ASSUME NEW s \in Sockets, UserOf[s] = u PROVE IsOn(s)' <=> IsOn(s)
          BY DEF SocketsOf
        <5>1. Place(s) = "on" <=> IsOn(s)
          BY <1>a, <4>1 DEF Means
        <5>2. Place(s)' = "on" <=> IsOn(s)'
          BY <1>a, <3>1 DEF Means
        <5> QED BY <1>1, <3>1, <5>1, <5>2
      <4>3. u \in online <=> \E s \in SocketsOf(u) : IsOn(s)
        BY <1>a, <4>1 DEF Means
      <4>4. u \in online' <=> \E s \in SocketsOf(u)' : IsOn(s)'
        BY <1>a, <4>1 DEF Means
      <4> QED BY <4>2, <4>3, <4>4 DEF SocketsOf
    <3>2. online \subseteq Users /\ online' \subseteq Users
      BY DEF TypeOK
    <3> QED BY <1>1, <3>1, <3>2
  <2>5. Promise!Lose(us)
    BY <2>1, <2>3, <2>4 DEF Promise!Lose
  <2> QED BY <2>5 DEF Promise!Next
<1>b. ASSUME \A u \in Users : Sequential(u)' <=> Sequential(u),
             \A s \in Sockets : Place(s)' = Place(s)
      PROVE  Promise!Next
  <2>1. {} \in SUBSET trusted
    OBVIOUS
  <2>2. \A u \in Users : Sequential(u)' <=> Sequential(u) /\ u \notin {}
    BY <1>b
  <2>3. \A s \in Sockets : Sequential(UserOf[s])' => Place(s)' = Place(s)
    BY <1>b
  <2> HIDE DEF trusted
  <2> QED BY <1>1, <2>1, <2>2, <2>3
<1>2. CASE faults' # 0
  <2>1. \A u \in Users : ~Sequential(u)'
    BY <1>2 DEF Sequential
  <2> QED BY <1>0, <1>1, <2>1
<1>3. ASSUME faults' = 0, NEW u \in Users, Notes(u), overlapped' # overlapped,
             \A s \in Sockets : UserOf[s] # u => conn'[s] = conn[s] /\ cpc'[s] = cpc[s] /\ dpc'[s] = dpc[s]
      PROVE  Promise!Next
  <2>1. faults = 0
    BY <1>3, FaultsStay
  <2>2. u \in trusted /\ \A v \in Users : Sequential(v)' <=> Sequential(v) /\ v \notin {u}
    BY <1>3, <2>1 DEF Notes, Sequential
  <2>3. \A s \in Sockets : Sequential(UserOf[s])' => Place(s)' = Place(s)
    BY <1>0, <1>3, <2>2 DEF Place
  <2> QED BY <1>1, <2>2, <2>3
<1>4. ASSUME faults' = 0, overlapped' = overlapped, UNCHANGED <<conn, cpc, dpc>>
      PROVE  Promise!Next
  <2>1. faults = 0
    BY <1>4, FaultsStay
  <2>2. \A v \in Users : Sequential(v)' <=> Sequential(v)
    BY <1>4, <2>1 DEF Sequential
  <2>3. \A s \in Sockets : Place(s)' = Place(s)
    BY <1>0, <1>4, <2>2 DEF Place
  <2> QED BY <1>b, <2>2, <2>3
<1>5. ASSUME faults' = 0, overlapped' = overlapped, NEW s \in Sockets, Others(s),
             Onward(s) \/ UserOf[s] \in overlapped'
      PROVE  Promise!Next
  <2> DEFINE u == UserOf[s]
  <2>1. faults = 0
    BY <1>5, FaultsStay
  <2>2. \A v \in Users : Sequential(v)' <=> Sequential(v)
    BY <1>5, <2>1 DEF Sequential
  <2>3. \A x \in Sockets \ {s} : Place(x)' = Place(x)
    BY <1>0, <1>5, <2>2 DEF Place, Others
  <2>4. CASE Place(s)' = Place(s)
    BY <1>b, <2>2, <2>3, <2>4
  <2>5. CASE Place(s)' # Place(s)
    <3>1. Sequential(u) /\ Sequential(u)' /\ u \in Users /\ Staged(u) /\ Staged(u)'
      BY <1>0, <2>2, <2>5 DEF Place, Trusts
    <3>2. u \notin overlapped'
      BY <3>1 DEF Sequential
    <3>3. Onward(s)
      BY <1>5, <3>2
    <3>4. /\ Place(s) \in {"new", "on", "off"} /\ (Place(s) = "on" <=> IsOn(s))
          /\ (Place(s) = "new" <=> conn[s] # "closed" /\ cpc[s] \in BeforeWrite)
      BY <1>a, <3>1 DEF Means
    <3>5. /\ Place(s)' \in {"new", "on", "off"} /\ (Place(s)' = "on" <=> IsOn(s)')
          /\ (Place(s)' = "new" <=> conn'[s] # "closed" /\ cpc'[s] \in BeforeWrite)
      BY <1>a, <3>1 DEF Means
    <3>6. Place(s) = "off" => conn[s] = "closed" /\ dpc[s] \notin StillOn
      BY <3>4 DEF IsOn
    <3>7. \/ Place(s) = "new" /\ Place(s)' \in {"on", "off"}
          \/ Place(s) = "on" /\ Place(s)' = "off"
      BY <2>5, <3>3, <3>4, <3>5, <3>6 DEF Onward, IsOn
    <3>8. trusted' = trusted /\ device' = [device EXCEPT ![s] = Place(s)'] /\ device[s] = Place(s)
      BY <2>2, <2>3
    <3>9. \A v \in Users : Sequential(v) => /\ v \in online <=> \E x \in SocketsOf(v) : Place(x) = "on"
                                            /\ v \in online' <=> \E x \in SocketsOf(v) : Place(x)' = "on"
      <4> SUFFICES ASSUME NEW v \in Users, Sequential(v)
                   PROVE  /\ v \in online <=> \E x \in SocketsOf(v) : Place(x) = "on"
                          /\ v \in online' <=> \E x \in SocketsOf(v) : Place(x)' = "on"
        OBVIOUS
      <4>1. Sequential(v)' /\ Staged(v) /\ Staged(v)'
        BY <2>2 DEF Trusts
      <4>2. \A x \in SocketsOf(v) : (Place(x) = "on" <=> IsOn(x)) /\ (Place(x)' = "on" <=> IsOn(x)')
        <5> SUFFICES ASSUME NEW x \in Sockets, UserOf[x] = v
                     PROVE (Place(x) = "on" <=> IsOn(x)) /\ (Place(x)' = "on" <=> IsOn(x)')
          BY DEF SocketsOf
        <5>1. Place(x) = "on" <=> IsOn(x)
          BY <1>a DEF Means
        <5>2. Place(x)' = "on" <=> IsOn(x)'
          BY <1>a, <4>1 DEF Means
        <5> QED BY <5>1, <5>2
      <4>3. v \in online <=> \E x \in SocketsOf(v) : IsOn(x)
        BY <1>a, <4>1 DEF Means
      <4>4. v \in online' <=> \E x \in SocketsOf(v)' : IsOn(x)'
        BY <1>a, <4>1 DEF Means
      <4>5. SocketsOf(v)' = SocketsOf(v)
        BY DEF SocketsOf
      <4> QED BY <4>2, <4>3, <4>4, <4>5
    <3>10. \A v \in Users \ {u} : Sequential(v) => (v \in online' <=> v \in online)
      <4> SUFFICES ASSUME NEW v \in Users \ {u}, Sequential(v) PROVE v \in online' <=> v \in online
        OBVIOUS
      <4>1. \A x \in SocketsOf(v) : Place(x)' = Place(x)
        BY <2>3 DEF SocketsOf
      <4> QED BY <3>9, <4>1
    <3>11. online \subseteq Users /\ online' \subseteq Users /\ s \in SocketsOf(u)
      BY DEF TypeOK, SocketsOf
    <3>12. \A x \in SocketsOf(u) \ {s} : Place(x)' = Place(x)
      BY <2>3 DEF SocketsOf
    <3>13. u \in trusted
      BY <3>1
    <3>14. CASE Place(s) = "new" /\ Place(s)' = "on"
      <4>1. u \in online'
        BY <3>1, <3>9, <3>11, <3>14
      <4>2. up' = up \union {u}
        BY <2>2, <3>1, <3>10, <3>11, <4>1
      <4>3. Promise!Attach(s)
        BY <3>8, <3>13, <3>14, <4>2 DEF Promise!Attach
      <4> QED BY <4>3 DEF Promise!Next
    <3>15. CASE Place(s) = "new" /\ Place(s)' = "off"
      <4>1. u \in online' <=> u \in online
        BY <3>1, <3>9, <3>12, <3>15
      <4>2. up' = up
        BY <2>2, <3>10, <3>11, <4>1
      <4>3. Promise!Refuse(s)
        BY <3>8, <3>13, <3>15, <4>2 DEF Promise!Refuse
      <4> QED BY <4>3 DEF Promise!Next
    <3>16. CASE Place(s) = "on" /\ Place(s)' = "off"
      <4> DEFINE On == {d \in Sockets : UserOf[d] = u /\ device[d] = "on"}
      <4>1. On = {x \in SocketsOf(u) : Place(x) = "on"}
        BY DEF SocketsOf
      <4>2. u \in online /\ s \in On
        BY <3>1, <3>9, <3>11, <3>16, <4>1
      <4>3. u \in online' <=> On # {s}
        <5>1. u \in online' <=> \E x \in SocketsOf(u) : Place(x)' = "on"
          BY <3>1, <3>9
        <5>2. (\E x \in SocketsOf(u) : Place(x)' = "on") <=> \E x \in SocketsOf(u) \ {s} : Place(x) = "on"
          BY <3>12, <3>16
        <5>3. (\E x \in SocketsOf(u) \ {s} : Place(x) = "on") <=> On # {s}
          BY <4>1, <4>2
        <5> QED BY <5>1, <5>2, <5>3
      <4> HIDE DEF On
      <4>4. up' = IF On = {s} THEN up \ {u} ELSE up
        <5>1. CASE On = {s}
          BY <2>2, <3>10, <3>11, <4>3, <5>1
        <5>2. CASE On # {s}
          BY <2>2, <3>10, <3>11, <4>2, <4>3, <5>2
        <5> QED BY <5>1, <5>2
      <4>5. Promise!On(u) = On
        BY DEF Promise!On, On
      <4>6. Promise!Detach(s)
        BY <3>8, <3>13, <3>16, <4>4, <4>5 DEF Promise!Detach
      <4> QED BY <4>6 DEF Promise!Next
    <3> QED BY <3>7, <3>14, <3>15, <3>16
  <2> QED BY <2>4, <2>5
<1>6. CASE faults' = 0
  <2>1. CASE overlapped' = overlapped
    BY <1>4, <1>5, <1>6, <2>1, OneMoves
  <2>2. CASE overlapped' # overlapped
    <3>1. CASE UNCHANGED <<conn, cpc, dpc>> /\ \E u \in Users : Notes(u)
      BY <1>3, <1>6, <2>2, <3>1
    <3>2. CASE \E s \in Sockets : Others(s) /\ Notes(UserOf[s])
      BY <1>0, <1>3, <1>6, <2>2, <3>2 DEF Others
    <3> QED BY <1>6, <2>2, <3>1, <3>2, OneMoves
  <2> QED BY <2>1, <2>2
<1> QED BY <1>2, <1>6

\* For any users, devices, messages and failures the gateway implements
\* OnlineStatus (registerSocket, unregisterSocket, setUserOnline, setUserOffline).
THEOREM PromiseKept == Spec => KeepsPromise
<1>1. Init => Inv /\ Trusts
  BY InitInv, StagedInit DEF Trusts
<1>2. (Inv /\ Trusts) /\ [Next]_vars => (Inv /\ Trusts)'
  <2>1. Inv /\ [Next]_vars => Inv'
    BY NextType, LifecycleStep, IndexedStep, GhostStep, ZombieStep, StaleStep, RacedStep DEF Inv
  <2>2. Inv /\ Trusts /\ [Next]_vars => Trusts'
    BY StagedStep DEF Inv, Trusts
  <2> QED BY <2>1, <2>2
<1>3. Init => Promise!Init
  <2> SUFFICES ASSUME Init PROVE Promise!Init
    OBVIOUS
  <2>1. \A u \in Users : Sequential(u)
    BY DEF Init, Sequential
  <2>2. \A s \in Sockets : Place(s) = "new"
    BY <2>1, UserOfAssumption DEF Init, Place, BeforeWrite
  <2> QED BY <2>1, <2>2 DEF Init, Promise!Init
<1>4. (Inv /\ Trusts) /\ (Inv /\ Trusts)' /\ [Next]_vars => [Promise!Next]_(Promise!status)
  BY PromiseStep DEF Inv
<1> QED BY <1>1, <1>2, <1>3, <1>4, PTL DEF Spec, KeepsPromise, Promise!Spec
====
