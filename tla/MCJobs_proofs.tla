---------------------------- MODULE MCJobs_proofs ----------------------------
(***************************************************************************)
(* Proofs about what goes on in the background.  Each component has an     *)
(* inductive invariant of its own; a step of the whole is a step of each   *)
(* component or leaves it as it was, so that the invariants hold together. *)
(***************************************************************************)
EXTENDS MCJobs, FiniteSetTheorems, TLAPS

allVars == <<focus, vars, storyVars, deviceVars, scheduleVars>>

\* A step of the whole is a step of the one component and a stutter of the others.
LEMMA StepOfOne ==
  ASSUME [MCNext]_allVars
  PROVE  [Next]_vars /\ [Sto!Next]_storyVars /\ [Dev!Next]_deviceVars /\ [Sch!Next]_scheduleVars
  BY DEF MCNext, allVars

\* What a sequence holds is its head and what its tail holds.
LEMMA HeadAndTail ==
  ASSUME NEW S, NEW q \in Seq(S), q # <<>>
  PROVE  /\ Head(q) \in S /\ Tail(q) \in Seq(S) /\ Len(q) > 0
         /\ Len(q) # 1 => Tail(q) # <<>>
         /\ \A i \in 1..Len(q) : q[i] = Head(q) \/ \E k \in 1..Len(Tail(q)) : q[i] = Tail(q)[k]
         /\ Len(q) = 1 => \A i \in 1..Len(q) : q[i] = Head(q)
<1>1. Len(q) \in Nat /\ Len(q) > 0 /\ Head(q) = q[1] /\ Head(q) \in S /\ Tail(q) \in Seq(S)
  OBVIOUS
<1>2. Len(Tail(q)) = Len(q) - 1 /\ \A k \in 1..Len(q) - 1 : Tail(q)[k] = q[k + 1]
  BY <1>1
<1>3. ASSUME NEW i \in 1..Len(q), i # 1 PROVE \E k \in 1..Len(Tail(q)) : q[i] = Tail(q)[k]
  <2>1. i - 1 \in 1..Len(Tail(q)) /\ q[i] = Tail(q)[i - 1]
    BY <1>1, <1>2, <1>3
  <2> QED BY <2>1
<1>4. ASSUME NEW i \in 1..Len(q) PROVE q[i] = Head(q) \/ \E k \in 1..Len(Tail(q)) : q[i] = Tail(q)[k]
  BY <1>1, <1>3
<1>5. Len(q) = 1 => \A i \in 1..Len(q) : q[i] = Head(q)
  BY <1>1
<1>6. Len(q) # 1 => Tail(q) # <<>>
  <2>1. Len(q) # 1 => Len(Tail(q)) # 0
    BY <1>1, <1>2
  <2> QED BY <2>1
<1> QED BY <1>1, <1>4, <1>5, <1>6

-----------------------------------------------------------------------------
\* The recurring jobs: a start that still removes has all of them to add, and
\* one that adds has some left.
ScheduleInv ==
  /\ repeatable \subseteq Sch!Jobs /\ gap \subseteq Sch!Jobs
  /\ starting \in [Servers -> [at : {"idle", "remove", "add"}, remove : SUBSET Sch!Jobs, add : Seq(Sch!Jobs)]]
  /\ \A s \in Servers : /\ starting[s].at = "remove" => starting[s].add = Recurring
                        /\ starting[s].at = "add" => starting[s].add # <<>>
  /\ Sch!ScheduleExplained

\* Before the first start nothing is removed or added.
LEMMA ScheduleInit == Sch!Init => ScheduleInv
<1> SUFFICES ASSUME Sch!Init PROVE ScheduleInv
  OBVIOUS
<1>1. <<>> \in Seq(Sch!Jobs)
  OBVIOUS
<1> QED BY <1>1 DEF Sch!Init, ScheduleInv, Sch!Idle, Sch!ScheduleExplained

\* The same when one server's start moves on, and its jobs are owed as before
\* but for those that are there now, or in the gap.
LEMMA StartMoves ==
  ASSUME ScheduleInv, NEW s \in Servers,
         NEW to \in [at : {"idle", "remove", "add"}, remove : SUBSET Sch!Jobs, add : Seq(Sch!Jobs)],
         to.at = "remove" => to.add = Recurring, to.at = "add" => to.add # <<>>,
         Sch!GoTo(s, to), repeatable' \subseteq Sch!Jobs, gap' \subseteq Sch!Jobs,
         \A j \in Sch!Jobs \ repeatable' :
           (j \in gap \/ j \in Sch!Owed(s) \/ j \in repeatable) => (j \in gap' \/ j \in Sch!Owed(s)'),
         \A j \in Sch!Jobs : j \in gap => j \in gap' \/ j \in repeatable'
  PROVE  ScheduleInv'
<1>1. starting' = [starting EXCEPT ![s] = to]
  BY DEF Sch!GoTo
<1>2. \A r \in Servers \ {s} : starting'[r] = starting[r] /\ Sch!Owed(r)' = Sch!Owed(r)
  BY <1>1 DEF ScheduleInv, Sch!Owed
<1>3. starting'[s] = to
  BY <1>1 DEF ScheduleInv
<1>4. starting' \in [Servers -> [at : {"idle", "remove", "add"}, remove : SUBSET Sch!Jobs, add : Seq(Sch!Jobs)]]
  BY <1>1 DEF ScheduleInv
<1>5. \A r \in Servers : /\ starting'[r].at = "remove" => starting'[r].add = Recurring
                         /\ starting'[r].at = "add" => starting'[r].add # <<>>
  BY <1>2, <1>3 DEF ScheduleInv
<1>6. Sch!ScheduleExplained'
  <2> SUFFICES ASSUME NEW j \in Sch!Jobs, j \notin repeatable'
               PROVE  j \in gap' \/ \E r \in Servers : j \in Sch!Owed(r)'
    BY DEF Sch!ScheduleExplained, Sch!Jobs
  <2>1. CASE j \in repeatable \/ j \in gap \/ j \in Sch!Owed(s)
    BY <2>1
  <2>2. CASE j \notin repeatable /\ j \notin gap /\ j \notin Sch!Owed(s)
    <3>1. PICK r \in Servers : j \in Sch!Owed(r)
      BY <2>2 DEF ScheduleInv, Sch!ScheduleExplained
    <3> QED BY <3>1, <2>2, <1>2
  <2> QED BY <2>1, <2>2
<1> QED BY <1>4, <1>5, <1>6 DEF ScheduleInv, Sch!Jobs

\* What a start removes, adds or leaves behind when it fails keeps the invariant.
LEMMA ScheduleStep ==
  ASSUME ScheduleInv, [Sch!Next]_scheduleVars
  PROVE  ScheduleInv'
<1>1. CASE UNCHANGED scheduleVars
  <2>1. UNCHANGED <<repeatable, gap, starting>>
    BY <1>1 DEF scheduleVars
  <2>2. \A s \in Servers : Sch!Owed(s)' = Sch!Owed(s)
    BY <2>1 DEF Sch!Owed
  <2>3. Sch!ScheduleExplained'
    BY <2>1, <2>2 DEF ScheduleInv, Sch!ScheduleExplained, Sch!Jobs
  <2> QED BY <2>1, <2>3 DEF ScheduleInv, Sch!Jobs
<1>2. ASSUME NEW s \in Servers, Sch!GetRepeatableJobs(s) PROVE ScheduleInv'
  <2> DEFINE to == [at |-> IF repeatable = {} THEN "add" ELSE "remove", remove |-> repeatable, add |-> Recurring]
  <2>1. /\ Sch!GoTo(s, to) /\ UNCHANGED <<repeatable, gap>> /\ starting[s] = Sch!Idle
    BY <1>2 DEF Sch!GetRepeatableJobs
  <2>2. to \in [at : {"idle", "remove", "add"}, remove : SUBSET Sch!Jobs, add : Seq(Sch!Jobs)]
    BY RecurringAssumption DEF ScheduleInv
  <2>3. Sch!Owed(s) = {}
    BY <2>1 DEF Sch!Owed, Sch!Idle
  <2> QED BY <2>1, <2>2, <2>3, StartMoves, RecurringAssumption DEF ScheduleInv
<1>3. ASSUME NEW s \in Servers, Sch!RemoveRepeatable(s) PROVE ScheduleInv'
  <2>1. PICK j \in starting[s].remove :
          /\ repeatable' = repeatable \ {j}
          /\ Sch!GoTo(s, [starting[s] EXCEPT !.remove = @ \ {j},
                                             !.at = IF starting[s].remove = {j} THEN "add" ELSE "remove"])
    BY <1>3 DEF Sch!RemoveRepeatable
  <2> DEFINE to == [starting[s] EXCEPT !.remove = @ \ {j},
                                       !.at = IF starting[s].remove = {j} THEN "add" ELSE "remove"]
  <2>2. /\ starting[s] \in [at : {"idle", "remove", "add"}, remove : SUBSET Sch!Jobs, add : Seq(Sch!Jobs)]
        /\ starting[s].add = Recurring /\ UNCHANGED gap
    BY <1>3 DEF ScheduleInv, Sch!RemoveRepeatable
  <2>4. Sch!GoTo(s, to)
    BY <2>1
  <2>5. /\ to \in [at : {"idle", "remove", "add"}, remove : SUBSET Sch!Jobs, add : Seq(Sch!Jobs)]
        /\ to.add = Recurring
    BY <2>2
  <2> HIDE DEF to
  <2>6. starting'[s].add = Recurring
    BY <2>4, <2>5 DEF Sch!GoTo, ScheduleInv
  <2>7. Sch!Owed(s)' = Sch!Jobs
    BY <2>6 DEF Sch!Owed, Sch!Jobs
  <2> QED BY <2>1, <2>2, <2>4, <2>5, <2>7, StartMoves, RecurringAssumption DEF ScheduleInv
<1>4. ASSUME NEW s \in Servers, Sch!Add(s) PROVE ScheduleInv'
  <2> DEFINE q == starting[s].add
             j == Head(q)
             to == IF Len(q) = 1 THEN Sch!Idle
                   ELSE [at |-> "add", remove |-> starting[s].remove, add |-> Tail(q)]
  <2>1. /\ starting[s] \in [at : {"idle", "remove", "add"}, remove : SUBSET Sch!Jobs, add : Seq(Sch!Jobs)]
        /\ starting[s].at = "add" /\ q \in Seq(Sch!Jobs) /\ q # <<>>
    BY <1>4 DEF ScheduleInv, Sch!Add
  <2>2. /\ j \in Sch!Jobs /\ Tail(q) \in Seq(Sch!Jobs) /\ Len(q) > 0
        /\ Len(q) # 1 => Tail(q) # <<>>
        /\ \A i \in 1..Len(q) : q[i] = j \/ \E k \in 1..Len(Tail(q)) : q[i] = Tail(q)[k]
        /\ Len(q) = 1 => \A i \in 1..Len(q) : q[i] = j
    BY <2>1, HeadAndTail
  <2>3. repeatable' = repeatable \union {j} /\ gap' = gap \ {j}
    BY <1>4 DEF Sch!Add
  <2>4. Sch!GoTo(s, to)
    <3>1. Sch!GoTo(s, IF Len(q) = 1 THEN Sch!Idle ELSE [starting[s] EXCEPT !.add = Tail(@)])
      BY <1>4 DEF Sch!Add
    <3>2. [starting[s] EXCEPT !.add = Tail(@)] = [at |-> "add", remove |-> starting[s].remove, add |-> Tail(q)]
      BY <2>1
    <3> QED BY <3>1, <3>2
  <2>5. to \in [at : {"idle", "remove", "add"}, remove : SUBSET Sch!Jobs, add : Seq(Sch!Jobs)]
    <3>1. <<>> \in Seq(Sch!Jobs)
      OBVIOUS
    <3> QED BY <3>1, <2>1, <2>2 DEF Sch!Idle
  <2>6. starting'[s] = to
    BY <2>4 DEF Sch!GoTo, ScheduleInv
  <2>7. ASSUME NEW i \in Sch!Owed(s) PROVE i = j \/ i \in Sch!Owed(s)'
    <3>1. PICK k \in 1..Len(q) : i = q[k]
      BY <2>7 DEF Sch!Owed
    <3>2. CASE Len(q) = 1
      BY <3>1, <3>2, <2>2
    <3>3. CASE Len(q) # 1
      <4>1. starting'[s].add = Tail(q)
        BY <2>6, <3>3
      <4> QED BY <3>1, <4>1, <2>2 DEF Sch!Owed
    <3> QED BY <3>2, <3>3
  <2>8. to.at = "remove" => to.add = Recurring
    BY DEF Sch!Idle
  <2>9. to.at = "add" => to.add # <<>>
    BY <2>2 DEF Sch!Idle
  <2> HIDE DEF to
  <2> QED BY <2>2, <2>3, <2>4, <2>5, <2>7, <2>8, <2>9, StartMoves DEF ScheduleInv
<1>5. ASSUME NEW s \in Servers, Sch!Fail(s) PROVE ScheduleInv'
  <2>1. Sch!GoTo(s, Sch!Idle) /\ gap' = gap \union Sch!Owed(s) /\ UNCHANGED repeatable
    BY <1>5 DEF Sch!Fail
  <2>2. Sch!Idle \in [at : {"idle", "remove", "add"}, remove : SUBSET Sch!Jobs, add : Seq(Sch!Jobs)]
    <3>1. <<>> \in Seq(Sch!Jobs)
      OBVIOUS
    <3> QED BY <3>1 DEF Sch!Idle
  <2>3. Sch!Owed(s) \subseteq Sch!Jobs
    BY DEF ScheduleInv, Sch!Owed
  <2>4. Sch!Idle.at = "idle"
    BY DEF Sch!Idle
  <2> QED BY <2>1, <2>2, <2>3, <2>4, StartMoves DEF ScheduleInv
<1> QED BY <1>1, <1>2, <1>3, <1>4, <1>5 DEF Sch!Next, Sch!Running, scheduleVars, Sch!scheduleVars

\* Overlapping starts of servers undo each other's work, but not for good: a
\* recurring job is missing only while a server has it to add, or since a start
\* was cut off.
THEOREM ScheduleInvariant == MCSpec => []ScheduleInv
<1>1. MCInit => ScheduleInv
  BY ScheduleInit DEF MCInit
<1>2. ScheduleInv /\ [MCNext]_allVars => ScheduleInv'
  BY ScheduleStep, StepOfOne
<1> QED BY <1>1, <1>2, PTL DEF MCSpec, allVars

-----------------------------------------------------------------------------
\* Tokens of devices.  Where requests stand:
DeviceRows == Holders \X Tokens
DeviceIds == {{}} \union {{d} : d \in Phones}
DeviceRequests ==
  [at : {"idle", "findOther", "deactivate", "sameDevice", "insert", "saveOwn", "sent"},
   row : DeviceRows \union {<<>>}, phone : DeviceIds, other : DeviceRows \union {<<>>}, sent : SUBSET Tokens]

DeviceTypes ==
  /\ known \subseteq DeviceRows /\ activeTokens \subseteq known
  /\ phone \in [DeviceRows -> DeviceIds]
  /\ signing \in [Registers -> DeviceRequests]

\* Two requests for one token, or of one user, are noted as such.
DevicesApart ==
  \A c, d \in Registers :
    c # d /\ signing[c].row # <<>> /\ signing[d].row # <<>> =>
      /\ signing[c].row[2] = signing[d].row[2] => signing[c].row[2] \in shared
      /\ signing[c].row[1] = signing[d].row[1] => signing[c].row[1] \in doubled

\* What a request may count on at each of its steps.
DeviceStage(c) ==
  LET w == signing[c] IN
  /\ w.at \notin {"idle", "sent"} => w.row # <<>>
  /\ w.row # <<>> => w.row \notin signedOff
  /\ w.at = "saveOwn" => w.row \in known
  /\ w.at = "deactivate" /\ w.row[2] \notin shared =>
       \A r \in activeTokens : r[2] = w.row[2] => r = w.other
  /\ w.at \in {"sameDevice", "insert"} /\ w.row[2] \notin shared =>
       \A r \in activeTokens : r[2] # w.row[2]
  /\ w.at = "insert" /\ w.row[1] \notin doubled =>
       \A r \in activeTokens : r[1] = w.row[1] => phone[r] \intersect w.phone = {}

DevicesInv ==
  /\ DeviceTypes
  /\ DevicesApart
  /\ \A c \in Registers : DeviceStage(c)
  /\ Dev!DevicesExplained

\* With no tokens nothing is to be explained.
LEMMA DevicesInit == Dev!Init => DevicesInv
<1> SUFFICES ASSUME Dev!Init PROVE DevicesInv
  OBVIOUS
<1> USE DEF Dev!Init
<1>1. Dev!Idle \in DeviceRequests
  BY DEF Dev!Idle, DeviceRequests, DeviceIds
<1>2. DeviceTypes
  <2>1. phone \in [DeviceRows -> DeviceIds]
    BY DEF DeviceIds, DeviceRows
  <2>2. signing \in [Registers -> DeviceRequests]
    BY <1>1
  <2> QED BY <2>1, <2>2 DEF DeviceTypes
<1>3. DevicesApart
  BY DEF DevicesApart, Dev!Idle
<1>4. \A c \in Registers : DeviceStage(c)
  BY DEF DeviceStage, Dev!Idle
<1> QED BY <1>2, <1>3, <1>4 DEF DevicesInv, Dev!DevicesExplained

\* A request moves, and the others stay where they are.
LEMMA RequestMoves ==
  ASSUME DeviceTypes, NEW c \in Registers, NEW to \in DeviceRequests, Dev!GoTo(c, to)
  PROVE  /\ signing' \in [Registers -> DeviceRequests]
         /\ signing'[c] = to
         /\ \A d \in Registers \ {c} : signing'[d] = signing[d]
  BY DEF DeviceTypes, Dev!GoTo

\* A step by which fewer rows are active, and nobody's history shrinks: what
\* requests other than c may count on stays true.
LEMMA OthersKeepStage ==
  ASSUME DevicesInv, NEW C \in SUBSET Registers,
         \A d \in Registers \ C : signing'[d] = signing[d],
         activeTokens' \subseteq activeTokens, known \subseteq known', UNCHANGED phone,
         shared \subseteq shared', doubled \subseteq doubled',
         \A d \in Registers \ C : signing[d].row # <<>> /\ signing[d].row \notin signedOff => signing[d].row \notin signedOff'
  PROVE  \A d \in Registers \ C : DeviceStage(d)'
<1> SUFFICES ASSUME NEW d \in Registers \ C PROVE DeviceStage(d)'
  OBVIOUS
<1>1. DeviceStage(d) /\ signing'[d] = signing[d]
  BY DEF DevicesInv
<1> QED BY <1>1 DEF DeviceStage

\* And fewer active rows need no other explanation.
LEMMA FewerExplained ==
  ASSUME Dev!DevicesExplained, activeTokens' \subseteq activeTokens, UNCHANGED phone,
         shared \subseteq shared', doubled \subseteq doubled', signedOff' \intersect activeTokens' = {}
  PROVE  Dev!DevicesExplained'
  BY DEF Dev!DevicesExplained

\* A registration looks for the row of its own; what it will write is that row.
LEMMA FindOwnStep ==
  ASSUME DevicesInv, NEW c \in Registers, Dev!FindOwn(c)
  PROVE  DevicesInv'
<1>1. PICK u \in Holders, t \in Tokens, p \in DeviceIds :
        /\ Dev!GoTo(c, [Dev!Idle EXCEPT !.at = IF <<u, t>> \in known THEN "saveOwn" ELSE "findOther",
                                        !.row = <<u, t>>, !.phone = p])
        /\ signedOff' = signedOff \ {<<u, t>>}
        /\ shared' = IF \E d \in Dev!Open(u, t) : signing[d].row[2] = t THEN shared \union {t} ELSE shared
        /\ doubled' = IF \E d \in Dev!Open(u, t) : signing[d].row[1] = u THEN doubled \union {u} ELSE doubled
  BY DEF Dev!FindOwn, DeviceIds
<1> DEFINE to == [Dev!Idle EXCEPT !.at = IF <<u, t>> \in known THEN "saveOwn" ELSE "findOther",
                                   !.row = <<u, t>>, !.phone = p]
<1>2. UNCHANGED <<known, activeTokens, phone>> /\ signing[c] = Dev!Idle /\ Dev!Idle.row = <<>>
  BY DEF Dev!FindOwn, Dev!Idle
<1>3. Dev!GoTo(c, to)
  BY <1>1
<1>4. /\ to \in DeviceRequests /\ to.row = <<u, t>> /\ to.phone = p
      /\ to.at = IF <<u, t>> \in known THEN "saveOwn" ELSE "findOther"
  <2>1. Dev!Idle \in DeviceRequests
    BY DEF Dev!Idle, DeviceRequests, DeviceIds
  <2>2. <<u, t>> \in DeviceRows
    BY DEF DeviceRows
  <2> QED BY <2>1, <2>2 DEF DeviceRequests
<1> HIDE DEF to
<1>5. /\ signing' \in [Registers -> DeviceRequests] /\ signing'[c] = to
      /\ \A d \in Registers \ {c} : signing'[d] = signing[d]
  BY <1>3, <1>4, RequestMoves DEF DevicesInv
<1>6. signing'[c].row = <<u, t>> /\ signing'[c].row[1] = u /\ signing'[c].row[2] = t
  BY <1>4, <1>5
<1>7. DeviceTypes'
  BY <1>2, <1>5 DEF DevicesInv, DeviceTypes
<1>8. ASSUME NEW d \in Registers \ {c}, signing[d].row # <<>>
      PROVE  /\ signing[d].row[2] = t => t \in shared'
             /\ signing[d].row[1] = u => u \in doubled'
  BY <1>1, <1>8 DEF Dev!Open
<1>9. DevicesApart'
  <2>1. shared \subseteq shared' /\ doubled \subseteq doubled'
    BY <1>1
  <2> QED BY <2>1, <1>5, <1>6, <1>8 DEF DevicesInv, DevicesApart
<1>10. \A d \in Registers \ {c} : DeviceStage(d)'
  BY <1>1, <1>2, <1>5, OthersKeepStage DEF DevicesInv
<1>11. DeviceStage(c)'
  BY <1>1, <1>2, <1>4, <1>5 DEF DeviceStage
<1>12. Dev!DevicesExplained'
  <2>1. signedOff' \intersect activeTokens' = {}
    BY <1>1, <1>2 DEF DevicesInv, Dev!DevicesExplained
  <2> QED BY <2>1, <1>1, <1>2, FewerExplained DEF DevicesInv
<1> QED BY <1>7, <1>9, <1>10, <1>11, <1>12 DEF DevicesInv

\* It finds a row with its token; if another one is active too, the token is shared.
LEMMA FindOtherStep ==
  ASSUME DevicesInv, NEW c \in Registers, Dev!FindOther(c)
  PROVE  DevicesInv'
<1> DEFINE w == signing[c]
           t == w.row[2]
<1>1. /\ w \in DeviceRequests /\ w.at = "findOther" /\ w.row \in DeviceRows \ signedOff /\ w.row # <<>>
      /\ UNCHANGED <<known, activeTokens, phone, doubled, signedOff>>
      /\ shared \subseteq shared'
  BY DEF Dev!FindOther, DevicesInv, DeviceTypes, DeviceStage, DeviceRequests
<1>2. CASE /\ \A r \in known : r[2] # t
           /\ Dev!GoTo(c, [w EXCEPT !.at = "sameDevice"]) /\ UNCHANGED shared
  <2> DEFINE to == [w EXCEPT !.at = "sameDevice"]
  <2>1. to \in DeviceRequests /\ to.row = w.row /\ to.at = "sameDevice"
    BY <1>1 DEF DeviceRequests
  <2>2. /\ signing' \in [Registers -> DeviceRequests] /\ signing'[c] = to
        /\ \A d \in Registers \ {c} : signing'[d] = signing[d]
    BY <1>2, <2>1, RequestMoves DEF DevicesInv
  <2> HIDE DEF to
  <2>3. DeviceTypes'
    BY <1>1, <2>2 DEF DevicesInv, DeviceTypes
  <2>4. DevicesApart'
    BY <1>1, <1>2, <2>1, <2>2 DEF DevicesInv, DevicesApart
  <2>5. \A d \in Registers \ {c} : DeviceStage(d)'
    BY <1>1, <1>2, <2>2, OthersKeepStage
  <2>6. DeviceStage(c)'
    BY <1>1, <1>2, <2>1, <2>2 DEF DeviceStage, DevicesInv, DeviceTypes
  <2>7. Dev!DevicesExplained'
    BY <1>1, <1>2, FewerExplained DEF DevicesInv, Dev!DevicesExplained
  <2> QED BY <2>3, <2>4, <2>5, <2>6, <2>7 DEF DevicesInv
<1>3. ASSUME NEW r \in known, r[2] = t,
             Dev!GoTo(c, [w EXCEPT !.at = "deactivate", !.other = r]),
             shared' = IF \E q \in activeTokens \ {r} : q[2] = t THEN shared \union {t} ELSE shared
      PROVE  DevicesInv'
  <2> DEFINE to == [w EXCEPT !.at = "deactivate", !.other = r]
  <2>1. to \in DeviceRequests /\ to.row = w.row /\ to.at = "deactivate" /\ to.other = r
    BY <1>1 DEF DeviceRequests, DevicesInv, DeviceTypes
  <2>2. /\ signing' \in [Registers -> DeviceRequests] /\ signing'[c] = to
        /\ \A d \in Registers \ {c} : signing'[d] = signing[d]
    BY <1>3, <2>1, RequestMoves DEF DevicesInv
  <2> HIDE DEF to
  <2>3. DeviceTypes'
    BY <1>1, <2>2 DEF DevicesInv, DeviceTypes
  <2>4. DevicesApart'
    BY <1>1, <2>1, <2>2 DEF DevicesInv, DevicesApart
  <2>5. \A d \in Registers \ {c} : DeviceStage(d)'
    BY <1>1, <2>2, OthersKeepStage
  <2>6. DeviceStage(c)'
    BY <1>1, <1>3, <2>1, <2>2 DEF DeviceStage
  <2>7. Dev!DevicesExplained'
    BY <1>1, FewerExplained DEF DevicesInv, Dev!DevicesExplained
  <2> QED BY <2>3, <2>4, <2>5, <2>6, <2>7 DEF DevicesInv
<1> QED BY <1>2, <1>3 DEF Dev!FindOther

\* The other row is deactivated: nobody else receives with the token.
LEMMA DeactivateOtherStep ==
  ASSUME DevicesInv, NEW c \in Registers, Dev!DeactivateOther(c)
  PROVE  DevicesInv'
<1> DEFINE w == signing[c]
           to == [w EXCEPT !.at = "sameDevice", !.other = <<>>]
<1>1. /\ w \in DeviceRequests /\ w.at = "deactivate" /\ w.row \in DeviceRows \ signedOff /\ w.row # <<>>
      /\ UNCHANGED <<known, phone, shared, doubled, signedOff>>
      /\ activeTokens' = activeTokens \ {w.other} /\ Dev!GoTo(c, to)
  BY DEF Dev!DeactivateOther, DevicesInv, DeviceTypes, DeviceStage, DeviceRequests
<1>2. to \in DeviceRequests /\ to.row = w.row /\ to.at = "sameDevice"
  BY <1>1 DEF DeviceRequests
<1>3. /\ signing' \in [Registers -> DeviceRequests] /\ signing'[c] = to
      /\ \A d \in Registers \ {c} : signing'[d] = signing[d]
  BY <1>1, <1>2, RequestMoves DEF DevicesInv
<1> HIDE DEF to
<1>4. DeviceTypes'
  BY <1>1, <1>3 DEF DevicesInv, DeviceTypes
<1>5. DevicesApart'
  BY <1>1, <1>2, <1>3 DEF DevicesInv, DevicesApart
<1>6. \A d \in Registers \ {c} : DeviceStage(d)'
  BY <1>1, <1>3, OthersKeepStage
<1>7. DeviceStage(c)'
  BY <1>1, <1>2, <1>3 DEF DeviceStage, DevicesInv
<1>8. Dev!DevicesExplained'
  BY <1>1, FewerExplained DEF DevicesInv, Dev!DevicesExplained
<1> QED BY <1>4, <1>5, <1>6, <1>7, <1>8 DEF DevicesInv

\* The rows of the same device are deactivated: the user has none for it.
LEMMA DeactivateDeviceStep ==
  ASSUME DevicesInv, NEW c \in Registers, Dev!DeactivateDevice(c)
  PROVE  DevicesInv'
<1> DEFINE w == signing[c]
           to == [w EXCEPT !.at = "insert"]
<1>1. /\ w \in DeviceRequests /\ w.at = "sameDevice" /\ w.row \in DeviceRows \ signedOff /\ w.row # <<>>
      /\ UNCHANGED <<known, phone, shared, doubled, signedOff>>
      /\ activeTokens' = {r \in activeTokens : r[1] # w.row[1] \/ phone[r] \intersect w.phone = {}}
      /\ Dev!GoTo(c, to)
  BY DEF Dev!DeactivateDevice, DevicesInv, DeviceTypes, DeviceStage, DeviceRequests
<1>2. to \in DeviceRequests /\ to.row = w.row /\ to.at = "insert" /\ to.phone = w.phone
  BY <1>1 DEF DeviceRequests
<1>3. /\ signing' \in [Registers -> DeviceRequests] /\ signing'[c] = to
      /\ \A d \in Registers \ {c} : signing'[d] = signing[d]
  BY <1>1, <1>2, RequestMoves DEF DevicesInv
<1> HIDE DEF to
<1>4. DeviceTypes'
  BY <1>1, <1>3 DEF DevicesInv, DeviceTypes
<1>5. DevicesApart'
  BY <1>1, <1>2, <1>3 DEF DevicesInv, DevicesApart
<1>6. \A d \in Registers \ {c} : DeviceStage(d)'
  BY <1>1, <1>3, OthersKeepStage
<1>7. DeviceStage(c)'
  BY <1>1, <1>2, <1>3 DEF DeviceStage, DevicesInv
<1>8. Dev!DevicesExplained'
  BY <1>1, FewerExplained DEF DevicesInv, Dev!DevicesExplained
<1> QED BY <1>4, <1>5, <1>6, <1>7, <1>8 DEF DevicesInv

\* A row is inserted; nobody else holds its token or device, but for a known overlap.
LEMMA InsertStep ==
  ASSUME DevicesInv, NEW c \in Registers, Dev!Insert(c)
  PROVE  DevicesInv'
<1> DEFINE w == signing[c]
<1>1. /\ w \in DeviceRequests /\ w.at = "insert" /\ w.row \in DeviceRows \ signedOff /\ w.row # <<>>
      /\ UNCHANGED <<shared, doubled, signedOff>> /\ Dev!GoTo(c, Dev!Idle)
  BY DEF Dev!Insert, DevicesInv, DeviceTypes, DeviceStage, DeviceRequests
<1>2. Dev!Idle \in DeviceRequests /\ Dev!Idle.at = "idle" /\ Dev!Idle.row = <<>>
  BY DEF Dev!Idle, DeviceRequests, DeviceIds
<1>3. /\ signing' \in [Registers -> DeviceRequests] /\ signing'[c] = Dev!Idle
      /\ \A d \in Registers \ {c} : signing'[d] = signing[d]
  BY <1>1, <1>2, RequestMoves DEF DevicesInv
<1>4. DevicesApart'
  BY <1>1, <1>2, <1>3 DEF DevicesInv, DevicesApart
<1>5. DeviceStage(c)'
  BY <1>1, <1>2, <1>3 DEF DeviceStage
<1>6. CASE UNCHANGED <<known, activeTokens, phone>>
  <2>1. DeviceTypes'
    BY <1>6, <1>3 DEF DevicesInv, DeviceTypes
  <2>2. \A d \in Registers \ {c} : DeviceStage(d)'
    BY <1>1, <1>3, <1>6, OthersKeepStage
  <2>3. Dev!DevicesExplained'
    BY <1>1, <1>6, FewerExplained DEF DevicesInv, Dev!DevicesExplained
  <2> QED BY <1>4, <1>5, <2>1, <2>2, <2>3 DEF DevicesInv
<1>7. CASE w.row \notin known
  <2>1. /\ known' = known \union {w.row} /\ activeTokens' = activeTokens \union {w.row}
        /\ phone' = [phone EXCEPT ![w.row] = w.phone]
    BY <1>7 DEF Dev!Insert
  <2>2. w.phone \in DeviceIds
    BY <1>1 DEF DeviceRequests
  <2>3. DeviceTypes'
    BY <1>1, <1>3, <2>1, <2>2 DEF DevicesInv, DeviceTypes
  <2>4. phone'[w.row] = w.phone /\ \A r \in activeTokens : phone'[r] = phone[r] /\ r # w.row /\ r \in DeviceRows
    BY <1>1, <1>7, <2>1 DEF DevicesInv, DeviceTypes
  <2>5. ASSUME NEW d \in Registers \ {c} PROVE DeviceStage(d)'
    <3>1. signing'[d] = signing[d] /\ DeviceStage(d)
      BY <1>3 DEF DevicesInv
    <3>2. ASSUME signing[d].row # <<>>
          PROVE  /\ signing[d].row[2] = w.row[2] => w.row[2] \in shared
                 /\ signing[d].row[1] = w.row[1] => w.row[1] \in doubled
      BY <1>1, <3>2 DEF DevicesInv, DevicesApart
    <3> QED BY <1>1, <2>1, <2>4, <3>1, <3>2 DEF DeviceStage
  <2>6. DeviceStage(c) /\ Dev!DevicesExplained
    BY DEF DevicesInv
  <2>7. ASSUME NEW r \in activeTokens', NEW q \in activeTokens', r[2] = q[2], r[2] \notin shared'
        PROVE  r = q
    BY <1>1, <2>1, <2>6, <2>7 DEF DeviceStage, Dev!DevicesExplained
  <2>8. ASSUME NEW r \in activeTokens', NEW q \in activeTokens',
               r[1] = q[1], r[1] \notin doubled', phone'[r] \intersect phone'[q] # {}
        PROVE  r = q
    <3>1. CASE r \in activeTokens /\ q \in activeTokens
      BY <1>1, <2>4, <2>6, <2>8, <3>1 DEF Dev!DevicesExplained
    <3>2. CASE r = w.row /\ q \in activeTokens
      BY <1>1, <2>4, <2>6, <2>8, <3>2 DEF DeviceStage
    <3>3. CASE q = w.row /\ r \in activeTokens
      BY <1>1, <2>4, <2>6, <2>8, <3>3 DEF DeviceStage
    <3> QED BY <2>1, <3>1, <3>2, <3>3
  <2>9. Dev!DevicesExplained'
    BY <1>1, <2>1, <2>6, <2>7, <2>8 DEF Dev!DevicesExplained
  <2> QED BY <1>4, <1>5, <2>3, <2>5, <2>9 DEF DevicesInv
<1> QED BY <1>6, <1>7 DEF Dev!Insert

\* The row of its own is active again; who else holds the token or the device is known.
LEMMA SaveOwnStep ==
  ASSUME DevicesInv, NEW c \in Registers, Dev!SaveOwn(c)
  PROVE  DevicesInv'
<1> DEFINE w == signing[c]
<1>1. /\ w \in DeviceRequests /\ w.at = "saveOwn" /\ w.row \in known /\ w.row \notin signedOff /\ w.row # <<>>
      /\ w.row \in DeviceRows
      /\ UNCHANGED <<known, signedOff>> /\ Dev!GoTo(c, Dev!Idle)
      /\ activeTokens' = activeTokens \union {w.row}
      /\ phone' = IF w.phone = {} THEN phone ELSE [phone EXCEPT ![w.row] = w.phone]
      /\ doubled' = doubled \union {w.row[1]}
      /\ shared' = IF \E r \in activeTokens : r[2] = w.row[2] /\ r # w.row THEN shared \union {w.row[2]} ELSE shared
  BY DEF Dev!SaveOwn, DevicesInv, DeviceTypes, DeviceStage, DeviceRequests
<1>2. Dev!Idle \in DeviceRequests /\ Dev!Idle.at = "idle" /\ Dev!Idle.row = <<>>
  BY DEF Dev!Idle, DeviceRequests, DeviceIds
<1>3. /\ signing' \in [Registers -> DeviceRequests] /\ signing'[c] = Dev!Idle
      /\ \A d \in Registers \ {c} : signing'[d] = signing[d]
  BY <1>1, <1>2, RequestMoves DEF DevicesInv
<1>4. DevicesApart'
  BY <1>1, <1>2, <1>3 DEF DevicesInv, DevicesApart
<1>5. DeviceStage(c)'
  BY <1>1, <1>2, <1>3 DEF DeviceStage
<1>6. DeviceTypes'
  <2>1. w.phone \in DeviceIds
    BY <1>1 DEF DeviceRequests
  <2> QED BY <1>1, <1>3, <2>1 DEF DevicesInv, DeviceTypes
<1>7. \A r \in activeTokens : r # w.row => phone'[r] = phone[r]
  BY <1>1 DEF DevicesInv, DeviceTypes
<1>8. ASSUME NEW d \in Registers \ {c} PROVE DeviceStage(d)'
  <2>1. signing'[d] = signing[d] /\ DeviceStage(d)
    BY <1>3 DEF DevicesInv
  <2>2. ASSUME signing[d].row # <<>>
        PROVE  /\ signing[d].row[2] = w.row[2] => w.row[2] \in shared
               /\ signing[d].row[1] = w.row[1] => w.row[1] \in doubled
    BY <1>1, <2>2 DEF DevicesInv, DevicesApart
  <2> QED BY <1>1, <1>7, <2>1, <2>2 DEF DeviceStage
<1>9. ASSUME NEW r \in activeTokens', NEW q \in activeTokens', r[2] = q[2], r[2] \notin shared'
      PROVE  r = q
  BY <1>1, <1>9 DEF DevicesInv, Dev!DevicesExplained
<1>10. ASSUME NEW r \in activeTokens', NEW q \in activeTokens',
              r[1] = q[1], r[1] \notin doubled', phone'[r] \intersect phone'[q] # {}
       PROVE  r = q
  <2>1. r # w.row /\ q # w.row
    BY <1>1, <1>10
  <2> QED BY <1>1, <1>7, <1>10, <2>1 DEF DevicesInv, Dev!DevicesExplained
<1>11. Dev!DevicesExplained'
  <2>1. signedOff' \intersect activeTokens' = {}
    BY <1>1 DEF DevicesInv, Dev!DevicesExplained
  <2> QED BY <1>9, <1>10, <2>1 DEF Dev!DevicesExplained
<1> QED BY <1>4, <1>5, <1>6, <1>8, <1>11 DEF DevicesInv

\* Rows of any kind are signed off, and requests may end with it.
LEMMA SignOffStep ==
  ASSUME DevicesInv, NEW R, Dev!SignOff(R),
         signing' \in [Registers -> DeviceRequests],
         \A d \in Registers : signing'[d] = signing[d] \/ signing'[d] = Dev!Idle
  PROVE  DevicesInv'
<1> DEFINE C == {d \in Registers : signing'[d] = Dev!Idle}
<1>1. /\ activeTokens' = activeTokens \ R
      /\ signedOff' = signedOff \union {r \in R : \A d \in Registers : signing[d].row # r}
      /\ UNCHANGED <<known, phone, shared, doubled>>
  BY DEF Dev!SignOff
<1>2. Dev!Idle.at = "idle" /\ Dev!Idle.row = <<>>
  BY DEF Dev!Idle
<1>3. DeviceTypes'
  BY <1>1 DEF DevicesInv, DeviceTypes
<1>4. DevicesApart'
  <2>1. \A d \in Registers : signing'[d].row # <<>> => signing'[d] = signing[d]
    BY <1>2
  <2> QED BY <1>1, <2>1 DEF DevicesInv, DevicesApart
<1>5. \A d \in Registers \ C : DeviceStage(d)'
  BY <1>1, OthersKeepStage
<1>6. \A d \in C : DeviceStage(d)'
  BY <1>2 DEF DeviceStage
<1>7. Dev!DevicesExplained'
  <2>1. signedOff' \intersect activeTokens' = {}
    BY <1>1 DEF DevicesInv, Dev!DevicesExplained
  <2> QED BY <1>1, <2>1, FewerExplained DEF DevicesInv
<1> QED BY <1>3, <1>4, <1>5, <1>6, <1>7 DEF DevicesInv

\* A push takes the tokens, or a request ends where it stands.
LEMMA RestStep ==
  ASSUME DevicesInv, NEW c \in Registers, NEW to \in DeviceRequests,
         Dev!GoTo(c, to), to.at \in {"idle", "sent"}, to.row = <<>>,
         UNCHANGED <<known, activeTokens, phone, shared, doubled, signedOff>>
  PROVE  DevicesInv'
<1>1. /\ signing' \in [Registers -> DeviceRequests] /\ signing'[c] = to
      /\ \A d \in Registers \ {c} : signing'[d] = signing[d]
  BY RequestMoves DEF DevicesInv
<1>2. DeviceTypes'
  BY <1>1 DEF DevicesInv, DeviceTypes
<1>3. DevicesApart'
  BY <1>1 DEF DevicesInv, DevicesApart
<1>4. \A d \in Registers \ {c} : DeviceStage(d)'
  BY <1>1, OthersKeepStage
<1>5. DeviceStage(c)'
  BY <1>1 DEF DeviceStage
<1>6. Dev!DevicesExplained'
  BY FewerExplained DEF DevicesInv, Dev!DevicesExplained
<1> QED BY <1>2, <1>3, <1>4, <1>5, <1>6 DEF DevicesInv

\* Every step of registrations, removals and sends keeps the tokens explained.
LEMMA DevicesStep ==
  ASSUME DevicesInv, [Dev!Next]_deviceVars
  PROVE  DevicesInv'
<1>0. Dev!Idle \in DeviceRequests /\ Dev!Idle.row = <<>> /\ Dev!Idle.at = "idle"
  BY DEF Dev!Idle, DeviceRequests, DeviceIds
<1>1. CASE UNCHANGED deviceVars
  <2>1. UNCHANGED <<known, activeTokens, phone, signing, shared, doubled, signedOff>>
    BY <1>1 DEF deviceVars
  <2>2. \A d \in Registers \ {} : DeviceStage(d)'
    BY <2>1, OthersKeepStage
  <2>3. Dev!DevicesExplained'
    BY <2>1, FewerExplained DEF DevicesInv, Dev!DevicesExplained
  <2> QED BY <2>1, <2>2, <2>3 DEF DevicesInv, DeviceTypes, DevicesApart
<1>2. ASSUME NEW c \in Registers, Dev!GetActiveTokens(c) PROVE DevicesInv'
  <2>1. PICK u \in Holders : Dev!GoTo(c, [Dev!Idle EXCEPT !.at = "sent", !.sent = {t \in Tokens : <<u, t>> \in activeTokens}])
    BY <1>2 DEF Dev!GetActiveTokens
  <2> DEFINE to == [Dev!Idle EXCEPT !.at = "sent", !.sent = {t \in Tokens : <<u, t>> \in activeTokens}]
  <2>2. to \in DeviceRequests /\ to.row = <<>> /\ to.at = "sent"
    BY <1>0 DEF DeviceRequests
  <2> HIDE DEF to
  <2>3. UNCHANGED <<known, activeTokens, phone, shared, doubled, signedOff>>
    BY <1>2 DEF Dev!GetActiveTokens
  <2> QED BY <2>1, <2>2, <2>3, RestStep DEF to
<1>3. ASSUME NEW c \in Registers, Dev!RemoveInvalidTokens(c) PROVE DevicesInv'
  <2>1. PICK refused \in SUBSET signing[c].sent : Dev!SignOff({r \in known : r[2] \in refused})
    BY <1>3 DEF Dev!RemoveInvalidTokens
  <2>2. /\ signing' \in [Registers -> DeviceRequests] /\ signing'[c] = Dev!Idle
        /\ \A d \in Registers \ {c} : signing'[d] = signing[d]
    BY <1>0, <1>3, RequestMoves DEF DevicesInv, Dev!RemoveInvalidTokens
  <2> QED BY <2>1, <2>2, SignOffStep
<1>4. ASSUME NEW c \in Registers, Dev!Fail(c) PROVE DevicesInv'
  BY <1>0, <1>4, RestStep DEF Dev!Fail
<1>5. ASSUME NEW r, Dev!Unregister(r) PROVE DevicesInv'
  <2>1. signing' \in [Registers -> DeviceRequests] /\ \A d \in Registers : signing'[d] = signing[d]
    BY <1>5 DEF Dev!Unregister, DevicesInv, DeviceTypes
  <2>2. Dev!SignOff({r} \intersect known)
    BY <1>5 DEF Dev!Unregister
  <2> QED BY <2>1, <2>2, SignOffStep
<1>6. ASSUME NEW u, Dev!UnregisterAll(u) PROVE DevicesInv'
  <2>1. signing' \in [Registers -> DeviceRequests] /\ \A d \in Registers : signing'[d] = signing[d]
    BY <1>6 DEF Dev!UnregisterAll, DevicesInv, DeviceTypes
  <2>2. Dev!SignOff({r \in activeTokens : r[1] = u})
    BY <1>6 DEF Dev!UnregisterAll
  <2> QED BY <2>1, <2>2, SignOffStep
<1> QED BY <1>1, <1>2, <1>3, <1>4, <1>5, <1>6, FindOwnStep, FindOtherStep, DeactivateOtherStep,
           DeactivateDeviceStep, InsertStep, SaveOwnStep DEF Dev!Next

\* The tokens stay explained, with what open registrations know.
THEOREM DevicesInvariant == MCSpec => []DevicesInv
<1>1. MCInit => DevicesInv
  BY DevicesInit DEF MCInit
<1>2. DevicesInv /\ [MCNext]_allVars => DevicesInv'
  BY DevicesStep, StepOfOne
<1> QED BY <1>1, <1>2, PTL DEF MCSpec, allVars

\* Tokens are active for one user only, with the exceptions noted, and the
\* recurring jobs are there (MCJobs!TargetsExplained).
THEOREM TargetsAreExplained == MCSpec => []TargetsExplained
<1>1. ScheduleInv /\ DevicesInv => TargetsExplained
  BY DEF ScheduleInv, DevicesInv, TargetsExplained
<1> QED BY <1>1, ScheduleInvariant, DevicesInvariant, PTL

-----------------------------------------------------------------------------
\* What is known of an event, wherever it stands.
BeforeSave == {"findPrefs", "makePrefs", "save"}
AfterSave == {"invalidate", "emitCheck", "emit", "pushCheck", "queuePush", "done"}

\* Attempts that a job may have used up when it waits, once more after a stall.
Allowed(stalled) == MaxAttempts + (IF stalled = 0 THEN 0 ELSE 1)

JobStage(e) ==
  /\ pc[e] = "new" <=> via[e] = "none"
  /\ via[e] = "none" => rows[e] = 0 /\ attempts[e] = 0 /\ stalls[e] = 0
  /\ via[e] = "request" => pc[e] # "waiting"
  /\ pc[e] = "waiting" => attempts[e] < Allowed(stalls[e])
  /\ attempts[e] <= Allowed(stalls[e])
  /\ stalls[e] = 2 => pc[e] = "failed"

RowStage(e) ==
  /\ pc[e] \in BeforeSave => rows[e] < (IF via[e] = "job" THEN attempts[e] ELSE 1)
  /\ pc[e] \in AfterSave => rows[e] > 0
  /\ rows[e] <= (IF via[e] = "job" THEN attempts[e] ELSE 1)

PushStage(e) ==
  /\ push[e] # "none" => pc[e] = "done"
  /\ push[e] = "none" => pushAttempts[e] = 0 /\ pushStalls[e] = 0
  /\ push[e] = "waiting" => pushAttempts[e] < Allowed(pushStalls[e])
  /\ pushAttempts[e] <= Allowed(pushStalls[e])
  /\ pushStalls[e] = 2 => push[e] = "failed"

HeardStage(e) ==
  via[e] = "request" =>
    /\ pc[e] = "pushCheck" => emitted[e] \/ ~online \/ e \in missed
    /\ pc[e] = "done" => emitted[e] \/ push[e] # "none" \/ e \in missed

EventStage(e) == JobStage(e) /\ RowStage(e) /\ PushStage(e) /\ HeardStage(e)

DeliveryInv == TypeOK /\ \A e \in Events : EventStage(e)

\* Before the first event nobody is counted and nobody has missed one.
LEMMA DeliveryInit == Init => DeliveryInv
<1> SUFFICES ASSUME Init PROVE DeliveryInv
  OBVIOUS
<1> USE AttemptsAssumption, FaultsAssumption DEF Init
<1>1. TypeOK
  BY DEF TypeOK, settings, job, pushJob
<1>2. \A e \in Events : EventStage(e)
  BY DEF EventStage, JobStage, RowStage, PushStage, HeardStage, Allowed, BeforeSave, AfterSave
<1> QED BY <1>1, <1>2 DEF DeliveryInv

\* An event that a step leaves alone keeps its stage, whatever becomes of the
\* others, as long as the user does not come online unnoticed.
LEMMA Untouched ==
  ASSUME NEW f \in Events, EventStage(f),
         pc'[f] = pc[f], via'[f] = via[f], attempts'[f] = attempts[f], stalls'[f] = stalls[f],
         rows'[f] = rows[f], emitted'[f] = emitted[f], push'[f] = push[f],
         pushAttempts'[f] = pushAttempts[f], pushStalls'[f] = pushStalls[f],
         missed \subseteq missed', online' => online
  PROVE  EventStage(f)'
  BY DEF EventStage, JobStage, RowStage, PushStage, HeardStage, Allowed

\* The functions of the events, and what a step that moves one event does to them.
LEMMA Moves ==
  ASSUME NEW e \in Events, TypeOK
  PROVE  /\ \A to : Go(e, to) => pc'[e] = to /\ \A f \in Events \ {e} : pc'[f] = pc[f]
         /\ \A to : SetPush(e, to) => push'[e] = to /\ \A f \in Events \ {e} : push'[f] = push[f]
         /\ \A to : Go(e, to) /\ to \in Working \cup Final \cup {"new", "waiting"}
              => pc' \in [Events -> Working \cup Final \cup {"new", "waiting"}]
         /\ \A to : SetPush(e, to) /\ to \in PushActive \cup {"none", "waiting", "nobody", "sent", "lost", "failed"}
              => push' \in [Events -> PushActive \cup {"none", "waiting", "nobody", "sent", "lost", "failed"}]
  BY DEF TypeOK, Go, SetPush

\* A step that moves e in create, and may write its row or mark it as sent.
LEMMA CreateMoves ==
  ASSUME DeliveryInv, NEW e \in Events, NEW to \in Working \cup Final \cup {"waiting"}, Go(e, to),
         prefs' \in {"missing", "on", "off"}, edit' \in {"no", "insert", "update"}, want' \in {"on", "off"},
         faults' \in 0..MaxFaults, deleted' \subseteq Events, missed \subseteq missed', missed' \subseteq Events,
         \A f \in Events \ {e} : rows'[f] = rows[f] /\ emitted'[f] = emitted[f],
         rows' \in [Events -> Nat], emitted' \in [Events -> BOOLEAN],
         UNCHANGED <<online, job, pushJob>>,
         EventStage(e)'
  PROVE  DeliveryInv'
<1>1. TypeOK'
  BY Moves DEF DeliveryInv, TypeOK, job, pushJob
<1>2. ASSUME NEW f \in Events \ {e} PROVE EventStage(f)'
  <2>1. pc'[f] = pc[f]
    BY Moves DEF DeliveryInv
  <2> QED BY <2>1, Untouched DEF DeliveryInv, job, pushJob
<1> QED BY <1>1, <1>2 DEF DeliveryInv

\* Throwing ends a request, and gives a job back while it has attempts left.
LEMMA ThrowMoves ==
  ASSUME DeliveryInv, NEW e \in Events, pc[e] \in Working, Throw(e),
         prefs' \in {"missing", "on", "off"}, edit' \in {"no", "insert", "update"}, want' \in {"on", "off"},
         faults' \in 0..MaxFaults, UNCHANGED <<online, job, rows, deleted, emitted, pushJob, missed>>
  PROVE  DeliveryInv'
<1> DEFINE to == IF via[e] = "job" /\ attempts[e] - stalls[e] < MaxAttempts THEN "waiting" ELSE "failed"
<1>1. Go(e, to)
  BY DEF Throw, Go
<1>2. pc'[e] = to
  BY <1>1, Moves DEF DeliveryInv
<1>3. EventStage(e) /\ TypeOK
  BY DEF DeliveryInv
<1>4. EventStage(e)'
  <2>1. UNCHANGED <<via[e], attempts[e], stalls[e], rows[e], push[e], pushAttempts[e], pushStalls[e]>>
    BY DEF job, pushJob
  <2>2. JobStage(e)'
    BY <1>2, <1>3, <2>1, AttemptsAssumption DEF EventStage, JobStage, Allowed, Working, TypeOK
  <2>3. RowStage(e)'
    BY <1>2, <1>3, <2>1 DEF EventStage, RowStage, BeforeSave, AfterSave
  <2>4. PushStage(e)'
    BY <1>2, <1>3, <2>1 DEF EventStage, PushStage, Allowed, Working
  <2>5. HeardStage(e)'
    BY <1>2, <1>3, <2>1 DEF EventStage, HeardStage
  <2> QED BY <2>2, <2>3, <2>4, <2>5 DEF EventStage
<1> QED BY <1>1, <1>3, <1>4, CreateMoves DEF TypeOK, Final

\* A step of the push job of an event; its notification job is done.
LEMMA PushMoves ==
  ASSUME DeliveryInv, NEW e \in Events, NEW to \in PushActive \cup {"waiting", "nobody", "sent", "lost", "failed"},
         push[e] # "none", SetPush(e, to), faults' \in 0..MaxFaults,
         \A f \in Events \ {e} : pushAttempts'[f] = pushAttempts[f],
         pushAttempts' \in [Events -> 0..MaxAttempts + 1],
         to = "waiting" => pushAttempts'[e] < Allowed(pushStalls[e]),
         pushAttempts'[e] <= Allowed(pushStalls[e]),
         pushStalls[e] # 2,
         UNCHANGED <<online, settings, pc, job, rows, deleted, emitted, pushStalls, missed>>
  PROVE  DeliveryInv'
<1>1. push'[e] = to /\ \A f \in Events \ {e} : push'[f] = push[f]
  BY Moves DEF DeliveryInv
<1>2. TypeOK'
  BY Moves DEF DeliveryInv, TypeOK, job, settings
<1>3. ASSUME NEW f \in Events \ {e} PROVE EventStage(f)'
  BY <1>1, Untouched DEF DeliveryInv, job
<1>4. EventStage(e)'
  <2>1. EventStage(e) /\ UNCHANGED <<online, pc, via, attempts, stalls, rows, deleted, emitted, pushStalls, missed>>
    BY DEF DeliveryInv, job
  <2>2. JobStage(e)' /\ RowStage(e)'
    BY <2>1 DEF EventStage, JobStage, RowStage, Allowed
  <2>3. PushStage(e)'
    BY <2>1, <1>1 DEF EventStage, PushStage, Allowed, PushActive
  <2>4. HeardStage(e)'
    BY <2>1, <1>1 DEF EventStage, HeardStage, PushActive
  <2> QED BY <2>2, <2>3, <2>4 DEF EventStage
<1> QED BY <1>2, <1>3, <1>4 DEF DeliveryInv

\* The user connects or disconnects, or the settings change.
LEMMA SurroundingsMove ==
  ASSUME DeliveryInv, online' \in BOOLEAN, prefs' \in {"missing", "on", "off"},
         edit' \in {"no", "insert", "update"}, want' \in {"on", "off"}, missed' \subseteq Events,
         missed \subseteq missed',
         \A e \in Events : pc[e] = "pushCheck" /\ ~emitted[e] /\ online' => online \/ e \in missed',
         deleted' \subseteq Events,
         UNCHANGED <<pc, job, rows, emitted, pushJob, faults>>
  PROVE  DeliveryInv'
<1>1. TypeOK'
  BY DEF DeliveryInv, TypeOK, job, pushJob
<1>2. ASSUME NEW e \in Events PROVE EventStage(e)'
  BY DEF DeliveryInv, EventStage, JobStage, RowStage, PushStage, HeardStage, Allowed, job, pushJob, TypeOK
<1> QED BY <1>1, <1>2 DEF DeliveryInv

\* The server dies.
LEMMA RestartStep ==
  ASSUME DeliveryInv, Restart
  PROVE  DeliveryInv'
<1> USE AttemptsAssumption, FaultsAssumption
<1>1. TypeOK'
  BY DEF DeliveryInv, TypeOK, Restart, EventStage, JobStage, PushStage, Allowed, Working, Final, PushActive
<1>2. ASSUME NEW e \in Events PROVE EventStage(e)'
  <2>1. /\ EventStage(e) /\ TypeOK
        /\ pc'[e] = IF pc[e] \notin Working THEN pc[e]
                    ELSE IF via[e] = "job" /\ stalls[e] = 0 THEN "waiting" ELSE "failed"
        /\ stalls'[e] = IF pc[e] \in Working /\ via[e] = "job" THEN stalls[e] + 1 ELSE stalls[e]
        /\ push'[e] = IF push[e] \notin PushActive THEN push[e]
                      ELSE IF pushStalls[e] = 0 THEN "waiting" ELSE "failed"
        /\ pushStalls'[e] = IF push[e] \in PushActive THEN pushStalls[e] + 1 ELSE pushStalls[e]
        /\ UNCHANGED <<online, via, attempts, rows, deleted, emitted, pushAttempts, missed>>
    BY DEF DeliveryInv, Restart
  <2>2. JobStage(e)'
    BY <2>1 DEF EventStage, JobStage, Allowed, Working, TypeOK
  <2>3. RowStage(e)'
    BY <2>1 DEF EventStage, RowStage, Working, BeforeSave, AfterSave
  <2>4. PushStage(e)'
    BY <2>1 DEF EventStage, PushStage, Allowed, Working, PushActive, TypeOK
  <2>5. HeardStage(e)'
    BY <2>1 DEF EventStage, HeardStage, PushStage, Working, PushActive
  <2> QED BY <2>2, <2>3, <2>4, <2>5 DEF EventStage
<1> QED BY <1>1, <1>2 DEF DeliveryInv

\* A step of create that only moves on: the event has its row or not as before.
LEMMA Stay ==
  ASSUME DeliveryInv, NEW e \in Events, NEW to \in Working \cup {"done", "skipped"}, Go(e, to),
         prefs' \in {"missing", "on", "off"} \/ UNCHANGED settings,
         edit' = edit \/ UNCHANGED settings, want' = want \/ UNCHANGED settings,
         pc[e] \in Working,
         to \in BeforeSave => pc[e] \in BeforeSave,
         to \in AfterSave => pc[e] \in AfterSave,
         via[e] = "request" /\ to = "pushCheck" => ~online,
         via[e] = "request" /\ to = "done" => emitted[e] \/ e \in missed,
         UNCHANGED <<online, job, rows, deleted, emitted, pushJob, missed, faults>>
  PROVE  DeliveryInv'
<1>1. TypeOK /\ EventStage(e) /\ pc'[e] = to
  BY Moves DEF DeliveryInv
<1>2. EventStage(e)'
  <2>1. UNCHANGED <<via, attempts, stalls, rows, push, pushAttempts, pushStalls>>
    BY DEF job, pushJob
  <2>2. JobStage(e)'
    BY <1>1, <2>1 DEF EventStage, JobStage, Allowed, Working
  <2>3. RowStage(e)'
    BY <1>1, <2>1 DEF EventStage, RowStage
  <2>4. PushStage(e)'
    BY <1>1, <2>1 DEF EventStage, PushStage, Allowed, Working
  <2>5. HeardStage(e)'
    BY <1>1, <2>1 DEF EventStage, HeardStage
  <2> QED BY <2>2, <2>3, <2>4, <2>5 DEF EventStage
<1> QED BY <1>1, <1>2, CreateMoves DEF TypeOK, settings, Final

\* The steps of one event.
LEMMA EventStep ==
  ASSUME DeliveryInv, NEW e \in Events,
         Request(e) \/ AddJob(e) \/ Take(e) \/ Create(e) \/ Push(e) \/ PushLost(e) \/ Fail(e)
  PROVE  DeliveryInv'
<1> USE AttemptsAssumption, FaultsAssumption
<1>0. TypeOK /\ EventStage(e)
  BY DEF DeliveryInv
<1>1. CASE Request(e) \/ AddJob(e) \/ Take(e)
  <2>1. /\ pc[e] \in {"new", "waiting"} /\ pc' = [pc EXCEPT ![e] = IF AddJob(e) THEN "waiting" ELSE "findPrefs"]
        /\ UNCHANGED <<online, settings, stalls, rows, deleted, emitted, pushJob, missed, faults>>
    BY <1>1 DEF Request, AddJob, Take, Step, Go
  <2>2. /\ via' \in [Events -> {"none", "request", "job"}] /\ attempts' \in [Events -> 0..MaxAttempts + 1]
        /\ \A f \in Events \ {e} : via'[f] = via[f] /\ attempts'[f] = attempts[f] /\ pc'[f] = pc[f]
    BY <1>0, <1>1 DEF Request, AddJob, Take, Step, Go, TypeOK, EventStage, JobStage, Allowed
  <2>3. TypeOK'
    BY <1>0, <2>1, <2>2 DEF TypeOK, settings, pushJob, Working, Final
  <2>4. ASSUME NEW f \in Events \ {e} PROVE EventStage(f)'
    BY <2>1, <2>2, Untouched DEF DeliveryInv, pushJob
  <2>5. EventStage(e)'
    <3>1. CASE Request(e)
      <4>1. /\ pc[e] = "new" /\ pc'[e] = "findPrefs" /\ via'[e] = "request"
            /\ UNCHANGED <<attempts, stalls, rows, push, pushAttempts, pushStalls>>
        BY <1>0, <3>1 DEF Request, Step, Go, TypeOK, pushJob
      <4> QED BY <1>0, <4>1 DEF EventStage, JobStage, RowStage, PushStage, HeardStage, Allowed, BeforeSave, AfterSave
    <3>2. CASE AddJob(e)
      <4>1. /\ pc[e] = "new" /\ pc'[e] = "waiting" /\ via'[e] = "job"
            /\ UNCHANGED <<attempts, stalls, rows, push, pushAttempts, pushStalls>>
        BY <1>0, <3>2 DEF AddJob, Step, Go, TypeOK, pushJob
      <4> QED BY <1>0, <4>1 DEF EventStage, JobStage, RowStage, PushStage, HeardStage, Allowed, BeforeSave, AfterSave
    <3>3. CASE Take(e)
      <4>1. /\ pc[e] = "waiting" /\ pc'[e] = "findPrefs" /\ via'[e] = via[e] /\ via[e] = "job"
            /\ attempts'[e] = attempts[e] + 1 /\ attempts[e] \in Nat /\ rows[e] \in Nat /\ stalls[e] \in 0..2
            /\ UNCHANGED <<stalls, rows, push, pushAttempts, pushStalls>>
        BY <1>0, <3>3 DEF Take, Step, Go, TypeOK, pushJob, EventStage, JobStage
      <4> QED BY <1>0, <4>1 DEF EventStage, JobStage, RowStage, PushStage, HeardStage, Allowed, BeforeSave, AfterSave
    <3> QED BY <1>1, <3>1, <3>2, <3>3
  <2> QED BY <2>3, <2>4, <2>5 DEF DeliveryInv
<1>2. CASE FindPrefs(e)
  <2>1. PICK to \in {"makePrefs", "save", "skipped"} : Go(e, to)
    BY <1>0, <1>2 DEF FindPrefs, TypeOK
  <2>2. pc[e] = "findPrefs" /\ UNCHANGED <<online, settings, job, rows, deleted, emitted, pushJob, missed, faults>>
    BY <1>2 DEF FindPrefs
  <2> QED BY <1>0, <2>1, <2>2, Stay DEF Working, BeforeSave, AfterSave
<1>3. CASE MakePrefs(e)
  <2>1. /\ pc[e] = "makePrefs" /\ UNCHANGED <<online, edit, want, job, rows, deleted, emitted, pushJob, missed, faults>>
        /\ prefs' \in {"missing", "on", "off"}
    BY <1>0, <1>3 DEF MakePrefs, TypeOK
  <2>2. CASE Go(e, "save")
    BY <1>0, <2>1, <2>2, Stay DEF Working, BeforeSave, AfterSave
  <2>3. CASE Throw(e)
    BY <1>0, <2>1, <2>3, ThrowMoves DEF TypeOK, Working
  <2> QED BY <1>3, <2>2, <2>3 DEF MakePrefs
<1>4. CASE SaveRow(e)
  <2>1. /\ pc[e] = "save" /\ Go(e, "invalidate") /\ rows' = [rows EXCEPT ![e] = @ + 1]
        /\ deleted' = deleted \ {e}
        /\ UNCHANGED <<online, settings, job, emitted, pushJob, missed, faults>>
    BY <1>4 DEF SaveRow, Step
  <2>2. /\ rows' \in [Events -> Nat] /\ rows'[e] = rows[e] + 1 /\ pc'[e] = "invalidate"
        /\ \A f \in Events \ {e} : rows'[f] = rows[f]
    BY <1>0, <2>1, Moves DEF TypeOK
  <2>3. EventStage(e)'
    <3>1. /\ UNCHANGED <<via, attempts, stalls, push, pushAttempts, pushStalls>>
          /\ rows[e] \in Nat /\ attempts[e] \in Nat
      BY <1>0, <2>1 DEF job, pushJob, TypeOK
    <3> QED BY <1>0, <2>1, <2>2, <3>1
         DEF EventStage, JobStage, RowStage, PushStage, HeardStage, Allowed, BeforeSave, AfterSave
  <2> QED BY <1>0, <2>1, <2>2, <2>3, CreateMoves DEF TypeOK, settings, Working
<1>5. CASE Invalidate(e)
  <2>1. /\ pc[e] = "invalidate" /\ Go(e, "emitCheck")
        /\ UNCHANGED <<online, settings, job, rows, deleted, emitted, pushJob, missed, faults>>
    BY <1>5 DEF Invalidate, Step
  <2> QED BY <1>0, <2>1, Stay DEF Working, BeforeSave, AfterSave
<1>6. CASE EmitCheck(e)
  <2>1. /\ pc[e] = "emitCheck" /\ Go(e, IF online THEN "emit" ELSE AfterEmit(e))
        /\ UNCHANGED <<online, settings, job, rows, deleted, emitted, pushJob, missed, faults>>
    BY <1>6 DEF EmitCheck
  <2> QED BY <1>0, <2>1, Stay DEF AfterEmit, Working, BeforeSave, AfterSave
<1>7. CASE Emit(e)
  <2>1. /\ pc[e] = "emit" /\ Go(e, AfterEmit(e)) /\ deleted' = deleted \ {e}
        /\ IF e \in deleted THEN missed' = missed \cup {e} /\ UNCHANGED emitted
           ELSE emitted' = [emitted EXCEPT ![e] = TRUE] /\ UNCHANGED missed
        /\ UNCHANGED <<online, settings, job, rows, pushJob, faults>>
    BY <1>7 DEF Emit
  <2>2. /\ emitted' \in [Events -> BOOLEAN] /\ pc'[e] = AfterEmit(e)
        /\ emitted'[e] = TRUE \/ e \in missed'
        /\ missed \subseteq missed' /\ missed' \subseteq Events /\ deleted' \subseteq Events
        /\ \A f \in Events \ {e} : emitted'[f] = emitted[f]
    <3>1. pc'[e] = AfterEmit(e) /\ missed \subseteq Events /\ deleted \subseteq Events /\ emitted \in [Events -> BOOLEAN]
      BY <1>0, <2>1, Moves DEF TypeOK
    <3>2. CASE e \in deleted
      BY <2>1, <3>1, <3>2
    <3>3. CASE e \notin deleted
      BY <2>1, <3>1, <3>3
    <3> QED BY <3>2, <3>3
  <2>3. EventStage(e)'
    <3>1. UNCHANGED <<via, attempts, stalls, rows, push, pushAttempts, pushStalls>>
      BY <2>1 DEF job, pushJob
    <3> QED BY <1>0, <2>1, <2>2, <3>1
         DEF EventStage, JobStage, RowStage, PushStage, HeardStage, Allowed, BeforeSave, AfterSave, AfterEmit
  <2>4. AfterEmit(e) \in Working \cup Final
    BY DEF AfterEmit, Working, Final
  <2> QED BY <1>0, <2>1, <2>2, <2>3, <2>4, CreateMoves DEF TypeOK, settings
<1>8. CASE PushCheck(e)
  <2>1. /\ pc[e] = "pushCheck" /\ Go(e, IF online THEN "done" ELSE "queuePush")
        /\ UNCHANGED <<online, settings, job, rows, deleted, emitted, pushJob, missed, faults>>
    BY <1>8 DEF PushCheck
  <2> QED BY <1>0, <2>1, Stay DEF EventStage, HeardStage, Working, BeforeSave, AfterSave
<1>9. CASE QueuePush(e)
  <2>1. /\ pc[e] = "queuePush" /\ Go(e, "done") /\ push' = [push EXCEPT ![e] = "waiting"]
        /\ UNCHANGED <<online, settings, job, rows, deleted, emitted, pushAttempts, pushStalls, missed, faults>>
    BY <1>9 DEF QueuePush, Step
  <2>2. /\ pc'[e] = "done" /\ push'[e] = "waiting" /\ push[e] = "none"
        /\ \A f \in Events \ {e} : pc'[f] = pc[f] /\ push'[f] = push[f]
    BY <1>0, <2>1, Moves DEF TypeOK, EventStage, PushStage
  <2>3. TypeOK'
    BY <1>0, <2>1 DEF TypeOK, Go, settings, job, Final
  <2>4. EventStage(e)'
    BY <1>0, <2>1, <2>2
       DEF EventStage, JobStage, RowStage, PushStage, HeardStage, Allowed, BeforeSave, AfterSave, job
  <2>5. ASSUME NEW f \in Events \ {e} PROVE EventStage(f)'
    BY <2>1, <2>2, Untouched DEF DeliveryInv, job
  <2> QED BY <2>3, <2>4, <2>5 DEF DeliveryInv
<1>10. CASE PushTake(e)
  <2>1. /\ SetPush(e, "tokens") /\ push[e] = "waiting"
        /\ pushAttempts' = [pushAttempts EXCEPT ![e] = @ + 1]
        /\ UNCHANGED <<online, settings, pc, job, rows, deleted, emitted, pushStalls, missed, faults>>
    BY <1>10 DEF PushTake
  <2>2. /\ pushAttempts[e] < Allowed(pushStalls[e]) /\ pushStalls[e] # 2 /\ pushStalls[e] \in 0..2
        /\ pushAttempts[e] \in 0..MaxAttempts + 1 /\ faults \in 0..MaxFaults
    BY <1>0, <2>1 DEF EventStage, PushStage, TypeOK
  <2>3. pushAttempts' \in [Events -> 0..MaxAttempts + 1] /\ pushAttempts'[e] <= Allowed(pushStalls[e])
    BY <1>0, <2>1, <2>2 DEF TypeOK, Allowed
  <2>4. \A f \in Events \ {e} : pushAttempts'[f] = pushAttempts[f]
    BY <1>0, <2>1 DEF TypeOK
  <2> QED BY <2>1, <2>2, <2>3, <2>4, PushMoves DEF PushActive
<1>11. CASE PushNobody(e) \/ PushTokens(e) \/ PushSend(e) \/ PushLost(e)
  <2>1. PICK to \in {"nobody", "send", "sent", "lost"} : SetPush(e, to)
    BY <1>11 DEF PushNobody, PushTokens, PushSend, PushLost
  <2>2. /\ push[e] \in PushActive /\ faults' \in 0..MaxFaults
        /\ UNCHANGED <<online, settings, pc, job, rows, deleted, emitted, pushAttempts, pushStalls, missed>>
    BY <1>0, <1>11 DEF PushNobody, PushTokens, PushSend, PushLost, PushActive, TypeOK
  <2>3. /\ pushAttempts[e] <= Allowed(pushStalls[e]) /\ pushStalls[e] # 2
        /\ pushAttempts \in [Events -> 0..MaxAttempts + 1]
    BY <1>0, <2>2 DEF EventStage, PushStage, PushActive, TypeOK
  <2> QED BY <2>1, <2>2, <2>3, PushMoves DEF PushActive
<1>12. CASE Fail(e)
  <2>1. /\ faults' \in 0..MaxFaults
        /\ UNCHANGED <<online, settings, job, rows, deleted, emitted, pushAttempts, pushStalls, missed>>
    BY <1>0, <1>12 DEF Fail, TypeOK
  <2>2. CASE pc[e] \in Working /\ Throw(e) /\ UNCHANGED push
    <3>1. prefs' \in {"missing", "on", "off"} /\ edit' \in {"no", "insert", "update"} /\ want' \in {"on", "off"}
      BY <1>0, <2>1 DEF TypeOK, settings
    <3> QED BY <2>1, <2>2, <3>1, ThrowMoves DEF pushJob
  <2>3. CASE /\ push[e] = "tokens"
             /\ SetPush(e, IF pushAttempts[e] - pushStalls[e] < MaxAttempts THEN "waiting" ELSE "failed")
             /\ UNCHANGED pc
    <3>1. /\ pushAttempts[e] <= Allowed(pushStalls[e]) /\ pushStalls[e] # 2 /\ pushStalls[e] \in 0..2
          /\ pushAttempts \in [Events -> 0..MaxAttempts + 1] /\ pushAttempts[e] \in 0..MaxAttempts + 1
      BY <1>0, <2>3 DEF EventStage, PushStage, TypeOK
    <3>2. pushAttempts[e] - pushStalls[e] < MaxAttempts => pushAttempts[e] < Allowed(pushStalls[e])
      BY <3>1 DEF Allowed
    <3> QED BY <2>1, <2>3, <3>1, <3>2, PushMoves DEF PushActive
  <2> QED BY <1>12, <2>2, <2>3 DEF Fail
<1> QED BY <1>1, <1>2, <1>3, <1>4, <1>5, <1>6, <1>7, <1>8, <1>9, <1>10, <1>11, <1>12 DEF Create, Push

\* Every step of an event on its way keeps the delivery explained.
LEMMA DeliveryStep ==
  ASSUME DeliveryInv, [Next]_vars
  PROVE  DeliveryInv'
<1>0. TypeOK
  BY DEF DeliveryInv
<1>1. CASE UNCHANGED vars
  BY <1>0, <1>1, SurroundingsMove DEF vars, settings, TypeOK
<1>2. CASE ComeOnline
  BY <1>0, <1>2, SurroundingsMove DEF ComeOnline, settings, TypeOK
<1>3. CASE GoOffline
  BY <1>0, <1>3, SurroundingsMove DEF GoOffline, settings, TypeOK
<1>4. CASE EditFind
  BY <1>0, <1>4, SurroundingsMove DEF EditFind, TypeOK
<1>5. CASE EditSave
  BY <1>0, <1>5, SurroundingsMove DEF EditSave, TypeOK
<1>6. ASSUME NEW e \in Events, DeleteRow(e) PROVE DeliveryInv'
  BY <1>0, <1>6, SurroundingsMove DEF DeleteRow, settings, TypeOK
<1> QED BY <1>1, <1>2, <1>3, <1>4, <1>5, <1>6, EventStep, RestartStep DEF Next

\* Rows, counters and sockets stay explained while events are on their way.
THEOREM DeliveryInvariant == MCSpec => []DeliveryInv
<1>1. MCInit => DeliveryInv
  BY DeliveryInit DEF MCInit
<1>2. DeliveryInv /\ [MCNext]_allVars => DeliveryInv'
  BY DeliveryStep, StepOfOne
<1> QED BY <1>1, <1>2, PTL DEF MCSpec, allVars

\* No event ends well without its row, and no more rows are written than there
\* were attempts (NotificationDelivery!NoSilentLoss and RowsBounded).
THEOREM RowsAreCounted == MCSpec => []RowsCounted
<1>1. DeliveryInv => RowsCounted
  BY DEF DeliveryInv, EventStage, RowStage, AfterSave, RowsCounted, NoSilentLoss, RowsBounded
<1> QED BY <1>1, DeliveryInvariant, PTL

\* The user hears of what a request has created, unless he came online between
\* the two looks at whether he is.
THEOREM HeardOrCameOnline == MCSpec => []HeardOrMissed
<1>1. DeliveryInv => HeardOrMissed
  BY DEF DeliveryInv, EventStage, HeardStage, HeardOrMissed
<1> QED BY <1>1, DeliveryInvariant, PTL

-----------------------------------------------------------------------------
\* Stories.  Where requests stand:
Places == [at : {"idle", "save", "insertView", "incViews", "deleteMedia", "deleteRows"},
           ids : SUBSET Ids, by : SUBSET (Ids \union {0} \union Viewers)]

StoryTypes ==
  /\ clock \in 0..MaxClock /\ storyFaults \in 0..StoryFaults /\ cut \subseteq Ids
  /\ story \in [Ids -> {"absent", "live", "gone"}]
  /\ expires \in [Ids -> 0..MaxClock] /\ url \in [Ids -> Ids \union {0}]
  /\ objects \subseteq Ids /\ erased \subseteq Ids /\ views \subseteq Ids \X Viewers
  /\ viewsCount \in [Ids -> Nat]
  /\ call \in [Sto!Workers -> Places]

\* What the step of a request is about: one story, not there yet and nobody
\* else's, or stories that are there or were.
CallStage(c) ==
  LET w == call[c] IN
  /\ w.at \in {"save", "insertView", "incViews"} => \E s \in Ids : w.ids = {s}
  /\ w.at = "idle" => w.ids = {}
  /\ w.at \in {"insertView", "incViews"} => \E u \in Viewers : w.by = {u}
  /\ w.at = "save" => \E o \in Ids \union {0} : w.by = {o}
  /\ w.at = "deleteMedia" => w.by \subseteq w.ids
  /\ w.at = "save" => \A s \in w.ids : story[s] = "absent" /\ \A d \in Sto!Workers \ {c} : s \notin call[d].ids
  /\ w.at # "save" => \A s \in w.ids : story[s] # "absent"

\* A story that has no row yet has no views and no count.
StoryStage(s) ==
  /\ story[s] # "live" => \A v \in views : v[1] # s
  /\ story[s] = "absent" => viewsCount[s] = 0 /\ s \notin cut
  /\ viewsCount[s] <= Cardinality(Viewers)

\* Stories whose object may have been deleted: deleted ones, those whose deletion
\* has done this or may have, and those where it was cut short.
Dropped ==
  {s \in Ids : story[s] = "gone"} \union cut \union
  {s \in Ids : \E c \in Sto!Workers : \/ call[c].at = "deleteRows" /\ s \in call[c].ids
                                      \/ call[c].at = "deleteMedia" /\ s \in call[c].ids \ call[c].by}
ViewRows(s) == {v \in views : v[1] = s}

\* What an address names: nothing of these, an object that is there, or one that was
\* deleted from outside or may have been with a story that named it.
Known(o) == o \in {0} \union objects \union erased \/ \E t \in Dropped : url[t] = o

\* A row names what is known, and so does a request that is about to write one.
MediaKept ==
  /\ \A s \in Ids : Known(url[s])
  /\ \A c \in Sto!Workers : call[c].at = "save" => \A o \in call[c].by : Known(o)

StoriesInv ==
  /\ StoryTypes
  /\ \A c \in Sto!Workers : CallStage(c)
  /\ \A s \in Ids : StoryStage(s)
  /\ MediaKept
  /\ Sto!ViewsCounted

\* What Stories calls a cardinality is one.
LEMMA SameCardinality == \A S : Sto!Cardinality(S) = Cardinality(S)
  BY DEF Sto!Cardinality, Cardinality

\* ViewsCounted, story by story.
StoryCounted(s) ==
  /\ viewsCount[s] + Cardinality(Sto!Pending(s)) <= Cardinality(ViewRows(s))
  /\ s \notin cut => viewsCount[s] + Cardinality(Sto!Pending(s)) = Cardinality(ViewRows(s))

\* Views are counted story by story.
LEMMA CountedEach ==
  Sto!ViewsCounted <=> \A s \in Ids : story[s] = "live" => StoryCounted(s)
  BY SameCardinality DEF Sto!ViewsCounted, StoryCounted, ViewRows

\* The same, after a step.
LEMMA CountedEachNext ==
  (\A s \in Ids : story'[s] = "live" => StoryCounted(s)') => Sto!ViewsCounted'
  BY SameCardinality DEF Sto!ViewsCounted, StoryCounted, ViewRows

\* A place is a record of the step, the stories and the users it is about.
LEMMA PlaceOf ==
  ASSUME NEW step \in {"idle", "save", "insertView", "incViews", "deleteMedia", "deleteRows"},
         NEW ids \in SUBSET Ids, NEW by \in SUBSET (Ids \union {0} \union Viewers)
  PROVE  /\ Sto!At(step, ids, by) \in Places
         /\ Sto!At(step, ids, by).at = step /\ Sto!At(step, ids, by).ids = ids /\ Sto!At(step, ids, by).by = by
  BY DEF Places, Sto!At

\* A request that is not open is nowhere.
LEMMA NowhereIs ==
  Sto!Nowhere \in Places /\ Sto!Nowhere.at = "idle" /\ Sto!Nowhere.ids = {} /\ Sto!Nowhere.by = {}
  BY PlaceOf DEF Sto!Nowhere

\* With no stories there are no views to count.
LEMMA StoriesInit == Sto!Init => StoriesInv
<1> SUFFICES ASSUME Sto!Init PROVE StoriesInv
  OBVIOUS
<1> USE StoriesAssumption DEF Sto!Init
<1>1. \A c \in Sto!Workers : call[c] = Sto!Nowhere
  OBVIOUS
<1>2. StoryTypes
  BY NowhereIs DEF StoryTypes
<1>3. \A c \in Sto!Workers : CallStage(c)
  BY <1>1, NowhereIs DEF CallStage
<1>4. \A s \in Ids : StoryStage(s)
  BY FS_CardinalityType DEF StoryStage
<1>5. MediaKept
  BY <1>1, NowhereIs DEF MediaKept, Known
<1>6. Sto!ViewsCounted
  BY DEF Sto!ViewsCounted
<1> QED BY <1>2, <1>3, <1>4, <1>5, <1>6 DEF StoriesInv

\* A request moves, and the others stay where they are.
LEMMA CallMoves ==
  ASSUME StoryTypes, NEW c \in Sto!Workers, NEW to \in Places, Sto!GoTo(c, to)
  PROVE  /\ call' \in [Sto!Workers -> Places]
         /\ call'[c] = to
         /\ \A d \in Sto!Workers \ {c} : call'[d] = call[d]
  BY DEF StoryTypes, Sto!GoTo

\* The views of a story, and the requests about to count one, can be counted.
LEMMA ViewRowsFinite ==
  ASSUME StoryTypes, NEW s \in Ids
  PROVE  IsFiniteSet(ViewRows(s)) /\ Cardinality(ViewRows(s)) \in Nat
         /\ Cardinality(ViewRows(s)) <= Cardinality(Viewers) /\ Cardinality(Viewers) \in Nat
<1> DEFINE viewer == [v \in ViewRows(s) |-> v[2]]
<1>1. viewer \in Injection(ViewRows(s), Viewers)
  <2>1. viewer \in [ViewRows(s) -> Viewers]
    BY DEF ViewRows, StoryTypes
  <2>2. ASSUME NEW v \in ViewRows(s), NEW w \in ViewRows(s), viewer[v] = viewer[w] PROVE v = w
    BY <2>2 DEF ViewRows, StoryTypes
  <2> HIDE DEF viewer
  <2> QED BY <2>1, <2>2 DEF Injection, IsInjective
<1> QED BY <1>1, FS_Injection, FS_CardinalityType, StoriesAssumption

\* The views still to be counted are finitely many.
LEMMA PendingFinite ==
  ASSUME NEW s
  PROVE  IsFiniteSet(Sto!Pending(s)) /\ Cardinality(Sto!Pending(s)) \in Nat
<1>1. IsFiniteSet(Sto!Workers)
  BY FS_AddElement, StoriesAssumption DEF Sto!Workers
<1>2. Sto!Pending(s) \in SUBSET Sto!Workers
  BY DEF Sto!Pending
<1> QED BY <1>1, <1>2, FS_Subset, FS_CardinalityType

\* Who is about to count, when one request moves.
LEMMA PendingMoves ==
  ASSUME StoryTypes, NEW c \in Sto!Workers, NEW to \in Places, Sto!GoTo(c, to), NEW s \in Ids
  PROVE  /\ to.at = "incViews" /\ s \in to.ids => Sto!Pending(s)' = Sto!Pending(s) \union {c}
         /\ ~(to.at = "incViews" /\ s \in to.ids) => Sto!Pending(s)' = Sto!Pending(s) \ {c}
  BY CallMoves DEF Sto!Pending

\* What the other requests may count on, when c moves.
LEMMA OthersKeepCall ==
  ASSUME StoriesInv, NEW c \in Sto!Workers, NEW to \in Places, Sto!GoTo(c, to),
         \A d \in Sto!Workers \ {c} : \A s \in call[d].ids : story'[s] = "absent" <=> story[s] = "absent",
         \A s \in to.ids : \/ s \in call[c].ids \/ story[s] # "absent"
                           \/ \A d \in Sto!Workers : s \notin call[d].ids
  PROVE  \A d \in Sto!Workers \ {c} : CallStage(d)'
<1> SUFFICES ASSUME NEW d \in Sto!Workers \ {c} PROVE CallStage(d)'
  OBVIOUS
<1>1. /\ call'[c] = to /\ \A e \in Sto!Workers \ {c} : call'[e] = call[e]
      /\ CallStage(d)
  BY CallMoves DEF StoriesInv
<1>2. call[d].at = "save" => \A s \in call[d].ids : \A e \in Sto!Workers \ {d} : s \notin call'[e].ids
  BY <1>1 DEF CallStage
<1> QED BY <1>1, <1>2 DEF CallStage

\* The counts stay explained when no row and no count changes and nobody counts.
LEMMA CountsStay ==
  ASSUME StoriesInv, UNCHANGED <<story, views, viewsCount>>, cut \subseteq cut',
         \A s \in Ids : Sto!Pending(s)' = Sto!Pending(s)
  PROVE  Sto!ViewsCounted'
  BY DEF StoriesInv, Sto!ViewsCounted

\* What is known stays known, when no object goes untold.
LEMMA KnownStays ==
  ASSUME StoryTypes, \A t \in Dropped : url'[t] = url[t],
         objects \union erased \subseteq objects' \union erased', Dropped \subseteq Dropped', NEW o, Known(o)
  PROVE  Known(o)'
  BY DEF Known

\* The media stay, when no object goes untold and nobody is about to name one.
LEMMA MediaStays ==
  ASSUME StoriesInv, UNCHANGED url, objects \union erased \subseteq objects' \union erased', Dropped \subseteq Dropped',
         \A c \in Sto!Workers : call'[c].at = "save" => call'[c] = call[c]
  PROVE  MediaKept'
<1>1. \A o : Known(o) => Known(o)'
  BY KnownStays DEF StoriesInv
<1> QED BY <1>1 DEF StoriesInv, MediaKept

\* A request that has its story's media deleted moves on or ends.
LEMMA DroppedMoves ==
  ASSUME StoryTypes, NEW c \in Sto!Workers, NEW to \in Places, Sto!GoTo(c, to),
         \A s \in Ids : story[s] = "gone" => story'[s] = "gone", cut \subseteq cut',
         call[c].at = "deleteRows" => \A s \in call[c].ids : story'[s] = "gone" \/ s \in cut',
         call[c].at = "deleteMedia" => \A s \in call[c].ids \ call[c].by :
           \/ s \in cut'
           \/ to.at = "deleteRows" /\ s \in to.ids
           \/ to.at = "deleteMedia" /\ s \in to.ids \ to.by
  PROVE  Dropped \subseteq Dropped'
<1>1. call'[c] = to /\ \A d \in Sto!Workers \ {c} : call'[d] = call[d]
  BY CallMoves
<1> SUFFICES ASSUME NEW s \in Dropped PROVE s \in Dropped'
  OBVIOUS
<1>2. CASE story[s] = "gone" /\ s \in Ids
  BY <1>2 DEF Dropped
<1>3. CASE s \in cut
  BY <1>3 DEF Dropped
<1>4. ASSUME NEW d \in Sto!Workers, s \in Ids,
             \/ call[d].at = "deleteRows" /\ s \in call[d].ids
             \/ call[d].at = "deleteMedia" /\ s \in call[d].ids \ call[d].by
      PROVE  s \in Dropped'
  BY <1>1, <1>4 DEF Dropped
<1> QED BY <1>2, <1>3, <1>4 DEF Dropped

\* create: a story that is not there and nobody's is taken up, with an address.
LEMMA CreateStep ==
  ASSUME StoriesInv, NEW c \in Sto!Workers, Sto!Upload(c) \/ Sto!Reuse(c)
  PROVE  StoriesInv'
<1>1. PICK s \in Ids, o \in Ids \union {0} :
        /\ Sto!Fresh(s) /\ objects \subseteq objects' /\ objects' \subseteq Ids
        /\ o \in {0} \union objects' \union erased \/ \E t \in Ids : o = url[t]
        /\ Sto!GoTo(c, Sto!At("save", {s}, {o}))
  BY DEF Sto!Upload, Sto!Reuse, Sto!Addresses, StoriesInv, StoryTypes
<1>2. /\ call[c] = Sto!Nowhere
      /\ UNCHANGED <<clock, story, expires, url, erased, views, viewsCount, storyFaults, cut>>
  BY DEF Sto!Upload, Sto!Reuse
<1> DEFINE to == Sto!At("save", {s}, {o})
<1>3. to \in Places /\ to.at = "save" /\ to.ids = {s} /\ to.by = {o}
  <2>1. {s} \in SUBSET Ids /\ {o} \in SUBSET (Ids \union {0} \union Viewers)
    OBVIOUS
  <2> QED BY <2>1 DEF Sto!At, Places
<1> HIDE DEF to
<1>4. /\ call' \in [Sto!Workers -> Places] /\ call'[c] = to
      /\ \A d \in Sto!Workers \ {c} : call'[d] = call[d]
  BY <1>1, <1>3, CallMoves DEF StoriesInv, to
<1>5. story[s] = "absent" /\ \A d \in Sto!Workers : s \notin call[d].ids
  BY <1>1 DEF Sto!Fresh, Sto!Unused
<1>6. StoryTypes'
  BY <1>1, <1>2, <1>4 DEF StoriesInv, StoryTypes
<1>7. \A d \in Sto!Workers : CallStage(d)'
  <2>1. \A d \in Sto!Workers \ {c} : CallStage(d)'
    BY <1>1, <1>2, <1>3, <1>5, OthersKeepCall DEF to
  <2>2. CallStage(c)'
    BY <1>2, <1>3, <1>4, <1>5 DEF CallStage
  <2> QED BY <2>1, <2>2
<1>8. \A r \in Ids : StoryStage(r)'
  BY <1>2 DEF StoriesInv, StoryStage
<1>9. Dropped \subseteq Dropped'
  BY <1>1, <1>2, <1>3, NowhereIs, DroppedMoves DEF StoriesInv, to
<1>10. MediaKept'
  <2>1. \A a : Known(a) => Known(a)'
    BY <1>1, <1>2, <1>9, KnownStays DEF StoriesInv
  <2>2. Known(o)'
    <3>1. CASE o \in {0} \union objects' \union erased
      BY <1>2, <3>1 DEF Known
    <3>2. CASE \E t \in Ids : o = url[t]
      BY <2>1, <3>2 DEF StoriesInv, MediaKept
    <3> QED BY <1>1, <3>1, <3>2
  <2> QED BY <1>2, <1>3, <1>4, <2>1, <2>2 DEF StoriesInv, MediaKept
<1>11. Sto!ViewsCounted'
  <2>1. \A r \in Ids : Sto!Pending(r)' = Sto!Pending(r)
    BY <1>1, <1>2, <1>3, NowhereIs, PendingMoves DEF StoriesInv, Sto!Pending, to
  <2> QED BY <1>2, <2>1, CountsStay
<1> QED BY <1>6, <1>7, <1>8, <1>10, <1>11 DEF StoriesInv

\* The row of a story is written, with the address it was given.
LEMMA SaveStoryStep ==
  ASSUME StoriesInv, NEW c \in Sto!Workers, Sto!SaveStory(c)
  PROVE  StoriesInv'
<1>1. PICK s \in call[c].ids, o \in call[c].by :
        /\ clock + Life <= MaxClock
        /\ url' = [url EXCEPT ![s] = o]
        /\ story' = [story EXCEPT ![s] = "live"]
        /\ expires' = [expires EXCEPT ![s] = clock + Life]
  BY DEF Sto!SaveStory
<1>2. /\ call[c].at = "save" /\ Sto!GoTo(c, Sto!Nowhere)
      /\ UNCHANGED <<clock, objects, erased, views, viewsCount, storyFaults, cut>>
  BY DEF Sto!SaveStory
<1>3. /\ s \in Ids /\ call[c].ids = {s} /\ story[s] = "absent" /\ o \in Ids \union {0} /\ Known(o)
      /\ \A d \in Sto!Workers \ {c} : s \notin call[d].ids
  BY <1>1, <1>2 DEF StoriesInv, CallStage, MediaKept
<1>4. /\ call' \in [Sto!Workers -> Places] /\ call'[c] = Sto!Nowhere
      /\ \A d \in Sto!Workers \ {c} : call'[d] = call[d]
  BY <1>2, NowhereIs, CallMoves DEF StoriesInv
<1>5. /\ story'[s] = "live" /\ \A r \in Ids \ {s} : story'[r] = story[r]
      /\ url'[s] = o /\ \A r \in Ids \ {s} : url'[r] = url[r]
  BY <1>1, <1>3 DEF StoriesInv, StoryTypes
<1>6. StoryTypes'
  <2>1. clock + Life \in 0..MaxClock
    BY <1>1, StoriesAssumption DEF StoriesInv, StoryTypes
  <2> QED BY <1>1, <1>2, <1>3, <1>4, <2>1 DEF StoriesInv, StoryTypes
<1>7. \A d \in Sto!Workers : CallStage(d)'
  <2>1. \A d \in Sto!Workers \ {c} : \A r \in call[d].ids : r \in Ids /\ r # s
    BY <1>3 DEF StoriesInv, StoryTypes, Places
  <2>2. \A d \in Sto!Workers \ {c} : CallStage(d)'
    BY <1>2, <1>5, <2>1, NowhereIs, OthersKeepCall
  <2>3. CallStage(c)'
    BY <1>4, NowhereIs DEF CallStage
  <2> QED BY <2>2, <2>3
<1>8. \A r \in Ids : StoryStage(r)'
  BY <1>2, <1>5 DEF StoriesInv, StoryStage
<1>9. MediaKept'
  <2>1. Dropped \subseteq Dropped' /\ Dropped \subseteq Ids
    BY <1>2, <1>3, <1>5, NowhereIs, DroppedMoves DEF StoriesInv, StoryTypes, Dropped
  <2>2. s \notin Dropped
    BY <1>2, <1>3 DEF StoriesInv, StoryStage, Dropped
  <2>3. \A a : Known(a) => Known(a)'
    BY <1>2, <1>5, <2>1, <2>2 DEF Known
  <2>4. ASSUME NEW r \in Ids PROVE Known(url[r])'
    <3>1. Known(url[r])
      BY DEF StoriesInv, MediaKept
    <3> QED BY <1>2, <1>3, <1>5, <2>1, <2>2, <3>1 DEF Known
  <2>5. \A d \in Sto!Workers : call'[d].at = "save" => \A a \in call'[d].by : Known(a)'
    BY <1>4, <2>3, NowhereIs DEF StoriesInv, MediaKept
  <2> QED BY <2>4, <2>5 DEF MediaKept
<1>10. Sto!ViewsCounted'
  <2>1. \A r \in Ids : Sto!Pending(r)' = Sto!Pending(r)
    BY <1>2, NowhereIs, PendingMoves DEF StoriesInv, Sto!Pending
  <2>2. ViewRows(s) = {} /\ Sto!Pending(s) = {} /\ viewsCount[s] = 0
    <3>1. ViewRows(s) = {} /\ viewsCount[s] = 0
      BY <1>3 DEF StoriesInv, StoryStage, ViewRows
    <3>2. Sto!Pending(s) = {}
      BY <1>2, <1>3 DEF Sto!Pending
    <3> QED BY <3>1, <3>2
  <2>3. Cardinality(ViewRows(s)) = 0 /\ Cardinality(Sto!Pending(s)) = 0
    BY <2>2, FS_EmptySet
  <2>4. StoryCounted(s)'
    <3>1. ViewRows(s)' = ViewRows(s) /\ viewsCount'[s] = viewsCount[s]
      BY <1>2 DEF ViewRows
    <3> QED BY <1>3, <2>1, <2>2, <2>3, <3>1 DEF StoryCounted
  <2>5. ASSUME NEW r \in Ids \ {s}, story'[r] = "live" PROVE StoryCounted(r)'
    <3>1. StoryCounted(r)
      BY <1>5, <2>5, CountedEach DEF StoriesInv
    <3> QED BY <1>2, <2>1, <3>1 DEF StoryCounted, ViewRows
  <2> QED BY <2>4, <2>5, CountedEachNext
<1> QED BY <1>6, <1>7, <1>8, <1>9, <1>10 DEF StoriesInv

\* A request takes up stories that are there, or stops, and only its place changes.
LEMMA PlaceStep ==
  ASSUME StoriesInv, NEW c \in Sto!Workers, NEW to \in Places, Sto!GoTo(c, to),
         UNCHANGED <<clock, story, expires, url, objects, erased, views, viewsCount>>,
         storyFaults' \in 0..StoryFaults, cut \subseteq cut', cut' \subseteq Ids,
         \A s \in cut' : story[s] # "absent",
         to.at # "save", to.at # "incViews",
         to.at = "insertView" => \E s \in Ids : to.ids = {s},
         to.at = "idle" => to.ids = {},
         to.at = "insertView" => \E u \in Viewers : to.by = {u},
         to.at = "deleteMedia" => to.by \subseteq to.ids,
         \A s \in to.ids : story[s] # "absent",
         call[c].at = "incViews" => call[c].ids \subseteq cut',
         call[c].at = "deleteRows" => call[c].ids \subseteq cut',
         call[c].at = "deleteMedia" => call[c].ids \ call[c].by \subseteq cut'
  PROVE  StoriesInv'
<1>1. /\ call' \in [Sto!Workers -> Places] /\ call'[c] = to
      /\ \A d \in Sto!Workers \ {c} : call'[d] = call[d]
  BY CallMoves DEF StoriesInv
<1>2. StoryTypes'
  BY <1>1 DEF StoriesInv, StoryTypes
<1>3. \A d \in Sto!Workers : CallStage(d)'
  <2>1. \A d \in Sto!Workers \ {c} : CallStage(d)'
    BY OthersKeepCall
  <2>2. CallStage(c)'
    BY <1>1 DEF CallStage
  <2> QED BY <2>1, <2>2
<1>4. \A s \in Ids : StoryStage(s)'
  BY DEF StoriesInv, StoryStage
<1>5. MediaKept'
  <2>1. \A d \in Sto!Workers : call'[d].at = "save" => call'[d] = call[d]
    BY <1>1
  <2>2. Dropped \subseteq Dropped'
    BY DroppedMoves DEF StoriesInv
  <2> QED BY <2>1, <2>2, MediaStays
<1>6. Sto!ViewsCounted'
  <2> SUFFICES ASSUME NEW s \in Ids, story[s] = "live" PROVE StoryCounted(s)'
    BY CountedEachNext
  <2>1. Sto!Pending(s)' = Sto!Pending(s) \ {c}
    BY PendingMoves DEF StoriesInv
  <2>2. s \notin cut' => c \notin Sto!Pending(s)
    BY DEF Sto!Pending
  <2>3. /\ Cardinality(Sto!Pending(s)) \in Nat /\ IsFiniteSet(Sto!Pending(s))
        /\ Cardinality(ViewRows(s)) \in Nat /\ viewsCount[s] \in Nat
    BY PendingFinite, ViewRowsFinite DEF StoriesInv, StoryTypes
  <2>4. /\ Cardinality(Sto!Pending(s) \ {c}) \in Nat
        /\ Cardinality(Sto!Pending(s) \ {c}) <= Cardinality(Sto!Pending(s))
        /\ s \notin cut' => Cardinality(Sto!Pending(s) \ {c}) = Cardinality(Sto!Pending(s))
    <3>1. Cardinality(Sto!Pending(s) \ {c}) =
            IF c \in Sto!Pending(s) THEN Cardinality(Sto!Pending(s)) - 1 ELSE Cardinality(Sto!Pending(s))
      BY <2>3, FS_RemoveElement
    <3>2. Cardinality(Sto!Pending(s) \ {c}) \in Nat
      BY <2>3, FS_RemoveElement, FS_CardinalityType
    <3> QED BY <3>1, <3>2, <2>2, <2>3
  <2>5. StoryCounted(s)
    BY CountedEach DEF StoriesInv
  <2>6. ViewRows(s)' = ViewRows(s)
    BY DEF ViewRows
  <2> QED BY <2>1, <2>3, <2>4, <2>5, <2>6 DEF StoryCounted
<1> QED BY <1>2, <1>3, <1>4, <1>5, <1>6 DEF StoriesInv

\* The row of a view is inserted, or refused.
LEMMA InsertViewStep ==
  ASSUME StoriesInv, NEW c \in Sto!Workers, Sto!InsertView(c)
  PROVE  StoriesInv'
<1>1. PICK s \in call[c].ids, u \in call[c].by :
        IF <<s, u>> \in views \/ story[s] # "live"
        THEN UNCHANGED views /\ Sto!GoTo(c, Sto!Nowhere)
        ELSE views' = views \union {<<s, u>>} /\ Sto!GoTo(c, Sto!At("incViews", {s}, {u}))
  BY DEF Sto!InsertView
<1>2. /\ call[c].at = "insertView"
      /\ UNCHANGED <<clock, story, expires, url, objects, erased, viewsCount, storyFaults, cut>>
  BY DEF Sto!InsertView
<1>3. s \in Ids /\ u \in Viewers /\ call[c].ids = {s}
  BY <1>1, <1>2 DEF StoriesInv, CallStage
<1>4. CASE UNCHANGED views /\ Sto!GoTo(c, Sto!Nowhere)
  <2>1. \A r \in cut : story[r] # "absent"
    BY DEF StoriesInv, StoryStage, StoryTypes
  <2> QED BY <1>2, <1>4, <2>1, NowhereIs, PlaceStep DEF StoriesInv, StoryTypes
<1>5. CASE /\ <<s, u>> \notin views /\ story[s] = "live"
           /\ views' = views \union {<<s, u>>} /\ Sto!GoTo(c, Sto!At("incViews", {s}, {u}))
  <2> DEFINE to == Sto!At("incViews", {s}, {u})
  <2>1. to \in Places /\ to.at = "incViews" /\ to.ids = {s} /\ to.by = {u}
    <3>1. {s} \in SUBSET Ids /\ {u} \in SUBSET (Ids \union {0} \union Viewers)
      BY <1>3
    <3> QED BY <3>1 DEF Sto!At, Places
  <2> HIDE DEF to
  <2>2. /\ call' \in [Sto!Workers -> Places] /\ call'[c] = to
        /\ \A d \in Sto!Workers \ {c} : call'[d] = call[d]
    BY <1>5, <2>1, CallMoves DEF StoriesInv, to
  <2>3. StoryTypes'
    BY <1>2, <1>3, <1>5, <2>2 DEF StoriesInv, StoryTypes
  <2>4. \A d \in Sto!Workers : CallStage(d)'
    <3>1. \A d \in Sto!Workers \ {c} : CallStage(d)'
      BY <1>2, <1>3, <1>5, <2>1, OthersKeepCall DEF to
    <3>2. CallStage(c)'
      BY <1>2, <1>3, <1>5, <2>1, <2>2 DEF CallStage
    <3> QED BY <3>1, <3>2
  <2>5. \A r \in Ids : StoryStage(r)'
    <3>1. \A r \in Ids : story[r] # "live" => \A v \in views' : v[1] # r
      BY <1>5 DEF StoriesInv, StoryStage
    <3> QED BY <3>1, <1>2 DEF StoriesInv, StoryStage
  <2>6. MediaKept'
    <3>1. \A d \in Sto!Workers : call'[d].at = "save" => call'[d] = call[d]
      BY <2>1, <2>2
    <3>2. Dropped \subseteq Dropped'
      BY <1>2, <1>5, <2>1, DroppedMoves DEF StoriesInv, to
    <3> QED BY <1>2, <3>1, <3>2, MediaStays
  <2>7. Sto!ViewsCounted'
    <3>1. ASSUME NEW r \in Ids \ {s}, story'[r] = "live" PROVE StoryCounted(r)'
      <4>1. Sto!Pending(r)' = Sto!Pending(r) \ {c}
        BY <1>5, <2>1, PendingMoves DEF StoriesInv, to
      <4>2. c \notin Sto!Pending(r)
        BY <1>2 DEF Sto!Pending
      <4>3. ViewRows(r)' = ViewRows(r)
        BY <1>5 DEF ViewRows
      <4>4. StoryCounted(r)
        BY <1>2, <3>1, CountedEach DEF StoriesInv
      <4>5. Sto!Pending(r)' = Sto!Pending(r)
        BY <4>1, <4>2
      <4> QED BY <1>2, <4>3, <4>4, <4>5 DEF StoryCounted
    <3>2. StoryCounted(s)'
      <4>1. Sto!Pending(s)' = Sto!Pending(s) \union {c}
        BY <1>3, <1>5, <2>1, PendingMoves DEF StoriesInv, to
      <4>0. c \notin Sto!Pending(s)
        BY <1>2 DEF Sto!Pending
      <4>2. ViewRows(s)' = ViewRows(s) \union {<<s, u>>} /\ <<s, u>> \notin ViewRows(s)
        BY <1>5 DEF ViewRows
      <4>3. /\ IsFiniteSet(ViewRows(s)) /\ IsFiniteSet(Sto!Pending(s))
            /\ Cardinality(ViewRows(s)) \in Nat /\ Cardinality(Sto!Pending(s)) \in Nat /\ viewsCount[s] \in Nat
        BY <1>3, ViewRowsFinite, PendingFinite DEF StoriesInv, StoryTypes
      <4>4. Cardinality(ViewRows(s) \union {<<s, u>>}) = Cardinality(ViewRows(s)) + 1
        BY <4>2, <4>3, FS_AddElement
      <4>5. Cardinality(Sto!Pending(s) \union {c}) = Cardinality(Sto!Pending(s)) + 1
        BY <4>0, <4>3, FS_AddElement
      <4>6. StoryCounted(s)
        BY <1>3, <1>5, CountedEach DEF StoriesInv
      <4> QED BY <1>2, <4>1, <4>2, <4>3, <4>4, <4>5, <4>6 DEF StoryCounted
    <3> QED BY <3>1, <3>2, CountedEachNext
  <2> QED BY <2>3, <2>4, <2>5, <2>6, <2>7 DEF StoriesInv
<1> QED BY <1>1, <1>4, <1>5

\* A view is counted, if its story is still there.
LEMMA IncViewsStep ==
  ASSUME StoriesInv, NEW c \in Sto!Workers, Sto!IncViews(c)
  PROVE  StoriesInv'
<1>1. PICK s \in call[c].ids :
        viewsCount' = IF story[s] = "live" THEN [viewsCount EXCEPT ![s] = @ + 1] ELSE viewsCount
  BY DEF Sto!IncViews
<1>2. /\ call[c].at = "incViews" /\ Sto!GoTo(c, Sto!Nowhere)
      /\ UNCHANGED <<clock, story, expires, url, objects, erased, views, storyFaults, cut>>
  BY DEF Sto!IncViews
<1>3. s \in Ids /\ call[c].ids = {s}
  BY <1>1, <1>2 DEF StoriesInv, CallStage
<1>4. /\ call' \in [Sto!Workers -> Places] /\ call'[c] = Sto!Nowhere
      /\ \A d \in Sto!Workers \ {c} : call'[d] = call[d]
  BY <1>2, NowhereIs, CallMoves DEF StoriesInv
<1>5. /\ viewsCount' \in [Ids -> Nat] /\ \A r \in Ids \ {s} : viewsCount'[r] = viewsCount[r]
      /\ story[s] = "live" => viewsCount'[s] = viewsCount[s] + 1
      /\ story[s] # "live" => viewsCount'[s] = viewsCount[s]
  BY <1>1, <1>3 DEF StoriesInv, StoryTypes
<1>6. StoryTypes'
  BY <1>2, <1>4, <1>5 DEF StoriesInv, StoryTypes
<1>7. \A d \in Sto!Workers : CallStage(d)'
  <2>1. \A d \in Sto!Workers \ {c} : CallStage(d)'
    BY <1>2, NowhereIs, OthersKeepCall
  <2>2. CallStage(c)'
    BY <1>4, NowhereIs DEF CallStage
  <2> QED BY <2>1, <2>2
<1>8. MediaKept'
  <2>1. \A d \in Sto!Workers : call'[d].at = "save" => call'[d] = call[d]
    BY <1>4, NowhereIs
  <2>2. Dropped \subseteq Dropped'
    BY <1>2, NowhereIs, DroppedMoves DEF StoriesInv
  <2> QED BY <1>2, <2>1, <2>2, MediaStays
<1>9. ASSUME story[s] = "live"
      PROVE  StoryCounted(s)' /\ viewsCount'[s] <= Cardinality(Viewers)
  <2>1. Sto!Pending(s)' = Sto!Pending(s) \ {c} /\ c \in Sto!Pending(s)
    BY <1>2, <1>3, NowhereIs, PendingMoves DEF StoriesInv, Sto!Pending
  <2>2. ViewRows(s)' = ViewRows(s)
    BY <1>2 DEF ViewRows
  <2>3. /\ IsFiniteSet(Sto!Pending(s)) /\ Cardinality(Sto!Pending(s)) \in Nat /\ viewsCount[s] \in Nat
        /\ Cardinality(ViewRows(s)) \in Nat /\ Cardinality(ViewRows(s)) <= Cardinality(Viewers)
        /\ Cardinality(Viewers) \in Nat
    BY <1>3, ViewRowsFinite, PendingFinite DEF StoriesInv, StoryTypes
  <2>4. /\ Cardinality(Sto!Pending(s) \ {c}) = Cardinality(Sto!Pending(s)) - 1
        /\ Cardinality(Sto!Pending(s) \ {c}) \in Nat
    BY <2>1, <2>3, FS_RemoveElement, FS_CardinalityType
  <2>5. StoryCounted(s)
    BY <1>3, <1>9, CountedEach DEF StoriesInv
  <2>6. viewsCount'[s] = viewsCount[s] + 1
    BY <1>5, <1>9
  <2> QED BY <1>2, <2>1, <2>2, <2>3, <2>4, <2>5, <2>6 DEF StoryCounted
<1>10. \A r \in Ids : StoryStage(r)'
  BY <1>2, <1>3, <1>5, <1>9 DEF StoriesInv, StoryStage
<1>11. Sto!ViewsCounted'
  <2>1. ASSUME NEW r \in Ids \ {s}, story'[r] = "live" PROVE StoryCounted(r)'
    <3>1. Sto!Pending(r)' = Sto!Pending(r) \ {c} /\ c \notin Sto!Pending(r)
      BY <1>2, <1>3, NowhereIs, PendingMoves DEF StoriesInv, Sto!Pending
    <3>2. Sto!Pending(r)' = Sto!Pending(r) /\ ViewRows(r)' = ViewRows(r)
      BY <1>2, <3>1 DEF ViewRows
    <3>3. StoryCounted(r)
      BY <1>2, <2>1, CountedEach DEF StoriesInv
    <3> QED BY <1>2, <1>5, <3>2, <3>3 DEF StoryCounted
  <2> QED BY <1>2, <1>9, <2>1, CountedEachNext
<1> QED BY <1>6, <1>7, <1>8, <1>10, <1>11 DEF StoriesInv

\* The media of a story are deleted, or that fails and is only logged.
LEMMA DeleteMediaStep ==
  ASSUME StoriesInv, NEW c \in Sto!Workers, Sto!DeleteMedia(c)
  PROVE  StoriesInv'
<1>1. PICK s \in call[c].by :
        /\ \/ objects' = objects \ {url[s]} /\ UNCHANGED storyFaults
           \/ UNCHANGED objects /\ Sto!Fault
        /\ Sto!GoTo(c, IF call[c].by = {s} THEN Sto!At("deleteRows", call[c].ids, {})
                       ELSE [call[c] EXCEPT !.by = @ \ {s}])
  BY DEF Sto!DeleteMedia
<1>2. /\ call[c].at = "deleteMedia" /\ call[c] \in Places /\ call[c].by \subseteq call[c].ids
      /\ UNCHANGED <<clock, story, expires, url, erased, views, viewsCount, cut>>
  BY DEF Sto!DeleteMedia, StoriesInv, StoryTypes, CallStage
<1> DEFINE to == IF call[c].by = {s} THEN Sto!At("deleteRows", call[c].ids, {})
                 ELSE [call[c] EXCEPT !.by = @ \ {s}]
<1>3. /\ to \in Places /\ to.ids = call[c].ids /\ s \in call[c].ids /\ s \in Ids
      /\ \/ call[c].by = {s} /\ to.at = "deleteRows"
         \/ to.at = "deleteMedia" /\ to.by = call[c].by \ {s}
  <2>1. call[c].ids \in SUBSET Ids
    BY <1>2 DEF Places
  <2>2. CASE call[c].by = {s}
    BY <1>1, <1>2, <2>1, <2>2, PlaceOf
  <2>3. CASE call[c].by # {s}
    BY <1>1, <1>2, <2>1, <2>3 DEF Places
  <2> QED BY <2>2, <2>3
<1>4. Sto!GoTo(c, to)
  BY <1>1
<1> HIDE DEF to
<1>5. /\ call' \in [Sto!Workers -> Places] /\ call'[c] = to
      /\ \A d \in Sto!Workers \ {c} : call'[d] = call[d]
  BY <1>3, <1>4, CallMoves DEF StoriesInv
<1>6. StoryTypes'
  <2>1. storyFaults' \in 0..StoryFaults
    BY <1>1, StoriesAssumption DEF StoriesInv, StoryTypes, Sto!Fault
  <2> QED BY <1>1, <1>2, <1>5, <2>1 DEF StoriesInv, StoryTypes
<1>7. \A d \in Sto!Workers : CallStage(d)'
  <2>1. \A d \in Sto!Workers \ {c} : CallStage(d)'
    BY <1>2, <1>3, <1>4, OthersKeepCall
  <2>2. CallStage(c)'
    BY <1>2, <1>3, <1>5 DEF StoriesInv, CallStage
  <2> QED BY <2>1, <2>2
<1>8. \A r \in Ids : StoryStage(r)'
  BY <1>2 DEF StoriesInv, StoryStage
<1>9. Dropped \subseteq Dropped' /\ s \in Dropped'
  <2>1. Dropped \subseteq Dropped'
    BY <1>2, <1>3, <1>4, DroppedMoves DEF StoriesInv
  <2>2. s \in Dropped'
    BY <1>3, <1>5 DEF Dropped
  <2> QED BY <2>1, <2>2
<1>10. MediaKept'
  <2>1. \A d \in Sto!Workers : call'[d].at = "save" => call'[d] = call[d]
    BY <1>3, <1>5
  <2>2. objects \ {url[s]} \subseteq objects' /\ erased' = erased
    BY <1>1, <1>2
  <2>3. \A o : Known(o) => Known(o)'
    BY <1>2, <1>9, <2>2 DEF Known
  <2> QED BY <1>2, <2>1, <2>3 DEF StoriesInv, MediaKept
<1>11. Sto!ViewsCounted'
  <2>1. \A r \in Ids : Sto!Pending(r)' = Sto!Pending(r)
    BY <1>2, <1>3, <1>4, PendingMoves DEF StoriesInv, Sto!Pending
  <2> QED BY <1>2, <2>1, CountsStay
<1> QED BY <1>6, <1>7, <1>8, <1>10, <1>11 DEF StoriesInv

\* The rows of stories are deleted, and their views with them.
LEMMA DeleteRowsStep ==
  ASSUME StoriesInv, NEW c \in Sto!Workers, Sto!DeleteRows(c)
  PROVE  StoriesInv'
<1> DEFINE S == call[c].ids
<1>1. /\ call[c].at = "deleteRows" /\ Sto!GoTo(c, Sto!Nowhere)
      /\ story' = [s \in Ids |-> IF s \in S THEN "gone" ELSE story[s]]
      /\ expires' = [s \in Ids |-> IF s \in S THEN 0 ELSE expires[s]]
      /\ viewsCount' = [s \in Ids |-> IF s \in S THEN 0 ELSE viewsCount[s]]
      /\ views' = {v \in views : v[1] \notin S}
      /\ UNCHANGED <<clock, url, objects, erased, storyFaults, cut>>
  BY DEF Sto!DeleteRows, Sto!RemoveRows
<1>2. /\ call' \in [Sto!Workers -> Places] /\ call'[c] = Sto!Nowhere
      /\ \A d \in Sto!Workers \ {c} : call'[d] = call[d]
  BY <1>1, NowhereIs, CallMoves DEF StoriesInv
<1>3. \A s \in S : s \in Ids /\ story[s] # "absent"
  BY <1>1 DEF StoriesInv, CallStage, StoryTypes, Places
<1>4. \A s \in Ids : /\ story'[s] = "absent" <=> story[s] = "absent"
                     /\ s \in S => story'[s] = "gone"
                     /\ s \notin S => story'[s] = story[s] /\ viewsCount'[s] = viewsCount[s]
                     /\ viewsCount'[s] \in {0, viewsCount[s]}
  BY <1>1, <1>3
<1>5. StoryTypes'
  BY <1>1, <1>2, StoriesAssumption DEF StoriesInv, StoryTypes
<1>6. \A d \in Sto!Workers : CallStage(d)'
  <2>1. \A d \in Sto!Workers \ {c} : \A s \in call[d].ids : s \in Ids
    BY DEF StoriesInv, StoryTypes, Places
  <2>2. \A d \in Sto!Workers \ {c} : CallStage(d)'
    BY <1>1, <1>4, <2>1, NowhereIs, OthersKeepCall
  <2>3. CallStage(c)'
    BY <1>2, NowhereIs DEF CallStage
  <2> QED BY <2>2, <2>3
<1>7. \A s \in Ids : StoryStage(s)'
  <2>1. Cardinality(Viewers) \in Nat
    BY FS_CardinalityType, StoriesAssumption
  <2> QED BY <1>1, <1>4, <2>1 DEF StoriesInv, StoryStage
<1>8. MediaKept'
  <2>1. \A d \in Sto!Workers : call'[d].at = "save" => call'[d] = call[d]
    BY <1>2, NowhereIs
  <2>2. Dropped \subseteq Dropped'
    BY <1>1, <1>3, <1>4, NowhereIs, DroppedMoves DEF StoriesInv
  <2> QED BY <1>1, <2>1, <2>2, MediaStays
<1>9. Sto!ViewsCounted'
  <2>1. ASSUME NEW r \in Ids, story'[r] = "live" PROVE StoryCounted(r)'
    <3>1. Sto!Pending(r)' = Sto!Pending(r)
      BY <1>1, NowhereIs, PendingMoves DEF StoriesInv, Sto!Pending
    <3>2. r \notin S /\ story[r] = "live"
      BY <1>4, <2>1
    <3>3. ViewRows(r)' = ViewRows(r)
      BY <1>1, <3>2 DEF ViewRows
    <3>4. StoryCounted(r)
      BY <3>2, CountedEach DEF StoriesInv
    <3> QED BY <1>1, <1>4, <3>1, <3>2, <3>3, <3>4 DEF StoryCounted
  <2> QED BY <2>1, CountedEachNext
<1> QED BY <1>5, <1>6, <1>7, <1>8, <1>9 DEF StoriesInv

\* deleteExpired and delete take up stories, a view is begun, time passes, or a
\* request fails.
LEMMA StoriesStep ==
  ASSUME StoriesInv, [Sto!Next]_storyVars
  PROVE  StoriesInv'
<1>0. /\ StoryTypes /\ \A s \in cut : story[s] # "absent"
      /\ \A c \in Sto!Workers : CallStage(c) /\ call[c] \in Places
      /\ Calls \subseteq Sto!Workers /\ Job \in Sto!Workers
  BY DEF StoriesInv, StoryStage, StoryTypes, Sto!Workers
<1>1. CASE Sto!Tick \/ UNCHANGED storyVars
  <2>1. /\ clock' \in 0..MaxClock
        /\ UNCHANGED <<story, expires, url, objects, erased, views, viewsCount, call, storyFaults, cut>>
    BY <1>0, <1>1, StoriesAssumption DEF Sto!Tick, storyVars, StoryTypes
  <2>2. StoryTypes'
    BY <1>0, <2>1 DEF StoryTypes
  <2>3. \A c \in Sto!Workers : CallStage(c)'
    BY <2>1 DEF StoriesInv, CallStage
  <2>4. \A s \in Ids : StoryStage(s)'
    BY <2>1 DEF StoriesInv, StoryStage
  <2>5. MediaKept'
    BY <2>1, MediaStays DEF Dropped
  <2>6. Sto!ViewsCounted'
    BY <2>1, CountsStay DEF Sto!Pending
  <2> QED BY <2>2, <2>3, <2>4, <2>5, <2>6 DEF StoriesInv
<1>8. CASE Sto!DeleteByKey
  <2>1. /\ objects' \subseteq Ids /\ erased' \subseteq Ids /\ objects \union erased \subseteq objects' \union erased'
        /\ UNCHANGED <<clock, story, expires, url, views, viewsCount, call, storyFaults, cut>>
    BY <1>0, <1>8 DEF Sto!DeleteByKey, StoryTypes
  <2>2. StoryTypes'
    BY <1>0, <2>1 DEF StoryTypes
  <2>3. \A c \in Sto!Workers : CallStage(c)'
    BY <2>1 DEF StoriesInv, CallStage
  <2>4. \A s \in Ids : StoryStage(s)'
    BY <2>1 DEF StoriesInv, StoryStage
  <2>5. MediaKept'
    BY <2>1, MediaStays DEF Dropped
  <2>6. Sto!ViewsCounted'
    BY <2>1, CountsStay DEF Sto!Pending
  <2> QED BY <2>2, <2>3, <2>4, <2>5, <2>6 DEF StoriesInv
<1>2. ASSUME NEW c \in Sto!Workers, NEW S \in SUBSET Ids, \A s \in S : story[s] # "absent", call[c] = Sto!Nowhere,
             Sto!GoTo(c, Sto!At("deleteMedia", S, S)),
             UNCHANGED <<clock, story, expires, url, objects, erased, views, viewsCount, storyFaults, cut>>
      PROVE  StoriesInv'
  <2>1. /\ Sto!At("deleteMedia", S, S) \in Places /\ Sto!At("deleteMedia", S, S).at = "deleteMedia"
        /\ Sto!At("deleteMedia", S, S).ids = S /\ Sto!At("deleteMedia", S, S).by = S
    BY PlaceOf
  <2> QED BY <1>0, <1>2, <2>1, NowhereIs, PlaceStep DEF StoryTypes
<1>3. ASSUME Sto!ExpireFind PROVE StoriesInv'
  <2>1. Sto!Expired \in SUBSET Ids /\ \A s \in Sto!Expired : story[s] # "absent"
    BY DEF Sto!Expired
  <2> QED BY <1>0, <1>2, <1>3, <2>1 DEF Sto!ExpireFind
<1>4. ASSUME NEW c \in Sto!Workers, Sto!DeleteFind(c) PROVE StoriesInv'
  <2>1. PICK s \in Ids : story[s] = "live" /\ Sto!GoTo(c, Sto!At("deleteMedia", {s}, {s}))
    BY <1>4 DEF Sto!DeleteFind
  <2>2. {s} \in SUBSET Ids /\ \A r \in {s} : story[r] # "absent"
    BY <2>1
  <2> QED BY <1>2, <1>4, <2>1, <2>2 DEF Sto!DeleteFind
<1>5. ASSUME NEW c \in Sto!Workers, Sto!ViewFind(c) PROVE StoriesInv'
  <2>1. PICK s \in Ids, u \in Viewers :
          story[s] = "live" /\ Sto!GoTo(c, Sto!At("insertView", {s}, {u}))
    BY <1>5 DEF Sto!ViewFind, Sto!Visible
  <2>2. /\ call[c] = Sto!Nowhere
        /\ UNCHANGED <<clock, story, expires, url, objects, erased, views, viewsCount, storyFaults, cut>>
    BY <1>5 DEF Sto!ViewFind
  <2> DEFINE to == Sto!At("insertView", {s}, {u})
  <2>3. {s} \in SUBSET Ids /\ {u} \in SUBSET (Ids \union {0} \union Viewers)
    OBVIOUS
  <2>4. to \in Places /\ to.at = "insertView" /\ to.ids = {s} /\ to.by = {u}
    BY <2>3 DEF Sto!At, Places
  <2> HIDE DEF to
  <2>5. Sto!GoTo(c, to) /\ to.ids = {s} /\ \A r \in to.ids : story[r] # "absent"
    BY <2>1, <2>4 DEF to
  <2> QED BY <1>0, <2>2, <2>4, <2>5, NowhereIs, PlaceStep DEF StoryTypes
<1>6. ASSUME NEW c \in Sto!Workers, Sto!Fail(c) PROVE StoriesInv'
  <2>1. /\ Sto!Fault /\ Sto!GoTo(c, Sto!Nowhere)
        /\ cut' = cut \union (IF call[c].at \in {"incViews", "deleteRows"} THEN call[c].ids ELSE {})
                      \union (IF call[c].at = "deleteMedia" THEN call[c].ids \ call[c].by ELSE {})
        /\ UNCHANGED <<clock, story, expires, url, objects, erased, views, viewsCount>>
    BY <1>6 DEF Sto!Fail
  <2>2. storyFaults' \in 0..StoryFaults
    BY <1>0, <2>1, StoriesAssumption DEF StoryTypes, Sto!Fault
  <2>3. call[c].ids \subseteq Ids /\ (call[c].at # "save" => \A s \in call[c].ids : story[s] # "absent")
    BY <1>0 DEF CallStage, Places
  <2>4. /\ cut \subseteq cut' /\ cut' \subseteq Ids /\ \A s \in cut' : story[s] # "absent"
        /\ call[c].at \in {"incViews", "deleteRows"} => call[c].ids \subseteq cut'
        /\ call[c].at = "deleteMedia" => call[c].ids \ call[c].by \subseteq cut'
    BY <1>0, <2>1, <2>3 DEF StoryTypes
  <2> QED BY <2>1, <2>2, <2>4, NowhereIs, PlaceStep
<1>7. ASSUME NEW c \in Sto!Workers, Sto!Act(c) \/ Sto!Continue(c) \/ Sto!Fail(c) PROVE StoriesInv'
  BY <1>4, <1>5, <1>6, <1>7, CreateStep, SaveStoryStep, InsertViewStep, IncViewsStep, DeleteMediaStep, DeleteRowsStep
     DEF Sto!Act, Sto!Continue
<1> QED BY <1>0, <1>1, <1>3, <1>7, <1>8 DEF Sto!Next, Sto!storyVars, storyVars

\* Stories, views and media stay explained, with what the clean-up holds.
THEOREM StoriesInvariant == MCSpec => []StoriesInv
<1>1. MCInit => StoriesInv
  BY StoriesInit DEF MCInit
<1>2. StoriesInv /\ [MCNext]_allVars => StoriesInv'
  BY StoriesStep, StepOfOne
<1> QED BY <1>1, <1>2, PTL DEF MCSpec, allVars

\* A visible story shows its media or its loss is explained, and every view of a
\* story that is there is counted once (Stories!MediaThere and ViewsCounted).
THEOREM StoriesAreExplained == MCSpec => []StoriesExplained
<1>1. StoriesInv => StoriesExplained
  <2> SUFFICES ASSUME StoriesInv, NEW s \in Sto!Visible, url[s] \notin objects
               PROVE  \/ url[s] \in {0} \union erased
                      \/ s \in Sto!Doomed \union cut
                      \/ \E t \in Ids \ {s} : url[t] = url[s] /\ (story[t] = "gone" \/ t \in Sto!Doomed \union cut)
    BY DEF StoriesExplained, Sto!MediaThere, StoriesInv
  <2>1. s \in Ids /\ story[s] = "live"
    BY DEF Sto!Visible
  <2>2. Known(url[s])
    BY <2>1 DEF StoriesInv, MediaKept
  <2>3. \A t \in Dropped : t \in Ids /\ (story[t] = "gone" \/ t \in Sto!Doomed \union cut)
    BY DEF Dropped, Sto!Doomed, StoriesInv, StoryTypes
  <2> QED BY <2>1, <2>2, <2>3 DEF Known
<1> QED BY <1>1, StoriesInvariant, PTL

\* Every component keeps its types: of stories, a view has a live story, and the
\* count of views stays within the number of users; of tokens, a row has one
\* device id at most.
THEOREM TypesHold == MCSpec => []Types
<1>1. DeliveryInv => TypeOK
  BY DEF DeliveryInv
<1>2. StoriesInv => Sto!TypeOK
  <2> SUFFICES ASSUME StoriesInv PROVE Sto!TypeOK
    OBVIOUS
  <2>1. \A v \in views : v[1] \in Ids /\ story[v[1]] = "live"
    BY DEF StoriesInv, StoryTypes, StoryStage
  <2>2. viewsCount \in [Ids -> 0..Cardinality(Viewers)]
    <3>1. Cardinality(Viewers) \in Nat
      BY FS_CardinalityType, StoriesAssumption
    <3> QED BY <3>1 DEF StoriesInv, StoryTypes, StoryStage
  <2>3. \A c \in Sto!Workers : call[c].at \in {"save", "insertView", "incViews"} =>
          Cardinality(call[c].ids) = 1 /\ Cardinality(call[c].by) = 1
    <3>1. ASSUME NEW c \in Sto!Workers, call[c].at \in {"save", "insertView", "incViews"}
          PROVE  (\E x : call[c].ids = {x}) /\ (\E x : call[c].by = {x})
      <4>1. CallStage(c)
        BY DEF StoriesInv
      <4> QED BY <3>1, <4>1 DEF CallStage
    <3>2. \A x : Cardinality({x}) = 1
      BY FS_Singleton
    <3> QED BY <3>1, <3>2
  <2> QED BY <2>1, <2>2, <2>3, SameCardinality DEF StoriesInv, StoryTypes, Sto!TypeOK
<1>3. DevicesInv => Dev!TypeOK
  <2> SUFFICES ASSUME DevicesInv PROVE Dev!TypeOK
    OBVIOUS
  <2>1. \A r \in DeviceRows : phone[r] \in DeviceIds
    BY DEF DevicesInv, DeviceTypes
  <2>2. ASSUME NEW p \in DeviceIds PROVE p \subseteq Phones /\ Dev!Cardinality(p) <= 1
    <3>1. \A S : Dev!Cardinality(S) = Cardinality(S)
      BY DEF Dev!Cardinality, Cardinality
    <3>2. Cardinality({}) = 0 /\ \A d \in Phones : Cardinality({d}) = 1
      BY FS_EmptySet, FS_Singleton
    <3> QED BY <3>1, <3>2 DEF DeviceIds
  <2> QED BY <2>1, <2>2 DEF DevicesInv, DeviceTypes, DeviceRows, Dev!TypeOK
<1>4. ScheduleInv => Sch!TypeOK
  BY DEF ScheduleInv, Sch!TypeOK, Sch!Owed
<1> QED BY <1>1, <1>2, <1>3, <1>4, DeliveryInvariant, StoriesInvariant, DevicesInvariant, ScheduleInvariant, PTL DEF Types
=============================================================================
