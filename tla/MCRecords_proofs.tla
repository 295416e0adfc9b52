-------------------------- MODULE MCRecords_proofs --------------------------
(***************************************************************************)
(* Proofs about the records that users keep and others see: each component *)
(* of MCRecords has an inductive invariant of its own, which holds while   *)
(* the component is in focus, for every value of the constants.  The last  *)
(* section joins them to the invariants that TLC checks.                   *)
(***************************************************************************)
EXTENDS MCRecords, Registration_proofs, Sequences, FiniteSetTheorems, TLAPS

-----------------------------------------------------------------------------
\* The caller a request acts for.

\* While access is in focus only it moves.
LEMMA AccessMoves == focus = "access" /\ [MCNext]_allVars => focus' = "access" /\ [Acc!Next]_accessVars
BY DEF MCNext, Others, Rest, allVars

\* What may be written, and by whom it may be asked.
Writing == {"insert", "owner", "own", "toggle", "any"}
Signed == {"jwt", "admin"}

\* A request as the table of routes makes it.
People == Users \union {Nobody}
Guards == {r.guard : r \in Acc!Reached} \union {"open"}
Fields == {r.as : r \in Acc!Reached} \union {"none"}
Rules == {r.rule : r \in Acc!Reached} \union {"read", "insert"}
Request ==
  [at : {"idle", "find", "write"}, bearer : People, caller : People, guard : Guards, field : Fields,
   rule : Rules, row : People, late : BOOLEAN]

\* A request was let in by its guard, acts for whom that let in, or for nobody, and
\* has found his row at most.
LetIn(w) ==
  /\ w.caller = Nobody \/ (w.caller = w.bearer /\ w.field = "id")
  /\ w.rule \in Writing => w.guard \in Signed
  /\ w.guard \in Signed => w.bearer # Nobody /\ (w.bearer \in active \/ w.late)
  /\ w.guard = "admin" => w.bearer \in admins \/ w.late
  /\ w.field = "id" /\ w.guard \in Signed => w.caller = w.bearer
  /\ w.at = "write" => w.rule \in Writing
  /\ w.row \in {Nobody, w.bearer}

\* Only handlers that pass the id have inserted rows.
AccessInv ==
  focus = "access" =>
    /\ active \subseteq Users /\ admins \subseteq Users
    /\ rows \subseteq {"id"} \X Users
    /\ request \in [Requests -> Request]
    /\ \A c \in Requests : LetIn(request[c])

\* A request that is not open asks for nothing.
LEMMA AccessIdle ==
  /\ Acc!Idle \in Request /\ Acc!Idle.at = "idle" /\ Acc!Idle.bearer = Nobody /\ Acc!Idle.caller = Nobody
  /\ Acc!Idle.guard = "open" /\ Acc!Idle.field = "none" /\ Acc!Idle.rule = "read" /\ Acc!Idle.row = Nobody
  /\ Acc!Idle.late = FALSE /\ LetIn(Acc!Idle)
BY DEF Request, Acc!Idle, LetIn, Writing, Signed, People, Guards, Fields, Rules

\* Before the first request nothing is written.
LEMMA AccessInit == MCInit => AccessInv
<1> SUFFICES ASSUME MCInit, focus = "access" PROVE AccessInv
  BY DEF AccessInv
<1>1. active = Users /\ admins \subseteq Users /\ rows = {} /\ request = [c \in Requests |-> Acc!Idle]
  BY DEF MCInit, Acc!Init
<1> QED
  BY <1>1, AccessIdle DEF AccessInv

\* Guards, handlers and the writes after them keep what is known of an open request.
LEMMA AccessStep == AccessInv /\ [MCNext]_allVars => AccessInv'
<1> SUFFICES ASSUME AccessInv, focus = "access", [Acc!Next]_accessVars, focus' = "access" PROVE AccessInv'
  BY AccessMoves DEF AccessInv, MCNext, Others, Rest, allVars
<1> USE AccessAssumption DEF Signed, Writing
<1> DEFINE Kept == /\ active' \subseteq Users /\ admins' \subseteq Users
                   /\ rows' \subseteq {"id"} \X Users
<1> DEFINE Known(w) == w \in Request /\ LetIn(w)
<1>1. /\ active \subseteq Users /\ admins \subseteq Users /\ rows \subseteq {"id"} \X Users
      /\ request \in [Requests -> Request]
      /\ \A c \in Requests : Known(request[c])
  BY DEF AccessInv
<1>2. ASSUME NEW c \in Requests, NEW to, Acc!GoTo(c, to), Known(to), UNCHANGED <<active, admins>>, Kept
      PROVE AccessInv'
  <2>1. request' = [d \in Requests |-> IF d = c THEN to ELSE request[d]]
    BY <1>1, <1>2 DEF Acc!GoTo
  <2>2. \A d \in Requests : Known(request'[d])
    BY <1>1, <1>2, <2>1
  <2>3. \A d \in Requests : (LetIn(request[d]))'
    BY <2>2, <1>2 DEF LetIn
  <2> QED
    BY <1>2, <2>1, <2>2, <2>3 DEF AccessInv
<1>3. ASSUME NEW c \in Requests, Acc!Arrive(c) PROVE AccessInv'
  <2>1. PICK route \in Acc!Reached, bearer \in Users \union {Nobody} :
          LET user == IF route.guard = "open" THEN Nobody ELSE Acc!Validate(bearer)
          IN  /\ Acc!Passes(route.guard, user)
              /\ Acc!GoTo(c, [Acc!Idle EXCEPT !.at = "find", !.bearer = user, !.caller = Acc!Caller(route, user),
                                !.guard = route.guard, !.field = route.as, !.rule = route.rule])
    BY <1>3 DEF Acc!Arrive
  <2>2. PICK user : user = IF route.guard = "open" THEN Nobody ELSE Acc!Validate(bearer)
    OBVIOUS
  <2>3. PICK caller : caller = Acc!Caller(route, user)
    OBVIOUS
  <2>4. PICK idle : idle = Acc!Idle
    OBVIOUS
  <2> DEFINE to == [idle EXCEPT !.at = "find", !.bearer = user, !.caller = caller,
                      !.guard = route.guard, !.field = route.as, !.rule = route.rule]
  <2>5. Acc!GoTo(c, to) /\ Acc!Passes(route.guard, user)
    BY <2>1, <2>2, <2>3, <2>4
  <2>6. user \in People /\ (user # Nobody => user \in active) /\ caller = IF route.as = "id" THEN user ELSE Nobody
    BY <1>1, <2>2, <2>3 DEF Acc!Validate, Acc!Caller, People
  <2>7. route.rule \in Writing => route.guard \in Signed
    BY RoutesAssumption
  <2>8. /\ route.guard \in Signed => user # Nobody
        /\ route.guard = "admin" => user \in admins
    BY <2>5, <1>1, <2>6 DEF Acc!Passes
  <2>9. Known(to)
    <3>1. route.guard \in Guards /\ route.as \in Fields /\ route.rule \in Rules
      BY DEF Guards, Fields, Rules
    <3>2. idle \in Request /\ idle.row = Nobody /\ idle.late = FALSE
      BY <2>4, AccessIdle
    <3>3. caller \in People
      BY <2>6 DEF People
    <3>4. /\ to \in Request /\ to.at = "find" /\ to.row = Nobody /\ to.bearer = user
          /\ to.caller = caller /\ to.guard = route.guard /\ to.field = route.as /\ to.rule = route.rule
          /\ to.late = FALSE
      BY <3>1, <3>2, <3>3, <2>6 DEF Request
    <3> HIDE DEF to
    <3> QED BY <3>4, <2>6, <2>7, <2>8 DEF LetIn
  <2> HIDE DEF to
  <2> QED
    BY <1>2, <2>5, <2>9, <1>1, <1>3 DEF Acc!Arrive
<1>4. ASSUME NEW c \in Requests, Acc!Find(c) PROVE AccessInv'
  <2>0. PICK w : w = request[c]
    OBVIOUS
  <2>1. Known(w) /\ w.at = "find" /\ UNCHANGED <<active, admins, rows>>
    BY <1>1, <1>4, <2>0 DEF Acc!Find
  <2>found. ASSUME NEW u \in Acc!FoundBy(w), w.rule \in Writing PROVE u = w.bearer /\ u \in People
    BY <2>1, <2>found, <1>1 DEF Acc!FoundBy, LetIn, People
  <2>2. CASE w.rule \in {"insert", "any"} /\ Acc!GoTo(c, [w EXCEPT !.at = "write"])
    <3> DEFINE to == [w EXCEPT !.at = "write"]
    <3>1. Known(to)
      <4>1. /\ to \in Request /\ to.at = "write" /\ to.row = w.row /\ to.bearer = w.bearer
            /\ to.caller = w.caller /\ to.guard = w.guard /\ to.field = w.field /\ to.rule = w.rule
            /\ to.late = w.late
        BY <2>1 DEF Request
      <4> HIDE DEF to
      <4> QED BY <4>1, <2>1, <2>2 DEF LetIn
    <3> HIDE DEF to
    <3>2. Acc!GoTo(c, to)
      BY <2>2 DEF to
    <3> QED BY <1>2, <2>1, <3>2, <3>1, <1>1
  <2>3. CASE /\ w.rule = "owner"
             /\ \E u \in Users : <<w.field, u>> \in rows /\ Acc!IsOwner(w, u) /\ Acc!GoTo(c, [w EXCEPT !.at = "write", !.row = u])
    <3>0. PICK u \in Users : <<w.field, u>> \in rows /\ Acc!IsOwner(w, u) /\ Acc!GoTo(c, [w EXCEPT !.at = "write", !.row = u])
      BY <2>3
    <3> DEFINE to == [w EXCEPT !.at = "write", !.row = u]
    <3>1. u = w.bearer /\ u \in People
      BY <3>0, <2>1 DEF Acc!IsOwner, LetIn, People
    <3>2. Known(to)
      <4>1. /\ to \in Request /\ to.at = "write" /\ to.row = u /\ to.bearer = w.bearer
            /\ to.caller = w.caller /\ to.guard = w.guard /\ to.field = w.field /\ to.rule = w.rule
            /\ to.late = w.late
        BY <2>1, <3>1 DEF Request
      <4> HIDE DEF to
      <4> QED BY <4>1, <2>1, <2>3, <3>1 DEF LetIn
    <3> HIDE DEF to
    <3>3. Acc!GoTo(c, to)
      BY <3>0 DEF to
    <3> QED BY <1>2, <2>1, <3>2, <3>3, <1>1
  <2>4. CASE /\ w.rule \in {"own", "toggle"}
             /\ \E u \in Acc!FoundBy(w) : Acc!GoTo(c, [w EXCEPT !.at = "write", !.row = u])
    <3>0. PICK u \in Acc!FoundBy(w) : Acc!GoTo(c, [w EXCEPT !.at = "write", !.row = u])
      BY <2>4
    <3> DEFINE to == [w EXCEPT !.at = "write", !.row = u]
    <3>1. u = w.bearer /\ u \in People
      BY <2>4, <3>0, <2>found
    <3>2. Known(to)
      <4>1. /\ to \in Request /\ to.at = "write" /\ to.row = u /\ to.bearer = w.bearer
            /\ to.caller = w.caller /\ to.guard = w.guard /\ to.field = w.field /\ to.rule = w.rule
            /\ to.late = w.late
        BY <2>1, <3>1 DEF Request
      <4> HIDE DEF to
      <4> QED BY <4>1, <2>1, <2>4, <3>1 DEF LetIn
    <3> HIDE DEF to
    <3>3. Acc!GoTo(c, to)
      BY <3>0 DEF to
    <3> QED BY <1>2, <2>1, <3>2, <3>3, <1>1
  <2>5. CASE w.rule = "toggle" /\ Acc!GoTo(c, [w EXCEPT !.at = "write", !.rule = "insert"])
    <3> DEFINE to == [w EXCEPT !.at = "write", !.rule = "insert"]
    <3>1. "insert" \in Rules
      BY DEF Rules
    <3>2. Known(to)
      <4>1. /\ to \in Request /\ to.at = "write" /\ to.row = w.row /\ to.bearer = w.bearer
            /\ to.caller = w.caller /\ to.guard = w.guard /\ to.field = w.field /\ to.rule = "insert"
            /\ to.late = w.late
        BY <2>1, <3>1 DEF Request
      <4> HIDE DEF to
      <4> QED BY <4>1, <2>1, <2>5, <3>1 DEF LetIn
    <3> HIDE DEF to
    <3>3. Acc!GoTo(c, to)
      BY <2>5 DEF to
    <3> QED BY <1>2, <2>1, <3>3, <3>2, <1>1
  <2>6. CASE Acc!GoTo(c, Acc!Idle)
    BY <1>2, AccessIdle, <2>1, <2>6, <1>1
  <2> QED BY <1>4, <2>0, <2>2, <2>3, <2>4, <2>5, <2>6 DEF Acc!Find
<1>5. ASSUME NEW c \in Requests, Acc!Write(c) PROVE AccessInv'
  <2> DEFINE w == request[c]
  <2>1. Acc!GoTo(c, Acc!Idle) /\ UNCHANGED <<active, admins>> /\ Known(w)
    BY <1>1, <1>5 DEF Acc!Write
  <2>2. rows' \subseteq {"id"} \X Users
    BY <1>1, <1>5, <2>1 DEF Acc!Write, LetIn, Request, People
  <2> QED BY <1>2, AccessIdle, <2>1, <2>2, <1>1
<1>6. ASSUME NEW u \in Users, Acc!Administer(u) PROVE AccessInv'
  <2>1. active' \subseteq Users /\ admins' \subseteq Users /\ rows' = rows
    BY <1>1, <1>6 DEF Acc!Administer
  <2>2. request' = [c \in Requests |->
       [request[c] EXCEPT !.late = @ \/ request[c].bearer \in (active \ active') \union (admins \ admins')]]
    BY <1>6 DEF Acc!Administer
  <2>3. ASSUME NEW c \in Requests
        PROVE request'[c] \in Request /\ (LetIn(request[c]))'
    <3>0. PICK w : w = request[c]
      OBVIOUS
    <3>1. PICK gone \in BOOLEAN : gone <=> w.bearer \in (active \ active') \union (admins \ admins')
      BY Zenon
    <3>2. Known(w)
      BY <1>1, <3>0
    <3> DEFINE to == [w EXCEPT !.late = @ \/ gone]
    <3>3. request'[c] = to
      BY <2>2, <3>0, <3>1
    <3>4. to \in Request
      BY <3>2, Zenon DEF Request
    <3>5. /\ to.at = w.at /\ to.bearer = w.bearer /\ to.caller = w.caller
          /\ to.guard = w.guard /\ to.field = w.field /\ to.rule = w.rule
          /\ to.row = w.row /\ (to.late <=> (w.late \/ gone))
      BY <3>2 DEF Request
    <3> HIDE DEF to
    <3>6. (LetIn(request[c]))'
      BY <3>1, <3>2, <3>3, <3>5 DEF LetIn
    <3> QED BY <3>3, <3>4, <3>6
  <2> QED BY <2>1, <2>2, <2>3 DEF AccessInv
<1>7. CASE UNCHANGED accessVars
  BY <1>1, <1>7 DEF AccessInv, accessVars, LetIn
<1> QED
  BY <1>3, <1>4, <1>5, <1>6, <1>7 DEF Acc!Next

\* Whatever writes was let in signed in, acts for the user whom the guard let in or for nobody, and
\* has found his row at most (JwtAuthGuard, AdminGuard and the look-ups of the services).
THEOREM AccessInvariant == MCSpec => []AccessInv
BY AccessInit, AccessStep, PTL DEF MCSpec

\* For any users and requests, whatever route they take: a request that is about to write has
\* found the row of its own user or none, and its user was let in and may do so but for what he
\* lost under way (the guards of modules/auth and the ownership checks of the services).
THEOREM AccessSafe == MCSpec => []AccessExplained
<1>1. AccessInv => AccessExplained
  BY DEF AccessInv, AccessExplained, Acc!AccessExplained, LetIn, Writing, Signed
<1> QED BY <1>1, AccessInvariant, PTL

-----------------------------------------------------------------------------
\* What a viewer is shown.

\* While the audience is in focus only it moves.
LEMMA AudienceMoves ==
  focus = "audience" /\ [MCNext]_allVars => focus' = "audience" /\ [Aud!Next]_audienceVars
BY DEF MCNext, Others, Rest, allVars

\* A request for a list, as it stands.
Reading ==
  [list : Aud!Lists \union {"none"}, at : {"idle", "anonymous", "signedIn", "query"}, who : SUBSET Authors,
   blocked : SUBSET Authors, following : SUBSET Authors, late : SUBSET Authors, left : SUBSET Authors]

\* It knows the blocks and the follows it needs, but for those that are younger.
Knows(r) ==
  /\ r.list = "none" => r = Aud!Idle
  /\ r.list \in Aud!OfOne => \E a \in Authors : r.who = {a}
  /\ r.at = "anonymous" => r.list \notin {"none", "feed", "stories"}
  /\ r.at \in {"signedIn", "query"} =>
       /\ r.list \in Aud!OfOne \ Aud!NoBlocks => (blocked \ r.late) \intersect r.who \subseteq r.blocked
       /\ r.list \in Aud!Lists \ (Aud!OfOne \union Aud!NoBlocks) => blocked \ r.late \subseteq r.blocked
  /\ r.at = "anonymous" => r.following = {}
  /\ r.at = "query" /\ r.list \in Aud!ReadFollows => r.following \subseteq following \union r.left

AudienceInv ==
  focus = "audience" =>
    /\ blocked \subseteq Authors /\ following \subseteq Authors
    /\ visibility \in [Authors -> {"public", "followers", "private", "gone"}]
    /\ original \in [Authors -> Authors]
    /\ reading \in [Readers -> Reading]
    /\ \A c \in Readers : Knows(reading[c])

\* A request that is not open has read nothing.
LEMMA AudienceIdle ==
  Aud!Idle \in Reading /\ Knows(Aud!Idle) /\ Aud!Idle.at = "idle" /\ Aud!Idle.list = "none"
BY DEF Reading, Aud!Idle, Knows, Aud!OfOne, Aud!ReadFollows, Aud!Lists, Aud!NoBlocks

\* Before the first request nothing has been read.
LEMMA AudienceInit == MCInit => AudienceInv
<1> SUFFICES ASSUME MCInit, focus = "audience" PROVE AudienceInv
  BY DEF AudienceInv
<1> QED
  BY AudienceIdle DEF AudienceInv, MCInit, Aud!Init

\* What others do makes a request older, and leaves what it has read.
Older(r, q) ==
  /\ q \in Reading
  /\ q.list = r.list /\ q.at = r.at /\ q.who = r.who /\ q.blocked = r.blocked /\ q.following = r.following
  /\ r.late \subseteq q.late /\ r.left \subseteq q.left /\ (r.list = "none" => q = Aud!Idle)

\* Blocks, follows and posts that change under an open request are remembered by it as younger.
LEMMA AudienceStep == AudienceInv /\ [MCNext]_allVars => AudienceInv'
<1> SUFFICES ASSUME AudienceInv, focus = "audience", [Aud!Next]_audienceVars, focus' = "audience" PROVE AudienceInv'
  BY AudienceMoves DEF AudienceInv, MCNext, Others, Rest, allVars
<1>1. /\ blocked \subseteq Authors /\ following \subseteq Authors
      /\ visibility \in [Authors -> {"public", "followers", "private", "gone"}]
      /\ original \in [Authors -> Authors]
      /\ reading \in [Readers -> Reading]
      /\ \A c \in Readers : Knows(reading[c])
  BY DEF AudienceInv
<1>2. ASSUME NEW c \in Readers, NEW to \in Reading, Knows(to), reading' = [reading EXCEPT ![c] = to],
             UNCHANGED <<blocked, following, visibility, original>>
      PROVE AudienceInv'
  <2>1. \A d \in Readers : reading'[d] \in Reading /\ Knows(reading'[d])
    BY <1>1, <1>2
  <2>2. \A d \in Readers : (Knows(reading[d]))'
    BY <1>2, <2>1 DEF Knows
  <2> QED
    BY <1>1, <1>2, <2>1, <2>2 DEF AudienceInv
<1>3. ASSUME NEW c \in Readers, Aud!GetBlockedUserIds(c) PROVE AudienceInv'
  <2>1. PICK list \in Aud!Lists, signedIn \in BOOLEAN : \E who \in Aud!About(list) :
       /\ ~signedIn => list \notin {"feed", "stories"}
       /\ reading' = [reading EXCEPT ![c] =
            [Aud!Idle EXCEPT !.list = list, !.who = who,
               !.at = IF ~signedIn THEN "anonymous" ELSE IF list \in Aud!ReadFollows THEN "signedIn" ELSE "query",
               !.blocked = IF ~signedIn \/ list \in Aud!NoBlocks THEN {}
                           ELSE IF list \in Aud!OfOne THEN blocked \intersect who ELSE blocked]]
    BY <1>3 DEF Aud!GetBlockedUserIds
  <2>2. PICK who \in Aud!About(list) :
       /\ ~signedIn => list \notin {"feed", "stories"}
       /\ reading' = [reading EXCEPT ![c] =
            [Aud!Idle EXCEPT !.list = list, !.who = who,
               !.at = IF ~signedIn THEN "anonymous" ELSE IF list \in Aud!ReadFollows THEN "signedIn" ELSE "query",
               !.blocked = IF ~signedIn \/ list \in Aud!NoBlocks THEN {}
                           ELSE IF list \in Aud!OfOne THEN blocked \intersect who ELSE blocked]]
    BY <2>1
  <2>3. PICK at : at = IF ~signedIn THEN "anonymous" ELSE IF list \in Aud!ReadFollows THEN "signedIn" ELSE "query"
    OBVIOUS
  <2>4. PICK shut : shut = IF ~signedIn \/ list \in Aud!NoBlocks THEN {}
                           ELSE IF list \in Aud!OfOne THEN blocked \intersect who ELSE blocked
    OBVIOUS
  <2>5. PICK idle : idle = Aud!Idle
    OBVIOUS
  <2> DEFINE to == [idle EXCEPT !.list = list, !.who = who, !.at = at, !.blocked = shut]
  <2>6. reading' = [reading EXCEPT ![c] = to]
    BY <2>2, <2>3, <2>4, <2>5
  <2>7. /\ who \subseteq Authors /\ (list \in Aud!OfOne => \E a \in Authors : who = {a})
        /\ shut \subseteq Authors
    BY <2>4, <1>1 DEF Aud!About
  <2>8. idle \in Reading /\ idle.following = {} /\ idle.late = {}
    BY <2>5, AudienceIdle DEF Aud!Idle
  <2>9. /\ to \in Reading /\ to.list = list /\ to.who = who /\ to.at = at /\ to.blocked = shut
        /\ to.following = {} /\ to.late = {}
    BY <2>3, <2>7, <2>8 DEF Reading
  <2> HIDE DEF to
  <2>10. list # "none"
    BY DEF Aud!Lists
  <2>11. Knows(to)
    BY <2>2, <2>3, <2>4, <2>7, <2>9, <2>10 DEF Knows
  <2> QED
    BY <1>2, <1>3, <2>6, <2>9, <2>11 DEF Aud!GetBlockedUserIds
<1>4. ASSUME NEW c \in Readers, Aud!GetFollowing(c) PROVE AudienceInv'
  <2>1. PICK w \in Reading : w = reading[c] /\ Knows(w) /\ w.at = "signedIn"
    BY <1>1, <1>4 DEF Aud!GetFollowing
  <2>2. PICK read \in SUBSET Authors : read = IF w.list \in Aud!OfOne THEN following \intersect w.who ELSE following
    BY <1>1
  <2> DEFINE to == [w EXCEPT !.at = "query", !.following = read]
  <2>3. reading' = [reading EXCEPT ![c] = to]
    BY <1>1, <1>4, <2>1, <2>2 DEF Aud!GetFollowing
  <2>4. /\ to \in Reading /\ to.list = w.list /\ to.who = w.who /\ to.at = "query" /\ to.blocked = w.blocked
        /\ to.following = read /\ to.late = w.late /\ to.left = w.left
    BY <2>1, <2>2 DEF Reading
  <2> HIDE DEF to
  <2>5. Knows(to)
    BY <2>1, <2>2, <2>4, AudienceIdle DEF Knows
  <2> QED
    BY <1>2, <1>4, <2>3, <2>4, <2>5 DEF Aud!GetFollowing
<1>5. ASSUME NEW c \in Readers, Aud!Query(c) PROVE AudienceInv'
  BY <1>2, <1>5, AudienceIdle DEF Aud!Query
<1>6. ASSUME UNCHANGED original, blocked' \subseteq Authors, following' \subseteq Authors,
             visibility' \in [Authors -> {"public", "followers", "private", "gone"}],
             reading' \in [Readers -> Reading],
             \A c \in Readers : Older(reading[c], reading'[c]),
             \A c \in Readers : reading[c].list # "none" =>
               blocked' \ blocked \subseteq reading'[c].late /\ following \ following' \subseteq reading'[c].left
      PROVE AudienceInv'
  <2>1. ASSUME NEW c \in Readers PROVE (Knows(reading[c]))'
    <3>1. PICK w \in Reading : w = reading[c] /\ Knows(w)
      BY <1>1
    <3>2. PICK q \in Reading : q = reading'[c] /\ Older(w, q)
      BY <1>6, <3>1 DEF Older
    <3>3. CASE w.list = "none"
      <4>1. q = Aud!Idle
        BY <3>2, <3>3 DEF Older
      <4> QED BY <1>6, <3>2, <4>1, AudienceIdle DEF Knows, Aud!OfOne, Aud!Lists
    <3>4. CASE w.list # "none"
      BY <1>6, <3>1, <3>2, <3>4 DEF Knows, Older
    <3> QED BY <3>3, <3>4
  <2> QED BY <1>1, <1>6, <2>1 DEF AudienceInv
<1>7. ASSUME NEW a \in Authors, NEW w \in Reading, Knows(w)
      PROVE /\ Older(w, w)
            /\ LET q == [w EXCEPT !.left = @ \union {a}] IN
               w.list # "none" => Older(w, q) /\ a \in q.left
            /\ LET q == [w EXCEPT !.late = @ \union {a}, !.left = @ \union {a}] IN
               w.list # "none" => Older(w, q) /\ a \in q.late /\ a \in q.left
            /\ w.list = "none" => Older(w, Aud!Idle)
  <2>1. Older(w, w)
    BY <1>7 DEF Older, Knows
  <2>2. ASSUME w.list # "none"
        PROVE LET q == [w EXCEPT !.left = @ \union {a}] IN Older(w, q) /\ a \in q.left
    <3> DEFINE q == [w EXCEPT !.left = @ \union {a}]
    <3>1. /\ q \in Reading /\ q.list = w.list /\ q.who = w.who /\ q.at = w.at /\ q.blocked = w.blocked
          /\ q.following = w.following /\ q.late = w.late /\ q.left = w.left \union {a}
      BY <1>7 DEF Reading
    <3> HIDE DEF q
    <3>2. Older(w, q) /\ a \in q.left
      BY <3>1, <2>2 DEF Older
    <3> QED BY <3>2 DEF q
  <2>3. ASSUME w.list # "none"
        PROVE LET q == [w EXCEPT !.late = @ \union {a}, !.left = @ \union {a}] IN
              Older(w, q) /\ a \in q.late /\ a \in q.left
    <3> DEFINE q == [w EXCEPT !.late = @ \union {a}, !.left = @ \union {a}]
    <3>1. /\ q \in Reading /\ q.list = w.list /\ q.who = w.who /\ q.at = w.at /\ q.blocked = w.blocked
          /\ q.following = w.following /\ q.late = w.late \union {a} /\ q.left = w.left \union {a}
      BY <1>7 DEF Reading
    <3> HIDE DEF q
    <3>2. Older(w, q) /\ a \in q.late /\ a \in q.left
      BY <3>1, <2>3 DEF Older
    <3> QED BY <3>2 DEF q
  <2>4. CASE w.list = "none"
    <3>1. w = Aud!Idle
      BY <1>7, <2>4 DEF Knows
    <3> QED BY <2>1, <3>1, <2>4
  <2> QED BY <2>1, <2>2, <2>3, <2>4
<1>8. ASSUME NEW a \in Authors, Aud!Block(a) PROVE AudienceInv'
  <2>1. /\ blocked' = blocked \union {a} /\ following' = following \ {a}
        /\ reading' = Aud!Late(a) /\ UNCHANGED <<visibility, original>>
    BY <1>8 DEF Aud!Block
  <2>2. ASSUME NEW c \in Readers
        PROVE /\ reading'[c] \in Reading /\ Older(reading[c], reading'[c])
              /\ reading[c].list # "none" => a \in reading'[c].late /\ a \in reading'[c].left
    <3>1. PICK w \in Reading : w = reading[c] /\ Knows(w)
      BY <1>1
    <3>2. reading'[c] = IF w.list = "none" THEN Aud!Idle ELSE [w EXCEPT !.late = @ \union {a}, !.left = @ \union {a}]
      BY <2>1, <3>1 DEF Aud!Late
    <3>3. CASE w.list = "none"
      BY <1>7, <3>1, <3>2, <3>3 DEF Older
    <3>4. CASE w.list # "none"
      <4> DEFINE q == [w EXCEPT !.late = @ \union {a}, !.left = @ \union {a}]
      <4>1. Older(w, q) /\ a \in q.late /\ a \in q.left
        BY <1>7, <3>1, <3>4
      <4>2. reading'[c] = q
        BY <3>2, <3>4
      <4> QED BY <3>1, <4>1, <4>2 DEF Older
    <3> QED BY <3>3, <3>4
  <2>3. reading' \in [Readers -> Reading]
    BY <2>1, <2>2 DEF Aud!Late
  <2> QED BY <1>1, <1>6, <2>1, <2>2, <2>3
<1>9. ASSUME NEW a \in Authors, Aud!Relate(a) PROVE AudienceInv'
  <2>1. CASE a \in blocked /\ blocked' = blocked \ {a} /\ UNCHANGED <<following, reading>>
    <3>1. \A c \in Readers : Older(reading[c], reading[c])
      BY <1>1, <1>7
    <3> QED BY <1>1, <1>6, <1>9, <2>1, <3>1 DEF Aud!Relate
  <2>2. CASE a \notin following /\ following' = following \union {a} /\ UNCHANGED <<blocked, reading>>
    <3>1. \A c \in Readers : Older(reading[c], reading[c])
      BY <1>1, <1>7
    <3> QED BY <1>1, <1>6, <1>9, <2>2, <3>1 DEF Aud!Relate
  <2>3. CASE /\ a \in following /\ following' = following \ {a} /\ UNCHANGED blocked
             /\ reading' = [c \in Readers |-> IF reading[c].list = "none" THEN Aud!Idle
                                              ELSE [reading[c] EXCEPT !.left = @ \union {a}]]
    <3>1. ASSUME NEW c \in Readers
          PROVE /\ reading'[c] \in Reading /\ Older(reading[c], reading'[c])
                /\ reading[c].list # "none" => a \in reading'[c].left
      <4>1. PICK w \in Reading : w = reading[c] /\ Knows(w)
        BY <1>1
      <4>2. reading'[c] = IF w.list = "none" THEN Aud!Idle ELSE [w EXCEPT !.left = @ \union {a}]
        BY <2>3, <4>1
      <4>3. CASE w.list = "none"
        BY <1>7, <4>1, <4>2, <4>3 DEF Older
      <4>4. CASE w.list # "none"
        <5> DEFINE q == [w EXCEPT !.left = @ \union {a}]
        <5>1. Older(w, q) /\ a \in q.left
          BY <1>7, <4>1, <4>4
        <5>2. reading'[c] = q
          BY <4>2, <4>4
        <5> QED BY <4>1, <5>1, <5>2 DEF Older
      <4> QED BY <4>3, <4>4
    <3>2. reading' \in [Readers -> Reading]
      BY <2>3, <3>1
    <3> QED BY <1>1, <1>6, <1>9, <2>3, <3>1, <3>2 DEF Aud!Relate
  <2> QED BY <1>9, <2>1, <2>2, <2>3 DEF Aud!Relate
<1>10. ASSUME NEW a \in Authors, Aud!Edit(a) PROVE AudienceInv'
  BY <1>1, <1>10 DEF Aud!Edit, AudienceInv, Knows
<1>11. CASE UNCHANGED audienceVars
  BY <1>1, <1>11 DEF AudienceInv, audienceVars, Knows
<1> QED
  BY <1>3, <1>4, <1>5, <1>8, <1>9, <1>10, <1>11 DEF Aud!Next

\* An open request knows the blocks and the follows it needs, but for those that are younger
\* (the reads of blocks and follows before each list query).
THEOREM AudienceInvariant == MCSpec => []AudienceInv
BY AudienceInit, AudienceStep, PTL DEF MCSpec

\* Where an item on a list comes from: a repost carries it, or it may be shown itself.
Fine(r, items, i) ==
  LET a == i[2]
      follower == r.at = "query" /\ a \in following \union r.left
  IN  \/ i[1] = "post" /\ visibility[a] # "gone" /\ Aud!CarriedBy(r, items, a)
      \/ /\ r.at = "query" => a \notin blocked \ r.late \/ r.list \in Aud!NoBlocks
         /\ i[1] = "post" =>
              \/ visibility[a] = "public"
              \/ visibility[a] = "followers" /\ (follower \/ (r.at = "anonymous" /\ r.list \in Aud!OpenToGuests))
              \/ visibility[a] = "private" /\ r.list = "feed" /\ follower

\* A list of which each item is fine keeps the blocks and the visibility.
LEMMA FineKept ==
  ASSUME NEW r, NEW items, \A i \in items : i[2] \in Authors /\ Fine(r, items, i),
         visibility \in [Authors -> {"public", "followers", "private", "gone"}]
  PROVE  Aud!BlockKept(r, items) /\ Aud!VisibilityKept(r, items)
<1>1. Aud!BlockKept(r, items)
  BY DEF Aud!BlockKept, Fine
<1>2. ASSUME NEW i \in items, i[1] = "post"
      PROVE LET a == i[2]
                follower == r.at = "query" /\ a \in following \union r.left
            IN  CASE visibility[a] = "public" -> TRUE
                  [] visibility[a] = "followers" ->
                       follower \/ (r.at = "anonymous" /\ r.list \in Aud!OpenToGuests) \/ Aud!CarriedBy(r, items, a)
                  [] visibility[a] = "private" ->
                       (r.list = "feed" /\ follower) \/ Aud!CarriedBy(r, items, a)
  <2>1. visibility[i[2]] \in {"public", "followers", "private"}
    BY <1>2 DEF Fine
  <2> QED BY <1>2, <2>1 DEF Fine
<1> QED BY <1>1, <1>2 DEF Aud!VisibilityKept

\* The items of a list.
LEMMA ItemsAre ==
  ASSUME NEW A
  PROVE  /\ \A i \in Aud!Post(A) : i[1] = "post" /\ i[2] \in A
         /\ \A i \in Aud!Repost(A) : i[1] = "repost" /\ i[2] \in A
         /\ \A i \in Aud!Story(A) : i[1] = "story" /\ i[2] \in A
         /\ \A i \in Aud!Comment(A) : i[1] = "comment" /\ i[2] \in A
         /\ \A i \in Aud!User(A) : i[1] = "user" /\ i[2] \in A
BY DEF Aud!Post, Aud!Repost, Aud!Story, Aud!Comment, Aud!User

\* What a list of posts carries along is a repost, or the live original of one.
LEMMA CarriedAre ==
  ASSUME NEW A \in SUBSET Authors, original \in [Authors -> Authors], NEW r, NEW items,
         r.list \in {"feed", "userPosts", "post"}, Aud!Carried(A) \subseteq items,
         NEW i \in Aud!Carried(A)
  PROVE  /\ i[2] \in Authors
         /\ \/ i[1] = "repost" /\ i[2] \in A
            \/ i[1] = "post" /\ visibility[i[2]] # "gone" /\ Aud!CarriedBy(r, items, i[2])
<1>1. CASE i \in Aud!Repost(A)
  BY <1>1, ItemsAre
<1>2. CASE i \in Aud!Post({original[a] : a \in A} \intersect Aud!Live({"public", "followers", "private"}))
  <2>1. i[1] = "post" /\ i[2] \in {original[a] : a \in A} /\ i[2] \in Aud!Live({"public", "followers", "private"})
    BY <1>2, ItemsAre
  <2>2. PICK b \in A : original[b] = i[2]
    BY <2>1
  <2>3. <<"repost", b>> \in items
    BY DEF Aud!Carried, Aud!Repost
  <2>4. visibility[i[2]] # "gone" /\ i[2] \in Authors
    BY <2>1 DEF Aud!Live
  <2> QED BY <2>1, <2>2, <2>3, <2>4 DEF Aud!CarriedBy
<1> QED BY <1>1, <1>2 DEF Aud!Carried

\* What a request would answer is made of posts, and more, of authors whom it may show.
LEMMA AudienceShown ==
  ASSUME AudienceInv, focus = "audience", NEW c \in Readers, reading[c].at \in {"query", "anonymous"},
         NEW some \in SUBSET Authors
  PROVE  Aud!BlockKept(reading[c], Aud!Shown(reading[c], some))
         /\ Aud!VisibilityKept(reading[c], Aud!Shown(reading[c], some))
<1>1. PICK r \in Reading : r = reading[c] /\ Knows(r) /\ r.at \in {"query", "anonymous"}
  BY DEF AudienceInv
<1>2. /\ blocked \subseteq Authors /\ following \subseteq Authors
      /\ visibility \in [Authors -> {"public", "followers", "private", "gone"}]
      /\ original \in [Authors -> Authors]
  BY DEF AudienceInv
<1> DEFINE items == Aud!Shown(r, some)
<1>3. r.list \in Aud!Lists
  BY <1>1, AudienceIdle DEF Knows, Reading
<1>who. r.who \in SUBSET Authors /\ r.following \in SUBSET Authors /\ r.blocked \in SUBSET Authors
  BY <1>1 DEF Reading
<1> SUFFICES ASSUME NEW i \in items PROVE i[2] \in Authors /\ Fine(r, items, i)
  BY <1>1, <1>2, FineKept
<1>4. CASE r.list = "feed"
  <2>1. items = Aud!Feed(r, some)
    BY <1>4 DEF Aud!Shown
  <2>2. r.at = "query" /\ blocked \ r.late \subseteq r.blocked /\ r.following \subseteq following \union r.left
    BY <1>1, <1>4 DEF Knows, Aud!Lists, Aud!OfOne, Aud!NoBlocks, Aud!ReadFollows
  <2> DEFINE shown == Authors \ r.blocked
             liked == IF r.following = {} THEN Authors ELSE some
             A == shown \intersect (r.following \union liked)
  <2>3. items = Aud!Post(shown \intersect r.following \intersect Aud!Live({"public", "followers", "private"}))
                \union Aud!Post(shown \intersect Aud!Live({"public"}) \intersect liked) \union Aud!Carried(A)
    BY <2>1 DEF Aud!Feed
  <2> HIDE DEF items
  <2>4. CASE i \in Aud!Carried(A)
    <3>1. A \in SUBSET Authors /\ Aud!Carried(A) \subseteq items
      BY <2>3
    <3>2. i[2] \in A => i[2] \notin blocked \ r.late
      BY <2>2
    <3> HIDE DEF A
    <3> QED BY <2>4, <3>1, <3>2, <1>2, <1>4, CarriedAre DEF Fine
  <2>5. CASE i \in Aud!Post(shown \intersect r.following \intersect Aud!Live({"public", "followers", "private"}))
    <3>1. i[1] = "post" /\ i[2] \in shown /\ i[2] \in r.following /\ i[2] \in Aud!Live({"public", "followers", "private"})
      BY <2>5, ItemsAre
    <3> QED BY <2>2, <3>1, <1>4 DEF Fine, Aud!Live
  <2>6. CASE i \in Aud!Post(shown \intersect Aud!Live({"public"}) \intersect liked)
    <3>1. i[1] = "post" /\ i[2] \in shown /\ i[2] \in Aud!Live({"public"})
      BY <2>6, ItemsAre
    <3> QED BY <2>2, <3>1, <1>4 DEF Fine, Aud!Live
  <2> QED BY <2>3, <2>4, <2>5, <2>6
<1>5. CASE r.list = "userPosts"
  <2>1. items = Aud!UserPosts(r, some)
    BY <1>5 DEF Aud!Shown
  <2>2. PICK a \in Authors : r.who = {a}
    BY <1>1, <1>5 DEF Knows, Aud!OfOne
  <2>3. /\ r.at = "query" => (blocked \ r.late) \intersect {a} \subseteq r.blocked
        /\ r.at = "query" => r.following \subseteq following \union r.left
        /\ r.at = "anonymous" => r.following = {}
    BY <1>1, <1>5, <2>2 DEF Knows, Aud!OfOne, Aud!NoBlocks, Aud!ReadFollows
  <2> DEFINE levels == IF r.who \subseteq (IF r.at = "anonymous" THEN some ELSE r.following)
                       THEN {"public", "followers"} ELSE {"public"}
  <2>4. /\ a \notin r.blocked
        /\ items = Aud!Carried(r.who) \union Aud!Post(r.who \intersect Aud!Live(levels))
    BY <2>1, <2>2 DEF Aud!UserPosts
  <2> HIDE DEF items
  <2>5. CASE i \in Aud!Carried(r.who)
    <3>1. Aud!Carried(r.who) \subseteq items
      BY <2>4
    <3>2. i[2] \in r.who => i[2] \notin blocked \ r.late \/ r.at # "query"
      BY <2>2, <2>3, <2>4
    <3>3. /\ i[2] \in Authors
          /\ \/ i[1] = "repost" /\ i[2] \in r.who
             \/ i[1] = "post" /\ visibility[i[2]] # "gone" /\ Aud!CarriedBy(r, items, i[2])
      BY <2>5, <3>1, <1>2, <1>5, <1>who, CarriedAre
    <3> QED BY <3>2, <3>3 DEF Fine
  <2>6. CASE i \in Aud!Post(r.who \intersect Aud!Live(levels))
    <3>1. i[1] = "post" /\ i[2] = a /\ a \in Aud!Live(levels)
      BY <2>2, <2>6, ItemsAre
    <3>2. visibility[a] = "public" \/ (visibility[a] = "followers" /\ (r.at = "anonymous" \/ a \in r.following))
      BY <2>2, <3>1 DEF Aud!Live
    <3>3. visibility[a] = "followers" => r.at = "anonymous" \/ (r.at = "query" /\ a \in following \union r.left)
      BY <3>2, <2>3, <1>1
    <3> QED BY <2>3, <2>4, <3>1, <3>2, <3>3, <1>5 DEF Fine, Aud!OpenToGuests
  <2> QED BY <2>4, <2>5, <2>6
<1>6. CASE r.list = "post"
  <2>1. items = Aud!OnePost(r)
    BY <1>6 DEF Aud!Shown
  <2>2. PICK a \in Authors : r.who = {a}
    BY <1>1, <1>6 DEF Knows, Aud!OfOne
  <2>3. r.at = "query" => r.following \subseteq following \union r.left
    BY <1>1, <1>6 DEF Knows, Aud!ReadFollows
  <2> DEFINE levels == IF r.at = "anonymous" \/ r.who \subseteq r.following THEN {"public", "followers"} ELSE {"public"}
  <2>4. items = Aud!Carried(r.who) \union Aud!Post(r.who \intersect Aud!Live(levels))
    BY <2>1 DEF Aud!OnePost
  <2> HIDE DEF items
  <2>5. CASE i \in Aud!Carried(r.who)
    <3>1. Aud!Carried(r.who) \subseteq items
      BY <2>4
    <3>2. /\ i[2] \in Authors
          /\ \/ i[1] = "repost" /\ i[2] \in r.who
             \/ i[1] = "post" /\ visibility[i[2]] # "gone" /\ Aud!CarriedBy(r, items, i[2])
      BY <2>5, <3>1, <1>2, <1>6, <1>who, CarriedAre
    <3> QED BY <3>2, <1>6 DEF Fine, Aud!NoBlocks
  <2>6. CASE i \in Aud!Post(r.who \intersect Aud!Live(levels))
    <3>1. i[1] = "post" /\ i[2] = a /\ a \in Aud!Live(levels)
      BY <2>2, <2>6, ItemsAre
    <3>2. visibility[a] = "public" \/ (visibility[a] = "followers" /\ (r.at = "anonymous" \/ a \in r.following))
      BY <2>2, <3>1 DEF Aud!Live
    <3> QED BY <1>1, <2>3, <3>1, <3>2, <1>6 DEF Fine, Aud!OpenToGuests, Aud!NoBlocks
  <2> QED BY <2>4, <2>5, <2>6
<1>7. CASE r.list \in {"hashtag", "trending"}
  <2>1. items = Aud!Post((Aud!Live({"public"}) \intersect some) \ r.blocked) \union Aud!Repost(some \ r.blocked)
    BY <1>7 DEF Aud!Shown, Aud!ByHashtag, Aud!TrendingPosts
  <2>2. r.at = "query" => blocked \ r.late \subseteq r.blocked
    BY <1>1, <1>7 DEF Knows, Aud!Lists, Aud!OfOne, Aud!NoBlocks
  <2> HIDE DEF items
  <2>3. CASE i \in Aud!Post((Aud!Live({"public"}) \intersect some) \ r.blocked)
    <3>1. i[1] = "post" /\ i[2] \in Aud!Live({"public"}) /\ i[2] \notin r.blocked
      BY <2>3, ItemsAre
    <3> QED BY <2>2, <3>1 DEF Fine, Aud!Live
  <2>4. CASE i \in Aud!Repost(some \ r.blocked)
    <3>1. i[1] = "repost" /\ i[2] \in some /\ i[2] \notin r.blocked
      BY <2>4, ItemsAre
    <3> QED BY <2>2, <3>1 DEF Fine
  <2> QED BY <2>1, <2>3, <2>4
<1>8. CASE r.list \in {"userStories", "story", "stories", "comments", "replies", "search", "followers",
                       "following", "profile"}
  <2>1. i[1] \in {"story", "comment", "user"} /\ i[2] \in Authors \ r.blocked
        /\ (r.list \in Aud!OfOne => i[2] \in r.who)
    <3>1. CASE r.list \in {"userStories", "story", "stories"}
      <4>1. items \in {Aud!Story(r.who \ r.blocked), Aud!Story(r.following \ r.blocked)}
            /\ (r.list # "stories" => items = Aud!Story(r.who \ r.blocked))
        BY <3>1 DEF Aud!Shown, Aud!UserStories, Aud!OneStory, Aud!FeedStories
      <4> HIDE DEF items
      <4> QED BY <3>1, <4>1, <1>who, ItemsAre DEF Aud!OfOne
    <3>2. CASE r.list \in {"comments", "replies"}
      <4>1. items = Aud!Comment(Authors \ r.blocked)
        BY <3>2 DEF Aud!Shown, Aud!CommentsOf, Aud!RepliesOf
      <4> HIDE DEF items
      <4> QED BY <3>2, <4>1, ItemsAre DEF Aud!OfOne
    <3>3. CASE r.list \in {"search", "followers", "following", "profile"}
      <4>1. /\ items \in {Aud!User(Authors \ r.blocked), Aud!User(some \ r.blocked), Aud!User(r.who \ r.blocked)}
            /\ r.list = "profile" => items = Aud!User(r.who \ r.blocked)
        BY <3>3 DEF Aud!Shown, Aud!SearchUsers, Aud!Followers, Aud!Following, Aud!Profile
      <4> HIDE DEF items
      <4> QED BY <3>3, <4>1, <1>who, ItemsAre DEF Aud!OfOne
    <3> QED BY <1>8, <3>1, <3>2, <3>3
  <2>2. /\ r.at = "query" /\ r.list \in Aud!OfOne => (blocked \ r.late) \intersect r.who \subseteq r.blocked
        /\ r.at = "query" /\ r.list \notin Aud!OfOne => blocked \ r.late \subseteq r.blocked
    BY <1>1, <1>3, <1>8 DEF Knows, Aud!NoBlocks
  <2> HIDE DEF items
  <2> QED BY <2>1, <2>2 DEF Fine
<1>9. CASE r.list = "comment"
  <2>1. items = Aud!Comment(r.who)
    BY <1>9 DEF Aud!Shown, Aud!OneComment
  <2> HIDE DEF items
  <2>2. i[1] = "comment" /\ i[2] \in Authors
    BY <2>1, <1>who, ItemsAre
  <2> QED BY <2>2, <1>9 DEF Fine, Aud!NoBlocks
<1> QED
  BY <1>3, <1>4, <1>5, <1>6, <1>7, <1>8, <1>9 DEF Aud!Lists

\* For any authors and readers, a list shows neither side of a block nor a post that is not for its
\* viewer, but for what its own list leaves out of the filter or what changed while it was read
\* (the queries of PostsService, StoriesService, CommentsService and UsersService).
THEOREM AudienceSafe == MCSpec => []AudienceExplained
<1>1. AudienceInv => AudienceExplained
  BY AudienceShown DEF AudienceExplained, Aud!AudienceExplained
<1> QED BY <1>1, AudienceInvariant, PTL

-----------------------------------------------------------------------------
\* The profile and its picture.

\* While the profile is in focus only it moves.
LEMMA ProfileMoves ==
  focus = "profile" /\ [MCNext]_allVars => focus' = "profile" /\ [Pro!Next]_profileVars
BY DEF MCNext, Others, Rest, allVars

\* A request with the row loaded.
Copy ==
  [at : {"idle", "checkName", "deleteOld", "upload", "deleteAvatar", "save", "saveUndefined"},
   username : ProfileNames \union {"none"}, url : Objects \union {0}]

\* What the store holds while the request w has the row loaded.
Holds(w) ==
  /\ w.at \in {"checkName", "deleteOld", "deleteAvatar", "upload", "saveUndefined"} => w.url = row.url
  /\ w.at \in {"checkName", "deleteOld", "deleteAvatar", "save", "saveUndefined"} =>
       stored = ({w.url} \ ({0} \union cleared)) \union undeleted
  /\ w.at = "upload" => stored = undeleted

\* While requests have come one after the other, the one that is open knows what the
\* store holds.
ProfileInv ==
  focus = "profile" =>
    /\ row \in [username : ProfileNames, url : Objects \union {0}]
    /\ stored \subseteq Objects /\ cleared \subseteq Objects /\ overlapped \in BOOLEAN
    /\ undeleted \subseteq stored
    /\ copy \in [Edits -> Copy]
    /\ \A c \in Edits :
         /\ copy[c].at = "idle" <=> copy[c] = Pro!Idle
         /\ copy[c] # Pro!Idle => copy[c].username \in ProfileNames
         /\ copy[c].at = "deleteAvatar" => copy[c].url # 0
    /\ ~overlapped =>
         /\ \A c, d \in Edits : copy[c] # Pro!Idle /\ copy[d] # Pro!Idle => c = d
         /\ (\A c \in Edits : copy[c] = Pro!Idle) =>
              stored = ({row.url} \ ({0} \union cleared)) \union undeleted
         /\ \A c \in Edits : Holds(copy[c])

\* A request that is not open holds no copy of the row.
LEMMA ProfileIdle ==
  /\ Pro!Idle \in Copy /\ Pro!Idle.at = "idle" /\ Pro!Idle.username = "none" /\ Pro!Idle.url = 0
BY DEF Pro!Idle, Copy

\* At the start row and store agree.
LEMMA ProfileInit == MCInit => ProfileInv
<1> SUFFICES ASSUME MCInit, focus = "profile" PROVE ProfileInv
  BY DEF ProfileInv
<1> QED BY ProfileIdle DEF MCInit, Pro!Init, ProfileInv, Holds

\* Every step of an update, an upload or a removal keeps what its request knows of the store.
LEMMA ProfileStep == ProfileInv /\ [MCNext]_allVars => ProfileInv'
<1> SUFFICES ASSUME ProfileInv, focus = "profile", [Pro!Next]_profileVars, focus' = "profile" PROVE ProfileInv'
  BY ProfileMoves DEF ProfileInv, MCNext, Others, Rest, allVars
<1>0. Objects \subseteq Nat
  BY MediaAssumption
<1>1. /\ row \in [username : ProfileNames, url : Objects \union {0}]
      /\ stored \subseteq Objects /\ cleared \subseteq Objects /\ overlapped \in BOOLEAN
      /\ undeleted \subseteq stored
      /\ copy \in [Edits -> Copy]
      /\ \A c \in Edits :
         /\ copy[c].at = "idle" <=> copy[c] = Pro!Idle
         /\ copy[c] # Pro!Idle => copy[c].username \in ProfileNames
         /\ copy[c].at = "deleteAvatar" => copy[c].url # 0
      /\ ~overlapped =>
         /\ \A c, d \in Edits : copy[c] # Pro!Idle /\ copy[d] # Pro!Idle => c = d
         /\ (\A c \in Edits : copy[c] = Pro!Idle) =>
              stored = ({row.url} \ ({0} \union cleared)) \union undeleted
         /\ \A c \in Edits : Holds(copy[c])
  BY DEF ProfileInv
<1>2. ASSUME NEW c \in Edits, NEW at \in {"checkName", "deleteOld", "deleteAvatar", "save"}, Pro!Load(c, at),
             at = "deleteAvatar" => row.url # 0
      PROVE ProfileInv'
  <2> DEFINE to == [at |-> at, username |-> row.username, url |-> row.url]
  <2>1. to \in Copy /\ to.at = at /\ to.username \in ProfileNames /\ to.url = row.url /\ to # Pro!Idle
    BY <1>1, <1>2, ProfileIdle DEF Copy
  <2>2. copy' = [copy EXCEPT ![c] = to] /\ copy[c] = Pro!Idle /\ UNCHANGED <<row, stored, profileFaults, cleared, undeleted>>
        /\ overlapped' = (overlapped \/ \E d \in Edits : copy[d] # Pro!Idle)
    BY <1>2 DEF Pro!Load, Pro!GoTo
  <2> HIDE DEF to
  <2>3. ~overlapped' => ~overlapped /\ \A d \in Edits : copy[d] = Pro!Idle
    BY <2>2
  <2>4. ~overlapped' => \A d \in Edits : (Holds(copy[d]))'
    BY <2>1, <2>2, <2>3, <1>1, <1>2, ProfileIdle DEF Holds
  <2>5. copy' \in [Edits -> Copy]
    BY <2>1, <2>2, <1>1
  <2> QED BY <2>1, <2>2, <2>3, <2>4, <2>5, <1>1, <1>2, ProfileIdle DEF ProfileInv
<1>3. ASSUME NEW c \in Edits, Pro!UpdateProfile(c) \/ Pro!UploadAvatar(c) \/ Pro!DeleteAvatar(c) \/ Pro!Login(c)
      PROVE ProfileInv'
  BY <1>2, <1>3 DEF Pro!UpdateProfile, Pro!UploadAvatar, Pro!DeleteAvatar, Pro!Login
\* A request goes on: when it is alone, what it does to the store is what it knows.
<1>4. ASSUME NEW c \in Edits, copy[c] # Pro!Idle, NEW to \in Copy, copy' = [copy EXCEPT ![c] = to],
             to.at # "idle", to.username \in ProfileNames, to.at = "deleteAvatar" => to.url # 0,
             row' = row, stored' \subseteq Objects, cleared' \subseteq Objects, undeleted' \subseteq stored', overlapped' = overlapped,
             Holds(copy[c]) => (Holds(copy[c]))'
      PROVE ProfileInv'
  <2>1. copy'[c] = to /\ \A d \in Edits \ {c} : copy'[d] = copy[d]
    BY <1>1, <1>4
  <2>2. to # Pro!Idle
    BY <1>4, ProfileIdle
  <2>3. ~overlapped' => \A d \in Edits \ {c} : copy[d] = Pro!Idle
    BY <1>1, <1>4
  <2>4. ~overlapped' => \A d \in Edits : (Holds(copy[d]))'
    BY <1>1, <1>4, <2>1, <2>3, ProfileIdle DEF Holds
  <2> QED BY <1>1, <1>4, <2>1, <2>2, <2>3, <2>4, ProfileIdle DEF ProfileInv
<1>5. ASSUME NEW c \in Edits, Pro!CheckName(c) PROVE ProfileInv'
  <2>1. PICK w \in Copy : w = copy[c] /\ w # Pro!Idle /\ w.at = "checkName"
    BY <1>1, <1>5, ProfileIdle DEF Pro!CheckName
  <2>2. PICK n \in ProfileNames : Pro!GoTo(c, [w EXCEPT !.at = "save", !.username = n])
    BY <1>5, <2>1 DEF Pro!CheckName
  <2> DEFINE to == [w EXCEPT !.at = "save", !.username = n]
  <2>3. to \in Copy /\ to.at = "save" /\ to.username = n /\ to.url = w.url
    BY <2>1 DEF Copy
  <2>4. copy' = [copy EXCEPT ![c] = to]
    BY <2>2 DEF Pro!GoTo
  <2> HIDE DEF to
  <2>5. copy'[c] = to /\ UNCHANGED <<row, stored, edits, profileFaults, overlapped, cleared, undeleted>>
    BY <2>4, <1>1, <1>5 DEF Pro!CheckName
  <2>6. Holds(copy[c]) => (Holds(copy[c]))'
    BY <2>1, <2>3, <2>5 DEF Holds
  <2> QED BY <1>1, <1>4, <2>1, <2>3, <2>4, <2>5, <2>6
<1>6. ASSUME NEW c \in Edits, Pro!DeleteOld(c) PROVE ProfileInv'
  <2>1. PICK w \in Copy : w = copy[c] /\ w # Pro!Idle /\ w.at = "deleteOld" /\ w.username \in ProfileNames
    BY <1>1, <1>6, ProfileIdle DEF Pro!DeleteOld
  <2> DEFINE to == [w EXCEPT !.at = "upload"]
  <2>3. to \in Copy /\ to.at = "upload" /\ to.username = w.username /\ to.url = w.url
    BY <2>1 DEF Copy
  <2>4. copy' = [copy EXCEPT ![c] = to]
    BY <2>1, <1>6 DEF Pro!GoTo, Pro!DeleteOld
  <2> HIDE DEF to
  <2>5. copy'[c] = to /\ UNCHANGED <<row, edits, overlapped, cleared>>
    BY <2>1, <2>4, <1>1, <1>6 DEF Pro!DeleteOld
  <2>6. \/ stored' = stored \ {w.url} /\ undeleted' = undeleted \ {w.url}
        \/ stored' = stored /\ undeleted' = undeleted \union (stored \intersect {w.url})
    BY <2>1, <1>6 DEF Pro!DeleteOld, Pro!Deleted, Pro!Refused
  <2>7. Holds(copy[c]) => (Holds(copy[c]))'
    <3> SUFFICES ASSUME Holds(w) PROVE w.url = row.url /\ stored' = undeleted'
      BY <2>1, <2>3, <2>5 DEF Holds
    <3>1. w.url = row.url /\ stored = ({w.url} \ ({0} \union cleared)) \union undeleted
      BY <2>1 DEF Holds
    <3> QED BY <3>1, <2>6
  <2> QED BY <1>1, <1>4, <2>1, <2>3, <2>4, <2>5, <2>6, <2>7
<1>7. ASSUME NEW c \in Edits, Pro!Upload(c) PROVE ProfileInv'
  <2>1. PICK w \in Copy : w = copy[c] /\ w # Pro!Idle /\ w.at = "upload" /\ w.username \in ProfileNames
    BY <1>1, <1>7, ProfileIdle DEF Pro!Upload
  <2>2. PICK o \in Pro!Fresh : /\ stored' = stored \union {o}
                               /\ Pro!GoTo(c, [w EXCEPT !.at = "save", !.url = o])
    BY <1>7, <2>1 DEF Pro!Upload
  <2>o. o \in Objects /\ o # 0 /\ o \notin cleared
    <3>1. o \in Objects /\ \A p \in cleared \union {row.url} : p < o
      BY <2>2 DEF Pro!Fresh
    <3>2. o \in Nat /\ row.url \in Nat /\ row.url < o
      <4>1. row.url \in Objects \union {0}
        BY <1>1
      <4>2. row.url \in Nat
        <5>1. CASE row.url = 0
          BY <5>1
        <5>2. CASE row.url \in Objects
          BY <5>2, <1>0
        <5> QED BY <4>1, <5>1, <5>2
      <4>3. o \in Nat
        BY <3>1, <1>0
      <4> QED BY <3>1, <4>2, <4>3
    <3>3. \A p \in cleared : p < o /\ p \in Nat
      BY <3>1, <1>1, <1>0
    <3> QED BY <3>1, <3>2, <3>3
  <2> DEFINE to == [w EXCEPT !.at = "save", !.url = o]
  <2>3. to \in Copy /\ to.at = "save" /\ to.username = w.username /\ to.url = o
    BY <2>1, <2>o DEF Copy
  <2>4. copy' = [copy EXCEPT ![c] = to]
    BY <2>2 DEF Pro!GoTo
  <2> HIDE DEF to
  <2>5. copy'[c] = to /\ UNCHANGED <<row, edits, profileFaults, overlapped, cleared, undeleted>>
    BY <2>4, <1>1, <1>7 DEF Pro!Upload
  <2>6. Holds(copy[c]) => (Holds(copy[c]))'
    BY <2>1, <2>2, <2>o, <2>3, <2>5 DEF Holds
  <2> QED BY <1>1, <1>4, <2>1, <2>2, <2>o, <2>3, <2>4, <2>5, <2>6
<1>8. ASSUME NEW c \in Edits, Pro!DeleteFromStore(c) PROVE ProfileInv'
  <2>1. PICK w \in Copy : w = copy[c] /\ w # Pro!Idle /\ w.at = "deleteAvatar" /\ w.username \in ProfileNames /\ w.url # 0
    BY <1>1, <1>8, ProfileIdle DEF Pro!DeleteFromStore
  <2> DEFINE to == [w EXCEPT !.at = "saveUndefined"]
  <2>3. to \in Copy /\ to.at = "saveUndefined" /\ to.username = w.username /\ to.url = w.url /\ w.url \in Objects
    BY <2>1 DEF Copy
  <2>4. copy' = [copy EXCEPT ![c] = to]
    BY <2>1, <1>8 DEF Pro!GoTo, Pro!DeleteFromStore
  <2> HIDE DEF to
  <2>5. copy'[c] = to /\ UNCHANGED <<row, edits, overlapped>>
    BY <2>1, <2>4, <1>1, <1>8 DEF Pro!DeleteFromStore
  <2>6. \/ stored' = stored \ {w.url} /\ undeleted' = undeleted \ {w.url} /\ cleared' = cleared \union {w.url}
        \/ stored' = stored /\ undeleted' = undeleted \union (stored \intersect {w.url}) /\ cleared' = cleared
    BY <2>1, <1>8 DEF Pro!DeleteFromStore, Pro!Deleted, Pro!Refused
  <2>7. Holds(copy[c]) => (Holds(copy[c]))'
    <3> SUFFICES ASSUME Holds(w)
                 PROVE w.url = row.url /\ stored' = ({w.url} \ ({0} \union cleared')) \union undeleted'
      BY <2>1, <2>3, <2>5 DEF Holds
    <3>1. w.url = row.url /\ stored = ({w.url} \ ({0} \union cleared)) \union undeleted
      BY <2>1 DEF Holds
    <3> QED BY <3>1, <2>6
  <2> QED BY <1>1, <1>4, <2>1, <2>3, <2>4, <2>5, <2>6, <2>7
<1>9. ASSUME NEW c \in Edits, Pro!Save(c) PROVE ProfileInv'
  <2>1. PICK w \in Copy : w = copy[c] /\ w # Pro!Idle /\ w.at \in {"save", "saveUndefined"} /\ w.username \in ProfileNames
    BY <1>1, <1>9, ProfileIdle DEF Pro!Save
  <2>2. copy' = [copy EXCEPT ![c] = Pro!Idle] /\ UNCHANGED <<stored, edits, profileFaults, overlapped, cleared, undeleted>>
    BY <1>9 DEF Pro!Save, Pro!GoTo
  <2>3. copy'[c] = Pro!Idle /\ \A d \in Edits \ {c} : copy'[d] = copy[d]
    BY <1>1, <2>2
  <2>4. /\ row' \in [username : ProfileNames, url : Objects \union {0}]
        /\ row'.url = IF w.at = "save" THEN w.url ELSE row.url
    BY <1>1, <1>9, <2>1 DEF Pro!Save, Pro!Columns, Copy
  <2>5. ~overlapped => \A d \in Edits : copy'[d] = Pro!Idle
    BY <1>1, <2>1, <2>3
  <2>6. ~overlapped => stored = ({row'.url} \ ({0} \union cleared)) \union undeleted
    BY <1>1, <2>1, <2>4 DEF Holds
  <2>7. ~overlapped => \A d \in Edits : (Holds(copy[d]))'
    BY <2>5, ProfileIdle DEF Holds
  <2> QED BY <1>1, <2>2, <2>3, <2>4, <2>5, <2>6, <2>7, ProfileIdle DEF ProfileInv
<1>10. ASSUME NEW c \in Edits, Pro!Fail(c) PROVE ProfileInv'
  BY <1>1, <1>10, ProfileIdle DEF Pro!Fail, Pro!GoTo, ProfileInv
\* An object deleted by its key is gone whatever a request knows.
<1>11. ASSUME NEW o \in Objects, Pro!DeleteByKey(o) PROVE ProfileInv'
  <2>1. /\ stored' = stored \ {o} /\ undeleted' = undeleted \ {o} /\ cleared' = cleared \union {o}
        /\ UNCHANGED <<row, copy, edits, overlapped>>
    BY <1>11 DEF Pro!DeleteByKey, Pro!Deleted
  <2>2. ASSUME NEW d \in Edits, Holds(copy[d]) PROVE (Holds(copy[d]))'
    BY <2>1, <2>2 DEF Holds
  <2>3. stored = ({row.url} \ ({0} \union cleared)) \union undeleted
          => stored' = ({row'.url} \ ({0} \union cleared')) \union undeleted'
    BY <2>1
  <2> QED BY <1>1, <2>1, <2>2, <2>3 DEF ProfileInv
<1>12. CASE UNCHANGED profileVars
  BY <1>1, <1>12 DEF ProfileInv, profileVars, Holds
<1> QED
  BY <1>3, <1>5, <1>6, <1>7, <1>8, <1>9, <1>10, <1>11, <1>12 DEF Pro!Next

\* While requests come one after the other, the one that is open knows what the store holds
\* (UsersService.updateProfile, uploadAvatar and deleteAvatar).
THEOREM ProfileInvariant == MCSpec => []ProfileInv
BY ProfileInit, ProfileStep, PTL DEF MCSpec

-----------------------------------------------------------------------------
\* The pictures of listings and services.

\* While pictures are in focus only they move.
LEMMA PicturesMove ==
  focus = "pictures" /\ [MCNext]_allVars => focus' = "pictures" /\ [Gal!Next]_mediaVars
BY DEF MCNext, Others, Rest, allVars

\* A request for pictures.
Edit ==
  [at : {"idle", "thumbnail", "saveImage", "nextPicture", "deletePicture", "thumbnailExists",
         "deleteThumbnail", "deleteRow"},
   of : Owners \union {"none"}, row : Pictures \union {0}, todo : SUBSET Pictures, all : BOOLEAN]

Uploading(w) == w.at \in {"thumbnail", "saveImage"}
Deleting(w) == w.at \in {"deletePicture", "thumbnailExists", "deleteThumbnail", "deleteRow"}

\* An address that some answer has told, or none; an object with such an address is in
\* the store, left by a failure, or deleted.
Told(o) == o = 0 \/ o \in uploads \/ (o \in Pictures /\ of[o] # "none")
There(o) == o \in pictures \union loose \union {0} \/ \E d \in dropped : d[1] = o

\* What a request works on: a new picture that no row is numbered after yet, or one
\* whose row has an owner and whose object goes first, then its thumbnail.
Sorted(w) ==
  /\ Uploading(w) => /\ w.of \in Owners /\ w.row \in pictures \ uploads /\ of[w.row] = "none" /\ ~w.all
  /\ Deleting(w) => w.row # 0 /\ of[w.row] = w.of /\ w.of \in Owners
  /\ Deleting(w) /\ w.at # "deletePicture" => names[w.row] \notin pictures
  /\ w.at = "deleteRow" => ~w.all /\ names[w.row] \notin thumbnails \ loose
  /\ w.at = "nextPicture" => w.all /\ w.row = 0
  /\ w.at = "idle" => w.row = 0
  /\ \A i \in w.todo : of[i] = w.of
  /\ w.all => w.of \in Owners
  /\ ~w.all => w.todo = {}

\* A request that will end with the row, or with its owner, gone.
Ends(w, i) == Deleting(w) /\ ~w.all /\ w.at # "deletePicture" /\ w.row = i
Parts(w, i) == w.all /\ w.of = of[i]

\* A picture that is shown is in the store, unless ...
ThereOrGone(i) ==
  \/ names[i] \in pictures \union loose \union {0}
  \/ \E d \in dropped : d[1] = names[i] /\ d[2] # i
  \/ \E c \in Editors : Ends(editing[c], i) \/ Parts(editing[c], i)

\* An object in the store is shown, left by a failure, uploaded for no row, new, or has
\* a thumbnail that goes next.
Accounted(o) ==
  \/ o \in loose \union uploads
  \/ \E i \in Gal!Shown : names[i] = o
  \/ \E c \in Editors : Uploading(editing[c]) /\ editing[c].row = o
  \/ \E c \in Editors : editing[c].at \in {"thumbnailExists", "deleteThumbnail"} /\ names[editing[c].row] = o

PicturesInv ==
  focus = "pictures" =>
    /\ owner \subseteq Owners /\ imageRows \subseteq Pictures /\ uploads \subseteq Pictures
    /\ pictures \subseteq Pictures /\ thumbnails \subseteq Pictures /\ loose \subseteq Pictures \union {0}
    /\ of \in [Pictures -> Owners \union {"none"}] /\ names \in [Pictures -> Pictures \union {0}]
    /\ \A i \in imageRows : of[i] # "none"
    /\ \A i \in uploads : of[i] = "none" /\ There(i)
    /\ \A i \in Pictures : IF of[i] = "none" THEN names[i] = i ELSE Told(names[i]) /\ There(names[i])
    /\ \A d \in dropped : d[2] = 0 \/ (d[2] \in Pictures /\ of[d[2]] # "none")
    /\ editing \in [Editors -> Edit] /\ \A c \in Editors : Sorted(editing[c])
    /\ \A c, d \in Editors :
         Uploading(editing[c]) /\ Uploading(editing[d]) /\ editing[c].row = editing[d].row => c = d
    /\ \A i \in Gal!Shown : ThereOrGone(i)
    /\ \A o \in pictures \union thumbnails : Accounted(o)

\* A request that is not open holds no picture.
LEMMA PicturesIdle ==
  /\ Gal!Idle \in Edit /\ Sorted(Gal!Idle) /\ Gal!Idle.at = "idle" /\ ~Gal!Idle.all
  /\ ~Uploading(Gal!Idle) /\ ~Deleting(Gal!Idle)
BY DEF Gal!Idle, Edit, Sorted, Uploading, Deleting

\* What comes after deleteImage is in order: the next picture or the row.
LEMMA PicturesAfter ==
  ASSUME NEW w \in Edit
  PROVE  /\ Gal!After(w) \in Edit /\ Gal!After(w).all = w.all
         /\ Gal!After(w).of = w.of /\ Gal!After(w).todo = w.todo
         /\ Gal!After(w).at = IF w.all THEN "nextPicture" ELSE "deleteRow"
         /\ Gal!After(w).row = IF w.all THEN 0 ELSE w.row
<1>1. CASE w.all
  BY <1>1 DEF Edit, Gal!After
<1>2. CASE ~w.all
  BY <1>2 DEF Edit, Gal!After
<1> QED BY <1>1, <1>2 DEF Edit

\* With no pictures nothing is to be explained.
LEMMA PicturesInit == MCInit => PicturesInv
<1> SUFFICES ASSUME MCInit, focus = "pictures" PROVE PicturesInv
  BY DEF PicturesInv
<1>1. Gal!Init
  BY DEF MCInit
<1>2. editing \in [Editors -> Edit] /\ \A c \in Editors : Sorted(editing[c]) /\ ~Uploading(editing[c])
  BY <1>1, PicturesIdle DEF Gal!Init
<1>3. Gal!Shown = {}
  BY <1>1 DEF Gal!Init, Gal!Shown
<1> QED BY <1>1, <1>2, <1>3 DEF Gal!Init, PicturesInv

\* Every step of an upload or a deletion, or its failure, keeps each picture and thumbnail accounted for.
LEMMA PicturesStep == PicturesInv /\ [MCNext]_allVars => PicturesInv'
<1> SUFFICES ASSUME PicturesInv, focus = "pictures", [Gal!Next]_mediaVars, focus' = "pictures" PROVE PicturesInv'
  BY PicturesMove DEF PicturesInv, MCNext, Others, Rest, allVars
<1>1. /\ owner \subseteq Owners /\ imageRows \subseteq Pictures /\ uploads \subseteq Pictures
      /\ pictures \subseteq Pictures /\ thumbnails \subseteq Pictures /\ loose \subseteq Pictures \union {0}
      /\ of \in [Pictures -> Owners \union {"none"}] /\ names \in [Pictures -> Pictures \union {0}]
      /\ \A i \in imageRows : of[i] # "none"
      /\ \A i \in uploads : of[i] = "none" /\ There(i)
      /\ \A i \in Pictures : IF of[i] = "none" THEN names[i] = i ELSE Told(names[i]) /\ There(names[i])
      /\ \A d \in dropped : d[2] = 0 \/ (d[2] \in Pictures /\ of[d[2]] # "none")
      /\ editing \in [Editors -> Edit] /\ \A c \in Editors : Sorted(editing[c])
      /\ \A c, d \in Editors :
           Uploading(editing[c]) /\ Uploading(editing[d]) /\ editing[c].row = editing[d].row => c = d
      /\ \A i \in Gal!Shown : ThereOrGone(i)
      /\ \A o \in pictures \union thumbnails : Accounted(o)
  BY DEF PicturesInv
<1>none. "none" \notin Owners /\ 0 \notin Pictures
  BY MediaAssumption
<1>2. ASSUME NEW c \in Editors, NEW to \in Edit, Gal!GoTo(c, to)
      PROVE editing' \in [Editors -> Edit] /\ editing'[c] = to /\ \A d \in Editors : d # c => editing'[d] = editing[d]
  BY <1>1, <1>2 DEF Gal!GoTo
\* A request that is not open works on nothing, whatever there is.
<1>idle. Sorted(Gal!Idle)'
  BY DEF Gal!Idle, Sorted, Uploading, Deleting
\* A request that deletes a row goes on, or gives up and leaves what it worked on loose.
<1>3. ASSUME NEW c \in Editors, NEW to \in Edit, Gal!GoTo(c, to), Sorted(to)', ~Uploading(to),
             UNCHANGED <<owner, imageRows, of, names, pictures, dropped, uploads>>,
             thumbnails' \subseteq thumbnails, loose \subseteq loose', loose' \subseteq Pictures \union {0},
             Uploading(editing[c]) => editing[c].row \in loose',
             \A i \in Gal!Shown :
               Ends(editing[c], i) \/ Parts(editing[c], i) => Ends(to, i) \/ Parts(to, i) \/ names[i] \in loose',
             editing[c].at \in {"thumbnailExists", "deleteThumbnail"} =>
               \/ names[editing[c].row] \notin thumbnails' \/ names[editing[c].row] \in loose'
               \/ to.at \in {"thumbnailExists", "deleteThumbnail"} /\ to.row = editing[c].row
      PROVE PicturesInv'
  <2>1. editing' \in [Editors -> Edit] /\ editing'[c] = to /\ \A d \in Editors : d # c => editing'[d] = editing[d]
    BY <1>2, <1>3
  <2>2. \A d \in Editors : (Sorted(editing[d]))'
    <3>1. TAKE d \in Editors
    <3>2. CASE d = c
      BY <1>3, <2>1, <3>2 DEF Sorted
    <3>3. CASE d # c
      <4>1. PICK w \in Edit : w = editing'[d] /\ Sorted(w)
        BY <1>1, <2>1, <3>3
      <4>2. Sorted(w)'
        BY <1>3, <4>1 DEF Sorted
      <4> QED BY <4>1, <4>2 DEF Sorted
    <3> QED BY <3>2, <3>3
  <2>3. Gal!Shown' = Gal!Shown
    BY <1>3 DEF Gal!Shown
  <2>4. \A i \in Gal!Shown' : ThereOrGone(i)'
    <3>1. TAKE i \in Gal!Shown'
    <3>2. ThereOrGone(i)
      BY <1>1, <2>3
    <3>3. CASE \E d \in Editors : Ends(editing[d], i) \/ Parts(editing[d], i)
      <4>1. PICK d \in Editors : Ends(editing[d], i) \/ Parts(editing[d], i)
        BY <3>3
      <4>2. CASE d = c
        BY <1>3, <2>1, <2>3, <4>1, <4>2 DEF ThereOrGone, Parts, Ends
      <4>3. CASE d # c
        BY <1>3, <2>1, <4>1, <4>3 DEF ThereOrGone, Parts, Ends
      <4> QED BY <4>2, <4>3
    <3> QED BY <1>3, <3>2, <3>3 DEF ThereOrGone
  <2>5. \A o \in pictures' \union thumbnails' : Accounted(o)'
    <3>1. TAKE o \in pictures' \union thumbnails'
    <3>2. Accounted(o)
      BY <1>1, <1>3
    <3>3. CASE Uploading(editing[c]) /\ editing[c].row = o
      BY <1>3, <3>3 DEF Accounted
    <3>4. CASE editing[c].at \in {"thumbnailExists", "deleteThumbnail"} /\ names[editing[c].row] = o
      <4>1. o \notin pictures
        BY <1>1, <3>4 DEF Sorted, Deleting
      <4>2. CASE o \in loose'
        BY <4>2 DEF Accounted
      <4>3. CASE to.at \in {"thumbnailExists", "deleteThumbnail"} /\ to.row = editing[c].row
        BY <1>3, <2>1, <3>4, <4>3 DEF Accounted
      <4> QED BY <1>3, <3>1, <3>4, <4>1, <4>2, <4>3
    <3> QED BY <1>3, <2>1, <2>3, <3>2, <3>3, <3>4 DEF Accounted
  <2>6. /\ \A i \in uploads' : of'[i] = "none" /\ There(i)'
        /\ \A i \in Pictures : IF of'[i] = "none" THEN names'[i] = i ELSE Told(names[i])' /\ There(names[i])'
    BY <1>1, <1>3 DEF Told, There
  <2>7. \A d, e \in Editors :
          Uploading(editing'[d]) /\ Uploading(editing'[e]) /\ editing'[d].row = editing'[e].row => d = e
    BY <1>1, <1>3, <2>1
  <2> QED BY <1>1, <1>3, <2>1, <2>2, <2>4, <2>5, <2>6, <2>7 DEF PicturesInv, Uploading
<1>fresh. ASSUME NEW i \in Gal!Fresh
          PROVE /\ i \in Pictures /\ of[i] = "none" /\ names[i] = i /\ i \notin pictures /\ i \notin loose
                /\ i \notin uploads /\ i \notin thumbnails
                /\ i \notin imageRows /\ \A d \in dropped : d[1] # i
                /\ \A d \in Editors : editing[d].row # i
                /\ \A j \in Pictures : of[j] # "none" => names[j] # i
  <2>1. /\ i \in Pictures /\ of[i] = "none" /\ names[i] = i /\ i \notin pictures /\ i \notin loose
        /\ i \notin uploads /\ i \notin imageRows /\ \A d \in dropped : d[1] # i
        /\ \A d \in Editors : editing[d].row # i
    BY <1>1 DEF Gal!Fresh, Gal!Used
  <2>2. \A j \in Pictures : of[j] # "none" => names[j] # i
    BY <1>1, <1>none, <2>1 DEF Told
  <2>3. i \notin thumbnails
    <3>1. SUFFICES ASSUME Accounted(i) PROVE FALSE
      BY <1>1
    <3>2. \A j \in Gal!Shown : names[j] # i
      BY <1>1, <2>2 DEF Gal!Shown
    <3>3. ASSUME NEW d \in Editors, editing[d].at \in {"thumbnailExists", "deleteThumbnail"}
          PROVE names[editing[d].row] # i
      <4>1. /\ editing[d].row \in Pictures \union {0} /\ editing[d].row # 0
            /\ of[editing[d].row] \in Owners
        BY <1>1, <3>3 DEF Sorted, Deleting, Edit
      <4> QED BY <4>1, <2>2, <1>none
    <3> QED BY <2>1, <3>1, <3>2, <3>3 DEF Accounted
  <2> QED BY <2>1, <2>2, <2>3
<1>4. ASSUME NEW c \in Editors, Gal!Upload(c) PROVE PicturesInv'
  <2>1. PICK o \in owner, i \in Gal!Fresh :
          /\ pictures' = pictures \union {i}
          /\ Gal!GoTo(c, [Gal!Idle EXCEPT !.at = "thumbnail", !.of = o, !.row = i])
    BY <1>4 DEF Gal!Upload
  <2>2. editing[c] = Gal!Idle /\ UNCHANGED <<owner, imageRows, of, names, thumbnails, dropped, uploads, loose>>
    BY <1>4 DEF Gal!Upload
  <2>3. PICK idle \in Edit : idle = Gal!Idle /\ ~idle.all /\ idle.todo = {}
    BY PicturesIdle DEF Gal!Idle
  <2> DEFINE to == [idle EXCEPT !.at = "thumbnail", !.of = o, !.row = i]
  <2>4. to \in Edit /\ to.at = "thumbnail" /\ to.of = o /\ to.row = i /\ ~to.all /\ to.todo = {} /\ Gal!GoTo(c, to)
    BY <1>1, <1>fresh, <2>1, <2>3 DEF Edit
  <2> HIDE DEF to
  <2>5. editing' \in [Editors -> Edit] /\ editing'[c] = to /\ \A d \in Editors : d # c => editing'[d] = editing[d]
    BY <1>2, <2>4
  <2>6. \A d \in Editors : (Sorted(editing[d]))'
    <3>1. TAKE d \in Editors
    <3>2. CASE d = c
      <4>1. Sorted(to)'
        BY <1>1, <1>fresh, <2>1, <2>2, <2>4 DEF Sorted, Uploading, Deleting
      <4> QED BY <2>5, <3>2, <4>1 DEF Sorted
    <3>3. CASE d # c
      <4>1. PICK w \in Edit : w = editing'[d] /\ Sorted(w)
        BY <1>1, <2>5, <3>3
      <4>2. Deleting(w) => names[w.row] # i
        <5>1. Deleting(w) => w.row \in Pictures /\ of[w.row] # "none"
          BY <1>none, <4>1 DEF Sorted, Edit
        <5> QED BY <5>1, <1>fresh
      <4>3. Sorted(w)'
        BY <2>1, <2>2, <4>1, <4>2 DEF Sorted
      <4> QED BY <4>1, <4>3 DEF Sorted
    <3> QED BY <3>2, <3>3
  <2>7. Gal!Shown' = Gal!Shown
    BY <2>2 DEF Gal!Shown
  <2>8. \A j \in Gal!Shown' : ThereOrGone(j)'
    BY <1>1, <2>1, <2>2, <2>5, <2>7, PicturesIdle DEF ThereOrGone, Ends, Parts
  <2>9. \A p \in pictures' \union thumbnails' : Accounted(p)'
    <3>1. Accounted(i)'
      BY <2>4, <2>5 DEF Accounted, Uploading
    <3>2. \A p \in pictures \union thumbnails : Accounted(p)'
      BY <1>1, <2>2, <2>5, <2>7, PicturesIdle DEF Accounted
    <3> QED BY <2>1, <2>2, <3>1, <3>2
  <2>told. /\ \A j \in uploads' : of'[j] = "none" /\ There(j)'
           /\ \A j \in Pictures : IF of'[j] = "none" THEN names'[j] = j ELSE Told(names[j])' /\ There(names[j])'
    BY <1>1, <2>1, <2>2 DEF Told, There
  <2>11. \A d, e \in Editors :
          Uploading(editing'[d]) /\ Uploading(editing'[e]) /\ editing'[d].row = editing'[e].row => d = e
    BY <1>1, <1>fresh, <2>1, <2>4, <2>5
  <2>12. pictures' \subseteq Pictures
    BY <1>1, <1>fresh, <2>1
  <2> QED BY <1>1, <2>1, <2>2, <2>5, <2>6, <2>8, <2>9, <2>11, <2>12, <2>told DEF PicturesInv, Uploading
<1>5. ASSUME NEW c \in Editors, Gal!UploadThumbnail(c) PROVE PicturesInv'
  <2>1. PICK w \in Edit : w = editing[c] /\ w.at = "thumbnail" /\ w.row \in pictures \ uploads /\ of[w.row] = "none" /\ Sorted(w)
    BY <1>1, <1>5 DEF Gal!UploadThumbnail, Gal!Step, Sorted, Uploading
  <2> DEFINE to == [w EXCEPT !.at = "saveImage"]
  <2>2. /\ to \in Edit /\ to.at = "saveImage" /\ to.row = w.row /\ to.of = w.of /\ to.all = w.all
        /\ to.todo = w.todo /\ Gal!GoTo(c, to)
    BY <1>5, <2>1 DEF Edit, Gal!UploadThumbnail
  <2>3. thumbnails' = thumbnails \union {w.row} /\ UNCHANGED <<owner, imageRows, of, names, pictures, dropped, uploads, loose>>
    BY <1>5, <2>1 DEF Gal!UploadThumbnail
  <2> HIDE DEF to
  <2>4. editing' \in [Editors -> Edit] /\ editing'[c] = to /\ \A d \in Editors : d # c => editing'[d] = editing[d]
    BY <1>2, <2>2
  <2>5. Sorted(to)
    BY <2>1, <2>2 DEF Sorted, Uploading, Deleting
  <2>6. \A d \in Editors : (Sorted(editing[d]))'
    <3>1. TAKE d \in Editors
    <3>2. PICK v \in Edit : v = editing'[d] /\ Sorted(v)
      BY <1>1, <2>4, <2>5
    <3>3. Deleting(v) => names[v.row] # w.row
      <4>1. Deleting(v) => v.row \in Pictures /\ of[v.row] # "none"
        BY <1>none, <3>2 DEF Sorted, Edit
      <4>2. Deleting(v) => names[v.row] \in Pictures \union {0} /\ Told(names[v.row])
        BY <1>1, <4>1
      <4> QED BY <1>1, <1>none, <2>1, <4>2 DEF Told
    <3>4. Sorted(v)'
      BY <2>3, <3>2, <3>3 DEF Sorted, Deleting
    <3> QED BY <3>2, <3>4 DEF Sorted
  <2>7. Gal!Shown' = Gal!Shown /\ thumbnails' \subseteq Pictures
    BY <1>1, <2>1, <2>3 DEF Gal!Shown
  <2>8. \A j \in Gal!Shown' : ThereOrGone(j)'
    BY <1>1, <2>1, <2>2, <2>3, <2>4, <2>7 DEF ThereOrGone, Ends, Parts, Deleting, Sorted, Uploading
  <2>9. \A p \in pictures' \union thumbnails' : Accounted(p)'
    <3>1. pictures' \union thumbnails' = pictures \union thumbnails
      BY <2>1, <2>3
    <3> QED BY <1>1, <2>1, <2>2, <2>3, <2>4, <2>7, <3>1 DEF Accounted, Uploading
  <2>told. /\ \A j \in uploads' : of'[j] = "none" /\ There(j)'
           /\ \A j \in Pictures : IF of'[j] = "none" THEN names'[j] = j ELSE Told(names[j])' /\ There(names[j])'
    BY <1>1, <2>3 DEF Told, There
  <2>11. \A d, e \in Editors :
          Uploading(editing'[d]) /\ Uploading(editing'[e]) /\ editing'[d].row = editing'[e].row => d = e
    <3>1. \A d \in Editors : editing'[d].row = editing[d].row /\ (Uploading(editing'[d]) => Uploading(editing[d]))
      BY <2>1, <2>2, <2>4 DEF Uploading
    <3> QED BY <1>1, <3>1
  <2> QED BY <1>1, <2>3, <2>4, <2>6, <2>7, <2>8, <2>9, <2>11, <2>told DEF PicturesInv, Uploading
<1>6. ASSUME NEW c \in Editors, Gal!SaveImage(c) PROVE PicturesInv'
  <2>1. PICK w \in Edit : w = editing[c] /\ w.at = "saveImage" /\ Sorted(w)
    BY <1>1, <1>6 DEF Gal!SaveImage, Gal!Step
  <2>2. Uploading(w) /\ w.of \in Owners /\ w.row \in pictures \ uploads /\ of[w.row] = "none" /\ ~w.all /\ ~Deleting(w)
    BY <2>1 DEF Sorted, Uploading, Deleting
  <2>r. PICK r \in Pictures : r = w.row /\ names[r] = r /\ r \notin imageRows /\ r \notin uploads
    BY <1>1, <2>2
  <2>3. /\ imageRows' = imageRows \union {r} /\ of' = [of EXCEPT ![r] = w.of]
        /\ loose' = (IF w.of \in owner THEN loose ELSE loose \union {r})
        /\ Gal!GoTo(c, Gal!Idle) /\ UNCHANGED <<owner, names, pictures, thumbnails, dropped, uploads>>
    BY <1>6, <2>1, <2>r DEF Gal!SaveImage
  <2>4. editing' \in [Editors -> Edit] /\ editing'[c] = Gal!Idle /\ \A d \in Editors : d # c => editing'[d] = editing[d]
    BY <1>2, <2>3, PicturesIdle
  <2>5. /\ of' \in [Pictures -> Owners \union {"none"}] /\ of'[r] = w.of
        /\ \A i \in Pictures : i # r => of'[i] = of[i]
    BY <1>1, <2>2, <2>3
  <2>6. \A d \in Editors : (Sorted(editing[d]))'
    <3>1. TAKE d \in Editors
    <3>2. CASE d = c
      <4>1. PICK idle \in Edit : idle = Gal!Idle /\ idle.at = "idle" /\ idle.row = 0 /\ idle.todo = {} /\ ~idle.all
        BY PicturesIdle DEF Gal!Idle
      <4>2. Sorted(idle)'
        BY <4>1 DEF Sorted, Uploading, Deleting
      <4> QED BY <2>4, <3>2, <4>1, <4>2 DEF Sorted
    <3>3. CASE d # c
      <4>1. PICK v \in Edit : v = editing'[d] /\ v = editing[d] /\ Sorted(v)
        BY <1>1, <2>4, <3>3
      <4>2. Uploading(v) => v.row \in Pictures /\ v.row # r
        BY <1>1, <2>1, <2>2, <2>r, <3>3, <4>1 DEF Sorted
      <4>3. Deleting(v) => v.row \in Pictures /\ v.row # r
        BY <1>none, <2>2, <2>r, <4>1 DEF Sorted, Edit
      <4>4. \A i \in v.todo : i \in Pictures /\ i # r
        BY <1>none, <2>2, <2>r, <4>1 DEF Sorted, Edit
      <4>5. Sorted(v)'
        BY <2>3, <2>5, <4>1, <4>2, <4>3, <4>4 DEF Sorted
      <4> QED BY <4>1, <4>5 DEF Sorted
    <3> QED BY <3>2, <3>3
  <2>7. /\ Gal!Shown \subseteq Gal!Shown' /\ Gal!Shown' \subseteq Gal!Shown \union {r}
        /\ w.of \in owner => r \in Gal!Shown'
    BY <1>1, <2>3, <2>5, <2>r DEF Gal!Shown
  <2>8. \A i \in Gal!Shown' : ThereOrGone(i)'
    <3>1. ThereOrGone(r)'
      BY <2>2, <2>3, <2>r DEF ThereOrGone
    <3>2. ASSUME NEW i \in Gal!Shown PROVE ThereOrGone(i)'
      <4>1. ThereOrGone(i) /\ i \in Pictures /\ of'[i] = of[i] /\ loose \subseteq loose'
        BY <1>1, <2>2, <2>3, <2>5, <2>r DEF Gal!Shown
      <4>2. \A d \in Editors : Ends(editing[d], i) \/ Parts(editing[d], i) => d # c
        BY <2>1, <2>2 DEF Ends, Parts
      <4>3. CASE \E d \in Editors : Ends(editing[d], i) \/ Parts(editing[d], i)
        <5>1. PICK d \in Editors : (Ends(editing[d], i) \/ Parts(editing[d], i)) /\ editing'[d] = editing[d]
          BY <2>4, <4>2, <4>3
        <5>2. (Ends(editing[d], i) \/ Parts(editing[d], i))'
          BY <4>1, <5>1 DEF Ends, Parts, Deleting
        <5> QED BY <5>2 DEF ThereOrGone, Ends, Parts, Deleting
      <4> QED BY <2>3, <4>1, <4>3 DEF ThereOrGone
    <3> QED BY <2>7, <3>1, <3>2
  <2>9. \A p \in pictures' \union thumbnails' : Accounted(p)'
    <3>1. TAKE p \in pictures' \union thumbnails'
    <3>2. Accounted(p)
      BY <1>1, <2>3
    <3>3. CASE p = r
      BY <2>3, <2>7, <2>r, <3>3 DEF Accounted
    <3>4. CASE p # r
      BY <2>1, <2>2, <2>3, <2>4, <2>7, <2>r, <3>2, <3>4 DEF Accounted
    <3> QED BY <3>3, <3>4
  <2>11. \A d, e \in Editors :
          Uploading(editing'[d]) /\ Uploading(editing'[e]) /\ editing'[d].row = editing'[e].row => d = e
    BY <1>1, <2>4, PicturesIdle
  <2>12. /\ \A i \in uploads' : of'[i] = "none" /\ There(i)'
         /\ \A i \in Pictures : IF of'[i] = "none" THEN names'[i] = i ELSE Told(names[i])' /\ There(names[i])'
    <3>1. \A o : (Told(o) => Told(o)') /\ (There(o) => There(o)')
      BY <1>none, <2>2, <2>3, <2>5 DEF Told, There
    <3>2. Told(r)' /\ There(r)'
      BY <1>none, <2>2, <2>3, <2>5, <2>r DEF Told, There
    <3> QED BY <1>1, <1>none, <2>2, <2>3, <2>5, <2>r, <3>1, <3>2
  <2>13. /\ imageRows' \subseteq Pictures /\ loose' \subseteq Pictures \union {0} /\ \A i \in imageRows' : of'[i] # "none"
         /\ \A d \in dropped' : d[2] = 0 \/ (d[2] \in Pictures /\ of'[d[2]] # "none")
    BY <1>1, <1>none, <2>2, <2>3, <2>5, <2>r
  <2> QED BY <1>1, <2>3, <2>4, <2>5, <2>6, <2>8, <2>9, <2>11, <2>12, <2>13 DEF PicturesInv, Uploading
<1>7. ASSUME NEW c \in Editors, Gal!SaveImageUrl(c) PROVE PicturesInv'
  <2>1. PICK o \in owner, i \in Gal!Fresh, k \in {0} \union Gal!Known :
          /\ imageRows' = imageRows \union {i}
          /\ of' = [of EXCEPT ![i] = o] /\ names' = [names EXCEPT ![i] = k]
    BY <1>7 DEF Gal!SaveImageUrl
  <2>2. UNCHANGED <<owner, pictures, thumbnails, editing, dropped, uploads, loose>>
    BY <1>7 DEF Gal!SaveImageUrl
  <2>3. /\ i \in Pictures /\ of[i] = "none" /\ i \notin imageRows /\ o \in Owners /\ i \notin uploads
        /\ k \in Pictures \union {0} /\ Told(k) /\ There(k)
        /\ \A d \in Editors : editing[d].row # i
    <3>1. k = 0 \/ k \in uploads \/ \E j \in Pictures : of[j] # "none" /\ k = names[j]
      BY <2>1 DEF Gal!Known
    <3>2. k \in Pictures \union {0} /\ Told(k) /\ There(k)
      BY <1>1, <3>1 DEF Told, There
    <3> QED BY <1>1, <1>fresh, <2>1, <3>2
  <2>4. /\ of' \in [Pictures -> Owners \union {"none"}] /\ of'[i] = o /\ \A j \in Pictures : j # i => of'[j] = of[j]
        /\ names' \in [Pictures -> Pictures \union {0}] /\ names'[i] = k
        /\ \A j \in Pictures : j # i => names'[j] = names[j]
    BY <1>1, <2>1, <2>3
  <2>5. \A d \in Editors : editing[d].row = 0 \/ editing[d].row \in Pictures
    BY <1>1 DEF Edit
  <2>6. \A d \in Editors : (Sorted(editing[d]))'
    <3>1. TAKE d \in Editors
    <3>2. PICK v \in Edit : v = editing[d] /\ v = editing'[d] /\ Sorted(v)
      BY <1>1, <2>2
    <3>3. Uploading(v) \/ Deleting(v) => v.row \in Pictures /\ v.row # i
      BY <1>1, <2>3, <2>5, <3>2 DEF Sorted
    <3>4. \A j \in v.todo : j \in Pictures /\ j # i
      BY <1>none, <2>3, <3>2 DEF Sorted, Edit
    <3>5. /\ Uploading(v) \/ Deleting(v) => of'[v.row] = of[v.row] /\ names'[v.row] = names[v.row]
          /\ v.at = "deleteRow" => Deleting(v)
      BY <2>4, <3>3 DEF Deleting
    <3>6. \A j \in v.todo : of'[j] = of[j]
      BY <2>4, <3>4
    <3>7. Sorted(v)'
      BY <2>2, <3>2, <3>5, <3>6 DEF Sorted
    <3> QED BY <3>2, <3>7 DEF Sorted
  <2>7. Gal!Shown \subseteq Gal!Shown' /\ Gal!Shown' \subseteq Gal!Shown \union {i} /\ i \notin Gal!Shown
    BY <1>1, <2>1, <2>2, <2>3, <2>4 DEF Gal!Shown
  <2>8. \A j \in Gal!Shown' : ThereOrGone(j)'
    <3>1. ThereOrGone(i)'
      <4>1. \A d \in dropped : d[2] # i
        BY <1>1, <1>none, <2>3
      <4> QED BY <2>2, <2>3, <2>4, <4>1 DEF ThereOrGone, There
    <3>2. ASSUME NEW j \in Gal!Shown PROVE ThereOrGone(j)'
      <4>1. ThereOrGone(j) /\ of'[j] = of[j] /\ names'[j] = names[j]
        BY <1>1, <2>4, <2>7 DEF Gal!Shown
      <4> QED BY <2>2, <4>1 DEF ThereOrGone, Ends, Parts, Deleting
    <3> QED BY <2>7, <3>1, <3>2
  <2>9. \A p \in pictures' \union thumbnails' : Accounted(p)'
    <3>1. \A j \in Gal!Shown : names'[j] = names[j]
      BY <1>1, <2>4, <2>7 DEF Gal!Shown
    <3>2. \A d \in Editors : editing[d].at \in {"thumbnailExists", "deleteThumbnail"} =>
                               names'[editing[d].row] = names[editing[d].row]
      BY <1>1, <2>3, <2>4, <2>5 DEF Sorted, Deleting
    <3> QED BY <1>1, <2>2, <2>7, <3>1, <3>2 DEF Accounted
  <2>12. /\ \A j \in uploads' : of'[j] = "none" /\ There(j)'
         /\ \A j \in Pictures : IF of'[j] = "none" THEN names'[j] = j ELSE Told(names[j])' /\ There(names[j])'
    <3>1. \A p : (Told(p) => Told(p)') /\ (There(p) => There(p)')
      BY <1>none, <2>2, <2>3, <2>4 DEF Told, There
    <3>2. \A j \in Pictures : j # i => (names[j])' = names[j]
      BY <2>4
    <3>3. Told(names[i])' /\ There(names[i])'
      BY <2>3, <2>4, <3>1 DEF Told, There
    <3>4. ASSUME NEW j \in Pictures, j # i, of[j] # "none" PROVE Told(names[j])' /\ There(names[j])'
      <4>1. Told(names[j]) /\ There(names[j])
        BY <1>1, <3>4
      <4> QED BY <3>1, <3>2, <3>4, <4>1 DEF Told, There
    <3> QED BY <1>1, <1>none, <2>2, <2>3, <2>4, <3>1, <3>3, <3>4
  <2>13. /\ imageRows' \subseteq Pictures /\ \A j \in imageRows' : of'[j] # "none"
         /\ \A d \in dropped' : d[2] = 0 \/ (d[2] \in Pictures /\ of'[d[2]] # "none")
    BY <1>1, <1>none, <2>1, <2>2, <2>3, <2>4
  <2> QED BY <1>1, <2>2, <2>4, <2>6, <2>8, <2>9, <2>12, <2>13 DEF PicturesInv, Uploading
<1>8. ASSUME NEW c \in Editors, Gal!FindImages(c) PROVE PicturesInv'
  <2>1. PICK i \in imageRows :
          of[i] \in owner /\ Gal!GoTo(c, [Gal!Idle EXCEPT !.at = "deletePicture", !.of = of[i], !.row = i])
    BY <1>8 DEF Gal!FindImages
  <2>2. PICK idle \in Edit : idle = Gal!Idle /\ ~idle.all /\ idle.todo = {}
    BY PicturesIdle DEF Gal!Idle
  <2>o. PICK o \in Owners : o = of[i]
    BY <1>1, <2>1
  <2> DEFINE to == [idle EXCEPT !.at = "deletePicture", !.of = o, !.row = i]
  <2>3. to \in Edit /\ to.at = "deletePicture" /\ to.of = o /\ to.row = i /\ ~to.all /\ to.todo = {} /\ Gal!GoTo(c, to)
    BY <1>1, <2>1, <2>2, <2>o DEF Edit
  <2> HIDE DEF to
  <2>5. /\ editing[c] = Gal!Idle
        /\ UNCHANGED <<owner, imageRows, of, names, pictures, thumbnails, dropped, uploads, loose>>
    BY <1>8 DEF Gal!FindImages
  <2>4. Sorted(to)' /\ ~Uploading(to)
    BY <1>1, <1>none, <2>3, <2>5, <2>o DEF Sorted, Uploading, Deleting
  <2> QED BY <1>1, <1>3, <2>3, <2>4, <2>5, PicturesIdle DEF Ends, Parts
<1>9. ASSUME NEW c \in Editors, Gal!FindOwner(c) PROVE PicturesInv'
  <2>1. PICK o \in owner :
          Gal!GoTo(c, [Gal!Idle EXCEPT !.at = "nextPicture", !.of = o, !.all = TRUE,
                                       !.todo = {i \in imageRows : of[i] = o}])
    BY <1>9 DEF Gal!FindOwner
  <2>2. PICK idle \in Edit : idle = Gal!Idle /\ idle.row = 0
    BY PicturesIdle DEF Gal!Idle
  <2>t. PICK todo \in SUBSET Pictures : todo = {i \in imageRows : of[i] = o}
    BY <1>1
  <2> DEFINE to == [idle EXCEPT !.at = "nextPicture", !.of = o, !.all = TRUE, !.todo = todo]
  <2>3. /\ to \in Edit /\ to.at = "nextPicture" /\ to.of = o /\ to.row = 0 /\ to.all /\ to.todo = todo
        /\ Gal!GoTo(c, to)
    BY <1>1, <2>1, <2>2, <2>t DEF Edit
  <2> HIDE DEF to
  <2>5. /\ editing[c] = Gal!Idle
        /\ UNCHANGED <<owner, imageRows, of, names, pictures, thumbnails, dropped, uploads, loose>>
    BY <1>9 DEF Gal!FindOwner
  <2>4. Sorted(to)' /\ ~Uploading(to)
    BY <1>1, <2>3, <2>5, <2>t DEF Sorted, Uploading, Deleting
  <2> QED BY <1>1, <1>3, <2>3, <2>4, <2>5, PicturesIdle DEF Ends, Parts
<1>10. ASSUME NEW c \in Editors, Gal!NextPicture(c) PROVE PicturesInv'
  <2>1. PICK w \in Edit : w = editing[c] /\ w.at = "nextPicture" /\ Sorted(w) /\ w.all
    BY <1>1, <1>10 DEF Gal!NextPicture, Gal!Step, Sorted
  <2>2. PICK i \in w.todo : Gal!GoTo(c, [w EXCEPT !.at = "deletePicture", !.row = i, !.todo = @ \ {i}])
    BY <1>10, <2>1 DEF Gal!NextPicture
  <2> DEFINE to == [w EXCEPT !.at = "deletePicture", !.row = i, !.todo = @ \ {i}]
  <2>3. /\ to \in Edit /\ to.at = "deletePicture" /\ to.of = w.of /\ to.row = i /\ to.all
        /\ to.todo \subseteq w.todo /\ Gal!GoTo(c, to)
    BY <2>1, <2>2 DEF Edit
  <2> HIDE DEF to
  <2>4. i # 0 /\ of[i] = w.of
    BY <1>none, <2>1 DEF Sorted, Edit
  <2>6. UNCHANGED <<owner, imageRows, of, names, pictures, thumbnails, dropped, uploads, loose>>
    BY <1>10 DEF Gal!NextPicture
  <2>5. Sorted(to)' /\ ~Uploading(to)
    BY <2>1, <2>3, <2>4, <2>6 DEF Sorted, Uploading, Deleting
  <2>7. /\ ~Uploading(w) /\ w.at \notin {"thumbnailExists", "deleteThumbnail"}
        /\ \A j \in Gal!Shown : Ends(w, j) \/ Parts(w, j) => Parts(to, j)
    BY <2>1, <2>3 DEF Uploading, Deleting, Ends, Parts
  <2> QED BY <1>1, <1>3, <2>1, <2>3, <2>5, <2>6, <2>7
<1>11. ASSUME NEW c \in Editors, Gal!DeletePicture(c) PROVE PicturesInv'
  <2>1. PICK w \in Edit : w = editing[c] /\ w.at = "deletePicture" /\ Sorted(w)
    BY <1>1, <1>11 DEF Gal!DeletePicture, Gal!Step
  <2>r. PICK r \in Pictures : r = w.row /\ of[r] = w.of /\ w.of \in Owners
    BY <2>1 DEF Sorted, Deleting, Edit
  <2>o. PICK o \in Pictures \union {0} : o = names[r] /\ Told(o)
    BY <1>1, <1>none, <2>r
  <2>2. /\ pictures' = pictures \ {o} /\ dropped' = dropped \union {<<o, r>>}
        /\ Gal!GoTo(c, [w EXCEPT !.at = "thumbnailExists"])
        /\ UNCHANGED <<owner, imageRows, of, names, thumbnails, uploads, loose>>
    BY <1>11, <2>1, <2>r, <2>o DEF Gal!DeletePicture
  <2> DEFINE to == [w EXCEPT !.at = "thumbnailExists"]
  <2>3. /\ to \in Edit /\ to.at = "thumbnailExists" /\ to.of = w.of /\ to.row = r /\ to.all = w.all
        /\ to.todo = w.todo /\ Gal!GoTo(c, to)
    BY <2>1, <2>2, <2>r DEF Edit
  <2> HIDE DEF to
  <2>4. editing' \in [Editors -> Edit] /\ editing'[c] = to /\ \A d \in Editors : d # c => editing'[d] = editing[d]
    BY <1>2, <2>3
  <2>5. Sorted(to)'
    BY <2>1, <2>2, <2>3, <2>r, <2>o DEF Sorted, Uploading, Deleting
  <2>6. \A d \in Editors : (Sorted(editing[d]))'
    <3>1. TAKE d \in Editors
    <3>2. CASE d = c
      BY <2>4, <2>5, <3>2 DEF Sorted
    <3>3. CASE d # c
      <4>1. PICK v \in Edit : v = editing'[d] /\ Sorted(v)
        BY <1>1, <2>4, <3>3
      <4>o. Uploading(v) => v.row # o
        BY <1>1, <1>none, <2>o, <4>1 DEF Sorted, Told
      <4>2. Sorted(v)'
        BY <2>2, <4>o, <4>1 DEF Sorted
      <4> QED BY <4>1, <4>2 DEF Sorted
    <3> QED BY <3>2, <3>3
  <2>7. Gal!Shown' = Gal!Shown
    BY <2>2 DEF Gal!Shown
  <2>8. \A i \in Gal!Shown' : ThereOrGone(i)'
    <3>1. TAKE i \in Gal!Shown'
    <3>2. ThereOrGone(i) /\ i \in Pictures
      BY <1>1, <2>7 DEF Gal!Shown
    <3>3. CASE names[i] = o /\ i # r
      <4>1. <<o, r>> \in dropped' /\ <<o, r>>[1] = names'[i] /\ <<o, r>>[2] # i
        BY <2>2, <3>3
      <4> QED BY <4>1 DEF ThereOrGone
    <3>4. CASE i = r
      <4>1. Ends(to, i) \/ (to.all /\ to.of = of[i])
        BY <2>3, <2>r, <3>4 DEF Ends, Deleting
      <4> QED BY <2>2, <2>4, <4>1 DEF ThereOrGone, Ends, Parts
    <3>5. CASE names[i] # o /\ i # r
      <4>1. CASE \E d \in Editors : Ends(editing[d], i) \/ Parts(editing[d], i)
        <5>1. PICK d \in Editors : Ends(editing[d], i) \/ Parts(editing[d], i)
          BY <4>1
        <5>2. CASE d = c
          <6>1. to.all /\ to.of = of[i]
            BY <2>1, <2>3, <5>1, <5>2 DEF Ends, Parts
          <6> QED BY <2>2, <2>4, <6>1 DEF ThereOrGone, Parts
        <5>3. CASE d # c
          BY <2>2, <2>4, <5>1, <5>3 DEF ThereOrGone, Ends, Parts, Deleting
        <5> QED BY <5>2, <5>3
      <4> QED BY <2>2, <3>2, <3>5, <4>1 DEF ThereOrGone
    <3> QED BY <3>3, <3>4, <3>5
  <2>9. \A p \in pictures' \union thumbnails' : Accounted(p)'
    BY <1>1, <2>1, <2>2, <2>4, <2>7 DEF Accounted, Uploading
  <2>11. \A d, e \in Editors :
          Uploading(editing'[d]) /\ Uploading(editing'[e]) /\ editing'[d].row = editing'[e].row => d = e
    BY <1>1, <2>3, <2>4 DEF Uploading
  <2>12. /\ \A i \in uploads' : of'[i] = "none" /\ There(i)'
         /\ \A i \in Pictures : IF of'[i] = "none" THEN names'[i] = i ELSE Told(names[i])' /\ There(names[i])'
    <3>1. <<o, r>> \in dropped' /\ <<o, r>>[1] = o
      BY <2>2
    <3>2. \A p : There(p) => There(p)'
      BY <2>2, <3>1 DEF There
    <3> QED BY <1>1, <2>2, <3>2 DEF Told, There
  <2>13. /\ \A d \in dropped' : d[2] = 0 \/ (d[2] \in Pictures /\ of'[d[2]] # "none")
         /\ pictures' \subseteq Pictures
    BY <1>1, <1>none, <2>2, <2>r
  <2> QED BY <1>1, <2>2, <2>4, <2>6, <2>8, <2>9, <2>11, <2>12, <2>13 DEF PicturesInv, Uploading
<1>12. ASSUME NEW c \in Editors, Gal!ThumbnailExists(c) PROVE PicturesInv'
  <2>1. PICK w \in Edit : w = editing[c] /\ w.at = "thumbnailExists" /\ Sorted(w)
    BY <1>1, <1>12 DEF Gal!ThumbnailExists
  <2>r. PICK r \in Pictures : r = w.row /\ names[r] \in Pictures \union {0}
    BY <1>1, <2>1 DEF Sorted, Deleting, Edit
  <2>2. UNCHANGED <<owner, imageRows, of, names, pictures, thumbnails, dropped, uploads>>
    BY <1>12 DEF Gal!ThumbnailExists
  <2>3. Deleting(w) /\ ~Uploading(w)
    BY <2>1 DEF Deleting, Uploading
  <2>after. PICK after \in Edit :
          /\ after = Gal!After(w) /\ after.all = w.all /\ after.of = w.of /\ after.todo = w.todo
          /\ after.at = IF w.all THEN "nextPicture" ELSE "deleteRow"
          /\ after.row = IF w.all THEN 0 ELSE w.row
    BY PicturesAfter
  <2>ends. /\ ~Uploading(after)
           /\ \A i : Ends(w, i) \/ Parts(w, i) => Ends(after, i) \/ Parts(after, i)
    BY <2>after DEF Ends, Parts, Uploading, Deleting
  \* What comes after is in order if the thumbnail is gone or left.
  <2>sorted. ASSUME UNCHANGED <<pictures, of, names, uploads>>, names[r] \notin thumbnails' \ loose'
             PROVE Sorted(after)'
    BY <2>1, <2>r, <2>3, <2>after, <2>sorted DEF Sorted, Uploading, Deleting
  <2>4. CASE Gal!GoTo(c, after) /\ names[r] \notin thumbnails /\ loose' = loose
    BY <1>1, <1>3, <2>1, <2>2, <2>3, <2>4, <2>r, <2>after, <2>ends, <2>sorted
  <2>5. CASE Gal!GoTo(c, [w EXCEPT !.at = "deleteThumbnail"]) /\ loose' = loose
    <3> DEFINE to == [w EXCEPT !.at = "deleteThumbnail"]
    <3>1. /\ to \in Edit /\ to.at = "deleteThumbnail" /\ to.of = w.of /\ to.row = w.row /\ to.all = w.all
          /\ to.todo = w.todo /\ Gal!GoTo(c, to)
      BY <2>1, <2>5 DEF Edit
    <3> HIDE DEF to
    <3>2. /\ Sorted(to)' /\ ~Uploading(to)
          /\ \A i : Ends(w, i) \/ Parts(w, i) => Ends(to, i) \/ Parts(to, i)
      BY <2>1, <2>2, <2>5, <3>1 DEF Sorted, Uploading, Deleting, Ends, Parts
    <3> QED BY <1>1, <1>3, <2>1, <2>2, <2>3, <2>5, <3>1, <3>2
  <2>6. CASE Gal!GoTo(c, after) /\ loose' = loose \union {names[r]}
    BY <1>1, <1>3, <2>1, <2>2, <2>3, <2>6, <2>r, <2>after, <2>ends, <2>sorted
  <2> QED BY <1>12, <2>1, <2>r, <2>after, <2>4, <2>5, <2>6 DEF Gal!ThumbnailExists
<1>13. ASSUME NEW c \in Editors, Gal!DeleteThumbnail(c) PROVE PicturesInv'
  <2>1. PICK w \in Edit : w = editing[c] /\ w.at = "deleteThumbnail" /\ Sorted(w)
    BY <1>1, <1>13 DEF Gal!DeleteThumbnail, Gal!Step
  <2>r. PICK r \in Pictures : r = w.row
    BY <2>1 DEF Sorted, Deleting, Edit
  <2>3. Deleting(w) /\ ~Uploading(w)
    BY <2>1 DEF Deleting, Uploading
  <2>after. PICK after \in Edit :
          /\ after = Gal!After(w) /\ after.all = w.all /\ after.of = w.of /\ after.todo = w.todo
          /\ after.at = IF w.all THEN "nextPicture" ELSE "deleteRow"
          /\ after.row = IF w.all THEN 0 ELSE w.row
    BY PicturesAfter
  <2>ends. /\ ~Uploading(after)
           /\ \A i : Ends(w, i) \/ Parts(w, i) => Ends(after, i) \/ Parts(after, i)
    BY <2>after DEF Ends, Parts, Uploading, Deleting
  \* What comes after is in order if the thumbnail is gone or left.
  <2>sorted. ASSUME UNCHANGED <<pictures, of, names, uploads>>, names[r] \notin thumbnails' \ loose'
             PROVE Sorted(after)'
    BY <2>1, <2>r, <2>3, <2>after, <2>sorted DEF Sorted, Uploading, Deleting
  <2>4. /\ thumbnails' = thumbnails \ {names[r]} /\ Gal!GoTo(c, after)
        /\ UNCHANGED <<owner, imageRows, of, names, pictures, dropped, uploads, loose>>
    BY <1>13, <2>1, <2>r, <2>after DEF Gal!DeleteThumbnail
  <2> QED BY <1>1, <1>3, <2>1, <2>3, <2>4, <2>r, <2>after, <2>ends, <2>sorted
<1>14. ASSUME NEW c \in Editors, Gal!DeleteRow(c) PROVE PicturesInv'
  <2>1. PICK w \in Edit : w = editing[c] /\ w.at = "deleteRow" /\ Sorted(w)
    BY <1>1, <1>14 DEF Gal!DeleteRow, Gal!Step
  <2>2. ~w.all /\ names[w.row] \notin pictures /\ names[w.row] \notin thumbnails \ loose /\ ~Uploading(w)
    BY <2>1 DEF Sorted, Deleting, Uploading
  <2>3. /\ imageRows' = imageRows \ {w.row} /\ Gal!GoTo(c, Gal!Idle)
        /\ UNCHANGED <<owner, of, names, pictures, thumbnails, dropped, uploads, loose>>
    BY <1>14, <2>1 DEF Gal!DeleteRow
  <2>4. editing' \in [Editors -> Edit] /\ editing'[c] = Gal!Idle /\ \A d \in Editors : d # c => editing'[d] = editing[d]
    BY <1>2, <2>3, PicturesIdle
  <2>5. \A d \in Editors : (Sorted(editing[d]))'
    <3>1. TAKE d \in Editors
    <3>2. PICK v \in Edit : v = editing'[d] /\ Sorted(v)
      BY <1>1, <2>4, PicturesIdle
    <3>3. Sorted(v)'
      BY <2>3, <3>2 DEF Sorted
    <3> QED BY <3>2, <3>3 DEF Sorted
  <2>6. Gal!Shown' = Gal!Shown \ {w.row}
    BY <2>3 DEF Gal!Shown
  <2>7. \A i \in Gal!Shown' : ThereOrGone(i)'
    BY <1>1, <2>1, <2>2, <2>3, <2>4, <2>6 DEF ThereOrGone, Ends, Parts, Deleting
  <2>8. \A p \in pictures' \union thumbnails' : Accounted(p)'
    <3>1. TAKE p \in pictures' \union thumbnails'
    <3>2. Accounted(p) /\ (names[w.row] = p => p \in loose)
      BY <1>1, <2>2, <2>3
    <3> QED BY <2>1, <2>2, <2>3, <2>4, <2>6, <3>2 DEF Accounted
  <2>9. /\ \A i \in uploads' : of'[i] = "none" /\ There(i)'
        /\ \A i \in Pictures : IF of'[i] = "none" THEN names'[i] = i ELSE Told(names[i])' /\ There(names[i])'
    BY <1>1, <2>3 DEF Told, There
  <2>10. \A d, e \in Editors :
          Uploading(editing'[d]) /\ Uploading(editing'[e]) /\ editing'[d].row = editing'[e].row => d = e
    BY <1>1, <2>4, PicturesIdle
  <2> QED BY <1>1, <2>3, <2>4, <2>5, <2>7, <2>8, <2>9, <2>10 DEF PicturesInv, Uploading
<1>15. ASSUME NEW c \in Editors, Gal!DeleteOwner(c) PROVE PicturesInv'
  <2>1. PICK w \in Edit : w = editing[c] /\ w.at = "nextPicture" /\ Sorted(w)
    BY <1>1, <1>15 DEF Gal!DeleteOwner, Gal!Step
  <2>2. ~Uploading(w) /\ ~Deleting(w)
    BY <2>1 DEF Deleting, Uploading
  <2>3. /\ owner' = owner \ {w.of}
        /\ loose' = loose \union ((pictures \union thumbnails) \intersect {names[i] : i \in {j \in imageRows : of[j] = w.of}})
        /\ Gal!GoTo(c, Gal!Idle) /\ UNCHANGED <<imageRows, of, names, pictures, thumbnails, dropped, uploads>>
    BY <1>15, <2>1 DEF Gal!DeleteOwner
  <2>4. editing' \in [Editors -> Edit] /\ editing'[c] = Gal!Idle /\ \A d \in Editors : d # c => editing'[d] = editing[d]
    BY <1>2, <2>3, PicturesIdle
  <2>5. \A d \in Editors : (Sorted(editing[d]))'
    <3>1. TAKE d \in Editors
    <3>2. PICK v \in Edit : v = editing'[d] /\ Sorted(v)
      BY <1>1, <2>4, PicturesIdle
    <3>3. Sorted(v)'
      BY <2>3, <3>2 DEF Sorted
    <3> QED BY <3>2, <3>3 DEF Sorted
  <2>6. Gal!Shown' = {i \in Gal!Shown : of[i] # w.of}
    BY <2>3 DEF Gal!Shown
  <2>7. \A i \in Gal!Shown' : ThereOrGone(i)'
    BY <1>1, <2>1, <2>2, <2>3, <2>4, <2>6 DEF ThereOrGone, Ends, Parts, Deleting
  <2>8. \A p \in pictures' \union thumbnails' : Accounted(p)'
    <3>1. TAKE p \in pictures' \union thumbnails'
    <3>2. Accounted(p) /\ p \in pictures \union thumbnails
      BY <1>1, <2>3
    <3>3. CASE \E i \in Gal!Shown : names[i] = p
      BY <2>3, <2>6, <3>2, <3>3 DEF Accounted, Gal!Shown
    <3> QED BY <2>1, <2>2, <2>3, <2>4, <3>2, <3>3 DEF Accounted
  <2>9. /\ \A i \in uploads' : of'[i] = "none" /\ There(i)'
        /\ \A i \in Pictures : IF of'[i] = "none" THEN names'[i] = i ELSE Told(names[i])' /\ There(names[i])'
    BY <1>1, <2>3 DEF Told, There
  <2>10. \A d, e \in Editors :
          Uploading(editing'[d]) /\ Uploading(editing'[e]) /\ editing'[d].row = editing'[e].row => d = e
    BY <1>1, <2>4, PicturesIdle
  <2> QED BY <1>1, <2>3, <2>4, <2>5, <2>7, <2>8, <2>9, <2>10 DEF PicturesInv, Uploading
<1>16. ASSUME NEW c \in Editors, Gal!Refuse(c) PROVE PicturesInv'
  <2>1. PICK w \in Edit : w = editing[c] /\ w.at \in {"deletePicture", "deleteThumbnail"} /\ Sorted(w)
    BY <1>1, <1>16 DEF Gal!Refuse
  <2>r. PICK r \in Pictures : r = w.row /\ names[r] \in Pictures \union {0}
    BY <1>1, <2>1 DEF Sorted, Deleting, Edit
  <2>2. /\ loose' = loose \union {names[r]} /\ Gal!GoTo(c, IF w.all THEN Gal!After(w) ELSE Gal!Idle)
        /\ UNCHANGED <<owner, imageRows, of, names, pictures, thumbnails, dropped, uploads>>
    BY <1>16, <2>1, <2>r DEF Gal!Refuse
  <2>3. Deleting(w) /\ ~Uploading(w)
    BY <2>1 DEF Deleting, Uploading
  <2>4. CASE w.all
    <3>1. PICK after \in Edit :
            /\ after = Gal!After(w) /\ after.all /\ after.of = w.of /\ after.todo = w.todo
            /\ after.at = "nextPicture" /\ after.row = 0
      BY <2>4, PicturesAfter
    <3>2. /\ ~Uploading(after) /\ Sorted(after)'
          /\ \A i : Ends(w, i) \/ Parts(w, i) => Parts(after, i)
      BY <2>1, <2>2, <2>4, <3>1 DEF Ends, Parts, Sorted, Uploading, Deleting
    <3> QED BY <1>1, <1>3, <2>1, <2>2, <2>3, <2>4, <2>r, <3>1, <3>2
  <2>5. CASE ~w.all
    <3>1. \A i : Ends(w, i) \/ Parts(w, i) => i = r
      BY <2>5, <2>r DEF Ends, Parts
    <3> QED BY <1>1, <1>3, <2>1, <2>2, <2>3, <2>5, <2>r, <3>1, <1>idle, PicturesIdle
  <2> QED BY <2>4, <2>5
<1>17. ASSUME NEW c \in Editors, Gal!Fail(c) PROVE PicturesInv'
  <2>1. PICK w \in Edit : w = editing[c] /\ Sorted(w)
    BY <1>1
  <2>2. /\ loose' = loose \union {names[i] : i \in w.todo \union ({w.row} \ {0})}
                    \union (IF w.all THEN {names[i] : i \in {j \in imageRows : of[j] = w.of}} ELSE {})
        /\ Gal!GoTo(c, Gal!Idle)
        /\ UNCHANGED <<owner, imageRows, of, names, pictures, thumbnails, dropped, uploads>>
    BY <1>17, <2>1 DEF Gal!Fail
  <2>3. w.row # 0 => names[w.row] \in loose'
    BY <2>2
  <2>4. loose \subseteq loose' /\ loose' \subseteq Pictures \union {0}
    <3>1. w.row \in Pictures \union {0} /\ w.todo \subseteq Pictures
      BY DEF Edit
    <3> QED BY <1>1, <2>2, <3>1
  <2>5. Uploading(w) => w.row \in loose'
    <3>1. Uploading(w) => w.row \in Pictures /\ names[w.row] = w.row
      BY <1>1, <2>1 DEF Sorted
    <3> QED BY <1>none, <2>3, <3>1
  <2>6. \A i \in Gal!Shown : Ends(w, i) \/ Parts(w, i) => names[i] \in loose'
    <3>1. \A i \in Gal!Shown : Ends(w, i) => names[i] \in loose'
      BY <1>1, <1>none, <2>3 DEF Ends, Gal!Shown
    <3>2. \A i \in Gal!Shown : Parts(w, i) => names[i] \in loose'
      BY <2>2 DEF Parts, Gal!Shown
    <3> QED BY <3>1, <3>2
  <2>7. w.at \in {"thumbnailExists", "deleteThumbnail"} => names[w.row] \in loose'
    BY <2>1, <2>3 DEF Sorted, Deleting
  <2> QED BY <1>1, <1>3, <2>1, <2>2, <2>4, <2>5, <2>6, <2>7, <1>idle, PicturesIdle
<1>18. ASSUME Gal!UploadSingle PROVE PicturesInv'
  <2>1. PICK i \in Gal!Fresh :
          /\ pictures' = pictures \union {i}
          /\ \/ thumbnails' = thumbnails \union {i} /\ uploads' = uploads \union {i} /\ loose' = loose
             \/ loose' = loose \union {i} /\ UNCHANGED <<thumbnails, uploads>>
    BY <1>18 DEF Gal!UploadSingle
  <2>2. UNCHANGED <<owner, imageRows, of, names, editing, dropped>>
    BY <1>18 DEF Gal!UploadSingle
  <2>3. \A d \in Editors : (Sorted(editing[d]))'
    <3>1. TAKE d \in Editors
    <3>2. PICK v \in Edit : v = editing'[d] /\ v = editing[d] /\ Sorted(v)
      BY <1>1, <2>2
    <3>3. v.row # i /\ (Deleting(v) => names[v.row] # i)
      <4>1. Deleting(v) => v.row \in Pictures /\ of[v.row] # "none"
        BY <1>none, <3>2 DEF Sorted, Edit
      <4> QED BY <4>1, <1>fresh, <3>2
    <3>4. Sorted(v)'
      BY <2>1, <2>2, <3>2, <3>3 DEF Sorted, Deleting
    <3> QED BY <3>2, <3>4 DEF Sorted
  <2>4. Gal!Shown' = Gal!Shown
    BY <2>2 DEF Gal!Shown
  <2>5. \A j \in Gal!Shown' : ThereOrGone(j)'
    BY <1>1, <2>1, <2>2, <2>4 DEF ThereOrGone, Ends, Parts
  <2>6. \A p \in pictures' \union thumbnails' : Accounted(p)'
    <3>1. Accounted(i)'
      BY <2>1 DEF Accounted
    <3>2. \A p \in pictures \union thumbnails : Accounted(p)'
      BY <1>1, <2>1, <2>2, <2>4 DEF Accounted
    <3> QED BY <2>1, <3>1, <3>2
  <2>7. /\ \A j \in uploads' : of'[j] = "none" /\ There(j)'
        /\ \A j \in Pictures : IF of'[j] = "none" THEN names'[j] = j ELSE Told(names[j])' /\ There(names[j])'
    BY <1>1, <1>fresh, <2>1, <2>2 DEF Told, There
  <2>8. pictures' \subseteq Pictures /\ thumbnails' \subseteq Pictures /\ uploads' \subseteq Pictures
        /\ loose' \subseteq Pictures \union {0}
    BY <1>1, <1>fresh, <2>1
  <2> QED BY <1>1, <2>2, <2>3, <2>5, <2>6, <2>7, <2>8 DEF PicturesInv, Uploading
<1>19. ASSUME NEW o \in Gal!Known, Gal!DeleteByKey(o) PROVE PicturesInv'
  <2>1. /\ \/ pictures' = pictures \ {o} /\ dropped' = dropped \union {<<o, 0>>} /\ thumbnails' = thumbnails
           \/ thumbnails' = thumbnails \ {o} /\ UNCHANGED <<pictures, dropped>>
        /\ UNCHANGED <<owner, imageRows, of, names, editing, uploads, loose>>
    BY <1>19 DEF Gal!DeleteByKey
  <2>2. Told(o)
    BY <1>1, <1>19 DEF Gal!Known, Told
  <2>3. \A d \in Editors : (Sorted(editing[d]))'
    <3>1. TAKE d \in Editors
    <3>2. PICK v \in Edit : v = editing'[d] /\ v = editing[d] /\ Sorted(v)
      BY <1>1, <2>1
    <3>3. Uploading(v) => v.row # o
      BY <1>1, <1>none, <2>2, <3>2 DEF Sorted, Told
    <3>4. Sorted(v)'
      BY <2>1, <3>2, <3>3 DEF Sorted
    <3> QED BY <3>2, <3>4 DEF Sorted
  <2>4. Gal!Shown' = Gal!Shown
    BY <2>1 DEF Gal!Shown
  <2>5. dropped \subseteq dropped' /\ (pictures' = pictures \/ \E d \in dropped' : d[1] = o /\ d[2] = 0)
    <3>1. CASE dropped' = dropped \union {<<o, 0>>}
      <4>1. <<o, 0>> \in dropped' /\ <<o, 0>>[1] = o /\ <<o, 0>>[2] = 0
        BY <3>1
      <4> QED BY <3>1, <4>1
    <3> QED BY <2>1, <3>1
  <2>6. \A j \in Gal!Shown' : ThereOrGone(j)'
    <3>1. TAKE j \in Gal!Shown'
    <3>2. ThereOrGone(j) /\ j # 0
      BY <1>1, <1>none, <2>4 DEF Gal!Shown
    <3>3. CASE \E d \in Editors : Ends(editing[d], j) \/ Parts(editing[d], j)
      BY <2>1, <3>3 DEF ThereOrGone, Ends, Parts
    <3>4. CASE names[j] \in pictures
      BY <2>1, <2>5, <3>2, <3>4 DEF ThereOrGone
    <3> QED BY <2>1, <2>5, <3>2, <3>3, <3>4 DEF ThereOrGone
  <2>7. \A p \in pictures' \union thumbnails' : Accounted(p)'
    BY <1>1, <2>1, <2>4 DEF Accounted
  <2>8. /\ \A j \in uploads' : of'[j] = "none" /\ There(j)'
        /\ \A j \in Pictures : IF of'[j] = "none" THEN names'[j] = j ELSE Told(names[j])' /\ There(names[j])'
    <3>1. \A p : There(p) => There(p)'
      BY <2>1, <2>5 DEF There
    <3> QED BY <1>1, <2>1, <3>1 DEF Told, There
  <2>9. /\ \A d \in dropped' : d[2] = 0 \/ (d[2] \in Pictures /\ of'[d[2]] # "none")
        /\ pictures' \subseteq Pictures /\ thumbnails' \subseteq Pictures
    BY <1>1, <2>1
  <2> QED BY <1>1, <2>1, <2>3, <2>6, <2>7, <2>8, <2>9 DEF PicturesInv, Uploading
<1>20. CASE UNCHANGED mediaVars
  BY <1>1, <1>20 DEF mediaVars, PicturesInv, Sorted, Gal!Shown, ThereOrGone, Accounted, Told, There, Ends, Parts,
     Uploading, Deleting
<1> QED
  BY <1>4, <1>5, <1>6, <1>7, <1>8, <1>9, <1>10, <1>11, <1>12, <1>13, <1>14, <1>15, <1>16, <1>17, <1>18,
     <1>19, <1>20
  DEF Gal!Next

\* A picture of a row is there, about to be deleted, lost to a failure or dropped with another row;
\* a thumbnail alone is next to go (MediaService.uploadImage and deleteImage).
THEOREM PicturesInvariant == MCSpec => []PicturesInv
BY PicturesInit, PicturesStep, PTL DEF MCSpec

\* What is accounted for is explained.
LEMMA PicturesHold == PicturesInv /\ focus = "pictures" => Gal!PicturesExplained /\ Gal!TypeOK
<1> SUFFICES ASSUME PicturesInv, focus = "pictures" PROVE Gal!PicturesExplained /\ Gal!TypeOK
  OBVIOUS
<1>1. /\ owner \subseteq Owners /\ imageRows \subseteq Pictures /\ uploads \subseteq Pictures
      /\ pictures \subseteq Pictures /\ thumbnails \subseteq Pictures /\ loose \subseteq Pictures \union {0}
      /\ of \in [Pictures -> Owners \union {"none"}]
      /\ \A i \in imageRows : of[i] # "none"
      /\ \A i \in Pictures : of[i] = "none" => names[i] = i
      /\ editing \in [Editors -> Edit] /\ \A c \in Editors : Sorted(editing[c])
      /\ \A i \in Gal!Shown : ThereOrGone(i)
      /\ \A o \in pictures \union thumbnails : Accounted(o)
  BY DEF PicturesInv
<1>2. Gal!TypeOK
  BY <1>1 DEF Gal!TypeOK
<1>3. \A c \in Editors, o \in Pictures :
        editing[c].all \/ (editing[c].row # 0 /\ names[editing[c].row] = o) => Gal!Working(o) # {}
  BY DEF Gal!Working
<1>4. Gal!PictureThere
  <2>1. SUFFICES ASSUME NEW i \in Gal!Shown, names[i] \notin pictures \union {0}
                 PROVE \/ names[i] \in loose \/ Gal!Working(names[i]) # {}
                       \/ \E d \in dropped : d[1] = names[i] /\ d[2] # i
    BY DEF Gal!PictureThere
  <2>2. ThereOrGone(i) /\ i # 0
    BY <1>1, MediaAssumption DEF Gal!Shown
  <2>3. ASSUME NEW c \in Editors, Ends(editing[c], i) \/ Parts(editing[c], i) PROVE Gal!Working(names[i]) # {}
    BY <2>2, <2>3 DEF Gal!Working, Ends, Parts
  <2> QED BY <2>1, <2>2, <2>3 DEF ThereOrGone
<1>5. Gal!NothingLeft
  <2>1. ASSUME NEW o \in pictures \union thumbnails
        PROVE (\E i \in Gal!Shown : names[i] = o) \/ o \in loose \union uploads \/ Gal!Working(o) # {}
    <3>1. ASSUME NEW c \in Editors, Uploading(editing[c]), editing[c].row = o PROVE Gal!Working(o) # {}
      <4>1. of[o] = "none" /\ o \in Pictures /\ o # 0
        BY <1>1, <3>1, MediaAssumption DEF Sorted
      <4> QED BY <1>1, <3>1, <4>1 DEF Gal!Working
    <3>2. ASSUME NEW c \in Editors, editing[c].at \in {"thumbnailExists", "deleteThumbnail"},
                 names[editing[c].row] = o
          PROVE Gal!Working(o) # {}
      <4>1. editing[c].row # 0
        BY <1>1, <3>2 DEF Sorted, Deleting
      <4> QED BY <3>2, <4>1 DEF Gal!Working
    <3> QED BY <1>1, <3>1, <3>2 DEF Accounted
  <2> QED BY <2>1 DEF Gal!NothingLeft
<1> QED BY <1>2, <1>4, <1>5 DEF Gal!PicturesExplained

-----------------------------------------------------------------------------
\* The rating of a service.

\* While ratings are in focus only they move.
LEMMA RatingsMove ==
  focus = "ratings" /\ [MCNext]_allVars => focus' = "ratings" /\ [Rat!Next]_ratingVars
BY DEF MCNext, Others, Rest, allVars

\* Of two sets that differ in one element, what is left of both has one size.
LEMMA OneCounted ==
  ASSUME NEW S, NEW T, IsFiniteSet(S), NEW x, T \ {x} = S \ {x}
  PROVE  /\ IsFiniteSet(T) /\ Cardinality(S) \in Nat /\ Cardinality(T) \in Nat
         /\ Cardinality(T) - (IF x \in T THEN 1 ELSE 0) = Cardinality(S) - (IF x \in S THEN 1 ELSE 0)
<1>1. /\ IsFiniteSet(S \union {x}) /\ IsFiniteSet(S \ {x}) /\ Cardinality(S) \in Nat
      /\ Cardinality(S \union {x}) = Cardinality(S) + (IF x \in S THEN 0 ELSE 1)
      /\ Cardinality(S \ {x}) = Cardinality(S) - (IF x \in S THEN 1 ELSE 0)
  BY FS_AddElement, FS_RemoveElement, FS_CardinalityType
<1>2. CASE x \in T
  <2>1. T = S \union {x}
    BY <1>2
  <2>2. Cardinality(T) \in Nat
    BY <1>1, <2>1, FS_CardinalityType
  <2> QED BY <1>1, <1>2, <2>1, <2>2
<1>3. CASE x \notin T
  <2>1. T = S \ {x}
    BY <1>3
  <2>2. Cardinality(T) \in Nat
    BY <1>1, <2>1, FS_CardinalityType
  <2> QED BY <1>1, <1>3, <2>1, <2>2
<1> QED BY <1>2, <1>3

\* A request, and what it has counted.
Client ==
  [at : {"idle", "insertReview", "updateReview", "deleteReview", "compute", "store", "deleteImages", "insertImages"},
   by : SUBSET Reviewers, seen : SUBSET (Reviewers \X Stars)]
OncePerReviewer(R) == \A r, q \in R : r[1] = q[1] => r = q

\* Requests that have pictures to delete or to insert.
Renewing == {c \in Clients : client[c].at \in {"deleteImages", "insertImages"}}
Inserting(c) == client[c].at = "insertImages"

RatingsInv ==
  focus = "ratings" =>
    /\ service \in {"live", "deleted"} /\ stars \in [Reviewers -> Stars \union {0}]
    /\ OncePerReviewer(ratingOf)
    /\ client \in [Clients -> Client] /\ \A c \in Clients : OncePerReviewer(client[c].seen)
    /\ reviewed \in 0..MaxReviews /\ outdated \in BOOLEAN /\ crossed \in BOOLEAN
    /\ ratingOf # Rat!Reviews => outdated \/ \E c \in Clients : client[c].at \in {"compute", "store"}
    /\ primary \in Nat
    /\ \/ primary + Cardinality(Renewing) <= reviewed
       \/ primary = 1 /\ Cardinality(Renewing) <= reviewed /\ \A c \in Clients : ~Inserting(c)
    /\ primary # 1 => crossed \/ \E c \in Clients : Inserting(c)
    /\ ~crossed => \A c, d \in Clients : Inserting(c) /\ Inserting(d) => c = d
    /\ ~crossed => \A c \in Clients : Inserting(c) => primary = 0

\* A request that is not open has read no review.
LEMMA ClientIdle ==
  /\ Rat!Idle \in Client /\ Rat!Idle.at = "idle" /\ Rat!Idle.seen = {} /\ OncePerReviewer(Rat!Idle.seen)
  /\ OncePerReviewer({})
BY DEF Rat!Idle, Client, OncePerReviewer

\* A reviewer has one review at most.
LEMMA ReviewsOnce == stars \in [Reviewers -> Stars \union {0}] =>
  OncePerReviewer(Rat!Reviews) /\ Rat!Reviews \subseteq Reviewers \X Stars
BY DEF OncePerReviewer, Rat!Reviews

\* With no reviews the rating is that of none.
LEMMA RatingsInit == MCInit => RatingsInv
<1> SUFFICES ASSUME MCInit, focus = "ratings" PROVE RatingsInv
  BY DEF RatingsInv
<1>1. Renewing = {}
  BY ClientIdle DEF MCInit, Rat!Init, Renewing
<1>2. Cardinality(Renewing) = 0
  BY <1>1, FS_EmptySet
<1>3. stars = [u \in Reviewers |-> 0] /\ Rat!Reviews = {}
  BY RatingsAssumption DEF MCInit, Rat!Init, Rat!Reviews
<1>4. client = [c \in Clients |-> Rat!Idle] /\ primary = 1 /\ reviewed = 0
  BY DEF MCInit, Rat!Init
<1>5. service = "live" /\ ratingOf = {} /\ outdated = FALSE /\ crossed = FALSE
  BY DEF MCInit, Rat!Init
<1>6. \A c \in Clients : client[c] \in Client /\ OncePerReviewer(client[c].seen) /\ ~Inserting(c)
  BY <1>4, ClientIdle DEF Inserting
<1>7. client \in [Clients -> Client] /\ stars \in [Reviewers -> Stars \union {0}]
  BY <1>3, <1>4, ClientIdle
<1>8. primary = 1 /\ Cardinality(Renewing) <= reviewed /\ reviewed \in 0..MaxReviews
  BY <1>2, <1>4, RatingsAssumption
<1> QED BY <1>3, <1>5, <1>6, <1>7, <1>8, ClientIdle DEF RatingsInv

\* Every step of a review, of the rating computed after it and of a change of images keeps the account.
LEMMA RatingsStep == RatingsInv /\ [MCNext]_allVars => RatingsInv'
<1> SUFFICES ASSUME RatingsInv, focus = "ratings", [Rat!Next]_ratingVars, focus' = "ratings" PROVE RatingsInv'
  BY RatingsMove DEF RatingsInv, MCNext, Others, Rest, allVars
<1> USE DEF Inserting
<1>1. /\ service \in {"live", "deleted"} /\ stars \in [Reviewers -> Stars \union {0}]
      /\ OncePerReviewer(ratingOf)
      /\ client \in [Clients -> Client] /\ \A c \in Clients : OncePerReviewer(client[c].seen)
      /\ reviewed \in 0..MaxReviews /\ outdated \in BOOLEAN /\ crossed \in BOOLEAN
      /\ ratingOf # Rat!Reviews => outdated \/ \E c \in Clients : client[c].at \in {"compute", "store"}
      /\ primary \in Nat
      /\ \/ primary + Cardinality(Renewing) <= reviewed
         \/ primary = 1 /\ Cardinality(Renewing) <= reviewed /\ \A c \in Clients : ~Inserting(c)
      /\ primary # 1 => crossed \/ \E c \in Clients : Inserting(c)
      /\ ~crossed => \A c, d \in Clients : Inserting(c) /\ Inserting(d) => c = d
      /\ ~crossed => \A c \in Clients : Inserting(c) => primary = 0
  BY DEF RatingsInv
\* Where one request goes, the others stay.
<1>2. ASSUME NEW c \in Clients, NEW to \in Client, Rat!GoTo(c, to), OncePerReviewer(to.seen)
      PROVE /\ client' \in [Clients -> Client] /\ \A d \in Clients : OncePerReviewer(client'[d].seen)
            /\ client'[c] = to /\ \A d \in Clients : d # c => client'[d] = client[d]
            /\ Cardinality(Renewing) \in Nat /\ Cardinality(Renewing') \in Nat
            /\ Cardinality(Renewing') =
                 Cardinality(Renewing) - (IF client[c].at \in {"deleteImages", "insertImages"} THEN 1 ELSE 0)
                 + (IF to.at \in {"deleteImages", "insertImages"} THEN 1 ELSE 0)
            /\ client[c].at \in {"deleteImages", "insertImages"} => Cardinality(Renewing) >= 1
  <2>1. client'[c] = to /\ \A d \in Clients : d # c => client'[d] = client[d]
    BY <1>1, <1>2 DEF Rat!GoTo
  <2>2. IsFiniteSet(Renewing)
    BY RatingsAssumption, FS_Subset DEF Renewing
  <2>3. Renewing' \ {c} = Renewing \ {c} /\ (c \in Renewing' <=> to.at \in {"deleteImages", "insertImages"})
        /\ (c \in Renewing <=> client[c].at \in {"deleteImages", "insertImages"})
    BY <2>1 DEF Renewing
  <2>4. /\ Cardinality(Renewing) \in Nat /\ Cardinality(Renewing') \in Nat
        /\ Cardinality(Renewing') - (IF c \in Renewing' THEN 1 ELSE 0)
             = Cardinality(Renewing) - (IF c \in Renewing THEN 1 ELSE 0)
    BY <2>2, <2>3, OneCounted
  <2>5. c \in Renewing => Cardinality(Renewing) >= 1
    <3>1. ASSUME Cardinality(Renewing) = 0 PROVE Renewing = {}
      BY <2>2, <3>1, FS_EmptySet
    <3> QED BY <2>4, <3>1
  <2> DEFINE n == Cardinality(Renewing)  m == Cardinality(Renewing')
  <2>6. m = n - (IF client[c].at \in {"deleteImages", "insertImages"} THEN 1 ELSE 0)
                 + (IF to.at \in {"deleteImages", "insertImages"} THEN 1 ELSE 0)
    <3> HIDE DEF n, m
    <3>1. n \in Nat /\ m \in Nat /\ m - (IF c \in Renewing' THEN 1 ELSE 0) = n - (IF c \in Renewing THEN 1 ELSE 0)
      BY <2>4 DEF n, m
    <3> QED BY <2>3, <3>1
  <2> QED BY <1>1, <1>2, <2>1, <2>3, <2>4, <2>5, <2>6 DEF Rat!GoTo
\* A request that moves among the reviews leaves the pictures alone.
<1>3. ASSUME NEW c \in Clients, NEW to \in Client, Rat!GoTo(c, to), OncePerReviewer(to.seen),
             client[c].at \notin {"deleteImages", "insertImages"}, to.at \notin {"deleteImages", "insertImages"},
             UNCHANGED <<service, primary, crossed>>, reviewed' \in 0..MaxReviews, reviewed <= reviewed',
             stars' \in [Reviewers -> Stars \union {0}], OncePerReviewer(ratingOf'), outdated' \in BOOLEAN,
             ratingOf' # (Rat!Reviews)' => outdated' \/ \E d \in Clients : client'[d].at \in {"compute", "store"}
      PROVE RatingsInv'
  <2>1. /\ client' \in [Clients -> Client] /\ \A d \in Clients : OncePerReviewer(client'[d].seen)
        /\ client'[c] = to /\ \A d \in Clients : d # c => client'[d] = client[d]
        /\ Cardinality(Renewing') = Cardinality(Renewing) /\ Cardinality(Renewing) \in Nat
    BY <1>2, <1>3
  <2>2. \A d \in Clients : (Inserting(d))' <=> Inserting(d)
    BY <1>3, <2>1
  <2>3. reviewed \in Nat /\ reviewed' \in Nat
    BY <1>1, <1>3
  <2>4. \/ primary + Cardinality(Renewing') <= reviewed'
        \/ primary = 1 /\ Cardinality(Renewing') <= reviewed' /\ \A d \in Clients : ~Inserting(d)
    BY <1>1, <1>3, <2>1, <2>3
  <2> QED BY <1>1, <1>3, <2>1, <2>2, <2>4 DEF RatingsInv
<1>once. OncePerReviewer(Rat!Reviews) /\ Rat!Reviews \subseteq Reviewers \X Stars
  BY <1>1, ReviewsOnce
<1>start. ASSUME NEW c \in Clients, Rat!Start(c)
          PROVE client[c] = Rat!Idle /\ reviewed' \in 0..MaxReviews /\ reviewed <= reviewed' /\ reviewed' = reviewed + 1
  BY <1>1, <1>start, RatingsAssumption DEF Rat!Start
<1>at. ASSUME NEW by \in SUBSET Reviewers,
              NEW at \in {"insertReview", "updateReview", "deleteReview", "compute", "deleteImages", "insertImages"}
       PROVE LET to == [Rat!Idle EXCEPT !.at = at, !.by = by] IN
             to \in Client /\ to.at = at /\ to.seen = {} /\ OncePerReviewer(to.seen)
  <2>1. PICK idle \in Client : idle = Rat!Idle /\ idle.seen = {}
    BY ClientIdle
  <2> DEFINE to == [idle EXCEPT !.at = at, !.by = by]
  <2>2. to \in Client /\ to.at = at /\ to.seen = {}
    BY <2>1 DEF Client
  <2>3. OncePerReviewer({})
    BY DEF OncePerReviewer
  <2> HIDE DEF to
  <2>4. to \in Client /\ to.at = at /\ to.seen = {} /\ OncePerReviewer(to.seen)
    BY <2>2, <2>3
  <2> QED BY <2>1, <2>4 DEF to
<1>only. ASSUME NEW at \in {"compute", "deleteImages", "insertImages"}
         PROVE LET to == [Rat!Idle EXCEPT !.at = at] IN
             to \in Client /\ to.at = at /\ to.seen = {} /\ OncePerReviewer(to.seen)
  <2>1. PICK idle \in Client : idle = Rat!Idle /\ idle.seen = {}
    BY ClientIdle
  <2> DEFINE to == [idle EXCEPT !.at = at]
  <2>2. to \in Client /\ to.at = at /\ to.seen = {}
    BY <2>1 DEF Client
  <2> HIDE DEF to
  <2>4. to \in Client /\ to.at = at /\ to.seen = {} /\ OncePerReviewer(to.seen)
    BY <2>2, ClientIdle
  <2> QED BY <2>1, <2>4 DEF to
<1>5. ASSUME NEW c \in Clients, Rat!FindService(c) \/ Rat!FindReview(c) PROVE RatingsInv'
  <2>1. PICK u \in Reviewers, at \in {"insertReview", "updateReview", "deleteReview"} :
          Rat!GoTo(c, [Rat!Idle EXCEPT !.at = at, !.by = {u}])
    BY <1>5 DEF Rat!FindService, Rat!FindReview
  <2> DEFINE to == [Rat!Idle EXCEPT !.at = at, !.by = {u}]
  <2>by. PICK by \in SUBSET Reviewers : by = {u}
    BY <2>1
  <2>2. to \in Client /\ to.at = at /\ OncePerReviewer(to.seen)
    <3>1. LET go == [Rat!Idle EXCEPT !.at = at, !.by = by] IN
             go \in Client /\ go.at = at /\ OncePerReviewer(go.seen)
      BY <1>at, ZenonT(60)
    <3> QED BY <2>by, <3>1
  <2>3. Rat!GoTo(c, to)
    BY <2>1
  <2> HIDE DEF to
  <2>4. Rat!Start(c) /\ UNCHANGED <<service, stars, ratingOf, primary, outdated, crossed>>
    BY <1>5 DEF Rat!FindService, Rat!FindReview
  <2>5. client[c].at = "idle"
    BY <1>start, <2>4, ClientIdle
  <2>6. /\ client'[c] = to /\ \A d \in Clients : d # c => client'[d] = client[d]
    BY <1>2, <2>2, <2>3
  <2>7. ratingOf' # (Rat!Reviews)' => outdated' \/ \E d \in Clients : client'[d].at \in {"compute", "store"}
    BY <1>1, <2>4, <2>5, <2>6 DEF Rat!Reviews
  <2> QED BY <1>1, <1>3, <1>start, <2>2, <2>3, <2>4, <2>5, <2>7
\* A review changes, and the request goes on to compute.
<1>6. ASSUME NEW c \in Clients, client[c].at \in {"insertReview", "updateReview", "deleteReview"},
             stars' \in [Reviewers -> Stars \union {0}],
             UNCHANGED <<service, ratingOf, primary, reviewed, ratingFaults, outdated, crossed>>,
             \/ Rat!GoTo(c, [Rat!Idle EXCEPT !.at = "compute"])
             \/ Rat!GoTo(c, Rat!Idle) /\ stars' = stars
      PROVE RatingsInv'
  <2>1. CASE Rat!GoTo(c, [Rat!Idle EXCEPT !.at = "compute"])
    <3> DEFINE to == [Rat!Idle EXCEPT !.at = "compute"]
    <3>1. to \in Client /\ to.at = "compute" /\ OncePerReviewer(to.seen) /\ Rat!GoTo(c, to)
      BY <1>only, <2>1
    <3> HIDE DEF to
    <3>2. client'[c].at = "compute"
      BY <1>2, <3>1
    <3>3. reviewed' \in 0..MaxReviews /\ reviewed <= reviewed'
      BY <1>1, <1>6
    <3> QED BY <1>1, <1>3, <1>6, <3>1, <3>2, <3>3
  <2>2. CASE Rat!GoTo(c, Rat!Idle) /\ stars' = stars
    <3>1. client'[c] = Rat!Idle /\ \A d \in Clients : d # c => client'[d] = client[d]
      BY <1>2, <2>2, ClientIdle
    <3>2. (Rat!Reviews)' = Rat!Reviews
      BY <2>2 DEF Rat!Reviews
    <3>3. reviewed' \in 0..MaxReviews /\ reviewed <= reviewed'
      BY <1>1, <1>6
    <3>4. ratingOf' # (Rat!Reviews)' => outdated' \/ \E d \in Clients : client'[d].at \in {"compute", "store"}
      BY <1>1, <1>6, <3>1, <3>2
    <3> QED BY <1>1, <1>3, <1>6, <2>2, <3>3, <3>4, ClientIdle
  <2> QED BY <1>6, <2>1, <2>2
<1>7. ASSUME NEW c \in Clients, Rat!InsertReview(c) PROVE RatingsInv'
  <2>1. stars' \in [Reviewers -> Stars \union {0}]
    BY <1>1, <1>7 DEF Rat!InsertReview
  <2> QED BY <1>6, <1>7, <2>1 DEF Rat!InsertReview
<1>8. ASSUME NEW c \in Clients, Rat!UpdateReview(c) \/ Rat!DeleteReview(c) PROVE RatingsInv'
  <2>1. stars' \in [Reviewers -> Stars \union {0}]
    BY <1>1, <1>8 DEF Rat!UpdateReview, Rat!DeleteReview
  <2> QED BY <1>6, <1>8, <2>1 DEF Rat!UpdateReview, Rat!DeleteReview
<1>9. ASSUME NEW c \in Clients, Rat!Compute(c) PROVE RatingsInv'
  <2>1. PICK idle \in Client : idle = Rat!Idle
    BY ClientIdle
  <2>2. PICK seen : seen = Rat!Reviews
    OBVIOUS
  <2> DEFINE to == [idle EXCEPT !.at = "store", !.seen = seen]
  <2>3. to \in Client /\ to.at = "store" /\ to.seen = seen
    BY <2>1, <2>2, <1>once DEF Client
  <2>4. Rat!GoTo(c, to)
    BY <1>9, <2>1, <2>2 DEF Rat!Compute
  <2> HIDE DEF to
  <2>5. client'[c].at = "store"
    BY <1>2, <2>2, <2>3, <2>4, <1>once
  <2>6. reviewed' \in 0..MaxReviews /\ reviewed <= reviewed'
    BY <1>1, <1>9 DEF Rat!Compute
  <2> QED BY <1>1, <1>3, <1>9, <1>once, <2>2, <2>3, <2>4, <2>5, <2>6 DEF Rat!Compute
<1>10. ASSUME NEW c \in Clients, Rat!Store(c) PROVE RatingsInv'
  <2>1. /\ ratingOf' = client[c].seen /\ outdated' = (client[c].seen # Rat!Reviews)
        /\ Rat!GoTo(c, Rat!Idle) /\ client[c].at = "store"
        /\ UNCHANGED <<service, stars, primary, reviewed, ratingFaults, crossed>>
    BY <1>10 DEF Rat!Store
  <2>2. (Rat!Reviews)' = Rat!Reviews
    BY <2>1 DEF Rat!Reviews
  <2>3. ratingOf' # (Rat!Reviews)' => outdated'
    BY <2>1, <2>2
  <2>4. reviewed' \in 0..MaxReviews /\ reviewed <= reviewed' /\ outdated' \in BOOLEAN
    BY <1>1, <2>1
  <2> QED BY <1>1, <1>3, <2>1, <2>3, <2>4, ClientIdle
<1>11. ASSUME NEW c \in Clients, Rat!UpdateService(c) PROVE RatingsInv'
  <2> DEFINE to == [Rat!Idle EXCEPT !.at = "deleteImages"]
  <2>1. to \in Client /\ to.at = "deleteImages" /\ OncePerReviewer(to.seen)
    BY <1>only
  <2>2. Rat!GoTo(c, to) /\ Rat!Start(c) /\ UNCHANGED <<service, stars, ratingOf, primary, ratingFaults, outdated, crossed>>
    BY <1>11 DEF Rat!UpdateService
  <2> HIDE DEF to
  <2>3. /\ client' \in [Clients -> Client] /\ \A d \in Clients : OncePerReviewer(client'[d].seen)
        /\ client'[c] = to /\ \A d \in Clients : d # c => client'[d] = client[d]
        /\ Cardinality(Renewing') = Cardinality(Renewing) + 1 /\ Cardinality(Renewing) \in Nat
    BY <1>2, <1>start, <2>1, <2>2, ClientIdle
  <2>4. \A d \in Clients : (Inserting(d))' <=> Inserting(d)
    BY <1>start, <2>1, <2>2, <2>3, ClientIdle
  <2>5. \/ primary' + Cardinality(Renewing') <= reviewed'
        \/ primary' = 1 /\ Cardinality(Renewing') <= reviewed' /\ \A d \in Clients : ~Inserting(d)
    BY <1>1, <1>start, <2>2, <2>3
  <2>6. ratingOf' # (Rat!Reviews)' => outdated' \/ \E d \in Clients : client'[d].at \in {"compute", "store"}
    BY <1>1, <1>start, <2>2, <2>3, ClientIdle DEF Rat!Reviews
  <2> QED BY <1>1, <1>start, <2>2, <2>3, <2>4, <2>5, <2>6 DEF RatingsInv
<1>12. ASSUME NEW c \in Clients, Rat!DeleteImages(c) PROVE RatingsInv'
  <2> DEFINE to == [Rat!Idle EXCEPT !.at = "insertImages"]
  <2>1. to \in Client /\ to.at = "insertImages" /\ OncePerReviewer(to.seen)
    BY <1>only
  <2>2. Rat!GoTo(c, to) /\ client[c].at = "deleteImages" /\ primary' = 0
        /\ crossed' = (crossed \/ \E d \in Clients \ {c} : client[d].at \in {"deleteImages", "insertImages"})
        /\ UNCHANGED <<service, stars, ratingOf, reviewed, ratingFaults, outdated>>
    BY <1>12 DEF Rat!DeleteImages
  <2> HIDE DEF to
  <2>3. /\ client' \in [Clients -> Client] /\ \A d \in Clients : OncePerReviewer(client'[d].seen)
        /\ client'[c] = to /\ \A d \in Clients : d # c => client'[d] = client[d]
        /\ Cardinality(Renewing') = Cardinality(Renewing) /\ Cardinality(Renewing) \in Nat
    BY <1>2, <2>1, <2>2
  <2>4. primary' + Cardinality(Renewing') <= reviewed'
    <3>1. Cardinality(Renewing) <= reviewed
      BY <1>1, <2>3
    <3> QED BY <3>1, <2>2, <2>3
  <2>5. ratingOf' # (Rat!Reviews)' => outdated' \/ \E d \in Clients : client'[d].at \in {"compute", "store"}
    BY <1>1, <2>2, <2>3 DEF Rat!Reviews
  <2>6. crossed' \in BOOLEAN /\ (~crossed' => \A d \in Clients : d # c => ~(Inserting(d))')
    BY <1>1, <2>2, <2>3
  <2> QED BY <1>1, <2>1, <2>2, <2>3, <2>4, <2>5, <2>6 DEF RatingsInv
<1>13. ASSUME NEW c \in Clients, Rat!InsertImages(c) PROVE RatingsInv'
  <2>2. Rat!GoTo(c, Rat!Idle) /\ client[c].at = "insertImages" /\ primary' = primary + 1
        /\ UNCHANGED <<service, stars, ratingOf, reviewed, ratingFaults, outdated, crossed>>
    BY <1>13 DEF Rat!InsertImages
  <2>3. /\ client' \in [Clients -> Client] /\ \A d \in Clients : OncePerReviewer(client'[d].seen)
        /\ client'[c] = Rat!Idle /\ \A d \in Clients : d # c => client'[d] = client[d]
        /\ Cardinality(Renewing') = Cardinality(Renewing) - 1 /\ Cardinality(Renewing) \in Nat
    <3>1. PICK idle \in Client : idle = Rat!Idle /\ idle.at = "idle" /\ OncePerReviewer(idle.seen)
      BY ClientIdle
    <3>2. Rat!GoTo(c, idle)
      BY <2>2, <3>1
    <3>3. /\ client' \in [Clients -> Client] /\ \A d \in Clients : OncePerReviewer(client'[d].seen)
          /\ client'[c] = idle /\ \A d \in Clients : d # c => client'[d] = client[d]
      BY <1>2, <3>1, <3>2
    <3>4. /\ Cardinality(Renewing) \in Nat /\ Cardinality(Renewing') \in Nat
          /\ Cardinality(Renewing') =
               Cardinality(Renewing) - (IF client[c].at \in {"deleteImages", "insertImages"} THEN 1 ELSE 0)
               + (IF idle.at \in {"deleteImages", "insertImages"} THEN 1 ELSE 0)
      BY <1>2, <3>1, <3>2
    <3> DEFINE n == Cardinality(Renewing)  m == Cardinality(Renewing')
    <3>5. m = n - 1
      <4>1. n \in Nat /\ m \in Nat /\ m = n - 1 + 0
        BY <2>2, <3>1, <3>4
      <4> HIDE DEF n, m
      <4> QED BY <4>1
    <3> QED BY <3>1, <3>3, <3>4, <3>5
  <2>4. primary' + Cardinality(Renewing') <= reviewed'
    <3>1. primary + Cardinality(Renewing) <= reviewed /\ primary \in Nat /\ reviewed \in Nat
      BY <1>1, <2>2
    <3> QED BY <3>1, <2>2, <2>3
  <2>5. ratingOf' # (Rat!Reviews)' => outdated' \/ \E d \in Clients : client'[d].at \in {"compute", "store"}
    BY <1>1, <2>2, <2>3 DEF Rat!Reviews
  <2>6. ~crossed => primary' = 1 /\ \A d \in Clients : ~(Inserting(d))'
    <3>1. ~crossed => primary = 0 /\ \A d \in Clients : Inserting(d) => d = c
      BY <1>1, <2>2
    <3> QED BY <3>1, <2>2, <2>3, ClientIdle
  <2> QED BY <1>1, <2>2, <2>3, <2>4, <2>5, <2>6 DEF RatingsInv
<1>14. ASSUME NEW c \in Clients, Rat!DeleteService(c) PROVE RatingsInv'
  <2>1. Rat!Start(c) /\ service' = "deleted" /\ UNCHANGED <<stars, ratingOf, primary, client, ratingFaults, outdated, crossed>>
    BY <1>14 DEF Rat!DeleteService
  <2>2. Renewing' = Renewing /\ (Rat!Reviews)' = Rat!Reviews
    BY <2>1 DEF Renewing, Rat!Reviews
  <2>3. Cardinality(Renewing) \in Nat /\ reviewed \in Nat /\ primary \in Nat
    BY <1>1, RatingsAssumption, FS_Subset, FS_CardinalityType DEF Renewing
  <2>4. \/ primary' + Cardinality(Renewing') <= reviewed'
        \/ primary' = 1 /\ Cardinality(Renewing') <= reviewed' /\ \A d \in Clients : ~Inserting(d)
    BY <1>1, <1>start, <2>1, <2>2, <2>3
  <2> QED BY <1>1, <1>start, <2>1, <2>2, <2>4 DEF RatingsInv
<1>15. ASSUME NEW c \in Clients, Rat!Fail(c) PROVE RatingsInv'
  <2>2. Rat!GoTo(c, Rat!Idle) /\ client[c] # Rat!Idle
        /\ outdated' = (outdated \/ client[c].at \in {"compute", "store"})
        /\ crossed' = (crossed \/ client[c].at = "insertImages")
        /\ UNCHANGED <<service, stars, ratingOf, primary, reviewed>>
    BY <1>15 DEF Rat!Fail
  <2>3. /\ client' \in [Clients -> Client] /\ \A d \in Clients : OncePerReviewer(client'[d].seen)
        /\ client'[c] = Rat!Idle /\ \A d \in Clients : d # c => client'[d] = client[d]
        /\ Cardinality(Renewing') <= Cardinality(Renewing)
        /\ Cardinality(Renewing) \in Nat /\ Cardinality(Renewing') \in Nat
    <3>1. PICK idle \in Client : idle = Rat!Idle /\ idle.at = "idle" /\ OncePerReviewer(idle.seen)
      BY ClientIdle
    <3>2. Rat!GoTo(c, idle)
      BY <2>2, <3>1
    <3>3. /\ client' \in [Clients -> Client] /\ \A d \in Clients : OncePerReviewer(client'[d].seen)
          /\ client'[c] = idle /\ \A d \in Clients : d # c => client'[d] = client[d]
      BY <1>2, <3>1, <3>2
    <3>4. /\ Cardinality(Renewing) \in Nat /\ Cardinality(Renewing') \in Nat
          /\ Cardinality(Renewing') =
               Cardinality(Renewing) - (IF client[c].at \in {"deleteImages", "insertImages"} THEN 1 ELSE 0)
               + (IF idle.at \in {"deleteImages", "insertImages"} THEN 1 ELSE 0)
      BY <1>2, <3>1, <3>2
    <3> DEFINE n == Cardinality(Renewing)  m == Cardinality(Renewing')
    <3>5. m <= n
      <4>1. n \in Nat /\ m \in Nat /\ (m = n - 1 + 0 \/ m = n - 0 + 0)
        BY <3>1, <3>4
      <4> HIDE DEF n, m
      <4> QED BY <4>1
    <3> QED BY <3>1, <3>3, <3>4, <3>5
  <2>4. \/ primary' + Cardinality(Renewing') <= reviewed'
        \/ primary' = 1 /\ Cardinality(Renewing') <= reviewed' /\ \A d \in Clients : ~(Inserting(d))'
    <3>1. primary \in Nat /\ reviewed \in Nat /\ \A d \in Clients : (Inserting(d))' => Inserting(d)
      BY <1>1, <2>3, ClientIdle
    <3> QED BY <1>1, <2>2, <2>3, <3>1
  <2>5. ratingOf' # (Rat!Reviews)' => outdated' \/ \E d \in Clients : client'[d].at \in {"compute", "store"}
    BY <1>1, <2>2, <2>3 DEF Rat!Reviews
  <2>6. outdated' \in BOOLEAN /\ crossed' \in BOOLEAN
    BY <1>1, <2>2
  <2>7. /\ \A d \in Clients : (Inserting(d))' => Inserting(d) /\ d # c
        /\ \A d \in Clients : Inserting(d) /\ d # c => (Inserting(d))'
    BY <2>3, ClientIdle
  <2>8. /\ primary # 1 => crossed' \/ \E d \in Clients : (Inserting(d))'
        /\ ~crossed' => ~crossed /\ ~Inserting(c)
    BY <1>1, <2>2, <2>7
  <2> QED BY <1>1, <2>2, <2>3, <2>4, <2>5, <2>6, <2>7, <2>8 DEF RatingsInv
<1>16. CASE UNCHANGED ratingVars
  <2>1. Renewing' = Renewing /\ (Rat!Reviews)' = Rat!Reviews
    BY <1>16 DEF ratingVars, Renewing, Rat!Reviews
  <2> QED BY <1>1, <1>16, <2>1 DEF ratingVars, RatingsInv
<1> QED
  BY <1>5, <1>7, <1>8, <1>9, <1>10, <1>11, <1>12, <1>13, <1>14, <1>15, <1>16 DEF Rat!Next

\* The stored rating is off only while it is to be computed or after it was stored late; the images
\* owed bound their number (ServicesService.updateServiceRating and update).
THEOREM RatingsInvariant == MCSpec => []RatingsInv
BY RatingsInit, RatingsStep, PTL DEF MCSpec

\* The account of ratings explains them.
LEMMA RatingsHold == RatingsInv /\ focus = "ratings" => Rat!RatingExplained /\ Rat!TypeOK
<1> SUFFICES ASSUME RatingsInv, focus = "ratings" PROVE Rat!RatingExplained /\ Rat!TypeOK
  OBVIOUS
<1>1. Cardinality(Renewing) \in Nat
  BY RatingsAssumption, FS_Subset, FS_CardinalityType DEF Renewing
<1>2. primary \in 0..MaxReviews
  BY <1>1, RatingsAssumption DEF RatingsInv
<1> QED BY <1>2 DEF RatingsInv, Rat!RatingExplained, Rat!TypeOK, Inserting, OncePerReviewer

-----------------------------------------------------------------------------
\* The categories.

\* While the catalog is in focus only it moves.
LEMMA CatalogMoves ==
  focus = "catalog" /\ [MCNext]_allVars => focus' = "catalog" /\ [Cat!Next]_catalogVars
BY DEF MCNext, Others, Rest, allVars

\* What a request has read of the rows, and the lists of a reorder.
Read == {<<>>} \union ([Categories -> Slugs \union {"none"}] \X [Categories -> Categories \union {0}]
                       \X [Categories -> 0..1])
Todo == {<<>>} \union {<<i>> : i \in Categories} \union {<<i, j>> : i, j \in Categories}
Task ==
  [at : {"idle", "insert", "update", "delete", "reorder", "invalidateTree", "invalidateFlat", "find", "store"},
   row : Categories \union {0}, slug : Slugs \union {"none"}, parent : Categories \union {0},
   todo : Todo, key : Cat!Keys \union {"none"}, seen : Read]

\* The rows under another.
Under(i) == {j \in Categories : slug[j] # "none" /\ parent[j] = i /\ j # i}

\* What a request will write, and whom it has still to look after.
Sound(w) ==
  /\ w.at \in {"insert", "update"} => w.slug \in Slugs
  /\ w.at \in {"update", "delete"} => w.row \in Categories
  /\ w.at = "delete" => Under(w.row) \subseteq slipped
  /\ w.at = "reorder" => w.todo # <<>>
  /\ w.at \in {"find", "store"} => w.key \in Cat!Keys

\* A copy that differs from the rows was filled late, or somebody will delete it.
CopiesOwed ==
  \A k \in Cat!Keys : listCopy[k] \ {Cat!Rows} # {} => k \in late \/ \E c \in Managers : k \in Cat!Owes(c)

CatalogInv ==
  focus = "catalog" =>
    /\ slug \in [Categories -> Slugs \union {"none"}] /\ parent \in [Categories -> Categories \union {0}]
    /\ place \in [Categories -> 0..1]
    /\ \A i, j \in Cat!Live : slug[i] = slug[j] => i = j
    /\ \A i \in Cat!Live : parent[i] \in Cat!Live \union {0}
    /\ late \subseteq Cat!Keys /\ DOMAIN listCopy = Cat!Keys
    /\ task \in [Managers -> Task] /\ \A c \in Managers : Sound(task[c])
    /\ CopiesOwed
    /\ lifted \subseteq slipped

\* A list that is not empty has one or two rows, and the rest of a longer one is a list.
LEMMA TodoLists ==
  ASSUME NEW l \in Todo, l # <<>>
  PROVE  /\ Head(l) \in Categories /\ Len(l) \in 1..2
         /\ Len(l) # 1 => Tail(l) \in Todo /\ Tail(l) # <<>>
<1>1. CASE \E i \in Categories : l = <<i>>
  BY <1>1
<1>2. CASE \E i, j \in Categories : l = <<i, j>>
  <2>1. PICK i \in Categories, j \in Categories : l = <<i, j>>
    BY <1>2
  <2>2. Head(l) = i /\ Len(l) = 2 /\ Tail(l) = <<j>>
    BY <2>1
  <2> QED BY <2>2 DEF Todo
<1> QED BY <1>1, <1>2 DEF Todo

\* A request that is not open has nothing to do.
LEMMA CatalogIdle ==
  /\ Cat!Idle \in Task /\ Cat!Idle.at = "idle" /\ Sound(Cat!Idle)
  /\ Cat!Idle.row = 0 /\ Cat!Idle.todo = <<>>
BY DEF Task, Todo, Read, Sound, Cat!Idle

\* An empty table is sound.
LEMMA CatalogInit == MCInit => CatalogInv
<1> SUFFICES ASSUME MCInit, focus = "catalog" PROVE CatalogInv
  BY DEF CatalogInv
<1>1. Cat!Init
  BY DEF MCInit
<1>2. task \in [Managers -> Task] /\ \A c \in Managers : Sound(task[c])
  BY <1>1, CatalogIdle DEF Cat!Init
<1>3. Cat!Live = {}
  BY <1>1 DEF Cat!Init, Cat!Live
<1>4. CopiesOwed
  BY <1>1 DEF Cat!Init, CopiesOwed
<1> QED BY <1>1, <1>2, <1>3, <1>4 DEF Cat!Init, CatalogInv

\* Every step of adding, moving, deleting and reordering keeps the table sound.
LEMMA CatalogStep == CatalogInv /\ [MCNext]_allVars => CatalogInv'
<1> SUFFICES ASSUME CatalogInv, focus = "catalog", [Cat!Next]_catalogVars, focus' = "catalog" PROVE CatalogInv'
  BY CatalogMoves DEF CatalogInv, MCNext, Others, Rest, allVars
<1>1. /\ slug \in [Categories -> Slugs \union {"none"}] /\ parent \in [Categories -> Categories \union {0}]
      /\ place \in [Categories -> 0..1]
      /\ \A i, j \in Cat!Live : slug[i] = slug[j] => i = j
      /\ \A i \in Cat!Live : parent[i] \in Cat!Live \union {0}
      /\ late \subseteq Cat!Keys /\ DOMAIN listCopy = Cat!Keys
      /\ task \in [Managers -> Task] /\ \A c \in Managers : Sound(task[c])
      /\ CopiesOwed
      /\ lifted \subseteq slipped
  BY DEF CatalogInv
<1>live. Cat!Live \subseteq Categories /\ 0 \notin Categories /\ "none" \notin Slugs /\ Cat!Rows \in Read
  BY <1>1, CatalogAssumption DEF Cat!Live, Cat!Rows, Read
<1>2. ASSUME NEW c \in Managers, NEW to \in Task, Cat!GoTo(c, to)
      PROVE task' \in [Managers -> Task] /\ task'[c] = to /\ \A d \in Managers : d # c => task'[d] = task[d]
  BY <1>1, <1>2 DEF Cat!GoTo
\* The rows stay as they are.
<1>3. ASSUME NEW c \in Managers, NEW to \in Task, Cat!GoTo(c, to), Sound(to),
             UNCHANGED <<slug, parent, place, lifted, slipped>>,
             late' \subseteq Cat!Keys, DOMAIN listCopy' = Cat!Keys, CopiesOwed'
      PROVE CatalogInv'
  <2>1. \A d \in Managers : (Sound(task[d]))'
    <3>1. TAKE d \in Managers
    <3>2. PICK w \in Task : w = task'[d] /\ Sound(w)
      BY <1>1, <1>2, <1>3
    <3>3. Under(w.row)' = Under(w.row)
      BY <1>3 DEF Under
    <3>4. Sound(w)'
      BY <1>3, <3>2, <3>3 DEF Sound
    <3> QED BY <3>2, <3>4 DEF Sound, Under
  <2> QED BY <1>1, <1>2, <1>3, <2>1 DEF CatalogInv, Cat!Live
\* So do the copies.
<1>4. ASSUME NEW c \in Managers, NEW to \in Task, Cat!GoTo(c, to), Sound(to),
             task[c].at \notin {"reorder", "invalidateTree", "invalidateFlat"},
             UNCHANGED <<slug, parent, place, lifted, slipped, late, listCopy>>
      PROVE CatalogInv'
  <2>1. \A d \in Managers : Cat!Owes(d) \subseteq (Cat!Owes(d))'
    BY <1>2, <1>4 DEF Cat!Owes
  <2>2. CopiesOwed'
    BY <1>1, <1>4, <2>1 DEF CopiesOwed, Cat!Rows
  <2> QED BY <1>1, <1>3, <1>4, <2>2
\* The rows change, and the request goes on to delete the copies.
<1>5. ASSUME NEW c \in Managers, Cat!Changed(c),
             slug' \in [Categories -> Slugs \union {"none"}], parent' \in [Categories -> Categories \union {0}],
             place' \in [Categories -> 0..1],
             \A i, j \in Cat!Live' : slug'[i] = slug'[j] => i = j,
             \A i \in Cat!Live' : parent'[i] \in Cat!Live' \union {0},
             UNCHANGED <<late, listCopy>>, lifted' \subseteq slipped',
             \A d \in Managers, i \in Categories :
               d # c /\ task[d].at = "delete" /\ task[d].row = i => Under(i)' \subseteq slipped'
      PROVE CatalogInv'
  <2>1. PICK idle \in Task : idle = Cat!Idle
    BY CatalogIdle
  <2> DEFINE to == [idle EXCEPT !.at = "invalidateTree"]
  <2>2. to \in Task /\ to.at = "invalidateTree" /\ Cat!GoTo(c, to)
    BY <1>5, <2>1 DEF Task, Cat!Changed
  <2> HIDE DEF to
  <2>3. task' \in [Managers -> Task] /\ task'[c] = to /\ \A d \in Managers : d # c => task'[d] = task[d]
    BY <1>2, <2>2
  <2>4. (Cat!Owes(c))' = Cat!Keys
    BY <2>2, <2>3 DEF Cat!Owes, Cat!Keys
  <2>5. CopiesOwed'
    BY <2>4 DEF CopiesOwed, Cat!Keys
  <2>6. \A d \in Managers : (Sound(task[d]))'
    <3>1. TAKE d \in Managers
    <3>2. CASE d = c
      BY <2>2, <2>3, <3>2 DEF Sound
    <3>3. CASE d # c
      <4>1. PICK w \in Task : w = task[d] /\ w = task'[d] /\ Sound(w)
        BY <1>1, <2>3, <3>3
      <4>2. w.at = "delete" => Under(w.row)' \subseteq slipped'
        <5>1. w.at = "delete" => w.row \in Categories
          BY <4>1 DEF Sound
        <5> QED BY <1>5, <3>3, <4>1, <5>1
      <4>3. Sound(w)'
        BY <4>1, <4>2 DEF Sound
      <4> QED BY <4>1, <4>3 DEF Sound, Under
    <3> QED BY <3>2, <3>3
  <2> QED BY <1>1, <1>5, <2>3, <2>5, <2>6 DEF CatalogInv
\* As above, when it is only the places that change.
<1>6. ASSUME NEW c \in Managers, Cat!Changed(c), place' \in [Categories -> 0..1],
             UNCHANGED <<slug, parent, late, listCopy, lifted, slipped>>
      PROVE CatalogInv'
  <2>1. Cat!Live' = Cat!Live /\ \A i \in Categories : Under(i)' = Under(i)
    BY <1>6 DEF Cat!Live, Under
  <2>2. \A d \in Managers, i \in Categories :
          d # c /\ task[d].at = "delete" /\ task[d].row = i => Under(i)' \subseteq slipped'
    BY <1>1, <1>6, <2>1 DEF Sound
  <2> QED BY <1>1, <1>5, <1>6, <2>1, <2>2
<1>start. ASSUME NEW c \in Managers, Cat!Start(c)
          PROVE task[c] = Cat!Idle /\ task[c].at \notin {"reorder", "invalidateTree", "invalidateFlat"}
  BY <1>start, CatalogIdle DEF Cat!Start
<1>7. ASSUME NEW c \in Managers, Cat!FindSlug(c) PROVE CatalogInv'
  <2>1. PICK s \in Slugs, p \in Cat!Live \union {0} :
          Cat!GoTo(c, [Cat!Idle EXCEPT !.at = "insert", !.slug = s, !.parent = p])
    BY <1>7 DEF Cat!FindSlug
  <2>2. PICK idle \in Task : idle = Cat!Idle
    BY CatalogIdle
  <2> DEFINE to == [idle EXCEPT !.at = "insert", !.slug = s, !.parent = p]
  <2>3. to \in Task /\ to.at = "insert" /\ to.slug = s /\ Cat!GoTo(c, to)
    BY <1>live, <2>1, <2>2 DEF Task
  <2> HIDE DEF to
  <2>4. Sound(to)
    BY <2>3 DEF Sound
  <2> QED BY <1>4, <1>7, <1>start, <2>3, <2>4 DEF Cat!FindSlug
<1>8. ASSUME NEW c \in Managers, Cat!FindCategory(c) PROVE CatalogInv'
  <2>1. PICK i \in Cat!Live, s \in Slugs, p \in Cat!Live \union {0} :
          Cat!GoTo(c, [Cat!Idle EXCEPT !.at = "update", !.row = i, !.slug = s, !.parent = p])
    BY <1>8 DEF Cat!FindCategory
  <2>2. PICK idle \in Task : idle = Cat!Idle
    BY CatalogIdle
  <2> DEFINE to == [idle EXCEPT !.at = "update", !.row = i, !.slug = s, !.parent = p]
  <2>3. to \in Task /\ to.at = "update" /\ to.slug = s /\ to.row = i /\ Cat!GoTo(c, to)
    BY <1>live, <2>1, <2>2 DEF Task
  <2> HIDE DEF to
  <2>4. Sound(to)
    BY <1>live, <2>3 DEF Sound
  <2> QED BY <1>4, <1>8, <1>start, <2>3, <2>4 DEF Cat!FindCategory
<1>9. ASSUME NEW c \in Managers, Cat!FindChildren(c) PROVE CatalogInv'
  <2>1. PICK i \in Cat!Live : Cat!Children(i) = {} /\ Cat!GoTo(c, [Cat!Idle EXCEPT !.at = "delete", !.row = i])
    BY <1>9 DEF Cat!FindChildren
  <2>2. PICK idle \in Task : idle = Cat!Idle
    BY CatalogIdle
  <2> DEFINE to == [idle EXCEPT !.at = "delete", !.row = i]
  <2>3. to \in Task /\ to.at = "delete" /\ to.row = i /\ Cat!GoTo(c, to)
    BY <1>live, <2>1, <2>2 DEF Task
  <2> HIDE DEF to
  <2>4. Under(i) = {}
    BY <2>1 DEF Under, Cat!Children, Cat!Live
  <2>5. Sound(to)
    BY <1>live, <2>3, <2>4 DEF Sound
  <2> QED BY <1>4, <1>9, <1>start, <2>3, <2>5 DEF Cat!FindChildren
<1>10. ASSUME NEW c \in Managers, Cat!StartReorder(c) PROVE CatalogInv'
  <2>1. PICK l \in Cat!Lists : Cat!GoTo(c, [Cat!Idle EXCEPT !.at = "reorder", !.todo = l])
    BY <1>10 DEF Cat!StartReorder
  <2>2. PICK idle \in Task : idle = Cat!Idle
    BY CatalogIdle
  <2>3. l \in Todo /\ l # <<>>
    <3>1. PICK i \in Categories, j \in Categories : l = <<i, j>>
      BY <1>live DEF Cat!Lists
    <3> QED BY <3>1 DEF Todo
  <2> DEFINE to == [idle EXCEPT !.at = "reorder", !.todo = l]
  <2>4. to \in Task /\ to.at = "reorder" /\ to.todo = l /\ Cat!GoTo(c, to)
    BY <2>1, <2>2, <2>3 DEF Task
  <2> HIDE DEF to
  <2>5. Sound(to)
    BY <2>3, <2>4 DEF Sound
  <2> QED BY <1>4, <1>10, <1>start, <2>4, <2>5 DEF Cat!StartReorder
<1>11. ASSUME NEW c \in Managers, Cat!LookUp(c) PROVE CatalogInv'
  <2>1. PICK k \in Cat!Keys : Cat!GoTo(c, [Cat!Idle EXCEPT !.at = "find", !.key = k])
    BY <1>11 DEF Cat!LookUp
  <2>2. PICK idle \in Task : idle = Cat!Idle
    BY CatalogIdle
  <2> DEFINE to == [idle EXCEPT !.at = "find", !.key = k]
  <2>3. to \in Task /\ to.at = "find" /\ to.key = k /\ Cat!GoTo(c, to)
    BY <2>1, <2>2 DEF Task
  <2> HIDE DEF to
  <2>4. Sound(to)
    BY <2>3 DEF Sound
  <2>5. task[c].at \notin {"reorder", "invalidateTree", "invalidateFlat"}
    BY <1>11, CatalogIdle DEF Cat!LookUp
  <2> QED BY <1>4, <1>11, <2>3, <2>4, <2>5 DEF Cat!LookUp
<1>12. ASSUME NEW c \in Managers, Cat!Find(c) PROVE CatalogInv'
  <2>1. PICK w \in Task : w = task[c] /\ w.at = "find" /\ Sound(w)
    BY <1>1, <1>12 DEF Cat!Find
  <2>2. PICK seen \in Read : seen = Cat!Rows
    BY <1>live
  <2> DEFINE to == [w EXCEPT !.at = "store", !.seen = seen]
  <2>3. to \in Task /\ to.at = "store" /\ to.key = w.key /\ Cat!GoTo(c, to)
    BY <1>12, <2>1, <2>2 DEF Task, Cat!Find
  <2> HIDE DEF to
  <2>4. Sound(to)
    BY <2>1, <2>3 DEF Sound
  <2> QED BY <1>4, <1>12, <2>1, <2>3, <2>4 DEF Cat!Find
<1>13. ASSUME NEW c \in Managers, Cat!Insert(c) PROVE CatalogInv'
  <2>1. PICK w \in Task : w = task[c] /\ w.at = "insert" /\ w.slug \in Slugs
    BY <1>1, <1>13 DEF Cat!Insert, Sound
  <2>2. CASE Cat!GoTo(c, Cat!Idle) /\ UNCHANGED <<slug, parent, place, lifted, slipped>>
    BY <1>4, <1>13, <2>1, <2>2, CatalogIdle DEF Cat!Insert
  <2>3. CASE /\ ~Cat!Taken(w.slug) /\ w.parent \in Cat!Live \union {0}
             /\ \E i \in Cat!Fresh :
                  /\ slug' = [slug EXCEPT ![i] = w.slug] /\ parent' = [parent EXCEPT ![i] = w.parent]
                  /\ place' = [place EXCEPT ![i] = 0] /\ lifted' = lifted \ {i}
                  /\ slipped' = IF Cat!BeingDeleted(w.parent) THEN slipped \union {i} ELSE slipped \ {i}
                  /\ Cat!Changed(c)
    <3>1. PICK i \in Categories \ Cat!Live :
                  /\ slug' = [slug EXCEPT ![i] = w.slug] /\ parent' = [parent EXCEPT ![i] = w.parent]
                  /\ place' = [place EXCEPT ![i] = 0] /\ lifted' = lifted \ {i}
                  /\ slipped' = IF Cat!BeingDeleted(w.parent) THEN slipped \union {i} ELSE slipped \ {i}
                  /\ Cat!Changed(c)
      BY <2>3 DEF Cat!Fresh
    <3>2. Cat!Live' = Cat!Live \union {i}
      BY <1>1, <1>live, <2>1, <3>1 DEF Cat!Live
    <3>3. \A j, k \in Cat!Live' : slug'[j] = slug'[k] => j = k
      BY <1>1, <1>live, <2>3, <3>1, <3>2 DEF Cat!Taken
    <3>4. \A j \in Cat!Live' : parent'[j] \in Cat!Live' \union {0}
      BY <1>1, <1>live, <2>3, <3>1, <3>2
    <3>5. \A d \in Managers, k \in Categories :
            d # c /\ task[d].at = "delete" /\ task[d].row = k => Under(k)' \subseteq slipped'
      <4>1. TAKE d \in Managers, k \in Categories
      <4>2. HAVE d # c /\ task[d].at = "delete" /\ task[d].row = k
      <4>3. Under(k) \subseteq slipped \ {i}
        BY <1>1, <3>1, <4>2 DEF Sound, Under, Cat!Live
      <4>4. Under(k)' \subseteq Under(k) \union (IF w.parent = k THEN {i} ELSE {})
        BY <1>1, <2>1, <3>1 DEF Under
      <4>5. w.parent = k => Cat!BeingDeleted(w.parent)
        BY <4>2 DEF Cat!BeingDeleted
      <4> QED BY <3>1, <4>3, <4>4, <4>5
    <3>6. /\ slug' \in [Categories -> Slugs \union {"none"}] /\ parent' \in [Categories -> Categories \union {0}]
          /\ place' \in [Categories -> 0..1]
      <4>1. w.parent \in Categories \union {0} /\ i \in Categories
        BY <2>1, <3>1 DEF Task
      <4>2. place' \in [Categories -> 0..1]
        BY <1>1, <3>1, <4>1
      <4> QED BY <1>1, <2>1, <3>1, <4>1, <4>2
    <3>7. lifted' \subseteq slipped' /\ UNCHANGED <<late, listCopy>>
      BY <1>1, <1>13, <3>1 DEF Cat!Insert
    <3> QED BY <1>5, <3>1, <3>3, <3>4, <3>5, <3>6, <3>7
  <2> QED BY <1>13, <2>1, <2>2, <2>3 DEF Cat!Insert
<1>14. ASSUME NEW c \in Managers, Cat!Update(c) PROVE CatalogInv'
  <2>1. PICK w \in Task : w = task[c] /\ w.at = "update" /\ w.slug \in Slugs /\ w.row \in Categories
    BY <1>1, <1>14 DEF Cat!Update, Sound
  <2>2. CASE Cat!GoTo(c, Cat!Idle) /\ UNCHANGED <<slug, parent, slipped>>
    BY <1>4, <1>14, <2>1, <2>2, CatalogIdle DEF Cat!Update
  <2>3. CASE Cat!Changed(c) /\ UNCHANGED <<slug, parent, slipped>>
    BY <1>1, <1>6, <1>14, <2>3 DEF Cat!Update
  <2>4. CASE /\ w.row \in Cat!Live /\ (slug[w.row] = w.slug \/ ~Cat!Taken(w.slug))
             /\ w.parent \in Cat!Live \union {0}
             /\ slug' = [slug EXCEPT ![w.row] = w.slug] /\ parent' = [parent EXCEPT ![w.row] = w.parent]
             /\ slipped' = IF Cat!BeingDeleted(w.parent) THEN slipped \union {w.row} ELSE slipped
             /\ Cat!Changed(c)
    <3>1. PICK i \in Categories : i = w.row
      BY <2>1
    <3>2. Cat!Live' = Cat!Live
      BY <1>1, <1>live, <2>1, <2>4 DEF Cat!Live
    <3>3. \A j, k \in Cat!Live' : slug'[j] = slug'[k] => j = k
      BY <1>1, <1>live, <2>4, <3>2 DEF Cat!Taken
    <3>4. \A j \in Cat!Live' : parent'[j] \in Cat!Live' \union {0}
      BY <1>1, <1>live, <2>4, <3>2
    <3>5. \A d \in Managers, k \in Categories :
            d # c /\ task[d].at = "delete" /\ task[d].row = k => Under(k)' \subseteq slipped'
      <4>1. TAKE d \in Managers, k \in Categories
      <4>2. HAVE d # c /\ task[d].at = "delete" /\ task[d].row = k
      <4>3. Under(k) \subseteq slipped
        BY <1>1, <4>2 DEF Sound
      <4>4. Under(k)' \subseteq Under(k) \union (IF w.parent = k THEN {i} ELSE {})
        BY <1>1, <2>1, <2>4, <3>1 DEF Under, Cat!Live
      <4>5. w.parent = k => Cat!BeingDeleted(w.parent)
        BY <4>2 DEF Cat!BeingDeleted
      <4> QED BY <2>4, <3>1, <4>3, <4>4, <4>5
    <3>6. /\ slug' \in [Categories -> Slugs \union {"none"}] /\ parent' \in [Categories -> Categories \union {0}]
          /\ place' \in [Categories -> 0..1]
      BY <1>1, <1>14, <1>live, <2>1, <2>4 DEF Cat!Update
    <3>7. lifted' \subseteq slipped' /\ UNCHANGED <<late, listCopy>>
      BY <1>1, <1>14, <2>4 DEF Cat!Update
    <3> QED BY <1>5, <2>4, <3>3, <3>4, <3>5, <3>6, <3>7
  <2> QED BY <1>14, <2>1, <2>2, <2>3, <2>4 DEF Cat!Update
<1>15. ASSUME NEW c \in Managers, Cat!Delete(c) PROVE CatalogInv'
  <2>1. PICK i \in Categories : i = task[c].row /\ Under(i) \subseteq slipped
    BY <1>1, <1>15 DEF Cat!Delete, Sound
  <2>2. /\ slug' = [slug EXCEPT ![i] = "none"] /\ place' = [place EXCEPT ![i] = 0]
        /\ parent' = [j \in Categories |-> IF j = i \/ parent[j] = i THEN 0 ELSE parent[j]]
        /\ lifted' = lifted \union (Cat!Children(i) \ {i})
        /\ Cat!Changed(c) /\ UNCHANGED <<listCopy, late, slipped>>
    BY <1>15, <2>1 DEF Cat!Delete
  <2>3. Cat!Live' = Cat!Live \ {i}
    BY <1>1, <2>1, <2>2 DEF Cat!Live
  <2>4. \A j, k \in Cat!Live' : slug'[j] = slug'[k] => j = k
    BY <1>1, <1>live, <2>2, <2>3
  <2>5. \A j \in Cat!Live' : parent'[j] \in Cat!Live' \union {0}
    BY <1>1, <1>live, <2>2, <2>3
  <2>6. \A k \in Categories : Under(k)' \subseteq Under(k)
    BY <1>1, <1>live, <2>2 DEF Under
  <2>7. \A d \in Managers, k \in Categories :
          d # c /\ task[d].at = "delete" /\ task[d].row = k => Under(k)' \subseteq slipped'
    BY <1>1, <2>2, <2>6 DEF Sound
  <2>8. Cat!Children(i) \ {i} \subseteq Under(i)
    BY DEF Cat!Children, Cat!Live, Under
  <2>9. /\ slug' \in [Categories -> Slugs \union {"none"}] /\ parent' \in [Categories -> Categories \union {0}]
        /\ place' \in [Categories -> 0..1]
    BY <1>1, <2>2
  <2>10. lifted' \subseteq slipped'
    BY <1>1, <2>1, <2>2, <2>8
  <2> QED BY <1>5, <2>2, <2>4, <2>5, <2>7, <2>9, <2>10
<1>16. ASSUME NEW c \in Managers, Cat!Reorder(c) PROVE CatalogInv'
  <2>1. PICK w \in Task : w = task[c] /\ w.at = "reorder" /\ w.todo # <<>>
    BY <1>1, <1>16 DEF Cat!Reorder, Sound
  <2>2. PICK l \in Todo : l = w.todo /\ l # <<>>
    BY <2>1 DEF Task
  <2>3. /\ Head(l) \in Categories /\ Len(l) \in 1..2
        /\ Len(l) # 1 => Tail(l) \in Todo /\ Tail(l) # <<>>
    BY <2>2, TodoLists
  <2>4. /\ place' = IF Head(l) \in Cat!Live THEN [place EXCEPT ![Head(l)] = 2 - Len(l)] ELSE place
        /\ IF Len(l) = 1 THEN Cat!Changed(c) ELSE Cat!GoTo(c, [w EXCEPT !.todo = Tail(l)])
        /\ UNCHANGED <<slug, parent, listCopy, late, lifted, slipped>>
    BY <1>16, <2>1, <2>2 DEF Cat!Reorder
  <2>5. place' \in [Categories -> 0..1]
    <3>1. PICK i \in Categories, n \in 1..2 : i = Head(l) /\ n = Len(l)
      BY <2>3
    <3>2. PICK k \in 0..1 : k = 2 - n
      BY <3>1
    <3>3. place' = IF i \in Cat!Live THEN [place EXCEPT ![i] = k] ELSE place
      BY <2>4, <3>1, <3>2
    <3> QED BY <1>1, <3>3
  <2>6. CASE Len(l) = 1
    BY <1>6, <2>4, <2>5, <2>6
  <2>7. CASE Len(l) # 1
    <3> DEFINE to == [w EXCEPT !.todo = Tail(l)]
    <3>1. to \in Task /\ to.at = "reorder" /\ to.todo # <<>> /\ Cat!GoTo(c, to)
      BY <2>1, <2>3, <2>4, <2>7 DEF Task
    <3> HIDE DEF to
    <3>2. task' \in [Managers -> Task] /\ task'[c] = to /\ \A d \in Managers : d # c => task'[d] = task[d]
      BY <1>2, <3>1
    <3>3. (Cat!Owes(c))' = Cat!Keys
      BY <3>1, <3>2 DEF Cat!Owes, Cat!Keys
    <3>4. CopiesOwed'
      BY <3>3 DEF CopiesOwed, Cat!Keys
    <3>5. \A d \in Managers : (Sound(task[d]))'
      <4>1. TAKE d \in Managers
      <4>2. PICK v \in Task : v = task'[d] /\ Sound(v)
        BY <1>1, <3>1, <3>2 DEF Sound
      <4>3. Under(v.row)' = Under(v.row)
        BY <2>4 DEF Under
      <4>4. Sound(v)'
        BY <2>4, <4>2, <4>3 DEF Sound
      <4> QED BY <4>2, <4>4 DEF Sound, Under
    <3> QED BY <1>1, <2>4, <2>5, <3>2, <3>4, <3>5 DEF CatalogInv, Cat!Live
  <2> QED BY <2>6, <2>7
<1>17. ASSUME NEW c \in Managers, Cat!Count(c) PROVE CatalogInv'
  <2>1. place' \in [Categories -> 0..1]
    <3>1. PICK i \in Cat!Live : place' = [place EXCEPT ![i] = 1 - @]
      BY <1>17 DEF Cat!Count
    <3>2. i \in Categories /\ 1 - place[i] \in 0..1
      BY <1>1, <1>live
    <3> QED BY <1>1, <3>1, <3>2
  <2> QED BY <1>6, <1>17, <2>1 DEF Cat!Count
<1>18. ASSUME NEW c \in Managers, Cat!InvalidateTree(c) PROVE CatalogInv'
  <2>1. PICK idle \in Task : idle = Cat!Idle /\ Sound(idle)
    BY CatalogIdle
  <2> DEFINE to == [idle EXCEPT !.at = "invalidateFlat"]
  <2>2. to \in Task /\ to.at = "invalidateFlat" /\ Cat!GoTo(c, to)
    BY <1>18, <2>1 DEF Task, Cat!InvalidateTree
  <2> HIDE DEF to
  <2>3. Sound(to)
    BY <2>2 DEF Sound
  <2>4. task' \in [Managers -> Task] /\ task'[c] = to /\ \A d \in Managers : d # c => task'[d] = task[d]
    BY <1>2, <2>2
  <2>5. /\ listCopy' = [listCopy EXCEPT !["tree"] = {}] /\ late' = late \ {"tree"}
        /\ UNCHANGED <<slug, parent, place, lifted, slipped>>
    BY <1>18 DEF Cat!InvalidateTree
  <2>6. \A d \in Managers : Cat!Owes(d) \ {"tree"} \subseteq (Cat!Owes(d))'
    BY <2>2, <2>4 DEF Cat!Owes, Cat!Keys
  <2>7. CopiesOwed'
    BY <1>1, <2>5, <2>6 DEF CopiesOwed, Cat!Keys, Cat!Rows
  <2> QED BY <1>1, <1>3, <2>2, <2>3, <2>5, <2>7
<1>19. ASSUME NEW c \in Managers, Cat!InvalidateFlat(c) PROVE CatalogInv'
  <2>1. /\ listCopy' = [listCopy EXCEPT !["flat"] = {}] /\ late' = late \ {"flat"}
        /\ Cat!GoTo(c, Cat!Idle) /\ task[c].at = "invalidateFlat"
        /\ UNCHANGED <<slug, parent, place, lifted, slipped>>
    BY <1>19 DEF Cat!InvalidateFlat
  <2>2. task'[c] = Cat!Idle /\ \A d \in Managers : d # c => task'[d] = task[d]
    BY <1>2, <2>1, CatalogIdle
  <2>3. \A d \in Managers : Cat!Owes(d) \ {"flat"} \subseteq (Cat!Owes(d))'
    BY <2>1, <2>2 DEF Cat!Owes, Cat!Keys
  <2>4. CopiesOwed'
    BY <1>1, <2>1, <2>3 DEF CopiesOwed, Cat!Keys, Cat!Rows
  <2> QED BY <1>1, <1>3, <2>1, <2>4, CatalogIdle
<1>20. ASSUME NEW c \in Managers, Cat!Store(c) PROVE CatalogInv'
  <2>1. PICK w \in Task : w = task[c] /\ w.at = "store" /\ w.key \in Cat!Keys
    BY <1>1, <1>20 DEF Cat!Store, Sound
  <2>2. /\ listCopy' = [listCopy EXCEPT ![w.key] = {w.seen}]
        /\ late' = IF w.seen = Cat!Rows THEN late \ {w.key} ELSE late \union {w.key}
        /\ Cat!GoTo(c, Cat!Idle) /\ UNCHANGED <<slug, parent, place, lifted, slipped>>
    BY <1>20, <2>1 DEF Cat!Store
  <2>3. task'[c] = Cat!Idle /\ \A d \in Managers : d # c => task'[d] = task[d]
    BY <1>2, <2>2, CatalogIdle
  <2>4. \A d \in Managers : Cat!Owes(d) \subseteq (Cat!Owes(d))'
    BY <2>1, <2>3 DEF Cat!Owes, Cat!Keys
  <2>5. PICK now : now = Cat!Rows /\ now = Cat!Rows'
    BY <2>2 DEF Cat!Rows
  <2>6. ASSUME NEW k \in Cat!Keys, listCopy'[k] \ {now} # {}
        PROVE k \in late' \/ \E d \in Managers : k \in (Cat!Owes(d))'
    BY <1>1, <2>1, <2>2, <2>4, <2>5, <2>6 DEF CopiesOwed
  <2>7. CopiesOwed'
    BY <2>5, <2>6 DEF CopiesOwed, Cat!Keys
  <2> QED BY <1>1, <1>3, <2>1, <2>2, <2>7, CatalogIdle
<1>21. ASSUME NEW c \in Managers, Cat!Fail(c) PROVE CatalogInv'
  <2>1. /\ late' = late \union Cat!Owes(c) /\ Cat!GoTo(c, Cat!Idle)
        /\ UNCHANGED <<slug, parent, place, listCopy, lifted, slipped>>
    BY <1>21 DEF Cat!Fail
  <2>2. task'[c] = Cat!Idle /\ \A d \in Managers : d # c => task'[d] = task[d]
    BY <1>2, <2>1, CatalogIdle
  <2>3. \A d \in Managers : d # c => (Cat!Owes(d))' = Cat!Owes(d)
    BY <2>2 DEF Cat!Owes, Cat!Keys
  <2>4. CopiesOwed'
    BY <1>1, <2>1, <2>3 DEF CopiesOwed, Cat!Keys, Cat!Rows
  <2>5. late' \subseteq Cat!Keys
    BY <1>1, <2>1 DEF Cat!Owes, Cat!Keys
  <2> QED BY <1>1, <1>3, <2>1, <2>4, <2>5, CatalogIdle
<1>22. ASSUME NEW k \in Cat!Keys, Cat!Expire(k) PROVE CatalogInv'
  <2>1. /\ listCopy' = [listCopy EXCEPT ![k] = {}] /\ late' = late \ {k}
        /\ UNCHANGED <<slug, parent, place, task, lifted, slipped>>
    BY <1>22 DEF Cat!Expire
  <2>2. CopiesOwed'
    BY <1>1, <2>1 DEF CopiesOwed, Cat!Keys, Cat!Rows, Cat!Owes
  <2> QED BY <1>1, <2>1, <2>2 DEF CatalogInv, Cat!Live, Sound, Under
<1>23. CASE UNCHANGED catalogVars
  BY <1>1, <1>23 DEF catalogVars, CatalogInv, CopiesOwed, Cat!Live, Cat!Owes, Cat!Rows, Sound, Under
<1> QED
  BY <1>7, <1>8, <1>9, <1>10, <1>11, <1>12, <1>13, <1>14, <1>15, <1>16, <1>17, <1>18, <1>19, <1>20,
     <1>21, <1>22, <1>23 DEF Cat!Next

\* Parents, places and the copies of the categories stay accounted for, with what open requests have
\* read (CategoriesService and its invalidateCache).
THEOREM CatalogInvariant == MCSpec => []CatalogInv
BY CatalogInit, CatalogStep, PTL DEF MCSpec

\* A sound table is an explained one.
LEMMA CatalogHold == CatalogInv /\ focus = "catalog" => Cat!CatalogExplained /\ Cat!TypeOK
BY DEF CatalogInv, CopiesOwed, Cat!CatalogExplained, Cat!TypeOK

-----------------------------------------------------------------------------
\* Lists of what is for sale.

\* While the shelves are in focus only they move.
LEMMA ShelvesMove ==
  focus = "shelves" /\ [MCNext]_allVars => focus' = "shelves" /\ [She!Next]_shelfVars
BY DEF MCNext, Others, Rest, allVars

\* A request of the seller, or for a list, and the copy of the popular listings.
Shop ==
  [at : {"idle", "update", "markAsSold", "delete", "answered", "markFavorites", "related", "findPopular",
         "storePopular"},
   list : {"none", "all", "byUser", "one", "related", "compatible", "favorites", "popular"},
   to : {"none", "other", "seller"}, asked : {"none", "draft", "active", "sold", "expired"}, limit : Nat,
   item : SUBSET Items, rows : SUBSET Items, since : SUBSET Items]
PopularCopy == [rows : SUBSET Items, limit : Nat, since : SUBSET Items]

\* Of the rows that are active, the first by their views, but for those that changed since.
Foremost(kept, limit, since, A) ==
  kept \ A \subseteq since /\ (Cardinality(kept) < limit => A \ kept \subseteq since)

\* A list holds what is active, what has changed since, and what was asked for.
Fits(w, A, k) ==
  /\ \A i \in w.rows \ A :
       \/ i \in w.since \/ w.list = "one" \/ (w.list = "all" /\ w.asked # "active")
       \/ (w.list = "byUser" /\ w.to = "seller")
  /\ w.at = "storePopular" => Foremost(w.rows, w.limit, w.since, A)
  /\ w.at \in {"findPopular", "storePopular"} => k = "listing" /\ w.list = "popular"
  /\ w.at \in {"update", "markAsSold"} => k # "service"

ShelvesInv ==
  focus = "shelves" =>
    /\ kind \in {"listing", "part", "service"}
    /\ status \in [Items -> {"none", "draft", "active", "sold", "expired"}] /\ deleted \subseteq Items
    /\ kind = "service" => \A i \in Items : status[i] \in {"none", "active"}
    /\ popular \subseteq PopularCopy /\ (popular # {} => kind = "listing")
    /\ \A p \in popular : Foremost(p.rows, p.limit, p.since, She!Active)
    /\ shopping \in [She!Visitors -> Shop]
    /\ \A c \in She!Visitors : Fits(shopping[c], She!Active, kind)

\* A request that is not open has read no rows.
LEMMA ShelvesIdle ==
  /\ She!Idle \in Shop /\ She!Idle.at = "idle" /\ She!Idle.rows = {} /\ She!Idle.since = {}
  /\ She!Idle.item = {} /\ \A A, k : Fits(She!Idle, A, k)
BY DEF She!Idle, Shop, Fits

\* When a row changes, what was read before is older by it, and still explained.
LEMMA TurnedRequest ==
  ASSUME NEW w \in Shop, NEW i \in Items, NEW A, NEW B, A \ {i} = B \ {i}, NEW k, Fits(w, A, k)
  PROVE  LET v == [w EXCEPT !.since = @ \union {i}] IN v \in Shop /\ Fits(v, B, k)
<1> DEFINE v == [w EXCEPT !.since = @ \union {i}]
<1>1. /\ v \in Shop /\ v.at = w.at /\ v.list = w.list /\ v.to = w.to /\ v.asked = w.asked /\ v.limit = w.limit
      /\ v.rows = w.rows /\ v.since = w.since \union {i}
  BY DEF Shop
<1> HIDE DEF v
<1>2. w.at = "storePopular" => Foremost(w.rows, w.limit, w.since \union {i}, B)
  BY DEF Fits, Foremost
<1>3. Fits(v, B, k)
  BY <1>1, <1>2 DEF Fits
<1>4. v \in Shop /\ Fits(v, B, k)
  BY <1>1, <1>3
<1> QED BY <1>4 DEF v

\* A cached list, too, is older by the row that changed.
LEMMA TurnedCopy ==
  ASSUME NEW p \in PopularCopy, NEW i \in Items, NEW A, NEW B, A \ {i} = B \ {i},
         Foremost(p.rows, p.limit, p.since, A)
  PROVE  LET q == [p EXCEPT !.since = @ \union {i}] IN
         q \in PopularCopy /\ Foremost(q.rows, q.limit, q.since, B)
<1> DEFINE q == [p EXCEPT !.since = @ \union {i}]
<1>1. q \in PopularCopy /\ q.limit = p.limit /\ q.rows = p.rows /\ q.since = p.since \union {i}
  BY DEF PopularCopy
<1> HIDE DEF q
<1>2. q \in PopularCopy /\ Foremost(q.rows, q.limit, q.since, B)
  BY <1>1 DEF Foremost
<1> QED BY <1>2 DEF q

\* The module of the shelves counts as the others do.
LEMMA ShelvesCount == \A S : She!Cardinality(S) = Cardinality(S)
BY DEF She!Cardinality, Cardinality

\* The first rows of a set are some of it, and all of it when they are fewer than asked for.
LEMMA FirstRows ==
  ASSUME NEW A \in SUBSET Items, NEW n \in Nat, NEW some \in She!Top(A, n)
  PROVE  some \subseteq A /\ Foremost(some, n, {}, A)
<1>1. some \in SUBSET A /\ Cardinality(some) = She!Min(n, Cardinality(A))
  BY ShelvesCount DEF She!Top
<1>2. /\ IsFiniteSet(A) /\ Cardinality(A) \in Nat /\ Cardinality(some) \in Nat
      /\ (Cardinality(A) = Cardinality(some) => A = some)
  BY <1>1, ShelvesAssumption, FS_Subset, FS_CardinalityType
<1>3. Cardinality(some) < n => A = some
  <2> DEFINE a == Cardinality(A)  s == Cardinality(some)
  <2>1. a \in Nat /\ s \in Nat /\ s = IF n < a THEN n ELSE a
    BY <1>1, <1>2 DEF She!Min
  <2> HIDE DEF a, s
  <2>2. s < n => a = s
    BY <2>1
  <2> QED BY <1>2, <2>2 DEF a, s
<1> QED BY <1>1, <1>3 DEF Foremost

\* At the start no list has been read.
LEMMA ShelvesInit == MCInit => ShelvesInv
<1> SUFFICES ASSUME MCInit, focus = "shelves" PROVE ShelvesInv
  BY DEF ShelvesInv
<1>1. She!Init
  BY DEF MCInit
<1>2. shopping \in [She!Visitors -> Shop] /\ \A c \in She!Visitors : Fits(shopping[c], She!Active, kind)
  BY <1>1, ShelvesIdle DEF She!Init
<1> QED BY <1>1, <1>2 DEF She!Init, ShelvesInv

\* Every step of a sale, of a list or of the cached one keeps what was read explained by what changed since.
LEMMA ShelvesStep == ShelvesInv /\ [MCNext]_allVars => ShelvesInv'
<1> SUFFICES ASSUME ShelvesInv, focus = "shelves", [She!Next]_shelfVars, focus' = "shelves" PROVE ShelvesInv'
  BY ShelvesMove DEF ShelvesInv, MCNext, Others, Rest, allVars
<1>1. /\ kind \in {"listing", "part", "service"}
      /\ status \in [Items -> {"none", "draft", "active", "sold", "expired"}] /\ deleted \subseteq Items
      /\ kind = "service" => \A i \in Items : status[i] \in {"none", "active"}
      /\ popular \subseteq PopularCopy /\ (popular # {} => kind = "listing")
      /\ \A p \in popular : Foremost(p.rows, p.limit, p.since, She!Active)
      /\ shopping \in [She!Visitors -> Shop]
      /\ \A c \in She!Visitors : Fits(shopping[c], She!Active, kind)
  BY DEF ShelvesInv
<1>rows. /\ She!Live \subseteq Items /\ She!Active \subseteq She!Live
         /\ She!Statuses \subseteq {"draft", "active", "sold", "expired"}
         /\ kind = "service" => She!Statuses = {"active"} /\ She!Live = She!Active
  BY <1>1 DEF She!Live, She!Active, She!Statuses
<1>visitors. Sellers \subseteq She!Visitors /\ Shoppers \subseteq She!Visitors
  BY DEF She!Visitors
\* A request moves, and no row changes.
<1>2. ASSUME NEW c \in She!Visitors, NEW to \in Shop, She!GoTo(c, to), Fits(to, She!Active, kind),
             UNCHANGED <<kind, status, deleted>>, popular' \subseteq PopularCopy, popular' # {} => kind = "listing",
             \A p \in popular' : Foremost(p.rows, p.limit, p.since, She!Active)
      PROVE ShelvesInv'
  <2>1. She!Active' = She!Active
    BY <1>2 DEF She!Active, She!Live
  <2>2. /\ shopping' \in [She!Visitors -> Shop]
        /\ \A d \in She!Visitors : Fits(shopping'[d], She!Active, kind)
    BY <1>1, <1>2 DEF She!GoTo
  <2>3. She!Visitors' = She!Visitors
    BY DEF She!Visitors
  <2>4. kind' = kind /\ status' = status /\ deleted' = deleted
    BY <1>2
  <2>5. \A d \in She!Visitors : Fits(shopping'[d], She!Active', kind')
    BY <2>1, <2>2, <2>4
  <2>6. \A p \in popular' : Foremost(p.rows, p.limit, p.since, She!Active')
    BY <1>2, <2>1
  <2> QED BY <1>1, <1>2, <2>2, <2>3, <2>4, <2>5, <2>6 DEF ShelvesInv
\* Only the row i changes.
<1>3. ASSUME NEW c \in She!Visitors, NEW i \in Items, She!Turn(c, i), kind' = kind,
             status' \in [Items -> {"none", "draft", "active", "sold", "expired"}], deleted' \subseteq Items,
             kind = "service" => \A j \in Items : status'[j] \in {"none", "active"},
             She!Active' \ {i} = She!Active \ {i}
      PROVE ShelvesInv'
  <2>1. PICK A, B : A = She!Active /\ B = She!Active' /\ A \ {i} = B \ {i}
    BY <1>3
  <2>2. \A d \in She!Visitors : shopping'[d] \in Shop /\ Fits(shopping'[d], B, kind)
    <3>1. TAKE d \in She!Visitors
    <3>2. PICK w \in Shop : w = shopping[d] /\ Fits(w, A, kind)
      BY <1>1, <2>1
    <3>3. \/ shopping'[d] = She!Idle
          \/ shopping'[d] = [w EXCEPT !.since = @ \union {i}]
      BY <1>3, <3>2 DEF She!Turn
    <3>4. [w EXCEPT !.since = @ \union {i}] \in Shop /\ Fits([w EXCEPT !.since = @ \union {i}], B, kind)
      BY <2>1, <3>2, TurnedRequest
    <3> QED BY <3>3, <3>4, ShelvesIdle
  <2>3. shopping' \in [She!Visitors -> Shop]
    BY <1>3, <2>2 DEF She!Turn
  <2>4. \A q \in popular' : q \in PopularCopy /\ Foremost(q.rows, q.limit, q.since, B)
    <3>1. TAKE q \in popular'
    <3>2. PICK p \in popular : q = [p EXCEPT !.since = @ \union {i}]
      BY <1>3 DEF She!Turn
    <3>3. p \in PopularCopy /\ Foremost(p.rows, p.limit, p.since, A)
      BY <1>1, <2>1
    <3> QED BY <2>1, <3>2, <3>3, TurnedCopy
  <2>5. popular' # {} => kind' = "listing"
    BY <1>1, <1>3 DEF She!Turn
  <2>6. She!Visitors' = She!Visitors
    BY DEF She!Visitors
  <2>7. \A d \in She!Visitors : Fits(shopping'[d], She!Active', kind')
    BY <1>3, <2>1, <2>2
  <2>8. \A q \in popular' : Foremost(q.rows, q.limit, q.since, She!Active')
    BY <2>1, <2>4
  <2> QED BY <1>1, <1>3, <2>3, <2>4, <2>5, <2>6, <2>7, <2>8 DEF ShelvesInv
<1>turned. ASSUME NEW i \in Items, \A j \in Items : j # i => status'[j] = status[j],
                  deleted' \ {i} = deleted \ {i}
           PROVE She!Active' \ {i} = She!Active \ {i}
  BY <1>turned DEF She!Active, She!Live
\* A list is answered.
<1>4. ASSUME NEW c \in She!Visitors, NEW w \in Shop, NEW marked, She!Answer(c, w, marked), w.at = "idle",
             Fits(w, She!Active, kind), UNCHANGED <<kind, status, deleted, popular>>
      PROVE ShelvesInv'
  <2>1. PICK at \in {"answered", "markFavorites"} : She!GoTo(c, [w EXCEPT !.at = at])
    BY <1>4 DEF She!Answer
  <2> DEFINE to == [w EXCEPT !.at = at]
  <2>2. /\ to \in Shop /\ to.at = at /\ to.list = w.list /\ to.to = w.to /\ to.asked = w.asked
        /\ to.limit = w.limit /\ to.rows = w.rows /\ to.since = w.since /\ She!GoTo(c, to)
    BY <2>1 DEF Shop
  <2> HIDE DEF to
  <2>3. Fits(to, She!Active, kind)
    BY <1>4, <2>2 DEF Fits
  <2> QED BY <1>1, <1>2, <1>4, <2>2, <2>3
<1>5. ASSUME NEW c \in Sellers, She!Create(c) PROVE ShelvesInv'
  <2>1. PICK i \in Items, s \in She!Statuses : status' = [status EXCEPT ![i] = s] /\ She!Turn(c, i)
    BY <1>5 DEF She!Create
  <2>2. kind' = kind /\ deleted' = deleted
    BY <1>5 DEF She!Create
  <2>3. /\ status' \in [Items -> {"none", "draft", "active", "sold", "expired"}]
        /\ kind = "service" => \A j \in Items : status'[j] \in {"none", "active"}
        /\ \A j \in Items : j # i => status'[j] = status[j]
    BY <1>1, <1>rows, <2>1
  <2> QED BY <1>1, <1>3, <1>visitors, <1>turned, <2>1, <2>2, <2>3
<1>6. ASSUME NEW c \in Sellers, She!FindOwn(c) PROVE ShelvesInv'
  <2>1. PICK i \in She!Live, at \in {"update", "markAsSold", "delete"} :
          (kind = "service" => at = "delete") /\ She!GoTo(c, [She!Idle EXCEPT !.at = at, !.item = {i}])
    BY <1>6 DEF She!FindOwn
  <2>2. PICK idle \in Shop : idle = She!Idle /\ idle.rows = {}
    BY ShelvesIdle
  <2>i. PICK it \in SUBSET Items : it = {i}
    BY <1>rows
  <2>go. She!GoTo(c, [idle EXCEPT !.at = at, !.item = it])
    BY <2>1, <2>2, <2>i
  <2> DEFINE to == [idle EXCEPT !.at = at, !.item = it]
  <2>3. to \in Shop /\ to.at = at /\ to.rows = {} /\ She!GoTo(c, to)
    <3>1. to \in Shop
      BY DEF Shop
    <3>2. to.at = at /\ to.rows = {}
      BY <2>2 DEF Shop
    <3> QED BY <2>go, <3>1, <3>2
  <2> HIDE DEF to
  <2>4. Fits(to, She!Active, kind)
    BY <2>1, <2>3 DEF Fits
  <2>5. UNCHANGED <<kind, status, deleted, popular>>
    BY <1>6 DEF She!FindOwn
  <2> QED BY <1>1, <1>2, <1>visitors, <2>3, <2>4, <2>5
<1>7. ASSUME NEW c \in Sellers, She!Update(c) \/ She!MarkAsSold(c) PROVE ShelvesInv'
  <2>1. PICK w \in Shop : w = shopping[c] /\ w.at \in {"update", "markAsSold"} /\ kind # "service"
    BY <1>1, <1>7, <1>visitors DEF She!Update, She!MarkAsSold, Fits
  <2>2. PICK i \in w.item, s \in {"draft", "active", "sold", "expired"} :
          status' = [status EXCEPT ![i] = s] /\ She!Turn(c, i)
    BY <1>7, <1>rows, <2>1 DEF She!Update, She!MarkAsSold
  <2>3. i \in Items /\ kind' = kind /\ deleted' = deleted
    BY <1>7, <2>1 DEF She!Update, She!MarkAsSold, Shop
  <2>4. /\ status' \in [Items -> {"none", "draft", "active", "sold", "expired"}]
        /\ \A j \in Items : j # i => status'[j] = status[j]
    BY <1>1, <2>2, <2>3
  <2> QED BY <1>1, <1>3, <1>visitors, <1>turned, <2>1, <2>2, <2>3, <2>4
<1>8. ASSUME NEW c \in Sellers, She!Delete(c) PROVE ShelvesInv'
  <2>1. PICK i \in shopping[c].item : deleted' = deleted \union {i} /\ She!Turn(c, i)
    BY <1>8 DEF She!Delete
  <2>2. i \in Items /\ kind' = kind /\ status' = status
    BY <1>1, <1>8, <1>visitors DEF She!Delete, Shop
  <2> QED BY <1>1, <1>3, <1>visitors, <1>turned, <2>1, <2>2
<1>9. ASSUME NEW c \in Shoppers, She!FindAll(c) PROVE ShelvesInv'
  <2>1. PICK s \in She!Statuses, some \in SUBSET She!Live :
          (\A i \in some : status[i] = s) /\ She!Answer(c, [She!Idle EXCEPT !.list = "all", !.asked = s, !.rows = some], TRUE)
    BY <1>9 DEF She!FindAll
  <2>2. PICK idle \in Shop : idle = She!Idle /\ idle.at = "idle"
    BY ShelvesIdle
  <2> DEFINE w == [idle EXCEPT !.list = "all", !.asked = s, !.rows = some]
  <2>3. w \in Shop /\ w.at = "idle" /\ w.list = "all" /\ w.asked = s /\ w.rows = some /\ She!Answer(c, w, TRUE)
    BY <1>rows, <2>1, <2>2 DEF Shop
  <2> HIDE DEF w
  <2>4. Fits(w, She!Active, kind)
    BY <2>1, <2>3 DEF Fits, She!Active
  <2> QED BY <1>4, <1>9, <1>visitors, <2>3, <2>4 DEF She!FindAll
<1>10. ASSUME NEW c \in Shoppers, She!GetByUser(c) PROVE ShelvesInv'
  <2>1. PICK to \in {"other", "seller"}, some \in SUBSET Items :
          /\ some = IF to = "seller" \/ kind = "service" THEN She!Live ELSE She!Active
          /\ She!Answer(c, [She!Idle EXCEPT !.list = "byUser", !.to = to, !.rows = some], TRUE)
    BY <1>10, <1>rows DEF She!GetByUser
  <2>2. PICK idle \in Shop : idle = She!Idle /\ idle.at = "idle"
    BY ShelvesIdle
  <2> DEFINE w == [idle EXCEPT !.list = "byUser", !.to = to, !.rows = some]
  <2>3. w \in Shop /\ w.at = "idle" /\ w.list = "byUser" /\ w.to = to /\ w.rows = some /\ She!Answer(c, w, TRUE)
    BY <2>1, <2>2 DEF Shop
  <2> HIDE DEF w
  <2>4. Fits(w, She!Active, kind)
    BY <1>rows, <2>1, <2>3 DEF Fits
  <2> QED BY <1>4, <1>10, <1>visitors, <2>3, <2>4 DEF She!GetByUser
<1>11. ASSUME NEW c \in Shoppers, She!FindOne(c) PROVE ShelvesInv'
  <2>1. PICK some \in SUBSET Items : She!Answer(c, [She!Idle EXCEPT !.list = "one", !.rows = some], TRUE)
    BY <1>11, <1>rows DEF She!FindOne
  <2>2. PICK idle \in Shop : idle = She!Idle /\ idle.at = "idle"
    BY ShelvesIdle
  <2> DEFINE w == [idle EXCEPT !.list = "one", !.rows = some]
  <2>3. w \in Shop /\ w.at = "idle" /\ w.list = "one" /\ She!Answer(c, w, TRUE)
    BY <2>1, <2>2 DEF Shop
  <2> HIDE DEF w
  <2>4. Fits(w, She!Active, kind)
    BY <2>3 DEF Fits
  <2> QED BY <1>4, <1>11, <1>visitors, <2>3, <2>4 DEF She!FindOne
<1>12. ASSUME NEW c \in Shoppers, She!SearchByCompatibility(c) \/ She!GetUserFavorites(c) PROVE ShelvesInv'
  <2>1. PICK list \in {"compatible", "favorites"}, some \in SUBSET She!Active :
          She!Answer(c, [She!Idle EXCEPT !.list = list, !.rows = some], FALSE)
    BY <1>12 DEF She!SearchByCompatibility, She!GetUserFavorites
  <2>2. PICK idle \in Shop : idle = She!Idle /\ idle.at = "idle"
    BY ShelvesIdle
  <2> DEFINE w == [idle EXCEPT !.list = list, !.rows = some]
  <2>3. w \in Shop /\ w.at = "idle" /\ w.rows = some /\ She!Answer(c, w, FALSE)
    BY <1>rows, <2>1, <2>2 DEF Shop
  <2> HIDE DEF w
  <2>4. Fits(w, She!Active, kind)
    BY <2>3 DEF Fits
  <2>5. UNCHANGED <<kind, status, deleted, popular>>
    BY <1>12 DEF She!SearchByCompatibility, She!GetUserFavorites
  <2> QED BY <1>4, <1>visitors, <2>3, <2>4, <2>5
<1>13. ASSUME NEW c \in Shoppers, She!PopularParts(c) PROVE ShelvesInv'
  <2>1. PICK n \in Limits : \E some \in She!Top(She!Active, n) :
          She!Answer(c, [She!Idle EXCEPT !.list = "popular", !.limit = n, !.rows = some], FALSE)
    BY <1>13 DEF She!PopularParts
  <2>top. PICK some \in She!Top(She!Active, n) :
            She!Answer(c, [She!Idle EXCEPT !.list = "popular", !.limit = n, !.rows = some], FALSE)
    BY <2>1
  <2>2. PICK idle \in Shop : idle = She!Idle /\ idle.at = "idle"
    BY ShelvesIdle
  <2>n. n \in Nat /\ some \subseteq She!Active
    BY <1>rows, ShelvesAssumption, FirstRows
  <2> DEFINE w == [idle EXCEPT !.list = "popular", !.limit = n, !.rows = some]
  <2>3. w \in Shop /\ w.at = "idle" /\ w.rows = some /\ She!Answer(c, w, FALSE)
    BY <1>rows, <2>top, <2>2, <2>n DEF Shop
  <2> HIDE DEF w
  <2>4. Fits(w, She!Active, kind)
    BY <2>3, <2>n DEF Fits
  <2> QED BY <1>4, <1>13, <1>visitors, <2>3, <2>4 DEF She!PopularParts
<1>14. ASSUME NEW c \in Shoppers, She!FindForRelated(c) PROVE ShelvesInv'
  <2>1. PICK i \in She!Live : She!GoTo(c, [She!Idle EXCEPT !.at = "related", !.list = "related", !.item = {i}])
    BY <1>14 DEF She!FindForRelated
  <2>2. PICK idle \in Shop : idle = She!Idle /\ idle.rows = {}
    BY ShelvesIdle
  <2>i. PICK it \in SUBSET Items : it = {i}
    BY <1>rows
  <2>go. She!GoTo(c, [idle EXCEPT !.at = "related", !.list = "related", !.item = it])
    BY <2>1, <2>2, <2>i
  <2> DEFINE to == [idle EXCEPT !.at = "related", !.list = "related", !.item = it]
  <2>3. to \in Shop /\ to.at = "related" /\ to.rows = {} /\ She!GoTo(c, to)
    <3>1. to \in Shop
      BY DEF Shop
    <3>2. to.at = "related" /\ to.rows = {}
      BY <2>2 DEF Shop
    <3> QED BY <2>go, <3>1, <3>2
  <2> HIDE DEF to
  <2>4. Fits(to, She!Active, kind)
    BY <2>3 DEF Fits
  <2>5. UNCHANGED <<kind, status, deleted, popular>>
    BY <1>14 DEF She!FindForRelated
  <2> QED BY <1>1, <1>2, <1>visitors, <2>3, <2>4, <2>5
<1>15. ASSUME NEW c \in Shoppers, She!GetRelated(c) PROVE ShelvesInv'
  <2>1. PICK w \in Shop : w = shopping[c]
    BY <1>1, <1>visitors
  <2>2. PICK some \in SUBSET She!Active :
          She!GoTo(c, [w EXCEPT !.at = "answered", !.rows = some, !.since = {}])
    BY <1>15, <2>1 DEF She!GetRelated
  <2> DEFINE to == [w EXCEPT !.at = "answered", !.rows = some, !.since = {}]
  <2>3. to \in Shop /\ to.at = "answered" /\ to.rows = some /\ She!GoTo(c, to)
    BY <1>rows, <2>2 DEF Shop
  <2> HIDE DEF to
  <2>4. Fits(to, She!Active, kind)
    BY <2>3 DEF Fits
  <2>5. UNCHANGED <<kind, status, deleted, popular>>
    BY <1>15 DEF She!GetRelated
  <2> QED BY <1>1, <1>2, <1>visitors, <2>3, <2>4, <2>5
<1>16. ASSUME NEW c \in Shoppers, She!MarkFavorites(c) PROVE ShelvesInv'
  <2>1. PICK w \in Shop : w = shopping[c] /\ Fits(w, She!Active, kind)
    BY <1>1, <1>visitors
  <2> DEFINE to == [w EXCEPT !.at = "answered"]
  <2>2. /\ to \in Shop /\ to.at = "answered" /\ to.list = w.list /\ to.to = w.to /\ to.asked = w.asked
        /\ to.limit = w.limit /\ to.rows = w.rows /\ to.since = w.since /\ She!GoTo(c, to)
    BY <1>16, <2>1 DEF Shop, She!MarkFavorites
  <2> HIDE DEF to
  <2>3. Fits(to, She!Active, kind)
    BY <2>1, <2>2 DEF Fits
  <2>4. UNCHANGED <<kind, status, deleted, popular>>
    BY <1>16 DEF She!MarkFavorites
  <2> QED BY <1>1, <1>2, <1>visitors, <2>2, <2>3, <2>4
<1>17. ASSUME NEW c \in Shoppers, She!Receive(c) PROVE ShelvesInv'
  <2>1. She!GoTo(c, She!Idle) /\ UNCHANGED <<kind, status, deleted, popular>>
    BY <1>17 DEF She!Receive
  <2> QED BY <1>1, <1>2, <1>visitors, <2>1, ShelvesIdle
<1>18. ASSUME NEW c \in Shoppers, She!LookUp(c) PROVE ShelvesInv'
  <2>0. kind = "listing" /\ UNCHANGED <<kind, status, deleted, popular>>
    BY <1>18 DEF She!LookUp
  <2>1. PICK idle \in Shop : idle = She!Idle /\ idle.rows = {}
    BY ShelvesIdle
  <2>2. PICK n \in Nat :
          LET v == [idle EXCEPT !.list = "popular", !.limit = n] IN
          \/ She!GoTo(c, [v EXCEPT !.at = "findPopular"])
          \/ \E p \in popular : She!GoTo(c, [v EXCEPT !.at = "answered", !.rows = p.rows, !.since = p.since])
    BY <1>18, <2>1, ShelvesAssumption DEF She!LookUp
  <2> DEFINE v == [idle EXCEPT !.list = "popular", !.limit = n]
  <2>v. v \in Shop /\ v.list = "popular" /\ v.rows = {}
    BY <2>1 DEF Shop
  <2>go. \/ She!GoTo(c, [v EXCEPT !.at = "findPopular"])
         \/ \E p \in popular : She!GoTo(c, [v EXCEPT !.at = "answered", !.rows = p.rows, !.since = p.since])
    BY <2>2
  <2> HIDE DEF v
  <2>3. CASE She!GoTo(c, [v EXCEPT !.at = "findPopular"])
    <3> DEFINE to == [v EXCEPT !.at = "findPopular"]
    <3>1. to \in Shop /\ to.at = "findPopular" /\ to.list = "popular" /\ to.rows = {} /\ She!GoTo(c, to)
      BY <2>v, <2>3 DEF Shop
    <3> HIDE DEF to
    <3>2. Fits(to, She!Active, kind)
      BY <2>0, <3>1 DEF Fits
    <3> QED BY <1>1, <1>2, <1>visitors, <2>0, <3>1, <3>2
  <2>4. ASSUME NEW p \in popular,
               She!GoTo(c, [v EXCEPT !.at = "answered", !.rows = p.rows, !.since = p.since])
        PROVE ShelvesInv'
    <3>p. PICK some \in SUBSET Items, since \in SUBSET Items :
            some = p.rows /\ since = p.since /\ some \ She!Active \subseteq since
      BY <1>1 DEF PopularCopy, Foremost
    <3> DEFINE to == [v EXCEPT !.at = "answered", !.rows = some, !.since = since]
    <3>1. to \in Shop /\ to.at = "answered" /\ to.rows = some /\ to.since = since /\ She!GoTo(c, to)
      BY <2>v, <2>4, <3>p DEF Shop
    <3> HIDE DEF to
    <3>2. Fits(to, She!Active, kind)
      BY <3>1, <3>p DEF Fits
    <3> QED BY <1>1, <1>2, <1>visitors, <2>0, <3>1, <3>2
  <2> QED BY <2>go, <2>3, <2>4
<1>19. ASSUME NEW c \in Shoppers, She!FindPopular(c) PROVE ShelvesInv'
  <2>1. PICK w \in Shop : w = shopping[c] /\ kind = "listing" /\ w.list = "popular"
    BY <1>1, <1>19, <1>visitors DEF She!FindPopular, Fits
  <2>2. PICK some \in She!Top(She!Active, w.limit) :
          She!GoTo(c, [w EXCEPT !.at = "storePopular", !.rows = some, !.since = {}])
    BY <1>19, <2>1 DEF She!FindPopular
  <2>3. some \subseteq She!Active /\ Foremost(some, w.limit, {}, She!Active)
    <3>1. w.limit \in Nat /\ She!Active \in SUBSET Items
      BY <1>rows DEF Shop
    <3> QED BY <2>2, <3>1, FirstRows
  <2> DEFINE to == [w EXCEPT !.at = "storePopular", !.rows = some, !.since = {}]
  <2>4. /\ to \in Shop /\ to.at = "storePopular" /\ to.list = "popular" /\ to.rows = some /\ to.since = {}
        /\ to.limit = w.limit /\ She!GoTo(c, to)
    BY <1>rows, <2>1, <2>2, <2>3 DEF Shop
  <2> HIDE DEF to
  <2>5. Fits(to, She!Active, kind)
    BY <2>1, <2>3, <2>4 DEF Fits
  <2>6. UNCHANGED <<kind, status, deleted, popular>>
    BY <1>19 DEF She!FindPopular
  <2> QED BY <1>1, <1>2, <1>visitors, <2>4, <2>5, <2>6
<1>20. ASSUME NEW c \in Shoppers, She!StorePopular(c) PROVE ShelvesInv'
  <2>1. PICK w \in Shop : /\ w = shopping[c] /\ w.at = "storePopular" /\ Fits(w, She!Active, kind)
                          /\ kind = "listing" /\ Foremost(w.rows, w.limit, w.since, She!Active)
    BY <1>1, <1>20, <1>visitors DEF She!StorePopular, Fits
  <2>2. /\ popular' = {[rows |-> w.rows, limit |-> w.limit, since |-> w.since]}
        /\ She!GoTo(c, [w EXCEPT !.at = "answered"]) /\ UNCHANGED <<kind, status, deleted>>
    BY <1>20, <2>1 DEF She!StorePopular
  <2> DEFINE to == [w EXCEPT !.at = "answered"]
  <2>3. /\ to \in Shop /\ to.at = "answered" /\ to.list = w.list /\ to.to = w.to /\ to.asked = w.asked
        /\ to.limit = w.limit /\ to.rows = w.rows /\ to.since = w.since /\ She!GoTo(c, to)
    BY <2>1, <2>2 DEF Shop
  <2> HIDE DEF to
  <2>4. Fits(to, She!Active, kind)
    BY <2>1, <2>3 DEF Fits
  <2>5. \A p \in popular' : p \in PopularCopy /\ Foremost(p.rows, p.limit, p.since, She!Active)
    BY <2>1, <2>2 DEF Shop, PopularCopy
  <2> QED BY <1>1, <1>2, <1>visitors, <2>1, <2>2, <2>3, <2>4, <2>5
<1>21. CASE She!DropPopular
  <2>1. popular' = {} /\ UNCHANGED <<kind, status, deleted, shopping>>
    BY <1>21 DEF She!DropPopular
  <2> QED BY <1>1, <2>1 DEF ShelvesInv, She!Active, She!Live, She!Visitors
<1>22. CASE UNCHANGED shelfVars
  BY <1>1, <1>22 DEF shelfVars, ShelvesInv, She!Active, She!Live, She!Visitors
<1> QED
  BY <1>5, <1>6, <1>7, <1>8, <1>9, <1>10, <1>11, <1>12, <1>13, <1>14, <1>15, <1>16, <1>17, <1>18, <1>19,
     <1>20, <1>21, <1>22 DEF She!Next

\* A list that was read, or cached, is of active rows and is full, but for the rows that changed since
\* (ListingsService.findAll, getPopular and their like).
THEOREM ShelvesInvariant == MCSpec => []ShelvesInv
BY ShelvesInit, ShelvesStep, PTL DEF MCSpec

\* The lists that were answered are explained.
LEMMA ShelvesHold == ShelvesInv /\ focus = "shelves" => She!ShelvesExplained /\ She!TypeOK
<1> SUFFICES ASSUME ShelvesInv, focus = "shelves" PROVE She!ShelvesExplained /\ She!TypeOK
  OBVIOUS
<1>1. \A c \in Shoppers : shopping[c] \in Shop /\ Fits(shopping[c], She!Active, kind)
  BY DEF ShelvesInv, She!Visitors
<1>2. \A p \in popular : Foremost(p.rows, p.limit, p.since, She!Active)
  BY DEF ShelvesInv
<1>3. She!ShelvesExplained
  <2>1. ASSUME NEW c \in Shoppers, NEW i \in shopping[c].rows \ She!Active
        PROVE \/ i \in shopping[c].since
              \/ shopping[c].list = "one" \/ (shopping[c].list = "all" /\ shopping[c].asked # "active")
              \/ (shopping[c].list = "byUser" /\ shopping[c].to = "seller")
    BY <1>1 DEF Fits
  <2>2. ASSUME NEW p \in popular
        PROVE /\ p.rows \ She!Active \subseteq p.since
              /\ Cardinality(p.rows) < p.limit => \A i \in She!Active \ p.rows : i \in p.since
    BY <1>2 DEF Foremost
  <2> QED BY <2>1, <2>2, ShelvesCount DEF She!ShelvesExplained
<1>4. She!TypeOK
  BY <1>1 DEF ShelvesInv, She!TypeOK, Shop
<1> QED BY <1>3, <1>4

-----------------------------------------------------------------------------
\* Favourites.

\* While favourites are in focus only they move.
LEMMA FavoritesMove ==
  focus = "favorites" /\ [MCNext]_allVars => focus' = "favorites" /\ [Fav!Next]_favoriteVars
BY DEF MCNext, Others, Rest, allVars

\* A request that is open is about a pair; ids are given once.
Tap ==
  [at : {"idle", "find", "insert", "delete"}, how : {"none", "toggle", "add", "remove"},
   pair : Fav!Pairs \union {<<>>}, row : 0..MaxFavorites]

FavoritesInv ==
  focus = "favorites" =>
    /\ lastId \in 0..MaxFavorites
    /\ favorite \in [Fav!Pairs -> 0..MaxFavorites] /\ told \in [Fav!Pairs -> BOOLEAN]
    /\ \A p \in Fav!Pairs : favorite[p] <= lastId
    /\ \A p, q \in Fav!Pairs : favorite[p] = favorite[q] /\ favorite[p] # 0 => p = q
    /\ tap \in [Taps -> Tap]
    /\ \A c \in Taps : tap[c].at # "idle" => tap[c].pair \in Fav!Pairs
    /\ \A p \in Fav!Pairs : (told[p] <=> favorite[p] # 0) \/ p \in outrun

\* A request that is not open is about no pair.
LEMMA TapIdle == Fav!Idle \in Tap /\ Fav!Idle.at = "idle"
BY FavoritesAssumption DEF Fav!Idle, Tap

\* At the start there are no favourites.
LEMMA FavoritesInit == MCInit => FavoritesInv
<1> SUFFICES ASSUME MCInit, focus = "favorites" PROVE FavoritesInv
  BY DEF FavoritesInv
<1> QED BY FavoritesAssumption, TapIdle DEF MCInit, Fav!Init, FavoritesInv

\* Every step of a toggle, an addition or a removal keeps the pairs accounted for.
LEMMA FavoritesStep == FavoritesInv /\ [MCNext]_allVars => FavoritesInv'
<1> SUFFICES ASSUME FavoritesInv, focus = "favorites", [Fav!Next]_favoriteVars, focus' = "favorites"
             PROVE FavoritesInv'
  BY FavoritesMove DEF FavoritesInv, MCNext, Others, Rest, allVars
<1> USE FavoritesAssumption
<1>1. /\ lastId \in 0..MaxFavorites
      /\ favorite \in [Fav!Pairs -> 0..MaxFavorites] /\ told \in [Fav!Pairs -> BOOLEAN]
      /\ \A p \in Fav!Pairs : favorite[p] <= lastId
      /\ \A p, q \in Fav!Pairs : favorite[p] = favorite[q] /\ favorite[p] # 0 => p = q
      /\ tap \in [Taps -> Tap]
      /\ \A c \in Taps : tap[c].at # "idle" => tap[c].pair \in Fav!Pairs
      /\ \A p \in Fav!Pairs : (told[p] <=> favorite[p] # 0) \/ p \in outrun
  BY DEF FavoritesInv
\* A request goes on; rows and answers change for its pair at most.
<1>2. ASSUME NEW c \in Taps, NEW to \in Tap, Fav!GoTo(c, to), to.at # "idle" => to.pair \in Fav!Pairs
      PROVE /\ tap' \in [Taps -> Tap]
            /\ \A d \in Taps : tap'[d].at # "idle" => tap'[d].pair \in Fav!Pairs
  BY <1>1, <1>2 DEF Fav!GoTo
<1>3. ASSUME NEW c \in Taps, Fav!FindListing(c) PROVE FavoritesInv'
  <2>1. PICK p \in Fav!Pairs, how \in {"toggle", "add", "remove"} :
          Fav!GoTo(c, [Fav!Idle EXCEPT !.at = "find", !.how = how, !.pair = p])
    BY <1>3 DEF Fav!FindListing
  <2>2. PICK idle \in Tap : idle = Fav!Idle
    BY TapIdle
  <2> DEFINE to == [idle EXCEPT !.at = "find", !.how = how, !.pair = p]
  <2>3. to \in Tap /\ to.pair = p
    BY <2>2 DEF Tap
  <2>4. Fav!GoTo(c, to)
    BY <2>1, <2>2
  <2> HIDE DEF to
  <2>5. /\ tap' \in [Taps -> Tap]
        /\ \A d \in Taps : tap'[d].at # "idle" => tap'[d].pair \in Fav!Pairs
    BY <1>2, <2>3, <2>4
  <2> QED BY <1>1, <1>3, <2>5 DEF Fav!FindListing, FavoritesInv
<1>4. ASSUME NEW c \in Taps, tap[c].at # "idle", NEW is \in BOOLEAN, Fav!Answer(c, is),
             lastId' \in 0..MaxFavorites, lastId <= lastId',
             favorite' \in [Fav!Pairs -> 0..MaxFavorites],
             \A p \in Fav!Pairs : p # tap[c].pair => favorite'[p] = favorite[p] /\ (p \in outrun' <=> p \in outrun),
             favorite'[tap[c].pair] \in {0, favorite[tap[c].pair]} \/ favorite'[tap[c].pair] > lastId,
             favorite'[tap[c].pair] <= lastId',
             (is <=> favorite'[tap[c].pair] # 0) \/ tap[c].pair \in outrun'
      PROVE FavoritesInv'
  <2>1. PICK p \in Fav!Pairs : p = tap[c].pair
    BY <1>1, <1>4
  <2>2. /\ tap' \in [Taps -> Tap]
        /\ \A d \in Taps : tap'[d].at # "idle" => tap'[d].pair \in Fav!Pairs
    BY <1>2, <1>4, TapIdle DEF Fav!Answer
  <2>3. told' \in [Fav!Pairs -> BOOLEAN] /\ told'[p] = is /\ \A q \in Fav!Pairs : q # p => told'[q] = told[q]
    BY <1>1, <1>4, <2>1 DEF Fav!Answer
  <2>4. \A q \in Fav!Pairs : (told'[q] <=> favorite'[q] # 0) \/ q \in outrun'
    BY <1>1, <1>4, <2>1, <2>3
  <2>5. \A q \in Fav!Pairs : favorite'[q] <= lastId'
    <3>1. ASSUME NEW q \in Fav!Pairs PROVE favorite'[q] <= lastId'
      <4>1. favorite[q] \in Nat /\ lastId \in Nat /\ lastId' \in Nat /\ favorite[q] <= lastId
        BY <1>1, <1>4
      <4> QED BY <4>1, <1>4, <2>1
    <3> QED BY <3>1
  <2>6. ASSUME NEW q \in Fav!Pairs, NEW r \in Fav!Pairs, favorite'[q] = favorite'[r], favorite'[q] # 0
        PROVE q = r
    <3>1. /\ favorite[q] \in Nat /\ favorite[r] \in Nat /\ lastId \in Nat /\ favorite[q] <= lastId
          /\ favorite[r] <= lastId /\ favorite'[q] \in Nat /\ favorite'[r] \in Nat
      BY <1>1, <1>4
    <3> QED BY <1>1, <1>4, <2>1, <2>6, <3>1
  <2> QED BY <1>4, <2>2, <2>3, <2>4, <2>5, <2>6 DEF FavoritesInv
<1>5. ASSUME NEW c \in Taps, Fav!FindFavorite(c) PROVE FavoritesInv'
  <2>1. PICK w \in Tap : w = tap[c] /\ w.at = "find" /\ w.pair \in Fav!Pairs
    BY <1>1, <1>5 DEF Fav!FindFavorite
  <2>2. UNCHANGED <<listed, favorite, lastId>> /\ favorite[w.pair] \in 0..MaxFavorites
    BY <1>1, <1>5, <2>1 DEF Fav!FindFavorite
  <2>3. CASE Fav!GoTo(c, [w EXCEPT !.at = "insert"]) /\ UNCHANGED <<told, outrun>>
    <3> DEFINE to == [w EXCEPT !.at = "insert"]
    <3>1. to \in Tap /\ to.pair = w.pair
      BY <2>1 DEF Tap
    <3>2. Fav!GoTo(c, to)
      BY <2>3
    <3> HIDE DEF to
    <3> QED BY <1>1, <1>2, <2>1, <2>2, <2>3, <3>1, <3>2 DEF FavoritesInv
  <2>4. CASE Fav!GoTo(c, Fav!Idle) /\ UNCHANGED <<told, outrun>>
    BY <1>1, <1>2, TapIdle, <2>2, <2>4 DEF FavoritesInv
  <2>5. CASE favorite[w.pair] # 0 /\ Fav!Answer(c, TRUE) /\ outrun' = outrun \ {w.pair}
    <3>1. lastId' \in 0..MaxFavorites /\ lastId <= lastId' /\ favorite' = favorite /\ tap[c].at # "idle"
      BY <1>1, <2>1, <2>2
    <3>2. favorite[w.pair] <= lastId' /\ (TRUE <=> favorite'[w.pair] # 0)
      BY <1>1, <2>1, <2>2, <2>5
    <3>3. \A p \in Fav!Pairs : p # w.pair => (p \in outrun' <=> p \in outrun)
      BY <2>5
    <3> QED BY <1>1, <1>4, <2>1, <2>5, <3>1, <3>2, <3>3
  <2>6. CASE Fav!GoTo(c, [w EXCEPT !.at = "delete", !.row = favorite[w.pair]]) /\ UNCHANGED <<told, outrun>>
    <3> DEFINE to == [w EXCEPT !.at = "delete", !.row = favorite[w.pair]]
    <3>1. to \in Tap /\ to.pair = w.pair
      BY <2>1, <2>2 DEF Tap
    <3>2. Fav!GoTo(c, to)
      BY <2>6
    <3> HIDE DEF to
    <3> QED BY <1>1, <1>2, <2>1, <2>2, <2>6, <3>1, <3>2 DEF FavoritesInv
  <2> QED BY <1>5, <2>1, <2>3, <2>4, <2>5, <2>6 DEF Fav!FindFavorite
<1>6. ASSUME NEW c \in Taps, Fav!Insert(c) PROVE FavoritesInv'
  <2>1. PICK w \in Tap : w = tap[c] /\ w.at = "insert" /\ w.pair \in Fav!Pairs
    BY <1>1, <1>6 DEF Fav!Insert
  <2>2. CASE favorite[w.pair] # 0
    BY <1>1, <1>2, <1>6, <2>1, <2>2, TapIdle DEF Fav!Insert, FavoritesInv
  <2>3. CASE favorite[w.pair] = 0
    <3>1. /\ lastId < MaxFavorites /\ lastId' = lastId + 1
          /\ favorite' = [favorite EXCEPT ![w.pair] = lastId + 1]
          /\ Fav!Answer(c, TRUE) /\ outrun' = outrun \ {w.pair}
      BY <1>6, <2>1, <2>3 DEF Fav!Insert
    <3>2. lastId \in Nat /\ lastId' \in 0..MaxFavorites /\ lastId <= lastId' /\ lastId + 1 > lastId /\ lastId + 1 # 0
      BY <1>1, <3>1
    <3>3. favorite' \in [Fav!Pairs -> 0..MaxFavorites] /\ favorite'[w.pair] = lastId + 1
          /\ \A p \in Fav!Pairs : p # w.pair => favorite'[p] = favorite[p]
      BY <1>1, <2>1, <3>1, <3>2
    <3>4. \A p \in Fav!Pairs : p # w.pair => (p \in outrun' <=> p \in outrun)
      BY <3>1
    <3>5. favorite'[w.pair] > lastId /\ favorite'[w.pair] <= lastId' /\ (TRUE <=> favorite'[w.pair] # 0)
      BY <3>1, <3>2, <3>3
    <3>6. tap[c].at # "idle"
      BY <2>1
    <3> QED BY <1>4, <2>1, <3>1, <3>2, <3>3, <3>4, <3>5, <3>6
  <2> QED BY <2>2, <2>3
<1>7. ASSUME NEW c \in Taps, Fav!Delete(c) PROVE FavoritesInv'
  <2>1. PICK w \in Tap : w = tap[c] /\ w.at = "delete" /\ w.pair \in Fav!Pairs
    BY <1>1, <1>7 DEF Fav!Delete
  <2>2. /\ favorite' = IF favorite[w.pair] = w.row THEN [favorite EXCEPT ![w.pair] = 0] ELSE favorite
        /\ Fav!Answer(c, FALSE) /\ lastId' = lastId
        /\ outrun' = IF favorite[w.pair] \in {0, w.row} THEN outrun \ {w.pair} ELSE outrun \union {w.pair}
    BY <1>7, <2>1 DEF Fav!Delete
  <2>3. lastId \in Nat /\ lastId' \in 0..MaxFavorites /\ lastId <= lastId' /\ 0 <= lastId'
        /\ favorite[w.pair] <= lastId'
    BY <1>1, <2>1, <2>2
  <2>4. favorite' \in [Fav!Pairs -> 0..MaxFavorites]
        /\ \A p \in Fav!Pairs : p # w.pair => favorite'[p] = favorite[p]
    BY <1>1, <2>1, <2>2
  <2>5. /\ favorite'[w.pair] \in {0, favorite[w.pair]}
        /\ favorite'[w.pair] # 0 => w.pair \in outrun'
    BY <1>1, <2>1, <2>2
  <2>6. \A p \in Fav!Pairs : p # w.pair => (p \in outrun' <=> p \in outrun)
    BY <2>2
  <2> QED BY <1>4, <2>1, <2>2, <2>3, <2>4, <2>5, <2>6
<1>8. ASSUME NEW l \in Listings, Fav!SoftDelete(l) PROVE FavoritesInv'
  BY <1>1, <1>8 DEF Fav!SoftDelete, FavoritesInv
<1>9. ASSUME NEW c \in Taps, Fav!Fail(c) PROVE FavoritesInv'
  BY <1>1, <1>2, <1>9, TapIdle DEF Fav!Fail, FavoritesInv
<1>10. CASE UNCHANGED favoriteVars
  BY <1>1, <1>10 DEF FavoritesInv, favoriteVars
<1> QED
  BY <1>3, <1>5, <1>6, <1>7, <1>8, <1>9, <1>10 DEF Fav!Next

\* Favourites are what their users were told.
LEMMA FavoritesHold == FavoritesInv /\ focus = "favorites" => Fav!FavoritesExplained
BY DEF FavoritesInv, Fav!FavoritesExplained

\* A pair has one row at most, and what its user was told last is what the table says unless requests
\* for it overlapped (FavoritesService.toggle, add and remove).
THEOREM FavoritesInvariant == MCSpec => []FavoritesInv
BY FavoritesInit, FavoritesStep, PTL DEF MCSpec

-----------------------------------------------------------------------------
\* The schema.

\* While the schema is in focus only it moves.
LEMMA SchemaMoves ==
  focus = "schema" /\ [MCNext]_allVars => focus' = "schema" /\ [Mig!Next]_migrationVars
BY DEF MCNext, Others, Rest, allVars

\* A migration makes what refers to something of another one.
Needs(m, n) == Mig!References(Mig!Made(m)) \intersect Mig!Made(n) # {}

\* The migrations and their reversals are sequences of statements.
LEMMA Scripts ==
  /\ Len(Mig!Up) \in Nat /\ DOMAIN Mig!Up = 1..Len(Mig!Up)
  /\ \A m \in DOMAIN Mig!Up :
       /\ m \in Nat /\ m > 0 /\ \A n \in 1..(m - 1) : n \in DOMAIN Mig!Up
       /\ Mig!Up[m] \in Seq(Mig!Statement) /\ Mig!Down[m] \in Seq(Mig!Statement)
       /\ Mig!UpInOrder(m) /\ Mig!DownInOrder(m)
<1>1. /\ Mig!Up \in Seq(Seq(Mig!Statement)) /\ Mig!Down \in Seq(Seq(Mig!Statement))
      /\ Len(Mig!Down) = Len(Mig!Up) /\ \A m \in DOMAIN Mig!Up : Mig!UpInOrder(m) /\ Mig!DownInOrder(m)
  BY SchemaAssumption DEF Mig!WellFormed
<1>2. Len(Mig!Up) \in Nat /\ DOMAIN Mig!Up = 1..Len(Mig!Up) /\ DOMAIN Mig!Down = 1..Len(Mig!Up)
  BY <1>1
<1>3. ASSUME NEW m \in DOMAIN Mig!Up
      PROVE /\ m \in Nat /\ m > 0 /\ \A n \in 1..(m - 1) : n \in DOMAIN Mig!Up
            /\ Mig!Up[m] \in Seq(Mig!Statement) /\ Mig!Down[m] \in Seq(Mig!Statement)
  BY <1>1, <1>2
<1> QED BY <1>1, <1>2, <1>3

\* One statement more.
LEMMA OneMore ==
  ASSUME NEW m \in DOMAIN Mig!Up
  PROVE /\ \A k \in 0..(Len(Mig!Up[m]) - 1) : LET s == Mig!Up[m][k + 1] IN
             Mig!MadeBy(m, k + 1) = Mig!MadeBy(m, k) \union (IF s.do # "alter" THEN {s.what} ELSE {})
        /\ \A k \in 0..(Len(Mig!Down[m]) - 1) : LET s == Mig!Down[m][k + 1] IN
             Mig!DroppedBy(m, k + 1) = Mig!DroppedBy(m, k) \union (IF s.do = "drop" THEN {s.what} ELSE {})
        /\ Mig!MadeBy(m, 0) = {} /\ Mig!DroppedBy(m, 0) = {}
<1>1. Len(Mig!Up[m]) \in Nat /\ Len(Mig!Down[m]) \in Nat
  BY Scripts
<1>2. ASSUME NEW k \in 0..(Len(Mig!Up[m]) - 1)
      PROVE LET s == Mig!Up[m][k + 1] IN
            Mig!MadeBy(m, k + 1) = Mig!MadeBy(m, k) \union (IF s.do # "alter" THEN {s.what} ELSE {})
  <2>1. k \in Nat /\ 1..(k + 1) = (1..k) \union {k + 1}
    BY <1>1
  <2> QED BY <2>1 DEF Mig!MadeBy
<1>3. ASSUME NEW k \in 0..(Len(Mig!Down[m]) - 1)
      PROVE LET s == Mig!Down[m][k + 1] IN
            Mig!DroppedBy(m, k + 1) = Mig!DroppedBy(m, k) \union (IF s.do = "drop" THEN {s.what} ELSE {})
  <2>1. k \in Nat /\ 1..(k + 1) = (1..k) \union {k + 1}
    BY <1>1
  <2> QED BY <2>1 DEF Mig!DroppedBy
<1>4. Mig!MadeBy(m, 0) = {} /\ Mig!DroppedBy(m, 0) = {}
  BY DEF Mig!MadeBy, Mig!DroppedBy
<1> QED BY <1>2, <1>3, <1>4

\* What makes an object stands in some migration.
LEMMA Makers ==
  \A s \in Mig!Statements : \E m \in DOMAIN Mig!Up : \E i \in DOMAIN Mig!Up[m] :
    s = Mig!Up[m][i] /\ s.do \in {"create", "ensure"}
BY DEF Mig!Statements, Mig!ToSet

\* What they refer to is named.
LEMMA MakersTyped == \A s \in Mig!Statements : s \in Mig!Statement /\ s.refs \subseteq STRING
<1> SUFFICES ASSUME NEW s \in Mig!Statements PROVE s \in Mig!Statement
  BY DEF Mig!Statement
<1>1. PICK m \in DOMAIN Mig!Up : \E i \in DOMAIN Mig!Up[m] : s = Mig!Up[m][i]
  BY Makers
<1>2. PICK i \in DOMAIN Mig!Up[m] : s = Mig!Up[m][i]
  BY <1>1
<1> QED BY <1>2, Scripts

\* The converse.
LEMMA MakersAre ==
  ASSUME NEW m \in DOMAIN Mig!Up, NEW i \in DOMAIN Mig!Up[m], Mig!Up[m][i].do \in {"create", "ensure"}
  PROVE Mig!Up[m][i] \in Mig!Statements
BY DEF Mig!Statements, Mig!ToSet

\* An object is made by one statement, and what that refers to is what the object
\* refers to.
LEMMA RefersTo ==
  ASSUME NEW m \in DOMAIN Mig!Up, NEW i \in DOMAIN Mig!Up[m], Mig!Up[m][i].do \in {"create", "ensure"}
  PROVE Mig!References({Mig!Up[m][i].what}) = Mig!Up[m][i].refs
<1>1. PICK s \in Mig!Statements : s = Mig!Up[m][i]
  BY MakersAre
<1>2. ASSUME NEW t \in Mig!Statements, t.what = s.what PROVE t.refs = s.refs
  <2>1. PICK n \in DOMAIN Mig!Up : \E j \in DOMAIN Mig!Up[n] : t = Mig!Up[n][j] /\ t.do \in {"create", "ensure"}
    BY Makers
  <2>j. PICK j \in DOMAIN Mig!Up[n] : t = Mig!Up[n][j] /\ t.do \in {"create", "ensure"}
    BY <2>1
  <2>2. CASE s.do = "create"
    <3>1. t.do = "create"
      BY <1>1, <1>2, <2>j, <2>2, Scripts DEF Mig!UpInOrder
    <3> QED BY <1>1, <1>2, <2>j, <2>2, <3>1, Scripts DEF Mig!UpInOrder
  <2>3. CASE s.do = "ensure"
    <3>1. t.do = "ensure"
      BY <1>1, <1>2, <2>j, <2>3, Scripts DEF Mig!UpInOrder
    <3> QED BY <1>1, <1>2, <2>j, <2>3, <3>1, Scripts DEF Mig!UpInOrder
  <2> QED BY <1>1, <2>2, <2>3
<1> QED BY <1>1, <1>2 DEF Mig!References

\* References of more objects are more.
LEMMA ReferencesOf ==
  /\ \A A, B : Mig!References(A \union B) = Mig!References(A) \union Mig!References(B)
  /\ \A A, B : A \subseteq B => Mig!References(A) \subseteq Mig!References(B)
  /\ Mig!References({}) = {}
BY DEF Mig!References

\* A table is of one migration, and the extension of none; the extension refers to
\* nothing; all that the statements of a migration make, new ones apart, is the extension.
LEMMA MadeOnce ==
  /\ \A m, n \in DOMAIN Mig!Up : m # n => Mig!Made(m) \intersect Mig!Made(n) = {}
  /\ \A m \in DOMAIN Mig!Up : Mig!Made(m) # {} /\ "uuid-ossp" \notin Mig!Made(m)
  /\ Mig!References({"uuid-ossp"}) = {}
  /\ \A m \in DOMAIN Mig!Up : \A k \in 0..Len(Mig!Up[m]) :
       Mig!MadeBy(m, k) \subseteq Mig!Made(m) \union {"uuid-ossp"}
  /\ \A m \in DOMAIN Mig!Up : Mig!Made(m) \subseteq Mig!MadeBy(m, Len(Mig!Up[m]))
<1>1. ASSUME NEW m \in DOMAIN Mig!Up, NEW o \in Mig!Made(m)
      PROVE \E i \in DOMAIN Mig!Up[m] : Mig!Up[m][i].do = "create" /\ Mig!Up[m][i].what = o
  BY DEF Mig!Made, Mig!ToSet
<1>2. \A m, n \in DOMAIN Mig!Up : m # n => Mig!Made(m) \intersect Mig!Made(n) = {}
  BY <1>1, Scripts DEF Mig!UpInOrder
<1>3. \A m \in DOMAIN Mig!Up : Mig!Made(m) # {} /\ "uuid-ossp" \notin Mig!Made(m)
  BY <1>1, Scripts DEF Mig!UpInOrder
<1>4. Mig!References({"uuid-ossp"}) = {}
  <2>1. PICK s \in Mig!Statements : s.what = "uuid-ossp"
    BY SchemaAssumption DEF Mig!WellFormed
  <2>m. PICK m \in DOMAIN Mig!Up : \E i \in DOMAIN Mig!Up[m] : s = Mig!Up[m][i] /\ s.do \in {"create", "ensure"}
    BY Makers
  <2>2. PICK i \in DOMAIN Mig!Up[m] : s = Mig!Up[m][i] /\ s.do \in {"create", "ensure"}
    BY <2>m
  <2>3. s.refs = {}
    BY <2>1, <2>2, Scripts DEF Mig!UpInOrder
  <2> QED BY <2>1, <2>2, <2>3, RefersTo
<1>5. ASSUME NEW m \in DOMAIN Mig!Up, NEW k \in 0..Len(Mig!Up[m])
      PROVE Mig!MadeBy(m, k) \subseteq Mig!Made(m) \union {"uuid-ossp"}
  <2>1. ASSUME NEW i \in 1..k, Mig!Up[m][i].do # "alter"
        PROVE Mig!Up[m][i].what \in Mig!Made(m) \union {"uuid-ossp"}
    <3>1. i \in DOMAIN Mig!Up[m] /\ Mig!Up[m][i] \in Mig!Statement
      BY Scripts
    <3>2. Mig!Up[m][i].do \in {"create", "ensure"}
      BY <2>1, <3>1, Scripts DEF Mig!UpInOrder, Mig!Statement
    <3> QED BY <3>1, <3>2, Scripts DEF Mig!UpInOrder, Mig!Made, Mig!ToSet
  <2> QED BY <2>1 DEF Mig!MadeBy
<1>6. ASSUME NEW m \in DOMAIN Mig!Up PROVE Mig!Made(m) \subseteq Mig!MadeBy(m, Len(Mig!Up[m]))
  <2>1. DOMAIN Mig!Up[m] = 1..Len(Mig!Up[m])
    BY Scripts
  <2> QED BY <1>1, <2>1 DEF Mig!MadeBy
<1> QED BY <1>2, <1>3, <1>4, <1>5, <1>6

\* A migration needs only earlier ones.
LEMMA NeedsEarlier == \A m, n \in DOMAIN Mig!Up : m # n /\ Needs(m, n) => n < m
<1> SUFFICES ASSUME NEW m \in DOMAIN Mig!Up, NEW n \in DOMAIN Mig!Up, m # n, Needs(m, n) PROVE n < m
  OBVIOUS
<1>1. PICK s \in Mig!Statements : s.what \in Mig!Made(m) /\ s.refs \intersect Mig!Made(n) # {}
  BY DEF Needs, Mig!References
<1>k. PICK k \in DOMAIN Mig!Up : \E i \in DOMAIN Mig!Up[k] : s = Mig!Up[k][i] /\ s.do \in {"create", "ensure"}
  BY Makers
<1>2. PICK i \in DOMAIN Mig!Up[k] : s = Mig!Up[k][i] /\ s.do \in {"create", "ensure"}
  BY <1>k
<1>3. s.do = "create" /\ s.refs \subseteq Mig!MadeBy(k, i - 1) \union UNION {Mig!Made(j) : j \in 1..(k - 1)}
  BY <1>1, <1>2, MadeOnce, Scripts DEF Mig!UpInOrder
<1>4. k = m
  <2>1. s.what \in Mig!Made(k)
    BY <1>2, <1>3 DEF Mig!Made, Mig!ToSet
  <2> QED BY <1>1, <2>1, MadeOnce
<1>5. PICK o \in s.refs : o \in Mig!Made(n)
  BY <1>1
<1>6. o \notin Mig!MadeBy(m, i - 1)
  <2>1. i - 1 \in 0..Len(Mig!Up[m])
    BY <1>2, <1>4, Scripts
  <2> QED BY <1>5, <2>1, MadeOnce
<1>7. PICK j \in 1..(m - 1) : o \in Mig!Made(j)
  BY <1>3, <1>4, <1>5, <1>6
<1>8. j \in DOMAIN Mig!Up /\ j = n
  BY <1>5, <1>7, MadeOnce, Scripts
<1> QED BY <1>7, <1>8, Scripts

\* A command, with what it may hold.
Command ==
  [dir : {"none", "up", "down"}, todo : SUBSET (DOMAIN Mig!Up), now : Nat, at : Nat,
   ran : Seq(DOMAIN Mig!Up), adds : SUBSET STRING, drops : SUBSET STRING, held : SUBSET STRING,
   late : BOOLEAN]

\* What a list of migrations makes, each of them whole.
Built(ms) == UNION {Mig!MadeBy(m, Len(Mig!Up[m])) : m \in Mig!ToSet(ms)}

\* The tables are those of the migrations done, which stand in an order in which what
\* they need comes first.
SchemaOfRows(tables, list) ==
  /\ list \in Seq(DOMAIN Mig!Up)
  /\ \A i, j \in DOMAIN list : i < j => list[i] # list[j] /\ ~Needs(list[i], list[j])
  /\ tables \ {"uuid-ossp"} = UNION {Mig!Made(m) : m \in Mig!ToSet(list)}
  /\ Mig!References(tables) \subseteq tables

\* A command that runs migrations has made what those it has run and its current one
\* make so far, has locked it and what it refers to, and is alone with it; unless
\* another has committed, the migrations before its current one are done or run.
GoesUp(w, tables, list) ==
  /\ w.now \in Mig!Oldest(w.todo) /\ w.at \in 0..Len(Mig!Up[w.now])
  /\ \A i \in DOMAIN w.ran : w.ran[i] < w.now
  /\ \A i, j \in DOMAIN w.ran : i < j => w.ran[i] < w.ran[j]
  /\ w.adds = Built(w.ran) \union Mig!MadeBy(w.now, w.at) /\ w.drops = {}
  /\ w.adds \union Mig!References(w.adds) \subseteq w.held
  /\ (w.adds \ {"uuid-ossp"}) \intersect tables = {}
  /\ Mig!References(w.adds) \subseteq tables \union w.adds
  /\ ~w.late => /\ DOMAIN Mig!Up \subseteq Mig!ToSet(list) \union Mig!ToSet(w.ran) \union w.todo
                /\ w.todo \intersect Mig!ToSet(list) = {}

\* One that reverts has dropped what its migration drops so far, and nothing refers to
\* that any more; unless another has committed, its migration is the one run last.
GoesDown(w, tables, list) ==
  /\ w.now \in DOMAIN Mig!Up /\ w.todo = {w.now} /\ w.at \in 0..Len(Mig!Down[w.now])
  /\ w.adds = {} /\ w.drops = Mig!DroppedBy(w.now, w.at)
  /\ w.drops \subseteq w.held /\ w.drops \subseteq tables
  /\ Mig!References(tables \ w.drops) \intersect w.drops = {}
  /\ ~w.late => list # <<>> /\ w.now = Mig!Last(list)

Obeys(w, tables, list) ==
  /\ w \in Command
  /\ w.dir = "none" => w.held = {}
  /\ w.dir = "up" => GoesUp(w, tables, list)
  /\ w.dir = "down" => GoesDown(w, tables, list)

SchemaInv ==
  focus = "schema" =>
    /\ overlaps \in 0..MaxOverlaps
    /\ SchemaOfRows(objects, done)
    /\ runner \in [Runners -> Command]
    /\ \A r \in Runners : Obeys(runner[r], objects, done)
    /\ \A r, q \in Runners : r # q => runner[r].held \intersect runner[q].held = {}

\* A command that is over holds nothing.
LEMMA OverIsCommand ==
  LET w == Mig!Over IN
  /\ w \in Command /\ w.dir = "none" /\ w.at = 0 /\ w.ran = <<>> /\ w.adds = {} /\ w.drops = {}
  /\ w.held = {} /\ w.late = FALSE
BY DEF Mig!Over, Command

\* At the start there are no tables.
LEMMA SchemaInit == MCInit => SchemaInv
<1> SUFFICES ASSUME Mig!Init PROVE SchemaInv
  BY DEF MCInit
<1>1. objects = {} /\ done = <<>> /\ overlaps = 0 /\ runner = [r \in Runners |-> Mig!Over]
  BY DEF Mig!Init
<1>2. SchemaOfRows(objects, done)
  BY <1>1, ReferencesOf DEF SchemaOfRows, Mig!ToSet
<1>3. \A r \in Runners : runner[r] = Mig!Over
  BY <1>1
<1> QED BY <1>1, <1>2, <1>3, OverIsCommand, MigrationsAssumption DEF SchemaInv, Obeys

\* What a list of migrations makes with one more at its end.
LEMMA BuiltMore ==
  ASSUME NEW ms \in Seq(DOMAIN Mig!Up), NEW m \in DOMAIN Mig!Up
  PROVE /\ Append(ms, m) \in Seq(DOMAIN Mig!Up)
        /\ Mig!ToSet(Append(ms, m)) = Mig!ToSet(ms) \union {m}
        /\ Built(Append(ms, m)) = Built(ms) \union Mig!MadeBy(m, Len(Mig!Up[m]))
<1>1. Mig!ToSet(Append(ms, m)) = Mig!ToSet(ms) \union {m}
  <2>1. DOMAIN Append(ms, m) = DOMAIN ms \union {Len(ms) + 1}
    OBVIOUS
  <2>2. \A i \in DOMAIN ms : Append(ms, m)[i] = ms[i]
    OBVIOUS
  <2>3. Append(ms, m)[Len(ms) + 1] = m
    OBVIOUS
  <2> QED BY <2>1, <2>2, <2>3 DEF Mig!ToSet
<1> QED BY <1>1 DEF Built

\* The tables of a list of migrations are what it makes but the extension.
LEMMA BuiltTables ==
  ASSUME NEW ms \in Seq(DOMAIN Mig!Up)
  PROVE Built(ms) \ {"uuid-ossp"} = UNION {Mig!Made(m) : m \in Mig!ToSet(ms)}
<1>1. \A m \in Mig!ToSet(ms) : m \in DOMAIN Mig!Up /\ Len(Mig!Up[m]) \in 0..Len(Mig!Up[m])
  BY Scripts DEF Mig!ToSet
<1>2. \A m \in Mig!ToSet(ms) :
        Mig!MadeBy(m, Len(Mig!Up[m])) \ {"uuid-ossp"} = Mig!Made(m)
  BY <1>1, MadeOnce
<1> QED BY <1>2 DEF Built

\* A command as it is after a statement.
After(w) ==
  LET s == Mig!Upcoming(w) IN
  [w EXCEPT !.at = @ + 1, !.held = @ \union Mig!Locks(s),
            !.adds = CASE s.do \in {"create", "ensure"} -> @ \union {s.what}
                       [] s.do = "drop" -> @ \ {s.what} [] OTHER -> @,
            !.drops = IF s.do = "drop" THEN @ \union {s.what} ELSE @ \ {s.what}]

\* The next statement of a command that goes up is one of its migration.
LEMMA UpcomingUp ==
  ASSUME NEW w \in Command, w.dir = "up", GoesUp(w, objects, done), Mig!MoreToDo(w)
  PROVE /\ w.now \in DOMAIN Mig!Up /\ w.at \in 0..(Len(Mig!Up[w.now]) - 1) /\ w.at + 1 \in DOMAIN Mig!Up[w.now]
        /\ Mig!Upcoming(w) = Mig!Up[w.now][w.at + 1] /\ Mig!Upcoming(w) \in Mig!Statement
<1>1. w.now \in DOMAIN Mig!Up /\ w.at \in 0..Len(Mig!Up[w.now])
  BY DEF GoesUp, Mig!Oldest, Command
<1>2. w.at < Len(Mig!Up[w.now]) /\ Mig!Upcoming(w) = Mig!Up[w.now][w.at + 1]
  BY DEF Mig!MoreToDo, Mig!Script, Mig!Upcoming
<1> QED BY <1>1, <1>2, Scripts

\* That of a command that goes down is one of its reversal.
LEMMA UpcomingDown ==
  ASSUME NEW w \in Command, w.dir = "down", GoesDown(w, objects, done), Mig!MoreToDo(w)
  PROVE /\ w.now \in DOMAIN Mig!Up /\ w.at \in 0..(Len(Mig!Down[w.now]) - 1) /\ w.at + 1 \in DOMAIN Mig!Down[w.now]
        /\ Mig!Upcoming(w) = Mig!Down[w.now][w.at + 1] /\ Mig!Upcoming(w) \in Mig!Statement
<1>1. w.now \in DOMAIN Mig!Up /\ w.at \in 0..Len(Mig!Down[w.now])
  BY DEF GoesDown
<1>2. w.at < Len(Mig!Down[w.now]) /\ Mig!Upcoming(w) = Mig!Down[w.now][w.at + 1]
  BY DEF Mig!MoreToDo, Mig!Script, Mig!Upcoming
<1> QED BY <1>1, <1>2, Scripts

\* A statement on the way up keeps the account of its command.
LEMMA UpGoesOn ==
  ASSUME NEW w \in Command, w.dir = "up", GoesUp(w, objects, done), Mig!MoreToDo(w),
         Mig!Accepted(w, Mig!Upcoming(w))
  PROVE Obeys(After(w), objects, done)
<1> DEFINE s == Mig!Upcoming(w)
           to == After(w)
           new == IF s.do # "alter" THEN {s.what} ELSE {}
<1>1. /\ w.now \in DOMAIN Mig!Up /\ w.at \in 0..(Len(Mig!Up[w.now]) - 1) /\ w.at + 1 \in DOMAIN Mig!Up[w.now]
      /\ s = Mig!Up[w.now][w.at + 1] /\ s \in Mig!Statement
  BY UpcomingUp
<1>2. s.do \in {"create", "ensure", "alter"}
  BY <1>1, Scripts DEF Mig!UpInOrder, Mig!Statement
<1>3. w.drops = {} /\ w.adds = Built(w.ran) \union Mig!MadeBy(w.now, w.at)
  BY DEF GoesUp
<1>l. Mig!Locks(s) \subseteq STRING /\ s.what \in Mig!Locks(s)
  <2> QED BY <1>1, MakersTyped DEF Mig!Locks, Mig!References, Mig!Statement
<1>4. /\ to \in Command /\ to.dir = "up" /\ to.todo = w.todo /\ to.now = w.now /\ to.at = w.at + 1 /\ to.ran = w.ran
      /\ to.adds = w.adds \union new /\ to.drops = {} /\ to.held = w.held \union Mig!Locks(s) /\ to.late = w.late
  <2>1. s.what \in STRING /\ w.at + 1 \in Nat
    BY <1>1 DEF Mig!Statement, Command
  <2>2. CASE s.do = "alter"
    BY <1>3, <1>l, <2>1, <2>2 DEF After, Command
  <2>3. CASE s.do \in {"create", "ensure"}
    BY <1>3, <1>l, <2>1, <2>3 DEF After, Command
  <2> QED BY <1>2, <2>2, <2>3
<1>5. Mig!MadeBy(w.now, w.at + 1) = Mig!MadeBy(w.now, w.at) \union new
  BY <1>1, OneMore
<1>6. Mig!References(new) \subseteq Mig!Locks(s) /\ new \subseteq Mig!Locks(s)
  BY <1>l, ReferencesOf DEF Mig!Locks
<1>7. (new \ {"uuid-ossp"}) \intersect objects = {} /\ Mig!References(new) \subseteq objects \union w.adds
  <2>1. CASE s.do = "create"
    <3>1. s.what \notin objects /\ s.refs \subseteq objects \union w.adds
      BY <1>3, <2>1 DEF Mig!Accepted, Mig!Sees
    <3> QED BY <1>1, <2>1, <3>1, RefersTo
  <2>2. CASE s.do = "ensure"
    <3>1. s.what = "uuid-ossp"
      BY <1>1, <2>2, Scripts DEF Mig!UpInOrder
    <3> QED BY <2>2, <3>1, MadeOnce
  <2>3. CASE s.do = "alter"
    BY <2>3, ReferencesOf
  <2> QED BY <1>2, <2>1, <2>2, <2>3
<1>8. Mig!References(to.adds) = Mig!References(w.adds) \union Mig!References(new)
  BY <1>4, ReferencesOf
<1> HIDE DEF to, new, s
<1>9. to.at \in 0..Len(Mig!Up[to.now])
  BY <1>1, <1>4, Scripts
<1>10. GoesUp(to, objects, done)
  <2>1. to.adds \union Mig!References(to.adds) \subseteq to.held
    BY <1>4, <1>6, <1>8 DEF GoesUp
  <2>2. (to.adds \ {"uuid-ossp"}) \intersect objects = {} /\ Mig!References(to.adds) \subseteq objects \union to.adds
    BY <1>4, <1>7, <1>8 DEF GoesUp
  <2>3. to.adds = Built(to.ran) \union Mig!MadeBy(to.now, to.at)
    BY <1>3, <1>4, <1>5
  <2> QED BY <1>4, <1>9, <2>1, <2>2, <2>3 DEF GoesUp
<1> QED BY <1>4, <1>10 DEF Obeys, to

\* So does one on the way down.
LEMMA DownGoesOn ==
  ASSUME NEW w \in Command, w.dir = "down", GoesDown(w, objects, done), Mig!MoreToDo(w),
         Mig!Accepted(w, Mig!Upcoming(w))
  PROVE Obeys(After(w), objects, done)
<1> DEFINE s == Mig!Upcoming(w)
           to == After(w)
           gone == IF s.do = "drop" THEN {s.what} ELSE {}
<1>1. /\ w.now \in DOMAIN Mig!Up /\ w.at \in 0..(Len(Mig!Down[w.now]) - 1) /\ w.at + 1 \in DOMAIN Mig!Down[w.now]
      /\ s = Mig!Down[w.now][w.at + 1] /\ s \in Mig!Statement
  BY UpcomingDown
<1>2. s.do \in {"drop", "alter"}
  BY <1>1, Scripts DEF Mig!DownInOrder
<1>3. w.adds = {} /\ w.drops = Mig!DroppedBy(w.now, w.at)
  BY DEF GoesDown
<1>l. Mig!Locks(s) \subseteq STRING /\ s.what \in Mig!Locks(s)
  <2> QED BY <1>1, MakersTyped DEF Mig!Locks, Mig!References, Mig!Statement
<1>g. (s.do = "drop" => gone = {s.what}) /\ (s.do = "alter" => gone = {})
  OBVIOUS
<1>a. /\ s.what \in objects /\ s.what \notin w.drops
      /\ s.do = "drop" => s.what \notin Mig!References((objects \ w.drops) \ {s.what})
  BY <1>2, <1>3 DEF Mig!Accepted, Mig!Sees
<1>4. /\ to \in Command /\ to.dir = "down" /\ to.todo = w.todo /\ to.now = w.now /\ to.at = w.at + 1 /\ to.ran = w.ran
      /\ to.drops = w.drops \union gone /\ to.adds = {} /\ to.held = w.held \union Mig!Locks(s) /\ to.late = w.late
  <2>1. s.what \in STRING /\ w.at + 1 \in Nat
    BY <1>1 DEF Mig!Statement, Command
  <2>2. CASE s.do = "alter"
    <3>1. gone = {} /\ w.drops \ {s.what} = w.drops
      <4> HIDE DEF gone, s
      <4> QED BY <1>a, <1>g, <2>2
    <3>2. /\ to = [w EXCEPT !.at = @ + 1, !.held = @ \union Mig!Locks(s), !.adds = @, !.drops = @ \ {s.what}]
      BY <2>2 DEF After
    <3> QED BY <1>3, <1>l, <2>1, <3>1, <3>2 DEF Command
  <2>3. CASE s.do = "drop"
    BY <1>3, <1>l, <2>1, <2>3 DEF After, Command
  <2> QED BY <1>2, <2>2, <2>3
<1>5. Mig!DroppedBy(w.now, w.at + 1) = Mig!DroppedBy(w.now, w.at) \union gone
  BY <1>1, OneMore
<1>6. Mig!References(objects \ to.drops) \intersect to.drops = {}
  <2>1. Mig!References(objects \ to.drops) \subseteq Mig!References(objects \ w.drops)
    BY <1>4, ReferencesOf
  <2>2. Mig!References(objects \ w.drops) \intersect w.drops = {}
    BY DEF GoesDown
  <2>3. s.do = "drop" => objects \ to.drops = (objects \ w.drops) \ {s.what}
    BY <1>4
  <2>4. gone \intersect Mig!References(objects \ to.drops) = {}
    <3> HIDE DEF gone, s, to
    <3> QED BY <1>2, <1>a, <1>g, <2>3
  <2>5. to.drops = w.drops \union gone
    BY <1>4
  <2> HIDE DEF gone, to, s
  <2> QED BY <2>1, <2>2, <2>4, <2>5
<1>7. to.at \in 0..Len(Mig!Down[to.now])
  BY <1>1, <1>4, Scripts
<1>8. to.drops \subseteq to.held /\ to.drops \subseteq objects
  <2>1. gone \subseteq objects /\ gone \subseteq Mig!Locks(s)
    <3> HIDE DEF gone, s, to
    <3> QED BY <1>2, <1>a, <1>g, <1>l
  <2>2. w.drops \subseteq w.held /\ w.drops \subseteq objects
    BY DEF GoesDown
  <2>3. to.drops = w.drops \union gone /\ to.held = w.held \union Mig!Locks(s)
    BY <1>4
  <2> HIDE DEF gone, to, s
  <2> QED BY <2>1, <2>2, <2>3
<1>9. to.drops = Mig!DroppedBy(to.now, to.at)
  BY <1>3, <1>4, <1>5
<1> HIDE DEF to, gone, s
<1>10. GoesDown(to, objects, done)
  BY <1>4, <1>6, <1>7, <1>8, <1>9 DEF GoesDown
<1> QED BY <1>4, <1>10 DEF Obeys, to

\* The statements of all migrations that a command has run, and their rows, make the schema
\* that those rows stand for.
LEMMA UpCommitted ==
  ASSUME NEW w \in Command, GoesUp(w, objects, done), w.at = Len(Mig!Up[w.now]), SchemaOfRows(objects, done)
  PROVE SchemaOfRows(objects \union w.adds, done \o Append(w.ran, w.now))
<1> DEFINE new == Append(w.ran, w.now)
           list == done \o new
<1>1. /\ w.now \in DOMAIN Mig!Up /\ w.ran \in Seq(DOMAIN Mig!Up)
      /\ \A i \in DOMAIN w.ran : w.ran[i] < w.now
      /\ \A i, j \in DOMAIN w.ran : i < j => w.ran[i] < w.ran[j]
  BY DEF GoesUp, Mig!Oldest, Command
<1>2. done \in Seq(DOMAIN Mig!Up)
  BY DEF SchemaOfRows
<1>3. new \in Seq(DOMAIN Mig!Up) /\ Built(new) = w.adds
  BY <1>1, BuiltMore DEF GoesUp
<1>4. \A i, j \in DOMAIN new : i < j => new[i] < new[j]
  <2>1. Len(w.ran) \in Nat /\ DOMAIN w.ran = 1..Len(w.ran) /\ DOMAIN new = 1..(Len(w.ran) + 1)
    BY <1>1
  <2>2. new[Len(w.ran) + 1] = w.now /\ \A i \in 1..Len(w.ran) : new[i] = w.ran[i]
    BY <1>1
  <2> HIDE DEF new
  <2> QED BY <1>1, <2>1, <2>2
<1> HIDE DEF new
<1>5. /\ list \in Seq(DOMAIN Mig!Up)
      /\ Len(done) \in Nat /\ DOMAIN done = 1..Len(done)
      /\ \A i \in DOMAIN list : IF i <= Len(done) THEN i \in DOMAIN done /\ list[i] = done[i]
                                ELSE i - Len(done) \in DOMAIN new /\ list[i] = new[i - Len(done)]
      /\ \A i \in DOMAIN list : i \in Nat
  BY <1>2, <1>3
<1>6. Mig!ToSet(list) = Mig!ToSet(done) \union Mig!ToSet(new)
  <2>1. \A i \in DOMAIN done : i \in DOMAIN list /\ list[i] = done[i]
    BY <1>2, <1>3
  <2>2. \A i \in DOMAIN new : i + Len(done) \in DOMAIN list /\ list[i + Len(done)] = new[i]
    BY <1>2, <1>3
  <2> HIDE DEF list
  <2> QED BY <1>5, <2>1, <2>2 DEF Mig!ToSet
<1>7. w.adds \ {"uuid-ossp"} = UNION {Mig!Made(m) : m \in Mig!ToSet(new)}
  BY <1>3, BuiltTables
<1>8. (objects \union w.adds) \ {"uuid-ossp"} = UNION {Mig!Made(m) : m \in Mig!ToSet(list)}
  <2>1. objects \ {"uuid-ossp"} = UNION {Mig!Made(m) : m \in Mig!ToSet(done)}
    BY DEF SchemaOfRows
  <2> HIDE DEF list
  <2> QED BY <1>6, <1>7, <2>1
<1>9. Mig!References(objects \union w.adds) \subseteq objects \union w.adds
  BY ReferencesOf DEF SchemaOfRows, GoesUp
<1>10. ASSUME NEW i \in DOMAIN done, NEW j \in DOMAIN new PROVE done[i] # new[j] /\ ~Needs(done[i], new[j])
  <2>1. done[i] \in DOMAIN Mig!Up /\ new[j] \in DOMAIN Mig!Up
    BY <1>2, <1>3
  <2>2. Mig!Made(done[i]) \subseteq objects /\ Mig!Made(new[j]) \subseteq w.adds \ {"uuid-ossp"}
    BY <1>7 DEF SchemaOfRows, Mig!ToSet
  <2>3. (w.adds \ {"uuid-ossp"}) \intersect objects = {}
    BY DEF GoesUp
  <2>4. Mig!References(Mig!Made(done[i])) \subseteq objects
    BY <2>2, ReferencesOf DEF SchemaOfRows
  <2> QED BY <2>1, <2>2, <2>3, <2>4, MadeOnce DEF Needs
<1>11. ASSUME NEW i \in DOMAIN new, NEW j \in DOMAIN new, i < j PROVE new[i] # new[j] /\ ~Needs(new[i], new[j])
  <2>1. new[i] \in DOMAIN Mig!Up /\ new[j] \in DOMAIN Mig!Up /\ new[i] < new[j]
    BY <1>3, <1>4, <1>11
  <2>2. new[i] \in Nat /\ new[j] \in Nat
    BY <2>1, Scripts
  <2> QED BY <2>1, <2>2, NeedsEarlier
<1>12. ASSUME NEW i \in DOMAIN list, NEW j \in DOMAIN list, i < j PROVE list[i] # list[j] /\ ~Needs(list[i], list[j])
  <2> HIDE DEF list
  <2>1. CASE j <= Len(done)
    BY <1>5, <1>12, <2>1 DEF SchemaOfRows
  <2>2. CASE i <= Len(done) /\ ~(j <= Len(done))
    BY <1>5, <1>10, <2>2
  <2>3. CASE ~(i <= Len(done))
    <3>1. ~(j <= Len(done)) /\ i - Len(done) < j - Len(done)
      BY <1>5, <1>12, <2>3
    <3> QED BY <1>5, <1>11, <2>3, <3>1
  <2> QED BY <1>5, <1>12, <2>1, <2>2, <2>3
<1>13. SchemaOfRows(objects \union w.adds, list)
  <2> HIDE DEF list
  <2> QED BY <1>5, <1>8, <1>9, <1>12 DEF SchemaOfRows
<1> QED BY <1>13 DEF new

\* A migration whose reversal has run is among those done: its tables were there.
LEMMA RevertedWasDone ==
  ASSUME NEW w \in Command, GoesDown(w, objects, done), w.at = Len(Mig!Down[w.now]), SchemaOfRows(objects, done)
  PROVE w.now \in Mig!ToSet(done) /\ w.drops = Mig!Made(w.now) /\ w.now \in DOMAIN Mig!Up
<1>1. w.now \in DOMAIN Mig!Up /\ w.drops = Mig!Made(w.now) /\ w.drops \subseteq objects
  BY Scripts DEF GoesDown, Mig!DownInOrder
<1>2. PICK o \in Mig!Made(w.now) : o \in objects \ {"uuid-ossp"}
  BY <1>1, MadeOnce
<1>3. PICK m \in Mig!ToSet(done) : o \in Mig!Made(m)
  BY <1>2 DEF SchemaOfRows
<1>4. m \in DOMAIN Mig!Up
  BY <1>3 DEF SchemaOfRows, Mig!ToSet
<1> QED BY <1>1, <1>2, <1>3, <1>4, MadeOnce

\* Without the row of a migration the others keep their order.
LEMMA WithoutOne ==
  ASSUME done \in Seq(DOMAIN Mig!Up), \A i, j \in DOMAIN done : i < j => done[i] # done[j],
         NEW m \in Mig!ToSet(done)
  PROVE LET list == Mig!Without(m) IN
        /\ list \in Seq(DOMAIN Mig!Up) /\ Mig!ToSet(list) = Mig!ToSet(done) \ {m}
        /\ \A a, b \in DOMAIN list : a < b =>
             \E i, j \in DOMAIN done : i < j /\ list[a] = done[i] /\ list[b] = done[j]
<1> DEFINE list == Mig!Without(m)
<1>1. PICK n \in DOMAIN done : done[n] = m /\ list = Mig!RemoveAt(done, n)
  BY DEF Mig!Without, Mig!ToSet
<1>2. Len(done) \in Nat /\ DOMAIN done = 1..Len(done) /\ n \in 1..Len(done)
  BY <1>1
<1>3. /\ list \in Seq(DOMAIN Mig!Up) /\ DOMAIN list = 1..(Len(done) - 1)
      /\ \A a \in 1..(Len(done) - 1) : list[a] = IF a < n THEN done[a] ELSE done[a + 1]
  <2> DEFINE front == SubSeq(done, 1, n - 1)
             back == SubSeq(done, n + 1, Len(done))
  <2>1. /\ front \in Seq(DOMAIN Mig!Up) /\ Len(front) = n - 1 /\ \A a \in 1..(n - 1) : front[a] = done[a]
    BY <1>2
  <2>2. /\ back \in Seq(DOMAIN Mig!Up) /\ Len(back) = Len(done) - n
        /\ \A a \in 1..(Len(done) - n) : back[a] = done[a + n]
    <3>1. n + 1 \in 1..(Len(done) + 1) /\ Len(done) - (n + 1) + 1 = Len(done) - n
      BY <1>2
    <3>2. \A a \in (n + 1)..Len(done) : done[a] \in DOMAIN Mig!Up
      BY <1>2
    <3>3. back \in Seq(DOMAIN Mig!Up)
      BY <1>2, <3>2
    <3>4. Len(back) = Len(done) - n
      BY <1>2, <3>1
    <3>5. \A a \in 1..(Len(done) - n) : back[a] = done[(n + 1) + a - 1] /\ (n + 1) + a - 1 = a + n
      BY <1>2
    <3> QED BY <3>3, <3>4, <3>5
  <2>3. list = front \o back
    BY <1>1 DEF Mig!RemoveAt
  <2> HIDE DEF front, back
  <2>s. list \in Seq(DOMAIN Mig!Up)
    BY <2>1, <2>2, <2>3
  <2>n. Len(list) = Len(front) + Len(back)
    <3>1. front \in Seq(DOMAIN Mig!Up) /\ back \in Seq(DOMAIN Mig!Up)
      BY <2>1, <2>2
    <3>2. Len(front \o back) = Len(front) + Len(back)
      BY <3>1
    <3> QED BY <2>3, <3>2
  <2>4. list \in Seq(DOMAIN Mig!Up) /\ Len(list) = (n - 1) + (Len(done) - n)
    BY <2>1, <2>2, <2>s, <2>n
  <2>5. Len(list) = Len(done) - 1
    BY <1>2, <2>4
  <2>6. ASSUME NEW a \in 1..(Len(done) - 1) PROVE list[a] = IF a < n THEN done[a] ELSE done[a + 1]
    <3>1. CASE a < n
      <4>1. a \in 1..Len(front) /\ list[a] = front[a]
        BY <1>2, <2>1, <2>2, <2>3, <3>1
      <4> QED BY <2>1, <3>1, <4>1
    <3>2. CASE ~(a < n)
      <4>1. a - (n - 1) \in 1..(Len(done) - n) /\ (a - (n - 1)) + n = a + 1
        BY <1>2, <3>2
      <4>2. list[a] = back[a - (n - 1)]
        BY <1>2, <2>1, <2>2, <2>3, <3>2
      <4> QED BY <2>2, <3>2, <4>1, <4>2
    <3> QED BY <3>1, <3>2
  <2> QED BY <2>4, <2>5, <2>6
<1> HIDE DEF list
<1>4. ASSUME NEW a \in DOMAIN list, NEW b \in DOMAIN list, a < b
      PROVE \E i, j \in DOMAIN done : i < j /\ list[a] = done[i] /\ list[b] = done[j]
  <2> DEFINE i == IF a < n THEN a ELSE a + 1
             j == IF b < n THEN b ELSE b + 1
  <2>1. i \in DOMAIN done /\ j \in DOMAIN done /\ i < j
    BY <1>2, <1>3, <1>4
  <2>2. list[a] = done[i] /\ list[b] = done[j]
    BY <1>3
  <2> HIDE DEF i, j
  <2> QED BY <2>1, <2>2
<1>5. Mig!ToSet(list) = Mig!ToSet(done) \ {m}
  <2>1. ASSUME NEW a \in DOMAIN list PROVE list[a] \in Mig!ToSet(done) \ {m}
    <3>1. PICK i \in DOMAIN done : i # n /\ list[a] = done[i]
      <4> DEFINE k == IF a < n THEN a ELSE a + 1
      <4>1. k \in DOMAIN done /\ k # n
        BY <1>2, <1>3
      <4> QED BY <1>3, <4>1
    <3>2. done[i] # done[n]
      <4>1. i < n \/ n < i
        BY <1>2, <3>1
      <4> QED BY <4>1
    <3> QED BY <1>1, <3>1, <3>2 DEF Mig!ToSet
  <2>2. ASSUME NEW i \in DOMAIN done, done[i] # m PROVE done[i] \in Mig!ToSet(list)
    <3> DEFINE a == IF i < n THEN i ELSE i - 1
    <3>1. i # n /\ i \in 1..Len(done)
      BY <1>1, <1>2, <2>2
    <3>2. a \in 1..(Len(done) - 1) /\ (IF a < n THEN a ELSE a + 1) = i
      BY <1>2, <3>1
    <3>3. list[a] = done[i]
      BY <1>3, <3>2
    <3> HIDE DEF a
    <3> QED BY <1>3, <3>2, <3>3 DEF Mig!ToSet
  <2> QED BY <2>1, <2>2 DEF Mig!ToSet
<1> QED BY <1>3, <1>4, <1>5 DEF list

\* A reversal takes the tables and the row of its migration.
LEMMA DownCommitted ==
  ASSUME NEW w \in Command, GoesDown(w, objects, done), w.at = Len(Mig!Down[w.now]), SchemaOfRows(objects, done)
  PROVE SchemaOfRows(objects \ w.drops, Mig!Without(w.now))
<1> DEFINE list == Mig!Without(w.now)
<1>1. w.now \in Mig!ToSet(done) /\ w.drops = Mig!Made(w.now) /\ w.now \in DOMAIN Mig!Up
  BY RevertedWasDone
<1>2. /\ done \in Seq(DOMAIN Mig!Up)
      /\ \A i, j \in DOMAIN done : i < j => done[i] # done[j] /\ ~Needs(done[i], done[j])
      /\ objects \ {"uuid-ossp"} = UNION {Mig!Made(m) : m \in Mig!ToSet(done)}
      /\ Mig!References(objects) \subseteq objects
  BY DEF SchemaOfRows
<1>3. /\ list \in Seq(DOMAIN Mig!Up) /\ Mig!ToSet(list) = Mig!ToSet(done) \ {w.now}
      /\ \A a, b \in DOMAIN list : a < b =>
           \E i, j \in DOMAIN done : i < j /\ list[a] = done[i] /\ list[b] = done[j]
  BY <1>1, <1>2, WithoutOne
<1> HIDE DEF list
<1>4. \A a, b \in DOMAIN list : a < b => list[a] # list[b] /\ ~Needs(list[a], list[b])
  BY <1>2, <1>3
<1>5. (objects \ w.drops) \ {"uuid-ossp"} = UNION {Mig!Made(m) : m \in Mig!ToSet(list)}
  <2>1. \A m \in Mig!ToSet(done) : m \in DOMAIN Mig!Up
    BY <1>2 DEF Mig!ToSet
  <2>2. \A m \in Mig!ToSet(list) : Mig!Made(m) \intersect Mig!Made(w.now) = {}
    BY <1>1, <1>3, <2>1, MadeOnce
  <2> QED BY <1>1, <1>2, <1>3, <2>2
<1>6. Mig!References(objects \ w.drops) \subseteq objects \ w.drops
  <2>1. Mig!References(objects \ w.drops) \subseteq Mig!References(objects)
    BY ReferencesOf
  <2> QED BY <1>2, <2>1 DEF GoesDown
<1> QED BY <1>3, <1>4, <1>5, <1>6 DEF SchemaOfRows, list

\* A command that another one commits under: it knows of it, and what it holds is its own.
Overtaken(v) == [v EXCEPT !.late = (v.dir # "none")]

\* Nothing else of it changes.
LEMMA OvertakenIs ==
  ASSUME NEW v \in Command
  PROVE LET u == Overtaken(v) IN
        /\ u \in Command /\ u.dir = v.dir /\ u.todo = v.todo /\ u.now = v.now /\ u.at = v.at /\ u.ran = v.ran
        /\ u.adds = v.adds /\ u.drops = v.drops /\ u.held = v.held /\ (u.late <=> v.dir # "none")
BY DEF Overtaken, Command

\* What others make is apart from what a command has made and dropped, since it holds that.
LEMMA OthersAdd ==
  ASSUME NEW v \in Command, Obeys(v, objects, done), NEW added, NEW list,
         (added \union Mig!References(added)) \intersect v.held = {}
  PROVE Obeys(Overtaken(v), objects \union added, list)
<1> DEFINE u == Overtaken(v)
<1>1. /\ u \in Command /\ u.dir = v.dir /\ u.todo = v.todo /\ u.now = v.now /\ u.at = v.at /\ u.ran = v.ran
      /\ u.adds = v.adds /\ u.drops = v.drops /\ u.held = v.held /\ (u.late <=> v.dir # "none")
  BY OvertakenIs
<1> HIDE DEF u
<1>2. CASE v.dir = "up"
  <2>1. /\ (v.adds \ {"uuid-ossp"}) \intersect (objects \union added) = {}
        /\ Mig!References(v.adds) \subseteq (objects \union added) \union v.adds
    BY <1>2 DEF Obeys, GoesUp
  <2>2. GoesUp(v, objects, done)
    BY <1>2 DEF Obeys
  <2> QED BY <1>1, <1>2, <2>1, <2>2 DEF Obeys, GoesUp, u
<1>3. CASE v.dir = "down"
  <2>1. GoesDown(v, objects, done)
    BY <1>3 DEF Obeys
  <2>2. Mig!References((objects \union added) \ v.drops) \intersect v.drops = {}
    <3>1. Mig!References((objects \union added) \ v.drops)
            \subseteq Mig!References(objects \ v.drops) \union Mig!References(added)
      <4>1. (objects \union added) \ v.drops \subseteq (objects \ v.drops) \union added
        OBVIOUS
      <4>2. Mig!References((objects \ v.drops) \union added)
              = Mig!References(objects \ v.drops) \union Mig!References(added)
        BY ReferencesOf
      <4>3. Mig!References((objects \union added) \ v.drops) \subseteq Mig!References((objects \ v.drops) \union added)
        BY <4>1, ReferencesOf
      <4> QED BY <4>2, <4>3
    <3> QED BY <2>1, <3>1 DEF GoesDown
  <2>3. v.drops \subseteq objects \union added
    BY <2>1 DEF GoesDown
  <2> QED BY <1>1, <1>3, <2>1, <2>2, <2>3 DEF Obeys, GoesDown, u
<1>4. CASE v.dir = "none"
  BY <1>1, <1>4 DEF Obeys, u
<1> QED BY <1>2, <1>3, <1>4 DEF Command

\* So is what others drop.
LEMMA OthersDrop ==
  ASSUME NEW v \in Command, Obeys(v, objects, done), NEW gone, NEW list, gone \intersect v.held = {}
  PROVE Obeys(Overtaken(v), objects \ gone, list)
<1> DEFINE u == Overtaken(v)
<1>1. /\ u \in Command /\ u.dir = v.dir /\ u.todo = v.todo /\ u.now = v.now /\ u.at = v.at /\ u.ran = v.ran
      /\ u.adds = v.adds /\ u.drops = v.drops /\ u.held = v.held /\ (u.late <=> v.dir # "none")
  BY OvertakenIs
<1> HIDE DEF u
<1>2. CASE v.dir = "up"
  <2>1. /\ (v.adds \ {"uuid-ossp"}) \intersect (objects \ gone) = {}
        /\ Mig!References(v.adds) \subseteq (objects \ gone) \union v.adds
    BY <1>2 DEF Obeys, GoesUp
  <2>2. GoesUp(v, objects, done)
    BY <1>2 DEF Obeys
  <2> QED BY <1>1, <1>2, <2>1, <2>2 DEF Obeys, GoesUp, u
<1>3. CASE v.dir = "down"
  <2>1. GoesDown(v, objects, done)
    BY <1>3 DEF Obeys
  <2>2. Mig!References((objects \ gone) \ v.drops) \intersect v.drops = {}
    <3>1. Mig!References((objects \ gone) \ v.drops) \subseteq Mig!References(objects \ v.drops)
      <4>1. (objects \ gone) \ v.drops \subseteq objects \ v.drops
        OBVIOUS
      <4> QED BY <4>1, ReferencesOf
    <3> QED BY <2>1, <3>1 DEF GoesDown
  <2>3. v.drops \subseteq objects \ gone
    BY <2>1 DEF GoesDown
  <2> QED BY <1>1, <1>3, <2>1, <2>2, <2>3 DEF Obeys, GoesDown, u
<1>4. CASE v.dir = "none"
  BY <1>1, <1>4 DEF Obeys, u
<1> QED BY <1>2, <1>3, <1>4 DEF Command

\* Every step of a command keeps the schema that of its rows.
LEMMA SchemaStep == SchemaInv /\ [MCNext]_allVars => SchemaInv'
<1> SUFFICES ASSUME SchemaInv, focus = "schema", [Mig!Next]_migrationVars, focus' = "schema"
             PROVE SchemaInv'
  BY SchemaMoves DEF SchemaInv, MCNext, Others, Rest, allVars
<1> USE MigrationsAssumption
<1>1. /\ overlaps \in 0..MaxOverlaps
      /\ SchemaOfRows(objects, done)
      /\ runner \in [Runners -> Command]
      /\ \A r \in Runners : Obeys(runner[r], objects, done)
      /\ \A r, q \in Runners : r # q => runner[r].held \intersect runner[q].held = {}
  BY DEF SchemaInv
\* A command goes on, and nothing is committed.
<1>2. ASSUME NEW r \in Runners, NEW to \in Command, Mig!GoTo(r, to), Obeys(to, objects, done),
             overlaps' \in 0..MaxOverlaps, UNCHANGED <<objects, done>>,
             \A q \in Runners : q # r => to.held \intersect runner[q].held = {}
      PROVE SchemaInv'
  <2>1. runner' \in [Runners -> Command] /\ runner'[r] = to /\ \A q \in Runners : q # r => runner'[q] = runner[q]
    BY <1>1, <1>2 DEF Mig!GoTo
  <2>2. \A q \in Runners : Obeys(runner'[q], objects, done)
    BY <1>1, <1>2, <2>1
  <2>3. \A p, q \in Runners : p # q => runner'[p].held \intersect runner'[q].held = {}
    BY <1>1, <1>2, <2>1
  <2> QED BY <1>1, <1>2, <2>1, <2>2, <2>3 DEF SchemaInv
<1>3. ASSUME NEW r \in Runners, Mig!Begin(r) PROVE overlaps' \in 0..MaxOverlaps /\ overlaps' \in Nat
  BY <1>1, <1>3 DEF Mig!Begin
<1>4. ASSUME NEW r \in Runners, Mig!Run(r) PROVE SchemaInv'
  <2> DEFINE pending == DOMAIN Mig!Up \ Mig!ToSet(done)
  <2>1. PICK m \in Mig!Oldest(pending) :
          Mig!GoTo(r, [Mig!Over EXCEPT !.dir = "up", !.todo = pending, !.now = m])
    BY <1>4 DEF Mig!Run
  <2> DEFINE to == [Mig!Over EXCEPT !.dir = "up", !.todo = pending, !.now = m]
  <2>2. m \in DOMAIN Mig!Up /\ m \in Nat
    BY <2>1, Scripts DEF Mig!Oldest
  <2>3. /\ to \in Command /\ to.dir = "up" /\ to.todo = pending /\ to.now = m /\ to.at = 0 /\ to.ran = <<>>
        /\ to.adds = {} /\ to.drops = {} /\ to.held = {} /\ to.late = FALSE
    <3>1. PICK over \in Command : over = Mig!Over
      BY OverIsCommand
    <3>2. to = [over EXCEPT !.dir = "up", !.todo = pending, !.now = m] /\ pending \subseteq DOMAIN Mig!Up
      BY <3>1
    <3> HIDE DEF to, pending
    <3> QED BY <2>2, <3>1, <3>2, OverIsCommand DEF Command
  <2> HIDE DEF to
  <2>4. Mig!MadeBy(m, 0) = {} /\ Built(<<>>) = {} /\ 0 \in 0..Len(Mig!Up[m])
    BY <2>2, OneMore, Scripts DEF Built, Mig!ToSet
  <2>5. GoesUp(to, objects, done)
    BY <2>1, <2>3, <2>4, ReferencesOf DEF GoesUp
  <2>6. Obeys(to, objects, done)
    BY <2>3, <2>5 DEF Obeys
  <2>7. Mig!GoTo(r, to) /\ overlaps' \in 0..MaxOverlaps /\ UNCHANGED <<objects, done>>
    BY <1>3, <1>4, <2>1 DEF Mig!Run, to
  <2> QED BY <1>2, <2>3, <2>6, <2>7
<1>5. ASSUME NEW r \in Runners, Mig!Revert(r) PROVE SchemaInv'
  <2> DEFINE m == Mig!Last(done)
             to == [Mig!Over EXCEPT !.dir = "down", !.todo = {m}, !.now = m]
  <2>1. Mig!GoTo(r, to) /\ overlaps' \in 0..MaxOverlaps /\ UNCHANGED <<objects, done>> /\ done # <<>>
    BY <1>3, <1>5 DEF Mig!Revert
  <2>2. m \in DOMAIN Mig!Up /\ m \in Nat
    <3>1. done \in Seq(DOMAIN Mig!Up)
      BY <1>1 DEF SchemaOfRows
    <3>2. m \in DOMAIN Mig!Up
      BY <2>1, <3>1 DEF Mig!Last
    <3> QED BY <3>2, Scripts
  <2>3. /\ to \in Command /\ to.dir = "down" /\ to.todo = {m} /\ to.now = m /\ to.at = 0
        /\ to.adds = {} /\ to.drops = {} /\ to.held = {} /\ to.late = FALSE
    <3>1. PICK over \in Command : over = Mig!Over
      BY OverIsCommand
    <3>2. to = [over EXCEPT !.dir = "down", !.todo = {m}, !.now = m]
      BY <3>1
    <3> HIDE DEF to, m
    <3> QED BY <2>2, <3>1, <3>2, OverIsCommand DEF Command
  <2> HIDE DEF to
  <2>4. Mig!DroppedBy(m, 0) = {} /\ 0 \in 0..Len(Mig!Down[m])
    BY <2>2, OneMore, Scripts
  <2>5. GoesDown(to, objects, done)
    BY <2>1, <2>2, <2>3, <2>4 DEF GoesDown
  <2>6. Obeys(to, objects, done)
    BY <2>3, <2>5 DEF Obeys
  <2> QED BY <1>2, <2>1, <2>3, <2>6
<1>6. ASSUME NEW r \in Runners, Mig!Execute(r) PROVE SchemaInv'
  <2> DEFINE w == runner[r]
             to == After(w)
  <2>1. /\ w \in Command /\ Obeys(w, objects, done) /\ Mig!MoreToDo(w) /\ Mig!Accepted(w, Mig!Upcoming(w))
        /\ Mig!GoTo(r, to) /\ UNCHANGED <<objects, done, overlaps>>
        /\ \A q \in Runners \ {r} : Mig!Locks(Mig!Upcoming(w)) \intersect runner[q].held = {}
    BY <1>1, <1>6 DEF Mig!Execute, Mig!Waits, After
  <2>2. Obeys(to, objects, done)
    <3>1. CASE w.dir = "up"
      BY <2>1, <3>1, UpGoesOn DEF Obeys
    <3>2. CASE w.dir = "down"
      BY <2>1, <3>2, DownGoesOn DEF Obeys
    <3> QED BY <2>1, <3>1, <3>2 DEF Command, Mig!MoreToDo
  <2>3. to.held = w.held \union Mig!Locks(Mig!Upcoming(w))
    BY <2>1 DEF After, Command
  <2>4. \A q \in Runners : q # r => to.held \intersect runner[q].held = {}
    BY <1>1, <2>1, <2>3
  <2> HIDE DEF to, w
  <2>5. to \in Command
    BY <2>2 DEF Obeys
  <2> QED BY <1>1, <1>2, <2>1, <2>2, <2>4, <2>5
<1>7. ASSUME NEW r \in Runners, Mig!NextMigration(r) PROVE SchemaInv'
  <2> DEFINE w == runner[r]
             left == w.todo \ {w.now}
  <2>1. /\ w \in Command /\ Obeys(w, objects, done) /\ w.dir # "none" /\ ~Mig!MoreToDo(w)
        /\ UNCHANGED <<objects, done, overlaps>>
    BY <1>1, <1>7 DEF Mig!NextMigration
  <2>2. PICK m \in Mig!Oldest(left) :
          Mig!GoTo(r, [w EXCEPT !.todo = left, !.now = m, !.at = 0, !.ran = Append(@, w.now)])
    BY <1>7 DEF Mig!NextMigration
  <2> DEFINE to == [w EXCEPT !.todo = left, !.now = m, !.at = 0, !.ran = Append(@, w.now)]
  <2>3. w.dir = "up" /\ GoesUp(w, objects, done)
    <3>1. w.dir # "down"
      BY <2>1, <2>2 DEF Obeys, GoesDown, Mig!Oldest
    <3> QED BY <2>1, <3>1 DEF Obeys, Command
  <2>4. /\ w.now \in DOMAIN Mig!Up /\ w.now \in Nat /\ m \in DOMAIN Mig!Up /\ m \in Nat /\ w.now < m
        /\ w.ran \in Seq(DOMAIN Mig!Up) /\ Append(w.ran, w.now) \in Seq(DOMAIN Mig!Up)
    <3>1. w.now \in w.todo /\ m \in w.todo /\ m # w.now /\ w.now <= m
      BY <2>2, <2>3 DEF GoesUp, Mig!Oldest
    <3>2. w.now \in DOMAIN Mig!Up /\ m \in DOMAIN Mig!Up /\ w.ran \in Seq(DOMAIN Mig!Up)
      BY <2>1, <3>1 DEF Command
    <3> QED BY <3>1, <3>2, Scripts
  <2>5. w.at = Len(Mig!Up[w.now])
    <3>1. w.at \in 0..Len(Mig!Up[w.now]) /\ ~(w.at < Len(Mig!Up[w.now]))
      BY <2>1, <2>3 DEF GoesUp, Mig!MoreToDo, Mig!Script
    <3> QED BY <2>4, <3>1, Scripts
  <2>6. /\ to \in Command /\ to.dir = "up" /\ to.todo = left /\ to.now = m /\ to.at = 0
        /\ to.ran = Append(w.ran, w.now)
        /\ to.adds = w.adds /\ to.drops = w.drops /\ to.held = w.held /\ to.late = w.late
    <3>1. left \subseteq DOMAIN Mig!Up
      BY <2>1 DEF Command
    <3>2. PICK v \in Command : v = w
      BY <2>1
    <3>3. to = [v EXCEPT !.todo = left, !.now = m, !.at = 0, !.ran = Append(w.ran, w.now)]
      BY <3>2
    <3> HIDE DEF to, left, w
    <3> QED BY <2>3, <2>4, <3>1, <3>2, <3>3 DEF Command
  <2>7. Mig!GoTo(r, to)
    BY <2>2
  <2> HIDE DEF to, w, left
  <2>8. Mig!MadeBy(m, 0) = {} /\ 0 \in 0..Len(Mig!Up[m])
    BY <2>4, OneMore, Scripts
  <2>9. to.adds = Built(to.ran) \union Mig!MadeBy(to.now, to.at)
    BY <2>3, <2>4, <2>5, <2>6, <2>8, BuiltMore DEF GoesUp
  <2>10. /\ \A i \in DOMAIN to.ran : to.ran[i] < to.now
         /\ \A i, j \in DOMAIN to.ran : i < j => to.ran[i] < to.ran[j]
    <3>1. Len(w.ran) \in Nat /\ DOMAIN w.ran = 1..Len(w.ran) /\ DOMAIN to.ran = 1..(Len(w.ran) + 1)
      BY <2>4, <2>6
    <3>2. to.ran[Len(w.ran) + 1] = w.now /\ \A i \in 1..Len(w.ran) : to.ran[i] = w.ran[i] /\ w.ran[i] \in Nat
      <4>1. \A i \in 1..Len(w.ran) : w.ran[i] \in DOMAIN Mig!Up
        BY <2>4
      <4> QED BY <2>4, <2>6, <4>1, Scripts
    <3>3. \A i \in 1..Len(w.ran) : w.ran[i] < w.now /\ \A j \in 1..Len(w.ran) : i < j => w.ran[i] < w.ran[j]
      BY <2>3, <3>1 DEF GoesUp
    <3> QED BY <2>4, <2>6, <3>1, <3>2, <3>3
  <2>11. ~to.late => /\ DOMAIN Mig!Up \subseteq Mig!ToSet(done) \union Mig!ToSet(to.ran) \union to.todo
                     /\ to.todo \intersect Mig!ToSet(done) = {}
    <3>1. Mig!ToSet(to.ran) = Mig!ToSet(w.ran) \union {w.now} /\ to.todo = w.todo \ {w.now}
      BY <2>4, <2>6, BuiltMore DEF left
    <3> QED BY <2>3, <2>6, <3>1 DEF GoesUp
  <2>12. GoesUp(to, objects, done)
    <3>1. /\ to.adds \union Mig!References(to.adds) \subseteq to.held /\ to.drops = {}
          /\ (to.adds \ {"uuid-ossp"}) \intersect objects = {}
          /\ Mig!References(to.adds) \subseteq objects \union to.adds
      BY <2>3, <2>6 DEF GoesUp
    <3>2. to.now \in Mig!Oldest(to.todo) /\ to.at \in 0..Len(Mig!Up[to.now])
      BY <2>2, <2>6, <2>8
    <3> QED BY <2>9, <2>10, <2>11, <3>1, <3>2 DEF GoesUp
  <2>13. Obeys(to, objects, done)
    BY <2>6, <2>12 DEF Obeys
  <2>14. \A q \in Runners : q # r => to.held \intersect runner[q].held = {}
    BY <1>1, <2>6 DEF w
  <2> QED BY <1>1, <1>2, <2>1, <2>6, <2>7, <2>13, <2>14
<1>8. ASSUME NEW r \in Runners, Mig!Commit(r) PROVE SchemaInv'
  <2> DEFINE w == runner[r]
  <2>1. /\ w \in Command /\ Obeys(w, objects, done) /\ w.dir # "none" /\ ~Mig!MoreToDo(w)
        /\ objects' = (objects \union w.adds) \ w.drops
        /\ done' = IF w.dir = "up" THEN done \o Append(w.ran, w.now) ELSE Mig!Without(w.now)
        /\ overlaps' = overlaps
    BY <1>1, <1>8 DEF Mig!Commit, Mig!Sees
  <2>2. /\ runner'[r] = Mig!Over /\ \A q \in Runners : q # r => runner'[q] = Overtaken(runner[q])
        /\ DOMAIN runner' = Runners /\ runner' = [q \in Runners |-> runner'[q]]
    BY <1>8 DEF Mig!Commit, Overtaken
  <2>3. \A q \in Runners : runner'[q] \in Command /\ (q # r => runner'[q].held = runner[q].held)
    BY <1>1, <2>2, OverIsCommand, OvertakenIs
  <2>4. runner' \in [Runners -> Command]
    BY <2>2, <2>3
  <2>5. \A p, q \in Runners : p # q => runner'[p].held \intersect runner'[q].held = {}
    BY <1>1, <2>2, <2>3, OverIsCommand
  <2>6. SchemaOfRows(objects', done') /\ \A q \in Runners : q # r => Obeys(runner'[q], objects', done')
    <3>1. CASE w.dir = "up"
      <4>1. GoesUp(w, objects, done)
        BY <2>1, <3>1 DEF Obeys
      <4>2. w.at = Len(Mig!Up[w.now])
        <5>1. w.now \in DOMAIN Mig!Up /\ w.at \in 0..Len(Mig!Up[w.now]) /\ ~(w.at < Len(Mig!Up[w.now]))
          BY <2>1, <3>1, <4>1 DEF GoesUp, Mig!Oldest, Command, Mig!MoreToDo, Mig!Script
        <5> QED BY <5>1, Scripts
      <4>3. objects' = objects \union w.adds /\ done' = done \o Append(w.ran, w.now)
        BY <2>1, <3>1, <4>1 DEF GoesUp
      <4>4. SchemaOfRows(objects', done')
        BY <1>1, <2>1, <4>1, <4>2, <4>3, UpCommitted
      <4>5. ASSUME NEW q \in Runners, q # r PROVE Obeys(runner'[q], objects', done')
        <5>1. (w.adds \union Mig!References(w.adds)) \intersect runner[q].held = {}
          BY <1>1, <4>1, <4>5 DEF GoesUp
        <5>2. runner[q] \in Command /\ Obeys(runner[q], objects, done)
          BY <1>1
        <5>3. Obeys(Overtaken(runner[q]), objects \union w.adds, done')
          BY <5>1, <5>2, OthersAdd
        <5> QED BY <2>2, <4>3, <4>5, <5>3
      <4> QED BY <4>4, <4>5
    <3>2. CASE w.dir = "down"
      <4>1. GoesDown(w, objects, done)
        BY <2>1, <3>2 DEF Obeys
      <4>2. w.at = Len(Mig!Down[w.now])
        <5>1. w.now \in DOMAIN Mig!Up /\ w.at \in 0..Len(Mig!Down[w.now]) /\ ~(w.at < Len(Mig!Down[w.now]))
          BY <2>1, <3>2, <4>1 DEF GoesDown, Mig!MoreToDo, Mig!Script
        <5> QED BY <5>1, Scripts
      <4>3. objects' = objects \ w.drops /\ done' = Mig!Without(w.now)
        BY <2>1, <3>2, <4>1 DEF GoesDown
      <4>4. SchemaOfRows(objects', done')
        BY <1>1, <2>1, <4>1, <4>2, <4>3, DownCommitted
      <4>5. ASSUME NEW q \in Runners, q # r PROVE Obeys(runner'[q], objects', done')
        <5>1. w.drops \intersect runner[q].held = {}
          BY <1>1, <4>1, <4>5 DEF GoesDown
        <5>2. runner[q] \in Command /\ Obeys(runner[q], objects, done)
          BY <1>1
        <5>3. Obeys(Overtaken(runner[q]), objects \ w.drops, done')
          BY <5>1, <5>2, OthersDrop
        <5> QED BY <2>2, <4>3, <4>5, <5>3
      <4> QED BY <4>4, <4>5
    <3> QED BY <2>1, <3>1, <3>2 DEF Command
  <2>7. Obeys(runner'[r], objects', done')
    BY <2>2, OverIsCommand DEF Obeys
  <2> QED BY <1>1, <2>1, <2>4, <2>5, <2>6, <2>7 DEF SchemaInv
<1>9. ASSUME NEW r \in Runners, Mig!Rollback(r) PROVE SchemaInv'
  <2>1. Mig!GoTo(r, Mig!Over) /\ UNCHANGED <<objects, done, overlaps>>
    BY <1>9 DEF Mig!Rollback
  <2>2. Obeys(Mig!Over, objects, done)
    BY OverIsCommand DEF Obeys
  <2> QED BY <1>1, <1>2, <2>1, <2>2, OverIsCommand
<1>10. CASE UNCHANGED migrationVars
  BY <1>1, <1>10 DEF SchemaInv, migrationVars
<1> QED BY <1>4, <1>5, <1>6, <1>7, <1>8, <1>9, <1>10 DEF Mig!Next

\* The tables are those of the migrations done, and what a command has made or dropped
\* it holds alone, however commands overlap, are rolled back or commit.
THEOREM SchemaInvariant == MCSpec => []SchemaInv
BY SchemaInit, SchemaStep, PTL DEF MCSpec

\* While no other command commits, a statement on the way up finds what it needs and
\* nothing of what it makes.
LEMMA UpAccepted ==
  ASSUME NEW w \in Command, w.dir = "up", GoesUp(w, objects, done), SchemaOfRows(objects, done),
         Mig!MoreToDo(w), ~w.late
  PROVE Mig!Accepted(w, Mig!Upcoming(w))
<1> DEFINE s == Mig!Upcoming(w)
<1>1. /\ w.now \in DOMAIN Mig!Up /\ w.at \in 0..(Len(Mig!Up[w.now]) - 1) /\ w.at + 1 \in DOMAIN Mig!Up[w.now]
      /\ s = Mig!Up[w.now][w.at + 1] /\ s \in Mig!Statement
  BY UpcomingUp
<1> HIDE DEF s
<1>2. /\ Mig!Sees(w) = objects \union w.adds
      /\ w.adds = Built(w.ran) \union Mig!MadeBy(w.now, w.at)
      /\ w.now \in w.todo /\ w.now \notin Mig!ToSet(done) /\ w.now \notin Mig!ToSet(w.ran)
      /\ w.ran \in Seq(DOMAIN Mig!Up)
  <2>1. w.now \notin Mig!ToSet(w.ran)
    <3>1. \A i \in DOMAIN w.ran : w.ran[i] < w.now /\ w.ran[i] \in DOMAIN Mig!Up
      BY DEF GoesUp, Command
    <3> QED BY <1>1, <3>1, Scripts DEF Mig!ToSet
  <2> QED BY <2>1 DEF GoesUp, Mig!Sees, Mig!Oldest, Command
<1>3. ASSUME NEW m \in 1..(w.now - 1) PROVE Mig!Made(m) \subseteq Mig!Sees(w)
  <2>1. m \in DOMAIN Mig!Up /\ m \notin w.todo
    <3>1. m \in DOMAIN Mig!Up /\ w.now \in Nat /\ m \in Nat /\ m < w.now
      BY <1>1, Scripts
    <3>2. m \in w.todo => w.now <= m
      BY DEF GoesUp, Mig!Oldest
    <3> QED BY <3>1, <3>2
  <2>2. m \in Mig!ToSet(done) \/ m \in Mig!ToSet(w.ran)
    BY <2>1 DEF GoesUp
  <2>3. m \in Mig!ToSet(done) => Mig!Made(m) \subseteq objects
    BY DEF SchemaOfRows
  <2>4. m \in Mig!ToSet(w.ran) => Mig!Made(m) \subseteq Built(w.ran)
    BY <2>1, MadeOnce DEF Built
  <2> QED BY <1>2, <2>2, <2>3, <2>4
<1>4. CASE s.do = "create"
  <2>1. /\ s.what # "uuid-ossp"
        /\ s.refs \subseteq Mig!MadeBy(w.now, (w.at + 1) - 1) \union UNION {Mig!Made(n) : n \in 1..(w.now - 1)}
    BY <1>1, <1>4, Scripts DEF Mig!UpInOrder
  <2>2. (w.at + 1) - 1 = w.at
    BY <1>1
  <2>3. s.refs \subseteq Mig!Sees(w)
    BY <1>2, <1>3, <2>1, <2>2
  <2>4. s.what \in Mig!Made(w.now)
    BY <1>1, <1>4 DEF Mig!Made, Mig!ToSet
  <2>5. s.what \notin objects
    <3>1. \A m \in Mig!ToSet(done) : m \in DOMAIN Mig!Up /\ m # w.now
      BY <1>2 DEF SchemaOfRows, Mig!ToSet
    <3> QED BY <1>1, <2>1, <2>4, <3>1, MadeOnce DEF SchemaOfRows
  <2>6. s.what \notin Built(w.ran)
    <3>1. \A m \in Mig!ToSet(w.ran) : m \in DOMAIN Mig!Up /\ m # w.now
      BY <1>2 DEF Mig!ToSet
    <3>2. s.what \notin UNION {Mig!Made(m) : m \in Mig!ToSet(w.ran)}
      BY <1>1, <2>4, <3>1, MadeOnce
    <3> QED BY <1>2, <2>1, <3>2, BuiltTables
  <2>7. s.what \notin Mig!MadeBy(w.now, w.at)
    <3>1. ASSUME NEW i \in 1..w.at, Mig!Up[w.now][i].do # "alter", Mig!Up[w.now][i].what = s.what PROVE FALSE
      <4>1. i \in DOMAIN Mig!Up[w.now] /\ i # w.at + 1
        BY <1>1, Scripts
      <4>2. Mig!Up[w.now][i].do \in {"create", "ensure"}
        <5>1. Mig!Up[w.now] \in Seq(Mig!Statement) /\ Mig!UpInOrder(w.now)
          BY <1>1, Scripts
        <5>2. Mig!Up[w.now][i] \in Mig!Statement /\ Mig!Up[w.now][i].do # "drop"
          BY <4>1, <5>1 DEF Mig!UpInOrder
        <5> QED BY <3>1, <5>2 DEF Mig!Statement
      <4>3. Mig!Up[w.now][i].do = "create"
        BY <1>1, <2>1, <3>1, <4>1, <4>2, Scripts DEF Mig!UpInOrder
      <4> QED BY <1>1, <1>4, <3>1, <4>1, <4>3, Scripts DEF Mig!UpInOrder
    <3> QED BY <3>1 DEF Mig!MadeBy
  <2> QED BY <1>2, <1>4, <2>3, <2>5, <2>6, <2>7 DEF Mig!Accepted, s
<1>5. CASE s.do = "alter"
  <2>1. s.what \in Mig!MadeBy(w.now, (w.at + 1) - 1) /\ (w.at + 1) - 1 = w.at
    BY <1>1, <1>5, Scripts DEF Mig!UpInOrder
  <2> QED BY <1>2, <1>5, <2>1 DEF Mig!Accepted, s
<1>6. CASE s.do = "ensure"
  BY <1>6 DEF Mig!Accepted, s
<1>7. s.do # "drop"
  BY <1>1, Scripts DEF Mig!UpInOrder
<1> QED BY <1>1, <1>4, <1>5, <1>6, <1>7 DEF Mig!Statement

\* While no other command commits, a statement on the way down finds its table, and
\* nothing that refers to what it drops.
LEMMA DownAccepted ==
  ASSUME NEW w \in Command, w.dir = "down", GoesDown(w, objects, done), SchemaOfRows(objects, done),
         Mig!MoreToDo(w), ~w.late
  PROVE Mig!Accepted(w, Mig!Upcoming(w))
<1> DEFINE s == Mig!Upcoming(w)
<1>1. /\ w.now \in DOMAIN Mig!Up /\ w.at \in 0..(Len(Mig!Down[w.now]) - 1) /\ w.at + 1 \in DOMAIN Mig!Down[w.now]
      /\ s = Mig!Down[w.now][w.at + 1] /\ s \in Mig!Statement
  BY UpcomingDown
<1> HIDE DEF s
<1>2. /\ Mig!Sees(w) = objects \ w.drops /\ w.drops = Mig!DroppedBy(w.now, w.at)
      /\ done # <<>> /\ w.now = done[Len(done)]
  BY DEF GoesDown, Mig!Sees, Mig!Last
<1>3. /\ s.do \in {"alter", "drop"} /\ s.what \in Mig!Made(w.now) /\ s.what \notin w.drops
      /\ s.do = "drop" => s.what \notin Mig!References(Mig!Made(w.now) \ Mig!DroppedBy(w.now, w.at + 1))
  <2>1. (w.at + 1) - 1 = w.at
    BY <1>1
  <2>2. /\ s.do \in {"alter", "drop"} /\ s.what \in Mig!Made(w.now) \ Mig!DroppedBy(w.now, (w.at + 1) - 1)
        /\ s.do = "drop" => s.what \notin Mig!References(Mig!Made(w.now) \ Mig!DroppedBy(w.now, w.at + 1))
    <3>1. Mig!DownInOrder(w.now)
      BY <1>1, Scripts
    <3> QED BY <1>1, <3>1 DEF Mig!DownInOrder
  <2> QED BY <1>2, <2>1, <2>2
<1>4. /\ done \in Seq(DOMAIN Mig!Up) /\ Len(done) \in DOMAIN done /\ w.now \in Mig!ToSet(done)
      /\ \A i \in DOMAIN done : i # Len(done) => i < Len(done)
  <2>1. done \in Seq(DOMAIN Mig!Up)
    BY DEF SchemaOfRows
  <2> QED BY <1>2, <2>1 DEF Mig!ToSet
<1>5. s.what \in Mig!Sees(w)
  BY <1>2, <1>3, <1>4 DEF SchemaOfRows
<1>6. ASSUME s.do = "drop", s.what \in Mig!References(Mig!Sees(w) \ {s.what}) PROVE FALSE
  <2>1. PICK t \in Mig!Statements : t.what \in Mig!Sees(w) \ {s.what} /\ s.what \in t.refs
    BY <1>6 DEF Mig!References
  <2>2. t.what # "uuid-ossp"
    <3>1. t.what = "uuid-ossp" => t.refs \subseteq Mig!References({"uuid-ossp"})
      BY DEF Mig!References
    <3> QED BY <2>1, <3>1, MadeOnce
  <2>3. PICK m \in Mig!ToSet(done) : t.what \in Mig!Made(m)
    BY <1>2, <2>1, <2>2 DEF SchemaOfRows
  <2>4. CASE m = w.now
    <3>1. Mig!DroppedBy(w.now, w.at + 1) = w.drops \union {s.what}
      <4>1. Mig!DroppedBy(w.now, w.at + 1)
              = Mig!DroppedBy(w.now, w.at) \union (IF s.do = "drop" THEN {s.what} ELSE {})
        BY <1>1, OneMore
      <4> QED BY <1>2, <1>6, <4>1
    <3>2. t.what \in Mig!Made(w.now) \ Mig!DroppedBy(w.now, w.at + 1)
      BY <1>2, <2>1, <2>3, <2>4, <3>1
    <3> QED BY <1>3, <1>6, <2>1, <3>2 DEF Mig!References
  <2>5. CASE m # w.now
    <3>1. PICK i \in DOMAIN done : m = done[i]
      BY <2>3 DEF Mig!ToSet
    <3>2. i < Len(done)
      BY <1>2, <1>4, <2>5, <3>1
    <3>3. Needs(m, w.now)
      BY <1>3, <2>1, <2>3 DEF Needs, Mig!References
    <3> QED BY <1>2, <1>4, <3>1, <3>2, <3>3 DEF SchemaOfRows
  <2> QED BY <2>4, <2>5
<1> QED BY <1>3, <1>5, <1>6 DEF Mig!Accepted, s

\* For any commands, however they overlap, fail or commit: the database has the tables of the
\* migrations in its list and no others, what a table refers to is there, and a
\* statement that is refused was overtaken (the nine migrations and typeorm-migrations.config.ts).
THEOREM SchemaSafe == MCSpec => []SchemaSound
<1>1. SchemaInv => SchemaSound
  <2> SUFFICES ASSUME SchemaInv, focus = "schema" PROVE Mig!TypeOK /\ Mig!SchemaSound
    BY DEF SchemaSound
  <2>1. /\ overlaps \in 0..MaxOverlaps /\ SchemaOfRows(objects, done)
        /\ \A r \in Runners : runner[r] \in Command /\ Obeys(runner[r], objects, done)
    BY DEF SchemaInv
  <2>2. done \in Seq(DOMAIN Mig!Up) /\ \A i, j \in DOMAIN done : i # j => done[i] # done[j]
    <3>1. done \in Seq(DOMAIN Mig!Up) /\ \A i \in DOMAIN done : i \in Nat
      BY <2>1 DEF SchemaOfRows
    <3>2. ASSUME NEW i \in DOMAIN done, NEW j \in DOMAIN done, i # j PROVE done[i] # done[j]
      <4>1. i < j \/ j < i
        BY <3>1, <3>2
      <4> QED BY <2>1, <4>1 DEF SchemaOfRows
    <3> QED BY <3>1, <3>2
  <2>3. objects \subseteq {s.what : s \in Mig!Statements}
    <3>1. ASSUME NEW o \in objects PROVE o \in {s.what : s \in Mig!Statements}
      <4>1. CASE o = "uuid-ossp"
        BY <4>1, SchemaAssumption DEF Mig!WellFormed
      <4>2. CASE o # "uuid-ossp"
        <5>1. PICK m \in DOMAIN Mig!Up : o \in Mig!Made(m)
          BY <2>1, <3>1, <4>2 DEF SchemaOfRows, Mig!ToSet
        <5>2. PICK i \in DOMAIN Mig!Up[m] : Mig!Up[m][i].do = "create" /\ Mig!Up[m][i].what = o
          BY <5>1 DEF Mig!Made, Mig!ToSet
        <5>3. Mig!Up[m][i] \in Mig!Statements
          BY <5>2, MakersAre
        <5> QED BY <5>2, <5>3
      <4> QED BY <4>1, <4>2
    <3> QED BY <3>1
  <2>4. Mig!TypeOK
    BY <2>1, <2>2, <2>3 DEF Mig!TypeOK, Command
  <2>5. ASSUME NEW r \in Runners, Mig!MoreToDo(runner[r]), ~runner[r].late
        PROVE Mig!Accepted(runner[r], Mig!Upcoming(runner[r]))
    <3> DEFINE w == runner[r]
    <3>1. w \in Command /\ Obeys(w, objects, done)
      BY <2>1
    <3>2. CASE w.dir = "up"
      BY <2>1, <2>5, <3>1, <3>2, UpAccepted DEF Obeys
    <3>3. CASE w.dir = "down"
      BY <2>1, <2>5, <3>1, <3>3, DownAccepted DEF Obeys
    <3> QED BY <2>5, <3>1, <3>2, <3>3 DEF Command, Mig!MoreToDo
  <2>6. Mig!SchemaSound
    BY <2>1, <2>5 DEF Mig!SchemaSound, SchemaOfRows
  <2> QED BY <2>4, <2>6
<1> QED BY <1>1, SchemaInvariant, PTL

-----------------------------------------------------------------------------
\* The components together.

\* The registration of Registration_proofs, inside the harness.
LEMMA RegistrationStep == Inv /\ [MCNext]_allVars => Inv'
<1>1. [MCNext]_allVars => [Next]_vars
  BY DEF MCNext, Others, Rest, allVars
<1> QED BY <1>1, TypeStep, WrittenStep, OrderStep, ExplainedStep DEF Inv

\* Registration keeps its invariant whatever else the harness moves
\* (AuthService.register).
THEOREM RegistrationSafe == MCSpec => []Inv
<1>1. MCInit => Inv
  BY FaultsAssumption DEF MCInit, Init, Inv, TypeOK, Pcs, Written, RowsOrdered, IncompleteExplained
<1> QED BY <1>1, RegistrationStep, PTL DEF MCSpec

\* A profile that is accounted for is explained.
LEMMA ProfileHold == ProfileInv /\ focus = "profile" => Pro!ProfileExplained /\ Pro!TypeOK
BY DEF ProfileInv, Pro!ProfileExplained, Pro!TypeOK, Copy

\* For any users, pictures, requests and failures, a profile picture or an image of a
\* listing is missing, or left over, only for a named reason
\* (users.service.ts and media.service.ts, and the services that name objects).
THEOREM MediaSafe == MCSpec => []MediaExplained
<1>1. ProfileInv /\ PicturesInv => MediaExplained
  BY ProfileHold, PicturesHold DEF MediaExplained
<1> QED BY <1>1, ProfileInvariant, PicturesInvariant, PTL

\* For any rows, requests and failures, what is for sale, its categories, favourites
\* and ratings differ from the rows they are computed from only for a named reason
\* (the services of modules/marketplace and modules/services).
THEOREM MarketSafe == MCSpec => []MarketExplained
<1>1. ShelvesInv /\ CatalogInv /\ FavoritesInv /\ RatingsInv => MarketExplained
  BY ShelvesHold, CatalogHold, FavoritesHold, RatingsHold DEF MarketExplained
<1> QED BY <1>1, ShelvesInvariant, CatalogInvariant, FavoritesInvariant, RatingsInvariant, PTL

\* Every component keeps its types, the bounds on counters among them.
THEOREM TypesKept == MCSpec => []Types
<1>1. AccessInv /\ focus = "access" => Acc!TypeOK
  BY DEF AccessInv, Acc!TypeOK, Request, People, Guards, Fields, Rules
<1>2. AudienceInv /\ focus = "audience" => Aud!TypeOK
  BY DEF AudienceInv, Aud!TypeOK, Reading
<1>3. FavoritesInv /\ focus = "favorites" => Fav!TypeOK
  BY DEF FavoritesInv, Fav!TypeOK, Tap
<1>4. Inv => TypeOK
  BY DEF Inv
<1>5. Inv /\ AccessInv /\ AudienceInv /\ ProfileInv /\ PicturesInv /\ RatingsInv /\ CatalogInv
      /\ ShelvesInv /\ FavoritesInv => Types
  BY <1>1, <1>2, <1>3, <1>4, ProfileHold, PicturesHold, RatingsHold, CatalogHold, ShelvesHold DEF Types
<1> QED BY <1>5, RegistrationSafe, AccessInvariant, AudienceInvariant, ProfileInvariant, PicturesInvariant,
           RatingsInvariant, CatalogInvariant, ShelvesInvariant, FavoritesInvariant, PTL
=============================================================================
