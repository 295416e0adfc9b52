------------------------------- MODULE Access -------------------------------
(***************************************************************************)
(* Who a request acts for: the guard looks the user up, the handler passes *)
(* one field of it to the service, the service finds the row, compares the *)
(* owner, and writes.  The row of a user has an id and no sub, while a     *)
(* third of the handlers pass sub; TypeORM leaves a condition out whose    *)
(* value is undefined, and no row is inserted without its user.  Rows of   *)
(* handlers that pass the id and of those that pass sub are kept apart, as *)
(* they are in tables of their own.                                        *)
(***************************************************************************)
EXTENDS Routes

CONSTANTS
  Users,
  Requests,   \* requests that may be open at a time
  Nobody      \* no user: no token, an unknown one, or the field that is not there

VARIABLES
  active,     \* users with is_active (written by hand: no code does)
  admins,     \* users with role admin (by hand as well)
  rows,       \* rows of users: <<field its handlers pass, owner>>
  request     \* where each request stands

accessVars == <<active, admins, rows, request>>

Idle == [at |-> "idle", bearer |-> Nobody, caller |-> Nobody, guard |-> "open", field |-> "none",
         rule |-> "read", row |-> Nobody, late |-> FALSE]
GoTo(c, to) == request' = [request EXCEPT ![c] = to]

Init ==
  /\ active = Users
  /\ admins \in SUBSET Users
  /\ rows = {}
  /\ request = [c \in Requests |-> Idle]

-----------------------------------------------------------------------------
\* JwtStrategy: the user of an access token, if it is there and active.
Validate(bearer) == IF bearer \in active THEN bearer ELSE Nobody

\* JwtAuthGuard and OptionalAuthGuard; AdminGuard on top of the first.
Passes(guard, user) ==
  \/ guard \in {"open", "opt"}
  \/ guard = "jwt" /\ user # Nobody
  \/ guard = "admin" /\ user \in admins

\* What the handler passes on: the row of a user has no sub.
Caller(route, user) == IF route.as = "id" THEN user ELSE Nobody

\* The routes that are reached; what they are called does not matter here.
Reached == {[guard |-> Routes[i].guard, as |-> Routes[i].as, rule |-> Routes[i].rule] :
              i \in (1..Len(Routes)) \ Shadowed}

\* A request comes to one of them and passes its guard.
Arrive(c) ==
  /\ request[c] = Idle
  /\ \E route \in Reached, bearer \in Users \union {Nobody} :
       LET user == IF route.guard = "open" THEN Nobody ELSE Validate(bearer)
       IN  /\ Passes(route.guard, user)
           /\ GoTo(c, [Idle EXCEPT !.at = "find", !.bearer = user, !.caller = Caller(route, user),
                         !.guard = route.guard, !.field = route.as, !.rule = route.rule])
  /\ UNCHANGED <<active, admins, rows>>

\* The rows that a condition on the caller finds: all of them when it is undefined.
FoundBy(w) == {u \in Users : <<w.field, u>> \in rows /\ w.caller \in {u, Nobody}}

\* Mutant: the owner is not compared.
IsOwner_Any(w, u) == TRUE

\* The service compares the owner of the row with the caller.
IsOwner(w, u) == u = w.caller

\* The service finds its row, or answers that there is none, or that it is not his.
Find(c) ==
  LET w == request[c] IN
  /\ w.at = "find"
  /\ \/ w.rule \in {"insert", "any"} /\ GoTo(c, [w EXCEPT !.at = "write"])
     \/ /\ w.rule = "owner"
        /\ \E u \in Users : <<w.field, u>> \in rows /\ IsOwner(w, u) /\ GoTo(c, [w EXCEPT !.at = "write", !.row = u])
     \/ /\ w.rule \in {"own", "toggle"}
        /\ \E u \in FoundBy(w) : GoTo(c, [w EXCEPT !.at = "write", !.row = u])
     \/ w.rule = "toggle" /\ FoundBy(w) = {} /\ GoTo(c, [w EXCEPT !.at = "write", !.rule = "insert"])
     \/ w.rule \in {"read", "account", "upload"} /\ GoTo(c, Idle)
     \/ w.rule \in {"owner", "own"} /\ GoTo(c, Idle)
  /\ UNCHANGED <<active, admins, rows>>

\* It writes; the column of the user must not be null.
Write(c) ==
  LET w == request[c] IN
  /\ w.at = "write"
  /\ \/ w.rule = "insert" /\ w.caller # Nobody /\ rows' = rows \union {<<w.field, w.caller>>}
     \/ w.rule = "insert" /\ w.caller = Nobody /\ UNCHANGED rows
     \/ w.rule \in {"owner", "own", "toggle"} /\ rows' \in {rows, rows \ {<<w.field, w.row>>}}
     \/ w.rule = "any" /\ UNCHANGED rows
  /\ GoTo(c, Idle)
  /\ UNCHANGED <<active, admins>>

\* Somebody changes an account in the database while requests are open.
Administer(u) ==
  /\ \/ active' \in {active \ {u}, active \union {u}} /\ UNCHANGED admins
     \/ admins' \in {admins \ {u}, admins \union {u}} /\ UNCHANGED active
  /\ request' = [c \in Requests |->
       [request[c] EXCEPT !.late = @ \/ request[c].bearer \in (active \ active') \union (admins \ admins')]]
  /\ UNCHANGED rows

Next ==
  \/ \E c \in Requests : Arrive(c) \/ Find(c) \/ Write(c)
  \/ \E u \in Users : Administer(u)

Spec == Init /\ [][Next]_accessVars

-----------------------------------------------------------------------------
\* Types; what is inserted has an owner.
TypeOK ==
  /\ active \subseteq Users /\ admins \subseteq Users
  /\ rows \subseteq {"id", "sub"} \X Users
  /\ \A c \in Requests : request[c].bearer \in Users \union {Nobody}

\* What a request is about to change is its own, or nobody's: the row of another
\* user is never reached, not even by the handlers that pass an undefined user,
\* because those have no rows to find.  Who changes something was let in as an
\* active user, as an administrator for what only they may do, and has lost that
\* at most since the request began.
AccessExplained ==
  \A c \in Requests : LET w == request[c] IN
    w.at = "write" =>
      /\ w.row \in {Nobody, w.bearer}
      /\ w.bearer \in active \/ w.late
      /\ w.guard = "admin" => w.bearer \in admins \/ w.late

\* Every handler knows the user whom its guard let in.
HandlerKnowsCaller ==
  \A c \in Requests : LET w == request[c] IN
    w.at = "write" /\ w.rule # "any" => w.caller = w.bearer
=============================================================================
