----------------------------- MODULE Registration -----------------------------
(***************************************************************************)
(* register of AuthService: three rows, of the user, his profile and his   *)
(* verification code, written by three statements without a transaction,   *)
(* after two look-ups.  Requests for the same address or the same user     *)
(* name overlap; the unique indexes on users.email and on                  *)
(* user_profiles.username are all that separates them.  A telephone number *)
(* is checked and indexed as the address is, and is left out.              *)
(***************************************************************************)
EXTENDS Integers

CONSTANTS
  Emails, Names,   \* addresses and user names
  Calls,           \* requests in progress at the same time
  MaxFaults        \* bound on failed calls and restarts

ASSUME NamesAssumption == "none" \notin Names /\ "none" \notin Emails
ASSUME FaultsAssumption == MaxFaults \in Nat

VARIABLES
  users,     \* addresses with a users row
  profile,   \* the user name in the profile of an address, or "none"
  coded,     \* addresses with a verification code
  pc,        \* where a request waits
  email,     \* the address a request registers
  name,      \* and the user name
  excuse,    \* history: addresses whose request lost a race or failed
  faults     \* the bound

vars == <<users, profile, coded, pc, email, name, excuse, faults>>

Init ==
  /\ users = {}
  /\ profile = [e \in Emails |-> "none"]
  /\ coded = {}
  /\ pc = [c \in Calls |-> "idle"]
  /\ email = [c \in Calls |-> "none"]
  /\ name = [c \in Calls |-> "none"]
  /\ excuse = {}
  /\ faults = 0

Go(c, to) == pc' = [pc EXCEPT ![c] = to]
Taken(n) == \E e \in Emails : profile[e] = n

End(ended) ==
  /\ pc' = [c \in Calls |-> IF c \in ended THEN "idle" ELSE pc[c]]
  /\ email' = [c \in Calls |-> IF c \in ended THEN "none" ELSE email[c]]
  /\ name' = [c \in Calls |-> IF c \in ended THEN "none" ELSE name[c]]

\* findOne of the user: a known address is refused.
CheckUser(c) ==
  /\ pc[c] = "idle"
  /\ \E e \in Emails, n \in Names :
       IF e \in users THEN UNCHANGED <<pc, email, name>>
       ELSE /\ email' = [email EXCEPT ![c] = e]
            /\ name' = [name EXCEPT ![c] = n]
            /\ Go(c, "checkName")
  /\ UNCHANGED <<users, profile, coded, excuse, faults>>

CheckName(c) ==
  /\ pc[c] = "checkName"
  /\ IF Taken(name[c]) THEN End({c}) ELSE Go(c, "insertUser") /\ UNCHANGED <<email, name>>
  /\ UNCHANGED <<users, profile, coded, excuse, faults>>

\* After bcrypt; the index refuses an address registered meanwhile.
InsertUser(c) ==
  /\ pc[c] = "insertUser"
  /\ IF email[c] \in users THEN End({c}) /\ UNCHANGED users
     ELSE /\ users' = users \cup {email[c]}
          /\ Go(c, "insertProfile")
          /\ UNCHANGED <<email, name>>
  /\ UNCHANGED <<profile, coded, excuse, faults>>

\* Mutant: the error of the index is swallowed.
InsertProfile_Swallow(c) ==
  /\ pc[c] = "insertProfile"
  /\ Go(c, "insertCode")
  /\ UNCHANGED <<users, coded, email, name, excuse, faults>>
  /\ profile' = IF Taken(name[c]) THEN profile ELSE [profile EXCEPT ![email[c]] = name[c]]

\* Mutant: a value that is no user name.
InsertProfile_Name(c) ==
  /\ pc[c] = "insertProfile"
  /\ profile' = [profile EXCEPT ![email[c]] = email[c]]
  /\ Go(c, "insertCode")
  /\ UNCHANGED <<users, coded, email, name, excuse, faults>>

\* The index refuses a name taken meanwhile; the users row stays.
InsertProfile(c) ==
  /\ pc[c] = "insertProfile"
  /\ IF Taken(name[c])
     THEN End({c}) /\ excuse' = excuse \cup {email[c]} /\ UNCHANGED profile
     ELSE /\ profile' = [profile EXCEPT ![email[c]] = name[c]]
          /\ Go(c, "insertCode")
          /\ UNCHANGED <<email, name, excuse>>
  /\ UNCHANGED <<users, coded, faults>>

\* Mutant: the code is mailed and not saved.
InsertCode_Skip(c) ==
  /\ pc[c] = "insertCode"
  /\ coded' = coded
  /\ End({c})
  /\ UNCHANGED <<users, profile, excuse, faults>>

\* generateAndSaveOtp; sending the mail never throws.
InsertCode(c) ==
  /\ pc[c] = "insertCode"
  /\ coded' = coded \cup {email[c]}
  /\ End({c})
  /\ UNCHANGED <<users, profile, excuse, faults>>

\* A query throws, or the server ends: the rows that are written stay.
Stop(stopped) ==
  /\ faults < MaxFaults /\ faults' = faults + 1
  /\ \E c \in stopped : pc[c] # "idle"
  /\ End(stopped)
  /\ excuse' = excuse \cup {email[c] : c \in {d \in stopped : pc[d] \in {"insertProfile", "insertCode"}}}
  /\ UNCHANGED <<users, profile, coded>>

Fail(c) == Stop({c})
Restart == Stop(Calls)

Next ==
  \/ \E c \in Calls : \/ CheckUser(c) \/ CheckName(c) \/ InsertUser(c)
                      \/ InsertProfile(c) \/ InsertCode(c) \/ Fail(c)
  \/ Restart

Spec == Init /\ [][Next]_vars

(***************************************************************************)
(* Properties                                                              *)
(***************************************************************************)
Pcs == {"idle", "checkName", "insertUser", "insertProfile", "insertCode"}

\* The variables have their types.
TypeOK ==
  /\ users \subseteq Emails /\ coded \subseteq Emails /\ excuse \subseteq Emails
  /\ profile \in [Emails -> Names \cup {"none"}]
  /\ pc \in [Calls -> Pcs]
  /\ email \in [Calls -> Emails \cup {"none"}]
  /\ name \in [Calls -> Names \cup {"none"}]
  /\ faults \in 0..MaxFaults

\* A code goes only to a user with a profile, a profile belongs to a user, and
\* no two profiles have the same name, however requests overlap and stop.
RowsOrdered ==
  /\ \A e \in coded : profile[e] # "none"
  /\ \A e \in Emails : profile[e] # "none" => e \in users
  /\ \A e, f \in Emails : profile[e] = profile[f] /\ profile[e] # "none" => e = f

\* A user without profile or code can never get them: the address is taken.  His
\* request is still running, or it failed, or another took the user name.
IncompleteExplained ==
  \A e \in users : profile[e] = "none" \/ e \notin coded =>
    \/ e \in excuse
    \/ \E c \in Calls : pc[c] \in {"insertProfile", "insertCode"} /\ email[c] = e
=============================================================================
