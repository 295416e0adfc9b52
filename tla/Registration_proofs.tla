--------------------------- MODULE Registration_proofs ---------------------------
(***************************************************************************)
(* Registration for any addresses, names, requests and failures.           *)
(* RowsOrdered needs to know what a waiting request has written already,   *)
(* which is Written, and IncompleteExplained is inductive beside it.       *)
(***************************************************************************)
EXTENDS Registration, TLAPS

\* What a request has chosen, and the rows it has written so far.
Written ==
  \A c \in Calls :
    /\ pc[c] # "idle" => email[c] \in Emails /\ name[c] \in Names
    /\ pc[c] \in {"insertProfile", "insertCode"} => email[c] \in users
    /\ pc[c] = "insertCode" => profile[email[c]] # "none"

Inv == TypeOK /\ Written /\ RowsOrdered /\ IncompleteExplained

\* Every step keeps the types.
LEMMA TypeStep == TypeOK /\ Written /\ [Next]_vars => TypeOK'
<1> SUFFICES ASSUME TypeOK, Written, [Next]_vars PROVE TypeOK'
  OBVIOUS
<1> USE NamesAssumption, FaultsAssumption DEF TypeOK, Pcs, Written
<1>1. ASSUME NEW c \in Calls, CheckUser(c) PROVE TypeOK'
  BY <1>1 DEF CheckUser, Go
<1>2. ASSUME NEW c \in Calls, CheckName(c) PROVE TypeOK'
  BY <1>2 DEF CheckName, Go, End
<1>3. ASSUME NEW c \in Calls, InsertUser(c) PROVE TypeOK'
  BY <1>3 DEF InsertUser, Go, End
<1>4. ASSUME NEW c \in Calls, InsertProfile(c) PROVE TypeOK'
  BY <1>4 DEF InsertProfile, Go, End
<1>5. ASSUME NEW c \in Calls, InsertCode(c) PROVE TypeOK'
  BY <1>5 DEF InsertCode, End
<1>6. ASSUME NEW c \in Calls, Fail(c) PROVE TypeOK'
  BY <1>6 DEF Fail, Stop, End
<1>7. CASE Restart
  BY <1>7 DEF Restart, Stop, End
<1>8. CASE UNCHANGED vars
  BY <1>8 DEF vars
<1> QED
  BY <1>1, <1>2, <1>3, <1>4, <1>5, <1>6, <1>7, <1>8 DEF Next

\* No request removes a row another one rests on.
LEMMA WrittenStep == TypeOK /\ Written /\ [Next]_vars => Written'
<1> SUFFICES ASSUME TypeOK, Written, [Next]_vars PROVE Written'
  OBVIOUS
<1> USE NamesAssumption, FaultsAssumption DEF TypeOK, Pcs, Written
<1>1. ASSUME NEW c \in Calls, CheckUser(c) PROVE Written'
  BY <1>1 DEF CheckUser, Go
<1>2. ASSUME NEW c \in Calls, CheckName(c) PROVE Written'
  BY <1>2 DEF CheckName, Go, End
<1>3. ASSUME NEW c \in Calls, InsertUser(c) PROVE Written'
  BY <1>3 DEF InsertUser, Go, End
<1>4. ASSUME NEW c \in Calls, InsertProfile(c) PROVE Written'
  BY <1>4 DEF InsertProfile, Go, End
<1>5. ASSUME NEW c \in Calls, InsertCode(c) PROVE Written'
  BY <1>5 DEF InsertCode, End
<1>6. ASSUME NEW c \in Calls, Fail(c) PROVE Written'
  BY <1>6 DEF Fail, Stop, End
<1>7. CASE Restart
  BY <1>7 DEF Restart, Stop, End
<1>8. CASE UNCHANGED vars
  BY <1>8 DEF vars
<1> QED
  BY <1>1, <1>2, <1>3, <1>4, <1>5, <1>6, <1>7, <1>8 DEF Next

\* Rows are written in their order, and names are not shared.
LEMMA OrderStep == TypeOK /\ Written /\ RowsOrdered /\ [Next]_vars => RowsOrdered'
<1> SUFFICES ASSUME TypeOK, Written, RowsOrdered, [Next]_vars PROVE RowsOrdered'
  OBVIOUS
<1> USE NamesAssumption, FaultsAssumption DEF TypeOK, Pcs, Written, RowsOrdered, Taken
<1>1. ASSUME NEW c \in Calls, CheckUser(c) PROVE RowsOrdered'
  BY <1>1 DEF CheckUser, Go
<1>2. ASSUME NEW c \in Calls, CheckName(c) PROVE RowsOrdered'
  BY <1>2 DEF CheckName, Go, End
<1>3. ASSUME NEW c \in Calls, InsertUser(c) PROVE RowsOrdered'
  BY <1>3 DEF InsertUser, Go, End
<1>4. ASSUME NEW c \in Calls, InsertProfile(c) PROVE RowsOrdered'
  BY <1>4 DEF InsertProfile, Go, End
<1>5. ASSUME NEW c \in Calls, InsertCode(c) PROVE RowsOrdered'
  BY <1>5 DEF InsertCode, End
<1>6. ASSUME NEW c \in Calls, Fail(c) PROVE RowsOrdered'
  BY <1>6 DEF Fail, Stop, End
<1>7. CASE Restart
  BY <1>7 DEF Restart, Stop, End
<1>8. CASE UNCHANGED vars
  BY <1>8 DEF vars
<1> QED
  BY <1>1, <1>2, <1>3, <1>4, <1>5, <1>6, <1>7, <1>8 DEF Next

\* A request leaves a user incomplete only with a reason.
LEMMA ExplainedStep == TypeOK /\ Written /\ RowsOrdered /\ IncompleteExplained /\ [Next]_vars => IncompleteExplained'
<1> SUFFICES ASSUME TypeOK, Written, RowsOrdered, IncompleteExplained, [Next]_vars PROVE IncompleteExplained'
  OBVIOUS
<1> USE NamesAssumption, FaultsAssumption DEF TypeOK, Pcs, Written, RowsOrdered, IncompleteExplained
<1>1. ASSUME NEW c \in Calls, CheckUser(c) PROVE IncompleteExplained'
  BY <1>1 DEF CheckUser, Go
<1>2. ASSUME NEW c \in Calls, CheckName(c) PROVE IncompleteExplained'
  BY <1>2 DEF CheckName, Go, End
<1>3. ASSUME NEW c \in Calls, InsertUser(c) PROVE IncompleteExplained'
  BY <1>3 DEF InsertUser, Go, End
<1>4. ASSUME NEW c \in Calls, InsertProfile(c) PROVE IncompleteExplained'
  BY <1>4 DEF InsertProfile, Go, End
<1>5. ASSUME NEW c \in Calls, InsertCode(c) PROVE IncompleteExplained'
  BY <1>5 DEF InsertCode, End
<1>6. ASSUME NEW c \in Calls, Fail(c) PROVE IncompleteExplained'
  BY <1>6 DEF Fail, Stop, End
<1>7. CASE Restart
  BY <1>7 DEF Restart, Stop, End
<1>8. CASE UNCHANGED vars
  BY <1>8 DEF vars
<1> QED
  BY <1>1, <1>2, <1>3, <1>4, <1>5, <1>6, <1>7, <1>8 DEF Next

\* Init and every step together.
THEOREM RegistrationInvariant == Spec => []Inv
<1>1. Init => Inv
  BY FaultsAssumption DEF Init, Inv, TypeOK, Pcs, Written, RowsOrdered, IncompleteExplained
<1>2. Inv /\ [Next]_vars => Inv'
  BY TypeStep, WrittenStep, OrderStep, ExplainedStep DEF Inv
<1> QED
  BY <1>1, <1>2, PTL DEF Spec

\* The variables keep their types.
THEOREM TypeCorrect == Spec => []TypeOK
<1>1. Inv => TypeOK
  BY DEF Inv
<1> QED
  BY RegistrationInvariant, <1>1, PTL

\* register writes user, profile and code in this order, and two overlapping
\* registrations never share a name.
THEOREM OrderSafe == Spec => []RowsOrdered
<1>1. Inv => RowsOrdered
  BY DEF Inv
<1> QED
  BY RegistrationInvariant, <1>1, PTL

\* An incomplete user is being completed, or lost a race for his name, or was
\* hit by a failure.
THEOREM IncompleteSafe == Spec => []IncompleteExplained
<1>1. Inv => IncompleteExplained
  BY DEF Inv
<1> QED
  BY RegistrationInvariant, <1>1, PTL
=============================================================================
