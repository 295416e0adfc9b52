------------------------------ MODULE Devices ------------------------------
(***************************************************************************)
(* Tokens of phones and browsers (notifications/fcm): a row for each user  *)
(* and token, active or not, to which pushes are sent.  A phone may change *)
(* hands, so that its token is known for several users.  register is a     *)
(* sequence of statements, the others are one each.  Rows are never        *)
(* deleted: deleteInactive has no caller.                                  *)
(***************************************************************************)
EXTENDS Integers, FiniteSets

CONSTANTS
  Holders,        \* users
  Tokens,
  Phones,         \* device ids; a request may give none
  Registers,      \* requests and pushes that may be open at a time
  MaxRegisters,   \* bound on registrations
  DeviceFaults    \* bound on failures

VARIABLES
  known,          \* rows of device_tokens: <<user, token>>
  activeTokens,   \* those with is_active
  phone,          \* device_id of a row, as a set of one or none
  signing,        \* where each request stands
  registers, deviceFaults,
  shared,         \* history: tokens for which a registration did not see every active row
  doubled,        \* history: users whose registrations overlapped or took a row up again
  signedOff       \* history: rows unregistered, with no registration since

deviceVars == <<known, activeTokens, phone, signing, registers, deviceFaults, shared, doubled, signedOff>>

Idle == [at |-> "idle", row |-> <<>>, phone |-> {}, other |-> <<>>, sent |-> {}]
GoTo(c, to) == signing' = [signing EXCEPT ![c] = to]
Open(user, token) == {c \in Registers : signing[c].row # <<>> /\ (signing[c].row[1] = user \/ signing[c].row[2] = token)}

Init ==
  /\ known = {} /\ activeTokens = {}
  /\ phone = [r \in Holders \X Tokens |-> {}]
  /\ signing = [c \in Registers |-> Idle]
  /\ registers = 0 /\ deviceFaults = 0
  /\ shared = {} /\ doubled = {} /\ signedOff = {}

-----------------------------------------------------------------------------
\* register: a row of this user and token is taken up again, whoever else has one.
FindOwn(c) ==
  /\ signing[c] = Idle /\ registers < MaxRegisters /\ registers' = registers + 1
  /\ \E u \in Holders, t \in Tokens, p \in {{}} \union {{d} : d \in Phones} :
       /\ GoTo(c, [Idle EXCEPT !.at = IF <<u, t>> \in known THEN "saveOwn" ELSE "findOther",
                               !.row = <<u, t>>, !.phone = p])
       /\ signedOff' = signedOff \ {<<u, t>>}
       /\ shared' = IF \E d \in Open(u, t) : signing[d].row[2] = t THEN shared \union {t} ELSE shared
       /\ doubled' = IF \E d \in Open(u, t) : signing[d].row[1] = u THEN doubled \union {u} ELSE doubled
  /\ UNCHANGED <<known, activeTokens, phone, deviceFaults>>

\* Otherwise one row of the same token is found, of whichever user, ...
FindOther(c) ==
  LET t == signing[c].row[2] IN
  /\ signing[c].at = "findOther"
  /\ \/ /\ \A r \in known : r[2] # t
        /\ GoTo(c, [signing[c] EXCEPT !.at = "sameDevice"])
        /\ UNCHANGED shared
     \/ \E r \in known :
          /\ r[2] = t
          /\ GoTo(c, [signing[c] EXCEPT !.at = "deactivate", !.other = r])
          /\ shared' = IF \E q \in activeTokens \ {r} : q[2] = t THEN shared \union {t} ELSE shared
  /\ UNCHANGED <<known, activeTokens, phone, registers, deviceFaults, doubled, signedOff>>

\* Mutant: the row of the former owner is left alone.
DeactivateOther_Skip(c) ==
  /\ signing[c].at = "deactivate"
  /\ GoTo(c, [signing[c] EXCEPT !.at = "sameDevice", !.other = <<>>])
  /\ UNCHANGED <<known, activeTokens, phone, registers, deviceFaults, shared, doubled, signedOff>>

\* ... and deactivated, ...
DeactivateOther(c) ==
  /\ signing[c].at = "deactivate"
  /\ activeTokens' = activeTokens \ {signing[c].other}
  /\ GoTo(c, [signing[c] EXCEPT !.at = "sameDevice", !.other = <<>>])
  /\ UNCHANGED <<known, phone, registers, deviceFaults, shared, doubled, signedOff>>

\* ... then the older tokens of the same device, ...
DeactivateDevice(c) ==
  LET w == signing[c] IN
  /\ w.at = "sameDevice"
  /\ activeTokens' = {r \in activeTokens : r[1] # w.row[1] \/ phone[r] \intersect w.phone = {}}
  /\ GoTo(c, [w EXCEPT !.at = "insert"])
  /\ UNCHANGED <<known, phone, registers, deviceFaults, shared, doubled, signedOff>>

\* ... and the row is inserted; the unique index refuses a second one.
Insert(c) ==
  LET w == signing[c] IN
  /\ w.at = "insert"
  /\ IF w.row \in known THEN UNCHANGED <<known, activeTokens, phone>>
     ELSE /\ known' = known \union {w.row} /\ activeTokens' = activeTokens \union {w.row}
          /\ phone' = [phone EXCEPT ![w.row] = w.phone]
  /\ GoTo(c, Idle)
  /\ UNCHANGED <<registers, deviceFaults, shared, doubled, signedOff>>

\* The row found first is saved as active; a device id that is not given is kept.
SaveOwn(c) ==
  LET w == signing[c] IN
  /\ w.at = "saveOwn"
  /\ activeTokens' = activeTokens \union {w.row}
  /\ phone' = IF w.phone = {} THEN phone ELSE [phone EXCEPT ![w.row] = w.phone]
  /\ shared' = IF \E r \in activeTokens : r[2] = w.row[2] /\ r # w.row THEN shared \union {w.row[2]} ELSE shared
  /\ doubled' = doubled \union {w.row[1]}
  /\ GoTo(c, Idle)
  /\ UNCHANGED <<known, registers, deviceFaults, signedOff>>

-----------------------------------------------------------------------------
\* A row is no longer active; who is registering it at the moment may undo that.
SignOff(R) ==
  /\ activeTokens' = activeTokens \ R
  /\ signedOff' = signedOff \union {r \in R : \A c \in Registers : signing[c].row # r}
  /\ UNCHANGED <<known, phone, registers, deviceFaults, shared, doubled>>

\* unregister and unregisterAll.
Unregister(r) == SignOff({r} \intersect known) /\ UNCHANGED signing
UnregisterAll(u) == SignOff({r \in activeTokens : r[1] = u}) /\ UNCHANGED signing

\* A push is sent to the active tokens of a user, ...
GetActiveTokens(c) ==
  /\ signing[c] = Idle
  /\ \E u \in Holders :
       LET tokens == {t \in Tokens : <<u, t>> \in activeTokens}
       IN  tokens # {} /\ GoTo(c, [Idle EXCEPT !.at = "sent", !.sent = tokens])
  /\ UNCHANGED <<known, activeTokens, phone, registers, deviceFaults, shared, doubled, signedOff>>

\* ... and those that Firebase says are not registered are deactivated for everybody.
RemoveInvalidTokens(c) ==
  /\ signing[c].at = "sent"
  /\ \E refused \in SUBSET signing[c].sent : SignOff({r \in known : r[2] \in refused})
  /\ GoTo(c, Idle)

\* A query fails, or the process ends.
Fail(c) ==
  /\ signing[c] # Idle /\ deviceFaults < DeviceFaults /\ deviceFaults' = deviceFaults + 1
  /\ GoTo(c, Idle)
  /\ UNCHANGED <<known, activeTokens, phone, registers, shared, doubled, signedOff>>

Next ==
  \/ \E c \in Registers :
       \/ FindOwn(c) \/ FindOther(c) \/ DeactivateOther(c) \/ DeactivateDevice(c) \/ Insert(c) \/ SaveOwn(c)
       \/ GetActiveTokens(c) \/ RemoveInvalidTokens(c) \/ Fail(c)
  \/ \E r \in Holders \X Tokens : Unregister(r)
  \/ \E u \in Holders : UnregisterAll(u)

Spec == Init /\ [][Next]_deviceVars

-----------------------------------------------------------------------------
\* Types; what is active is a row.
TypeOK ==
  /\ known \subseteq Holders \X Tokens /\ activeTokens \subseteq known
  /\ \A r \in Holders \X Tokens : phone[r] \subseteq Phones /\ Cardinality(phone[r]) <= 1

\* A token is active for one user, so that nobody's pushes come to a phone that
\* has changed hands, unless a registration took up a row of its own, found one
\* of several rows, or overlapped another; a device has one active token of its
\* user with the same exceptions; and what was signed off stays so until it is
\* registered again.
DevicesExplained ==
  /\ \A r, q \in activeTokens : r[2] = q[2] /\ r[2] \notin shared => r = q
  /\ \A r, q \in activeTokens :
       r[1] = q[1] /\ r[1] \notin doubled /\ phone[r] \intersect phone[q] # {} => r = q
  /\ signedOff \intersect activeTokens = {}
=============================================================================
