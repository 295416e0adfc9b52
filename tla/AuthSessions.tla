----------------------------- MODULE AuthSessions -----------------------------
(***************************************************************************)
(* The sessions of one registered user: the users row, the codes mailed to *)
(* him and the rows of the refresh_tokens table, as AuthService changes    *)
(* them in verifyOtp, login, refreshTokens, logout, forgotPassword and     *)
(* resetPassword.                                                          *)
(*                                                                         *)
(* No request holds a transaction or a lock: each await is a step, and     *)
(* requests of the same user interleave between any two.  TypeORM's save   *)
(* of an entity that was loaded writes every column in which the row now   *)
(* differs from the entity, so it also writes back what other requests     *)
(* changed since; its update writes the named columns only.  A save is one *)
(* step here, although the library reads the row and then writes it.       *)
(*                                                                         *)
(* A password is named by the code it was set with.  Left out: expiry of   *)
(* refresh tokens (a client that never comes back), wrong credentials and  *)
(* unknown codes (no write), isActive (no operation changes it), codes for *)
(* phones (none is ever made), the profile.                                *)
(***************************************************************************)
EXTENDS Integers, FiniteSets

CONSTANTS
  VerifyCode,   \* the code mailed at registration
  ResetCodes,   \* the codes forgotPassword can mail
  Tokens,       \* ids of refresh tokens
  Calls,        \* requests in progress at the same time
  MaxFaults     \* bound on failed calls and restarts

ASSUME CodesAssumption == VerifyCode \notin ResetCodes /\ "initial" \notin ResetCodes
ASSUME TokensAssumption == IsFiniteSet(Tokens) /\ "none" \notin Tokens
ASSUME FaultsAssumption == MaxFaults \in Nat

VARIABLES
  user,     \* the row: its password and whether the e-mail is verified
  otp,      \* a code is "absent", "sent", "used" or "expired"
  token,    \* a refresh token, see Stages
  pc,       \* where a request waits; an idle one can start
  loaded,   \* the user entity a request holds
  code,     \* the code it was given
  old,      \* the refresh token it exchanges
  new,      \* the refresh token it makes
  excuse,   \* history: why the user may be locked out
  faults    \* the bound

vars == <<user, otp, token, pc, loaded, code, old, new, excuse, faults>>

Codes == ResetCodes \cup {VerifyCode}
Users == [password : ResetCodes \cup {"initial"}, email : {"unverified", "verified"}]
NewUser == [password |-> "initial", email |-> "unverified"]

\* A row is inserted without its hash ("pending") and completed by a second
\* save ("live"); it is revoked in either stage ("cut", "revoked").
Stages == {"absent", "pending", "live", "cut", "revoked"}

\* The user has registered and the mail is out.
Init ==
  /\ user = NewUser
  /\ otp = [o \in Codes |-> IF o = VerifyCode THEN "sent" ELSE "absent"]
  /\ token = [t \in Tokens |-> "absent"]
  /\ pc = [c \in Calls |-> "idle"]
  /\ loaded = [c \in Calls |-> NewUser]
  /\ code = [c \in Calls |-> VerifyCode]
  /\ old = [c \in Calls |-> "none"]
  /\ new = [c \in Calls |-> "none"]
  /\ excuse = "none"
  /\ faults = 0

Go(c, to) == pc' = [pc EXCEPT ![c] = to]

\* The requests in ended are over; their locals are gone.
End(ended) ==
  /\ pc' = [c \in Calls |-> IF c \in ended THEN "idle" ELSE pc[c]]
  /\ loaded' = [c \in Calls |-> IF c \in ended THEN NewUser ELSE loaded[c]]
  /\ code' = [c \in Calls |-> IF c \in ended THEN VerifyCode ELSE code[c]]
  /\ old' = [c \in Calls |-> IF c \in ended THEN "none" ELSE old[c]]
  /\ new' = [c \in Calls |-> IF c \in ended THEN "none" ELSE new[c]]

\* save(user), with the loaded columns except those the request has set.
Save(entity) ==
  /\ user' = entity
  /\ excuse' = IF user.email = "verified" /\ entity.email = "unverified"
               THEN "overwritten" ELSE excuse

\* A bound: the requests that make a token never run out of ids.
Issuing == {"verifyUse", "verifyLoad", "verifySave", "loginSave", "rotate",
            "load", "insert"}
IdLeft == Cardinality({c \in Calls : pc[c] \in Issuing})
            < Cardinality({t \in Tokens : token[t] = "absent"})

(***************************************************************************)
(* verifyOtp                                                               *)
(***************************************************************************)
\* findOne of the code: one that is used or expired ends the request.
VerifyFind(c) ==
  /\ pc[c] = "idle" /\ IdLeft
  /\ \E o \in Codes : otp[o] = "sent" /\ code' = [code EXCEPT ![c] = o]
  /\ Go(c, "verifyUse")
  /\ UNCHANGED <<user, otp, token, loaded, old, new, excuse, faults>>

\* Mutant: a state no code has.
UseCode_State(c, from, to) ==
  /\ pc[c] = from
  /\ otp' = [otp EXCEPT ![code[c]] = "verified"]
  /\ Go(c, to)
  /\ UNCHANGED <<user, token, loaded, code, old, new, excuse, faults>>

\* save(otpCode): the row was checked one await ago.
UseCode(c, from, to) ==
  /\ pc[c] = from
  /\ otp' = [otp EXCEPT ![code[c]] = "used"]
  /\ Go(c, to)
  /\ UNCHANGED <<user, token, loaded, code, old, new, excuse, faults>>

VerifyUse(c) == UseCode(c, "verifyUse", "verifyLoad")

VerifyLoad(c) ==
  /\ pc[c] = "verifyLoad"
  /\ loaded' = [loaded EXCEPT ![c] = user]
  /\ Go(c, "verifySave")
  /\ UNCHANGED <<user, otp, token, code, old, new, excuse, faults>>

\* Mutant: the flag is not set.
VerifySave_NoFlag(c) ==
  /\ pc[c] = "verifySave"
  /\ Save(loaded[c])
  /\ Go(c, "insert")
  /\ UNCHANGED <<otp, token, loaded, code, old, new, faults>>

\* A code for a password reset is accepted too, and sets nothing.
VerifySave(c) ==
  /\ pc[c] = "verifySave"
  /\ Save(IF code[c] = VerifyCode THEN [loaded[c] EXCEPT !.email = "verified"]
          ELSE loaded[c])
  /\ Go(c, "insert")
  /\ UNCHANGED <<otp, token, loaded, code, old, new, faults>>

(***************************************************************************)
(* login, refreshTokens, logout                                            *)
(***************************************************************************)
\* The password is compared with the loaded hash at the next await.
LoginLoad(c) ==
  /\ pc[c] = "idle" /\ IdLeft
  /\ user.email = "verified"
  /\ loaded' = [loaded EXCEPT ![c] = user]
  /\ Go(c, "loginSave")
  /\ UNCHANGED <<user, otp, token, code, old, new, excuse, faults>>

\* lastLoginAt is set and the entity saved.
LoginSave(c) ==
  /\ pc[c] = "loginSave"
  /\ Save(loaded[c])
  /\ Go(c, "insert")
  /\ UNCHANGED <<otp, token, loaded, code, old, new, faults>>

\* Mutant: no rotation, the presented token stays usable.
RefreshFind_NoRotation(c) ==
  /\ pc[c] = "idle" /\ IdLeft
  /\ \E t \in Tokens : token[t] = "live" /\ old' = [old EXCEPT ![c] = t]
  /\ Go(c, "load")
  /\ UNCHANGED <<user, otp, token, loaded, code, new, excuse, faults>>

\* findOne of the presented token, and its checks.
RefreshFind(c) ==
  /\ pc[c] = "idle" /\ IdLeft
  /\ \E t \in Tokens : token[t] = "live" /\ old' = [old EXCEPT ![c] = t]
  /\ Go(c, "rotate")
  /\ UNCHANGED <<user, otp, token, loaded, code, new, excuse, faults>>

\* Mutant: the entity is saved as it was found.
Rotate_Stale(c) ==
  /\ pc[c] = "rotate"
  /\ token' = [token EXCEPT ![old[c]] = "live"]
  /\ Go(c, "load")
  /\ UNCHANGED <<user, otp, loaded, code, old, new, excuse, faults>>

\* save(storedToken), revoked; the checks are one bcrypt call old.
Rotate(c) ==
  /\ pc[c] = "rotate"
  /\ token' = [token EXCEPT ![old[c]] = "revoked"]
  /\ Go(c, "load")
  /\ UNCHANGED <<user, otp, loaded, code, old, new, excuse, faults>>

RefreshLoad(c) ==
  /\ pc[c] = "load"
  /\ loaded' = [loaded EXCEPT ![c] = user]
  /\ Go(c, "insert")
  /\ UNCHANGED <<user, otp, token, code, old, new, excuse, faults>>

\* generateTokens: the row is inserted to get its id.
Insert(c) ==
  /\ pc[c] = "insert"
  /\ \E t \in Tokens : /\ token[t] = "absent"
                       /\ token' = [token EXCEPT ![t] = "pending"]
                       /\ new' = [new EXCEPT ![c] = t]
  /\ Go(c, "finish")
  /\ UNCHANGED <<user, otp, loaded, code, old, excuse, faults>>

\* The second save sets the hash.  revokedAt of this entity has never been
\* set: the library leaves it undefined, and skips it, or makes it null after
\* the insert, and then takes back a revocation that came in between.
Finish(c) ==
  /\ pc[c] = "finish"
  /\ \E stage \in {"live", "revoked"} :
       /\ token[new[c]] = "pending" => stage = "live"
       /\ token' = [token EXCEPT ![new[c]] = stage]
  /\ End({c})
  /\ UNCHANGED <<user, otp, excuse, faults>>

\* logout: one update of the presented token, usable or not.
Logout(c) ==
  /\ pc[c] = "idle"
  /\ \E t \in Tokens : /\ token[t] = "live"
                       /\ token' = [token EXCEPT ![t] = "revoked"]
  /\ UNCHANGED <<user, otp, pc, loaded, code, old, new, excuse, faults>>

(***************************************************************************)
(* forgotPassword, resetPassword                                           *)
(***************************************************************************)
\* The code is inserted, then mailed; nobody knows it before.
Forgot(c) ==
  /\ pc[c] = "idle"
  /\ \E o \in ResetCodes : /\ otp[o] = "absent"
                           /\ otp' = [otp EXCEPT ![o] = "sent"]
  /\ UNCHANGED <<user, token, pc, loaded, code, old, new, excuse, faults>>

\* The user is loaded before the code is looked at.
ResetLoad(c) ==
  /\ pc[c] = "idle"
  /\ \E o \in ResetCodes : otp[o] # "absent" /\ code' = [code EXCEPT ![c] = o]
  /\ loaded' = [loaded EXCEPT ![c] = user]
  /\ Go(c, "resetFind")
  /\ UNCHANGED <<user, otp, token, old, new, excuse, faults>>

\* Mutant: the code is not used up.
ResetFind_NoUse(c) ==
  /\ pc[c] = "resetFind"
  /\ IF otp[code[c]] = "sent" THEN Go(c, "resetSave") /\ UNCHANGED <<loaded, code, old, new>>
     ELSE End({c})
  /\ UNCHANGED <<user, otp, token, excuse, faults>>

ResetFind(c) ==
  /\ pc[c] = "resetFind"
  /\ IF otp[code[c]] = "sent" THEN Go(c, "resetUse") /\ UNCHANGED <<loaded, code, old, new>>
     ELSE End({c})
  /\ UNCHANGED <<user, otp, token, excuse, faults>>

ResetUse(c) == UseCode(c, "resetUse", "resetSave")

ResetSave(c) ==
  /\ pc[c] = "resetSave"
  /\ Save([loaded[c] EXCEPT !.password = code[c]])
  /\ Go(c, "revoke")
  /\ UNCHANGED <<otp, token, loaded, code, old, new, faults>>

\* One update of all rows of the user: the condition revokedAt: undefined is
\* no condition.
Revoke(c) ==
  /\ pc[c] = "revoke"
  /\ token' = [t \in Tokens |-> CASE token[t] = "live" -> "revoked"
                                  [] token[t] = "pending" -> "cut"
                                  [] OTHER -> token[t]]
  /\ End({c})
  /\ UNCHANGED <<user, otp, excuse, faults>>

(***************************************************************************)
(* The surroundings                                                        *)
(***************************************************************************)
\* Ten minutes are over.
ExpireCode ==
  /\ \E o \in Codes : otp[o] = "sent" /\ otp' = [otp EXCEPT ![o] = "expired"]
  /\ UNCHANGED <<user, token, pc, loaded, code, old, new, excuse, faults>>

\* Requests end where they are.
Stop(stopped) ==
  /\ faults < MaxFaults /\ faults' = faults + 1
  /\ \E c \in stopped : pc[c] # "idle"
  /\ End(stopped)
  /\ excuse' = IF \E c \in stopped : /\ pc[c] \in {"verifyLoad", "verifySave"}
                                     /\ code[c] = VerifyCode
               THEN "failed" ELSE excuse
  /\ UNCHANGED <<user, otp, token>>

Fail(c) == Stop({c})      \* a call to the database throws
Restart == Stop(Calls)    \* the server ends and is started again

Verify(c) == VerifyFind(c) \/ VerifyUse(c) \/ VerifyLoad(c) \/ VerifySave(c)
Login(c) == LoginLoad(c) \/ LoginSave(c)
Refresh(c) == RefreshFind(c) \/ Rotate(c) \/ RefreshLoad(c)
GenerateTokens(c) == Insert(c) \/ Finish(c)
Reset(c) == Forgot(c) \/ ResetLoad(c) \/ ResetFind(c) \/ ResetUse(c) \/ ResetSave(c) \/ Revoke(c)

Next ==
  \/ \E c \in Calls : \/ Verify(c) \/ Login(c) \/ Refresh(c) \/ Logout(c)
                      \/ GenerateTokens(c) \/ Reset(c) \/ Fail(c)
  \/ ExpireCode
  \/ Restart

Spec == Init /\ [][Next]_vars

(***************************************************************************)
(* Properties                                                              *)
(***************************************************************************)
Pcs == Issuing \cup {"idle", "finish", "resetFind", "resetUse", "resetSave", "revoke"}

\* The variables have their types.
TypeOK ==
  /\ user \in Users
  /\ otp \in [Codes -> {"absent", "sent", "used", "expired"}]
  /\ token \in [Tokens -> Stages]
  /\ pc \in [Calls -> Pcs]
  /\ loaded \in [Calls -> Users]
  /\ code \in [Calls -> Codes]
  /\ old \in [Calls -> Tokens \cup {"none"}]
  /\ new \in [Calls -> Tokens \cup {"none"}]
  /\ excuse \in {"none", "overwritten", "failed"}
  /\ faults \in 0..MaxFaults

\* What a code stands for happens only after the code is used up, wherever a
\* request stops and whatever stale entity another one saves: a password in
\* force or about to be saved, and a verified e-mail, have their code used.
Backed(u) ==
  /\ u.password = "initial" \/ otp[u.password] = "used"
  /\ u.email = "verified" => otp[VerifyCode] = "used"
EffectsNeedCode ==
  /\ Backed(user)
  /\ \A c \in Calls : Backed(loaded[c])

\* Rotation: a request that is about to make a token in exchange for another
\* has revoked the other, and no overlapping one has taken that back.
OriginRevoked ==
  \A c \in Calls : pc[c] \in {"load", "insert", "finish"} /\ old[c] # "none" =>
    token[old[c]] = "revoked"

\* A token a client holds that was revoked stays so: no stale entity, of the
\* token or of the user, makes it usable again.
RevokedStays == [][\A t \in Tokens : token[t] = "revoked" => token'[t] = "revoked"]_vars

\* There is no way to ask for a second verification code.  A user whose code is
\* used up is verified, or is being verified, or was hit by a failure between
\* the two saves or by a stale save.
LockoutExplained ==
  user.email = "unverified" /\ otp[VerifyCode] = "used" =>
    \/ excuse # "none"
    \/ \E c \in Calls : pc[c] \in {"verifyLoad", "verifySave"} /\ code[c] = VerifyCode

(***************************************************************************)
(* What the answer of resetPassword says                                   *)
(***************************************************************************)
\* auth.service.ts:344, "Password reset successful. Please login with your new
\* password.": no other request changes the password.
ResetSticks ==
  [][\A c \in Calls : LoginSave(c) \/ VerifySave(c) => user'.password = user.password]_vars
=============================================================================
