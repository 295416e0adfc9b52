--------------------------- MODULE AuthSessions_proofs ---------------------------
(***************************************************************************)
(* The sessions of a user for any number of codes, tokens, requests and    *)
(* failures.  EffectsNeedCode and OriginRevoked are not inductive alone:   *)
(* a request acts on what it checked some awaits ago.  CodeTaken and       *)
(* Owned say what is still true of it when it acts: its code stays used,   *)
(* the row it inserted is touched by nobody else in a way that would make  *)
(* it another request's, the token it exchanges has left the stage in      *)
(* which it could be completed.                                            *)
(***************************************************************************)
EXTENDS AuthSessions, TLAPS

\* A request that resets the password was given a code for that.
ResetCode ==
  \A c \in Calls : pc[c] \in {"resetFind", "resetUse", "resetSave"} => code[c] \in ResetCodes

\* Between the use of its code and the save that rests on it the code is used.
CodeTaken ==
  \A c \in Calls : pc[c] \in {"verifyLoad", "verifySave", "resetSave"} => otp[code[c]] = "used"

\* The stages of the tokens a request holds.
Owned ==
  \A c \in Calls :
    /\ pc[c] \notin {"rotate", "load", "insert", "finish"} => old[c] = "none"
    /\ pc[c] = "rotate" => old[c] \in Tokens /\ token[old[c]] \in {"live", "revoked"}
    /\ pc[c] = "finish" => new[c] \in Tokens /\ token[new[c]] \in {"pending", "cut"}
    /\ pc[c] = "finish" => \A d \in Calls \ {c} : pc[d] = "finish" => new[d] # new[c]

Inv == TypeOK /\ ResetCode /\ CodeTaken /\ EffectsNeedCode /\ Owned /\ OriginRevoked
       /\ LockoutExplained

\* Every step keeps the types.
LEMMA TypeStep == TypeOK /\ ResetCode /\ Owned /\ [Next]_vars => TypeOK'
<1> SUFFICES ASSUME TypeOK, ResetCode, Owned, [Next]_vars PROVE TypeOK'
  OBVIOUS
<1> USE CodesAssumption, TokensAssumption, FaultsAssumption DEF TypeOK, Users, NewUser, Codes, Stages, Pcs, Issuing, ResetCode, Owned
<1>1. ASSUME NEW c \in Calls, VerifyFind(c) PROVE TypeOK'
  BY <1>1 DEF VerifyFind, Go
<1>2. ASSUME NEW c \in Calls, VerifyUse(c) PROVE TypeOK'
  BY <1>2 DEF VerifyUse, UseCode, Go
<1>3. ASSUME NEW c \in Calls, VerifyLoad(c) PROVE TypeOK'
  BY <1>3 DEF VerifyLoad, Go
<1>4. ASSUME NEW c \in Calls, VerifySave(c) PROVE TypeOK'
  BY <1>4 DEF VerifySave, Save, Go
<1>5. ASSUME NEW c \in Calls, LoginLoad(c) PROVE TypeOK'
  BY <1>5 DEF LoginLoad, Go
<1>6. ASSUME NEW c \in Calls, LoginSave(c) PROVE TypeOK'
  BY <1>6 DEF LoginSave, Save, Go
<1>7. ASSUME NEW c \in Calls, RefreshFind(c) PROVE TypeOK'
  BY <1>7 DEF RefreshFind, Go
<1>8. ASSUME NEW c \in Calls, Rotate(c) PROVE TypeOK'
  BY <1>8 DEF Rotate, Go
<1>9. ASSUME NEW c \in Calls, RefreshLoad(c) PROVE TypeOK'
  BY <1>9 DEF RefreshLoad, Go
<1>10. ASSUME NEW c \in Calls, Logout(c) PROVE TypeOK'
  BY <1>10 DEF Logout
<1>11. ASSUME NEW c \in Calls, Insert(c) PROVE TypeOK'
  BY <1>11 DEF Insert, Go
<1>12. ASSUME NEW c \in Calls, Finish(c) PROVE TypeOK'
  BY <1>12 DEF Finish, End
<1>13. ASSUME NEW c \in Calls, Forgot(c) PROVE TypeOK'
  BY <1>13 DEF Forgot
<1>14. ASSUME NEW c \in Calls, ResetLoad(c) PROVE TypeOK'
  BY <1>14 DEF ResetLoad, Go
<1>15. ASSUME NEW c \in Calls, ResetFind(c) PROVE TypeOK'
  BY <1>15, SMTT(30) DEF ResetFind, Go, End
<1>16. ASSUME NEW c \in Calls, ResetUse(c) PROVE TypeOK'
  BY <1>16 DEF ResetUse, UseCode, Go
<1>17. ASSUME NEW c \in Calls, ResetSave(c) PROVE TypeOK'
  BY <1>17 DEF ResetSave, Save, Go
<1>18. ASSUME NEW c \in Calls, Revoke(c) PROVE TypeOK'
  BY <1>18 DEF Revoke, End
<1>19. ASSUME NEW c \in Calls, Fail(c) PROVE TypeOK'
  BY <1>19 DEF Fail, Stop, End
<1>20. CASE ExpireCode
  BY <1>20 DEF ExpireCode
<1>21. CASE Restart
  BY <1>21 DEF Restart, Stop, End
<1>22. CASE UNCHANGED vars
  BY <1>22 DEF vars
<1> QED
  BY <1>1, <1>2, <1>3, <1>4, <1>5, <1>6, <1>7, <1>8, <1>9, <1>10, <1>11, <1>12, <1>13, <1>14, <1>15, <1>16, <1>17, <1>18, <1>19, <1>20, <1>21, <1>22 DEF Next, Verify, Login, Refresh, GenerateTokens, Reset

\* Every step keeps the codes of resets apart from the first one.
LEMMA ResetCodeStep == TypeOK /\ ResetCode /\ [Next]_vars => ResetCode'
<1> SUFFICES ASSUME TypeOK, ResetCode, [Next]_vars PROVE ResetCode'
  OBVIOUS
<1> USE CodesAssumption, TokensAssumption, FaultsAssumption DEF TypeOK, Users, NewUser, Codes, Stages, Pcs, Issuing, ResetCode
<1>1. ASSUME NEW c \in Calls, VerifyFind(c) PROVE ResetCode'
  BY <1>1 DEF VerifyFind, Go
<1>2. ASSUME NEW c \in Calls, VerifyUse(c) PROVE ResetCode'
  BY <1>2 DEF VerifyUse, UseCode, Go
<1>3. ASSUME NEW c \in Calls, VerifyLoad(c) PROVE ResetCode'
  BY <1>3 DEF VerifyLoad, Go
<1>4. ASSUME NEW c \in Calls, VerifySave(c) PROVE ResetCode'
  BY <1>4 DEF VerifySave, Save, Go
<1>5. ASSUME NEW c \in Calls, LoginLoad(c) PROVE ResetCode'
  BY <1>5 DEF LoginLoad, Go
<1>6. ASSUME NEW c \in Calls, LoginSave(c) PROVE ResetCode'
  BY <1>6 DEF LoginSave, Save, Go
<1>7. ASSUME NEW c \in Calls, RefreshFind(c) PROVE ResetCode'
  BY <1>7 DEF RefreshFind, Go
<1>8. ASSUME NEW c \in Calls, Rotate(c) PROVE ResetCode'
  BY <1>8 DEF Rotate, Go
<1>9. ASSUME NEW c \in Calls, RefreshLoad(c) PROVE ResetCode'
  BY <1>9 DEF RefreshLoad, Go
<1>10. ASSUME NEW c \in Calls, Logout(c) PROVE ResetCode'
  BY <1>10 DEF Logout
<1>11. ASSUME NEW c \in Calls, Insert(c) PROVE ResetCode'
  BY <1>11 DEF Insert, Go
<1>12. ASSUME NEW c \in Calls, Finish(c) PROVE ResetCode'
  BY <1>12 DEF Finish, End
<1>13. ASSUME NEW c \in Calls, Forgot(c) PROVE ResetCode'
  BY <1>13 DEF Forgot
<1>14. ASSUME NEW c \in Calls, ResetLoad(c) PROVE ResetCode'
  BY <1>14 DEF ResetLoad, Go
<1>15. ASSUME NEW c \in Calls, ResetFind(c) PROVE ResetCode'
  BY <1>15 DEF ResetFind, Go, End
<1>16. ASSUME NEW c \in Calls, ResetUse(c) PROVE ResetCode'
  BY <1>16 DEF ResetUse, UseCode, Go
<1>17. ASSUME NEW c \in Calls, ResetSave(c) PROVE ResetCode'
  BY <1>17 DEF ResetSave, Save, Go
<1>18. ASSUME NEW c \in Calls, Revoke(c) PROVE ResetCode'
  BY <1>18 DEF Revoke, End
<1>19. ASSUME NEW c \in Calls, Fail(c) PROVE ResetCode'
  BY <1>19 DEF Fail, Stop, End
<1>20. CASE ExpireCode
  BY <1>20 DEF ExpireCode
<1>21. CASE Restart
  BY <1>21 DEF Restart, Stop, End
<1>22. CASE UNCHANGED vars
  BY <1>22 DEF vars
<1> QED
  BY <1>1, <1>2, <1>3, <1>4, <1>5, <1>6, <1>7, <1>8, <1>9, <1>10, <1>11, <1>12, <1>13, <1>14, <1>15, <1>16, <1>17, <1>18, <1>19, <1>20, <1>21, <1>22 DEF Next, Verify, Login, Refresh, GenerateTokens, Reset

\* A used code stays used while a request rests on it.
LEMMA CodeTakenStep == TypeOK /\ ResetCode /\ CodeTaken /\ [Next]_vars => CodeTaken'
<1> SUFFICES ASSUME TypeOK, ResetCode, CodeTaken, [Next]_vars PROVE CodeTaken'
  OBVIOUS
<1> USE CodesAssumption, TokensAssumption, FaultsAssumption DEF TypeOK, Users, NewUser, Codes, Stages, Pcs, Issuing, ResetCode, CodeTaken
<1>1. ASSUME NEW c \in Calls, VerifyFind(c) PROVE CodeTaken'
  BY <1>1 DEF VerifyFind, Go
<1>2. ASSUME NEW c \in Calls, VerifyUse(c) PROVE CodeTaken'
  BY <1>2 DEF VerifyUse, UseCode, Go
<1>3. ASSUME NEW c \in Calls, VerifyLoad(c) PROVE CodeTaken'
  BY <1>3 DEF VerifyLoad, Go
<1>4. ASSUME NEW c \in Calls, VerifySave(c) PROVE CodeTaken'
  BY <1>4 DEF VerifySave, Save, Go
<1>5. ASSUME NEW c \in Calls, LoginLoad(c) PROVE CodeTaken'
  BY <1>5 DEF LoginLoad, Go
<1>6. ASSUME NEW c \in Calls, LoginSave(c) PROVE CodeTaken'
  BY <1>6 DEF LoginSave, Save, Go
<1>7. ASSUME NEW c \in Calls, RefreshFind(c) PROVE CodeTaken'
  BY <1>7 DEF RefreshFind, Go
<1>8. ASSUME NEW c \in Calls, Rotate(c) PROVE CodeTaken'
  BY <1>8 DEF Rotate, Go
<1>9. ASSUME NEW c \in Calls, RefreshLoad(c) PROVE CodeTaken'
  BY <1>9 DEF RefreshLoad, Go
<1>10. ASSUME NEW c \in Calls, Logout(c) PROVE CodeTaken'
  BY <1>10 DEF Logout
<1>11. ASSUME NEW c \in Calls, Insert(c) PROVE CodeTaken'
  BY <1>11 DEF Insert, Go
<1>12. ASSUME NEW c \in Calls, Finish(c) PROVE CodeTaken'
  BY <1>12 DEF Finish, End
<1>13. ASSUME NEW c \in Calls, Forgot(c) PROVE CodeTaken'
  BY <1>13 DEF Forgot
<1>14. ASSUME NEW c \in Calls, ResetLoad(c) PROVE CodeTaken'
  BY <1>14 DEF ResetLoad, Go
<1>15. ASSUME NEW c \in Calls, ResetFind(c) PROVE CodeTaken'
  BY <1>15 DEF ResetFind, Go, End
<1>16. ASSUME NEW c \in Calls, ResetUse(c) PROVE CodeTaken'
  BY <1>16 DEF ResetUse, UseCode, Go
<1>17. ASSUME NEW c \in Calls, ResetSave(c) PROVE CodeTaken'
  BY <1>17 DEF ResetSave, Save, Go
<1>18. ASSUME NEW c \in Calls, Revoke(c) PROVE CodeTaken'
  BY <1>18 DEF Revoke, End
<1>19. ASSUME NEW c \in Calls, Fail(c) PROVE CodeTaken'
  BY <1>19 DEF Fail, Stop, End
<1>20. CASE ExpireCode
  BY <1>20 DEF ExpireCode
<1>21. CASE Restart
  BY <1>21 DEF Restart, Stop, End
<1>22. CASE UNCHANGED vars
  BY <1>22 DEF vars
<1> QED
  BY <1>1, <1>2, <1>3, <1>4, <1>5, <1>6, <1>7, <1>8, <1>9, <1>10, <1>11, <1>12, <1>13, <1>14, <1>15, <1>16, <1>17, <1>18, <1>19, <1>20, <1>21, <1>22 DEF Next, Verify, Login, Refresh, GenerateTokens, Reset

\* No step writes or loads a user whose codes are not used.
LEMMA EffectsStep == TypeOK /\ ResetCode /\ CodeTaken /\ EffectsNeedCode /\ [Next]_vars => EffectsNeedCode'
<1> SUFFICES ASSUME TypeOK, ResetCode, CodeTaken, EffectsNeedCode, [Next]_vars PROVE EffectsNeedCode'
  OBVIOUS
<1> USE CodesAssumption, TokensAssumption, FaultsAssumption DEF TypeOK, Users, NewUser, Codes, Stages, Pcs, Issuing, ResetCode, CodeTaken, EffectsNeedCode, Backed
<1>1. ASSUME NEW c \in Calls, VerifyFind(c) PROVE EffectsNeedCode'
  BY <1>1 DEF VerifyFind, Go
<1>2. ASSUME NEW c \in Calls, VerifyUse(c) PROVE EffectsNeedCode'
  BY <1>2 DEF VerifyUse, UseCode, Go
<1>3. ASSUME NEW c \in Calls, VerifyLoad(c) PROVE EffectsNeedCode'
  BY <1>3 DEF VerifyLoad, Go
<1>4. ASSUME NEW c \in Calls, VerifySave(c) PROVE EffectsNeedCode'
  BY <1>4 DEF VerifySave, Save, Go
<1>5. ASSUME NEW c \in Calls, LoginLoad(c) PROVE EffectsNeedCode'
  BY <1>5 DEF LoginLoad, Go
<1>6. ASSUME NEW c \in Calls, LoginSave(c) PROVE EffectsNeedCode'
  BY <1>6 DEF LoginSave, Save, Go
<1>7. ASSUME NEW c \in Calls, RefreshFind(c) PROVE EffectsNeedCode'
  BY <1>7 DEF RefreshFind, Go
<1>8. ASSUME NEW c \in Calls, Rotate(c) PROVE EffectsNeedCode'
  BY <1>8 DEF Rotate, Go
<1>9. ASSUME NEW c \in Calls, RefreshLoad(c) PROVE EffectsNeedCode'
  BY <1>9 DEF RefreshLoad, Go
<1>10. ASSUME NEW c \in Calls, Logout(c) PROVE EffectsNeedCode'
  BY <1>10 DEF Logout
<1>11. ASSUME NEW c \in Calls, Insert(c) PROVE EffectsNeedCode'
  BY <1>11 DEF Insert, Go
<1>12. ASSUME NEW c \in Calls, Finish(c) PROVE EffectsNeedCode'
  BY <1>12 DEF Finish, End
<1>13. ASSUME NEW c \in Calls, Forgot(c) PROVE EffectsNeedCode'
  BY <1>13 DEF Forgot
<1>14. ASSUME NEW c \in Calls, ResetLoad(c) PROVE EffectsNeedCode'
  BY <1>14 DEF ResetLoad, Go
<1>15. ASSUME NEW c \in Calls, ResetFind(c) PROVE EffectsNeedCode'
  BY <1>15 DEF ResetFind, Go, End
<1>16. ASSUME NEW c \in Calls, ResetUse(c) PROVE EffectsNeedCode'
  BY <1>16 DEF ResetUse, UseCode, Go
<1>17. ASSUME NEW c \in Calls, ResetSave(c) PROVE EffectsNeedCode'
  BY <1>17 DEF ResetSave, Save, Go
<1>18. ASSUME NEW c \in Calls, Revoke(c) PROVE EffectsNeedCode'
  BY <1>18 DEF Revoke, End
<1>19. ASSUME NEW c \in Calls, Fail(c) PROVE EffectsNeedCode'
  BY <1>19 DEF Fail, Stop, End
<1>20. CASE ExpireCode
  BY <1>20 DEF ExpireCode
<1>21. CASE Restart
  BY <1>21 DEF Restart, Stop, End
<1>22. CASE UNCHANGED vars
  BY <1>22 DEF vars
<1> QED
  BY <1>1, <1>2, <1>3, <1>4, <1>5, <1>6, <1>7, <1>8, <1>9, <1>10, <1>11, <1>12, <1>13, <1>14, <1>15, <1>16, <1>17, <1>18, <1>19, <1>20, <1>21, <1>22 DEF Next, Verify, Login, Refresh, GenerateTokens, Reset

\* No step of one request disturbs the tokens another one holds.
LEMMA OwnedStep == TypeOK /\ Owned /\ OriginRevoked /\ [Next]_vars => Owned'
<1> SUFFICES ASSUME TypeOK, Owned, OriginRevoked, [Next]_vars PROVE Owned'
  OBVIOUS
<1> USE CodesAssumption, TokensAssumption, FaultsAssumption DEF TypeOK, Users, NewUser, Codes, Stages, Pcs, Issuing, Owned, OriginRevoked
<1>1. ASSUME NEW c \in Calls, VerifyFind(c) PROVE Owned'
  BY <1>1 DEF VerifyFind, Go
<1>2. ASSUME NEW c \in Calls, VerifyUse(c) PROVE Owned'
  BY <1>2 DEF VerifyUse, UseCode, Go
<1>3. ASSUME NEW c \in Calls, VerifyLoad(c) PROVE Owned'
  BY <1>3 DEF VerifyLoad, Go
<1>4. ASSUME NEW c \in Calls, VerifySave(c) PROVE Owned'
  BY <1>4 DEF VerifySave, Save, Go
<1>5. ASSUME NEW c \in Calls, LoginLoad(c) PROVE Owned'
  BY <1>5 DEF LoginLoad, Go
<1>6. ASSUME NEW c \in Calls, LoginSave(c) PROVE Owned'
  BY <1>6 DEF LoginSave, Save, Go
<1>7. ASSUME NEW c \in Calls, RefreshFind(c) PROVE Owned'
  BY <1>7 DEF RefreshFind, Go
<1>8. ASSUME NEW c \in Calls, Rotate(c) PROVE Owned'
  BY <1>8 DEF Rotate, Go
<1>9. ASSUME NEW c \in Calls, RefreshLoad(c) PROVE Owned'
  BY <1>9 DEF RefreshLoad, Go
<1>10. ASSUME NEW c \in Calls, Logout(c) PROVE Owned'
  BY <1>10 DEF Logout
<1>11. ASSUME NEW c \in Calls, Insert(c) PROVE Owned'
  BY <1>11 DEF Insert, Go
<1>12. ASSUME NEW c \in Calls, Finish(c) PROVE Owned'
  BY <1>12 DEF Finish, End
<1>13. ASSUME NEW c \in Calls, Forgot(c) PROVE Owned'
  BY <1>13 DEF Forgot
<1>14. ASSUME NEW c \in Calls, ResetLoad(c) PROVE Owned'
  BY <1>14 DEF ResetLoad, Go
<1>15. ASSUME NEW c \in Calls, ResetFind(c) PROVE Owned'
  BY <1>15 DEF ResetFind, Go, End
<1>16. ASSUME NEW c \in Calls, ResetUse(c) PROVE Owned'
  BY <1>16 DEF ResetUse, UseCode, Go
<1>17. ASSUME NEW c \in Calls, ResetSave(c) PROVE Owned'
  BY <1>17 DEF ResetSave, Save, Go
<1>18. ASSUME NEW c \in Calls, Revoke(c) PROVE Owned'
  BY <1>18 DEF Revoke, End
<1>19. ASSUME NEW c \in Calls, Fail(c) PROVE Owned'
  BY <1>19 DEF Fail, Stop, End
<1>20. CASE ExpireCode
  BY <1>20 DEF ExpireCode
<1>21. CASE Restart
  BY <1>21 DEF Restart, Stop, End
<1>22. CASE UNCHANGED vars
  BY <1>22 DEF vars
<1> QED
  BY <1>1, <1>2, <1>3, <1>4, <1>5, <1>6, <1>7, <1>8, <1>9, <1>10, <1>11, <1>12, <1>13, <1>14, <1>15, <1>16, <1>17, <1>18, <1>19, <1>20, <1>21, <1>22 DEF Next, Verify, Login, Refresh, GenerateTokens, Reset

\* No step takes back the revocation of a token that is being exchanged.
LEMMA OriginStep == TypeOK /\ Owned /\ OriginRevoked /\ [Next]_vars => OriginRevoked'
<1> SUFFICES ASSUME TypeOK, Owned, OriginRevoked, [Next]_vars PROVE OriginRevoked'
  OBVIOUS
<1> USE CodesAssumption, TokensAssumption, FaultsAssumption DEF TypeOK, Users, NewUser, Codes, Stages, Pcs, Issuing, Owned, OriginRevoked
<1>1. ASSUME NEW c \in Calls, VerifyFind(c) PROVE OriginRevoked'
  BY <1>1 DEF VerifyFind, Go
<1>2. ASSUME NEW c \in Calls, VerifyUse(c) PROVE OriginRevoked'
  BY <1>2 DEF VerifyUse, UseCode, Go
<1>3. ASSUME NEW c \in Calls, VerifyLoad(c) PROVE OriginRevoked'
  BY <1>3 DEF VerifyLoad, Go
<1>4. ASSUME NEW c \in Calls, VerifySave(c) PROVE OriginRevoked'
  BY <1>4 DEF VerifySave, Save, Go
<1>5. ASSUME NEW c \in Calls, LoginLoad(c) PROVE OriginRevoked'
  BY <1>5 DEF LoginLoad, Go
<1>6. ASSUME NEW c \in Calls, LoginSave(c) PROVE OriginRevoked'
  BY <1>6 DEF LoginSave, Save, Go
<1>7. ASSUME NEW c \in Calls, RefreshFind(c) PROVE OriginRevoked'
  BY <1>7 DEF RefreshFind, Go
<1>8. ASSUME NEW c \in Calls, Rotate(c) PROVE OriginRevoked'
  BY <1>8 DEF Rotate, Go
<1>9. ASSUME NEW c \in Calls, RefreshLoad(c) PROVE OriginRevoked'
  BY <1>9 DEF RefreshLoad, Go
<1>10. ASSUME NEW c \in Calls, Logout(c) PROVE OriginRevoked'
  BY <1>10 DEF Logout
<1>11. ASSUME NEW c \in Calls, Insert(c) PROVE OriginRevoked'
  BY <1>11 DEF Insert, Go
<1>12. ASSUME NEW c \in Calls, Finish(c) PROVE OriginRevoked'
  BY <1>12 DEF Finish, End
<1>13. ASSUME NEW c \in Calls, Forgot(c) PROVE OriginRevoked'
  BY <1>13 DEF Forgot
<1>14. ASSUME NEW c \in Calls, ResetLoad(c) PROVE OriginRevoked'
  BY <1>14 DEF ResetLoad, Go
<1>15. ASSUME NEW c \in Calls, ResetFind(c) PROVE OriginRevoked'
  BY <1>15 DEF ResetFind, Go, End
<1>16. ASSUME NEW c \in Calls, ResetUse(c) PROVE OriginRevoked'
  BY <1>16 DEF ResetUse, UseCode, Go
<1>17. ASSUME NEW c \in Calls, ResetSave(c) PROVE OriginRevoked'
  BY <1>17 DEF ResetSave, Save, Go
<1>18. ASSUME NEW c \in Calls, Revoke(c) PROVE OriginRevoked'
  BY <1>18 DEF Revoke, End
<1>19. ASSUME NEW c \in Calls, Fail(c) PROVE OriginRevoked'
  BY <1>19 DEF Fail, Stop, End
<1>20. CASE ExpireCode
  BY <1>20 DEF ExpireCode
<1>21. CASE Restart
  BY <1>21 DEF Restart, Stop, End
<1>22. CASE UNCHANGED vars
  BY <1>22 DEF vars
<1> QED
  BY <1>1, <1>2, <1>3, <1>4, <1>5, <1>6, <1>7, <1>8, <1>9, <1>10, <1>11, <1>12, <1>13, <1>14, <1>15, <1>16, <1>17, <1>18, <1>19, <1>20, <1>21, <1>22 DEF Next, Verify, Login, Refresh, GenerateTokens, Reset

\* Every step keeps a reason for a lock-out.
LEMMA LockoutStep == TypeOK /\ ResetCode /\ LockoutExplained /\ [Next]_vars => LockoutExplained'
<1> SUFFICES ASSUME TypeOK, ResetCode, LockoutExplained, [Next]_vars PROVE LockoutExplained'
  OBVIOUS
<1> USE CodesAssumption, TokensAssumption, FaultsAssumption DEF TypeOK, Users, NewUser, Codes, Stages, Pcs, Issuing, ResetCode, LockoutExplained
<1>1. ASSUME NEW c \in Calls, VerifyFind(c) PROVE LockoutExplained'
  BY <1>1 DEF VerifyFind, Go
<1>2. ASSUME NEW c \in Calls, VerifyUse(c) PROVE LockoutExplained'
  BY <1>2 DEF VerifyUse, UseCode, Go
<1>3. ASSUME NEW c \in Calls, VerifyLoad(c) PROVE LockoutExplained'
  BY <1>3 DEF VerifyLoad, Go
<1>4. ASSUME NEW c \in Calls, VerifySave(c) PROVE LockoutExplained'
  BY <1>4 DEF VerifySave, Save, Go
<1>5. ASSUME NEW c \in Calls, LoginLoad(c) PROVE LockoutExplained'
  BY <1>5 DEF LoginLoad, Go
<1>6. ASSUME NEW c \in Calls, LoginSave(c) PROVE LockoutExplained'
  BY <1>6 DEF LoginSave, Save, Go
<1>7. ASSUME NEW c \in Calls, RefreshFind(c) PROVE LockoutExplained'
  BY <1>7 DEF RefreshFind, Go
<1>8. ASSUME NEW c \in Calls, Rotate(c) PROVE LockoutExplained'
  BY <1>8 DEF Rotate, Go
<1>9. ASSUME NEW c \in Calls, RefreshLoad(c) PROVE LockoutExplained'
  BY <1>9 DEF RefreshLoad, Go
<1>10. ASSUME NEW c \in Calls, Logout(c) PROVE LockoutExplained'
  BY <1>10 DEF Logout
<1>11. ASSUME NEW c \in Calls, Insert(c) PROVE LockoutExplained'
  BY <1>11 DEF Insert, Go
<1>12. ASSUME NEW c \in Calls, Finish(c) PROVE LockoutExplained'
  BY <1>12 DEF Finish, End
<1>13. ASSUME NEW c \in Calls, Forgot(c) PROVE LockoutExplained'
  BY <1>13 DEF Forgot
<1>14. ASSUME NEW c \in Calls, ResetLoad(c) PROVE LockoutExplained'
  BY <1>14 DEF ResetLoad, Go
<1>15. ASSUME NEW c \in Calls, ResetFind(c) PROVE LockoutExplained'
  BY <1>15 DEF ResetFind, Go, End
<1>16. ASSUME NEW c \in Calls, ResetUse(c) PROVE LockoutExplained'
  BY <1>16 DEF ResetUse, UseCode, Go
<1>17. ASSUME NEW c \in Calls, ResetSave(c) PROVE LockoutExplained'
  BY <1>17 DEF ResetSave, Save, Go
<1>18. ASSUME NEW c \in Calls, Revoke(c) PROVE LockoutExplained'
  BY <1>18 DEF Revoke, End
<1>19. ASSUME NEW c \in Calls, Fail(c) PROVE LockoutExplained'
  BY <1>19 DEF Fail, Stop, End
<1>20. CASE ExpireCode
  BY <1>20 DEF ExpireCode
<1>21. CASE Restart
  BY <1>21 DEF Restart, Stop, End
<1>22. CASE UNCHANGED vars
  BY <1>22 DEF vars
<1> QED
  BY <1>1, <1>2, <1>3, <1>4, <1>5, <1>6, <1>7, <1>8, <1>9, <1>10, <1>11, <1>12, <1>13, <1>14, <1>15, <1>16, <1>17, <1>18, <1>19, <1>20, <1>21, <1>22 DEF Next, Verify, Login, Refresh, GenerateTokens, Reset

\* No step makes a revoked token of a client usable.
LEMMA RevokedStep ==
  TypeOK /\ Owned /\ [Next]_vars =>
    (\A t \in Tokens : token[t] = "revoked" => token'[t] = "revoked")
<1> SUFFICES ASSUME TypeOK, Owned, [Next]_vars PROVE (\A t \in Tokens : token[t] = "revoked" => token'[t] = "revoked")
  OBVIOUS
<1> USE CodesAssumption, TokensAssumption, FaultsAssumption DEF TypeOK, Users, NewUser, Codes, Stages, Pcs, Issuing, Owned
<1>1. ASSUME NEW c \in Calls, VerifyFind(c) PROVE (\A t \in Tokens : token[t] = "revoked" => token'[t] = "revoked")
  BY <1>1 DEF VerifyFind, Go
<1>2. ASSUME NEW c \in Calls, VerifyUse(c) PROVE (\A t \in Tokens : token[t] = "revoked" => token'[t] = "revoked")
  BY <1>2 DEF VerifyUse, UseCode, Go
<1>3. ASSUME NEW c \in Calls, VerifyLoad(c) PROVE (\A t \in Tokens : token[t] = "revoked" => token'[t] = "revoked")
  BY <1>3 DEF VerifyLoad, Go
<1>4. ASSUME NEW c \in Calls, VerifySave(c) PROVE (\A t \in Tokens : token[t] = "revoked" => token'[t] = "revoked")
  BY <1>4 DEF VerifySave, Save, Go
<1>5. ASSUME NEW c \in Calls, LoginLoad(c) PROVE (\A t \in Tokens : token[t] = "revoked" => token'[t] = "revoked")
  BY <1>5 DEF LoginLoad, Go
<1>6. ASSUME NEW c \in Calls, LoginSave(c) PROVE (\A t \in Tokens : token[t] = "revoked" => token'[t] = "revoked")
  BY <1>6 DEF LoginSave, Save, Go
<1>7. ASSUME NEW c \in Calls, RefreshFind(c) PROVE (\A t \in Tokens : token[t] = "revoked" => token'[t] = "revoked")
  BY <1>7 DEF RefreshFind, Go
<1>8. ASSUME NEW c \in Calls, Rotate(c) PROVE (\A t \in Tokens : token[t] = "revoked" => token'[t] = "revoked")
  BY <1>8 DEF Rotate, Go
<1>9. ASSUME NEW c \in Calls, RefreshLoad(c) PROVE (\A t \in Tokens : token[t] = "revoked" => token'[t] = "revoked")
  BY <1>9 DEF RefreshLoad, Go
<1>10. ASSUME NEW c \in Calls, Logout(c) PROVE (\A t \in Tokens : token[t] = "revoked" => token'[t] = "revoked")
  BY <1>10 DEF Logout
<1>11. ASSUME NEW c \in Calls, Insert(c) PROVE (\A t \in Tokens : token[t] = "revoked" => token'[t] = "revoked")
  BY <1>11 DEF Insert, Go
<1>12. ASSUME NEW c \in Calls, Finish(c) PROVE (\A t \in Tokens : token[t] = "revoked" => token'[t] = "revoked")
  BY <1>12 DEF Finish, End
<1>13. ASSUME NEW c \in Calls, Forgot(c) PROVE (\A t \in Tokens : token[t] = "revoked" => token'[t] = "revoked")
  BY <1>13 DEF Forgot
<1>14. ASSUME NEW c \in Calls, ResetLoad(c) PROVE (\A t \in Tokens : token[t] = "revoked" => token'[t] = "revoked")
  BY <1>14 DEF ResetLoad, Go
<1>15. ASSUME NEW c \in Calls, ResetFind(c) PROVE (\A t \in Tokens : token[t] = "revoked" => token'[t] = "revoked")
  BY <1>15 DEF ResetFind, Go, End
<1>16. ASSUME NEW c \in Calls, ResetUse(c) PROVE (\A t \in Tokens : token[t] = "revoked" => token'[t] = "revoked")
  BY <1>16 DEF ResetUse, UseCode, Go
<1>17. ASSUME NEW c \in Calls, ResetSave(c) PROVE (\A t \in Tokens : token[t] = "revoked" => token'[t] = "revoked")
  BY <1>17 DEF ResetSave, Save, Go
<1>18. ASSUME NEW c \in Calls, Revoke(c) PROVE (\A t \in Tokens : token[t] = "revoked" => token'[t] = "revoked")
  BY <1>18 DEF Revoke, End
<1>19. ASSUME NEW c \in Calls, Fail(c) PROVE (\A t \in Tokens : token[t] = "revoked" => token'[t] = "revoked")
  BY <1>19 DEF Fail, Stop, End
<1>20. CASE ExpireCode
  BY <1>20 DEF ExpireCode
<1>21. CASE Restart
  BY <1>21 DEF Restart, Stop, End
<1>22. CASE UNCHANGED vars
  BY <1>22 DEF vars
<1> QED
  BY <1>1, <1>2, <1>3, <1>4, <1>5, <1>6, <1>7, <1>8, <1>9, <1>10, <1>11, <1>12, <1>13, <1>14, <1>15, <1>16, <1>17, <1>18, <1>19, <1>20, <1>21, <1>22 DEF Next, Verify, Login, Refresh, GenerateTokens, Reset

\* The initial state satisfies the invariant.
LEMMA InitInv == Init => Inv
<1> SUFFICES ASSUME Init PROVE Inv
  OBVIOUS
<1> USE CodesAssumption, TokensAssumption, FaultsAssumption DEF Init, NewUser
<1>1. TypeOK
  BY DEF TypeOK, Users, Codes, Stages, Pcs, Issuing
<1>2. ResetCode /\ CodeTaken /\ Owned /\ OriginRevoked
  BY DEF ResetCode, CodeTaken, Owned, OriginRevoked
<1>3. EffectsNeedCode /\ LockoutExplained
  BY DEF EffectsNeedCode, Backed, LockoutExplained, Codes
<1> QED
  BY <1>1, <1>2, <1>3 DEF Inv

\* The conjuncts are inductive together, in every behaviour.
THEOREM SessionInvariant == Spec => []Inv
<1>1. Inv /\ [Next]_vars => Inv'
  BY TypeStep, ResetCodeStep, CodeTakenStep, EffectsStep, OwnedStep, OriginStep,
     LockoutStep DEF Inv
<1> QED
  BY InitInv, <1>1, PTL DEF Spec

\* The variables keep their types, whatever interleaves and fails.
THEOREM TypeCorrect == Spec => []TypeOK
<1>1. Inv => TypeOK
  BY DEF Inv
<1> QED
  BY SessionInvariant, <1>1, PTL

\* verifyOtp and resetPassword take effect only with their code used up.
THEOREM EffectsSafe == Spec => []EffectsNeedCode
<1>1. Inv => EffectsNeedCode
  BY DEF Inv
<1> QED
  BY SessionInvariant, <1>1, PTL

\* An unverified user whose code is used is being verified, or a failure or a
\* stale save is to blame.
THEOREM LockoutSafe == Spec => []LockoutExplained
<1>1. Inv => LockoutExplained
  BY DEF Inv
<1> QED
  BY SessionInvariant, <1>1, PTL

\* refreshTokens makes a token only in exchange for one that stays revoked.
THEOREM RotationSafe == Spec => []OriginRevoked
<1>1. Inv => OriginRevoked
  BY DEF Inv
<1> QED
  BY SessionInvariant, <1>1, PTL

\* logout, rotation and reset revoke for good what a client holds.
THEOREM RevocationSafe == Spec => RevokedStays
<1>1. Inv /\ [Next]_vars => [\A t \in Tokens : token[t] = "revoked" => token'[t] = "revoked"]_vars
  BY RevokedStep DEF Inv
<1> QED
  BY SessionInvariant, <1>1, PTL DEF Spec, RevokedStays
-----------------------------------------------------------------------------
\* Between its load and its save a request holds the row as it is.
LoadedFresh ==
  \A c \in Calls : pc[c] \in {"verifySave", "loginSave", "resetFind", "resetUse", "resetSave"} => loaded[c] = user

\* Where only one request can be open, nobody saves the row under its holder.
LEMMA FreshStep ==
  ASSUME \A c, d \in Calls : c = d, TypeOK, LoadedFresh, [Next]_vars
  PROVE  LoadedFresh'
<1> USE DEF TypeOK, LoadedFresh
<1>1. ASSUME NEW c \in Calls, VerifyFind(c) PROVE LoadedFresh'
  BY <1>1 DEF VerifyFind, Go
<1>2. ASSUME NEW c \in Calls, VerifyUse(c) PROVE LoadedFresh'
  BY <1>2 DEF VerifyUse, UseCode, Go
<1>3. ASSUME NEW c \in Calls, VerifyLoad(c) PROVE LoadedFresh'
  BY <1>3 DEF VerifyLoad, Go
<1>4. ASSUME NEW c \in Calls, VerifySave(c) PROVE LoadedFresh'
  BY <1>4 DEF VerifySave, Save, Go
<1>5. ASSUME NEW c \in Calls, LoginLoad(c) PROVE LoadedFresh'
  BY <1>5 DEF LoginLoad, Go
<1>6. ASSUME NEW c \in Calls, LoginSave(c) PROVE LoadedFresh'
  BY <1>6 DEF LoginSave, Save, Go
<1>7. ASSUME NEW c \in Calls, RefreshFind(c) PROVE LoadedFresh'
  BY <1>7 DEF RefreshFind, Go
<1>8. ASSUME NEW c \in Calls, Rotate(c) PROVE LoadedFresh'
  BY <1>8 DEF Rotate, Go
<1>9. ASSUME NEW c \in Calls, RefreshLoad(c) PROVE LoadedFresh'
  BY <1>9 DEF RefreshLoad, Go
<1>10. ASSUME NEW c \in Calls, Insert(c) PROVE LoadedFresh'
  BY <1>10 DEF Insert, Go
<1>11. ASSUME NEW c \in Calls, Finish(c) PROVE LoadedFresh'
  BY <1>11 DEF Finish, End
<1>12. ASSUME NEW c \in Calls, Logout(c) PROVE LoadedFresh'
  BY <1>12 DEF Logout
<1>13. ASSUME NEW c \in Calls, Forgot(c) PROVE LoadedFresh'
  BY <1>13 DEF Forgot
<1>14. ASSUME NEW c \in Calls, ResetLoad(c) PROVE LoadedFresh'
  BY <1>14 DEF ResetLoad, Go
<1>15. ASSUME NEW c \in Calls, ResetFind(c) PROVE LoadedFresh'
  BY <1>15 DEF ResetFind, Go, End
<1>16. ASSUME NEW c \in Calls, ResetUse(c) PROVE LoadedFresh'
  BY <1>16 DEF ResetUse, UseCode, Go
<1>17. ASSUME NEW c \in Calls, ResetSave(c) PROVE LoadedFresh'
  BY <1>17 DEF ResetSave, Save, Go
<1>18. ASSUME NEW c \in Calls, Revoke(c) PROVE LoadedFresh'
  BY <1>18 DEF Revoke, End
<1>19. ASSUME NEW c \in Calls, Fail(c) PROVE LoadedFresh'
  BY <1>19 DEF Fail, Stop, End
<1>20. CASE ExpireCode
  BY <1>20 DEF ExpireCode
<1>21. CASE Restart
  BY <1>21 DEF Restart, Stop, End
<1>22. CASE UNCHANGED vars
  BY <1>22 DEF vars
<1> QED
  BY <1>1, <1>2, <1>3, <1>4, <1>5, <1>6, <1>7, <1>8, <1>9, <1>10, <1>11, <1>12, <1>13, <1>14, <1>15, <1>16, <1>17, <1>18, <1>19, <1>20, <1>21, <1>22 DEF Next, Verify, Login, Refresh, GenerateTokens, Reset

\* The password set by resetPassword stays until the next reset when requests do
\* not overlap: the violated ResetSticks fails by overlap alone.
THEOREM SequentialSticks ==
  ASSUME \A c, d \in Calls : c = d
  PROVE  Spec => ResetSticks
<1>1. Init => Inv /\ LoadedFresh
  BY InitInv DEF Init, LoadedFresh
<1>2. (Inv /\ LoadedFresh) /\ [Next]_vars => (Inv /\ LoadedFresh)'
  BY TypeStep, ResetCodeStep, CodeTakenStep, EffectsStep, OwnedStep, OriginStep,
     LockoutStep, FreshStep DEF Inv
<1>3. Inv /\ LoadedFresh /\ [Next]_vars
        => [\A c \in Calls : LoginSave(c) \/ VerifySave(c) => user'.password = user.password]_vars
  <2> SUFFICES ASSUME Inv, LoadedFresh, NEW c \in Calls, LoginSave(c) \/ VerifySave(c)
               PROVE  user'.password = user.password
    OBVIOUS
  <2>1. loaded[c] = user /\ user \in Users
    BY DEF LoginSave, VerifySave, LoadedFresh, Inv, TypeOK
  <2>2. user' \in {user, [user EXCEPT !.email = "verified"]}
    BY <2>1 DEF LoginSave, VerifySave, Save
  <2> QED
    BY <2>1, <2>2 DEF Users
<1> QED
  BY <1>1, <1>2, <1>3, PTL DEF Spec, ResetSticks
=============================================================================
