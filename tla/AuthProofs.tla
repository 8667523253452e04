---------------------------- MODULE AuthProofs ----------------------------
(***************************************************************************)
(* Theorems about AuthService, for any number of concurrent requests,      *)
(* users, addresses and tokens.                                            *)
(***************************************************************************)
EXTENDS AuthService, TLAPS

USE NoneAssumption, IdsAssumption DEF NoneAssumption, IdsAssumption

(* What a request has read is there when it needs it, and what a token is,  *)
(* its owner says: only an issued one has an owner, expires or is given out.*)
LocalsInv ==
    /\ \A p \in Procs :
          /\ pc[p] \in {"registerSeed", "issue", "revokeAll", "revoking", "refreshUser",
                        "refreshRevoke"}
                => user[p] \in Users
          /\ pc[p] \in {"refreshFind", "revokeAll", "revoking", "refreshUser", "refreshRevoke",
                        "logoutFind", "logoutRevoke"} => token[p] \in Tokens
          /\ pc[p] \in {"registerFind", "registerCreate", "loginFind"} => email[p] \in Emails
          /\ pc[p] \in {"idle", "registerFind", "registerCreate", "registerSeed", "loginFind"}
                => token[p] = None
    /\ \A t \in Tokens : tokens[t] = "free" <=> owner[t] = None
    /\ \A t \in expired \cup given : tokens[t] # "free"
    /\ \A p \in Procs : token[p] # None => tokens[token[p]] # "free"
    /\ \A p \in Procs : \A t \in covered[p] : tokens[t] # "free"

(* A request that began with a revoked token is still before the check that *)
(* refuses it, or has been refused: a revoked token never becomes live.     *)
StaleInv ==
    \A p \in stale :
        /\ pc[p] \in {"refreshFind", "revokeAll", "revoking"}
        /\ pc[p] = "refreshFind" => tokens[token[p]] \in {"revoked", "gone"}

(* When the token of a refresh past its check is one that a RevokeAllForUser *)
(* should have ended, the refresh or the token is pardoned; and a request is *)
(* pardoned only while it is such a refresh.                                 *)
ContainmentInv ==
    /\ \A p \in Procs : Rotating(p) /\ token[p] \in old
                            => p \in pardoned \/ token[p] \in pardoned
    /\ \A p \in Procs \cap pardoned : Rotating(p)
    /\ \A t \in old : tokens[t] # "free"

AuthInv ==
    /\ TypeOK /\ LocalsInv
    /\ EmailUnique
    /\ StaleInv
    /\ ContainmentInv /\ ContainmentUpToInFlight

-----------------------------------------------------------------------------
(* The steps *)

(* Every step of a request, of the clock and of the TTL index keeps the    *)
(* types; what a request stores it has read before (LocalsInv).             *)
LEMMA TypeStep ==
    TypeOK /\ LocalsInv /\ [Next]_vars => TypeOK'
<1> SUFFICES ASSUME TypeOK, LocalsInv, [Next]_vars
             PROVE  TypeOK'
  OBVIOUS
<1> USE DEF TypeOK, LocalsInv, TokenStates, Steps, storeVars, requestVars, historyVars
<1>1. ASSUME NEW p \in Procs, NEW e \in Emails, RegisterStart(p, e) PROVE TypeOK'
  BY <1>1 DEF RegisterStart
<1>2. ASSUME NEW p \in Procs, NEW e \in Emails, LoginStart(p, e) PROVE TypeOK'
  BY <1>2 DEF LoginStart
<1>3. ASSUME NEW p \in Procs, NEW t \in Tokens, RefreshStart(p, t) PROVE TypeOK'
  BY <1>3 DEF RefreshStart
<1>4. ASSUME NEW p \in Procs, NEW t \in Tokens, LogoutStart(p, t) PROVE TypeOK'
  BY <1>4 DEF LogoutStart
<1>5. ASSUME NEW p \in Procs, RegisterFind(p) PROVE TypeOK'
  BY <1>5 DEF RegisterFind, Return, Goto
<1>6. ASSUME NEW p \in Procs, RegisterCreate(p) PROVE TypeOK'
  BY <1>6 DEF RegisterCreate, Return, InsertUser, FindByEmail
<1>7. ASSUME NEW p \in Procs, RegisterSeed(p) PROVE TypeOK'
  BY <1>7 DEF RegisterSeed, Return
<1>8. ASSUME NEW p \in Procs, LoginFind(p) PROVE TypeOK'
  BY <1>8, SMTT(30) DEF LoginFind, Return, FindByEmail
<1>9. ASSUME NEW p \in Procs, Issue(p) PROVE TypeOK'
  BY <1>9 DEF Issue, Return
<1>10. ASSUME NEW p \in Procs, RefreshFind(p) PROVE TypeOK'
  BY <1>10 DEF RefreshFind, Return
<1>11. ASSUME NEW p \in Procs, RevokeAllBegin(p) PROVE TypeOK'
  BY <1>11 DEF RevokeAllBegin
<1>12. ASSUME NEW p \in Procs, RevokeOne(p) PROVE TypeOK'
  BY <1>12 DEF RevokeOne
<1>13. ASSUME NEW p \in Procs, RevokeAllEnd(p) PROVE TypeOK'
  BY <1>13 DEF RevokeAllEnd, Return, Rotating
<1>14. ASSUME NEW p \in Procs, RefreshUser(p) PROVE TypeOK'
  BY <1>14, SMTT(30) DEF RefreshUser, Return, Goto
<1>15. ASSUME NEW p \in Procs, RefreshRevoke(p) PROVE TypeOK'
  BY <1>15, SMTT(30) DEF RefreshRevoke, Return, Goto
<1>16. ASSUME NEW p \in Procs, LogoutFind(p) PROVE TypeOK'
  BY <1>16, SMTT(30) DEF LogoutFind, Return, Goto
<1>17. ASSUME NEW p \in Procs, LogoutRevoke(p) PROVE TypeOK'
  BY <1>17 DEF LogoutRevoke, Return
<1>18. ASSUME NEW p \in Procs, Fail(p) PROVE TypeOK'
  BY <1>18 DEF Fail, Return
<1>19. ASSUME NEW t \in Tokens, Expire(t) PROVE TypeOK'
  BY <1>19 DEF Expire
<1>20. ASSUME NEW t \in Tokens, TtlDelete(t) PROVE TypeOK'
  BY <1>20 DEF TtlDelete
<1>21. ASSUME UNCHANGED vars PROVE TypeOK'
  BY <1>21 DEF vars
<1> QED
  BY <1>1, <1>2, <1>3, <1>4, <1>5, <1>6, <1>7, <1>8, <1>9, <1>10, <1>11, <1>12,
     <1>13, <1>14, <1>15, <1>16, <1>17, <1>18, <1>19, <1>20, <1>21 DEF Next, Serve

(* Every step leaves each request with what its next call needs, and an     *)
(* issued token with its owner (auth_service.go: local variables).          *)
LEMMA LocalsStep ==
    TypeOK /\ LocalsInv /\ [Next]_vars => LocalsInv'
<1> SUFFICES ASSUME TypeOK, LocalsInv, [Next]_vars
             PROVE  LocalsInv'
  OBVIOUS
<1> USE DEF TypeOK, LocalsInv, TokenStates, Steps, storeVars, requestVars, historyVars
<1>1. ASSUME NEW p \in Procs, NEW e \in Emails, RegisterStart(p, e) PROVE LocalsInv'
  BY <1>1 DEF RegisterStart
<1>2. ASSUME NEW p \in Procs, NEW e \in Emails, LoginStart(p, e) PROVE LocalsInv'
  BY <1>2 DEF LoginStart
<1>3. ASSUME NEW p \in Procs, NEW t \in Tokens, RefreshStart(p, t) PROVE LocalsInv'
  BY <1>3 DEF RefreshStart
<1>4. ASSUME NEW p \in Procs, NEW t \in Tokens, LogoutStart(p, t) PROVE LocalsInv'
  BY <1>4 DEF LogoutStart
<1>5. ASSUME NEW p \in Procs, RegisterFind(p) PROVE LocalsInv'
  BY <1>5 DEF RegisterFind, Return, Goto
<1>6. ASSUME NEW p \in Procs, RegisterCreate(p) PROVE LocalsInv'
  BY <1>6 DEF RegisterCreate, Return, InsertUser, FindByEmail
<1>7. ASSUME NEW p \in Procs, RegisterSeed(p) PROVE LocalsInv'
  BY <1>7 DEF RegisterSeed, Return
<1>8. ASSUME NEW p \in Procs, LoginFind(p) PROVE LocalsInv'
  BY <1>8 DEF LoginFind, Return, FindByEmail
<1>9. ASSUME NEW p \in Procs, Issue(p) PROVE LocalsInv'
  BY <1>9 DEF Issue, Return
<1>10. ASSUME NEW p \in Procs, RefreshFind(p) PROVE LocalsInv'
  BY <1>10 DEF RefreshFind, Return
<1>11. ASSUME NEW p \in Procs, RevokeAllBegin(p) PROVE LocalsInv'
  BY <1>11 DEF RevokeAllBegin
<1>12. ASSUME NEW p \in Procs, RevokeOne(p) PROVE LocalsInv'
  BY <1>12 DEF RevokeOne
<1>13. ASSUME NEW p \in Procs, RevokeAllEnd(p) PROVE LocalsInv'
  BY <1>13 DEF RevokeAllEnd, Return, Rotating
<1>14. ASSUME NEW p \in Procs, RefreshUser(p) PROVE LocalsInv'
  BY <1>14 DEF RefreshUser, Return, Goto
<1>15. ASSUME NEW p \in Procs, RefreshRevoke(p) PROVE LocalsInv'
  BY <1>15, SMTT(30) DEF RefreshRevoke, Return, Goto
<1>16. ASSUME NEW p \in Procs, LogoutFind(p) PROVE LocalsInv'
  BY <1>16 DEF LogoutFind, Return, Goto
<1>17. ASSUME NEW p \in Procs, LogoutRevoke(p) PROVE LocalsInv'
  BY <1>17 DEF LogoutRevoke, Return
<1>18. ASSUME NEW p \in Procs, Fail(p) PROVE LocalsInv'
  BY <1>18 DEF Fail, Return
<1>19. ASSUME NEW t \in Tokens, Expire(t) PROVE LocalsInv'
  BY <1>19 DEF Expire
<1>20. ASSUME NEW t \in Tokens, TtlDelete(t) PROVE LocalsInv'
  BY <1>20 DEF TtlDelete
<1>21. ASSUME UNCHANGED vars PROVE LocalsInv'
  BY <1>21 DEF vars
<1> QED
  BY <1>1, <1>2, <1>3, <1>4, <1>5, <1>6, <1>7, <1>8, <1>9, <1>10, <1>11, <1>12,
     <1>13, <1>14, <1>15, <1>16, <1>17, <1>18, <1>19, <1>20, <1>21 DEF Next, Serve

(* Only the insert of Register writes addresses, and the unique index       *)
(* guards it (EnsureIndexes).                                               *)
LEMMA EmailStep ==
    TypeOK /\ EmailUnique /\ [Next]_vars => EmailUnique'
<1> SUFFICES ASSUME TypeOK, EmailUnique, [Next]_vars
             PROVE  EmailUnique'
  OBVIOUS
<1> USE DEF TypeOK, EmailUnique, storeVars, requestVars, historyVars
<1>1. ASSUME NEW p \in Procs, NEW e \in Emails, RegisterStart(p, e) PROVE EmailUnique'
  BY <1>1 DEF RegisterStart
<1>2. ASSUME NEW p \in Procs, NEW e \in Emails, LoginStart(p, e) PROVE EmailUnique'
  BY <1>2 DEF LoginStart
<1>3. ASSUME NEW p \in Procs, NEW t \in Tokens, RefreshStart(p, t) PROVE EmailUnique'
  BY <1>3 DEF RefreshStart
<1>4. ASSUME NEW p \in Procs, NEW t \in Tokens, LogoutStart(p, t) PROVE EmailUnique'
  BY <1>4 DEF LogoutStart
<1>5. ASSUME NEW p \in Procs, RegisterFind(p) PROVE EmailUnique'
  BY <1>5 DEF RegisterFind, Return, Goto
<1>6. ASSUME NEW p \in Procs, RegisterCreate(p) PROVE EmailUnique'
  BY <1>6 DEF RegisterCreate, Return, InsertUser, FindByEmail
<1>7. ASSUME NEW p \in Procs, RegisterSeed(p) PROVE EmailUnique'
  BY <1>7 DEF RegisterSeed, Return
<1>8. ASSUME NEW p \in Procs, LoginFind(p) PROVE EmailUnique'
  BY <1>8 DEF LoginFind, Return, FindByEmail
<1>9. ASSUME NEW p \in Procs, Issue(p) PROVE EmailUnique'
  BY <1>9 DEF Issue, Return
<1>10. ASSUME NEW p \in Procs, RefreshFind(p) PROVE EmailUnique'
  BY <1>10 DEF RefreshFind, Return
<1>11. ASSUME NEW p \in Procs, RevokeAllBegin(p) PROVE EmailUnique'
  BY <1>11 DEF RevokeAllBegin
<1>12. ASSUME NEW p \in Procs, RevokeOne(p) PROVE EmailUnique'
  BY <1>12 DEF RevokeOne
<1>13. ASSUME NEW p \in Procs, RevokeAllEnd(p) PROVE EmailUnique'
  BY <1>13 DEF RevokeAllEnd, Return, Rotating
<1>14. ASSUME NEW p \in Procs, RefreshUser(p) PROVE EmailUnique'
  BY <1>14 DEF RefreshUser, Return, Goto
<1>15. ASSUME NEW p \in Procs, RefreshRevoke(p) PROVE EmailUnique'
  BY <1>15 DEF RefreshRevoke, Return, Goto
<1>16. ASSUME NEW p \in Procs, LogoutFind(p) PROVE EmailUnique'
  BY <1>16 DEF LogoutFind, Return, Goto
<1>17. ASSUME NEW p \in Procs, LogoutRevoke(p) PROVE EmailUnique'
  BY <1>17 DEF LogoutRevoke, Return
<1>18. ASSUME NEW p \in Procs, Fail(p) PROVE EmailUnique'
  BY <1>18 DEF Fail, Return
<1>19. ASSUME NEW t \in Tokens, Expire(t) PROVE EmailUnique'
  BY <1>19 DEF Expire
<1>20. ASSUME NEW t \in Tokens, TtlDelete(t) PROVE EmailUnique'
  BY <1>20 DEF TtlDelete
<1>21. ASSUME UNCHANGED vars PROVE EmailUnique'
  BY <1>21 DEF vars
<1> QED
  BY <1>1, <1>2, <1>3, <1>4, <1>5, <1>6, <1>7, <1>8, <1>9, <1>10, <1>11, <1>12,
     <1>13, <1>14, <1>15, <1>16, <1>17, <1>18, <1>19, <1>20, <1>21 DEF Next, Serve

(* A token that was revoked when its request began stays revoked or gone,   *)
(* so that the check of Refresh refuses it (rt.Revoked).                    *)
LEMMA StaleStep ==
    TypeOK /\ LocalsInv /\ StaleInv /\ [Next]_vars => StaleInv'
<1> SUFFICES ASSUME TypeOK, LocalsInv, StaleInv, [Next]_vars
             PROVE  StaleInv'
  OBVIOUS
<1> USE DEF TypeOK, LocalsInv, StaleInv, TokenStates, Steps, storeVars, requestVars, historyVars
<1>1. ASSUME NEW p \in Procs, NEW e \in Emails, RegisterStart(p, e) PROVE StaleInv'
  BY <1>1 DEF RegisterStart
<1>2. ASSUME NEW p \in Procs, NEW e \in Emails, LoginStart(p, e) PROVE StaleInv'
  BY <1>2 DEF LoginStart
<1>3. ASSUME NEW p \in Procs, NEW t \in Tokens, RefreshStart(p, t) PROVE StaleInv'
  BY <1>3 DEF RefreshStart
<1>4. ASSUME NEW p \in Procs, NEW t \in Tokens, LogoutStart(p, t) PROVE StaleInv'
  BY <1>4 DEF LogoutStart
<1>5. ASSUME NEW p \in Procs, RegisterFind(p) PROVE StaleInv'
  BY <1>5 DEF RegisterFind, Return, Goto
<1>6. ASSUME NEW p \in Procs, RegisterCreate(p) PROVE StaleInv'
  BY <1>6 DEF RegisterCreate, Return, InsertUser, FindByEmail
<1>7. ASSUME NEW p \in Procs, RegisterSeed(p) PROVE StaleInv'
  BY <1>7 DEF RegisterSeed, Return
<1>8. ASSUME NEW p \in Procs, LoginFind(p) PROVE StaleInv'
  BY <1>8 DEF LoginFind, Return, FindByEmail
<1>9. ASSUME NEW p \in Procs, Issue(p) PROVE StaleInv'
  BY <1>9 DEF Issue, Return
<1>10. ASSUME NEW p \in Procs, RefreshFind(p) PROVE StaleInv'
  BY <1>10 DEF RefreshFind, Return
<1>11. ASSUME NEW p \in Procs, RevokeAllBegin(p) PROVE StaleInv'
  BY <1>11 DEF RevokeAllBegin
<1>12. ASSUME NEW p \in Procs, RevokeOne(p) PROVE StaleInv'
  BY <1>12 DEF RevokeOne
<1>13. ASSUME NEW p \in Procs, RevokeAllEnd(p) PROVE StaleInv'
  BY <1>13 DEF RevokeAllEnd, Return, Rotating
<1>14. ASSUME NEW p \in Procs, RefreshUser(p) PROVE StaleInv'
  BY <1>14 DEF RefreshUser, Return, Goto
<1>15. ASSUME NEW p \in Procs, RefreshRevoke(p) PROVE StaleInv'
  BY <1>15 DEF RefreshRevoke, Return, Goto
<1>16. ASSUME NEW p \in Procs, LogoutFind(p) PROVE StaleInv'
  BY <1>16 DEF LogoutFind, Return, Goto
<1>17. ASSUME NEW p \in Procs, LogoutRevoke(p) PROVE StaleInv'
  BY <1>17 DEF LogoutRevoke, Return
<1>18. ASSUME NEW p \in Procs, Fail(p) PROVE StaleInv'
  BY <1>18 DEF Fail, Return
<1>19. ASSUME NEW t \in Tokens, Expire(t) PROVE StaleInv'
  BY <1>19 DEF Expire
<1>20. ASSUME NEW t \in Tokens, TtlDelete(t) PROVE StaleInv'
  BY <1>20 DEF TtlDelete
<1>21. ASSUME UNCHANGED vars PROVE StaleInv'
  BY <1>21 DEF vars
<1> QED
  BY <1>1, <1>2, <1>3, <1>4, <1>5, <1>6, <1>7, <1>8, <1>9, <1>10, <1>11, <1>12,
     <1>13, <1>14, <1>15, <1>16, <1>17, <1>18, <1>19, <1>20, <1>21 DEF Next, Serve

(* A refresh past its check that reuse detection has overtaken is pardoned, *)
(* or its token is; nobody else is (Refresh, RevokeAllForUser).             *)
LEMMA ContainmentStep ==
    TypeOK /\ LocalsInv /\ ContainmentInv /\ ContainmentUpToInFlight /\ [Next]_vars
        => ContainmentInv'
<1> SUFFICES ASSUME TypeOK, LocalsInv, ContainmentInv, ContainmentUpToInFlight, [Next]_vars
             PROVE  ContainmentInv'
  OBVIOUS
<1> USE DEF TypeOK, LocalsInv, ContainmentInv, ContainmentUpToInFlight, Rotating,
            storeVars, requestVars, historyVars
<1>1. ASSUME NEW p \in Procs, NEW e \in Emails, RegisterStart(p, e) PROVE ContainmentInv'
  BY <1>1 DEF RegisterStart
<1>2. ASSUME NEW p \in Procs, NEW e \in Emails, LoginStart(p, e) PROVE ContainmentInv'
  BY <1>2 DEF LoginStart
<1>3. ASSUME NEW p \in Procs, NEW t \in Tokens, RefreshStart(p, t) PROVE ContainmentInv'
  BY <1>3 DEF RefreshStart
<1>4. ASSUME NEW p \in Procs, NEW t \in Tokens, LogoutStart(p, t) PROVE ContainmentInv'
  BY <1>4 DEF LogoutStart
<1>5. ASSUME NEW p \in Procs, RegisterFind(p) PROVE ContainmentInv'
  BY <1>5 DEF RegisterFind, Return, Goto
<1>6. ASSUME NEW p \in Procs, RegisterCreate(p) PROVE ContainmentInv'
  BY <1>6 DEF RegisterCreate, Return, InsertUser, FindByEmail
<1>7. ASSUME NEW p \in Procs, RegisterSeed(p) PROVE ContainmentInv'
  BY <1>7 DEF RegisterSeed, Return
<1>8. ASSUME NEW p \in Procs, LoginFind(p) PROVE ContainmentInv'
  BY <1>8 DEF LoginFind, Return, FindByEmail
<1>9. ASSUME NEW p \in Procs, Issue(p) PROVE ContainmentInv'
  BY <1>9 DEF Issue, Return
<1>10. ASSUME NEW p \in Procs, RefreshFind(p) PROVE ContainmentInv'
  BY <1>10 DEF RefreshFind, Return
<1>11. ASSUME NEW p \in Procs, RevokeAllBegin(p) PROVE ContainmentInv'
  BY <1>11 DEF RevokeAllBegin
<1>12. ASSUME NEW p \in Procs, RevokeOne(p) PROVE ContainmentInv'
  BY <1>12 DEF RevokeOne
<1>13. ASSUME NEW p \in Procs, RevokeAllEnd(p) PROVE ContainmentInv'
  BY <1>13 DEF RevokeAllEnd, Return, Rotating
<1>14. ASSUME NEW p \in Procs, RefreshUser(p) PROVE ContainmentInv'
  BY <1>14 DEF RefreshUser, Return, Goto
<1>15. ASSUME NEW p \in Procs, RefreshRevoke(p) PROVE ContainmentInv'
  BY <1>15 DEF RefreshRevoke, Return, Goto
<1>16. ASSUME NEW p \in Procs, LogoutFind(p) PROVE ContainmentInv'
  BY <1>16 DEF LogoutFind, Return, Goto
<1>17. ASSUME NEW p \in Procs, LogoutRevoke(p) PROVE ContainmentInv'
  BY <1>17 DEF LogoutRevoke, Return
<1>18. ASSUME NEW p \in Procs, Fail(p) PROVE ContainmentInv'
  BY <1>18 DEF Fail, Return
<1>19. ASSUME NEW t \in Tokens, Expire(t) PROVE ContainmentInv'
  BY <1>19 DEF Expire
<1>20. ASSUME NEW t \in Tokens, TtlDelete(t) PROVE ContainmentInv'
  BY <1>20 DEF TtlDelete
<1>21. ASSUME UNCHANGED vars PROVE ContainmentInv'
  BY <1>21 DEF vars
<1> QED
  BY <1>1, <1>2, <1>3, <1>4, <1>5, <1>6, <1>7, <1>8, <1>9, <1>10, <1>11, <1>12,
     <1>13, <1>14, <1>15, <1>16, <1>17, <1>18, <1>19, <1>20, <1>21 DEF Next, Serve

(* A token of an old session that is live is pardoned: it was rotated from  *)
(* by a refresh that reuse detection overtook (issueTokenPair).             *)
LEMMA SurvivorStep ==
    TypeOK /\ LocalsInv /\ ContainmentInv /\ ContainmentUpToInFlight /\ [Next]_vars
        => ContainmentUpToInFlight'
<1> SUFFICES ASSUME TypeOK, LocalsInv, ContainmentInv, ContainmentUpToInFlight, [Next]_vars
             PROVE  ContainmentUpToInFlight'
  OBVIOUS
<1> USE DEF TypeOK, LocalsInv, ContainmentInv, ContainmentUpToInFlight, Rotating,
            storeVars, requestVars, historyVars
<1>1. ASSUME NEW p \in Procs, NEW e \in Emails, RegisterStart(p, e) PROVE ContainmentUpToInFlight'
  BY <1>1 DEF RegisterStart
<1>2. ASSUME NEW p \in Procs, NEW e \in Emails, LoginStart(p, e) PROVE ContainmentUpToInFlight'
  BY <1>2 DEF LoginStart
<1>3. ASSUME NEW p \in Procs, NEW t \in Tokens, RefreshStart(p, t) PROVE ContainmentUpToInFlight'
  BY <1>3 DEF RefreshStart
<1>4. ASSUME NEW p \in Procs, NEW t \in Tokens, LogoutStart(p, t) PROVE ContainmentUpToInFlight'
  BY <1>4 DEF LogoutStart
<1>5. ASSUME NEW p \in Procs, RegisterFind(p) PROVE ContainmentUpToInFlight'
  BY <1>5 DEF RegisterFind, Return, Goto
<1>6. ASSUME NEW p \in Procs, RegisterCreate(p) PROVE ContainmentUpToInFlight'
  BY <1>6 DEF RegisterCreate, Return, InsertUser, FindByEmail
<1>7. ASSUME NEW p \in Procs, RegisterSeed(p) PROVE ContainmentUpToInFlight'
  BY <1>7 DEF RegisterSeed, Return
<1>8. ASSUME NEW p \in Procs, LoginFind(p) PROVE ContainmentUpToInFlight'
  BY <1>8 DEF LoginFind, Return, FindByEmail
<1>9. ASSUME NEW p \in Procs, Issue(p) PROVE ContainmentUpToInFlight'
  BY <1>9 DEF Issue, Return
<1>10. ASSUME NEW p \in Procs, RefreshFind(p) PROVE ContainmentUpToInFlight'
  BY <1>10 DEF RefreshFind, Return
<1>11. ASSUME NEW p \in Procs, RevokeAllBegin(p) PROVE ContainmentUpToInFlight'
  BY <1>11 DEF RevokeAllBegin
<1>12. ASSUME NEW p \in Procs, RevokeOne(p) PROVE ContainmentUpToInFlight'
  BY <1>12 DEF RevokeOne
<1>13. ASSUME NEW p \in Procs, RevokeAllEnd(p) PROVE ContainmentUpToInFlight'
  BY <1>13 DEF RevokeAllEnd, Return, Rotating
<1>14. ASSUME NEW p \in Procs, RefreshUser(p) PROVE ContainmentUpToInFlight'
  BY <1>14 DEF RefreshUser, Return, Goto
<1>15. ASSUME NEW p \in Procs, RefreshRevoke(p) PROVE ContainmentUpToInFlight'
  BY <1>15 DEF RefreshRevoke, Return, Goto
<1>16. ASSUME NEW p \in Procs, LogoutFind(p) PROVE ContainmentUpToInFlight'
  BY <1>16 DEF LogoutFind, Return, Goto
<1>17. ASSUME NEW p \in Procs, LogoutRevoke(p) PROVE ContainmentUpToInFlight'
  BY <1>17 DEF LogoutRevoke, Return
<1>18. ASSUME NEW p \in Procs, Fail(p) PROVE ContainmentUpToInFlight'
  BY <1>18 DEF Fail, Return
<1>19. ASSUME NEW t \in Tokens, Expire(t) PROVE ContainmentUpToInFlight'
  BY <1>19 DEF Expire
<1>20. ASSUME NEW t \in Tokens, TtlDelete(t) PROVE ContainmentUpToInFlight'
  BY <1>20 DEF TtlDelete
<1>21. ASSUME UNCHANGED vars PROVE ContainmentUpToInFlight'
  BY <1>21 DEF vars
<1> QED
  BY <1>1, <1>2, <1>3, <1>4, <1>5, <1>6, <1>7, <1>8, <1>9, <1>10, <1>11, <1>12,
     <1>13, <1>14, <1>15, <1>16, <1>17, <1>18, <1>19, <1>20, <1>21 DEF Next, Serve

-----------------------------------------------------------------------------
(* The results *)

(* With any accounts whose addresses differ, and no session yet, the        *)
(* invariant holds.                                                         *)
LEMMA InitWithInv ==
    ASSUME NEW accounts \in [Users -> Emails \cup {None}], InitWith(accounts),
           \A u, v \in Users : accounts[u] # None /\ accounts[u] = accounts[v] => u = v
    PROVE  AuthInv
<1> USE DEF InitWith
<1>1. TypeOK
  BY DEF TypeOK, TokenStates, Steps
<1>2. LocalsInv
  BY DEF LocalsInv
<1>3. EmailUnique
  BY DEF EmailUnique
<1>4. StaleInv /\ ContainmentInv /\ ContainmentUpToInFlight
  BY DEF StaleInv, ContainmentInv, ContainmentUpToInFlight, Rotating
<1> QED
  BY <1>1, <1>2, <1>3, <1>4 DEF AuthInv

LEMMA InitInv == Init => AuthInv
<1> SUFFICES ASSUME Init PROVE AuthInv
  OBVIOUS
<1> DEFINE nobody == [u \in Users |-> None]
<1>1. nobody \in [Users -> Emails \cup {None}] /\ InitWith(nobody)
  BY DEF Init
<1>2. \A u \in Users : nobody[u] = None
  OBVIOUS
<1> HIDE DEF nobody
<1> QED
  BY <1>1, <1>2, InitWithInv

(* The invariant is inductive: no call of any request breaks it.            *)
LEMMA StepInv == AuthInv /\ [Next]_vars => AuthInv'
  BY TypeStep, LocalsStep, EmailStep, StaleStep, ContainmentStep, SurvivorStep DEF AuthInv

LEMMA AuthCorrect == Spec => []AuthInv
  BY InitInv, StepInv, PTL DEF Spec

(* A request that began with a revoked token is not past the check: those   *)
(* that are hold a token which was live when they began.                    *)
LEMMA StaleAreRefused == AuthInv => ReplayRefused
  BY DEF AuthInv, StaleInv, ReplayRefused, Rotating, TypeOK

(* However many registrations overlap, no two accounts have one address     *)
(* (Register, EnsureIndexes).                                               *)
THEOREM AddressesAreUnique == Spec => []EmailUnique
<1>1. AuthInv => EmailUnique
  BY DEF AuthInv
<1> QED
  BY <1>1, AuthCorrect, PTL

(* However many requests overlap, no pair is issued for a token that was    *)
(* revoked before its request began (Refresh).                              *)
THEOREM ReplaysAreRefused == Spec => []ReplayRefused
  BY StaleAreRefused, AuthCorrect, PTL

(* However many sessions, refreshes and reuse detections overlap, whatever  *)
(* the user had when RevokeAllForUser began is dead once it has ended, and  *)
(* so is what comes of it later, but for refreshes that it overtook         *)
(* (Refresh, RevokeAllForUser).                                             *)
THEOREM ReuseIsContained == Spec => []ContainmentUpToInFlight
<1>1. AuthInv => ContainmentUpToInFlight
  BY DEF AuthInv
<1> QED
  BY <1>1, AuthCorrect, PTL

=============================================================================
