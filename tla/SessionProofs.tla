--------------------------- MODULE SessionProofs ---------------------------
(***************************************************************************)
(* Theorems about Session, for any number of tabs, calls, tokens and       *)
(* request goroutines.                                                     *)
(***************************************************************************)
EXTENDS Session, AuthProofs

USE NoneAssumption, IdsAssumption, SessionAssumption
    DEF NoneAssumption, IdsAssumption, SessionAssumption

(* An answer holds a pair nobody else has: it is not in localStorage yet,   *)
(* and each request answers one tab.                                        *)
AnswersInv ==
    /\ \A b \in Tabs : /\ pair[b] # None => pair[b] \in given /\ pair[b] # stored
                       /\ served[b] # None => pair[b] = None
    /\ \A a, b \in Tabs : pair[a] # None /\ pair[a] = pair[b] => a = b
    /\ \A a, b \in Tabs : served[a] # None /\ served[a] = served[b] => a = b

(* the server is at work on token t, or has revoked it *)
Spent(t) == tokens[t] = "revoked" \/ \E p \in Procs : token[p] = t

(* Of a token that has not been presented twice, left unanswered, logged    *)
(* out or revoked by reuse detection: once spent it leaves localStorage     *)
(* before its refresh settles, it is presented by one tab and served by one *)
(* request, and revoked only for that one.                                  *)
CauseInv ==
    /\ \A t \in Tokens \ cut :
          /\ Spent(t) => (stored # t \/ \E b \in Tabs : using[b] = t)
                            /\ \A b \in Tabs : pair[b] # t
          /\ \A a, b \in Tabs : using[a] = t /\ using[b] = t => a = b
          /\ \A p, q \in Procs : token[p] = t /\ token[q] = t => p = q
    /\ \A p \in Procs :
          /\ pc[p] = "refreshFind" /\ tokens[token[p]] = "revoked" => token[p] \in cut
          /\ pc[p] \in {"logoutFind", "logoutRevoke"} => token[p] \in cut

(* what a step of request p adds to cut *)
Swept(p) == IF pc[p] = "revoking"
               THEN cut \cup {t \in Tokens : tokens'[t] # tokens[t]} ELSE cut

(* once signed out, no tab awaits a refresh *)
SignOutInv == out = "yes" => stored = None /\ \A b \in Tabs : asking[b] # "refresh"

SessionInv ==
    /\ AuthInv
    /\ SessionTypeOK /\ AnswersInv
    /\ CauseInv /\ ReuseHasCause
    /\ SignOutInv

-----------------------------------------------------------------------------
(* What user-service does to a token *)

(* A step of request p moves no other request; it reads a revoked token     *)
(* before it sets off reuse detection, and forgets its token at the end.    *)
LEMMA ServeMovesOne ==
    ASSUME TypeOK, NEW p \in Procs, Serve(p)
    PROVE  /\ \A q \in Procs \ {p} : pc'[q] = pc[q] /\ token'[q] = token[q]
           /\ pc[p] # "idle" /\ pc'[p] # "refreshFind"
           /\ token'[p] \in {token[p], None}
           /\ pc'[p] # "idle" => token'[p] = token[p]
           /\ pc'[p] = "revokeAll" => pc[p] = "refreshFind" /\ tokens[token[p]] = "revoked"
           /\ pc'[p] \in {"logoutFind", "logoutRevoke"} => pc[p] = "logoutFind"
<1> USE DEF TypeOK, Steps
<1>1. CASE RegisterFind(p)
  BY <1>1 DEF RegisterFind, Return, Goto
<1>2. CASE RegisterCreate(p)
  BY <1>2 DEF RegisterCreate, Return
<1>3. CASE RegisterSeed(p)
  BY <1>3 DEF RegisterSeed, Return
<1>4. CASE LoginFind(p)
  BY <1>4 DEF LoginFind, Return
<1>5. CASE Issue(p)
  BY <1>5 DEF Issue, Return
<1>6. CASE RefreshFind(p)
  BY <1>6 DEF RefreshFind, Return
<1>7. CASE RevokeAllBegin(p) \/ RevokeOne(p) \/ RevokeAllEnd(p)
  BY <1>7 DEF RevokeAllBegin, RevokeOne, RevokeAllEnd, Return, requestVars
<1>8. CASE RefreshUser(p)
  BY <1>8 DEF RefreshUser, Return, Goto
<1>9. CASE RefreshRevoke(p)
  BY <1>9 DEF RefreshRevoke, Return, Goto
<1>10. CASE LogoutFind(p)
  BY <1>10 DEF LogoutFind, Return, Goto
<1>11. CASE LogoutRevoke(p)
  BY <1>11 DEF LogoutRevoke, Return
<1>12. CASE Fail(p)
  BY <1>12 DEF Fail, Return
<1> QED
  BY <1>1, <1>2, <1>3, <1>4, <1>5, <1>6, <1>7, <1>8, <1>9, <1>10, <1>11, <1>12 DEF Serve

(* What is given out was never issued before (issueTokenPair). *)
LEMMA ServeGivesFresh ==
    ASSUME TypeOK, NEW p \in Procs, Serve(p)
    PROVE  \/ given' = given
           \/ \E t \in Tokens : tokens[t] = "free" /\ given' = given \cup {t}
<1> USE DEF storeVars, historyVars
<1>1. CASE RegisterFind(p)
  BY <1>1 DEF RegisterFind, Return, Goto
<1>2. CASE RegisterCreate(p)
  BY <1>2 DEF RegisterCreate, Return
<1>3. CASE RegisterSeed(p)
  BY <1>3 DEF RegisterSeed, Return
<1>4. CASE LoginFind(p)
  BY <1>4 DEF LoginFind, Return
<1>5. CASE Issue(p)
  BY <1>5 DEF Issue, Return
<1>6. CASE RefreshFind(p)
  BY <1>6 DEF RefreshFind, Return
<1>7. CASE RevokeAllBegin(p) \/ RevokeOne(p) \/ RevokeAllEnd(p)
  BY <1>7 DEF RevokeAllBegin, RevokeOne, RevokeAllEnd, Return, requestVars
<1>8. CASE RefreshUser(p)
  BY <1>8 DEF RefreshUser, Return, Goto
<1>9. CASE RefreshRevoke(p)
  BY <1>9 DEF RefreshRevoke, Return, Goto
<1>10. CASE LogoutFind(p)
  BY <1>10 DEF LogoutFind, Return, Goto
<1>11. CASE LogoutRevoke(p)
  BY <1>11 DEF LogoutRevoke, Return
<1>12. CASE Fail(p)
  BY <1>12 DEF Fail, Return
<1> QED
  BY <1>1, <1>2, <1>3, <1>4, <1>5, <1>6, <1>7, <1>8, <1>9, <1>10, <1>11, <1>12 DEF Serve

(* A token becomes revoked because p holds it, or p goes through the tokens *)
(* of its owner.                                                            *)
LEMMA ServeRevokes ==
    ASSUME TypeOK, LocalsInv, NEW p \in Procs, Serve(p), NEW t \in Tokens
    PROVE  tokens'[t] = "revoked" =>
              \/ tokens[t] = "revoked"
              \/ token[p] = t /\ pc[p] \in {"refreshRevoke", "logoutRevoke"}
              \/ pc[p] = "revoking" /\ tokens'[t] # tokens[t]
<1> USE DEF storeVars, historyVars
<1>1. CASE RegisterFind(p) \/ RegisterCreate(p) \/ RegisterSeed(p)
  BY <1>1 DEF RegisterFind, RegisterCreate, RegisterSeed
<1>2. CASE LoginFind(p) \/ RefreshFind(p) \/ RefreshUser(p) \/ LogoutFind(p) \/ Fail(p)
  BY <1>2 DEF LoginFind, RefreshFind, RefreshUser, LogoutFind, Fail
<1>3. CASE Issue(p)
  BY <1>3 DEF Issue, TypeOK
<1>4. CASE RevokeAllBegin(p) \/ RevokeOne(p) \/ RevokeAllEnd(p)
  BY <1>4 DEF RevokeAllBegin, RevokeOne, RevokeAllEnd, TypeOK
<1>5. CASE RefreshRevoke(p)
  BY <1>5 DEF RefreshRevoke, TypeOK, LocalsInv
<1>6. CASE LogoutRevoke(p)
  BY <1>6 DEF LogoutRevoke, TypeOK, LocalsInv
<1> QED
  BY <1>1, <1>2, <1>3, <1>4, <1>5, <1>6 DEF Serve

(* A step of the browser is a step of user-service, or leaves it alone. *)
LEMMA SessionStepIsAuthStep ==
    ASSUME SessionTypeOK, TypeOK, [SessionNext]_sessionVars
    PROVE  [Next]_vars
<1> USE DEF SessionTypeOK, TypeOK
<1>1. ASSUME NEW c \in Calls, ApiFetch(c) \/ Logout(c) \/ Retry(c) PROVE [Next]_vars
  <2>1. body'[c] \in Tokens \cup {None}
    BY <1>1 DEF ApiFetch, Logout, Retry
  <2>2. UNCHANGED vars \/ \E p \in Procs : body'[c] # None /\ LogoutStart(p, body'[c])
    BY <1>1 DEF ApiFetch, Logout, Retry, RawFetch
  <2> QED
    BY <2>1, <2>2 DEF Next
<1>2. ASSUME NEW c \in Calls, Denied(c) PROVE [Next]_vars
  <2>1. UNCHANGED vars \/ \E p \in Procs : stored # None /\ RefreshStart(p, stored)
    BY <1>2 DEF Denied, TryRefresh
  <2> QED
    BY <2>1 DEF Next
<1>3. ASSUME NEW c \in Calls, DeniedTwice(c) \/ LogoutEnds(c) PROVE [Next]_vars
  BY <1>3 DEF DeniedTwice, LogoutEnds
<1>4. ASSUME NEW b \in Tabs, LoginSubmit(b) PROVE [Next]_vars
  BY <1>4 DEF LoginSubmit, Next
<1>5. ASSUME NEW b \in Tabs, AnswerLost(b) \/ RefreshSettles(b) \/ LoginSettles(b) \/ Unload(b)
      PROVE  [Next]_vars
  BY <1>5 DEF AnswerLost, RefreshSettles, LoginSettles, Unload
<1>6. CASE Server
  BY <1>6 DEF Server, Next
<1>7. ASSUME NEW t \in Tokens, AccessExpires(t) PROVE [Next]_vars
  BY <1>7 DEF AccessExpires
<1>8. CASE UNCHANGED sessionVars
  BY <1>8 DEF sessionVars
<1> QED
  BY <1>1, <1>2, <1>3, <1>4, <1>5, <1>6, <1>7, <1>8 DEF SessionNext

-----------------------------------------------------------------------------
(* The browser *)

(* The invariant of AuthService holds under the browser's steps. *)
LEMMA SessionAuthInv == SessionInv /\ [SessionNext]_sessionVars => AuthInv'
  BY SessionStepIsAuthStep, StepInv DEF SessionInv, AuthInv

(* The answer to a request holds what it was given just now, if anything. *)
LEMMA ServerAnswers ==
    ASSUME TypeOK, TypeOK', LocalsInv, SessionTypeOK, Server
    PROVE  \E p \in Procs :
             /\ Serve(p)
             /\ pair' \in [Tabs -> Tokens \cup {None}]
             /\ \A b \in Tabs : pair'[b] # pair[b] =>
                   /\ served[b] = p /\ served'[b] = None
                   /\ pair'[b] \in given' /\ pair'[b] \notin given /\ tokens[pair'[b]] = "free"
             /\ served' \in [Tabs -> Procs \cup {None}]
             /\ \A b \in Tabs : served'[b] \in {served[b], None}
             /\ \A b \in Tabs : served[b] = p /\ pc'[p] = "idle" => served'[b] = None
             /\ cut' = Swept(p)
<1> USE DEF TypeOK, SessionTypeOK
<1> DEFINE fresh == CHOOSE t \in given' \ given : TRUE
<1>1. PICK p \in Procs :
        /\ Serve(p)
        /\ served' = [b \in Tabs |-> IF served[b] = p /\ pc'[p] = "idle"
                                       THEN None ELSE served[b]]
        /\ pair' = [b \in Tabs |-> IF served[b] = p /\ pc'[p] = "idle" /\ given' # given
                                       THEN fresh ELSE pair[b]]
        /\ cut' = Swept(p)
  <2>1. PICK p \in Procs :
          /\ Serve(p)
          /\ LET done == {b \in Tabs : served[b] = p /\ pc'[p] = "idle"} IN
             /\ served' = [b \in Tabs |-> IF b \in done THEN None ELSE served[b]]
             /\ pair' = [b \in Tabs |-> IF b \in done /\ given' # given
                                          THEN fresh ELSE pair[b]]
          /\ cut' = Swept(p)
    BY DEF Server, Swept
  <2> HIDE DEF fresh
  <2>2. served' = [b \in Tabs |-> IF served[b] = p /\ pc'[p] = "idle"
                                    THEN None ELSE served[b]]
    BY <2>1
  <2>3. pair' = [b \in Tabs |-> IF served[b] = p /\ pc'[p] = "idle" /\ given' # given
                                  THEN fresh ELSE pair[b]]
    BY <2>1
  <2> QED
    BY <2>1, <2>2, <2>3
<1>2. given' # given => fresh \in given' /\ fresh \notin given /\ tokens[fresh] = "free"
  BY <1>1, ServeGivesFresh DEF LocalsInv
<1> HIDE DEF fresh
<1>3. pair' \in [Tabs -> Tokens \cup {None}]
  BY <1>1, <1>2
<1>4. \A b \in Tabs : pair'[b] # pair[b] =>
         /\ served[b] = p /\ served'[b] = None
         /\ pair'[b] \in given' /\ pair'[b] \notin given /\ tokens[pair'[b]] = "free"
  BY <1>1, <1>2
<1>5. /\ served' \in [Tabs -> Procs \cup {None}]
      /\ \A b \in Tabs : served'[b] \in {served[b], None}
      /\ \A b \in Tabs : served[b] = p /\ pc'[p] = "idle" => served'[b] = None
  BY <1>1
<1> QED
  BY <1>1, <1>3, <1>4, <1>5

(* The tabs' waits fit their requests, and the answers are fresh pairs. *)
LEMMA SessionTypeStep == SessionInv /\ [SessionNext]_sessionVars => SessionTypeOK' /\ AnswersInv'
<1> SUFFICES ASSUME SessionInv, [SessionNext]_sessionVars
             PROVE  SessionTypeOK' /\ AnswersInv'
  OBVIOUS
<1>0. TypeOK /\ TypeOK' /\ LocalsInv
  BY SessionAuthInv DEF SessionInv, AuthInv
<1> USE <1>0 DEF SessionInv, SessionTypeOK, AnswersInv, CallStates, TypeOK, vars,
        storeVars, requestVars, historyVars, browserVars
<1>1. ASSUME NEW c \in Calls, ApiFetch(c) PROVE SessionTypeOK' /\ AnswersInv'
  BY <1>1 DEF ApiFetch, RawFetch, Refused
<1>2. ASSUME NEW c \in Calls, Logout(c) PROVE SessionTypeOK' /\ AnswersInv'
  <2>1. CASE UNCHANGED vars
    BY <1>2, <2>1, SMTT(30) DEF Logout, RawFetch, Refused
  <2>2. ASSUME NEW p \in Procs, LogoutStart(p, body'[c]), call' = [call EXCEPT ![c] = "passed"],
               cut' = cut \cup {body'[c]}
        PROVE  SessionTypeOK' /\ AnswersInv'
    BY <1>2, <2>2 DEF Logout, LogoutStart
  <2> QED
    BY <1>2, <2>1, <2>2 DEF Logout, RawFetch
<1>3. ASSUME NEW c \in Calls, Retry(c) PROVE SessionTypeOK' /\ AnswersInv'
  BY <1>3, SMTT(30) DEF Retry, RawFetch, Refused, LogoutStart
<1>4. ASSUME NEW c \in Calls, Denied(c) PROVE SessionTypeOK' /\ AnswersInv'
  <2>1. CASE asking[TabOf[c]] = "refresh"
    BY <1>4, <2>1 DEF Denied, TryRefresh
  <2>2. CASE asking[TabOf[c]] = "none" /\ stored = None
    <3>1. asking' = asking /\ GiveUp(c) /\ UNCHANGED <<vars, using, served, pair, cut, lapsed>>
      BY <1>4, <2>2 DEF Denied, TryRefresh
    <3> QED
      BY <3>1 DEF GiveUp, Over
  <2>3. CASE asking[TabOf[c]] = "none" /\ stored # None
    <3> DEFINE b == TabOf[c]
    <3>1. /\ asking' = [asking EXCEPT ![b] = "refresh"]
          /\ using' = [using EXCEPT ![b] = stored]
          /\ call' = [call EXCEPT ![c] = "waiting"]
          /\ cut' \in {cut, cut \cup {stored}}
          /\ UNCHANGED <<lapsed, stored, pair, body, out>>
      BY <1>4, <2>3 DEF Denied, TryRefresh
    <3>2. CASE UNCHANGED <<vars, served>>
      BY <2>3, <3>1, <3>2
    <3>3. ASSUME NEW p \in Procs, RefreshStart(p, stored), served' = [served EXCEPT ![b] = p]
          PROVE  SessionTypeOK' /\ AnswersInv'
      BY <2>3, <3>1, <3>3 DEF RefreshStart
    <3> QED
      BY <1>4, <2>3, <3>2, <3>3 DEF Denied, TryRefresh
  <2> QED
    BY <1>4, <2>1, <2>2, <2>3 DEF Denied, TryRefresh
<1>5. ASSUME NEW c \in Calls, DeniedTwice(c) PROVE SessionTypeOK' /\ AnswersInv'
  BY <1>5 DEF DeniedTwice, GiveUp, Over
<1>6. ASSUME NEW c \in Calls, LogoutEnds(c) PROVE SessionTypeOK' /\ AnswersInv'
  BY <1>6 DEF LogoutEnds, GiveUp, Over
<1>7. ASSUME NEW b \in Tabs, LoginSubmit(b) PROVE SessionTypeOK' /\ AnswersInv'
  BY <1>7 DEF LoginSubmit, LoginStart
<1>8. ASSUME NEW b \in Tabs, AnswerLost(b) PROVE SessionTypeOK' /\ AnswersInv'
  BY <1>8 DEF AnswerLost
<1>9. ASSUME NEW b \in Tabs, RefreshSettles(b) PROVE SessionTypeOK' /\ AnswersInv'
  BY <1>9 DEF RefreshSettles, Waiting, Over
<1>10. ASSUME NEW b \in Tabs, LoginSettles(b) PROVE SessionTypeOK' /\ AnswersInv'
  BY <1>10 DEF LoginSettles
<1>11. ASSUME NEW b \in Tabs, Unload(b) PROVE SessionTypeOK' /\ AnswersInv'
  BY <1>11 DEF Unload
<1>12. CASE Server
  <2>1. PICK p \in Procs :
          /\ Serve(p)
          /\ pair' \in [Tabs -> Tokens \cup {None}]
          /\ \A b \in Tabs : pair'[b] # pair[b] =>
                /\ served[b] = p /\ served'[b] = None
                /\ pair'[b] \in given' /\ pair'[b] \notin given /\ tokens[pair'[b]] = "free"
          /\ served' \in [Tabs -> Procs \cup {None}]
          /\ \A b \in Tabs : served'[b] \in {served[b], None}
          /\ \A b \in Tabs : served[b] = p /\ pc'[p] = "idle" => served'[b] = None
    BY <1>12, ServerAnswers
  <2>2. \A q \in Procs \ {p} : pc'[q] = pc[q]
    BY <2>1, ServeMovesOne
  <2>3. given \subseteq given'
    <3>1. given' = given \/ \E t \in Tokens : tokens[t] = "free" /\ given' = given \cup {t}
      BY ONLY <1>0, <2>1, ServeGivesFresh
    <3> QED
      BY ONLY <3>1
  <2>4. UNCHANGED <<lapsed, stored, asking, using, call, body, out>> /\ cut' \in SUBSET Tokens
    BY <1>12 DEF Server
  <2>5. AnswersInv'
    BY <2>1, <2>3, <2>4, SMTT(30)
  <2>6. SessionTypeOK'
    BY <2>1, <2>2, <2>3, <2>4
  <2> QED
    BY <2>5, <2>6
<1>13. ASSUME NEW t \in Tokens, AccessExpires(t) PROVE SessionTypeOK' /\ AnswersInv'
  BY <1>13 DEF AccessExpires
<1>14. CASE UNCHANGED sessionVars
  BY <1>14 DEF sessionVars
<1> QED
  BY <1>1, <1>2, <1>3, <1>4, <1>5, <1>6, <1>7, <1>8, <1>9, <1>10, <1>11, <1>12, <1>13,
     <1>14 DEF SessionNext

(* Signing out while no pair is awaited leaves none that a refresh could   *)
(* bring back.                                                              *)
LEMMA SignOutStep == SessionInv /\ [SessionNext]_sessionVars => SignOutInv'
<1> SUFFICES ASSUME SessionInv, [SessionNext]_sessionVars
             PROVE  SignOutInv'
  OBVIOUS
<1> USE DEF SessionInv, SessionTypeOK, SignOutInv, vars, storeVars, requestVars,
        historyVars, browserVars
<1>1. ASSUME NEW c \in Calls, ApiFetch(c) PROVE SignOutInv'
  BY <1>1 DEF ApiFetch, RawFetch, Refused
<1>2. ASSUME NEW c \in Calls, Logout(c) PROVE SignOutInv'
  BY <1>2 DEF Logout, RawFetch, Refused, LogoutStart
<1>3. ASSUME NEW c \in Calls, Retry(c) PROVE SignOutInv'
  BY <1>3 DEF Retry, RawFetch, Refused, LogoutStart
<1>4. ASSUME NEW c \in Calls, Denied(c) PROVE SignOutInv'
  BY <1>4 DEF Denied, TryRefresh, GiveUp, Over, RefreshStart
<1>5. ASSUME NEW c \in Calls, DeniedTwice(c) PROVE SignOutInv'
  BY <1>5 DEF DeniedTwice, GiveUp, Over
<1>6. ASSUME NEW c \in Calls, LogoutEnds(c) PROVE SignOutInv'
  BY <1>6 DEF LogoutEnds, GiveUp, Over
<1>7. ASSUME NEW b \in Tabs, LoginSubmit(b) PROVE SignOutInv'
  BY <1>7 DEF LoginSubmit, LoginStart
<1>8. ASSUME NEW b \in Tabs, AnswerLost(b) PROVE SignOutInv'
  BY <1>8 DEF AnswerLost
<1>9. ASSUME NEW b \in Tabs, RefreshSettles(b) PROVE SignOutInv'
  BY <1>9 DEF RefreshSettles, Waiting, Over
<1>10. ASSUME NEW b \in Tabs, LoginSettles(b) PROVE SignOutInv'
  BY <1>10 DEF LoginSettles
<1>11. ASSUME NEW b \in Tabs, Unload(b) PROVE SignOutInv'
  BY <1>11 DEF Unload
<1>12. CASE Server
  BY <1>12 DEF Server
<1>13. ASSUME NEW t \in Tokens, AccessExpires(t) PROVE SignOutInv'
  BY <1>13 DEF AccessExpires
<1>14. CASE UNCHANGED sessionVars
  BY <1>14 DEF sessionVars
<1> QED
  BY <1>1, <1>2, <1>3, <1>4, <1>5, <1>6, <1>7, <1>8, <1>9, <1>10, <1>11, <1>12, <1>13,
     <1>14 DEF SessionNext

(* No token is presented a second time, and none is revoked behind the      *)
(* back of a refresh, without one of the named causes.                      *)
LEMMA CauseStep == SessionInv /\ [SessionNext]_sessionVars => CauseInv' /\ ReuseHasCause'
<1> SUFFICES ASSUME SessionInv, [SessionNext]_sessionVars
             PROVE  CauseInv' /\ ReuseHasCause'
  OBVIOUS
<1>0. TypeOK /\ TypeOK' /\ LocalsInv
  BY SessionAuthInv DEF SessionInv, AuthInv
<1> USE <1>0 DEF SessionInv, SessionTypeOK, AnswersInv, CauseInv, ReuseHasCause, Spent,
                 TypeOK, LocalsInv, vars, storeVars, requestVars, historyVars, browserVars
<1>1. ASSUME NEW c \in Calls, ApiFetch(c) PROVE CauseInv' /\ ReuseHasCause'
  BY <1>1 DEF ApiFetch, RawFetch, Refused
<1>2. ASSUME NEW c \in Calls, Logout(c) PROVE CauseInv' /\ ReuseHasCause'
  <2>1. stored # None /\ body' = [body EXCEPT ![c] = stored] /\ UNCHANGED <<stored, using, pair>>
    BY <1>2 DEF Logout
  <2>2. CASE UNCHANGED vars /\ cut' \in {cut, cut \cup {body'[c]}}
    BY <2>1, <2>2
  <2>3. ASSUME NEW p \in Procs, LogoutStart(p, body'[c]), cut' = cut \cup {body'[c]}
        PROVE  CauseInv' /\ ReuseHasCause'
    BY <2>1, <2>3 DEF LogoutStart
  <2> QED
    BY <1>2, <2>2, <2>3 DEF Logout, RawFetch
<1>3. ASSUME NEW c \in Calls, Retry(c) PROVE CauseInv' /\ ReuseHasCause'
  <2>1. CASE UNCHANGED <<vars, cut>>
    BY <1>3, <2>1 DEF Retry
  <2>2. ASSUME NEW p \in Procs, body[c] # None, LogoutStart(p, body[c]),
               cut' = cut \cup {body[c]}
        PROVE  CauseInv' /\ ReuseHasCause'
    BY <1>3, <2>2 DEF Retry, LogoutStart
  <2>3. CASE UNCHANGED vars /\ cut' = cut \cup {body[c]}
    BY <1>3, <2>3 DEF Retry
  <2> QED
    BY <1>3, <2>1, <2>2, <2>3 DEF Retry, RawFetch
<1>4. ASSUME NEW c \in Calls, Denied(c) PROVE CauseInv' /\ ReuseHasCause'
  <2>1. CASE asking[TabOf[c]] = "refresh"
    BY <1>4, <2>1 DEF Denied, TryRefresh
  <2>2. CASE asking[TabOf[c]] = "none" /\ stored = None
    <3>1. asking' = asking /\ GiveUp(c) /\ UNCHANGED <<vars, using, served, pair, cut, lapsed>>
      BY <1>4, <2>2 DEF Denied, TryRefresh
    <3> QED
      BY <3>1 DEF GiveUp, Over
  <2>3. CASE asking[TabOf[c]] = "none" /\ stored # None
    <3> DEFINE b == TabOf[c]
    <3>1. /\ using' = [using EXCEPT ![b] = stored]
          /\ cut' = IF \E o \in Tabs : using[o] = stored THEN cut \cup {stored} ELSE cut
          /\ UNCHANGED <<stored, pair>>
      BY <1>4, <2>3 DEF Denied, TryRefresh
    <3>2. CASE UNCHANGED <<vars, served>>
      <4>1. ASSUME NEW t \in Tokens \ cut'
            PROVE  /\ Spent(t)' => (stored' # t \/ \E d \in Tabs : using'[d] = t)
                                      /\ \A d \in Tabs : pair'[d] # t
                   /\ \A a, d \in Tabs : using'[a] = t /\ using'[d] = t => a = d
        <5>1. t \notin cut /\ (t = stored => \A d \in Tabs : using[d] # t)
          BY <3>1, <3>2
        <5>2. Spent(t)' => stored' # t \/ \E d \in Tabs : using'[d] = t
          BY <3>1
        <5>3. Spent(t)' => \A d \in Tabs : pair'[d] # t
          BY <3>1, <3>2, <5>1
        <5>4. \A a, d \in Tabs : using'[a] = t /\ using'[d] = t => a = d
          BY <3>1, <5>1
        <5> QED
          BY <5>2, <5>3, <5>4
      <4> QED
        BY <3>1, <3>2, <4>1
    <3>3. ASSUME NEW p \in Procs, RefreshStart(p, stored)
          PROVE  CauseInv' /\ ReuseHasCause'
      <4>1. /\ stored \in Tokens /\ UNCHANGED tokens
            /\ pc[p] = "idle" /\ pc' = [pc EXCEPT ![p] = "refreshFind"]
            /\ token' = [token EXCEPT ![p] = stored]
        BY <2>3, <3>3 DEF RefreshStart
      <4>2. Spent(stored) => stored \in cut'
        BY <3>1, <4>1
      <4>3. ASSUME NEW t \in Tokens \ cut'
            PROVE  /\ Spent(t)' => (stored' # t \/ \E d \in Tabs : using'[d] = t)
                                      /\ \A d \in Tabs : pair'[d] # t
                   /\ \A a, d \in Tabs : using'[a] = t /\ using'[d] = t => a = d
                   /\ \A q, r \in Procs : token'[q] = t /\ token'[r] = t => q = r
        <5>1. t \notin cut /\ (t = stored => ~Spent(t) /\ \A d \in Tabs : using[d] # t)
          BY <3>1, <4>1, <4>2
        <5>2. t # stored => (Spent(t)' => Spent(t))
          BY <4>1
        <5>3. Spent(t)' => stored' # t \/ \E d \in Tabs : using'[d] = t
          BY <3>1
        <5>4. Spent(t)' => \A d \in Tabs : pair'[d] # t
          <6>1. CASE t = stored
            BY <3>1, <4>1, <6>1
          <6>2. CASE t # stored
            BY <3>1, <5>1, <5>2, <6>2
          <6> QED
            BY <6>1, <6>2
        <5>5. \A a, d \in Tabs : using'[a] = t /\ using'[d] = t => a = d
          BY <3>1, <5>1
        <5>6. \A q, r \in Procs : token'[q] = t /\ token'[r] = t => q = r
          BY <4>1, <5>1
        <5> QED
          BY <5>3, <5>4, <5>5, <5>6
      <4>4. ASSUME NEW q \in Procs
            PROVE  /\ pc'[q] = "refreshFind" /\ tokens'[token'[q]] = "revoked"
                         => token'[q] \in cut'
                   /\ pc'[q] \in {"logoutFind", "logoutRevoke"} => token'[q] \in cut'
                   /\ pc'[q] = "revokeAll" => token'[q] \in cut'
        BY <3>1, <4>1, <4>2
      <4> QED
        BY <4>3, <4>4
    <3> QED
      BY <1>4, <2>3, <3>2, <3>3 DEF Denied, TryRefresh
  <2> QED
    BY <1>4, <2>1, <2>2, <2>3 DEF Denied, TryRefresh
<1>5. ASSUME NEW c \in Calls, DeniedTwice(c) PROVE CauseInv' /\ ReuseHasCause'
  BY <1>5 DEF DeniedTwice, GiveUp, Over
<1>6. ASSUME NEW c \in Calls, LogoutEnds(c) PROVE CauseInv' /\ ReuseHasCause'
  BY <1>6 DEF LogoutEnds, GiveUp, Over
<1>7. ASSUME NEW b \in Tabs, LoginSubmit(b) PROVE CauseInv' /\ ReuseHasCause'
  BY <1>7 DEF LoginSubmit, LoginStart
<1>8. ASSUME NEW b \in Tabs, AnswerLost(b) PROVE CauseInv' /\ ReuseHasCause'
  BY <1>8 DEF AnswerLost
<1>9. ASSUME NEW b \in Tabs, RefreshSettles(b) PROVE CauseInv' /\ ReuseHasCause'
  BY <1>9 DEF RefreshSettles, Waiting, Over
<1>10. ASSUME NEW b \in Tabs, LoginSettles(b) PROVE CauseInv' /\ ReuseHasCause'
  BY <1>10 DEF LoginSettles
<1>11. ASSUME NEW b \in Tabs, Unload(b) PROVE CauseInv' /\ ReuseHasCause'
  BY <1>11 DEF Unload
<1>12. CASE Server
  <2>1. PICK p \in Procs :
          /\ Serve(p)
          /\ pair' \in [Tabs -> Tokens \cup {None}]
          /\ \A b \in Tabs : pair'[b] # pair[b] => tokens[pair'[b]] = "free" /\ pair'[b] \notin given
          /\ cut' = Swept(p)
    BY <1>12, ServerAnswers
  <2>2. UNCHANGED <<stored, using>> /\ cut \subseteq cut'
    BY <1>12, <2>1 DEF Server, Swept
  <2>3. /\ \A q \in Procs \ {p} : pc'[q] = pc[q] /\ token'[q] = token[q]
        /\ pc[p] # "idle" /\ pc'[p] # "refreshFind"
        /\ token'[p] \in {token[p], None}
        /\ pc'[p] # "idle" => token'[p] = token[p]
        /\ pc'[p] = "revokeAll" => pc[p] = "refreshFind" /\ tokens[token[p]] = "revoked"
        /\ pc'[p] \in {"logoutFind", "logoutRevoke"} => pc[p] = "logoutFind"
    BY <2>1, ServeMovesOne
  <2>4. \A t \in Tokens : tokens'[t] = "revoked" /\ t \notin cut' =>
           \/ tokens[t] = "revoked"
           \/ token[p] = t /\ pc[p] \in {"refreshRevoke", "logoutRevoke"}
    BY <2>1, ServeRevokes DEF Swept
  <2>5. ASSUME NEW t \in Tokens \ cut'
        PROVE  /\ Spent(t)' => (stored' # t \/ \E b \in Tabs : using'[b] = t)
                                  /\ \A b \in Tabs : pair'[b] # t
               /\ \A a, b \in Tabs : using'[a] = t /\ using'[b] = t => a = b
               /\ \A q, r \in Procs : token'[q] = t /\ token'[r] = t => q = r
    <3>1. t \notin cut /\ (Spent(t)' => Spent(t))
      BY <2>2, <2>3, <2>4
    <3>2. Spent(t) => tokens[t] # "free"
      OBVIOUS
    <3>3. Spent(t)' => \A b \in Tabs : pair'[b] # t
      BY <2>1, <3>1, <3>2
    <3>4. Spent(t)' => stored' # t \/ \E b \in Tabs : using'[b] = t
      BY <2>2, <3>1
    <3>5. \A a, b \in Tabs : using'[a] = t /\ using'[b] = t => a = b
      BY <2>2, <3>1
    <3>6. \A q, r \in Procs : token'[q] = t /\ token'[r] = t => q = r
      <4>1. \A q \in Procs : token'[q] = t => token[q] = t
        <5>1. t # None
          OBVIOUS
        <5> QED
          BY ONLY <2>3, <5>1
      <4>2. \A q, r \in Procs : token[q] = t /\ token[r] = t => q = r
        <5>1. CauseInv
          OBVIOUS
        <5> QED
          BY ONLY <3>1, <5>1, t \in Tokens DEF CauseInv
      <4> QED
        BY ONLY <4>1, <4>2
    <3> QED
      BY <3>3, <3>4, <3>5, <3>6
  <2>6. ASSUME NEW q \in Procs
        PROVE  /\ pc'[q] = "refreshFind" /\ tokens'[token'[q]] = "revoked" => token'[q] \in cut'
               /\ pc'[q] \in {"logoutFind", "logoutRevoke"} => token'[q] \in cut'
               /\ pc'[q] = "revokeAll" => token'[q] \in cut'
    BY <2>2, <2>3, <2>4, SMTT(30)
  <2>7. CauseInv'
    BY ONLY <2>5, <2>6 DEF CauseInv
  <2>8. ReuseHasCause'
    BY ONLY <2>6 DEF ReuseHasCause
  <2> QED
    BY ONLY <2>7, <2>8
<1>13. ASSUME NEW t \in Tokens, AccessExpires(t) PROVE CauseInv' /\ ReuseHasCause'
  <2>1. UNCHANGED <<tokens, pc, token, stored, using, pair, cut>>
    BY <1>13 DEF AccessExpires
  <2>2. CauseInv /\ ReuseHasCause
    OBVIOUS
  <2> QED
    BY ONLY <2>1, <2>2 DEF CauseInv, ReuseHasCause, Spent
<1>14. CASE UNCHANGED sessionVars
  BY <1>14 DEF sessionVars
<1> QED
  BY <1>1, <1>2, <1>3, <1>4, <1>5, <1>6, <1>7, <1>8, <1>9, <1>10, <1>11, <1>12, <1>13,
     <1>14 DEF SessionNext

-----------------------------------------------------------------------------

(* It holds before the first login. *)
LEMMA SessionInitInv == SessionInit => SessionInv
<1> SUFFICES ASSUME SessionInit PROVE SessionInv
  OBVIOUS
<1> DEFINE accounts(u) == [v \in Users |-> IF v = u THEN Address ELSE None]
<1>1. PICK u \in Users : InitWith(accounts(u))
  BY DEF SessionInit
<1>2. AuthInv
  <2>1. /\ accounts(u) \in [Users -> Emails \cup {None}]
        /\ \A v, w \in Users : accounts(u)[v] # None /\ accounts(u)[v] = accounts(u)[w] => v = w
    OBVIOUS
  <2> HIDE DEF accounts
  <2> QED
    BY <1>1, <2>1, InitWithInv
<1>3. SessionTypeOK /\ AnswersInv
  BY <1>1 DEF SessionInit, InitWith, SessionTypeOK, AnswersInv, CallStates
<1>4. CauseInv /\ ReuseHasCause /\ SignOutInv
  BY <1>1 DEF SessionInit, InitWith, CauseInv, ReuseHasCause, SignOutInv, Spent
<1> QED
  BY <1>2, <1>3, <1>4 DEF SessionInv

(* Every reachable state satisfies the inductive invariant. *)
LEMMA SessionCorrect == SessionSpec => []SessionInv
<1>1. SessionInv /\ [SessionNext]_sessionVars => SessionInv'
  BY SessionAuthInv, SessionTypeStep, SignOutStep, CauseStep DEF SessionInv
<1> QED
  BY <1>1, SessionInitInv, PTL DEF SessionSpec

(* Whatever the tabs of a browser do, what they await and what user-service *)
(* serves fit together, and a call only waits for a refresh its page has    *)
(* under way (apiFetch, refreshPromise).                                    *)
THEOREM WaitsHaveRequests == SessionSpec => []SessionTypeOK
<1>1. SessionInv => SessionTypeOK
  BY DEF SessionInv
<1> QED
  BY <1>1, SessionCorrect, PTL

(* The browser sets off reuse detection only for one of the named causes:   *)
(* tryRefresh's shared promise and single retry never do (api.ts).          *)
THEOREM ReuseIsCaused == SessionSpec => []ReuseHasCause
<1>1. SessionInv => ReuseHasCause
  BY DEF SessionInv
<1> QED
  BY <1>1, SessionCorrect, PTL

(* Once signed out while no pair is awaited, the browser stays signed out   *)
(* until the next login (auth-context.tsx, logout).                         *)
THEOREM SignOutIsFinal == SessionSpec => []SignedOutStays
<1>1. SessionInv => SignedOutStays
  BY DEF SessionInv, SignOutInv, SignedOutStays
<1> QED
  BY <1>1, SessionCorrect, PTL

(* Under any behaviour of the browser the guarantees of user-service hold.  *)
THEOREM BrowserKeepsAuth ==
    SessionSpec => [](EmailUnique /\ ReplayRefused /\ ContainmentUpToInFlight)
<1>1. SessionInv => EmailUnique /\ ReplayRefused /\ ContainmentUpToInFlight
  BY StaleAreRefused DEF SessionInv, AuthInv
<1> QED
  BY <1>1, SessionCorrect, PTL

=============================================================================
