---------------------------- MODULE AuthService ----------------------------
(***************************************************************************)
(* user-service: registration, login, refresh-token rotation and logout    *)
(* (internal/service/auth_service.go) over the users, settings and         *)
(* refresh_tokens collections (internal/repository).                       *)
(*                                                                         *)
(* A request goroutine p is at pc[p]; each MongoDB call is one step, so    *)
(* requests interleave between any two calls, exactly where the code holds *)
(* what it has read in local variables.  Passwords, hashes and signatures  *)
(* are abstracted to whether they match.                                   *)
(***************************************************************************)
EXTENDS FiniteSets

CONSTANTS
    Procs,    \* concurrent request goroutines
    Users,    \* user ids (uuid)
    Emails,   \* normalized e-mail addresses
    Tokens,   \* refresh tokens (jti); bound: as many as are ever issued
    None

ASSUME NoneAssumption == None \notin Procs \cup Users \cup Emails \cup Tokens
ASSUME IdsAssumption == Procs \cap Tokens = {}

VARIABLES
    (* MongoDB *)
    users,     \* [Users -> Emails \cup {None}]: e-mail of the user, None if absent
    settings,  \* users with a settings document
    tokens,    \* [Tokens -> TokenStates]
    owner,     \* [Tokens -> Users \cup {None}]: user_id of the token
    expired,   \* tokens past their expires_at
    (* request goroutines *)
    pc,        \* [Procs -> Steps]: the call the request makes next
    token,     \* [Procs -> Tokens \cup {None}]: the refresh token presented
    user,      \* [Procs -> Users \cup {None}]: the user found or created
    email,     \* [Procs -> Emails \cup {None}]
    covered,   \* [Procs -> SUBSET Tokens]: the user's tokens when its UpdateMany began
    (* clients *)
    given,     \* tokens returned to a client
    (* history, read by properties only *)
    parent,    \* [Tokens -> Tokens \cup {None}]: the token rotated into this one
    stale,     \* requests whose token was revoked or expired when they began
    old,       \* tokens there before a RevokeAllForUser, and what they were
               \* rotated into after it
    pardoned   \* requests and tokens that were, or come from, refreshes past
               \* their checks when RevokeAllForUser ended

storeVars   == <<users, settings, tokens, owner, expired>>
requestVars == <<pc, token, user, email, covered>>
historyVars == <<parent, stale, old, pardoned>>
vars == <<storeVars, requestVars, given, historyVars>>

(* free: never issued; gone: removed by the TTL index *)
TokenStates == {"free", "live", "revoked", "gone"}

Steps == {"idle", "registerFind", "registerCreate", "registerSeed",
          "loginFind", "refreshFind", "revokeAll", "revoking", "refreshUser",
          "refreshRevoke", "issue", "logoutFind", "logoutRevoke"}

(* a Refresh that has found its token valid and has not issued a pair yet *)
Rotating(p) == pc[p] \in {"refreshUser", "refreshRevoke", "issue"} /\ token[p] # None

TypeOK ==
    /\ users \in [Users -> Emails \cup {None}]
    /\ settings \in SUBSET Users
    /\ tokens \in [Tokens -> TokenStates]
    /\ owner \in [Tokens -> Users \cup {None}]
    /\ \A t \in Tokens : tokens[t] # "free" => owner[t] # None
    /\ expired \in SUBSET Tokens
    /\ pc \in [Procs -> Steps]
    /\ token \in [Procs -> Tokens \cup {None}]
    /\ user \in [Procs -> Users \cup {None}]
    /\ email \in [Procs -> Emails \cup {None}]
    /\ covered \in [Procs -> SUBSET Tokens]
    /\ given \in SUBSET Tokens
    /\ parent \in [Tokens -> Tokens \cup {None}]
    /\ stale \in SUBSET Procs
    /\ old \in SUBSET Tokens
    /\ pardoned \in SUBSET (Procs \cup Tokens)

(* no session yet; accounts: [Users -> Emails \cup {None}] *)
InitWith(accounts) ==
    /\ users = accounts
    /\ settings = {u \in Users : accounts[u] # None}
    /\ tokens = [t \in Tokens |-> "free"]
    /\ owner = [t \in Tokens |-> None]
    /\ expired = {}
    /\ pc = [p \in Procs |-> "idle"]
    /\ token = [p \in Procs |-> None]
    /\ user = [p \in Procs |-> None]
    /\ email = [p \in Procs |-> None]
    /\ covered = [p \in Procs |-> {}]
    /\ given = {}
    /\ parent = [t \in Tokens |-> None]
    /\ stale = {}
    /\ old = {}
    /\ pardoned = {}

Init == InitWith([u \in Users |-> None])

-----------------------------------------------------------------------------
(* Requests *)

(* p makes the call "step" next *)
Goto(p, step) ==
    /\ pc' = [pc EXCEPT ![p] = step]
    /\ UNCHANGED <<token, user, email, covered>>

(* the request returns: its local variables are gone *)
Return(p) ==
    /\ pc' = [pc EXCEPT ![p] = "idle"]
    /\ token' = [token EXCEPT ![p] = None]
    /\ user' = [user EXCEPT ![p] = None]
    /\ email' = [email EXCEPT ![p] = None]
    /\ covered' = [covered EXCEPT ![p] = {}]
    /\ stale' = stale \ {p}

(* a call fails without effect, or the process stops: the request returns *)
(* an error                                                                *)
Fail(p) ==
    /\ pc[p] # "idle"
    /\ Return(p)
    /\ pardoned' = pardoned \ {p}
    /\ UNCHANGED <<storeVars, given, parent, old>>

-----------------------------------------------------------------------------
(* POST /auth/register *)

FindByEmail(e) == {u \in Users : users[u] = e}

(* InsertOne with a fresh id *)
InsertUser(u, e) == users[u] = None /\ users' = [users EXCEPT ![u] = e]

RegisterStart(p, e) ==
    /\ pc[p] = "idle"
    /\ pc' = [pc EXCEPT ![p] = "registerFind"]
    /\ email' = [email EXCEPT ![p] = e]
    /\ UNCHANGED <<storeVars, token, user, covered, given, historyVars>>

(* FindByEmail: ErrDuplicateEmail if there is one *)
RegisterFind(p) ==
    /\ pc[p] = "registerFind"
    /\ IF FindByEmail(email[p]) # {}
          THEN Return(p)
          ELSE Goto(p, "registerCreate") /\ UNCHANGED stale
    /\ UNCHANGED <<storeVars, given, parent, old, pardoned>>

(* A users collection without the unique index on email. *)
RegisterCreateMutant(p) ==
    /\ pc[p] = "registerCreate"
    /\ \E u \in Users : InsertUser(u, email[p]) /\ user' = [user EXCEPT ![p] = u]
    /\ pc' = [pc EXCEPT ![p] = "registerSeed"]
    /\ UNCHANGED <<settings, tokens, owner, expired, token, email, covered, given, historyVars>>

(* users.Create; the unique index on email refuses a second one *)
RegisterCreate(p) ==
    /\ pc[p] = "registerCreate"
    /\ \/ /\ FindByEmail(email[p]) = {}
          /\ \E u \in Users : InsertUser(u, email[p]) /\ user' = [user EXCEPT ![p] = u]
          /\ pc' = [pc EXCEPT ![p] = "registerSeed"]
          /\ UNCHANGED <<token, email, covered, stale>>
       \/ /\ FindByEmail(email[p]) # {}
          /\ Return(p)
          /\ UNCHANGED users
    /\ UNCHANGED <<settings, tokens, owner, expired, given, parent, old, pardoned>>

(* settings.Upsert of the defaults *)
RegisterSeed(p) ==
    /\ pc[p] = "registerSeed"
    /\ settings' = settings \cup {user[p]}
    /\ Return(p)
    /\ UNCHANGED <<users, tokens, owner, expired, given, parent, old, pardoned>>

-----------------------------------------------------------------------------
(* POST /auth/login *)

LoginStart(p, e) ==
    /\ pc[p] = "idle"
    /\ pc' = [pc EXCEPT ![p] = "loginFind"]
    /\ email' = [email EXCEPT ![p] = e]
    /\ UNCHANGED <<storeVars, token, user, covered, given, historyVars>>

(* FindByEmail, then the password comparison: right, or the request ends *)
LoginFind(p) ==
    /\ pc[p] = "loginFind"
    /\ \/ /\ \E u \in FindByEmail(email[p]) : user' = [user EXCEPT ![p] = u]
          /\ pc' = [pc EXCEPT ![p] = "issue"]
          /\ UNCHANGED <<token, email, covered, stale>>
       \/ Return(p)
    /\ UNCHANGED <<storeVars, given, parent, old, pardoned>>

(* issueTokenPair: a fresh refresh token is stored and returned.  When the  *)
(* answer to the insert is lost the token exists and nobody has it.         *)
Issue(p) ==
    /\ pc[p] = "issue"
    /\ \E t \in Tokens :
          /\ tokens[t] = "free"
          /\ tokens' = [tokens EXCEPT ![t] = "live"]
          /\ owner' = [owner EXCEPT ![t] = user[p]]
          /\ parent' = [parent EXCEPT ![t] = token[p]]
          /\ given' \in {given, given \cup {t}}
          /\ old' = IF token[p] \in old THEN old \cup {t} ELSE old
          /\ pardoned' = IF {p, token[p]} \cap pardoned # {}
                            THEN (pardoned \cup {t}) \ {p} ELSE pardoned
    /\ Return(p)
    /\ UNCHANGED <<users, settings, expired>>

-----------------------------------------------------------------------------
(* POST /auth/refresh *)

(* jwtx.Parse refuses a token past its expiry; otherwise the lookup begins *)
RefreshStart(p, t) ==
    /\ pc[p] = "idle"
    /\ t \in given
    /\ t \notin expired
    /\ pc' = [pc EXCEPT ![p] = "refreshFind"]
    /\ token' = [token EXCEPT ![p] = t]
    /\ stale' = IF tokens[t] = "revoked" THEN stale \cup {p} ELSE stale
    /\ UNCHANGED <<storeVars, user, email, covered, given, parent, old, pardoned>>

(* A Refresh that does not look at rt.Revoked. *)
RefreshFindMutant(p) ==
    /\ pc[p] = "refreshFind"
    /\ \/ /\ tokens[token[p]] \in {"live", "revoked"}
          /\ pc' = [pc EXCEPT ![p] = "refreshUser"]
          /\ user' = [user EXCEPT ![p] = owner[token[p]]]
          /\ UNCHANGED <<token, email, covered, stale>>
       \/ /\ tokens[token[p]] = "gone" \/ token[p] \in expired
          /\ Return(p)
    /\ UNCHANGED <<storeVars, given, parent, old, pardoned>>

(* FindByJTIHash, then the checks of the document it read *)
RefreshFind(p) ==
    /\ pc[p] = "refreshFind"
    /\ \/ /\ tokens[token[p]] = "live"
          /\ token[p] \notin expired
          /\ pc' = [pc EXCEPT ![p] = "refreshUser"]
          /\ user' = [user EXCEPT ![p] = owner[token[p]]]
          /\ UNCHANGED <<token, email, covered, stale>>
       \/ /\ tokens[token[p]] = "revoked"
          /\ pc' = [pc EXCEPT ![p] = "revokeAll"]
          /\ user' = [user EXCEPT ![p] = owner[token[p]]]
          /\ UNCHANGED <<token, email, covered, stale>>
       \/ /\ \/ tokens[token[p]] = "gone"
             \/ tokens[token[p]] = "live" /\ token[p] \in expired
          /\ Return(p)
    /\ UNCHANGED <<storeVars, given, parent, old, pardoned>>

(* A revoked token was presented: RevokeAllForUser, an UpdateMany.  It goes *)
(* through the user's documents one at a time, while other requests go on.  *)
RevokeAllBegin(p) ==
    /\ pc[p] = "revokeAll"
    /\ pc' = [pc EXCEPT ![p] = "revoking"]
    /\ covered' = [covered EXCEPT ![p] = {t \in Tokens : owner[t] = user[p]}]
    /\ UNCHANGED <<storeVars, token, user, email, given, historyVars>>

(* the next document with revoked: false; one inserted since the scan began *)
(* may be met too                                                           *)
RevokeOne(p) ==
    /\ pc[p] = "revoking"
    /\ \E t \in Tokens :
          /\ owner[t] = user[p] /\ tokens[t] = "live"
          /\ tokens' = [tokens EXCEPT ![t] = "revoked"]
    /\ UNCHANGED <<users, settings, owner, expired, requestVars, given, historyVars>>

(* A reuse detection that ends before it has met every document. *)
RevokeAllEndMutant(p) ==
    /\ pc[p] = "revoking"
    /\ old' = old \cup covered[p]
    /\ pardoned' = pardoned \cup {q \in Procs : Rotating(q) /\ token[q] \in covered[p]}
    /\ Return(p)
    /\ UNCHANGED <<storeVars, given, parent>>

(* It has met every document that was there when it began, and may have     *)
(* missed those inserted since; the request returns ErrInvalidToken.        *)
RevokeAllEnd(p) ==
    /\ pc[p] = "revoking"
    /\ \A t \in covered[p] : tokens[t] # "live"
    /\ old' = old \cup covered[p]
    /\ pardoned' = pardoned \cup {q \in Procs : Rotating(q) /\ token[q] \in covered[p]}
    /\ Return(p)
    /\ UNCHANGED <<storeVars, given, parent>>

(* users.FindByID *)
RefreshUser(p) ==
    /\ pc[p] = "refreshUser"
    /\ IF users[user[p]] # None
          THEN Goto(p, "refreshRevoke") /\ UNCHANGED <<stale, pardoned>>
          ELSE Return(p) /\ pardoned' = pardoned \ {p}
    /\ UNCHANGED <<storeVars, given, parent, old>>

(* tokens.Revoke(rt.ID) matches the document whether or not it is revoked;  *)
(* only when the TTL index has removed it does the request end here         *)
RefreshRevoke(p) ==
    /\ pc[p] = "refreshRevoke"
    /\ \/ /\ tokens[token[p]] # "gone"
          /\ tokens' = [tokens EXCEPT ![token[p]] = "revoked"]
          /\ Goto(p, "issue")
          /\ UNCHANGED <<stale, pardoned>>
       \/ /\ tokens[token[p]] = "gone"
          /\ Return(p)
          /\ pardoned' = pardoned \ {p}
          /\ UNCHANGED tokens
    /\ UNCHANGED <<users, settings, owner, expired, given, parent, old>>

-----------------------------------------------------------------------------
(* POST /auth/logout *)

LogoutStart(p, t) ==
    /\ pc[p] = "idle"
    /\ t \in given
    /\ t \notin expired
    /\ pc' = [pc EXCEPT ![p] = "logoutFind"]
    /\ token' = [token EXCEPT ![p] = t]
    /\ UNCHANGED <<storeVars, user, email, covered, given, historyVars>>

LogoutFind(p) ==
    /\ pc[p] = "logoutFind"
    /\ IF tokens[token[p]] = "live"
          THEN Goto(p, "logoutRevoke") /\ UNCHANGED stale
          ELSE Return(p)
    /\ UNCHANGED <<storeVars, given, parent, old, pardoned>>

LogoutRevoke(p) ==
    /\ pc[p] = "logoutRevoke"
    /\ tokens' = [tokens EXCEPT ![token[p]] = IF @ = "gone" THEN @ ELSE "revoked"]
    /\ Return(p)
    /\ UNCHANGED <<users, settings, owner, expired, given, parent, old, pardoned>>

-----------------------------------------------------------------------------
(* Time and the TTL index on expires_at *)

Expire(t) ==
    /\ tokens[t] \in {"live", "revoked"}
    /\ t \notin expired
    /\ expired' = expired \cup {t}
    /\ UNCHANGED <<users, settings, tokens, owner, requestVars, given, historyVars>>

TtlDelete(t) ==
    /\ t \in expired
    /\ tokens[t] # "gone"
    /\ tokens' = [tokens EXCEPT ![t] = "gone"]
    /\ UNCHANGED <<users, settings, owner, expired, requestVars, given, historyVars>>

(* one call of a request under way *)
Serve(p) ==
    \/ RegisterFind(p) \/ RegisterCreate(p) \/ RegisterSeed(p)
    \/ LoginFind(p) \/ Issue(p)
    \/ RefreshFind(p) \/ RefreshUser(p) \/ RefreshRevoke(p)
    \/ RevokeAllBegin(p) \/ RevokeOne(p) \/ RevokeAllEnd(p)
    \/ LogoutFind(p) \/ LogoutRevoke(p)
    \/ Fail(p)

Next ==
    \/ \E p \in Procs, e \in Emails : RegisterStart(p, e) \/ LoginStart(p, e)
    \/ \E p \in Procs, t \in Tokens : RefreshStart(p, t) \/ LogoutStart(p, t)
    \/ \E p \in Procs : Serve(p)
    \/ \E t \in Tokens : Expire(t) \/ TtlDelete(t)

Spec == Init /\ [][Next]_vars

-----------------------------------------------------------------------------
(* Safety *)

(* However registrations interleave, no two accounts have the same address: *)
(* the look-up before the insert is not enough, the unique index is         *)
(* (Register; EnsureIndexes: "a race between two concurrent registrations   *)
(* for the same address can't both succeed").                               *)
EmailUnique ==
    \A u, v \in Users : users[u] # None /\ users[u] = users[v] => u = v

(* A refresh token that had been revoked - rotated, logged out or revoked   *)
(* with all others - before a request presenting it began does not get past *)
(* the check of Refresh, whatever else is under way: no new pair is ever    *)
(* issued for it.                                                           *)
ReplayRefused ==
    \A p \in Procs : Rotating(p) => p \notin stale

(* Once RevokeAllForUser has ended, every refresh token the user had when   *)
(* it began is dead, and so is whatever one of them is rotated into later,  *)
(* except by a Refresh that had read its own token as valid before          *)
(* RevokeAllForUser ended: however its one-at-a-time updates interleave     *)
(* with refreshes, logins and other reuse detections.  A token inserted     *)
(* while it runs may be missed (Refresh, RevokeAllForUser).                 *)
ContainmentUpToInFlight ==
    \A t \in old : tokens[t] = "live" => t \in pardoned

-----------------------------------------------------------------------------
(* True of requests that do not overlap, and stated by a comment for all *)

(* auth_service.go 158-159: "a replayed old refresh token can never succeed *)
(* twice": every refresh token is rotated into at most one other.           *)
RotationIsLinear ==
    \A t, u \in Tokens : parent[t] # None /\ parent[t] = parent[u] => t = u

=============================================================================
