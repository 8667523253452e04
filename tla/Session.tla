------------------------------ MODULE Session ------------------------------
(***************************************************************************)
(* A signed-in browser in front of user-service: the token pair in         *)
(* localStorage, the tabs that share it, and the fetch wrapper with its    *)
(* silent refresh and single retry (frontend/lib/api.ts, auth-context.tsx, *)
(* app/login/page.tsx), through the gateway's check of access tokens       *)
(* (gateway/internal/authmw, router).                                      *)
(*                                                                         *)
(* A pair is named by its refresh token.  Scripts of one tab do not        *)
(* interleave between two awaits; tabs, answers and the server do.  A call *)
(* that the gateway lets through has no effect here, unless it is a        *)
(* logout.                                                                 *)
(***************************************************************************)
EXTENDS AuthService

CONSTANTS
    Tabs,     \* pages of one browser
    Calls,    \* uses of apiFetch; bound: as many at a time
    TabOf,    \* [Calls -> Tabs]
    Address   \* the user's e-mail address

ASSUME SessionAssumption ==
    TabOf \in [Calls -> Tabs] /\ Address \in Emails

VARIABLES
    stored,   \* Tokens \cup {None}: the pair in localStorage
    lapsed,   \* pairs whose access token has expired
    asking,   \* [Tabs -> {"none", "login", "refresh"}]: the pair a tab awaits;
              \* "refresh" is a refreshPromise that is not null
    using,    \* [Tabs -> Tokens \cup {None}]: the token that refresh presented
    served,   \* [Tabs -> Procs \cup {None}]: the goroutine that serves it
    pair,     \* [Tabs -> Tokens \cup {None}]: the pair in the answer
    call,     \* [Calls -> CallStates]
    body,     \* [Calls -> Tokens \cup {None}]: refresh_token of a logout call
    (* history, read by properties only *)
    out,      \* "yes": signed out while no pair was awaited, and not in again
    cut       \* tokens presented by two tabs at once, by a page that went away
              \* before the answer, or to logout, or revoked by reuse detection

browserVars == <<stored, asking, using, served, pair, call, body, out, cut>>
sessionVars == <<vars, lapsed, browserVars>>

(* denied: a 401 is on its way; waiting: for refreshPromise; retry: the     *)
(* promise was true; deniedTwice; passed: a logout is past the gateway      *)
CallStates == {"idle", "denied", "waiting", "retry", "deniedTwice", "passed"}

(* the browser's waits and its requests fit together *)
SessionTypeOK ==
    /\ stored \in given \cup {None}
    /\ lapsed \in SUBSET given
    /\ asking \in [Tabs -> {"none", "login", "refresh"}]
    /\ using \in [Tabs -> Tokens \cup {None}]
    /\ served \in [Tabs -> Procs \cup {None}]
    /\ pair \in [Tabs -> Tokens \cup {None}]
    /\ call \in [Calls -> CallStates]
    /\ body \in [Calls -> Tokens \cup {None}]
    /\ out \in {"yes", "no"}
    /\ cut \in SUBSET Tokens
    /\ \A b \in Tabs : /\ served[b] # None => pc[served[b]] # "idle"
                       /\ asking[b] = "none" => served[b] = None /\ pair[b] = None
                       /\ using[b] # None <=> asking[b] = "refresh"
    /\ \A c \in Calls : call[c] = "waiting" => asking[TabOf[c]] = "refresh"

(* a registered user who has not signed in yet *)
SessionInit ==
    /\ \E u \in Users : InitWith([v \in Users |-> IF v = u THEN Address ELSE None])
    /\ stored = None
    /\ lapsed = {}
    /\ asking = [b \in Tabs |-> "none"]
    /\ using = [b \in Tabs |-> None]
    /\ served = [b \in Tabs |-> None]
    /\ pair = [b \in Tabs |-> None]
    /\ call = [c \in Calls |-> "idle"]
    /\ body = [c \in Calls |-> None]
    /\ out = "no"
    /\ cut = {}

-----------------------------------------------------------------------------
(* The gateway *)

(* RequireAccessToken: no token, or one past its expiry *)
Refused == stored = None \/ stored \in lapsed

(* A protected call with the pair in storage: refused, or on to user-service *)
(* if it is a logout.  A request that is lost, or whose token jwtx.Parse     *)
(* refuses, changes nothing there.                                           *)
RawFetch(c, refusal) ==
    \/ /\ Refused
       /\ call' = [call EXCEPT ![c] = refusal]
       /\ UNCHANGED <<vars, cut>>
    \/ /\ ~Refused /\ body'[c] = None
       /\ call' = [call EXCEPT ![c] = "idle"]
       /\ UNCHANGED <<vars, cut>>
    \/ /\ ~Refused /\ body'[c] # None
       /\ call' = [call EXCEPT ![c] = "passed"]
       /\ cut' = cut \cup {body'[c]}
       /\ (\E p \in Procs : LogoutStart(p, body'[c])) \/ UNCHANGED vars

AccessExpires(t) ==
    /\ t \in given \ lapsed
    /\ lapsed' = lapsed \cup {t}
    /\ UNCHANGED <<vars, browserVars>>

-----------------------------------------------------------------------------
(* Calls of a page *)

(* apiFetch up to its first await; one that will succeed is left out *)
ApiFetch(c) ==
    /\ call[c] = "idle"
    /\ asking[TabOf[c]] # "login"
    /\ Refused
    /\ body' = [body EXCEPT ![c] = None]
    /\ RawFetch(c, "denied")
    /\ UNCHANGED <<lapsed, stored, asking, using, served, pair, out>>

(* logout reads the refresh token before its call *)
Logout(c) ==
    /\ call[c] = "idle"
    /\ asking[TabOf[c]] # "login"
    /\ stored # None
    /\ body' = [body EXCEPT ![c] = stored]
    /\ RawFetch(c, "denied")
    /\ UNCHANGED <<lapsed, stored, asking, using, served, pair, out>>

(* The calls in C are over: a logout among them signs the user out. *)
Over(C) ==
    /\ body' = [c \in Calls |-> IF c \in C THEN None ELSE body[c]]
    /\ out' = IF \A c \in C : body[c] = None THEN out
              ELSE IF \A b \in Tabs : asking'[b] = "none" THEN "yes" ELSE "no"

(* clearTokens, redirectToLogin and, for a logout, its finally block *)
GiveUp(c) ==
    /\ stored' = None
    /\ call' = [call EXCEPT ![c] = "idle"]
    /\ Over({c})

(* Calls do not share refreshPromise. *)
TryRefreshMutant(c) ==
    LET b == TabOf[c] IN
    /\ stored # None
    /\ asking' = [asking EXCEPT ![b] = "refresh"]
    /\ using' = [using EXCEPT ![b] = stored]
    /\ pair' = [pair EXCEPT ![b] = None]
    /\ call' = [call EXCEPT ![c] = "waiting"]
    /\ \E p \in Procs : RefreshStart(p, stored) /\ served' = [served EXCEPT ![b] = p]
    /\ cut' = IF \E o \in Tabs \ {b} : using[o] = stored THEN cut \cup {stored} ELSE cut
    /\ UNCHANGED <<stored, body, out>>

(* The 401 arrives: join the tab's refresh, give up without a refresh      *)
(* token, or ask for a new pair.  That request may get lost or be refused  *)
(* by jwtx.Parse, which leaves an answer without a pair.                   *)
TryRefresh(c) ==
    LET b == TabOf[c] IN
    \/ /\ asking[b] = "refresh"
       /\ call' = [call EXCEPT ![c] = "waiting"]
       /\ UNCHANGED <<vars, stored, asking, using, served, pair, body, out, cut>>
    \/ /\ asking[b] = "none" /\ stored = None
       /\ asking' = asking
       /\ GiveUp(c)
       /\ UNCHANGED <<vars, using, served, pair, cut>>
    \/ /\ asking[b] = "none" /\ stored # None
       /\ asking' = [asking EXCEPT ![b] = "refresh"]
       /\ using' = [using EXCEPT ![b] = stored]
       /\ call' = [call EXCEPT ![c] = "waiting"]
       /\ \/ \E p \in Procs : RefreshStart(p, stored) /\ served' = [served EXCEPT ![b] = p]
          \/ UNCHANGED <<vars, served>>
       /\ cut' = IF \E o \in Tabs : using[o] = stored THEN cut \cup {stored} ELSE cut
       /\ UNCHANGED <<stored, pair, body, out>>

Denied(c) ==
    /\ call[c] = "denied"
    /\ TryRefresh(c)
    /\ UNCHANGED lapsed

(* the call is sent once more, with whatever pair is stored by now *)
Retry(c) ==
    /\ call[c] = "retry"
    /\ body' = body
    /\ RawFetch(c, "deniedTwice")
    /\ UNCHANGED <<lapsed, stored, asking, using, served, pair, out>>

(* a second 401 ends the session in this browser *)
DeniedTwice(c) ==
    /\ call[c] = "deniedTwice"
    /\ asking' = asking
    /\ GiveUp(c)
    /\ UNCHANGED <<vars, lapsed, using, served, pair, cut>>

(* Tokens are cleared only when the server has confirmed the logout. *)
LogoutEndsMutant(c) ==
    /\ call[c] = "passed"
    /\ asking' = asking
    /\ stored' \in {None, stored}
    /\ call' = [call EXCEPT ![c] = "idle"]
    /\ Over({c})
    /\ UNCHANGED <<vars, lapsed, using, served, pair, cut>>

(* an answer or an exception: both end in the finally block *)
LogoutEnds(c) ==
    /\ call[c] = "passed"
    /\ asking' = asking
    /\ GiveUp(c)
    /\ UNCHANGED <<vars, lapsed, using, served, pair, cut>>

-----------------------------------------------------------------------------
(* Requests for a pair *)

(* the login page; it makes no other calls *)
LoginSubmit(b) ==
    /\ asking[b] = "none"
    /\ \A c \in Calls : TabOf[c] = b => call[c] = "idle"
    /\ asking' = [asking EXCEPT ![b] = "login"]
    /\ \E p \in Procs : LoginStart(p, Address) /\ served' = [served EXCEPT ![b] = p]
    /\ UNCHANGED <<lapsed, stored, using, pair, call, body, out, cut>>

(* user-service takes a step; a request it finishes is answered *)
Server ==
    /\ \E p \in Procs :
          /\ Serve(p)
          /\ LET done == {b \in Tabs : served[b] = p /\ pc'[p] = "idle"} IN
             /\ served' = [b \in Tabs |-> IF b \in done THEN None ELSE served[b]]
             /\ pair' = [b \in Tabs |-> IF b \in done /\ given' # given
                                          THEN CHOOSE t \in given' \ given : TRUE
                                          ELSE pair[b]]
          /\ cut' = IF pc[p] = "revoking"
                       THEN cut \cup {t \in Tokens : tokens'[t] # tokens[t]} ELSE cut
    /\ UNCHANGED <<lapsed, stored, asking, using, call, body, out>>

(* the connection breaks: the request goes on, its answer is lost *)
AnswerLost(b) ==
    /\ served[b] # None \/ pair[b] # None
    /\ served' = [served EXCEPT ![b] = None]
    /\ pair' = [pair EXCEPT ![b] = None]
    /\ UNCHANGED <<vars, lapsed, stored, asking, using, call, body, out, cut>>

Waiting(b) == {c \in Calls : TabOf[c] = b /\ call[c] = "waiting"}

(* Only the call that asked first hears of the result. *)
RefreshSettlesMutant(b) ==
    /\ asking[b] = "refresh" /\ served[b] = None
    /\ stored' = pair[b]
    /\ \E c \in Waiting(b) :
          call' = [call EXCEPT ![c] = IF pair[b] # None THEN "retry" ELSE "idle"]
    /\ asking' = [asking EXCEPT ![b] = "none"]
    /\ using' = [using EXCEPT ![b] = None]
    /\ pair' = [pair EXCEPT ![b] = None]
    /\ UNCHANGED <<vars, lapsed, served, body, out, cut>>

(* refreshPromise settles: the pair is stored and every call that waits is  *)
(* sent again, or all of them give up                                       *)
RefreshSettles(b) ==
    /\ asking[b] = "refresh" /\ served[b] = None
    /\ stored' = pair[b]
    /\ call' = [c \in Calls |-> IF c \in Waiting(b)
                                  THEN IF pair[b] # None THEN "retry" ELSE "idle"
                                  ELSE call[c]]
    /\ asking' = [asking EXCEPT ![b] = "none"]
    /\ using' = [using EXCEPT ![b] = None]
    /\ pair' = [pair EXCEPT ![b] = None]
    /\ Over(IF pair[b] = None THEN Waiting(b) ELSE {})
    /\ UNCHANGED <<vars, lapsed, served, cut>>

(* login() stores the pair; a failed login changes nothing *)
LoginSettles(b) ==
    /\ asking[b] = "login" /\ served[b] = None
    /\ asking' = [asking EXCEPT ![b] = "none"]
    /\ pair' = [pair EXCEPT ![b] = None]
    /\ IF pair[b] # None THEN stored' = pair[b] /\ out' = "no"
                         ELSE UNCHANGED <<stored, out>>
    /\ UNCHANGED <<vars, lapsed, using, served, call, body, cut>>

(* The page is reloaded, closed, or left for /login after a redirect: what *)
(* it awaited is gone, localStorage and the server's work are not.         *)
Unload(b) ==
    /\ asking[b] # "none" \/ \E c \in Calls : TabOf[c] = b /\ call[c] # "idle"
    /\ call' = [c \in Calls |-> IF TabOf[c] = b THEN "idle" ELSE call[c]]
    /\ body' = [c \in Calls |-> IF TabOf[c] = b THEN None ELSE body[c]]
    /\ asking' = [asking EXCEPT ![b] = "none"]
    /\ using' = [using EXCEPT ![b] = None]
    /\ served' = [served EXCEPT ![b] = None]
    /\ pair' = [pair EXCEPT ![b] = None]
    /\ cut' = cut \cup ({using[b]} \ {None})
    /\ UNCHANGED <<vars, lapsed, stored, out>>

-----------------------------------------------------------------------------

SessionNext ==
    \/ \E c \in Calls : \/ ApiFetch(c) \/ Logout(c) \/ Denied(c) \/ Retry(c)
                        \/ DeniedTwice(c) \/ LogoutEnds(c)
    \/ \E b \in Tabs : \/ LoginSubmit(b) \/ AnswerLost(b) \/ RefreshSettles(b)
                       \/ LoginSettles(b) \/ Unload(b)
    \/ Server
    \/ \E t \in Tokens : AccessExpires(t)

SessionSpec == SessionInit /\ [][SessionNext]_sessionVars

-----------------------------------------------------------------------------
(* Properties *)

(* The browser sets off reuse detection, which ends all sessions of its     *)
(* user, only with a token that two tabs presented at once, whose refresh a *)
(* page left unanswered, that was sent to logout, or that an earlier reuse  *)
(* had revoked: never because several calls of one page got a 401, an       *)
(* answer was late or lost, or a call was retried (api.ts, tryRefresh).     *)
ReuseHasCause ==
    \A p \in Procs : pc[p] = "revokeAll" => token[p] \in cut

(* Once the user has signed out while no pair was awaited, no late 401,     *)
(* retry or other tab brings a pair back into localStorage before the next  *)
(* login, even if the logout request failed (auth-context.tsx, logout).     *)
SignedOutStays ==
    out = "yes" => stored = None

-----------------------------------------------------------------------------
(* What a comment says, and the browser does not keep to *)

(* auth_service.go 133-137: a revoked token is evidence of theft, since     *)
(* "the legitimate client already moved on to the next token in the         *)
(* rotation chain, so anyone still presenting this old one is not the       *)
(* legitimate client": this browser, the only client here, never sets off   *)
(* reuse detection with a token it has rotated away.                        *)
LegitimateMovesOn ==
    \A p \in Procs : pc[p] = "revokeAll" => \A t \in Tokens : parent[t] # token[p]

=============================================================================
