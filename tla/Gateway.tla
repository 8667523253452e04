------------------------------ MODULE Gateway ------------------------------
(***************************************************************************)
(* The API gateway (services/gateway): the middleware chain of router.go,  *)
(* the check of the access token (authmw.go), the routing table and the    *)
(* reverse proxies (proxy.go, handler.go), and the routers of the services *)
(* behind it with their RequireIdentity.                                   *)
(*                                                                         *)
(* A request is one step through the chain to the point where it is        *)
(* answered or handed to a proxy; the backend and the way back are steps   *)
(* of their own, and either can fail.                                      *)
(***************************************************************************)
EXTENDS RateLimit, SequencesExt

CONSTANTS
    Users,
    None,      \* no token, no X-User-Id header, nobody
    Invalid,   \* a token that jwtx.Parse rejects, or no Bearer prefix
    SignedOut  \* whom a handler without RequireIdentity acts for

VARIABLES
    config,   \* whether a rate limit and a body limit are configured
    call      \* [Clients -> Call]: the request of a client

gatewayVars == <<config, call>>
allVars == <<rateVars, gatewayVars>>

(* Paths are sequences of pieces of a string, so that HasPrefix is IsPrefix *)
(* and may end within a segment; /api/v1 in front of each is left out.      *)
(* The four answers of the gateway itself have no slash; it has no checkers *)
(* that could fail, and its openapi.yaml is there.                          *)
Own == {"GET"} \X {<<"live">>, <<"ready">>, <<"health">>, <<"openapi.yaml">>}

Public == {"POST"} \X {<<"/auth", "/register">>, <<"/auth", "/login">>,
                       <<"/auth", "/refresh">>, <<"/auth", "/password-reset">>}

Row(prefix, proxy) == [prefix |-> prefix, proxy |-> proxy]

TableMutant == <<Row(<<"/auth", "/logout">>, "user"), Row(<<"/users", "/me", "/settings">>, "user"),
                 Row(<<"/accounts">>, "expense"), Row(<<"/transactions">>, "expense")>>

Table == <<Row(<<"/auth", "/logout">>, "user"), Row(<<"/users", "/me">>, "user"),
           Row(<<"/accounts">>, "expense"), Row(<<"/transactions">>, "expense"),
           Row(<<"/categories">>, "expense"), Row(<<"/budgets">>, "budget"),
           Row(<<"/goals">>, "budget"), Row(<<"/reports">>, "budget"),
           Row(<<"/notifications">>, "notification")>>

(* Table.Resolve: the row with the longest prefix of the path, the first of *)
(* equal ones, or none                                                      *)
Resolve(path) ==
    LET matches == {i \in DOMAIN Table : IsPrefix(Table[i].prefix, path)}
        Better(i, j) == \/ Len(Table[i].prefix) > Len(Table[j].prefix)
                        \/ Len(Table[i].prefix) = Len(Table[j].prefix) /\ i < j
    IN  IF matches = {} THEN 0
        ELSE CHOOSE i \in matches : \A j \in matches \ {i} : Better(i, j)

(* The routes of the services behind the gateway. *)
Resource(p) == ({"GET", "POST"} \X {<<p>>}) \cup ({"GET", "PUT", "DELETE"} \X {<<p, "/:id">>})

UserService ==
    {"GET", "PUT"} \X {<<"/users", "/me">>, <<"/users", "/me", "/settings">>}

(* user-service asks nobody for an identity under /auth *)
UserServiceAuth == Public \cup {<<"POST", <<"/auth", "/logout">>>>}

ExpenseService ==
    Resource("/accounts") \cup Resource("/transactions")
        \cup {<<"POST", <<"/transactions", "/import">>>>}
        \cup ({"GET", "POST"} \X {<<"/categories">>})

BudgetService ==
    Resource("/budgets") \cup Resource("/goals") \cup {<<"GET", <<"/reports", "/summary">>>>}

NotificationService ==
    ({"GET", "POST"} \X {<<"/notifications">>})
        \cup {<<"PATCH", <<"/notifications", "/:id", "/read">>>>}

Routes(backend) ==
    CASE backend = "user" -> UserService \cup UserServiceAuth
      [] backend = "expense" -> ExpenseService
      [] backend = "budget" -> BudgetService
      [] OTHER -> NotificationService

Endpoints == UNION {Routes(b) : b \in {"user", "expense", "budget", "notification"}}

(* claimed is the X-User-Id that the client sent; big says that the body is *)
(* not complete within MAX_REQUEST_BODY_BYTES                               *)
Request == [method : {"GET", "POST", "PUT", "DELETE", "PATCH", "OPTIONS"}, path : Seq(STRING),
            token : Users \cup {None, Invalid}, claimed : Users \cup {None}, big : BOOLEAN]

Route(req) == <<req.method, req.path>>

NoRequest == [method |-> "GET", path |-> <<"live">>, token |-> None, claimed |-> None, big |-> FALSE]

(* backend: where the proxy sends it; user: the X-User-Id header that it    *)
(* carries; acted: whom the backend's handler acted for; status: of the     *)
(* backend, then of the gateway                                             *)
Call(pc, req, backend, user, acted, status) ==
    [pc |-> pc, req |-> req, backend |-> backend, user |-> user, acted |-> acted,
     status |-> status]

NoCall == Call("idle", NoRequest, None, None, None, 0)

Answered(req, status) == Call("answered", req, None, None, None, status)

Forwarded(req, backend, user) == Call("forwarded", req, backend, user, None, 0)

GatewayInit ==
    /\ RateInit
    /\ config \in [rate : BOOLEAN, body : BOOLEAN]
    /\ call = [c \in Clients |-> NoCall]

(* RequireAccessToken and the handler behind it: the X-User-Id of the       *)
(* request is overwritten with the token's user                             *)
ProtectedMutant(req) ==
    IF req.token \notin Users THEN Answered(req, 401)
    ELSE IF Resolve(req.path) = 0 THEN Answered(req, 404)
    ELSE Forwarded(req, Table[Resolve(req.path)].proxy,
                   IF req.claimed = None THEN req.token ELSE req.claimed)

Protected(req) ==
    IF req.token \notin Users THEN Answered(req, 401)
    ELSE IF Resolve(req.path) = 0 THEN Answered(req, 404)
    ELSE Forwarded(req, Table[Resolve(req.path)].proxy, req.token)

(* gin's routes, and NoRoute for everything else *)
Dispatch(req) ==
    IF Route(req) \in Own THEN Answered(req, 200)
    ELSE IF Route(req) \in Public THEN Forwarded(req, "user", req.claimed)
    ELSE Protected(req)

Ready(c) == call[c].pc \in {"idle", "answered"}

(* CORS answers a preflight before the rate limit is asked *)
Preflight(c, req) ==
    /\ Ready(c) /\ req.method = "OPTIONS"
    /\ call' = [call EXCEPT ![c] = Answered(req, 204)]
    /\ UNCHANGED <<rateVars, config>>

Admitted(c, req) ==
    /\ Ready(c) /\ req.method # "OPTIONS"
    /\ IF config.rate THEN RequestAdmitted(c) ELSE UNCHANGED rateVars
    /\ call' = [call EXCEPT ![c] = Dispatch(req)]
    /\ UNCHANGED config

TooMany(c, req) ==
    /\ Ready(c) /\ req.method # "OPTIONS"
    /\ config.rate /\ RequestRefused(c)
    /\ call' = [call EXCEPT ![c] = Answered(req, 429)]
    /\ UNCHANGED config

(* The backend's router.  A handler that binds a body fails on one that     *)
(* MaxBytesReader cut short; the others do not read it.                     *)
Cut(req) == config.body /\ req.big /\ req.method \in {"POST", "PUT"}

BackendAnswers(c) ==
    LET r == call[c]
        open == r.backend = "user" /\ Route(r.req) \in UserServiceAuth
        status == IF Route(r.req) \notin Routes(r.backend) THEN 404
                  ELSE IF ~open /\ r.user = None THEN 401
                  ELSE IF Cut(r.req) THEN 400
                  ELSE 200
        acted == IF status # 200 THEN None ELSE IF open THEN SignedOut ELSE r.user
    IN  /\ r.pc = "forwarded"
        /\ call' = [call EXCEPT ![c].pc = "handled", ![c].acted = acted, ![c].status = status]
        /\ UNCHANGED <<rateVars, config>>

ProxyCopies(c) ==
    /\ call[c].pc = "handled"
    /\ call' = [call EXCEPT ![c].pc = "answered"]
    /\ UNCHANGED <<rateVars, config>>

(* ErrorHandler: the backend could not be reached, or was lost before its   *)
(* answer arrived                                                           *)
ProxyFails(c) ==
    /\ call[c].pc \in {"forwarded", "handled"}
    /\ call' = [call EXCEPT ![c].pc = "answered", ![c].status = 502]
    /\ UNCHANGED <<rateVars, config>>

(* ... or the copy of the body ran into the limit *)
ProxyTooLarge(c) ==
    /\ call[c].pc \in {"forwarded", "handled"}
    /\ config.body /\ call[c].req.big
    /\ call' = [call EXCEPT ![c].pc = "answered", ![c].status = 400]
    /\ UNCHANGED <<rateVars, config>>

TimePasses == (Tick \/ Sweep) /\ UNCHANGED gatewayVars

Handle(c) == BackendAnswers(c) \/ ProxyCopies(c) \/ ProxyFails(c) \/ ProxyTooLarge(c)

Accept(c, reqs) == \E req \in reqs : Preflight(c, req) \/ Admitted(c, req) \/ TooMany(c, req)

(* reqs[c] \subseteq Request: what client c may send *)
GatewayNext(reqs) ==
    \/ \E c \in Clients : Accept(c, reqs[c]) \/ Handle(c)
    \/ TimePasses

-----------------------------------------------------------------------------

(* A handler of a backend acts for a user only on that user's valid access  *)
(* token, whatever X-User-Id the client sent, and acts for nobody only on   *)
(* the routes that need no sign-in and on /auth/logout, whose caller the    *)
(* gateway has checked (RequireAccessToken, Handler, RequireIdentity).      *)
ActsForTokenOwner ==
    \A c \in Clients :
        LET r == call[c]
        IN  r.acted # None =>
                \/ r.acted = r.req.token
                \/ r.acted = SignedOut /\ (Route(r.req) \in Public \/ r.req.token \in Users)

(* A signed-in client reaches every endpoint that some service has: the     *)
(* gateway's routing table misses none and sends none to the wrong service  *)
(* (the table of router.New against the routers of the four services).      *)
EveryEndpointReached ==
    \A c \in Clients : call[c].status = 404 => Route(call[c].req) \notin Endpoints

=============================================================================
