----------------------------- MODULE MCGateway -----------------------------
(***************************************************************************)
(* An instance of Gateway for TLC.  A behaviour asks one of two things:    *)
(* what two clients with a rate limit are answered in time, or what        *)
(* becomes of every kind of request.                                       *)
(***************************************************************************)
EXTENDS Gateway

CONSTANT c1

VARIABLE question

mcVars == <<allVars, question>>

(* a path that ends within a segment, one too long and one nobody has *)
OtherPaths == {<<"/users", "/me", "an">>, <<"/accounts", "/:id", "/x">>, <<"/auth">>}

AllRequests ==
    {[method |-> e[1], path |-> e[2], token |-> t, claimed |-> u, big |-> b] :
        e \in Endpoints \cup Own \cup ({"GET"} \X OtherPaths)
              \cup {<<"GET", <<"/auth", "/login">>>>, <<"OPTIONS", <<"/accounts">>>>},
        t \in Users \cup {None, Invalid}, u \in Users \cup {None}, b \in BOOLEAN}

(* The calls of one client share nothing but the limiter, so one request of *)
(* each kind is enough.                                                     *)
Fresh(c) == c = c1 /\ call[c] = NoCall

(* in time: an answer of the gateway's own, and a preflight *)
Pings == {NoRequest, [NoRequest EXCEPT !.method = "OPTIONS"]}

MCInit ==
    \/ GatewayInit /\ question = "rate" /\ config = [rate |-> TRUE, body |-> TRUE]
    \/ GatewayInit /\ question = "request" /\ ~config.rate

Asked(c) ==
    CASE question = "rate" -> Pings
      [] question = "request" /\ Fresh(c) -> AllRequests
      [] OTHER -> {}

MCNext == GatewayNext([c \in Clients |-> Asked(c)]) /\ UNCHANGED question

MCSpec ==
    /\ MCInit /\ [][MCNext]_mcVars
    /\ WF_rateVars(Tick /\ UNCHANGED <<gatewayVars, question>>)
    /\ WF_rateVars(Sweep /\ UNCHANGED <<gatewayVars, question>>)

=============================================================================
