----------------------------- MODULE MCProfile -----------------------------
(***************************************************************************)
(* An instance of Profile for TLC: behaviours of AuthService in which      *)
(* nobody edits anything, and behaviours in which edits follow the first   *)
(* login, with nothing else under way but the registration's seed.         *)
(***************************************************************************)
EXTENDS Profile, Naturals, TLC

CONSTANT MaxMishaps   \* bound on the tokens that expire or never reach the client

NoEdits ==
    /\ \A e \in Editors : edit[e] = Resting
    /\ \A u \in Users : prefs[u] = Defaults /\ wanted[u] = Defaults

(* an account registered with a name that the PUT refuses signs in once *)
NameMatters == \E u \in Users : name[u] = BadName

NoSession == \A t \in Tokens : tokens[t] = "free"

OneSession ==
    /\ \A t, u \in Tokens : "free" \in {tokens[t], tokens[u]} \/ t = u
    /\ \A t \in Tokens : tokens[t] \in {"free", "live"} /\ t \notin expired
    /\ \A p \in Procs : pc[p] \in {"idle", "registerSeed"}

Bounded ==
    Cardinality(expired) + Cardinality({t \in Tokens \ given : tokens[t] # "free"})
       <= MaxMishaps

(* once there is a session a registration would only find its address taken *)
NoneBegin == \A p \in Procs : pc'[p] = "registerFind" => pc[p] = "registerFind"

MCNext ==
    \/ /\ AccountSteps /\ Bounded' /\ (NoSession \/ NoneBegin)
       /\ (NoEdits /\ (NameMatters => NoSession)) \/ OneSession'
    \/ OneSession /\ EditSteps

MCSpec == ProfileInit /\ [][MCNext]_userVars

(* goroutines, ids and tokens are interchangeable *)
Symmetry == Permutations(Procs) \cup Permutations(Users)
            \cup Permutations(Emails) \cup Permutations(Tokens) \cup Permutations(Editors)

=============================================================================
