----------------------------- MODULE RateLimit -----------------------------
(***************************************************************************)
(* shared/middleware/ratelimit.go: the gateway's table of visitors.  A     *)
(* client is tracked from its first request until the sweep finds it quiet *)
(* for more than three minutes; its next request then starts with a new,   *)
(* full limiter.  The request's critical section and each sweep hold the   *)
(* same mutex, so both are single steps.                                   *)
(*                                                                         *)
(* Tokens are counted in fractions of a token: a request costs Cost, a     *)
(* limiter holds at most Burst and gains Rate in one tick of the clock.    *)
(***************************************************************************)
EXTENDS Naturals

CONSTANTS Clients, Burst, Rate, Cost, Quiet

(* Quiet ticks are the three minutes of the sweep.  They fill an empty      *)
(* limiter: 180 s at the default 10 requests/s are far more than the        *)
(* default burst of 20.                                                     *)
ASSUME RateAssumption ==
    /\ Burst \in Nat \ {0} /\ Rate \in Nat \ {0}
    /\ Cost \in Nat \ {0} /\ Quiet \in Nat \ {0}
    /\ Burst <= Rate * Quiet

VARIABLES
    visitors,  \* [tracked clients -> Visitor]
    verdict    \* [Clients -> {"none", "admitted", "refused"}]: of the last request

rateVars == <<visitors, verdict>>

(* idle is the time since lastSeen; what it is beyond Quiet + 1 makes no    *)
(* difference                                                               *)
Visitor == [tokens : 0..Burst, idle : 0..(Quiet + 1)]

RateTypeOK ==
    /\ DOMAIN visitors \subseteq Clients
    /\ visitors \in [DOMAIN visitors -> Visitor]
    /\ verdict \in [Clients -> {"none", "admitted", "refused"}]

RateInit ==
    /\ visitors = [c \in {} |-> [tokens |-> Burst, idle |-> 0]]
    /\ verdict = [c \in Clients |-> "none"]

(* a full limiter for a client that is not in the table *)
Tokens(c) == IF c \in DOMAIN visitors THEN visitors[c].tokens ELSE Burst

(* x/time/rate fills with the time that has passed, never above the burst *)
Filled(n) == IF n + Rate > Burst THEN Burst ELSE n + Rate

SeenMutant(c, n) ==
    visitors' = [d \in DOMAIN visitors \cup {c} |->
                    IF d \in DOMAIN visitors THEN [visitors[d] EXCEPT !.tokens = IF d = c THEN n ELSE @]
                    ELSE [tokens |-> n, idle |-> 0]]

(* lastSeen is set whether the request is admitted or not *)
Seen(c, n) ==
    visitors' = [d \in DOMAIN visitors \cup {c} |->
                    IF d = c THEN [tokens |-> n, idle |-> 0] ELSE visitors[d]]

RequestAdmitted(c) ==
    /\ Tokens(c) >= Cost
    /\ Seen(c, Tokens(c) - Cost)
    /\ verdict' = [verdict EXCEPT ![c] = "admitted"]

RequestRefused(c) ==
    /\ Tokens(c) < Cost
    /\ Seen(c, Tokens(c))
    /\ verdict' = [verdict EXCEPT ![c] = "refused"]

Aged(v) == [tokens |-> Filled(v.tokens),
            idle |-> IF v.idle > Quiet THEN v.idle ELSE v.idle + 1]

Tick ==
    /\ visitors' = [c \in DOMAIN visitors |-> Aged(visitors[c])]
    /\ UNCHANGED verdict

StaleMutant == {c \in DOMAIN visitors : visitors[c].idle >= 1}

NothingStale == {}

Stale == {c \in DOMAIN visitors : visitors[c].idle > Quiet}

Sweep ==
    /\ visitors' = [c \in DOMAIN visitors \ Stale |-> visitors[c]]
    /\ UNCHANGED verdict

RateNext ==
    \/ \E c \in Clients : RequestAdmitted(c) \/ RequestRefused(c)
    \/ Tick
    \/ Sweep

RateSpec == RateInit /\ [][RateNext]_rateVars

(* time passes, and the sweeping goroutine runs again each minute *)
RateFairness == WF_rateVars(Tick) /\ WF_rateVars(Sweep)

-----------------------------------------------------------------------------

(* A client cannot tell that it was evicted: what the table of visitors and *)
(* its sweep admit and refuse is what a bucket per client, kept for ever,   *)
(* would (RateLimit's handler and sweep).                                   *)
Bucket == INSTANCE TokenBucket WITH bucket <- [c \in Clients |-> Tokens(c)]

LimiterIsBucket == Bucket!BucketSpec

(* The invariant this rests on: a limiter that is not full holds at least   *)
(* what it gained since its client was last seen, so a client that the      *)
(* sweep evicts has a full limiter (time.Since(lastSeen) > 3*time.Minute).  *)
IdleFills ==
    \A c \in DOMAIN visitors :
        \/ visitors[c].tokens = Burst
        \/ visitors[c].tokens >= Rate * visitors[c].idle

(* ... inductive together with the types of both variables. *)
RateInv == RateTypeOK /\ IdleFills

(* A client that stops asking does not keep its place in the table: the map *)
(* does not grow with every address that was ever seen.                     *)
QuietIsForgotten ==
    \A c \in Clients :
        (c \in DOMAIN visitors /\ visitors[c].idle > 0)
            ~> (c \notin DOMAIN visitors \/ visitors[c].idle = 0)

=============================================================================
