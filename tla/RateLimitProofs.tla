-------------------------- MODULE RateLimitProofs --------------------------
(***************************************************************************)
(* The table of visitors with its sweep (RateLimit) is a bucket per client *)
(* (TokenBucket), for any clients, burst, rate and cost, and any time      *)
(* after which the sweep evicts that is long enough to fill a limiter; and *)
(* the gateway around it (Gateway) lets nobody act for another user.       *)
(***************************************************************************)
EXTENDS Gateway, SequenceTheorems, TLAPS

(* what IdleFills says of one visitor *)
Charged(v) == v.tokens = Burst \/ v.tokens >= Rate * v.idle

-----------------------------------------------------------------------------
(* One limiter in time *)

(* What one more tick adds, and that more ticks gain at least as much.      *)
LEMMA Products ==
    ASSUME NEW j \in Nat, NEW k \in Nat
    PROVE  /\ Rate * k \in Nat
           /\ Rate * (k + 1) = Rate * k + Rate
           /\ j <= k => Rate * j <= Rate * k
<1>1. Rate \in Nat
  BY RateAssumption DEF RateAssumption
<1>2. Rate * k \in Nat /\ Rate * (k + 1) = Rate * k + Rate
  BY <1>1
<1>3. ASSUME j <= k PROVE Rate * j <= Rate * k
  <2>1. PICK d \in Nat : k = j + d
    BY <1>3
  <2>2. Rate * k = Rate * j + Rate * d /\ Rate * d \in Nat /\ Rate * j \in Nat
    BY <1>1, <2>1
  <2> QED
    BY <2>2
<1> QED
  BY <1>2, <1>3

(* A visitor that the sweep may evict has a full limiter (the sweep of      *)
(* ratelimit.go).                                                           *)
LEMMA QuietIsFull ==
    ASSUME NEW v \in Visitor, Charged(v), v.idle > Quiet
    PROVE  v.tokens = Burst
<1>1. /\ v.tokens \in 0..Burst /\ v.idle \in Nat
      /\ Quiet \in Nat /\ Burst \in Nat /\ Burst <= Rate * Quiet
  BY RateAssumption DEF Visitor, RateAssumption
<1>2. Rate * Quiet <= Rate * v.idle /\ Rate * v.idle \in Nat /\ Rate * Quiet \in Nat
  BY <1>1, Products
<1> QED
  BY <1>1, <1>2 DEF Charged

(* A tick keeps a visitor well-formed and charged (rate.Limiter, time).     *)
LEMMA AgedIsCharged ==
    ASSUME NEW v \in Visitor, Charged(v)
    PROVE  Aged(v) \in Visitor /\ Charged(Aged(v))
<1> DEFINE n == v.tokens
           i == v.idle
<1>1. /\ n \in 0..Burst /\ i \in 0..(Quiet + 1)
      /\ Quiet \in Nat /\ Burst \in Nat /\ Rate \in Nat \ {0}
  BY RateAssumption DEF Visitor, RateAssumption
<1>2. Filled(n) \in 0..Burst
  BY <1>1 DEF Filled
<1>3. CASE i > Quiet
  <2>1. n = Burst
    BY <1>3, QuietIsFull
  <2>2. Filled(n) = Burst
    BY <1>1, <2>1 DEF Filled
  <2>3. Aged(v) = [tokens |-> Burst, idle |-> i]
    BY <1>3, <2>2 DEF Aged
  <2> QED
    BY <1>1, <2>3 DEF Visitor, Charged
<1>4. CASE ~(i > Quiet)
  <2>1. Aged(v) = [tokens |-> Filled(n), idle |-> i + 1]
    BY <1>4 DEF Aged
  <2>2. Aged(v) \in Visitor
    BY <1>1, <1>2, <1>4, <2>1 DEF Visitor
  <2>3. Rate * (i + 1) = Rate * i + Rate /\ Rate * i \in Nat
    BY <1>1, Products
  <2>4. n = Burst \/ n >= Rate * i
    BY DEF Charged
  <2>5. Filled(n) = Burst \/ Filled(n) >= Rate * i + Rate
    BY <1>1, <2>3, <2>4 DEF Filled
  <2>6. Filled(n) = Burst \/ Filled(n) >= Rate * (i + 1)
    BY <2>3, <2>5
  <2> QED
    BY <2>1, <2>2, <2>6 DEF Charged
<1> QED
  BY <1>3, <1>4

(* A limiter that has just been asked is charged: no time has passed.       *)
LEMMA SeenIsCharged ==
    ASSUME NEW n \in 0..Burst
    PROVE  [tokens |-> n, idle |-> 0] \in Visitor /\ Charged([tokens |-> n, idle |-> 0])
<1>1. Quiet \in Nat /\ Burst \in Nat /\ Rate \in Nat
  BY RateAssumption DEF RateAssumption
<1>2. Rate * 0 = 0
  BY <1>1
<1> QED
  BY <1>1, <1>2 DEF Visitor, Charged

-----------------------------------------------------------------------------
(* The table of visitors *)

(* What a client has left, tracked or not, is between nothing and a burst.  *)
LEMMA TokensType ==
    ASSUME RateTypeOK, NEW c \in Clients
    PROVE  Tokens(c) \in 0..Burst
  BY RateAssumption DEF RateAssumption, RateTypeOK, Tokens, Visitor

LEMMA InitInv == RateInit => RateInv
  BY DEF RateInit, RateInv, RateTypeOK, IdleFills

(* A request, admitted or not, leaves a charged table.                      *)
LEMMA SeenInv ==
    ASSUME RateInv, NEW c \in Clients, NEW n \in 0..Burst, Seen(c, n),
           verdict' \in [Clients -> {"none", "admitted", "refused"}]
    PROVE  RateInv'
<1> DEFINE w == [tokens |-> n, idle |-> 0]
<1>1. /\ DOMAIN visitors' = DOMAIN visitors \cup {c}
      /\ visitors' = [d \in DOMAIN visitors' |-> visitors'[d]]
      /\ visitors'[c] = w
      /\ \A d \in DOMAIN visitors : d # c => visitors'[d] = visitors[d]
  BY DEF Seen
<1>2. w \in Visitor /\ Charged(w)
  BY SeenIsCharged
<1>3. \A d \in DOMAIN visitors' : visitors'[d] \in Visitor /\ Charged(visitors'[d])
  BY <1>1, <1>2 DEF RateInv, RateTypeOK, IdleFills, Charged
<1>4. DOMAIN visitors' \subseteq Clients
  BY <1>1 DEF RateInv, RateTypeOK
<1>5. RateTypeOK'
  BY <1>1, <1>3, <1>4 DEF RateTypeOK
<1>6. IdleFills'
  BY <1>3 DEF IdleFills, Charged
<1> QED
  BY <1>5, <1>6 DEF RateInv

(* Every step of the limiter keeps the invariant.                           *)
LEMMA NextInv == RateInv /\ [RateNext]_rateVars => RateInv'
<1> SUFFICES ASSUME RateInv, [RateNext]_rateVars
             PROVE  RateInv'
  OBVIOUS
<1>1. ASSUME NEW c \in Clients, RequestAdmitted(c)
      PROVE  RateInv'
  <2>1. Tokens(c) \in 0..Burst
    BY TokensType DEF RateInv
  <2>2. Tokens(c) - Cost \in 0..Burst
    BY <1>1, <2>1, RateAssumption DEF RateAssumption, RequestAdmitted
  <2>3. verdict' \in [Clients -> {"none", "admitted", "refused"}]
    BY <1>1 DEF RequestAdmitted, RateInv, RateTypeOK
  <2> QED
    BY <1>1, <2>2, <2>3, SeenInv DEF RequestAdmitted
<1>2. ASSUME NEW c \in Clients, RequestRefused(c)
      PROVE  RateInv'
  <2>1. Tokens(c) \in 0..Burst
    BY TokensType DEF RateInv
  <2>2. verdict' \in [Clients -> {"none", "admitted", "refused"}]
    BY <1>2 DEF RequestRefused, RateInv, RateTypeOK
  <2> QED
    BY <1>2, <2>1, <2>2, SeenInv DEF RequestRefused
<1>3. CASE Tick
  <2>1. /\ DOMAIN visitors' = DOMAIN visitors
        /\ visitors' = [c \in DOMAIN visitors' |-> visitors'[c]]
        /\ \A c \in DOMAIN visitors : visitors'[c] = Aged(visitors[c])
        /\ verdict' = verdict
    BY <1>3 DEF Tick
  <2>2. \A c \in DOMAIN visitors : visitors[c] \in Visitor /\ Charged(visitors[c])
    BY DEF RateInv, RateTypeOK, IdleFills, Charged
  <2>3. \A c \in DOMAIN visitors' : visitors'[c] \in Visitor /\ Charged(visitors'[c])
    BY <2>1, <2>2, AgedIsCharged
  <2>4. RateTypeOK'
    BY <2>1, <2>3 DEF RateTypeOK, RateInv
  <2>5. IdleFills'
    BY <2>3 DEF IdleFills, Charged
  <2> QED
    BY <2>4, <2>5 DEF RateInv
<1>4. CASE Sweep
  <2>1. /\ DOMAIN visitors' = DOMAIN visitors \ Stale
        /\ visitors' = [c \in DOMAIN visitors' |-> visitors'[c]]
        /\ \A c \in DOMAIN visitors' : visitors'[c] = visitors[c]
        /\ verdict' = verdict
    BY <1>4 DEF Sweep
  <2> QED
    BY <2>1 DEF RateInv, RateTypeOK, IdleFills
<1>5. CASE UNCHANGED rateVars
  BY <1>5 DEF rateVars, RateInv, RateTypeOK, IdleFills
<1> QED
  BY <1>1, <1>2, <1>3, <1>4, <1>5 DEF RateNext

(* A visitor's limiter holds at least what it gained since its client was   *)
(* last seen, or is full, for every burst, rate and sweep (ratelimit.go).   *)
THEOREM LimitersAreCharged == RateSpec => []RateInv
  BY InitInv, NextInv, PTL DEF RateSpec

-----------------------------------------------------------------------------
(* Refinement *)

LEMMA InitRefines == RateInit => Bucket!BucketInit
<1> SUFFICES ASSUME RateInit PROVE Bucket!BucketInit
  OBVIOUS
<1>1. DOMAIN visitors = {}
  BY DEF RateInit
<1>2. [c \in Clients |-> Tokens(c)] = [c \in Clients |-> Burst]
  BY <1>1 DEF Tokens
<1> QED
  BY <1>2 DEF RateInit, Bucket!BucketInit

(* A request changes what its own client has left and nothing else.         *)
LEMMA SeenTokens ==
    ASSUME NEW c \in Clients, NEW n, Seen(c, n)
    PROVE  [d \in Clients |-> Tokens(d)'] = [[d \in Clients |-> Tokens(d)] EXCEPT ![c] = n]
<1>1. /\ DOMAIN visitors' = DOMAIN visitors \cup {c}
      /\ visitors'[c] = [tokens |-> n, idle |-> 0]
      /\ \A d \in DOMAIN visitors : d # c => visitors'[d] = visitors[d]
  BY DEF Seen
<1>2. Tokens(c)' = n
  BY <1>1 DEF Tokens
<1>3. \A d \in Clients : d # c => Tokens(d)' = Tokens(d)
  BY <1>1 DEF Tokens
<1> QED
  BY <1>2, <1>3

(* The sweep evicts full limiters only: nobody has more or less left.        *)
LEMMA SweepTokens ==
    ASSUME RateInv, Sweep, NEW c \in Clients
    PROVE  Tokens(c)' = Tokens(c)
<1>1. /\ DOMAIN visitors' = DOMAIN visitors \ Stale
      /\ \A d \in DOMAIN visitors' : visitors'[d] = visitors[d]
  BY DEF Sweep
<1>2. CASE c \in Stale
  <2>1. visitors[c] \in Visitor /\ Charged(visitors[c]) /\ visitors[c].idle > Quiet
    BY <1>2 DEF Stale, RateInv, RateTypeOK, IdleFills, Charged
  <2>2. visitors[c].tokens = Burst
    BY <2>1, QuietIsFull
  <2> QED
    BY <1>1, <1>2, <2>2 DEF Stale, Tokens
<1>3. CASE c \notin Stale
  BY <1>1, <1>3 DEF Tokens
<1> QED
  BY <1>2, <1>3

(* Every step of the table of visitors is a step of the buckets or leaves   *)
(* them alone; an eviction is among the latter.                             *)
LEMMA StepRefines ==
    RateInv /\ [RateNext]_rateVars
        => [Bucket!BucketNext]_<<[c \in Clients |-> Tokens(c)], verdict>>
<1> SUFFICES ASSUME RateInv, [RateNext]_rateVars
             PROVE  [Bucket!BucketNext]_<<[c \in Clients |-> Tokens(c)], verdict>>
  OBVIOUS
<1>1. ASSUME NEW c \in Clients, RequestAdmitted(c)
      PROVE  Bucket!Admit(c)
  <2>1. [d \in Clients |-> Tokens(d)'] = [[d \in Clients |-> Tokens(d)] EXCEPT ![c] = Tokens(c) - Cost]
    BY <1>1, SeenTokens DEF RequestAdmitted
  <2> QED
    BY <1>1, <2>1 DEF RequestAdmitted, Bucket!Admit
<1>2. ASSUME NEW c \in Clients, RequestRefused(c)
      PROVE  Bucket!Refuse(c)
  <2>1. [d \in Clients |-> Tokens(d)'] = [[d \in Clients |-> Tokens(d)] EXCEPT ![c] = Tokens(c)]
    BY <1>2, SeenTokens DEF RequestRefused
  <2>2. [d \in Clients |-> Tokens(d)'] = [d \in Clients |-> Tokens(d)]
    BY <2>1
  <2> QED
    BY <1>2, <2>2 DEF RequestRefused, Bucket!Refuse
<1>3. ASSUME Tick
      PROVE  Bucket!Fill
  <2>1. DOMAIN visitors' = DOMAIN visitors
    BY <1>3 DEF Tick
  <2>2. ASSUME NEW c \in Clients
        PROVE  Tokens(c)' = IF Tokens(c) + Rate > Burst THEN Burst ELSE Tokens(c) + Rate
    <3>1. CASE c \in DOMAIN visitors
      BY <1>3, <2>1, <3>1 DEF Tick, Aged, Filled, Tokens
    <3>2. CASE c \notin DOMAIN visitors
      BY <2>1, <3>2, RateAssumption DEF RateAssumption, Tokens
    <3> QED
      BY <3>1, <3>2
  <2>3. [c \in Clients |-> Tokens(c)'] =
           [c \in Clients |-> IF Tokens(c) + Rate > Burst THEN Burst ELSE Tokens(c) + Rate]
    BY <2>2
  <2> QED
    BY <1>3, <2>3 DEF Tick, Bucket!Fill
<1>4. ASSUME Sweep
      PROVE  UNCHANGED <<[c \in Clients |-> Tokens(c)], verdict>>
  <2>1. [c \in Clients |-> Tokens(c)'] = [c \in Clients |-> Tokens(c)]
    BY <1>4, SweepTokens
  <2> QED
    BY <1>4, <2>1 DEF Sweep
<1>5. ASSUME UNCHANGED rateVars
      PROVE  UNCHANGED <<[c \in Clients |-> Tokens(c)], verdict>>
  BY <1>5 DEF rateVars, Tokens
<1> QED
  BY <1>1, <1>2, <1>3, <1>4, <1>5 DEF RateNext, Bucket!BucketNext

(* What the gateway admits and refuses is what a bucket per client that is  *)
(* kept for ever would: the sweep cannot be noticed (RateLimit).            *)
THEOREM SweepIsInvisible == RateSpec => LimiterIsBucket
<1> QED
  BY LimitersAreCharged, InitRefines, StepRefines, PTL DEF RateSpec, LimiterIsBucket, Bucket!BucketSpec

-----------------------------------------------------------------------------
(* How much gets through *)

VARIABLES
    used,   \* [Clients -> Nat]: requests of a client admitted since the count began
    ticks   \* Nat: ticks of the clock since then

(* The limiter, with a count that begins in any state it can be in: what is  *)
(* shown of the count holds of every stretch of a run.                       *)
CountNext ==
    \/ /\ \E c \in Clients : RequestAdmitted(c) /\ used' = [used EXCEPT ![c] = @ + 1]
       /\ UNCHANGED ticks
    \/ /\ Sweep \/ \E c \in Clients : RequestRefused(c)
       /\ UNCHANGED <<used, ticks>>
    \/ Tick /\ ticks' = ticks + 1 /\ UNCHANGED used

CountSpec ==
    /\ RateInv /\ used = [c \in Clients |-> 0] /\ ticks = 0
    /\ [][CountNext]_<<rateVars, used, ticks>>

(* What was admitted was paid for out of the burst and of what time brought. *)
RateIsKept == \A c \in Clients : Cost * used[c] <= Burst + Rate * ticks

(* ... and what is left of the two is still in the limiter, at most.         *)
Balance(c) == Tokens(c) + Cost * used[c] <= Burst + Rate * ticks

CountInv ==
    /\ RateInv
    /\ used \in [Clients -> Nat] /\ ticks \in Nat
    /\ \A c \in Clients : Balance(c)

LEMMA CountNextInv == CountInv /\ [CountNext]_<<rateVars, used, ticks>> => CountInv'
<1> SUFFICES ASSUME CountInv, [CountNext]_<<rateVars, used, ticks>>
             PROVE  CountInv'
  OBVIOUS
<1>1. /\ Cost \in Nat /\ Rate \in Nat /\ Burst \in Nat
      /\ \A c \in Clients : /\ Tokens(c) \in 0..Burst
                            /\ Cost * used[c] \in Nat
                            /\ Cost * (used[c] + 1) = Cost * used[c] + Cost
                            /\ Balance(c)
      /\ Rate * ticks \in Nat /\ Rate * (ticks + 1) = Rate * ticks + Rate
  <2>1. Cost \in Nat /\ Rate \in Nat /\ Burst \in Nat
    BY RateAssumption DEF RateAssumption
  <2>2. \A m, n \in Nat : m * n \in Nat /\ m * (n + 1) = m * n + m
    OBVIOUS
  <2>3. used \in [Clients -> Nat] /\ ticks \in Nat /\ \A c \in Clients : Balance(c)
    BY DEF CountInv
  <2>4. \A c \in Clients : Tokens(c) \in 0..Burst
    BY TokensType DEF CountInv, RateInv
  <2>5. \A c \in Clients : Cost * used[c] \in Nat /\ Cost * (used[c] + 1) = Cost * used[c] + Cost
    BY <2>1, <2>2, <2>3
  <2>6. Rate * ticks \in Nat /\ Rate * (ticks + 1) = Rate * ticks + Rate
    BY <2>1, <2>2, <2>3
  <2> QED
    BY <2>1, <2>3, <2>4, <2>5, <2>6
<1>2. RateInv'
  BY NextInv DEF CountInv, CountNext, RateNext
<1>3. used' \in [Clients -> Nat] /\ ticks' \in Nat
  BY DEF CountInv, CountNext
<1>4. ASSUME NEW c \in Clients, RequestAdmitted(c), used' = [used EXCEPT ![c] = @ + 1],
             UNCHANGED ticks, NEW d \in Clients
      PROVE  Balance(d)'
  <2>1. Tokens(c) >= Cost /\ Tokens(c)' = Tokens(c) - Cost
        /\ \A e \in Clients : e # c => Tokens(e)' = Tokens(e)
    BY <1>4 DEF RequestAdmitted, Seen, Tokens
  <2>2. CASE d = c
    <3>1. used'[d] = used[d] + 1 /\ Tokens(d)' = Tokens(d) - Cost
      BY <1>4, <2>1, <2>2 DEF CountInv
    <3>2. Cost * used'[d] = Cost * used[d] + Cost
      BY <1>1, <3>1
    <3>3. Tokens(d)' + Cost * used'[d] = Tokens(d) + Cost * used[d]
      BY <1>1, <3>1, <3>2
    <3> QED
      BY <1>1, <1>4, <3>3 DEF Balance
  <2>3. CASE d # c
    <3>1. used'[d] = used[d] /\ Tokens(d)' = Tokens(d)
      BY <1>4, <2>1, <2>3 DEF CountInv
    <3> QED
      BY <1>1, <1>4, <3>1 DEF Balance
  <2> QED
    BY <2>2, <2>3
<1>5. ASSUME UNCHANGED <<used, ticks>>, NEW d \in Clients, Tokens(d)' = Tokens(d)
      PROVE  Balance(d)'
  BY <1>1, <1>5 DEF Balance
<1>6. ASSUME NEW c \in Clients, RequestRefused(c), NEW d \in Clients
      PROVE  Tokens(d)' = Tokens(d)
  BY <1>6 DEF RequestRefused, Seen, Tokens
<1>7. ASSUME Sweep, NEW d \in Clients
      PROVE  Tokens(d)' = Tokens(d)
  BY <1>7, SweepTokens DEF CountInv
<1>8. ASSUME Tick, ticks' = ticks + 1, UNCHANGED used, NEW d \in Clients
      PROVE  Balance(d)'
  <2>1. Tokens(d)' \in Nat /\ Tokens(d)' <= Tokens(d) + Rate
    BY <1>1, <1>8 DEF Tick, Aged, Filled, Tokens
  <2>2. Cost * used'[d] = Cost * used[d] /\ Rate * ticks' = Rate * ticks + Rate
    BY <1>1, <1>8
  <2> QED
    BY <1>1, <2>1, <2>2 DEF Balance
<1>9. \A d \in Clients : UNCHANGED rateVars => Tokens(d)' = Tokens(d)
  BY DEF rateVars, Tokens
<1> QED
  BY <1>2, <1>3, <1>4, <1>5, <1>6, <1>7, <1>8, <1>9 DEF CountNext, CountInv

(* However often the sweep forgets a client, in any stretch of time it gets  *)
(* at most a burst and what the rate allows for that time, for every burst,  *)
(* rate and time of eviction (rate.NewLimiter, limiter.Allow, the sweep).    *)
THEOREM RateIsLimited == CountSpec => []RateIsKept
<1>1. RateInv /\ used = [c \in Clients |-> 0] /\ ticks = 0 => CountInv
  <2> SUFFICES ASSUME RateInv, used = [c \in Clients |-> 0], ticks = 0 PROVE CountInv
    OBVIOUS
  <2>1. Cost * 0 = 0 /\ Rate * 0 = 0 /\ Burst \in Nat
    BY RateAssumption DEF RateAssumption
  <2>2. \A c \in Clients : Tokens(c) \in 0..Burst
    BY TokensType DEF RateInv
  <2> QED
    BY <2>1, <2>2 DEF CountInv, Balance
<1>2. CountInv => RateIsKept
  <2> SUFFICES ASSUME CountInv, NEW c \in Clients PROVE Cost * used[c] <= Burst + Rate * ticks
    BY DEF RateIsKept
  <2>1. Tokens(c) \in 0..Burst
    BY TokensType DEF CountInv, RateInv
  <2>2. \A t, a, b \in Nat : t + a <= b => a <= b
    OBVIOUS
  <2>3. Cost \in Nat /\ Rate \in Nat /\ Burst \in Nat /\ used[c] \in Nat /\ ticks \in Nat
    BY RateAssumption DEF RateAssumption, CountInv
  <2>4. Cost * used[c] \in Nat /\ Burst + Rate * ticks \in Nat
    BY <2>3
  <2>5. Tokens(c) \in Nat /\ Tokens(c) + Cost * used[c] <= Burst + Rate * ticks
    BY <2>1, <2>3 DEF CountInv, Balance
  <2> QED
    BY <2>2, <2>4, <2>5
<1> QED
  BY <1>1, <1>2, CountNextInv, PTL DEF CountSpec

-----------------------------------------------------------------------------
(* The gateway *)

(* whatever requests the clients send, now or later *)
GatewaySpec(reqs) == GatewayInit /\ [][GatewayNext(reqs)]_allVars

(* In the gateway the limiter is asked by requests, and by nothing else, and *)
(* time and the sweep go on: what was proved of it holds there.              *)
THEOREM GatewayKeepsLimiter ==
    ASSUME NEW STATE reqs
    PROVE  GatewaySpec(reqs) => LimiterIsBucket
<1>1. GatewayInit => RateInit
  BY DEF GatewayInit
<1>2. [GatewayNext(reqs)]_allVars => [RateNext]_rateVars
  <2> SUFFICES ASSUME [GatewayNext(reqs)]_allVars PROVE [RateNext]_rateVars
    OBVIOUS
  <2>1. ASSUME NEW c \in Clients, Accept(c, reqs[c]) PROVE [RateNext]_rateVars
    <3>1. PICK req \in reqs[c] : Preflight(c, req) \/ Admitted(c, req) \/ TooMany(c, req)
      BY <2>1 DEF Accept
    <3> QED
      BY <3>1 DEF Preflight, Admitted, TooMany, RateNext
  <2>2. ASSUME NEW c \in Clients, Handle(c) PROVE UNCHANGED rateVars
    BY <2>2 DEF Handle, BackendAnswers, ProxyCopies, ProxyFails, ProxyTooLarge
  <2>3. CASE TimePasses
    BY <2>3 DEF TimePasses, RateNext
  <2>4. CASE UNCHANGED allVars
    BY <2>4 DEF allVars
  <2> QED
    BY <2>1, <2>2, <2>3, <2>4 DEF GatewayNext
<1> QED
  BY <1>1, <1>2, SweepIsInvisible, PTL DEF GatewaySpec, RateSpec

-----------------------------------------------------------------------------
(* The routing table *)

(* the pieces of the paths that the table and the routers have *)
Pieces == {"/auth", "/logout", "/users", "/me", "/settings", "/accounts", "/transactions",
           "/import", "/categories", "/budgets", "/goals", "/reports", "/summary",
           "/notifications", "/read", "/:id"}

(* A prefix begins as the path does. *)
LEMMA PrefixFirst ==
    ASSUME NEW s \in Seq(Pieces), NEW path \in Seq(Pieces), Len(s) >= 1, IsPrefix(s, path)
    PROVE  Len(path) >= 1 /\ s[1] = path[1]
<1>1. Len(s) <= Len(path) /\ SubSeq(s, 1, Len(s)) = SubSeq(path, 1, Len(s))
  BY DEF IsPrefix
<1>2. SubSeq(s, 1, Len(s))[1] = s[1] /\ SubSeq(path, 1, Len(s))[1] = path[1]
  BY <1>1
<1> QED
  BY <1>1, <1>2

(* What agrees with the path piece by piece is a prefix of it. *)
LEMMA PrefixIf ==
    ASSUME NEW s \in Seq(Pieces), NEW path \in Seq(Pieces), Len(s) <= Len(path),
           \A i \in 1..Len(s) : s[i] = path[i]
    PROVE  IsPrefix(s, path)
<1> DEFINE t == SubSeq(path, 1, Len(s))
           r == SubSeq(s, 1, Len(s))
<1>1. t \in Seq(Pieces) /\ Len(t) = Len(s) /\ \A i \in 1..Len(s) : t[i] = path[i]
  OBVIOUS
<1>2. r \in Seq(Pieces) /\ Len(r) = Len(s) /\ \A i \in 1..Len(s) : r[i] = s[i]
  OBVIOUS
<1> HIDE DEF t, r
<1>3. Len(r) = Len(t) /\ \A i \in 1..Len(r) : r[i] = t[i]
  BY <1>1, <1>2
<1>4. r = t
  BY <1>1, <1>2, <1>3, SeqEqual
<1> QED
  BY <1>4 DEF IsPrefix, t, r

(* the first pieces of the prefixes in the table *)
Heads == <<"/auth", "/users", "/accounts", "/transactions", "/categories",
           "/budgets", "/goals", "/reports", "/notifications">>

(* They are different, so that no two rows match a path. *)
LEMMA TableRows ==
    /\ DOMAIN Table = 1..9
    /\ \A i \in 1..9 : /\ Table[i].prefix \in Seq(Pieces) /\ Len(Table[i].prefix) >= 1
                       /\ Table[i].prefix[1] = Heads[i]
    /\ \A i, j \in 1..9 : Heads[i] = Heads[j] => i = j
<1>1. DOMAIN Table = 1..9
  BY DEF Table
<1>2. ASSUME NEW i \in 1..9
      PROVE  /\ Table[i].prefix \in Seq(Pieces) /\ Len(Table[i].prefix) >= 1
             /\ Table[i].prefix[1] = Heads[i]
  <2>1. /\ \A a \in Pieces : <<a>> \in Seq(Pieces) /\ Len(<<a>>) >= 1 /\ <<a>>[1] = a
        /\ \A a, b \in Pieces :
              <<a, b>> \in Seq(Pieces) /\ Len(<<a, b>>) >= 1 /\ <<a, b>>[1] = a
    OBVIOUS
  <2>2. Heads[i] \in Pieces
    BY DEF Heads, Pieces
  <2>3. \/ Table[i].prefix = <<Heads[i]>>
        \/ \E b \in Pieces : Table[i].prefix = <<Heads[i], b>>
    <3>1. CASE i = 1
      <4>1. Table[i].prefix = <<Heads[i], "/logout">>
        BY <3>1 DEF Table, Row, Heads
      <4> QED
        BY <4>1 DEF Pieces
    <3>2. CASE i = 2
      <4>1. Table[i].prefix = <<Heads[i], "/me">>
        BY <3>2 DEF Table, Row, Heads
      <4> QED
        BY <4>1 DEF Pieces
    <3>3. i = 3 => Table[i].prefix = <<Heads[i]>>
      BY DEF Table, Row, Heads
    <3>4. i = 4 => Table[i].prefix = <<Heads[i]>>
      BY DEF Table, Row, Heads
    <3>5. i = 5 => Table[i].prefix = <<Heads[i]>>
      BY DEF Table, Row, Heads
    <3>6. i = 6 => Table[i].prefix = <<Heads[i]>>
      BY DEF Table, Row, Heads
    <3>7. i = 7 => Table[i].prefix = <<Heads[i]>>
      BY DEF Table, Row, Heads
    <3>8. i = 8 => Table[i].prefix = <<Heads[i]>>
      BY DEF Table, Row, Heads
    <3>9. i = 9 => Table[i].prefix = <<Heads[i]>>
      BY DEF Table, Row, Heads
    <3>10. i \in {1, 2, 3, 4, 5, 6, 7, 8, 9}
      OBVIOUS
    <3> QED
      BY <3>1, <3>2, <3>3, <3>4, <3>5, <3>6, <3>7, <3>8, <3>9, <3>10
  <2> QED
    BY <2>1, <2>2, <2>3, ZenonT(60)
<1>3. ASSUME NEW i \in 1..9, NEW j \in 1..9, Heads[i] = Heads[j] PROVE i = j
  BY <1>3 DEF Heads
<1> QED
  BY <1>1, <1>2, <1>3

(* A row whose prefix matches is the one that Resolve finds. *)
LEMMA ResolveFinds ==
    ASSUME NEW path \in Seq(Pieces), NEW i \in 1..9, IsPrefix(Table[i].prefix, path)
    PROVE  Resolve(path) = i
<1> DEFINE matches == {j \in DOMAIN Table : IsPrefix(Table[j].prefix, path)}
<1>1. ASSUME NEW j \in matches PROVE j = i
  <2>1. j \in 1..9 /\ IsPrefix(Table[j].prefix, path)
    BY <1>1, TableRows
  <2>2. Table[j].prefix[1] = path[1] /\ Table[i].prefix[1] = path[1]
    BY <2>1, TableRows, PrefixFirst
  <2>3. Heads[i] = Heads[j]
    BY <2>1, <2>2, TableRows
  <2> QED
    BY <2>1, <2>3, TableRows
<1>2. matches = {i}
  BY <1>1, TableRows
<1> HIDE DEF matches
<1>3. Resolve(path) = CHOOSE k \in matches : \A j \in matches \ {k} :
                          \/ Len(Table[k].prefix) > Len(Table[j].prefix)
                          \/ Len(Table[k].prefix) = Len(Table[j].prefix) /\ k < j
  BY <1>2 DEF Resolve, matches
<1> QED
  BY <1>2, <1>3

(* Every endpoint behind the token check has a row, which leads to the       *)
(* service that has the endpoint.                                            *)
LEMMA EndpointHasRow ==
    ASSUME NEW method, NEW path, <<method, path>> \in Endpoints, <<method, path>> \notin Public
    PROVE  /\ Resolve(path) \in 1..9
           /\ <<method, path>> \in Routes(Table[Resolve(path)].proxy)
<1> DEFINE e == <<method, path>>
<1>0. /\ Routes("user") = UserService \cup UserServiceAuth /\ Routes("expense") = ExpenseService
      /\ Routes("budget") = BudgetService /\ Routes("notification") = NotificationService
  BY DEF Routes
<1>1. \/ e \in UserService \/ e \in UserServiceAuth \/ e \in ExpenseService
      \/ e \in BudgetService \/ e \in NotificationService
  BY <1>0 DEF Endpoints
<1>2. ASSUME NEW i \in 1..9, path \in Seq(Pieces), IsPrefix(Table[i].prefix, path),
             e \in Routes(Table[i].proxy)
      PROVE  Resolve(path) \in 1..9 /\ e \in Routes(Table[Resolve(path)].proxy)
  BY <1>2, ResolveFinds
<1>3. ASSUME NEW i \in 1..9, NEW h \in Pieces, Table[i].prefix = <<h>>,
             \/ path = <<h>>
             \/ \E a \in Pieces : path = <<h, a>>
             \/ \E a, b \in Pieces : path = <<h, a, b>>
      PROVE  path \in Seq(Pieces) /\ IsPrefix(Table[i].prefix, path)
  <2>1. path \in Seq(Pieces) /\ Len(path) >= 1 /\ path[1] = h
    <3>1. CASE path = <<h>>
      BY <3>1
    <3>2. CASE \E a \in Pieces : path = <<h, a>>
      BY <3>2
    <3>3. CASE \E a, b \in Pieces : path = <<h, a, b>>
      BY <3>3
    <3> QED
      BY <1>3, <3>1, <3>2, <3>3
  <2>2. <<h>> \in Seq(Pieces) /\ Len(<<h>>) = 1 /\ \A k \in 1..1 : <<h>>[k] = path[k]
    BY <2>1
  <2> QED
    BY <1>3, <2>1, <2>2, PrefixIf
<1>4. ASSUME NEW h \in Pieces, e \in Resource(h)
      PROVE  path = <<h>> \/ \E a \in Pieces : path = <<h, a>>
  <2>1. path = <<h>> \/ path = <<h, "/:id">>
    BY <1>4 DEF Resource
  <2>2. "/:id" \in Pieces
    BY DEF Pieces
  <2> QED
    BY <2>1, <2>2
<1>5. CASE e \in ExpenseService /\ (e \in Resource("/accounts"))
  <2>1. Table[3].prefix = <<"/accounts">> /\ Table[3].proxy = "expense" /\ "/accounts" \in Pieces
    BY DEF Table, Row, Pieces
  <2>2. \/ path = <<"/accounts">>
        \/ \E a \in Pieces : path = <<"/accounts", a>>
        \/ \E a, b \in Pieces : path = <<"/accounts", a, b>>
    BY <1>4, <1>5, <2>1 DEF Pieces
  <2>3. path \in Seq(Pieces) /\ IsPrefix(Table[3].prefix, path)
    BY <1>3, <2>1, <2>2
  <2>4. 3 \in 1..9
    OBVIOUS
  <2>5. e \in Routes(Table[3].proxy)
    BY <1>0, <1>5, <2>1, Zenon
  <2> QED
    BY <1>2, <2>3, <2>4, <2>5, Zenon
<1>6. CASE /\ e \in ExpenseService
           /\ e \in Resource("/transactions") \/ path = <<"/transactions", "/import">>
  <2>1. /\ Table[4].prefix = <<"/transactions">> /\ Table[4].proxy = "expense"
        /\ "/transactions" \in Pieces
    BY DEF Table, Row, Pieces
  <2>2. \/ path = <<"/transactions">>
        \/ \E a \in Pieces : path = <<"/transactions", a>>
        \/ \E a, b \in Pieces : path = <<"/transactions", a, b>>
    BY <1>4, <1>6, <2>1 DEF Pieces
  <2>3. path \in Seq(Pieces) /\ IsPrefix(Table[4].prefix, path)
    BY <1>3, <2>1, <2>2, SMTT(30)
  <2>4. 4 \in 1..9
    OBVIOUS
  <2>5. e \in Routes(Table[4].proxy)
    BY <1>0, <1>6, <2>1, Zenon
  <2> QED
    BY <1>2, <2>3, <2>4, <2>5, Zenon
<1>7. CASE e \in ExpenseService /\ (path = <<"/categories">>)
  <2>1. /\ Table[5].prefix = <<"/categories">> /\ Table[5].proxy = "expense"
        /\ "/categories" \in Pieces
    BY DEF Table, Row, Pieces
  <2>2. \/ path = <<"/categories">>
        \/ \E a \in Pieces : path = <<"/categories", a>>
        \/ \E a, b \in Pieces : path = <<"/categories", a, b>>
    BY <1>4, <1>7, <2>1 DEF Pieces
  <2>3. path \in Seq(Pieces) /\ IsPrefix(Table[5].prefix, path)
    BY <1>3, <2>1, <2>2, SMTT(30)
  <2>4. 5 \in 1..9
    OBVIOUS
  <2>5. e \in Routes(Table[5].proxy)
    BY <1>0, <1>7, <2>1, Zenon
  <2> QED
    BY <1>2, <2>3, <2>4, <2>5, Zenon
<1>8. CASE e \in BudgetService /\ (e \in Resource("/budgets"))
  <2>1. Table[6].prefix = <<"/budgets">> /\ Table[6].proxy = "budget" /\ "/budgets" \in Pieces
    BY DEF Table, Row, Pieces
  <2>2. \/ path = <<"/budgets">>
        \/ \E a \in Pieces : path = <<"/budgets", a>>
        \/ \E a, b \in Pieces : path = <<"/budgets", a, b>>
    BY <1>4, <1>8, <2>1 DEF Pieces
  <2>3. path \in Seq(Pieces) /\ IsPrefix(Table[6].prefix, path)
    BY <1>3, <2>1, <2>2, SMTT(30)
  <2>4. 6 \in 1..9
    OBVIOUS
  <2>5. e \in Routes(Table[6].proxy)
    BY <1>0, <1>8, <2>1, Zenon
  <2> QED
    BY <1>2, <2>3, <2>4, <2>5, Zenon
<1>9. CASE e \in BudgetService /\ (e \in Resource("/goals"))
  <2>1. Table[7].prefix = <<"/goals">> /\ Table[7].proxy = "budget" /\ "/goals" \in Pieces
    BY DEF Table, Row, Pieces
  <2>2. \/ path = <<"/goals">>
        \/ \E a \in Pieces : path = <<"/goals", a>>
        \/ \E a, b \in Pieces : path = <<"/goals", a, b>>
    BY <1>4, <1>9, <2>1 DEF Pieces
  <2>3. path \in Seq(Pieces) /\ IsPrefix(Table[7].prefix, path)
    BY <1>3, <2>1, <2>2, SMTT(30)
  <2>4. 7 \in 1..9
    OBVIOUS
  <2>5. e \in Routes(Table[7].proxy)
    BY <1>0, <1>9, <2>1, Zenon
  <2> QED
    BY <1>2, <2>3, <2>4, <2>5, Zenon
<1>10. CASE e \in BudgetService /\ (path = <<"/reports", "/summary">>)
  <2>1. Table[8].prefix = <<"/reports">> /\ Table[8].proxy = "budget" /\ "/reports" \in Pieces
    BY DEF Table, Row, Pieces
  <2>2. \/ path = <<"/reports">>
        \/ \E a \in Pieces : path = <<"/reports", a>>
        \/ \E a, b \in Pieces : path = <<"/reports", a, b>>
    BY <1>4, <1>10, <2>1 DEF Pieces
  <2>3. path \in Seq(Pieces) /\ IsPrefix(Table[8].prefix, path)
    BY <1>3, <2>1, <2>2, SMTT(30)
  <2>4. 8 \in 1..9
    OBVIOUS
  <2>5. e \in Routes(Table[8].proxy)
    BY <1>0, <1>10, <2>1, Zenon
  <2> QED
    BY <1>2, <2>3, <2>4, <2>5, Zenon
<1>11. CASE /\ e \in NotificationService
            /\ \/ path = <<"/notifications">>
               \/ path = <<"/notifications", "/:id", "/read">>
  <2>1. /\ Table[9].prefix = <<"/notifications">> /\ Table[9].proxy = "notification"
        /\ "/notifications" \in Pieces
    BY DEF Table, Row, Pieces
  <2>2. \/ path = <<"/notifications">>
        \/ \E a \in Pieces : path = <<"/notifications", a>>
        \/ \E a, b \in Pieces : path = <<"/notifications", a, b>>
    BY <1>4, <1>11, <2>1 DEF Pieces
  <2>3. path \in Seq(Pieces) /\ IsPrefix(Table[9].prefix, path)
    BY <1>3, <2>1, <2>2, SMTT(30)
  <2>4. 9 \in 1..9
    OBVIOUS
  <2>5. e \in Routes(Table[9].proxy)
    BY <1>0, <1>11, <2>1, Zenon
  <2> QED
    BY <1>2, <2>3, <2>4, <2>5, Zenon
<1>12. ASSUME NEW i \in 1..9, NEW h \in Pieces, NEW g \in Pieces, Table[i].prefix = <<h, g>>,
              path = <<h, g>> \/ \E a \in Pieces : path = <<h, g, a>>
       PROVE  path \in Seq(Pieces) /\ IsPrefix(Table[i].prefix, path)
  <2>1. path \in Seq(Pieces) /\ Len(path) >= 2 /\ path[1] = h /\ path[2] = g
    <3>1. CASE path = <<h, g>>
      BY <3>1
    <3>2. CASE \E a \in Pieces : path = <<h, g, a>>
      BY <3>2
    <3> QED
      BY <1>12, <3>1, <3>2
  <2>2. <<h, g>> \in Seq(Pieces) /\ Len(<<h, g>>) = 2 /\ \A k \in 1..2 : <<h, g>>[k] = path[k]
    BY <2>1
  <2> QED
    BY <1>12, <2>1, <2>2, PrefixIf
<1>13. CASE e \in UserServiceAuth
  <2>1. path = <<"/auth", "/logout">>
    BY <1>13 DEF UserServiceAuth
  <2>2. /\ Table[1].prefix = <<"/auth", "/logout">> /\ Table[1].proxy = "user"
        /\ "/auth" \in Pieces /\ "/logout" \in Pieces
    BY DEF Table, Row, Pieces
  <2>3. path \in Seq(Pieces) /\ IsPrefix(Table[1].prefix, path)
    BY <1>12, <2>1, <2>2
  <2>4. 1 \in 1..9
    OBVIOUS
  <2>5. e \in Routes(Table[1].proxy)
    <3>1. e \in Routes("user")
      BY <1>0, <1>13, Zenon
    <3> QED
      BY <2>2, <3>1, Zenon
  <2> QED
    BY <1>2, <2>3, <2>4, <2>5, Zenon
<1>14. CASE e \in UserService
  <2>1. path = <<"/users", "/me">> \/ path = <<"/users", "/me", "/settings">>
    BY <1>14 DEF UserService
  <2>2. /\ Table[2].prefix = <<"/users", "/me">> /\ Table[2].proxy = "user"
        /\ "/users" \in Pieces /\ "/me" \in Pieces /\ "/settings" \in Pieces
    BY DEF Table, Row, Pieces
  <2>3. path \in Seq(Pieces) /\ IsPrefix(Table[2].prefix, path)
    BY <1>12, <2>1, <2>2, SMTT(30)
  <2>4. 2 \in 1..9
    OBVIOUS
  <2>5. e \in Routes(Table[2].proxy)
    <3>1. e \in Routes("user")
      BY <1>0, <1>14, Zenon
    <3> QED
      BY <2>2, <3>1, Zenon
  <2> QED
    BY <1>2, <2>3, <2>4, <2>5, Zenon
<1>15. e \in ExpenseService => \/ e \in Resource("/accounts")
                               \/ e \in Resource("/transactions")
                               \/ path = <<"/transactions", "/import">>
                               \/ path = <<"/categories">>
  BY DEF ExpenseService
<1>16. e \in BudgetService => \/ e \in Resource("/budgets") \/ e \in Resource("/goals")
                              \/ path = <<"/reports", "/summary">>
  BY DEF BudgetService
<1>17. e \in NotificationService =>
          path = <<"/notifications">> \/ path = <<"/notifications", "/:id", "/read">>
  BY DEF NotificationService
<1> QED
  BY <1>1, <1>5, <1>6, <1>7, <1>8, <1>9, <1>10, <1>11, <1>13, <1>14, <1>15, <1>16, <1>17

-----------------------------------------------------------------------------
(* Calls *)

(* a call has the fields of one *)
IsCall(r) == DOMAIN r = {"pc", "req", "backend", "user", "acted", "status"}

(* What a request that has been handed to a proxy carries: the user of its   *)
(* token, unless it goes to a route of user-service that needs none.         *)
Authorised(r) ==
    \/ r.req.token \in Users /\ r.user = r.req.token
    \/ Route(r.req) \in Public /\ r.backend = "user"

ActedRight(r) ==
    r.acted # None =>
        \/ r.acted = r.req.token
        \/ r.acted = SignedOut /\ (Route(r.req) \in Public \/ r.req.token \in Users)

(* A request for an endpoint is on its way to the service that has it, and   *)
(* 404 is the answer to no other requests than those for no endpoint.        *)
Reached(r) ==
    /\ r.pc = "forwarded" /\ Route(r.req) \in Endpoints => Route(r.req) \in Routes(r.backend)
    /\ r.status = 404 => Route(r.req) \notin Endpoints

CallInv ==
    /\ call = [c \in Clients |-> call[c]]
    /\ \A c \in Clients : /\ IsCall(call[c])
                          /\ call[c].pc = "forwarded" => Authorised(call[c])
                          /\ ActedRight(call[c])
                          /\ Reached(call[c])

(* What Call makes is a call. *)
LEMMA CallFields ==
    ASSUME NEW pc, NEW req, NEW backend, NEW user, NEW acted, NEW status
    PROVE  LET r == Call(pc, req, backend, user, acted, status)
           IN  /\ IsCall(r) /\ r.pc = pc /\ r.req = req /\ r.backend = backend
               /\ r.user = user /\ r.acted = acted /\ r.status = status
  BY DEF Call, IsCall

(* The chain answers a request itself, or forwards it with the identity that *)
(* its token proves (RequireAccessToken, Handler).                           *)
LEMMA DispatchIsRight ==
    ASSUME NEW req
    PROVE  LET r == Dispatch(req)
           IN  /\ IsCall(r) /\ (r.pc = "forwarded" => Authorised(r)) /\ ActedRight(r)
               /\ Reached(r)
<1>1. ASSUME NEW status
      PROVE  LET r == Answered(req, status)
             IN  /\ IsCall(r) /\ r.pc = "answered" /\ r.acted = None
                 /\ r.req = req /\ r.status = status
  BY CallFields DEF Answered
<1>2. ASSUME NEW b, NEW u
      PROVE  LET r == Forwarded(req, b, u)
             IN  /\ IsCall(r) /\ r.req = req /\ r.user = u /\ r.backend = b /\ r.acted = None
                 /\ r.status = 0
  BY CallFields DEF Forwarded
<1>3. CASE Route(req) \in Own
  BY <1>1, <1>3 DEF Dispatch, ActedRight, Reached
<1>4. CASE Route(req) \notin Own /\ Route(req) \in Public
  <2>1. Route(req) \in Routes("user")
    BY <1>4 DEF Routes, UserServiceAuth
  <2> QED
    BY <1>2, <1>4, <2>1 DEF Dispatch, Authorised, ActedRight, Reached
<1>5. CASE Route(req) \notin Own /\ Route(req) \notin Public
  <2>1. Dispatch(req) = Protected(req)
    BY <1>5 DEF Dispatch
  <2>2. Route(req) \in Endpoints => /\ Resolve(req.path) # 0
                                    /\ Route(req) \in Routes(Table[Resolve(req.path)].proxy)
    <3>1. Route(req) = <<req.method, req.path>>
      BY DEF Route
    <3>2. 0 \notin 1..9
      OBVIOUS
    <3> QED
      BY <1>5, <3>1, <3>2, EndpointHasRow, Zenon
  <2>3. CASE req.token \notin Users
    BY <1>1, <2>1, <2>3 DEF Protected, ActedRight, Reached
  <2>4. CASE req.token \in Users /\ Resolve(req.path) = 0
    BY <1>1, <2>1, <2>2, <2>4 DEF Protected, ActedRight, Reached
  <2>5. CASE req.token \in Users /\ Resolve(req.path) # 0
    BY <1>2, <2>1, <2>2, <2>5 DEF Protected, Authorised, ActedRight, Reached
  <2> QED
    BY <2>3, <2>4, <2>5
<1> QED
  BY <1>3, <1>4, <1>5

(* the call of client c becomes r *)
LEMMA SetCall ==
    ASSUME CallInv, NEW c \in Clients, NEW r, call' = [call EXCEPT ![c] = r],
           IsCall(r), r.pc = "forwarded" => Authorised(r), ActedRight(r), Reached(r)
    PROVE  CallInv'
<1>1. call'[c] = r /\ \A d \in Clients \ {c} : call'[d] = call[d]
  BY DEF CallInv
<1>2. call' = [d \in Clients |-> call'[d]]
  BY DEF CallInv
<1> QED
  BY <1>1, <1>2 DEF CallInv

(* The invariant of calls, whatever requests the clients send. *)
THEOREM CallsAreRight ==
    ASSUME NEW STATE reqs
    PROVE  GatewaySpec(reqs) => []CallInv
<1>1. GatewayInit => CallInv
  <2> SUFFICES ASSUME GatewayInit PROVE CallInv
    OBVIOUS
  <2>1. IsCall(NoCall) /\ NoCall.pc = "idle" /\ NoCall.acted = None /\ NoCall.status = 0
    BY CallFields DEF NoCall
  <2> QED
    BY <2>1 DEF GatewayInit, CallInv, ActedRight, Reached
<1>2. CallInv /\ [GatewayNext(reqs)]_allVars => CallInv'
  <2> SUFFICES ASSUME CallInv, [GatewayNext(reqs)]_allVars PROVE CallInv'
    OBVIOUS
  <2>1. ASSUME NEW c \in Clients, Accept(c, reqs[c]) PROVE CallInv'
    <3>1. PICK req \in reqs[c] : Preflight(c, req) \/ Admitted(c, req) \/ TooMany(c, req)
      BY <2>1 DEF Accept
    <3>2. ASSUME NEW status \in {204, 429}
          PROVE  /\ IsCall(Answered(req, status)) /\ Answered(req, status).pc = "answered"
                 /\ ActedRight(Answered(req, status)) /\ Reached(Answered(req, status))
      BY CallFields DEF Answered, ActedRight, Reached
    <3>3. CASE Preflight(c, req) \/ TooMany(c, req)
      BY <3>2, <3>3, SetCall DEF Preflight, TooMany
    <3>4. CASE Admitted(c, req)
      BY <3>4, SetCall, DispatchIsRight DEF Admitted
    <3> QED
      BY <3>1, <3>3, <3>4
  <2>2. ASSUME NEW c \in Clients, BackendAnswers(c) PROVE CallInv'
    <3> DEFINE r == call[c]
               open == r.backend = "user" /\ Route(r.req) \in UserServiceAuth
               status == IF Route(r.req) \notin Routes(r.backend) THEN 404
                         ELSE IF ~open /\ r.user = None THEN 401
                         ELSE IF Cut(r.req) THEN 400
                         ELSE 200
               acted == IF status # 200 THEN None ELSE IF open THEN SignedOut ELSE r.user
               n == [r EXCEPT !.pc = "handled", !.acted = acted, !.status = status]
    <3>1. /\ call' = [call EXCEPT ![c].pc = "handled", ![c].acted = acted, ![c].status = status]
          /\ r.pc = "forwarded"
      BY <2>2, Zenon DEF BackendAnswers
    <3>2. Authorised(r) /\ IsCall(r) /\ Reached(r)
      BY <3>1 DEF CallInv
    <3>3. acted # None => acted = IF open THEN SignedOut ELSE r.user
      OBVIOUS
    <3>a. status = 404 => Route(r.req) \notin Endpoints
      BY <3>1, <3>2 DEF Reached
    <3> HIDE DEF acted, status
    <3>4. call' = [call EXCEPT ![c] = n]
      BY <3>1 DEF CallInv
    <3>5. IsCall(n) /\ n.pc = "handled" /\ n.req = r.req /\ n.acted = acted /\ n.status = status
      BY <3>2 DEF IsCall
    <3>6. acted # None =>
             \/ acted = r.req.token
             \/ acted = SignedOut /\ (Route(r.req) \in Public \/ r.req.token \in Users)
      BY <3>2, <3>3 DEF Authorised, UserServiceAuth
    <3> HIDE DEF n
    <3>7. ActedRight(n)
      BY <3>5, <3>6 DEF ActedRight
    <3>8. Reached(n) /\ n.pc # "forwarded"
      BY <3>5, <3>a DEF Reached
    <3> HIDE DEF r
    <3> QED
      BY <3>4, <3>5, <3>7, <3>8, SetCall
  <2>3. ASSUME NEW c \in Clients, ProxyCopies(c) \/ ProxyFails(c) \/ ProxyTooLarge(c)
        PROVE  CallInv'
    <3> DEFINE r == call[c]
    <3>1. IsCall(r) /\ ActedRight(r) /\ Reached(r)
      BY DEF CallInv
    <3>2. CASE ProxyCopies(c)
      <4> DEFINE n == [r EXCEPT !.pc = "answered"]
      <4>1. call' = [call EXCEPT ![c] = n]
        BY <3>2 DEF ProxyCopies, CallInv
      <4>2. /\ IsCall(n) /\ n.pc = "answered" /\ n.req = r.req /\ n.acted = r.acted
            /\ n.status = r.status
        BY <3>1 DEF IsCall
      <4> HIDE DEF n
      <4>3. ActedRight(n) /\ Reached(n) /\ n.pc # "forwarded"
        BY <3>1, <4>2 DEF ActedRight, Reached
      <4> HIDE DEF r
      <4> QED
        BY <4>1, <4>2, <4>3, SetCall
    <3>3. CASE ProxyFails(c) \/ ProxyTooLarge(c)
      <4>1. PICK status \in {400, 502} :
                call' = [call EXCEPT ![c].pc = "answered", ![c].status = status]
        BY <3>3 DEF ProxyFails, ProxyTooLarge
      <4> DEFINE n == [r EXCEPT !.pc = "answered", !.status = status]
      <4>2. call' = [call EXCEPT ![c] = n]
        BY <4>1 DEF CallInv
      <4>3. /\ IsCall(n) /\ n.pc = "answered" /\ n.req = r.req /\ n.acted = r.acted
            /\ n.status = status
        BY <3>1 DEF IsCall
      <4> HIDE DEF n
      <4>4. ActedRight(n) /\ Reached(n) /\ n.pc # "forwarded"
        BY <3>1, <4>3 DEF ActedRight, Reached
      <4> HIDE DEF r
      <4> QED
        BY <4>2, <4>3, <4>4, SetCall, ZenonT(60)
    <3> QED
      BY <2>3, <3>2, <3>3
  <2>4. CASE TimePasses \/ UNCHANGED allVars
    BY <2>4 DEF TimePasses, allVars, gatewayVars, CallInv
  <2> QED
    BY <2>1, <2>2, <2>3, <2>4 DEF GatewayNext, Handle
<1> QED
  BY <1>1, <1>2, PTL DEF GatewaySpec

(* A handler of a backend acts for a user only on that user's valid access   *)
(* token, whatever X-User-Id the client sent, and for nobody only on the     *)
(* routes that need no sign-in and on /auth/logout.                          *)
THEOREM HandlersActForTokenOwner ==
    ASSUME NEW STATE reqs
    PROVE  GatewaySpec(reqs) => []ActsForTokenOwner
<1>1. CallInv => ActsForTokenOwner
  BY DEF CallInv, ActedRight, ActsForTokenOwner
<1> QED
  BY <1>1, CallsAreRight, PTL

(* A signed-in client reaches every endpoint that some service has: the       *)
(* longest prefix of the routing table leads to the service whose router has  *)
(* the endpoint, and no request for one is answered 404 (Resolve).            *)
THEOREM EndpointsAreReached ==
    ASSUME NEW STATE reqs
    PROVE  GatewaySpec(reqs) => []EveryEndpointReached
<1>1. CallInv => EveryEndpointReached
  BY DEF CallInv, Reached, EveryEndpointReached
<1> QED
  BY <1>1, CallsAreRight, PTL

=============================================================================
