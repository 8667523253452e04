---------------------------- MODULE TokenBucket ----------------------------
(***************************************************************************)
(* What the gateway promises its clients about their rate: every client    *)
(* has a bucket that starts full, fills with time, and pays for each       *)
(* request that is admitted; a request is admitted exactly when its bucket *)
(* can pay.  There is no table of visitors here and nothing is evicted.    *)
(***************************************************************************)
EXTENDS Naturals

CONSTANTS Clients, Burst, Rate, Cost

VARIABLES
    bucket,   \* [Clients -> 0..Burst]
    verdict   \* [Clients -> {"none", "admitted", "refused"}]: of the last request

BucketInit ==
    /\ bucket = [c \in Clients |-> Burst]
    /\ verdict = [c \in Clients |-> "none"]

Admit(c) ==
    /\ bucket[c] >= Cost
    /\ bucket' = [bucket EXCEPT ![c] = bucket[c] - Cost]
    /\ verdict' = [verdict EXCEPT ![c] = "admitted"]

Refuse(c) ==
    /\ bucket[c] < Cost
    /\ verdict' = [verdict EXCEPT ![c] = "refused"]
    /\ UNCHANGED bucket

Fill ==
    /\ bucket' = [c \in Clients |->
                     IF bucket[c] + Rate > Burst THEN Burst ELSE bucket[c] + Rate]
    /\ UNCHANGED verdict

BucketNext ==
    \/ \E c \in Clients : Admit(c) \/ Refuse(c)
    \/ Fill

BucketSpec == BucketInit /\ [][BucketNext]_<<bucket, verdict>>

=============================================================================
