CONSTANTS
    Clients = {c1, c2}
    c1 = c1
    Users = {u1, u2}
    None = None
    Invalid = Invalid
    SignedOut = SignedOut
    Burst = 6
    Rate = 1
    Cost = 2
    Quiet = 6
SPECIFICATION MCSpec
INVARIANTS RateInv ActsForTokenOwner EveryEndpointReached
PROPERTIES LimiterIsBucket QuietIsForgotten
