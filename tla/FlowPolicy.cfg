SPECIFICATION MCSpec
CHECK_DEADLOCK FALSE
CONSTANTS
    Part <- Parts
    BracedName <- Names
    Star = "*"
    Subscription <- Subscriptions
    Route <- Routes
    Router = {r1}
    Callback = {"none", "one", "both"}
    Policy = {p1, p2}
    DefaultPolicy = p0
    Call = {c1}
    Event <- Events
    Exchange <- Exchanges
    Log = log
    Reporter = {plain, async}
    Awaited = {async}
    Wants <- WantsOf
    MaxRegistered = 3
    MaxFeed = 2
INVARIANTS
    MostExactPolicyApplies
