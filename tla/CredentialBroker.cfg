\* Two calls race for one grant while time passes and intents are cancelled; one
\* intent is out of scope.
SPECIFICATION BrokerFairSpec
CONSTANTS
    c1 = c1
    c2 = c2
    i1 = i1
    bad = bad
    g1 = g1
    Calls = {c1, c2}
    Intents = {i1, bad}
    BadIntents = {bad}
    Grants = {g1}
    Timeout = 1
    Lifetime = 1
    LastInstant = 2
INVARIANTS CallsEndClean HandlerAuthorized
PROPERTY CallsReturn
CHECK_DEADLOCK FALSE
