SPECIFICATION Spec
CONSTANTS
    t1 = t1
    t2 = t2
    p1 = p1
    test = test
    first = first
    repeat = repeat
    key1 = key1
    Tickers = {t1, t2}
    WorkflowCount = 2
    Deployments = {p1}
    OfWorkflow <- Deploys
    Deliveries = {test, first, repeat}
    KeyOf <- SameKey
    Draft = {test}
    Loads <- WebhookLoads
    MaxClock = 1
    MaxOccurrences = 3
    MaxAttempts = 2
    MaxFaults = 2
\* Every slot may be past and every delivery answered.
CHECK_DEADLOCK FALSE
INVARIANT AcknowledgedRan
