SPECIFICATION FairFillSpec
CONSTANTS
    Callers = {"a", "b", "c"}
    Entries = {"e1", "e2", "e3"}
    NoEntry = NoEntry
INVARIANTS
    OneFetch
PROPERTIES
    EveryCallReturns
    CancelledWaiterDetaches
