SPECIFICATION FairSpec
CONSTANTS
    Requests = {r1, r2}
    Writers = {w1, w2}
    Clients = {c1, c2}
    NoClient = NoClient
INVARIANTS NoUseAfterClose CountIsExact NoLeak CacheIsCoherent FreshClient
PROPERTIES ImplementsConnection SupersededCloses EveryRequestServed
CHECK_DEADLOCK FALSE
