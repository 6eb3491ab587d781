\* The pool shrinks from two keys to one while a lookup is under way.
SPECIFICATION Spec
CONSTANTS
    Fetches <- TwoFetches
    KeyOrder <- SomeKeys
    Resolvable = {"a", "b"}
    FirstOffer <- Offer1
    Offers <- SomeOffers
    FirstPool <- BadFirst
    Pools <- Shrinking
    BadKeys = {"bad"}
    BudgetPerKey = 1
    Ttl = 1
    Intervals = {1, 2}
    Concurrency = 2
    Breaker = 2
    Plots = {{"keys"}}
INVARIANT PointerInBounds
