\* The feeds show a title under its IMDb id and under its TMDB id, in no row
\* under both: one run asks for it twice.
SPECIFICATION Spec
CONSTANTS
    Fetches <- TwoFetches
    KeyOrder <- SomeKeys
    Resolvable = {"a", "b"}
    FirstOffer <- Unlinked
    Offers <- UnlinkedOnly
    FirstPool <- BadLast
    Pools <- TwoPools
    BadKeys = {"bad"}
    BudgetPerKey = 2
    Ttl = 1
    Intervals = {1, 2}
    Concurrency = 2
    Breaker = 2
    Plots = {{}}
INVARIANTS BudgetKept PaidOnce LookedUpOnce
