SPECIFICATION FairSpec
CONSTANTS
    Fetches <- TwoFetches
    KeyOrder <- SomeKeys
    Resolvable = {"a", "b"}
    FirstOffer <- Offer1
    Offers <- SomeOffers
    FirstPool <- BadLast
    Pools <- TwoPools
    BadKeys = {"bad"}
    BudgetPerKey = 1
    Ttl = 1
    Intervals = {1, 2}
    Concurrency = 2
    Breaker = 2
    Plots = {{"fault", "restart"}, {"keys", "limit"}, {"offer", "read"},
             {"reschedule", "fault"}, {"offer", "restart"}}
INVARIANTS BudgetKept PaidOnce
PROPERTIES FeedsCurrent RatedAgainAndAgain
