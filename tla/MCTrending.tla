----------------------------- MODULE MCTrending -----------------------------
\* Instances of Trending for TLC: a fetch that fills two feeds and one that
\* fills one; nobody knows the IMDb id of "c".
EXTENDS Trending, TLC

Row(t, form) == [title |-> t, form |-> form]
TwoFetches == <<{"f1", "f2"}, {"f3"}>>
SomeKeys == <<<<"a", "imdb">>, <<"a", "tmdb">>, <<"b", "imdb">>, <<"b", "tmdb">>, <<"c", "imdb">>, <<"c", "tmdb">>>>
\* "a" is shown with both ids and with its TMDB id alone.
Offer1 == [f \in {"f1"} |-> {Row("c", "tmdb"), Row("a", "both")}] @@ [f \in {"f2"} |-> {Row("b", "imdb")}]
             @@ [f \in {"f3"} |-> {Row("a", "tmdb")}]
\* The row with both ids is no longer shown.
Offer2 == [Offer1 EXCEPT !["f1"] = {Row("c", "tmdb")}]
SomeOffers == {Offer1, Offer2}
\* Each of its ids is shown, no row links them.
Unlinked == [Offer1 EXCEPT !["f1"] = {Row("c", "tmdb"), Row("a", "imdb")}]
UnlinkedOnly == {Unlinked}
BadLast == <<"k1", "bad">>
TwoPools == {BadLast, <<"k2", "k1">>}
\* A pool that shrinks.
BadFirst == <<"bad", "k1">>
Shrinking == {BadFirst, <<"k1">>}
=============================================================================
