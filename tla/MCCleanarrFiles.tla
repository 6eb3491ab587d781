--------------------------- MODULE MCCleanarrFiles ---------------------------
\* Instances of CleanarrFiles for TLC: two entries of one name in two folders.
EXTENDS CleanarrFiles

TwoEntries == <<"e1", "e2">>
SameName   == [e1 |-> "show", e2 |-> "show"]
TvAndTop   == [e1 |-> "tv", e2 |-> "top"]
AnimeAndDefault == [e1 |-> "anime", e2 |-> "default"]
ByCategory == {[shows |-> "tv", anime |-> "tv"], [shows |-> "tv", anime |-> "none"]}
NoneOrAnime == {{}, {"anime"}}
NoFolder   == {[shows |-> "none", anime |-> "none"]}
Few == [fail |-> 1, crash |-> 1, world |-> 2, record |-> 1, setting |-> 2]
=============================================================================
