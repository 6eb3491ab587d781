------------------------------ MODULE MCFindarr ------------------------------
\* Instances of Findarr for TLC: one series with two episodes, and a movie.
EXTENDS Findarr

SonarrOnly == <<"sonarr">>
Both       == <<"sonarr", "radarr">>
OneMode    == <<"upgrade">>
TwoModes   == <<"missing", "upgrade">>
Episode    == <<1>>
Episodes   == <<1, 2>>
EpisodeAndMovie == <<1, 3>>
AllItems   == <<1, 2, 3>>
AppOfItem  == <<"sonarr", "sonarr", "radarr">>
SeriesOfItem == <<7, 7, 0>>
SeasonOfItem == <<1, 1, 0>>
BySeason   == [missing |-> "seasons", upgrade |-> "seasons"]
ByEpisode  == [missing |-> "episodes", upgrade |-> "episodes"]
Limit1 == [am \in Apps \X Modes |-> 1]
Limit2 == [am \in Apps \X Modes |-> 2]
\* Radarr may send in the second mode only.
LimitByMode == [am \in Apps \X Modes |-> IF am = <<"radarr", "missing">> THEN 0 ELSE 1]
Few  == [fail |-> 1, noid |-> 1, crash |-> 1, reset |-> 1, clear |-> 1, file |-> 1]
=============================================================================
