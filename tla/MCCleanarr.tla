------------------------------ MODULE MCCleanarr ------------------------------
\* Instances of Cleanarr for TLC: a show's download of two episodes, and a movie.
EXTENDS Cleanarr

BothApps == <<"sonarr", "radarr">>
Two      == <<1, 2>>
OneEach  == <<"sonarr", "radarr">>
OfAll      == <<1, 1, 2>>
NoneOrMovie == {{}, {2}}
Moves == [world |-> 3, job |-> 1, outage |-> 1, skip |-> 1, defect |-> 1, refuse |-> 1,
          crash |-> 1, user |-> 1]
JustWorld == [Moves EXCEPT !.job = 0, !.outage = 0, !.skip = 0, !.defect = 0,
                           !.user = 0]
=============================================================================
