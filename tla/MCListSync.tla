----------------------------- MODULE MCListSync -----------------------------
\* Instances of ListSync for TLC.  The runs differ in the tasks that exist and
\* in what users and services may do.
EXTENDS ListSync, TLC

Downloads == {"add", "decline", "progress", "toggle"}
Upkeep    == {"drop", "user", "progress", "vanish", "track", "clear"}
Settling  == {"progress"}
=============================================================================
