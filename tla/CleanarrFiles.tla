---------------------------- MODULE CleanarrFiles ----------------------------
(***************************************************************************)
(* The cleanarr module's file passes: from the reads of one run, delete    *)
(* blocked files of completed jobs, move the entries of the completed      *)
(* folder nobody refers to into quarantine, and purge what stayed there    *)
(* long enough.  SABnzbd, the Arrs and the user go on between any two of   *)
(* the run's reads and threads.  A dry run does none of this (Cleanarr     *)
(* models dry runs) and is left out.                                       *)
(*                                                                         *)
(* One unit of time is min_age_hours; a run takes less.                    *)
(*                                                                         *)
(* An operator Name_Fault just before Name is Name with a plausible bug in *)
(* it; the specification does not use it.                                  *)
(***************************************************************************)
EXTENDS Naturals, FiniteSets, Sequences, SequencesExt, FiniteSetsExt

CONSTANTS
    EntryOrder,      \* the jobs' entries in the completed folder, by name
    NameOf,          \* of each entry: two containers may hold the same name
    ContainerOf,     \* the folder an entry is in: a container or "top"
    Containers,      \* folders SABnzbd may use as category folders
    Categories,      \* SABnzbd's category names
    CategoryOf,      \* SABnzbd's category of each entry's job
    FolderChoices,   \* SABnzbd's setting: the folder of each category
    IdChoices, TitleChoices, CategoryChoices,  \* setting: what to ignore
    StartJobs,       \* the jobs' states at the start: of JobStates
    Retention,       \* setting: quarantine_retention_days
    MaxTime, MaxMoves, Allowed  \* bounds: clock, moves together and each
Entries == ToSet(EntryOrder)
None    == "none"
JobStates == {"none", "queue", "unfinished", "history"}

ASSUME CleanarrFilesAssumption ==
    /\ Retention \in Nat \ {0} /\ MaxTime \in Nat /\ MaxMoves \in Nat
    /\ StartJobs \subseteq JobStates

VARIABLES
    now,
    place,       \* of each entry: "absent", "completed", "quarantined" or "deleted"
    since,       \* when an entry, or a container's list of entries, last changed
    blocked,     \* entries with a file of a blocked extension
    job,         \* SABnzbd: each entry's job; "unfinished" is in the history and
                 \* still unpacking, or failed; "history" is Completed
    records,     \* the Arrs: the kinds of each entry's queue records; "other" is
                 \* one whose protocol is not usenet
    folders,     \* SABnzbd's setting: the folder of each category
    ignore,      \* setting: ignored download ids, titles and categories
    quarantine,  \* the quarantine folder: what is under each stamped name
    origins,     \* cleanarr_quarantine: the container and categories of a name
    run,         \* the run's place and local variables
    moves

vars == <<now, place, since, blocked, job, records, folders, ignore, quarantine, origins, run, moves>>
world == <<job, records, folders, ignore>>
disk  == <<place, since, blocked, quarantine>>

Idle == [at |-> "idle", ignore |-> [ids |-> {}, titles |-> {}, categories |-> {}], folders |-> None,
         named |-> {}, complete |-> FALSE, items |-> [e \in {} |-> {}], unmatched |-> {},
         associated |-> TRUE, true |-> [e \in {} |-> {}], free |-> {}, todo |-> {},
         moved |-> <<>>]
Referenced(e) == job[e] # "none" \/ records[e] # {}

Init ==
    /\ now = 1
    /\ job \in [Entries -> StartJobs]
    /\ place = [e \in Entries |-> IF job[e] = "queue" THEN "absent" ELSE "completed"]
    /\ since = [x \in Entries \cup Containers |-> 0]
    /\ blocked = Entries
    /\ records \in [Entries -> {{}, {"waiting"}}]
    /\ \A e \in Entries : records[e] # {} => job[e] # "none"
    /\ folders \in FolderChoices
    /\ ignore \in [ids : IdChoices, titles : TitleChoices, categories : CategoryChoices]
    /\ quarantine = <<>> /\ origins = <<>>
    /\ run = Idle /\ moves = [m \in DOMAIN Allowed |-> 0]

Move(m) ==
    /\ moves[m] < Allowed[m]
    /\ FoldSet(LAMBDA x, n : n + moves[x], 0, DOMAIN Allowed) < MaxMoves
    /\ moves' = [moves EXCEPT ![m] = @ + 1]
Goto(p, r) == run' = [r EXCEPT !.at = p]

(***************************************************************************)
(* The reads                                                               *)
(***************************************************************************)

Start ==
    /\ run.at = "idle"
    /\ Goto("config", [Idle EXCEPT !.ignore = ignore, !.free = {e \in Entries : ~Referenced(e)}])
    /\ UNCHANGED <<now, world, disk, origins, moves>>

ReadConfig ==
    /\ run.at = "config"
    /\ \/ Goto("history", [run EXCEPT !.folders = folders]) /\ UNCHANGED moves
       \/ Goto("idle", Idle) /\ Move("fail")
    /\ UNCHANGED <<now, world, disk, origins>>

\* history_jobs: a failed read stops both passes; a read that stopped short or
\* met a malformed slot lacks an entry and says so.  The malware pass will look
\* at the Completed jobs of this read (jobs_by_id).
ReadHistory ==
    /\ run.at = "history"
    /\ LET jobs == {e \in Entries : job[e] \in {"unfinished", "history"}}
           Read(seen, complete) ==
             Goto("queue", [run EXCEPT !.named = seen, !.complete = complete,
                              !.todo = {e \in seen : job[e] = "history"}])
       IN \/ Read(jobs, TRUE) /\ UNCHANGED moves
          \/ \E e \in jobs : Read(jobs \ {e}, FALSE) /\ Move("fail")
          \/ Goto("idle", Idle) /\ Move("fail")
    /\ UNCHANGED <<now, world, disk, origins>>

\* queue_filenames comes last: a job may finish after the history was read.
ReadQueue ==
    /\ run.at = "queue"
    /\ \/ /\ Goto("arrs", [run EXCEPT !.named = @ \cup {e \in Entries : job[e] = "queue"}])
          /\ UNCHANGED moves
       \/ Goto("arrs", [run EXCEPT !.complete = FALSE]) /\ Move("fail")
    /\ UNCHANGED <<now, world, disk, origins>>

\* The Arrs' queues: one record may lose its download id (its folder is still
\* a reference), or its folder too; an app may not answer.
ReadArrs ==
    /\ run.at = "arrs"
    /\ LET Read(items, unmatched, associated, complete) ==
             Goto("malware", [run EXCEPT !.items = items, !.unmatched = unmatched,
                                !.associated = associated, !.complete = @ /\ complete,
                                !.true = records])
       IN \/ Read(records, {}, TRUE, TRUE) /\ UNCHANGED moves
          \/ /\ Move("fail")
             /\ \/ Read([e \in Entries |-> {}], {}, TRUE, FALSE)
                \/ \E e \in Entries : \E s \in records[e] :
                     LET rest == [records EXCEPT ![e] = @ \ {s}] IN
                     \/ Read(rest, {e}, TRUE, TRUE)
                     \/ Read(rest, {}, FALSE, FALSE)
    /\ UNCHANGED <<now, world, disk, origins>>

(***************************************************************************)
(* The malware pass                                                        *)
(***************************************************************************)

\* is_ignored for the parts a title is matched by, under some category names.
IsIgnored(titles, categories, ign) ==
    titles \cap ign.titles # {} \/ categories \cap ign.categories # {}

\* The category names that use a container, and its own name.
CategoriesOf(c, f) == {k \in Categories : f[k] = c}
FolderCategories(c, f) == IF c = "top" THEN {} ELSE {c} \cup CategoriesOf(c, f)

\* download_ignored for a download with a job: by its id, its title (records
\* carry the entry's name) and the category SABnzbd gave the job.  Without the
\* job the answer may be undecided, but such a download is not scanned anyway.
DownloadIgnored(e, ign) == e \in ign.ids \/ IsIgnored({NameOf[e]}, {CategoryOf[e]}, ign)

\* _malware_jobs: completed jobs of queued downloads, judged over every record
\* of the download and every record that names only its folder.
Spares_AnyRecord(e) == "waiting" \notin run.items[e]
Spares(e) ==
    \/ run.items[e] # {"waiting"}
    \/ \E u \in run.unmatched : NameOf[u] = NameOf[e]
MalwareJobs == {e \in run.todo : ~Spares(e) /\ ~DownloadIgnored(e, run.ignore)}

\* Nothing is safe to scan when a record belongs to no known download.
FindBlocked ==
    /\ run.at = "malware"
    /\ IF run.associated
       THEN Goto("delete", [run EXCEPT !.todo = {e \in MalwareJobs \cap blocked : place[e] = "completed"}])
       ELSE Goto("orphans", [run EXCEPT !.todo = {}])
    /\ UNCHANGED <<now, world, disk, origins, moves>>

\* delete_files looks at every path again.
DeleteFiles ==
    /\ run.at = "delete"
    /\ blocked' = blocked \ {e \in run.todo : place[e] = "completed"}
    /\ Goto("orphans", [run EXCEPT !.todo = {}])
    /\ UNCHANGED <<now, world, place, since, quarantine, origins, moves>>

(***************************************************************************)
(* The orphan pass                                                         *)
(***************************************************************************)

\* _referenced_names: by name, whatever folder the entry is in.
ReferencedNames == {NameOf[e] : e \in run.named \cup run.unmatched
                                        \cup {x \in Entries : run.items[x] # {}}}
ContainerNames(f) == {f[k] : k \in Categories} \cap Containers

\* orphan_candidates: the children of the completed folder, and those of the
\* category folders instead of the folders themselves.
OldEnough_Always(x) == TRUE
OldEnough(x) == now > since[x]
Orphans ==
    LET Name(x) == IF x \in Entries THEN NameOf[x] ELSE x
        filled == {c \in Containers : \E e \in Entries : ContainerOf[e] = c /\ place[e] = "completed"}
        children == {e \in Entries : /\ place[e] = "completed"
                                     /\ ContainerOf[e] \in ContainerNames(run.folders) \cup {"top"}}
    IN {x \in children \cup (filled \ ContainerNames(run.folders)) :
          Name(x) \notin ReferencedNames /\ OldEnough(x)}
OrphanIgnored(x) ==
    IF x \in Containers THEN x \in run.ignore.titles
    ELSE IsIgnored({NameOf[x]}, FolderCategories(ContainerOf[x], run.folders), run.ignore)

\* The pass is skipped unless every read is known to be complete.
FindOrphans ==
    /\ run.at = "orphans"
    /\ IF run.complete
       THEN Goto("quarantine", [run EXCEPT !.todo = {x \in Orphans : ~OrphanIgnored(x)}])
       ELSE Goto("idle", Idle)
    /\ UNCHANGED <<now, world, disk, origins, moves>>

\* The entries a path holds: a container takes its entries along.
Holds(x) == {e \in Entries : place[e] = "completed" /\ (e = x \/ ContainerOf[e] = x)}

\* _free_target: a second entry of the same name gets a number.
Stamped(x, n) == [at |-> now, name |-> IF x \in Entries THEN NameOf[x] ELSE x, clash |-> n]
Taken(done) == DOMAIN quarantine \cup {done[k].target : k \in DOMAIN done}
Target(x, done) == Stamped(x, Min({n \in 0..Cardinality(Taken(done)) : Stamped(x, n) \notin Taken(done)}))
Renames == FoldLeft(LAMBDA done, x : Append(done, [path |-> x, target |-> Target(x, done)]),
                    <<>>, SetToSeq({x \in run.todo : Holds(x) # {}}))

\* The renames, in a thread; the process may die before the origins are kept.
Rename ==
    LET all == Renames
        gone == UNION {Holds(all[k].path) : k \in DOMAIN all}
    IN /\ place' = [e \in Entries |-> IF e \in gone THEN "quarantined" ELSE place[e]]
       /\ quarantine' = [t \in DOMAIN quarantine \cup {all[k].target : k \in DOMAIN all} |->
             IF t \in DOMAIN quarantine THEN quarantine[t]
             ELSE Holds(all[CHOOSE k \in DOMAIN all : all[k].target = t].path)]
       /\ UNCHANGED blocked
       /\ since' = [x \in DOMAIN since |->
             IF x \in Containers /\ \E e \in gone : ContainerOf[e] = x THEN now ELSE since[x]]
Quarantine ==
    /\ run.at = "quarantine"
    /\ Rename
    /\ Goto("record", [run EXCEPT !.todo = {}, !.moved = Renames])
    /\ UNCHANGED <<now, world, origins, moves>>

\* cleanarr_record_quarantine for each.
OriginOf(x, f) ==
    LET c == IF x \in Entries THEN ContainerOf[x] ELSE "top" IN
    [container |-> c, categories |-> IF c = "top" THEN {} ELSE CategoriesOf(c, f)]
RecordOrigins ==
    /\ run.at = "record"
    /\ LET targets == {run.moved[k].target : k \in DOMAIN run.moved} IN
       origins' = [t \in DOMAIN origins \cup targets |->
          IF t \in targets
          THEN OriginOf(run.moved[CHOOSE k \in DOMAIN run.moved : run.moved[k].target = t].path, run.folders)
          ELSE origins[t]]
    /\ Goto("purge", [run EXCEPT !.moved = <<>>])
    /\ UNCHANGED <<now, world, disk, moves>>

\* quarantine_original_name: the number a clash added stays in the title, and an
\* ignored title matches any part of it.
OriginalName(t) == {t.name} \cup (IF t.clash = 0 THEN {} ELSE {"number"})

\* _purge_ignored: undecided without an origin while categories are ignored.
PurgeIgnored_Now(t) ==
    IF OriginalName(t) \cap run.ignore.titles # {} THEN "yes"
    ELSE IF t \notin DOMAIN origins THEN (IF run.ignore.categories = {} THEN "no" ELSE "undecided")
    ELSE IF IsIgnored({}, FolderCategories(origins[t].container, run.folders), run.ignore)
         THEN "yes" ELSE "no"
PurgeIgnored(t) ==
    IF OriginalName(t) \cap run.ignore.titles # {} THEN "yes"
    ELSE IF t \notin DOMAIN origins THEN (IF run.ignore.categories = {} THEN "no" ELSE "undecided")
    ELSE IF IsIgnored({}, FolderCategories(origins[t].container, run.folders)
                              \cup origins[t].categories, run.ignore)
         THEN "yes" ELSE "no"

\* expired_quarantine reads the move time back from the name.
Expired(t) == now >= t.at + Retention

\* _purge_pass: find, purge, list again, and forget the origins of the rest.
Purge ==
    /\ run.at = "purge"
    /\ LET gone == {t \in DOMAIN quarantine : Expired(t) /\ PurgeIgnored(t) = "no"}
           left == DOMAIN quarantine \ gone
           lost == UNION {quarantine[t] : t \in gone}
       IN /\ quarantine' = [t \in left |-> quarantine[t]]
          /\ place' = [e \in Entries |-> IF e \in lost THEN "deleted" ELSE place[e]]
          /\ \/ origins' = [t \in DOMAIN origins \cap left |-> origins[t]]
                /\ UNCHANGED moves
             \/ UNCHANGED origins /\ Move("fail")
    /\ Goto("idle", Idle)
    /\ UNCHANGED <<now, world, since, blocked>>

\* The process dies anywhere: after the renames their origins are lost.
Crash ==
    /\ run.at # "idle" /\ Move("crash")
    /\ run' = Idle
    /\ UNCHANGED <<now, world, disk, origins>>

RunStep ==
    \/ ReadConfig \/ ReadHistory \/ ReadQueue \/ ReadArrs \/ FindBlocked \/ DeleteFiles
    \/ FindOrphans \/ Quarantine \/ RecordOrigins \/ Purge

(***************************************************************************)
(* The world                                                               *)
(***************************************************************************)

\* For the properties: which entries were unreferenced at some moment of the run.
Watch ==
    run' = IF run.at = "idle" THEN run
           ELSE [run EXCEPT !.free = @ \cup {e \in Entries : job'[e] = "none" /\ records'[e] = {}}]

\* SABnzbd moves a job on: its entry appears while it is unpacked, or at once.
Finish(e) ==
    /\ job[e] \in {"queue", "unfinished"} /\ Move("world")
    /\ \E s \in {"unfinished", "history"} \ {job[e]} : job' = [job EXCEPT ![e] = s]
    /\ place' = [place EXCEPT ![e] = IF job[e] = "queue" THEN "completed" ELSE @]
    /\ since' = [x \in DOMAIN since |-> IF x \in {e, ContainerOf[e]} THEN now ELSE since[x]]
    /\ UNCHANGED <<now, records, folders, ignore, blocked, quarantine, origins>>
    /\ Watch
ForgetJob(e) ==
    /\ job[e] \in {"unfinished", "history"} /\ Move("world")
    /\ job' = [job EXCEPT ![e] = "none"]
    /\ UNCHANGED <<now, records, folders, ignore, disk, origins>>
    /\ Watch

\* An Arr starts an import, ends it (the record goes), or lists another episode.
RecordChanges(e) ==
    /\ Move("record")
    /\ \E r \in {{}, {"waiting"}, {"importing"}, {"waiting", "importing"},
                  {"waiting", "other"}} \ {records[e]} :
         /\ records[e] = {} => job[e] # "none"
         /\ records' = [records EXCEPT ![e] = r]
    /\ UNCHANGED <<now, job, folders, ignore, disk, origins>>
    /\ Watch

ChangeSettings ==
    /\ Move("setting")
    /\ \/ ignore' \in [ids : IdChoices, titles : TitleChoices, categories : CategoryChoices] \ {ignore} /\ UNCHANGED folders
       \/ folders' \in FolderChoices \ {folders} /\ UNCHANGED ignore
    /\ UNCHANGED <<now, job, records, disk, origins, run>>

\* Time passes between runs: a run takes less than the minimum age.
Tick ==
    /\ run.at = "idle" /\ now < MaxTime /\ now' = now + 1
    /\ UNCHANGED <<world, disk, origins, run, moves>>

Environment ==
    \/ Crash \/ ChangeSettings \/ Tick
    \/ \E e \in Entries : Finish(e) \/ ForgetJob(e) \/ RecordChanges(e)

Next == Start \/ RunStep \/ Environment

Spec == Init /\ [][Next]_vars

(***************************************************************************)
(* Properties                                                              *)
(***************************************************************************)

Moved == {e \in Entries : place[e] = "completed" /\ place'[e] = "quarantined"}
Lost  == {e \in Entries : place[e] = "quarantined" /\ place'[e] = "deleted"}

\* Whatever is moved was referred to by nobody at some moment of the run, even
\* if its job went from SABnzbd's queue to its history between the two reads.
OrphanWasFree == [][Moved \subseteq run.free]_vars

\* An entry of an ignored title or category is neither moved nor purged: not
\* after a crash lost its origin, nor after its folder changed its categories.
TrueCategories(e) == FolderCategories(ContainerOf[e], run.folders)
IgnoreKept ==
    [][\A e \in Moved \cup Lost :
          ~IsIgnored({NameOf[e]}, TrueCategories(e), run.ignore)]_vars

\* A category recorded when an entry was moved protects it to the end.
OriginKept ==
    [][\A e \in Lost : \A t \in DOMAIN origins :
          (t \in DOMAIN quarantine /\ e \in quarantine[t]) =>
              origins[t].categories \cap run.ignore.categories = {}]_vars

\* Nothing is purged before it lay in quarantine for the retention time.
RetentionKept ==
    [][\A e \in Lost : \A t \in DOMAIN quarantine :
          e \in quarantine[t] => now >= t.at + Retention]_vars

\* No file is deleted while SABnzbd still unpacks it, nor from a download that
\* had, when the Arrs were read, a record that was importing or not usenet, or
\* whose id, title or SABnzbd category is ignored.
ImportingSpared ==
    [][\A e \in blocked \ blocked' :
          /\ job[e] \in {"history", "none"}
          /\ run.true[e] = {"waiting"}
          /\ e \notin run.ignore.ids /\ NameOf[e] \notin run.ignore.titles
          /\ CategoryOf[e] \notin run.ignore.categories]_vars

\* What is in quarantine is what was moved there, each entry under one name.
OneName ==
    /\ \A s, t \in DOMAIN quarantine : s # t => quarantine[s] \cap quarantine[t] = {}
    /\ UNION {quarantine[t] : t \in DOMAIN quarantine} = {e \in Entries : place[e] = "quarantined"}
=============================================================================
