------------------------------ MODULE Deletarr ------------------------------
(***************************************************************************)
(* Deletarr, for one library: a scan proposes files and folders to delete, *)
(* from the names alone (heuristic) or against the files Radarr or Sonarr  *)
(* track (arr), and a delete removes the proposals the user picked.  The   *)
(* disk, the Arr and the settings change between any two of their steps.   *)
(*                                                                         *)
(* A path is the sequence of its names.  What the patterns make of a name  *)
(* is a constant: its class, what it is a companion of, what it matches.   *)
(*                                                                         *)
(* An operator Name_Fault just before Name is Name with a plausible bug in *)
(* it; the specification does not use it.                                  *)
(***************************************************************************)
EXTENDS Naturals, FiniteSets, Sequences, SequencesExt, FiniteSetsExt

CONSTANTS
    Paths, Dirs,     \* every path a disk may have, and the directories of them
    ClassOf,         \* of each name, see below
    CompanionOf,     \* the titles a metadata name belongs to
    StemOf,          \* a video's name without its extension
    MatchesOf,       \* the movie folders a video's name matches
    Episodes,        \* the video names that carry an episode number
    SizeOf,          \* of each file, of a symbolic link the size of its target
    LinkTo,          \* the files that are symbolic links, and where each leads
    Kinds,           \* "movies", "tv"
    DiskChoices, ArrChoices, PathChoices, \* disks and Arr inventories; setting: library path
    Changing,        \* the paths somebody else may write or remove
    Mount,           \* the Arr's path of what is mounted as the library
    MaxPicked, MaxMoves, Allowed  \* bounds: paths of a delete, moves together and each
None == "none"

\* A directory is "plain", "season", "junk", "hidden" or "ignored" (a symbolic
\* link to one counts as ignored); a file is "video", "metadata", "junk" (a junk
\* pattern or extension), "plain" or "ignored".
Class(p) == ClassOf[Last(p)]
Files == Paths \ Dirs
Name(p) == Last(p)
Parent(p) == Front(p)
Under(p, q) == IsPrefix(q, p)

ASSUME DeletarrAssumption ==
    /\ Dirs \subseteq Paths /\ PathChoices \subseteq Dirs
    /\ DOMAIN LinkTo \subseteq Paths \ Dirs
    /\ \A d \in DiskChoices : d \subseteq Paths
    /\ MaxPicked \in Nat

VARIABLES
    kind,      \* the library's type
    disk,      \* the paths that exist
    arr,       \* the Arr: its titles, each with folder and files, and its root folders
    settings,  \* the library's path; use_arr_source
    lib,       \* LibraryState: results and scan_mode; seen: what the scan saw
    op,        \* the scan or delete that holds the gate
    moves

vars == <<kind, disk, arr, settings, lib, op, moves>>

NothingSeen == [path |-> <<>>, disk |-> {}, titles |-> {}, mount |-> <<>>]
NoScan == [results |-> {}, mode |-> "heuristic", seen |-> NothingSeen]
NoManifest == [available |-> FALSE, folders |-> {}, known |-> {}, titles |-> {}, mount |-> <<>>]
IdleOp == [at |-> "idle", delete |-> FALSE, path |-> <<>>, titles |-> {}, roots |-> {}, todo |-> {},
           manifest |-> NoManifest, picked |-> {}, current |-> {}, gone |-> {}]

Init ==
    /\ kind \in Kinds /\ disk \in DiskChoices /\ arr \in ArrChoices
    /\ settings \in [path : PathChoices, useArr : BOOLEAN]
    /\ lib = NoScan /\ op = IdleOp
    /\ moves = [m \in DOMAIN Allowed |-> 0]

Move(m) ==
    /\ moves[m] < Allowed[m]
    /\ FoldSet(LAMBDA x, n : n + moves[x], 0, DOMAIN Allowed) < MaxMoves
    /\ moves' = [moves EXCEPT ![m] = @ + 1]
Goto(p, o) == op' = [o EXCEPT !.at = p]

(***************************************************************************)
(* The manifest                                                            *)
(***************************************************************************)

\* The Arr's library mount: what all root folders share.
CommonRoot(roots) == IF roots = {} THEN <<>> ELSE LongestCommonPrefix(roots)

\* An Arr path on the local mount, or <<>> when it cannot be translated.
Reroot(p, roots, local) ==
    LET mount == CommonRoot(roots) IN
    IF mount = <<>> \/ ~Under(p, mount) THEN <<>>
    ELSE local \o SubSeq(p, Len(mount) + 1, Len(p))
Translated(ps, roots, local) == {Reroot(p, roots, local) : p \in ps} \ {<<>>}

\* _collect_roots: the root folders and those the titles name.
CollectRoots(titles, roots) == roots \cup {t.root : t \in titles}

\* Known: every folder of a title; managed: those with a tracked file.
Manifest(titles, folders, local) ==
    LET roots == CollectRoots(titles, folders)
        of(t) == [path  |-> Reroot(t.folder, roots, local),
                  media |-> Translated(t.files, roots, local)]
        all == {of(t) : t \in titles}
    IN [available |-> TRUE, mount |-> CommonRoot(roots), titles |-> titles,
        folders   |-> {f \in all : f.path # <<>> /\ f.media # {}},
        known     |-> {f.path : f \in all} \ {<<>>}]
MediaPaths(m) == UNION {f.media : f \in m.folders}

(***************************************************************************)
(* Scans: the candidates a walk over a disk d finds                        *)
(***************************************************************************)

Candidate(p, reason) == [path |-> p, reason |-> reason]
Children(d, p) == {q \in d : Parent(q) = p}
Below(d, p) == {q \in d : q # p /\ Under(q, p)}

\* Nothing but plain directories below p.
EmptyTree(d, p) == \A q \in Below(d, p) : q \in Dirs /\ Class(q) \notin {"hidden", "ignored"}

\* _prepare_walk_directories, _emit_empty_subdirectories: what becomes of the
\* directories of p.
WalkDirs(d, p) == {q \in Children(d, p) \cap Dirs : Class(q) \notin {"hidden", "ignored"}}
JunkDirs(d, p) == {q \in WalkDirs(d, p) : Class(q) = "junk"}
EmptyDirs(d, p) == {q \in WalkDirs(d, p) \ JunkDirs(d, p) : EmptyTree(d, q)}
Rest(d, p) == WalkDirs(d, p) \ (JunkDirs(d, p) \cup EmptyDirs(d, p))

\* getsize follows a link: one that leads nowhere is passed over.  Only the
\* files next to the library's folders must not be links at all.
LeadsTo(q) == IF q \in DOMAIN LinkTo THEN LinkTo[q] ELSE q
FilesIn(d, p) == {q \in Children(d, p) \cap Files : Class(q) # "ignored" /\ LeadsTo(q) \in d}
LooseFiles(d, p) == FilesIn(d, p) \ DOMAIN LinkTo
WalkFinds(d, p) == {Candidate(q, "Junk folder") : q \in JunkDirs(d, p)}
                   \cup {Candidate(q, "Empty folder") : q \in EmptyDirs(d, p)}

\* is_junk_file, with the videos' stems and the folder the file is in.
KeptMetadata(p, stems) == CompanionOf[Name(p)] \cap (stems \cup {Name(Parent(p)), "artwork"}) # {}
IsJunkFile(p, stems) ==
    \/ Class(p) = "junk"
    \/ Class(p) = "metadata" /\ ~KeptMetadata(p, stems)

\* A show folder: what is next to season folders is unexpected; in a season
\* folder, every directory and every file that is no episode.
IsSeason(p) == Class(p) = "season"
ShowFinds(d, p) == IF \E q \in Rest(d, p) : IsSeason(q)
                     THEN {q \in Rest(d, p) : ~IsSeason(q)} ELSE {}
SeasonFinds(d, p) == IF IsSeason(p) THEN Rest(d, p) \ ShowFinds(d, p) ELSE {}
IsEpisode(p) == Class(p) = "video" /\ Name(p) \in Episodes
TvFiles(d, p) == IF IsSeason(p) THEN {q \in FilesIn(d, p) : ~IsEpisode(q)} ELSE {}

\* A movie folder keeps its largest matching video.
Videos(d, p) == {q \in FilesIn(d, p) : Class(q) = "video"}
MatchesFolder(q) == Name(Parent(q)) \in MatchesOf[Name(q)]
ValidVideos(d, p) == {q \in Videos(d, p) : MatchesFolder(q)}
Largest(d, p) ==
    LET valid == ValidVideos(d, p) IN
    IF valid = {} THEN {} ELSE {CHOOSE v \in valid : \A w \in valid : SizeOf[v] >= SizeOf[w]}
MovieFiles(d, p) ==
    IF Videos(d, p) = {} THEN {}
    ELSE (Videos(d, p) \ Largest(d, p))
         \cup {q \in FilesIn(d, p) : IsJunkFile(q, {StemOf[Name(v)] : v \in Videos(d, p)})}

\* os.walk: the directories reached from top, given what Flagged prunes.
Walked(d, top, Flagged(_, _)) ==
    {p \in d \cap Dirs : Under(p, top) /\ \A q \in d : (q # top /\ Under(p, q) /\ Under(q, top)) =>
        q \in Rest(d, Parent(q)) \ Flagged(d, Parent(q))}

NothingFlagged(d, p) == {}
TvFlagged(d, p) == ShowFinds(d, p) \cup SeasonFinds(d, p)

ScanMovies(d, top) ==
    UNION {WalkFinds(d, p) \cup {Candidate(q, "file") : q \in IF p = top THEN LooseFiles(d, p) ELSE MovieFiles(d, p)}
             : p \in Walked(d, top, NothingFlagged)}
TvFinds(d, p) ==
    {Candidate(q, "Unexpected folder") : q \in TvFlagged(d, p)}
    \cup {Candidate(q, "file") : q \in TvFiles(d, p)}
ScanTv(d, top) ==
    UNION {WalkFinds(d, p) \cup
             (IF p = top THEN {Candidate(q, "file") : q \in LooseFiles(d, p)} ELSE TvFinds(d, p))
             : p \in Walked(d, top, LAMBDA e, p : IF p = top THEN {} ELSE TvFlagged(e, p))}

\* A managed folder: everything in it the Arr does not track, companions of its
\* tracked files excepted.
Clean(d, f) ==
    LET stems == {StemOf[Name(m)] : m \in f.media} IN
    UNION {WalkFinds(d, p) \cup
           {Candidate(q, "file") : q \in {x \in FilesIn(d, p) \ f.media :
                                            Class(x) = "video" \/ IsJunkFile(x, stems)}}
             : p \in Walked(d, f.path, NothingFlagged)}

\* Folders of the Arr below p make p a container to descend into.
Managed(m, p) == \E f \in m.folders : f.path = p
HasKnownBelow(m, p) == \E k \in m.known : k # p /\ Under(k, p)
IsContainer(m, p) == p \notin m.known /\ HasKnownBelow(m, p) /\ Class(p) # "ignored"
Containers(d, m, top) ==
    {p \in d \cap Dirs : Under(p, top) /\ \A q \in d : (q # top /\ Under(p, q) /\ Under(q, top)) =>
        IsContainer(m, q)}

\* A known folder without a tracked file is only proposed when it is empty.
FolderFinds_NoPending(d, m, p) ==
    IF Managed(m, p) /\ ~EmptyTree(d, p) THEN Clean(d, CHOOSE f \in m.folders : f.path = p)
    ELSE IF Managed(m, p) THEN {Candidate(p, "Empty folder")}
    ELSE IF IsContainer(m, p) THEN {}
    ELSE {Candidate(p, "Orphaned folder")}
FolderFinds(d, m, p) ==
    IF Managed(m, p) /\ ~EmptyTree(d, p) THEN Clean(d, CHOOSE f \in m.folders : f.path = p)
    ELSE IF p \in m.known THEN (IF EmptyTree(d, p) THEN {Candidate(p, "Empty folder")} ELSE {})
    ELSE IF IsContainer(m, p) THEN {}
    ELSE {Candidate(p, "Orphaned folder")}
ScanArr(d, m, top) ==
    UNION {UNION {FolderFinds(d, m, q) : q \in {x \in Children(d, p) \cap Dirs : Class(x) # "ignored"}}
           \cup {Candidate(q, "file") : q \in LooseFiles(d, p)}
             : p \in Containers(d, m, top)}

(***************************************************************************)
(* The operations, one at a time behind deletarr_gate                      *)
(***************************************************************************)

\* _resolve_manifest: without the Arr as source there is nothing to read.
StartScan ==
    /\ op.at = "idle"
    /\ Goto(IF settings.useArr THEN "titles" ELSE "walk", [IdleOp EXCEPT !.path = settings.path])
    /\ UNCHANGED <<kind, disk, arr, settings, lib, moves>>

\* The user picks proposals; a change of the source may drop them before Check.
StartDelete ==
    /\ op.at = "idle" /\ lib.results # {} /\ Move("delete")
    /\ \E picked \in SUBSET {c.path : c \in lib.results} \ {{}} :
         /\ Cardinality(picked) <= MaxPicked
         /\ Goto(IF lib.mode = "arr" THEN "titles" ELSE "check",
                 [IdleOp EXCEPT !.delete = TRUE, !.path = settings.path, !.picked = picked])
    /\ UNCHANGED <<kind, disk, arr, settings, lib>>

Unavailable == Goto(IF op.delete THEN "check" ELSE "walk", [op EXCEPT !.manifest = NoManifest])

ReadTitles ==
    /\ op.at = "titles"
    /\ \/ Goto("roots", [op EXCEPT !.titles = arr.titles]) /\ UNCHANGED moves
       \/ Unavailable /\ Move("fail")
    /\ UNCHANGED <<kind, disk, arr, settings, lib>>

\* Radarr sends a movie's file with the movie, Sonarr a series' files on demand.
ReadRoots ==
    /\ op.at = "roots"
    /\ \/ /\ IF kind = "tv"
             THEN Goto("files", [op EXCEPT !.roots = arr.roots, !.todo = op.titles, !.titles = {}])
             ELSE Goto(IF op.delete THEN "check" ELSE "walk",
                       [op EXCEPT !.manifest = Manifest(op.titles, arr.roots, op.path)])
          /\ UNCHANGED moves
       \/ Unavailable /\ Move("fail")
    /\ UNCHANGED <<kind, disk, arr, settings, lib>>

\* A series removed meanwhile has no files; one failure makes the whole
\* manifest unavailable.
ReadFiles ==
    /\ op.at = "files"
    /\ \/ \E t \in op.todo :
            LET now == {u \in arr.titles : u.folder = t.folder}
                files == UNION {u.files : u \in now} IN
            /\ Goto("files", [op EXCEPT !.todo = @ \ {t}, !.titles = @ \cup {[t EXCEPT !.files = files]}])
            /\ UNCHANGED moves
       \/ /\ op.todo = {}
          /\ Goto(IF op.delete THEN "check" ELSE "walk",
                  [op EXCEPT !.manifest = Manifest(op.titles, op.roots, op.path)])
          /\ UNCHANGED moves
       \/ op.todo # {} /\ Unavailable /\ Move("fail")
    /\ UNCHANGED <<kind, disk, arr, settings, lib>>

Found ==
    LET m == op.manifest
        candidates == IF op.path \notin disk THEN {}
                      ELSE IF m.available THEN ScanArr(disk, m, op.path)
                      ELSE IF kind = "tv" THEN ScanTv(disk, op.path) ELSE ScanMovies(disk, op.path)
    IN lib' = [results |-> candidates, mode |-> IF m.available THEN "arr" ELSE "heuristic",
               seen |-> [path |-> op.path, disk |-> disk, titles |-> m.titles, mount |-> m.mount]]

\* A walk that fails leaves the earlier results.
Walk ==
    /\ op.at = "walk"
    /\ Goto("idle", IdleOp)
    /\ UNCHANGED <<kind, disk, arr, settings>>
    /\ \/ Move("fail") /\ UNCHANGED lib
       \/ UNCHANGED moves /\ Found

\* _delete_sync: the results as they are when its thread starts.
Check ==
    /\ op.at = "check"
    /\ Goto("delete", [op EXCEPT !.current = lib.results])
    /\ UNCHANGED <<kind, disk, arr, settings, lib, moves>>

\* Is p a tracked file, or a folder with one?
Covers_Exact(p, tracked) == p \in tracked
Covers(p, tracked) == \E t \in tracked : Under(t, p)

\* _validate_delete_path, against the library's path as it is now: the path
\* and what it leads to must exist, the latter within the library.
ValidDelete(p) ==
    /\ settings.path \in disk /\ p \in disk
    /\ LeadsTo(p) \in disk /\ Under(LeadsTo(p), settings.path)

\* An "Empty folder" is removed with rmdir only, from the bottom: what came
\* into it stays, with the directories above.
Tree(p) == {q \in disk : Under(q, p)}
RemovedEmpty_Tree(p) == {Tree(p)}
RemovedEmpty(p) ==
    LET bare == {q \in Tree(p) : q \in Dirs /\ Tree(q) \subseteq Dirs} IN
    IF Tree(p) \subseteq Dirs THEN {bare}
    ELSE {s \in SUBSET bare : \A q \in s : Tree(q) \subseteq s}

\* Anything else goes as a whole.
Removed(p) == {Tree(p)}

\* A removal that fails has removed what lies below, or a part of it.
CutShort(p, empty) ==
    LET below == Below(disk, p) \cap (IF empty THEN Dirs ELSE Paths)
    IN {s \in SUBSET below : \A q \in s : Tree(q) \subseteq s}

DeleteOne ==
    /\ op.at = "delete"
    /\ \E p \in op.picked :
         LET reasons == {c.reason : c \in {x \in op.current : x.path = p}}
             empty == p \in Dirs /\ "Empty folder" \in reasons
             refused == \/ reasons = {} \/ Covers(p, MediaPaths(op.manifest)) \/ ~ValidDelete(p)
         IN \/ /\ refused
               /\ op' = [op EXCEPT !.picked = @ \ {p}]
               /\ UNCHANGED <<disk, moves>>
            \/ /\ ~refused /\ Move("fail")
               /\ \E gone \in CutShort(p, empty) : disk' = disk \ gone
               /\ op' = [op EXCEPT !.picked = @ \ {p}]
            \/ /\ ~refused
               /\ \E gone \in IF empty THEN RemovedEmpty(p) ELSE Removed(p) :
                    /\ disk' = disk \ gone
                    /\ op' = [op EXCEPT !.picked = @ \ {p},
                                        !.gone = IF p \in gone THEN @ \cup {p} ELSE @]
               /\ UNCHANGED moves
    /\ UNCHANGED <<kind, arr, settings, lib>>

FinishDelete ==
    /\ op.at = "delete" /\ op.picked = {}
    /\ lib' = [lib EXCEPT !.results = {c \in @ : c.path \notin op.gone}]
    /\ Goto("idle", IdleOp)
    /\ UNCHANGED <<kind, disk, arr, settings, moves>>

\* Only a change of the source drops the results; neither waits for the gate.
UpdateSettings ==
    /\ Move("setting")
    /\ settings' \in [path : PathChoices, useArr : BOOLEAN] \ {settings}
    /\ lib' = IF settings'.useArr # settings.useArr THEN NoScan ELSE lib
    /\ UNCHANGED <<kind, disk, arr, op>>

(***************************************************************************)
(* The world                                                               *)
(***************************************************************************)

\* The Arr imports, adds or drops a title or a root folder.
ArrChanges ==
    /\ Move("arr")
    /\ arr' \in ArrChoices \ {arr}
    /\ UNCHANGED <<kind, disk, settings, lib, op>>

\* Somebody writes or removes a file or an empty directory.
DiskChanges ==
    /\ Move("disk")
    /\ \/ \E p \in Changing \ disk : Parent(p) \in disk /\ disk' = disk \cup {p}
       \/ \E p \in Changing \cap disk : Below(disk, p) = {} /\ disk' = disk \ {p}
    /\ UNCHANGED <<kind, arr, settings, lib, op>>

Next ==
    \/ StartScan \/ ReadTitles \/ ReadRoots \/ ReadFiles \/ Walk
    \/ StartDelete \/ Check \/ DeleteOne \/ FinishDelete
    \/ UpdateSettings \/ ArrChanges \/ DiskChanges

Spec == Init /\ [][Next]_vars

(***************************************************************************)
(* Properties                                                              *)
(***************************************************************************)

\* Where a file of the Arr really is on the library's mount at path local.
Local(p, local) == local \o SubSeq(p, Len(Mount) + 1, Len(p))
Lost == IF op' # op THEN (disk \ disk') \cap Files ELSE {}
TrackedBy(titles, local) == {Local(p, local) : p \in UNION {t.files : t \in titles}}

\* The layout the translation of paths is made for: what the Arr's root folders
\* share is what is mounted as the library.  (Root folders that share nothing, or
\* one category folder alone, break it: Deletarr_mounts.cfg, Deletarr_category.cfg.)
SharedMount(mount) == mount = Mount

\* Where that layout holds and the library's path does not change meanwhile, a
\* delete whose Arr answered loses no file the Arr tracked when it answered:
\* not by name, and not inside a folder that is deleted as a whole or in part.
TrackedSpared ==
    [][op.manifest.available /\ SharedMount(op.manifest.mount) /\ op.path = settings.path =>
          Lost \cap TrackedBy(op.manifest.titles, op.path) = {}]_vars

\* The same for every layout: Deletarr_category.cfg shows it violated.
TrackedSparedAnywhere ==
    [][op.manifest.available /\ op.path = settings.path =>
          Lost \cap TrackedBy(op.manifest.titles, op.path) = {}]_vars

\* What a scan called an empty folder never takes a file with it, though files
\* may have come into it since.
EmptyLosesNothing ==
    [][\A c \in op.current : (c.reason = "Empty folder" /\ c.path \in op.picked /\ c.path \notin op'.picked)
          => \A f \in Lost : ~Under(f, c.path)]_vars

\* Where that layout holds, a folder the Arr knew without a file when it was
\* scanned is waiting for an import: a delete from that scan takes nothing out
\* of it.
PendingKept ==
    [][lib.mode = "arr" /\ SharedMount(lib.seen.mount) =>
          \A t \in lib.seen.titles : t.files = {} =>
              \A f \in Lost : ~Under(f, Local(t.folder, lib.seen.path))]_vars

\* A movie folder that had a video of its own when it was scanned keeps one as
\* large as any, unless the whole folder is proposed.
LargestKept ==
    (kind = "movies" /\ lib.mode = "heuristic") =>
        \A v \in lib.seen.disk \cap Files :
            LET folder == Parent(v)
                proposed == {c.path : c \in lib.results}
                own == {w \in ValidVideos(lib.seen.disk, folder) : SizeOf[w] >= SizeOf[v]}
            IN (v \in ValidVideos(lib.seen.disk, folder) /\ folder # lib.seen.path
                /\ \A c \in lib.results : c.path \in Dirs => ~Under(v, c.path))
               => own \ proposed # {}

\* No two proposals overlap: deleting one never takes a part of another with
\* it, and no path is proposed for two reasons.
ProposalsApart ==
    \A c, e \in lib.results : c # e => ~Under(c.path, e.path)

\* With the Arr as source, a scan falls back to the heuristics unless the
\* Arr's root folders share a mount.
FallsBackWithoutMount ==
    lib.mode = "arr" => (lib.seen.titles # {} => lib.seen.mount # <<>>)
=============================================================================
