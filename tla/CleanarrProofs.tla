---------------------------- MODULE CleanarrProofs ----------------------------
(***************************************************************************)
(* For any queues, settings and disturbances: strikes are only given to    *)
(* downloads that fail and are not ignored, the history's outage freezes   *)
(* what depends on it, what is removed has earned it, and a row is only    *)
(* forgotten as already gone if its download left while the run went on.   *)
(***************************************************************************)
EXTENDS Cleanarr, SeqFilterProofs, FiniteSetTheorems

Kinds     == {"world", "job", "outage", "skip", "defect", "refuse", "crash", "user"}
Reasons   == {"failed_import", "failed_download"}
Histories == [Downloads -> JobStates \cup {"unknown"}]
Row       == [download : Downloads, strikes : 1..StrikeTop, reason : Reasons, record : Records,
              id : Nat, logged : BOOLEAN]
RunType   == [at : {"idle", "sab", "app", "remove"}, apps : Seq(Apps), history : Histories,
              ignored : SUBSET Downloads, categories : SUBSET Downloads, dry : BOOLEAN,
              struck : SUBSET Downloads, due : Seq(Row), left : SUBSET Downloads, calls : Nat]

\* The types of the state; a download has at most one row.
OneRowEach(rows) == \A m, n \in 1..Len(rows) : rows[m].download = rows[n].download => m = n
Types ==
    /\ state \in [Records -> AllRecordStates] /\ entry \in [Records -> Nat]
    /\ job \in [Downloads -> JobStates]
    /\ ignored \subseteq Downloads /\ categories \subseteq Downloads /\ dryRun \in BOOLEAN
    /\ strikes \in Seq(Row) /\ run \in RunType
    /\ shown \in [Downloads -> 0..StrikeTop] /\ reported \in [Downloads -> Nat]
    /\ moves \in [Kinds -> Nat]
Ledgers == OneRowEach(strikes) /\ OneRowEach(run.due)

\* Which locals a run has where.
InRun ==
    /\ run.at # "remove" => run.due = <<>> /\ run.calls = 0
    /\ run.at \in {"idle", "sab"} => run.struck = {}
    /\ run.at \in {"sab", "app"} => run.apps # <<>>
    /\ run.at = "remove" => run.due # <<>>

\* An answered Ignore is on the list, and on the list the run works with.
AckedIgnored ==
    /\ acked \subseteq ignored
    /\ run.at # "idle" => acked \subseteq run.ignored
    /\ run.struck \cap run.ignored = {}

\* What is chosen for removal was struck in this run and has its strikes.
DueEarned ==
    \A w \in ToSet(run.due) :
        /\ w.download \in run.struck
        /\ w.strikes >= MaxStrikes /\ w.strikes <= shown[w.download]

\* A row that this run struck names a record of its download that is queued
\* under the row's id, or the download left the queue since.
Current(w) == DownloadOf[w.record] = w.download /\ (InQueue(w) \/ w.download \in run.left)
RowsCurrent ==
    /\ run.at = "app" => \A w \in ToSet(strikes) : w.download \in run.struck => Current(w)
    /\ run.at = "remove" => \A w \in ToSet(run.due) : Current(w)

IInv == Types /\ Ledgers /\ InRun
ChoiceInv == AckedIgnored /\ StrikesEarned /\ DueEarned /\ RowsCurrent /\ CapKept
-----------------------------------------------------------------------------
(***************************************************************************)
(* Lists of rows                                                           *)
(***************************************************************************)

\* Two lists joined.
LEMMA Joined ==
    ASSUME NEW X, NEW s \in Seq(X), NEW t \in Seq(X)
    PROVE  /\ s \o t \in Seq(X) /\ Len(s \o t) = Len(s) + Len(t)
           /\ \A n \in 1..Len(s) : (s \o t)[n] = s[n]
           /\ \A n \in Len(s) + 1..Len(s) + Len(t) : (s \o t)[n] = t[n - Len(s)]
           /\ ToSet(s \o t) = ToSet(s) \cup ToSet(t)
  <1> DEFINE u == s \o t
  <1>1. /\ u \in Seq(X) /\ Len(u) = Len(s) + Len(t) /\ Len(s) \in Nat /\ Len(t) \in Nat
        /\ \A n \in 1..Len(s) : u[n] = s[n]
        /\ \A n \in Len(s) + 1..Len(s) + Len(t) : u[n] = t[n - Len(s)]
    OBVIOUS
  <1> HIDE DEF u
  <1>2. DOMAIN u = 1..Len(s) + Len(t) /\ DOMAIN s = 1..Len(s) /\ DOMAIN t = 1..Len(t)
    BY <1>1
  <1>3. \A x \in ToSet(u) : x \in ToSet(s) \/ x \in ToSet(t)
    <2>1. ASSUME NEW n \in 1..Len(s) + Len(t) PROVE u[n] \in ToSet(s) \/ u[n] \in ToSet(t)
      <3>1. CASE n \in 1..Len(s)
        BY <1>1, <1>2, <3>1 DEF ToSet
      <3>2. CASE n \notin 1..Len(s)
        <4>1. n \in Len(s) + 1..Len(s) + Len(t) /\ n - Len(s) \in 1..Len(t)
          BY <1>1, <3>2
        <4>2. QED
          BY <1>1, <1>2, <4>1 DEF ToSet
      <3>3. QED
        BY <3>1, <3>2
    <2>2. QED
      BY <1>2, <2>1 DEF ToSet
  <1>4. \A x \in ToSet(s) : x \in ToSet(u)
    <2>1. \A n \in 1..Len(s) : n \in 1..Len(s) + Len(t)
      BY <1>1
    <2>2. QED
      BY <1>1, <1>2, <2>1 DEF ToSet
  <1>5. \A x \in ToSet(t) : x \in ToSet(u)
    <2>1. \A n \in 1..Len(t) : n + Len(s) \in Len(s) + 1..Len(s) + Len(t)
                               /\ n + Len(s) \in 1..Len(s) + Len(t) /\ (n + Len(s)) - Len(s) = n
      BY <1>1
    <2>2. \A n \in 1..Len(t) : t[n] = u[n + Len(s)]
      BY <1>1, <2>1
    <2>3. QED
      BY <1>2, <2>1, <2>2 DEF ToSet
  <1>6. QED
    BY <1>1, <1>3, <1>4, <1>5 DEF u

LEMMA RowTyped ==
    /\ <<>> \in Seq(Row) /\ ToSet(<<>>) = {} /\ OneRowEach(<<>>) /\ Len(<<>>) = 0
    /\ \A w \in Row : w.download \in Downloads /\ w.strikes \in 1..StrikeTop /\ w.record \in Records
                      /\ w.reason \in Reasons /\ w.id \in Nat /\ w.logged \in BOOLEAN
  <1>1. <<>> \in Seq(Row) /\ DOMAIN <<>> = {} /\ Len(<<>>) = 0
    OBVIOUS
  <1>2. ToSet(<<>>) = {} /\ OneRowEach(<<>>)
    BY <1>1 DEF ToSet, OneRowEach
  <1>3. QED
    BY <1>1, <1>2 DEF Row

\* What is left of a ledger has one row for each download too.
LEMMA AmongRows ==
    ASSUME NEW rows \in Seq(Row), OneRowEach(rows), NEW S
    PROVE  /\ Among(rows, S) \in Seq(Row) /\ OneRowEach(Among(rows, S))
           /\ ToSet(Among(rows, S)) = ToSet(rows) \cap S
  <1> DEFINE a == Among(rows, S)
  <1>1. a \in Seq(Row)
    BY AmongProperties
  <1>2. \A i, j \in 1..Len(a) : i < j => \E k, l \in 1..Len(rows) : k < l /\ rows[k] = a[i] /\ rows[l] = a[j]
    <2>1. \A i, j \in 1..Len(Among(rows, S)) : i < j =>
             \E k, l \in 1..Len(rows) : k < l /\ rows[k] = Among(rows, S)[i] /\ rows[l] = Among(rows, S)[j]
      BY AmongOrder
    <2>2. QED
      BY <2>1
  <1>3. ToSet(a) = ToSet(rows) \cap S
    BY AmongSet
  <1> HIDE DEF a
  <1>4. ASSUME NEW i \in 1..Len(a), NEW j \in 1..Len(a), i < j PROVE a[i].download # a[j].download
    <2>1. PICK k, l \in 1..Len(rows) : k < l /\ rows[k] = a[i] /\ rows[l] = a[j]
      BY <1>2, <1>4
    <2>2. k # l
      BY <2>1
    <2>3. QED
      BY <2>1, <2>2 DEF OneRowEach
  <1>5. OneRowEach(a)
    <2>1. ASSUME NEW i \in 1..Len(a), NEW j \in 1..Len(a), a[i].download = a[j].download PROVE i = j
      <3>1. ~(i < j) /\ ~(j < i)
        BY <1>4, <2>1
      <3>2. QED
        BY <3>1
    <2>2. QED
      BY <2>1 DEF OneRowEach
  <1>6. QED
    BY <1>1, <1>3, <1>5 DEF a

\* A download's row.
LEMMA OneRow ==
    ASSUME NEW rows \in Seq(Row), OneRowEach(rows), NEW v \in ToSet(rows), NEW w \in ToSet(rows),
           v.download = w.download
    PROVE  v = w
  <1>1. PICK m \in 1..Len(rows) : v = rows[m]
    BY ListMember
  <1>2. PICK n \in 1..Len(rows) : w = rows[n]
    BY ListMember
  <1>3. QED
    BY <1>1, <1>2 DEF OneRowEach

\* The rows that are left to remove after the first.
LEMMA TailRows ==
    ASSUME NEW rows \in Seq(Row), OneRowEach(rows), rows # <<>>
    PROVE  /\ Head(rows) \in ToSet(rows) /\ Head(rows) \in Row
           /\ Tail(rows) \in Seq(Row) /\ OneRowEach(Tail(rows)) /\ Len(Tail(rows)) = Len(rows) - 1
           /\ \A w \in ToSet(Tail(rows)) : w \in ToSet(rows) /\ w.download # Head(rows).download
  <1> DEFINE t == Tail(rows)
  <1>1. /\ Head(rows) \in Row /\ Head(rows) = rows[1] /\ Len(rows) \in Nat \ {0}
        /\ t \in Seq(Row) /\ Len(t) = Len(rows) - 1
        /\ \A k \in 1..Len(rows) - 1 : t[k] = rows[k + 1]
        /\ ToSet(t) \subseteq ToSet(rows)
    BY RestOfList
  <1> HIDE DEF t
  <1>2. \A k \in 1..Len(t) : k + 1 \in 1..Len(rows) /\ t[k] = rows[k + 1]
    BY <1>1
  <1>3. OneRowEach(t)
    <2>1. ASSUME NEW i \in 1..Len(t), NEW j \in 1..Len(t), t[i].download = t[j].download PROVE i = j
      <3>1. i + 1 = j + 1
        BY <1>2, <2>1 DEF OneRowEach
      <3>2. QED
        BY <1>1, <3>1
    <2>2. QED
      BY <2>1 DEF OneRowEach
  <1>4. ASSUME NEW w \in ToSet(t) PROVE w.download # rows[1].download
    <2>1. PICK k \in 1..Len(t) : w = t[k]
      BY <1>1, <1>4, ListMember
    <2>2. 1 \in 1..Len(rows) /\ k + 1 # 1
      BY <1>1
    <2>3. QED
      BY <1>2, <2>1, <2>2 DEF OneRowEach
  <1>5. Head(rows) \in ToSet(rows)
    <2>1. 1 \in 1..Len(rows) /\ DOMAIN rows = 1..Len(rows)
      BY <1>1
    <2>2. QED
      BY <1>1, <2>1 DEF ToSet
  <1>6. QED
    BY <1>1, <1>3, <1>4, <1>5 DEF t
-----------------------------------------------------------------------------
(***************************************************************************)
(* What a run decides on what it read                                      *)
(***************************************************************************)

Reads(a) == QueueReads(a).whole \cup QueueReads(a).broken
Of(a)    == {d \in Downloads : AppOf[d] = a}
Mine(d, read) == {r \in read.items : DownloadOf[r] = d}

\* A whole read has every queued record of the app.
LEMMA WholeRead ==
    ASSUME NEW a, NEW read \in QueueReads(a).whole, NEW d \in Of(a)
    PROVE  Mine(d, read) = Queued(d) /\ read.folders = {} /\ read.complete
  <1> DEFINE all == UNION {Queued(x) : x \in {x \in Downloads : AppOf[x] = a}}
  <1>1. read = [items |-> all, usable |-> all, folders |-> {}, complete |-> TRUE]
    BY DEF QueueReads
  <1>2. Queued(d) \subseteq all
    BY DEF Of
  <1>3. \A r \in all : DownloadOf[r] = d => r \in Queued(d)
    BY DEF Queued, RecordsOf
  <1>4. \A r \in Queued(d) : DownloadOf[r] = d
    BY DEF Queued, RecordsOf
  <1> HIDE DEF all
  <1>5. read.items = all /\ read.folders = {} /\ read.complete
    BY <1>1
  <1>6. QED
    BY <1>2, <1>3, <1>4, <1>5 DEF Mine

\* A complete read has every queued record of a download that it lists and that
\* no bare folder may belong to.
LEMMA SoundRead ==
    ASSUME NEW a, NEW read \in Reads(a), NEW d \in Of(a)
    PROVE  /\ Mine(d, read) \subseteq Queued(d)
           /\ read.complete /\ Mine(d, read) # {} /\ d \notin ReadHeld(a, read) => Mine(d, read) = Queued(d)
  <1>1. CASE read \in QueueReads(a).whole
    BY <1>1, WholeRead
  <1>2. CASE read \in QueueReads(a).broken
    <2> DEFINE all == UNION {Queued(x) : x \in {x \in Downloads : AppOf[x] = a}}
    <2>1. PICK bad \in all, defect \in Defects : read = BadRead(all, bad, defect)
      BY <1>2 DEF QueueReads
    <2>2. /\ read.items = IF defect = "no id" THEN all ELSE all \ {bad}
          /\ read.folders = IF defect = "folder only" THEN {DownloadOf[bad]} ELSE {}
          /\ read.complete = (defect # "lost")
      BY <2>1 DEF BadRead
    <2>3. defect \in {"no id", "folder only", "lost"}
      BY CleanarrAssumption DEF AllDefects
    <2>4. Queued(d) \subseteq all
      BY DEF Of
    <2>5. \A r \in all : DownloadOf[r] = d => r \in Queued(d)
      BY DEF Queued, RecordsOf
    <2>6. \A r \in Queued(d) : DownloadOf[r] = d
      BY DEF Queued, RecordsOf
    <2> HIDE DEF all
    <2>7. read.items \subseteq all
      BY <2>2
    <2>8. Mine(d, read) \subseteq Queued(d)
      BY <2>5, <2>7 DEF Mine
    <2>9. ASSUME read.complete, Mine(d, read) # {}, d \notin ReadHeld(a, read) PROVE Mine(d, read) = Queued(d)
      <3>1. CASE defect = "no id"
        BY <2>2, <2>4, <2>6, <2>8, <3>1 DEF Mine
      <3>2. CASE defect = "folder only"
        <4>1. d \in Listed(read)
          BY <2>9 DEF Listed, Mine
        <4>2. DownloadOf[bad] # d
          BY <2>2, <2>9, <3>2, <4>1 DEF ReadHeld
        <4>3. Queued(d) \subseteq read.items
          BY <2>2, <2>4, <2>6, <3>2, <4>2
        <4>4. QED
          BY <2>6, <2>8, <4>3 DEF Mine
      <3>3. QED
        BY <2>2, <2>3, <2>9, <3>1, <3>2
    <2>10. QED
      BY <2>8, <2>9
  <1>3. QED
    BY <1>1, <1>2 DEF Reads

\* A strike is for a download of which every record read is spared by no rule,
\* and one fails; it goes to one of its failing records.
LEMMA Decided ==
    ASSUME NEW d, NEW read, NEW h, NEW held
    PROVE  LET D == Decide(d, read, h, held) IN
           /\ D.strikes =>
                 /\ \E r \in Mine(d, read) : Classify(r, h) # "healthy"
                 /\ D.record \in Mine(d, read) /\ D.reason \in Reasons
                 /\ d \notin held /\ DownloadIgnored(Mine(d, read), h) = "no"
           /\ D.failing => \E r \in Mine(d, read) : Classify(r, h) # "healthy"
           /\ d \in held => D.held
           /\ D.strikes \in BOOLEAN /\ D.failing \in BOOLEAN
  <1> DEFINE mine == {r \in read.items : DownloadOf[r] = d}
             downloads == {r \in mine : Classify(r, h) = "failed_download"}
             imports   == {r \in mine : Classify(r, h) = "failed_import"}
             failing   == IF downloads # {} THEN downloads ELSE imports
             actionable == failing \cap read.usable
             answer  == DownloadIgnored(mine, h)
             holds == answer = "undecided" \/ actionable = {} \/ d \in held
             striking == failing # {} /\ ~holds /\ answer # "yes"
                         /\ (downloads # {} \/ ~Excluded(imports))
             D == [failing |-> failing # {}, held |-> holds, strikes |-> striking,
                   reason |-> IF downloads # {} THEN "failed_download" ELSE "failed_import",
                   record |-> IF actionable = {} THEN 0 ELSE CHOOSE r \in actionable : TRUE]
  <1>1. Decide(d, read, h, held) = D
    BY DEF Decide
  <1>2. mine = Mine(d, read)
    BY DEF Mine
  <1>3. answer \in {"yes", "undecided", "no"}
    BY DEF DownloadIgnored
  <1>4. failing # {} => \E r \in mine : Classify(r, h) # "healthy"
    OBVIOUS
  <1>5. actionable \subseteq mine
    OBVIOUS
  <1> HIDE DEF mine, answer
  <1>6. actionable # {} => (CHOOSE r \in actionable : TRUE) \in actionable
    <2> HIDE DEF actionable
    <2> QED OBVIOUS
  <1>7. holds \in BOOLEAN /\ striking \in BOOLEAN /\ (failing # {}) \in BOOLEAN
    OBVIOUS
  <1>8. striking => failing # {} /\ answer = "no" /\ actionable # {} /\ d \notin held
    BY <1>3
  <1>9. d \in held => holds
    OBVIOUS
  <1> DEFINE chosen == IF actionable = {} THEN 0 ELSE CHOOSE r \in actionable : TRUE
  <1>10. striking => chosen \in mine
    BY <1>5, <1>6, <1>8
  <1> DEFINE reason == IF downloads # {} THEN "failed_download" ELSE "failed_import"
  <1>11. reason \in Reasons
    BY DEF Reasons
  <1> DEFINE some == failing # {}
  <1>12. Decide(d, read, h, held) = [failing |-> some, held |-> holds, strikes |-> striking,
                                     reason |-> reason, record |-> chosen]
    BY <1>1
  <1>13. some => \E r \in mine : Classify(r, h) # "healthy"
    BY <1>4
  <1>14. striking => some /\ answer = "no" /\ d \notin held
    BY <1>8
  <1>15. some \in BOOLEAN
    BY <1>7
  <1> HIDE DEF some, holds, striking, reason, chosen
  <1>16. LET D1 == Decide(d, read, h, held) IN
         D1.failing = some /\ D1.held = holds /\ D1.strikes = striking /\ D1.reason = reason /\ D1.record = chosen
    BY <1>12
  <1>17. answer = DownloadIgnored(Mine(d, read), h)
    BY <1>2 DEF answer
  <1>18. QED
    BY <1>2, <1>7, <1>9, <1>10, <1>11, <1>13, <1>14, <1>15, <1>16, <1>17

\* What "no" means of the ignore rules.
LEMMA NotIgnored ==
    ASSUME NEW rs, NEW h, NEW d, \A r \in rs : DownloadOf[r] = d, rs # {}, DownloadIgnored(rs, h) = "no"
    PROVE  d \notin run.ignored \cup run.categories /\ rs \cap TitleIgnored = {}
  <1> DEFINE answers == {ItemIgnored(r, h) : r \in rs}
  <1>1. "yes" \notin answers /\ "undecided" \notin answers
    BY DEF DownloadIgnored
  <1>2. ASSUME NEW r \in rs
        PROVE  d \notin run.ignored \cup run.categories /\ r \notin TitleIgnored
    <2>1. ItemIgnored(r, h) # "yes" /\ ItemIgnored(r, h) # "undecided" /\ DownloadOf[r] = d
      BY <1>1
    <2>2. d \notin run.ignored /\ r \notin TitleIgnored
          /\ ~(CategoryOf(d, h) = "known" /\ d \in run.categories)
          /\ ~(CategoryOf(d, h) = "unknown" /\ run.categories # {})
      BY <2>1 DEF ItemIgnored
    <2>3. CategoryOf(d, h) \in {"known", "unknown"}
      BY DEF CategoryOf
    <2>4. QED
      BY <2>2, <2>3
  <1>3. QED
    BY <1>2
-----------------------------------------------------------------------------
(***************************************************************************)
(* What a run does to the ledger                                           *)
(***************************************************************************)

\* What StrikeApp computes on the way, under names of its own.
HeldNow(a, read)     == HeldIds(a, read, run.history)
DecideNow(a, read)   == [d \in Of(a) |-> Decide(d, read, run.history, HeldNow(a, read))]
StruckNow(a, read)   == {d \in Of(a) : DecideNow(a, read)[d].strikes}
KeepNow(a, read)     == StruckNow(a, read) \cup HeldNow(a, read)
                        \cup {d \in Of(a) : DecideNow(a, read)[d].failing /\ DecideNow(a, read)[d].held}
KeptRows(a, read)    == Among(strikes, {w \in ToSet(strikes) : AppOf[w.download] # a
                                           \/ ~Cleared(w, KeepNow(a, read), run.history)})
Again(w, a, read)    == IF w.download \in StruckNow(a, read)
                        THEN AddStrike(w, DecideNow(a, read)[w.download]) ELSE w
AgainRows(a, read)   == [n \in DOMAIN KeptRows(a, read) |-> Again(KeptRows(a, read)[n], a, read)]
FreshOnes(a, read)   == Fresh(StruckNow(a, read))
FreshRow(d, a, read) == NewRow(d, DecideNow(a, read)[d])
FreshRows(a, read)   == [n \in DOMAIN FreshOnes(a, read) |-> FreshRow(FreshOnes(a, read)[n], a, read)]

LEMMA StrikeAppIs ==
    ASSUME NEW a, NEW read
    PROVE  /\ ~read.complete => StrikeApp(a, read).struck = {} /\ StrikeApp(a, read).rows = strikes
           /\ read.complete => /\ StrikeApp(a, read).struck = StruckNow(a, read)
                               /\ StrikeApp(a, read).rows = AgainRows(a, read) \o FreshRows(a, read)
  <1> DEFINE h == run.history
             held == HeldIds(a, read, h)
             decided == [d \in {x \in Downloads : AppOf[x] = a} |-> Decide(d, read, h, held)]
             struck == {d \in DOMAIN decided : decided[d].strikes}
             keep == struck \cup held \cup {d \in DOMAIN decided : decided[d].failing /\ decided[d].held}
             kept == Among(strikes, {w \in ToSet(strikes) : AppOf[w.download] # a \/ ~Cleared(w, keep, h)})
             fresh == Fresh(struck)
             again(w) == IF w.download \in struck THEN AddStrike(w, decided[w.download]) ELSE w
             first(d) == NewRow(d, decided[d])
             rows == [n \in DOMAIN kept |-> again(kept[n])] \o [n \in DOMAIN fresh |-> first(fresh[n])]
  <1>1. StrikeApp(a, read) = IF ~read.complete THEN [struck |-> {}, rows |-> strikes]
                             ELSE [struck |-> struck, rows |-> rows]
    BY DEF StrikeApp
  <1>2. held = HeldNow(a, read)
    BY DEF HeldNow
  <1>3. DOMAIN decided = Of(a) /\ decided = DecideNow(a, read)
    BY <1>2 DEF DecideNow, Of
  <1> HIDE DEF held, decided
  <1>4. struck = StruckNow(a, read)
    BY <1>3 DEF StruckNow
  <1> HIDE DEF struck
  <1>5. keep = KeepNow(a, read)
    BY <1>2, <1>3, <1>4 DEF KeepNow
  <1> HIDE DEF keep
  <1>6. kept = KeptRows(a, read)
    BY <1>5 DEF KeptRows
  <1>7. fresh = FreshOnes(a, read)
    BY <1>4 DEF FreshOnes
  <1> HIDE DEF kept, fresh
  <1>8. \A w : again(w) = Again(w, a, read)
    BY <1>3, <1>4 DEF Again
  <1>9. \A d : first(d) = FreshRow(d, a, read)
    BY <1>3 DEF FreshRow
  <1> HIDE DEF again, first
  <1>10. [n \in DOMAIN kept |-> again(kept[n])] = AgainRows(a, read)
    BY <1>6, <1>8 DEF AgainRows
  <1>11. [n \in DOMAIN fresh |-> first(fresh[n])] = FreshRows(a, read)
    BY <1>7, <1>9 DEF FreshRows
  <1>12. rows = AgainRows(a, read) \o FreshRows(a, read)
    BY <1>10, <1>11
  <1> HIDE DEF rows
  <1>13. QED
    BY <1>1, <1>4, <1>12

\* A record that a row may point at: the download's own, queued under the id.
Points(w) == DownloadOf[w.record] = w.download /\ InQueue(w)

\* What a strike of this read shows of the download.
LEMMA StruckShows ==
    ASSUME IInv, NEW a, NEW read \in Reads(a), read.complete, NEW d \in StruckNow(a, read)
    PROVE  LET decision == DecideNow(a, read)[d] IN
           /\ d \in Of(a) /\ d \in Downloads
           /\ \E r \in Queued(d) : Classify(r, run.history) # "healthy"
           /\ d \notin run.ignored \cup run.categories /\ Queued(d) \cap TitleIgnored = {}
           /\ decision.reason \in Reasons /\ decision.record \in Records
           /\ DownloadOf[decision.record] = d /\ state[decision.record] # "out"
           /\ d \notin HeldNow(a, read)
  <1>1. d \in Of(a) /\ Decide(d, read, run.history, HeldNow(a, read)).strikes
        /\ DecideNow(a, read)[d] = Decide(d, read, run.history, HeldNow(a, read))
    BY DEF StruckNow, DecideNow
  <1> DEFINE D == Decide(d, read, run.history, HeldNow(a, read))
  <1>2. /\ \E r \in Mine(d, read) : Classify(r, run.history) # "healthy"
        /\ D.record \in Mine(d, read) /\ D.reason \in Reasons
        /\ d \notin HeldNow(a, read) /\ DownloadIgnored(Mine(d, read), run.history) = "no"
    BY <1>1, Decided
  <1>3. d \notin ReadHeld(a, read)
    BY <1>2 DEF HeldNow, HeldIds
  <1>4. Mine(d, read) = Queued(d)
    BY <1>1, <1>2, <1>3, SoundRead
  <1> HIDE DEF D
  <1>5. \A r \in Queued(d) : r \in Records /\ DownloadOf[r] = d /\ state[r] # "out"
    BY DEF Queued, RecordsOf
  <1>6. d \notin run.ignored \cup run.categories /\ Queued(d) \cap TitleIgnored = {}
    BY <1>2, <1>4, <1>5, NotIgnored
  <1>7. d \in Downloads
    BY <1>1 DEF Of
  <1>8. DecideNow(a, read)[d] = D
    BY <1>1 DEF D
  <1>9. QED
    BY <1>1, <1>2, <1>4, <1>5, <1>6, <1>7, <1>8

\* A strike on a row there is, and a download's first.
LEMMA AgainIs ==
    ASSUME IInv, NEW a, NEW read \in Reads(a), read.complete, NEW w \in Row
    PROVE  LET v == Again(w, a, read) IN
           /\ v \in Row /\ v.download = w.download
           /\ w.download \notin StruckNow(a, read) => v = w
           /\ w.download \in StruckNow(a, read) => Points(v) /\ v.strikes = Least(w.strikes + 1, StrikeTop)
  <1>1. CASE w.download \notin StruckNow(a, read)
    BY <1>1 DEF Again
  <1>2. CASE w.download \in StruckNow(a, read)
    <2> DEFINE decision == DecideNow(a, read)[w.download]
    <2>1. /\ decision.reason \in Reasons /\ decision.record \in Records
          /\ DownloadOf[decision.record] = w.download /\ state[decision.record] # "out"
      BY <1>2, StruckShows
    <2>2. Again(w, a, read) = AddStrike(w, decision)
      BY <1>2 DEF Again
    <2> HIDE DEF decision
    <2>3. entry[decision.record] \in Nat
      BY <2>1 DEF IInv, Types
    <2>4. w.strikes \in 1..StrikeTop /\ StrikeTop \in Nat
      BY RowTyped, CleanarrAssumption
    <2>5. Least(w.strikes + 1, StrikeTop) \in 1..StrikeTop
      BY <2>4 DEF Least
    <2> DEFINE top == Least(w.strikes + 1, StrikeTop)
    <2>6. top \in 1..StrikeTop /\ top = Least(w.strikes + 1, StrikeTop)
      BY <2>5
    <2> HIDE DEF top
    <2>7. Again(w, a, read) = [w EXCEPT !.strikes = top, !.reason = decision.reason,
                                        !.record = decision.record, !.id = entry[decision.record]]
      BY <2>2, <2>6 DEF AddStrike
    <2> DEFINE v == [w EXCEPT !.strikes = top, !.reason = decision.reason,
                              !.record = decision.record, !.id = entry[decision.record]]
    <2>8. v \in Row
      BY <2>1, <2>3, <2>6 DEF Row
    <2>9. v.download = w.download /\ v.strikes = top /\ v.record = decision.record /\ v.id = entry[decision.record]
      BY DEF Row
    <2>10. v = Again(w, a, read)
      BY <2>7
    <2> HIDE DEF v
    <2>11. Points(v)
      BY <2>1, <2>9 DEF Points, InQueue
    <2>12. QED
      BY <1>2, <2>6, <2>8, <2>9, <2>10, <2>11
  <1>3. QED
    BY <1>1, <1>2

LEMMA FreshIs ==
    ASSUME IInv, NEW a, NEW read \in Reads(a), read.complete, NEW d \in StruckNow(a, read)
    PROVE  LET v == FreshRow(d, a, read) IN
           v \in Row /\ v.download = d /\ Points(v) /\ v.strikes = 1
  <1> DEFINE decision == DecideNow(a, read)[d]
  <1>1. /\ d \in Downloads /\ decision.reason \in Reasons /\ decision.record \in Records
        /\ DownloadOf[decision.record] = d /\ state[decision.record] # "out"
    BY StruckShows
  <1>2. entry[decision.record] \in Nat
    BY <1>1 DEF IInv, Types
  <1>3. 1 \in 1..StrikeTop
    BY CleanarrAssumption
  <1> DEFINE v == [download |-> d, strikes |-> 1, reason |-> decision.reason, record |-> decision.record,
                   id |-> entry[decision.record], logged |-> FALSE]
  <1>4. FreshRow(d, a, read) = v
    BY DEF FreshRow, NewRow
  <1> HIDE DEF decision
  <1>5. v \in Row
    BY <1>1, <1>2, <1>3 DEF Row
  <1>6. v.download = d /\ v.strikes = 1 /\ v.record = decision.record /\ v.id = entry[decision.record]
    OBVIOUS
  <1> HIDE DEF v
  <1>7. Points(v)
    BY <1>1, <1>6 DEF Points, InQueue
  <1>8. QED
    BY <1>4, <1>5, <1>6, <1>7

\* Two ledgers of different downloads, one after the other.
LEMMA JoinedRows ==
    ASSUME NEW s \in Seq(Row), NEW t \in Seq(Row), OneRowEach(s), OneRowEach(t),
           \A v \in ToSet(s) : \A w \in ToSet(t) : v.download # w.download
    PROVE  OneRowEach(s \o t)
  <1> DEFINE u == s \o t
  <1>1. /\ u \in Seq(Row) /\ Len(u) = Len(s) + Len(t)
        /\ \A n \in 1..Len(s) : u[n] = s[n]
        /\ \A n \in Len(s) + 1..Len(s) + Len(t) : u[n] = t[n - Len(s)]
    BY Joined
  <1> HIDE DEF u
  <1>2. Len(s) \in Nat /\ Len(t) \in Nat
    OBVIOUS
  <1>3. (\A n \in 1..Len(s) : s[n] \in ToSet(s)) /\ (\A n \in 1..Len(t) : t[n] \in ToSet(t))
    BY ListSet
  <1>4. ASSUME NEW m \in 1..Len(u), NEW n \in 1..Len(u), m < n, u[m].download = u[n].download PROVE FALSE
    <2>1. CASE n \in 1..Len(s)
      <3>1. m \in 1..Len(s)
        BY <1>4, <2>1
      <3>2. QED
        BY <1>1, <1>4, <2>1, <3>1 DEF OneRowEach
    <2>2. CASE m \notin 1..Len(s)
      <3>1. m - Len(s) \in 1..Len(t) /\ n - Len(s) \in 1..Len(t) /\ m - Len(s) # n - Len(s)
            /\ m \in Len(s) + 1..Len(s) + Len(t) /\ n \in Len(s) + 1..Len(s) + Len(t)
        BY <1>1, <1>2, <1>4, <2>2
      <3>2. QED
        BY <1>1, <1>4, <3>1 DEF OneRowEach
    <2>3. CASE m \in 1..Len(s) /\ n \notin 1..Len(s)
      <3>1. n - Len(s) \in 1..Len(t) /\ n \in Len(s) + 1..Len(s) + Len(t)
        BY <1>1, <1>2, <2>3
      <3>2. u[m] \in ToSet(s) /\ u[n] \in ToSet(t)
        BY <1>1, <1>3, <2>3, <3>1
      <3>3. QED
        BY <1>4, <3>2
    <2>4. QED
      BY <2>1, <2>2, <2>3
  <1>5. ASSUME NEW m \in 1..Len(u), NEW n \in 1..Len(u), u[m].download = u[n].download PROVE m = n
    <2>1. ~(m < n) /\ ~(n < m)
      BY <1>4, <1>5
    <2>2. m \in Nat /\ n \in Nat
      BY <1>1, <1>2
    <2>3. QED
      BY <2>1, <2>2
  <1>6. QED
    BY <1>5 DEF u, OneRowEach

\* The rows that the read keeps, some of them struck again.
LEMMA AgainRowsAre ==
    ASSUME IInv, NEW a, NEW read \in Reads(a), read.complete
    PROVE  LET rows == AgainRows(a, read)
               kept == {w \in ToSet(strikes) : AppOf[w.download] # a
                                                 \/ ~Cleared(w, KeepNow(a, read), run.history)} IN
           /\ rows \in Seq(Row) /\ OneRowEach(rows)
           /\ \A v \in ToSet(rows) : \E w \in kept : v = Again(w, a, read)
           /\ \A w \in kept : Again(w, a, read) \in ToSet(rows)
  <1> DEFINE kept == {w \in ToSet(strikes) : AppOf[w.download] # a
                                               \/ ~Cleared(w, KeepNow(a, read), run.history)}
             K == Among(strikes, kept)
             A == AgainRows(a, read)
  <1>1. strikes \in Seq(Row) /\ OneRowEach(strikes)
    BY DEF IInv, Types, Ledgers
  <1>2. kept \subseteq ToSet(strikes)
    OBVIOUS
  <1>3. A = [n \in DOMAIN K |-> Again(K[n], a, read)]
    BY DEF AgainRows, KeptRows
  <1> HIDE DEF kept, A
  <1>4. K \in Seq(Row) /\ OneRowEach(K) /\ ToSet(K) = kept
    BY <1>1, <1>2, AmongRows
  <1> HIDE DEF K
  <1>5. DOMAIN K = 1..Len(K) /\ Len(K) \in Nat /\ \A n \in 1..Len(K) : K[n] \in Row /\ K[n] \in ToSet(K)
    BY <1>4, ListSet
  <1>6. \A n \in 1..Len(K) : Again(K[n], a, read) \in Row /\ Again(K[n], a, read).download = K[n].download
    BY <1>5, AgainIs
  <1>7. A \in Seq(Row) /\ Len(A) = Len(K) /\ \A n \in 1..Len(K) : A[n] = Again(K[n], a, read)
    <2>1. A \in [1..Len(K) -> Row]
      BY <1>3, <1>5, <1>6
    <2>2. QED
      BY <1>3, <1>5, <2>1
  <1>8. OneRowEach(A)
    BY <1>4, <1>6, <1>7 DEF OneRowEach
  <1>9. ASSUME NEW v \in ToSet(A) PROVE \E w \in kept : v = Again(w, a, read)
    <2>1. PICK n \in 1..Len(A) : v = A[n]
      BY <1>7, <1>9, ListMember
    <2>2. QED
      BY <1>4, <1>5, <1>7, <2>1
  <1>10. ASSUME NEW w \in kept PROVE Again(w, a, read) \in ToSet(A)
    <2>1. PICK n \in 1..Len(K) : w = K[n]
      BY <1>4, <1>10, ListMember
    <2>2. A[n] \in ToSet(A)
      BY <1>7, ListSet
    <2>3. QED
      BY <1>7, <2>1, <2>2
  <1>11. QED
    BY <1>7, <1>8, <1>9, <1>10 DEF A, kept

\* The rows of the downloads that had none.
LEMMA FreshRowsAre ==
    ASSUME IInv, NEW a, NEW read \in Reads(a), read.complete
    PROVE  LET rows == FreshRows(a, read) IN
           /\ rows \in Seq(Row) /\ OneRowEach(rows)
           /\ \A v \in ToSet(rows) : \E d \in StruckNow(a, read) \ Struck : v = FreshRow(d, a, read)
  <1> DEFINE new == StruckNow(a, read) \ Struck
             F == Among(DownloadOrder, new)
             N == FreshRows(a, read)
  <1>1. DownloadOrder \in Seq(Downloads) /\ \A k, l \in 1..Len(DownloadOrder) :
           DownloadOrder[k] = DownloadOrder[l] => k = l
    <2>1. DownloadOrder \in Seq(Downloads) /\ IsInjective(DownloadOrder)
      BY CleanarrAssumption
    <2>2. DOMAIN DownloadOrder = 1..Len(DownloadOrder)
      BY <2>1
    <2>3. QED
      BY <2>1, <2>2 DEF IsInjective
  <1>2. N = [n \in DOMAIN F |-> FreshRow(F[n], a, read)]
    BY DEF FreshRows, FreshOnes, Fresh
  <1> HIDE DEF new, N
  <1>3. F \in Seq(Downloads) /\ \A i \in 1..Len(F) : F[i] \in new
    <2>1. F \in Seq(Downloads)
      BY <1>1, AmongProperties
    <2>2. ToSet(F) = ToSet(DownloadOrder) \cap new
      BY <1>1, AmongSet
    <2> HIDE DEF F
    <2>3. \A i \in 1..Len(F) : F[i] \in ToSet(F)
      BY <2>1, ListSet
    <2>4. QED
      BY <2>1, <2>2, <2>3
  <1>4. \A i, j \in 1..Len(F) : F[i] = F[j] => i = j
    BY <1>1, AmongInjective
  <1> HIDE DEF F
  <1>5. DOMAIN F = 1..Len(F) /\ Len(F) \in Nat
    BY <1>3
  <1>6. \A d \in new : FreshRow(d, a, read) \in Row /\ FreshRow(d, a, read).download = d
    BY FreshIs DEF new
  <1>7. N \in Seq(Row) /\ Len(N) = Len(F) /\ \A n \in 1..Len(F) : N[n] = FreshRow(F[n], a, read)
    <2>1. N \in [1..Len(F) -> Row]
      BY <1>2, <1>3, <1>5, <1>6
    <2>2. QED
      BY <1>2, <1>5, <2>1
  <1>8. OneRowEach(N)
    BY <1>3, <1>4, <1>6, <1>7 DEF OneRowEach
  <1>9. ASSUME NEW v \in ToSet(N) PROVE \E d \in new : v = FreshRow(d, a, read)
    <2>1. PICK n \in 1..Len(N) : v = N[n]
      BY <1>7, <1>9, ListMember
    <2>2. QED
      BY <1>3, <1>7, <2>1
  <1>10. QED
    BY <1>7, <1>8, <1>9 DEF N, new

\* What a strike shows of the download.
Shows(d) ==
    /\ \E r \in Queued(d) : Classify(r, run.history) # "healthy"
    /\ d \notin run.ignored \cup run.categories /\ Queued(d) \cap TitleIgnored = {}

\* The ledger after an app: each row is as it was or was struck by this read;
\* with no history the failed_download rows are as they were.
LEMMA StrikeRows ==
    ASSUME IInv, NEW a, NEW read \in Reads(a)
    PROVE  LET out == StrikeApp(a, read) IN
           /\ out.rows \in Seq(Row) /\ OneRowEach(out.rows)
           /\ \A d \in out.struck : d \in Of(a) /\ d \in Downloads /\ Shows(d)
           /\ \A v \in ToSet(out.rows) : v.download \notin out.struck => v \in ToSet(strikes)
           /\ \A v \in ToSet(out.rows) : v.download \in out.struck =>
                /\ Points(v)
                /\ \/ v.strikes = 1
                   \/ \E w \in ToSet(strikes) : w.download = v.download
                                                /\ v.strikes = Least(w.strikes + 1, StrikeTop)
           /\ read.complete => \A v \in ToSet(out.rows) :
                v.download \in Of(a) /\ v.download \notin out.struck => ~Cleared(v, KeepNow(a, read), run.history)
           /\ ~HistoryKnown(run.history) =>
                \A w \in ToSet(strikes) : w.reason = "failed_download" => w \in ToSet(out.rows)
  <1> DEFINE out == StrikeApp(a, read)
             A == AgainRows(a, read)
             F == FreshRows(a, read)
             S == StruckNow(a, read)
             gone(w) == Cleared(w, KeepNow(a, read), run.history)
  <1>1. strikes \in Seq(Row) /\ OneRowEach(strikes) /\ \A w \in ToSet(strikes) : w \in Row
    <2>1. strikes \in Seq(Row) /\ OneRowEach(strikes)
      BY DEF IInv, Types, Ledgers
    <2>2. QED
      BY <2>1, ListSet
  <1>2. CASE ~read.complete
    <2>1. out.struck = {} /\ out.rows = strikes
      BY <1>2, StrikeAppIs
    <2> HIDE DEF out
    <2>2. QED
      BY <1>1, <1>2, <2>1 DEF out
  <1>3. CASE read.complete
    <2>1. out.struck = S /\ out.rows = A \o F
      BY <1>3, StrikeAppIs
    <2>2. /\ A \in Seq(Row) /\ OneRowEach(A)
          /\ \A v \in ToSet(A) : \E w \in ToSet(strikes) :
                v = Again(w, a, read) /\ (AppOf[w.download] # a \/ ~gone(w))
          /\ \A w \in ToSet(strikes) : AppOf[w.download] # a \/ ~gone(w) => Again(w, a, read) \in ToSet(A)
      BY <1>3, AgainRowsAre
    <2>3. /\ F \in Seq(Row) /\ OneRowEach(F)
          /\ \A v \in ToSet(F) : \E d \in S \ Struck : v = FreshRow(d, a, read)
      BY <1>3, FreshRowsAre
    <2>4. \A d \in S : d \in Of(a) /\ d \in Downloads /\ Shows(d) /\ d \notin HeldNow(a, read)
      <3> SUFFICES ASSUME NEW d \in StruckNow(a, read)
                   PROVE  d \in Of(a) /\ d \in Downloads /\ Shows(d) /\ d \notin HeldNow(a, read)
        OBVIOUS
      <3> QED BY <1>3, StruckShows DEF Shows
    <2>5. \A w \in Row : LET v == Again(w, a, read) IN
             /\ v.download = w.download
             /\ w.download \notin S => v = w
             /\ w.download \in S => Points(v) /\ v.strikes = Least(w.strikes + 1, StrikeTop)
      BY <1>3, AgainIs
    <2>6. \A d \in S : LET v == FreshRow(d, a, read) IN v.download = d /\ Points(v) /\ v.strikes = 1
      BY <1>3, FreshIs
    <2>7. \A w \in ToSet(strikes) : w.download \in Struck
      <3> SUFFICES ASSUME NEW w \in ToSet(strikes) PROVE w.download \in Struck
        OBVIOUS
      <3>1. PICK n \in 1..Len(strikes) : w = strikes[n]
        BY <1>1, ListMember
      <3>2. n \in DOMAIN strikes
        BY <1>1
      <3>3. QED
        BY <3>1, <3>2 DEF Struck
    <2>8. \A d \in Downloads : d \in Of(a) <=> AppOf[d] = a
      BY DEF Of
    <2>9. \A w \in Row : w.download \in Downloads
      BY RowTyped
    <2>10. ToSet(A \o F) = ToSet(A) \cup ToSet(F) /\ A \o F \in Seq(Row)
      BY <2>2, <2>3, Joined
    <2> HIDE DEF out, A, F, S, gone
    <2>11. OneRowEach(A \o F)
      <3>1. \A v \in ToSet(A) : v.download \in Struck
        BY <1>1, <2>2, <2>5, <2>7
      <3>2. \A v \in ToSet(F) : v.download \notin Struck
        BY <2>3, <2>6
      <3>3. QED
        BY <2>2, <2>3, <3>1, <3>2, JoinedRows
    <2>12. ASSUME NEW v \in ToSet(A \o F), v.download \notin S
           PROVE  v \in ToSet(strikes) /\ (v.download \in Of(a) => ~gone(v))
      <3>1. v \in ToSet(A)
        BY <2>3, <2>6, <2>10, <2>12
      <3>2. PICK w \in ToSet(strikes) : v = Again(w, a, read) /\ (AppOf[w.download] # a \/ ~gone(w))
        BY <2>2, <3>1
      <3>3. v = w
        BY <1>1, <2>5, <2>12, <3>2
      <3>4. QED
        BY <1>1, <2>8, <2>9, <3>2, <3>3
    <2>13. ASSUME NEW v \in ToSet(A \o F), v.download \in S
           PROVE  /\ Points(v)
                  /\ \/ v.strikes = 1
                     \/ \E w \in ToSet(strikes) : w.download = v.download
                                                  /\ v.strikes = Least(w.strikes + 1, StrikeTop)
      <3>1. CASE v \in ToSet(F)
        BY <2>3, <2>6, <3>1
      <3>2. CASE v \in ToSet(A)
        <4>1. PICK w \in ToSet(strikes) : v = Again(w, a, read)
          BY <2>2, <3>2
        <4>2. v.download = w.download
          BY <1>1, <2>5, <4>1
        <4>3. QED
          BY <1>1, <2>5, <2>13, <4>1, <4>2
      <3>3. QED
        BY <2>10, <2>13, <3>1, <3>2
    <2>14. ASSUME ~HistoryKnown(run.history), NEW w \in ToSet(strikes), w.reason = "failed_download"
           PROVE  w \in ToSet(A \o F)
      <3>1. w.download \notin S
        <4>1. SUFFICES ASSUME w.download \in S PROVE FALSE
          OBVIOUS
        <4>2. w.download \in Struck /\ AppOf[w.download] = a
          BY <1>1, <2>4, <2>7, <2>8, <4>1
        <4>3. RowOf(w.download) = w
          <5>1. PICK n \in DOMAIN strikes : w = strikes[n]
            BY DEF ToSet
          <5> DEFINE m == CHOOSE i \in DOMAIN strikes : strikes[i].download = w.download
          <5>2. m \in DOMAIN strikes /\ strikes[m].download = w.download
            BY <5>1
          <5>3. DOMAIN strikes = 1..Len(strikes)
            BY <1>1
          <5>4. RowOf(w.download) = strikes[m]
            BY DEF RowOf
          <5> HIDE DEF m
          <5>5. m = n
            BY <1>1, <5>1, <5>2, <5>3 DEF OneRowEach
          <5>6. QED
            BY <5>1, <5>4, <5>5
        <4>4. w.download \in OutageHeld(a, run.history)
          BY <2>14, <4>2, <4>3 DEF OutageHeld
        <4>5. w.download \in HeldNow(a, read)
          BY <4>4 DEF HeldNow, HeldIds
        <4>6. QED
          BY <2>4, <4>1, <4>5
      <3>2. ~gone(w)
        BY <2>14 DEF gone, Cleared
      <3>3. Again(w, a, read) = w
        BY <1>1, <2>5, <3>1
      <3>4. Again(w, a, read) \in ToSet(A)
        BY <2>2, <3>2
      <3>5. QED
        BY <2>10, <3>3, <3>4
    <2>15. \A v \in ToSet(out.rows) : v.download \in Of(a) /\ v.download \notin out.struck => ~gone(v)
      BY <2>1, <2>12
    <2>16. QED
      <3>1. out.rows \in Seq(Row) /\ OneRowEach(out.rows) /\ \A d \in out.struck : d \in Of(a) /\ d \in Downloads /\ Shows(d)
        BY <2>1, <2>4, <2>10, <2>11
      <3>2. \A v \in ToSet(out.rows) : v.download \notin out.struck => v \in ToSet(strikes)
        BY <2>1, <2>12
      <3>3. \A v \in ToSet(out.rows) : v.download \in out.struck =>
                /\ Points(v)
                /\ \/ v.strikes = 1
                   \/ \E w \in ToSet(strikes) : w.download = v.download
                                                /\ v.strikes = Least(w.strikes + 1, StrikeTop)
        BY <2>1, <2>13
      <3>4. ~HistoryKnown(run.history) =>
                \A w \in ToSet(strikes) : w.reason = "failed_download" => w \in ToSet(out.rows)
        BY <2>1, <2>14
      <3>5. QED
        BY <2>15, <3>1, <3>2, <3>3, <3>4 DEF out, gone
  <1>4. QED
    BY <1>2, <1>3
-----------------------------------------------------------------------------
(***************************************************************************)
(* The places of a run                                                     *)
(***************************************************************************)

LEMMA RunTyped ==
    \A r \in RunType :
        /\ r.at \in {"idle", "sab", "app", "remove"} /\ r.apps \in Seq(Apps) /\ r.history \in Histories
        /\ r.ignored \in SUBSET Downloads /\ r.categories \in SUBSET Downloads /\ r.dry \in BOOLEAN
        /\ r.struck \in SUBSET Downloads /\ r.due \in Seq(Row) /\ r.left \in SUBSET Downloads /\ r.calls \in Nat
  BY DEF RunType

LEMMA IdleIs ==
    /\ Idle \in RunType /\ OneRowEach(Idle.due) /\ Idle.at = "idle"
    /\ Idle.due = <<>> /\ Idle.calls = 0 /\ Idle.struck = {}
  <1> DEFINE none == <<>>
  <1>1. none \in Seq(Apps) /\ none \in Seq(Row) /\ OneRowEach(none)
    BY RowTyped
  <1>2. Unknown \in Histories
    BY DEF Unknown, Histories
  <1>3. Idle = [at |-> "idle", apps |-> none, history |-> Unknown, ignored |-> {}, categories |-> {},
                dry |-> FALSE, struck |-> {}, due |-> none, left |-> {}, calls |-> 0]
    BY DEF Idle
  <1> HIDE DEF none
  <1>4. Idle \in RunType
    BY <1>1, <1>2, <1>3 DEF RunType
  <1>5. Idle.due = none /\ Idle.at = "idle" /\ Idle.calls = 0 /\ Idle.struck = {}
    BY <1>3
  <1>6. QED
    BY <1>1, <1>4, <1>5 DEF none

\* What is chosen for removal.
LEMMA Selected ==
    ASSUME NEW rows \in Seq(Row), OneRowEach(rows), NEW struck, NEW dry \in BOOLEAN
    PROVE  LET due == Select(rows, struck, dry) IN
           /\ due \in Seq(Row) /\ OneRowEach(due) /\ Len(due) <= Cap
           /\ \A w \in ToSet(due) : /\ w \in ToSet(rows) /\ w.download \in struck
                                    /\ w.strikes >= MaxStrikes /\ (dry => ~w.logged)
  <1> DEFINE good == {w \in ToSet(rows) : w.download \in struck /\ w.strikes >= MaxStrikes /\ ~(dry /\ w.logged)}
             all == Among(rows, good)
             size == Least(Cap, Len(all))
             due == SubSeq(all, 1, size)
  <1>1. Select(rows, struck, dry) = due
    BY DEF Select
  <1>2. \A w \in good : w \in ToSet(rows) /\ w.download \in struck /\ w.strikes >= MaxStrikes /\ (dry => ~w.logged)
    OBVIOUS
  <1> HIDE DEF good
  <1>3. all \in Seq(Row) /\ OneRowEach(all) /\ ToSet(all) = ToSet(rows) \cap good
    BY AmongRows
  <1> HIDE DEF all
  <1>4. size \in Nat /\ size <= Len(all) /\ size <= Cap
    BY <1>3, CleanarrAssumption DEF Least
  <1> HIDE DEF size
  <1>5. /\ due \in Seq(Row) /\ Len(due) = size
        /\ \A k \in 1..size : due[k] = all[k]
        /\ ToSet(due) \subseteq ToSet(all)
    BY <1>3, <1>4, Beginning
  <1> HIDE DEF due
  <1>6. OneRowEach(due)
    <2>1. \A k \in 1..size : k \in 1..Len(all)
      BY <1>3, <1>4
    <2>2. QED
      BY <1>3, <1>5, <2>1 DEF OneRowEach
  <1>7. QED
    BY <1>1, <1>2, <1>3, <1>4, <1>5, <1>6

\* Where a run goes after an app.
LEMMA AfterAppIs ==
    ASSUME NEW r \in RunType, r.at = "app", r.apps # <<>>, NEW rows \in Seq(Row), OneRowEach(rows)
    PROVE  LET q == AfterApp(r, rows) IN
           /\ q \in RunType
           /\ \/ q = Idle
              \/ /\ q.at = "app" /\ q.apps # <<>> /\ q.due = r.due /\ q.calls = r.calls
                 /\ q.struck = r.struck /\ q.ignored = r.ignored /\ q.left = r.left
              \/ /\ q.at = "remove" /\ q.due # <<>> /\ q.due = Select(rows, r.struck, r.dry) /\ q.calls = r.calls
                 /\ q.struck = r.struck /\ q.ignored = r.ignored /\ q.left = r.left /\ q.dry = r.dry
  <1> DEFINE q == AfterApp(r, rows)
  <1>1. CASE Len(r.apps) > 1
    <2> DEFINE t == Tail(r.apps)
    <2>1. r.apps \in Seq(Apps)
      BY RunTyped
    <2>2. t \in Seq(Apps) /\ Len(t) = Len(r.apps) - 1
      BY <2>1, RestOfList
    <2> HIDE DEF t
    <2>3. t # <<>>
      BY <1>1, <2>1, <2>2
    <2>4. q = [r EXCEPT !.apps = t]
      BY <1>1 DEF AfterApp, t
    <2> HIDE DEF q
    <2>5. q \in RunType
      BY <2>2, <2>4 DEF RunType
    <2>6. /\ q.at = "app" /\ q.apps = t /\ q.due = r.due /\ q.calls = r.calls
          /\ q.struck = r.struck /\ q.ignored = r.ignored /\ q.left = r.left
      BY <2>4 DEF RunType
    <2>7. QED
      BY <2>3, <2>5, <2>6 DEF q
  <1>2. CASE ~(Len(r.apps) > 1) /\ Select(rows, r.struck, r.dry) = <<>>
    BY <1>2, IdleIs DEF AfterApp
  <1>3. CASE ~(Len(r.apps) > 1) /\ Select(rows, r.struck, r.dry) # <<>>
    <2> DEFINE due == Select(rows, r.struck, r.dry)
               none == <<>>
    <2>1. r.dry \in BOOLEAN
      BY RunTyped
    <2>2. due \in Seq(Row)
      BY <2>1, Selected
    <2>3. q = [r EXCEPT !.at = "remove", !.apps = none, !.due = due, !.history = Unknown]
      BY <1>3 DEF AfterApp
    <2>4. none \in Seq(Apps) /\ Unknown \in Histories
      BY DEF Unknown, Histories
    <2>5. due # <<>>
      BY <1>3
    <2> HIDE DEF q, due, none
    <2>6. q \in RunType
      BY <2>2, <2>3, <2>4 DEF RunType
    <2>7. /\ q.at = "remove" /\ q.due = due /\ q.calls = r.calls
          /\ q.struck = r.struck /\ q.ignored = r.ignored /\ q.left = r.left /\ q.dry = r.dry
      BY <2>3 DEF RunType
    <2>8. QED
      BY <2>5, <2>6, <2>7 DEF q, due
  <1>4. QED
    BY <1>1, <1>2, <1>3

\* Where it goes after a removal.
LEMMA AfterRowIs ==
    ASSUME NEW d, IInv, run.at = "remove"
    PROVE  LET q == AfterRow(Done(d)) IN
           /\ q \in RunType /\ Target \in ToSet(run.due) /\ Target \in Row /\ OneRowEach(q.due)
           /\ \/ q = Idle
              \/ /\ q.at = "remove" /\ q.due # <<>> /\ q.calls = run.calls + 1 /\ Len(q.due) = Len(run.due) - 1
                 /\ q.struck = run.struck /\ q.ignored = run.ignored /\ q.left = run.left /\ q.dry = run.dry
                 /\ \A w \in ToSet(q.due) : w \in ToSet(run.due) /\ w.download # Target.download
  <1> DEFINE t == Tail(run.due)
             n == run.calls + 1
             done == Done(d)
             q == AfterRow(done)
  <1>1. run \in RunType /\ run.due \in Seq(Row) /\ OneRowEach(run.due) /\ run.due # <<>> /\ run.calls \in Nat
    <2>1. run \in RunType /\ OneRowEach(run.due) /\ run.due # <<>>
      BY DEF IInv, Types, Ledgers, InRun
    <2>2. QED
      BY <2>1, RunTyped
  <1>2. /\ Target \in ToSet(run.due) /\ Target \in Row
        /\ t \in Seq(Row) /\ OneRowEach(t) /\ Len(t) = Len(run.due) - 1
        /\ \A w \in ToSet(t) : w \in ToSet(run.due) /\ w.download # Target.download
    BY <1>1, TailRows DEF Target
  <1>3. n \in Nat /\ n = run.calls + 1
    BY <1>1
  <1>4. done = [run EXCEPT !.due = t, !.calls = n]
    BY DEF Done
  <1> HIDE DEF t, n, done
  <1>5. done \in RunType
    BY <1>1, <1>2, <1>3, <1>4 DEF RunType
  <1>6. /\ done.at = "remove" /\ done.due = t /\ done.calls = n
        /\ done.struck = run.struck /\ done.ignored = run.ignored /\ done.left = run.left /\ done.dry = run.dry
    BY <1>1, <1>4 DEF RunType
  <1>7. q = IF done.due = <<>> THEN Idle ELSE done
    BY DEF AfterRow
  <1> HIDE DEF q
  <1>8. CASE done.due = <<>>
    BY <1>2, <1>7, <1>8, IdleIs DEF q, done
  <1>9. CASE done.due # <<>>
    <2>1. q = done
      BY <1>7, <1>9
    <2>2. OneRowEach(q.due) /\ q.due # <<>> /\ Len(q.due) = Len(run.due) - 1 /\ q.calls = run.calls + 1
      BY <1>2, <1>3, <1>6, <1>9, <2>1
    <2>3. \A w \in ToSet(q.due) : w \in ToSet(run.due) /\ w.download # Target.download
      BY <1>2, <1>6, <2>1
    <2>4. QED
      BY <1>2, <1>5, <1>6, <2>1, <2>2, <2>3 DEF q, done
  <1>10. QED
    BY <1>8, <1>9
-----------------------------------------------------------------------------
(***************************************************************************)
(* The invariant, step by step                                             *)
(***************************************************************************)

Inv == IInv /\ ChoiceInv

LEMMA MoveTyped ==
    ASSUME moves \in [Kinds -> Nat], NEW m \in Kinds, Move(m)
    PROVE  moves' \in [Kinds -> Nat]
  <1>1. moves' = [moves EXCEPT ![m] = moves[m] + 1]
    BY Zenon DEF Move
  <1>2. QED
    BY <1>1

\* A run at no place but "app" and "remove" has nothing to answer for.
LEMMA FreshRun ==
    ASSUME run'.due = <<>>, run'.calls = 0, run'.at \in {"idle", "sab"}, StrikesEarned'
    PROVE  DueEarned' /\ RowsCurrent' /\ CapKept'
  <1>1. ToSet(run'.due) = {} /\ Len(run'.due) = 0
    BY RowTyped
  <1>2. DueEarned'
    BY <1>1 DEF DueEarned
  <1>3. RowsCurrent'
    BY DEF RowsCurrent
  <1>4. CapKept'
    BY <1>1, CleanarrAssumption DEF CapKept
  <1>5. QED
    BY <1>2, <1>3, <1>4

LEMMA InitInv == Init => Inv
  <1> SUFFICES ASSUME Init PROVE Inv
    OBVIOUS
  <1>1. /\ run = Idle /\ strikes = <<>> /\ acked = {} /\ ignored = {} /\ run \in RunType
        /\ run.at = "idle" /\ run.due = <<>> /\ run.calls = 0 /\ run.struck = {} /\ OneRowEach(run.due)
    BY IdleIs DEF Init
  <1>2. state \in [Records -> AllRecordStates] /\ job \in [Downloads -> JobStates]
    BY CleanarrAssumption DEF Init
  <1>3. entry \in [Records -> Nat]
    BY DEF Init
  <1>4. categories \subseteq Downloads /\ dryRun \in BOOLEAN
    BY CleanarrAssumption DEF Init
  <1>5. shown \in [Downloads -> 0..StrikeTop] /\ reported \in [Downloads -> Nat]
    BY CleanarrAssumption DEF Init
  <1>6. moves \in [Kinds -> Nat]
    <2>1. DOMAIN Allowed = Kinds
      BY CleanarrAssumption DEF Kinds
    <2>2. QED
      BY <2>1 DEF Init
  <1>7. Types
    BY <1>1, <1>2, <1>3, <1>4, <1>5, <1>6, RowTyped DEF Types
  <1>8. Ledgers
    BY <1>1, RowTyped DEF Ledgers
  <1>9. InRun
    BY <1>1 DEF InRun
  <1>10. AckedIgnored /\ RowsCurrent
    BY <1>1 DEF AckedIgnored, RowsCurrent
  <1>11. StrikesEarned
    BY <1>1 DEF StrikesEarned
  <1>12. DueEarned /\ CapKept
    <2>1. ToSet(run.due) = {} /\ Len(run.due) = 0
      BY <1>1, RowTyped
    <2>2. QED
      BY <1>1, <2>1, CleanarrAssumption DEF DueEarned, CapKept
  <1>13. QED
    BY <1>7, <1>8, <1>9, <1>10, <1>11, <1>12 DEF Inv, IInv, ChoiceInv

LEMMA StartStep == ASSUME Inv, Start PROVE Inv'
  <1> DEFINE q == [Idle EXCEPT !.at = "sab", !.apps = AppOrder, !.ignored = ignored,
                               !.categories = categories, !.dry = dryRun]
  <1>1. IInv /\ ChoiceInv /\ Types /\ Ledgers
    BY DEF Inv, IInv
  <1>2. /\ run' = q /\ UNCHANGED <<state, entry, job, ignored, categories, dryRun, acked, strikes, shown, reported, moves>>
    BY DEF Start, world, settings, ghosts
  <1>3. /\ ignored \in SUBSET Downloads /\ categories \in SUBSET Downloads /\ dryRun \in BOOLEAN
    BY <1>1 DEF Types
  <1>4. AppOrder \in Seq(Apps) /\ AppOrder # <<>>
    BY CleanarrAssumption
  <1>5. q \in RunType
    BY <1>3, <1>4, IdleIs DEF RunType
  <1>6. /\ q.at = "sab" /\ q.apps = AppOrder /\ q.ignored = ignored
        /\ q.due = <<>> /\ q.calls = 0 /\ q.struck = {} /\ OneRowEach(q.due)
    <2>1. /\ q.at = "sab" /\ q.apps = AppOrder /\ q.ignored = ignored
          /\ q.due = Idle.due /\ q.calls = Idle.calls /\ q.struck = Idle.struck
      BY IdleIs DEF RunType
    <2>2. QED
      BY <2>1, IdleIs
  <1> HIDE DEF q
  <1>7. Types'
    BY <1>1, <1>2, <1>5 DEF Types
  <1>8. Ledgers'
    BY <1>1, <1>2, <1>6 DEF Ledgers, OneRowEach
  <1>9. InRun'
    BY <1>2, <1>4, <1>6 DEF InRun
  <1>10. AckedIgnored'
    BY <1>1, <1>2, <1>6 DEF AckedIgnored, ChoiceInv
  <1>11. StrikesEarned'
    BY <1>1, <1>2 DEF StrikesEarned, ChoiceInv
  <1>12. DueEarned' /\ RowsCurrent' /\ CapKept'
    BY <1>2, <1>6, <1>11, FreshRun
  <1>13. QED
    BY <1>7, <1>8, <1>9, <1>10, <1>11, <1>12 DEF Inv, IInv, ChoiceInv

LEMMA LoadSabStep == ASSUME Inv, LoadSab PROVE Inv'
  <1>1. IInv /\ ChoiceInv /\ Types /\ Ledgers /\ InRun /\ run \in RunType /\ moves \in [Kinds -> Nat]
    BY DEF Inv, IInv, Types
  <1>2. UNCHANGED <<state, entry, job, ignored, categories, dryRun, acked, strikes, shown, reported>> /\ run.at = "sab"
    BY DEF LoadSab, world, settings, ghosts
  <1>3. moves' \in [Kinds -> Nat]
    <2>1. CASE UNCHANGED moves
      BY <1>1, <2>1
    <2>2. CASE Move("outage")
      BY <1>1, <2>2, MoveTyped DEF Kinds
    <2>3. QED
      BY <2>1, <2>2 DEF LoadSab
  <1>4. job \in Histories
    BY <1>1 DEF Types, Histories
  <1>5. /\ run' \in RunType /\ run'.at = "app" /\ run'.apps = run.apps /\ run'.ignored = run.ignored
        /\ run'.due = run.due /\ run'.calls = run.calls /\ run'.struck = run.struck
    <2>1. run' = [run EXCEPT !.at = "app", !.history = job] \/ run' = [run EXCEPT !.at = "app"]
      BY DEF LoadSab
    <2>2. CASE run' = [run EXCEPT !.at = "app", !.history = job]
      BY <1>1, <1>4, <2>2 DEF RunType
    <2>3. CASE run' = [run EXCEPT !.at = "app"]
      BY <1>1, <2>3 DEF RunType
    <2>4. QED
      BY <2>1, <2>2, <2>3
  <1>6. run.due = <<>> /\ run.calls = 0 /\ run.struck = {} /\ run.apps # <<>>
    BY <1>1, <1>2 DEF InRun
  <1>7. Types'
    BY <1>1, <1>2, <1>3, <1>5 DEF Types
  <1>8. Ledgers'
    BY <1>1, <1>2, <1>5 DEF Ledgers, OneRowEach
  <1>9. InRun'
    BY <1>5, <1>6 DEF InRun
  <1>10. AckedIgnored'
    BY <1>1, <1>2, <1>5 DEF AckedIgnored, ChoiceInv
  <1>11. StrikesEarned' /\ DueEarned' /\ CapKept'
    BY <1>1, <1>2, <1>5 DEF StrikesEarned, DueEarned, CapKept, ChoiceInv
  <1>12. RowsCurrent'
    BY <1>5, <1>6 DEF RowsCurrent
  <1>13. QED
    BY <1>7, <1>8, <1>9, <1>10, <1>11, <1>12 DEF Inv, IInv, ChoiceInv

\* What a run has to answer for after an app, whatever the app struck.
LEMMA AfterAppStep ==
    ASSUME Inv, run.at = "app", NEW r \in RunType, r.at = "app", r.apps # <<>>, r.due = <<>>, r.calls = 0,
           r.ignored = run.ignored, r.left = run.left, r.struck \cap r.ignored = {},
           run' = AfterApp(r, strikes'), strikes' \in Seq(Row), OneRowEach(strikes'),
           UNCHANGED <<state, entry, acked, ignored>>, StrikesEarned',
           \A w \in ToSet(strikes') : w.download \in r.struck => Current(w)
    PROVE  run' \in RunType /\ OneRowEach(run'.due) /\ InRun' /\ AckedIgnored' /\ DueEarned' /\ RowsCurrent' /\ CapKept'
  <1>1. acked \subseteq ignored /\ acked \subseteq run.ignored
    BY DEF Inv, ChoiceInv, AckedIgnored
  <1> DEFINE rows == strikes'
             q == AfterApp(r, rows)
  <1>2. /\ q \in RunType
        /\ \/ q = Idle
           \/ /\ q.at = "app" /\ q.apps # <<>> /\ q.due = r.due /\ q.calls = r.calls
              /\ q.struck = r.struck /\ q.ignored = r.ignored /\ q.left = r.left
           \/ /\ q.at = "remove" /\ q.due # <<>> /\ q.due = Select(rows, r.struck, r.dry) /\ q.calls = r.calls
              /\ q.struck = r.struck /\ q.ignored = r.ignored /\ q.left = r.left /\ q.dry = r.dry
    BY AfterAppIs
  <1>3. run' = q
    OBVIOUS
  <1>4. rows \in Seq(Row) /\ OneRowEach(rows) /\ \A w \in ToSet(rows) : w.download \in r.struck => Current(w)
    OBVIOUS
  <1>5. \A w \in ToSet(rows) : w.strikes <= shown'[w.download]
    <2> SUFFICES ASSUME NEW w \in ToSet(rows) PROVE w.strikes <= shown'[w.download]
      OBVIOUS
    <2>1. PICK n \in 1..Len(rows) : w = rows[n]
      BY <1>4, ListMember
    <2>2. DOMAIN rows = 1..Len(rows)
      BY <1>4
    <2>3. \A m \in DOMAIN rows : rows[m].strikes <= shown'[rows[m].download]
      BY DEF StrikesEarned
    <2>4. QED
      BY <2>1, <2>2, <2>3
  <1>6. \A w : Current(w)' <=> DownloadOf[w.record] = w.download /\ (InQueue(w) \/ w.download \in run'.left)
    BY DEF Current, InQueue
  <1> HIDE DEF q
  <1>7. CASE q = Idle
    <2>1. /\ run' \in RunType /\ OneRowEach(run'.due) /\ run'.at = "idle" /\ run'.due = <<>> /\ run'.calls = 0
          /\ run'.struck = {}
      BY <1>3, <1>7, IdleIs
    <2>2. InRun' /\ AckedIgnored'
      BY <1>1, <2>1 DEF InRun, AckedIgnored
    <2>3. DueEarned' /\ RowsCurrent' /\ CapKept'
      BY <2>1, FreshRun
    <2>4. QED
      BY <2>1, <2>2, <2>3
  <1>8. CASE /\ q.at = "app" /\ q.apps # <<>> /\ q.due = r.due /\ q.calls = r.calls
             /\ q.struck = r.struck /\ q.ignored = r.ignored /\ q.left = r.left
    <2>1. InRun' /\ AckedIgnored'
      BY <1>1, <1>3, <1>8 DEF InRun, AckedIgnored
    <2>2. ToSet(run'.due) = {} /\ Len(run'.due) = 0 /\ OneRowEach(run'.due)
      BY <1>3, <1>8, RowTyped
    <2>3. DueEarned'
      BY <2>2 DEF DueEarned
    <2>4. CapKept'
      BY <1>3, <1>8, <2>2, CleanarrAssumption DEF CapKept
    <2>5. RowsCurrent'
      BY <1>3, <1>4, <1>6, <1>8 DEF RowsCurrent, Current
    <2>6. QED
      BY <1>2, <1>3, <2>1, <2>2, <2>3, <2>4, <2>5
  <1>9. CASE /\ q.at = "remove" /\ q.due # <<>> /\ q.due = Select(rows, r.struck, r.dry) /\ q.calls = r.calls
             /\ q.struck = r.struck /\ q.ignored = r.ignored /\ q.left = r.left /\ q.dry = r.dry
    <2>1. r.dry \in BOOLEAN
      BY RunTyped
    <2>2. /\ q.due \in Seq(Row) /\ OneRowEach(q.due) /\ Len(q.due) <= Cap
          /\ \A w \in ToSet(q.due) : w \in ToSet(rows) /\ w.download \in r.struck /\ w.strikes >= MaxStrikes
      BY <1>4, <1>9, <2>1, Selected
    <2>3. InRun' /\ AckedIgnored'
      BY <1>1, <1>3, <1>9 DEF InRun, AckedIgnored
    <2>4. DueEarned'
      BY <1>3, <1>5, <1>9, <2>2 DEF DueEarned
    <2>5. CapKept'
      BY <1>3, <1>9, <2>2, CleanarrAssumption DEF CapKept
    <2>6. RowsCurrent'
      BY <1>3, <1>4, <1>6, <1>9, <2>2 DEF RowsCurrent, Current
    <2>7. QED
      BY <1>2, <1>3, <2>2, <2>3, <2>4, <2>5, <2>6
  <1>10. QED
    BY <1>2, <1>7, <1>8, <1>9

LEMMA SkipAppStep == ASSUME Inv, SkipApp PROVE Inv'
  <1>1. IInv /\ ChoiceInv /\ Types /\ Ledgers /\ InRun /\ run \in RunType /\ moves \in [Kinds -> Nat]
    BY DEF Inv, IInv, Types
  <1>2. /\ UNCHANGED <<state, entry, job, ignored, categories, dryRun, acked, strikes, shown, reported>>
        /\ run.at = "app" /\ run' = AfterApp(run, strikes) /\ Move("skip")
    BY DEF SkipApp, world, settings, ghosts
  <1>3. moves' \in [Kinds -> Nat]
    BY <1>1, <1>2, MoveTyped DEF Kinds
  <1>4. strikes \in Seq(Row) /\ OneRowEach(strikes) /\ StrikesEarned
    BY <1>1 DEF Types, Ledgers, ChoiceInv
  <1>5. run.apps # <<>> /\ run.due = <<>> /\ run.calls = 0 /\ run.struck \cap run.ignored = {}
        /\ \A w \in ToSet(strikes) : w.download \in run.struck => Current(w)
    BY <1>1, <1>2 DEF InRun, ChoiceInv, AckedIgnored, RowsCurrent
  <1>6. StrikesEarned'
    BY <1>2, <1>4 DEF StrikesEarned
  <1>7. strikes' = strikes
    BY <1>2
  <1>8. run' = AfterApp(run, strikes') /\ strikes' \in Seq(Row) /\ OneRowEach(strikes')
        /\ \A w \in ToSet(strikes') : w.download \in run.struck => Current(w)
    BY <1>2, <1>4, <1>5, <1>7
  <1>9. run' \in RunType /\ OneRowEach(run'.due) /\ InRun' /\ AckedIgnored' /\ DueEarned' /\ RowsCurrent' /\ CapKept'
    BY <1>1, <1>2, <1>5, <1>6, <1>8, AfterAppStep
  <1>10. Types'
    BY <1>1, <1>2, <1>3, <1>9 DEF Types
  <1>11. Ledgers'
    BY <1>2, <1>4, <1>9 DEF Ledgers, OneRowEach
  <1>12. QED
    BY <1>6, <1>9, <1>10, <1>11 DEF Inv, IInv, ChoiceInv

\* One app's step in its parts.
LEMMA RunAppParts ==
    ASSUME Inv, RunApp
    PROVE  \E read \in Reads(Head(run.apps)) :
              LET a   == Head(run.apps)
                  out == StrikeApp(a, read) IN
              /\ run.at = "app" /\ strikes' = out.rows /\ moves' \in [Kinds -> Nat]
              /\ run' = AfterApp([run EXCEPT !.struck = run.struck \cup out.struck], strikes')
              /\ reported' = [d \in Downloads |->
                    IF d \in {strikes'[n].download : n \in DOMAIN strikes'} THEN reported[d] ELSE 0]
              /\ Looks(a, read, read \in QueueReads(a).whole)
              /\ UNCHANGED <<state, entry, job, ignored, categories, dryRun, acked>>
  <1> DEFINE a == Head(run.apps)
             struck(read) == StrikeApp(a, read).struck
             rows(read)   == StrikeApp(a, read).rows
  <1>1. PICK read \in QueueReads(a).whole \cup QueueReads(a).broken :
          /\ IF read \in QueueReads(a).whole THEN UNCHANGED moves ELSE Move("defect")
          /\ strikes' = rows(read)
          /\ run' = AfterApp([run EXCEPT !.struck = @ \cup struck(read)], rows(read))
          /\ reported' = [d \in Downloads |->
                IF d \in {rows(read)[n].download : n \in DOMAIN rows(read)} THEN reported[d] ELSE 0]
          /\ Looks(a, read, read \in QueueReads(a).whole)
    BY Zenon DEF RunApp
  <1>2. moves \in [Kinds -> Nat]
    BY DEF Inv, IInv, Types
  <1>3. moves' \in [Kinds -> Nat]
    <2>1. CASE UNCHANGED moves
      BY <1>2, <2>1
    <2>2. CASE Move("defect")
      BY <1>2, <2>2, MoveTyped DEF Kinds
    <2>3. QED
      BY <1>1, <2>1, <2>2
  <1>4. run.at = "app" /\ UNCHANGED <<state, entry, job, ignored, categories, dryRun, acked>>
    BY DEF RunApp, world, settings
  <1>5. read \in Reads(a)
    BY DEF Reads
  <1> HIDE DEF struck, rows
  <1>6. run' = AfterApp([run EXCEPT !.struck = run.struck \cup struck(read)], strikes')
    BY <1>1
  <1>7. reported' = [d \in Downloads |->
                IF d \in {strikes'[n].download : n \in DOMAIN strikes'} THEN reported[d] ELSE 0]
    BY <1>1
  <1>8. QED
    BY <1>1, <1>3, <1>4, <1>5, <1>6, <1>7 DEF struck, rows

\* How the downloads looked.
LEMMA LooksIs ==
    ASSUME IInv, NEW a, NEW read, NEW whole, Looks(a, read, whole)
    PROVE  /\ shown' \in [Downloads -> 0..StrikeTop]
           /\ \A d \in Downloads \ Of(a) : shown'[d] = shown[d]
           /\ \A d \in Of(a) :
                LET fails == \E r \in Queued(d) : Classify(r, run.history) # "healthy" IN
                /\ fails => shown'[d] = Least(shown[d] + 1, StrikeTop)
                /\ ~fails /\ whole /\ HistoryKnown(run.history) => shown'[d] = 0
                /\ ~fails /\ ~(whole /\ HistoryKnown(run.history)) => shown'[d] = shown[d]
  <1> DEFINE fails(d) == \E r \in Queued(d) : Classify(r, run.history) # "healthy"
             well     == whole /\ HistoryKnown(run.history)
  <1>1. shown' = [d \in Downloads |-> IF AppOf[d] # a THEN shown[d]
                                      ELSE IF fails(d) THEN Least(shown[d] + 1, StrikeTop)
                                      ELSE IF well THEN 0 ELSE shown[d]]
    BY DEF Looks
  <1>2. shown \in [Downloads -> 0..StrikeTop] /\ StrikeTop \in Nat
    BY CleanarrAssumption DEF IInv, Types
  <1>3. \A d \in Downloads : d \in Of(a) <=> AppOf[d] = a
    BY DEF Of
  <1>4. \A d \in Of(a) : d \in Downloads
    BY DEF Of
  <1> HIDE DEF fails, well
  <1>5. \A d \in Downloads : Least(shown[d] + 1, StrikeTop) \in 0..StrikeTop
    BY <1>2 DEF Least
  <1>6. shown' \in [Downloads -> 0..StrikeTop]
    BY <1>1, <1>2, <1>5
  <1>7. \A d \in Downloads \ Of(a) : shown'[d] = shown[d]
    BY <1>1, <1>3
  <1>8. \A d \in Of(a) : /\ fails(d) => shown'[d] = Least(shown[d] + 1, StrikeTop)
                         /\ ~fails(d) /\ well => shown'[d] = 0
                         /\ ~fails(d) /\ ~well => shown'[d] = shown[d]
    BY <1>1, <1>3, <1>4
  <1>9. QED
    BY <1>6, <1>7, <1>8 DEF fails, well

\* On a whole read with the history known, a row that was not struck and stays
\* is of a download that fails.
LEMMA StaysFailing ==
    ASSUME Inv, NEW a, NEW read \in QueueReads(a).whole, HistoryKnown(run.history),
           NEW v, v.download \in Of(a), v.download \notin StruckNow(a, read),
           ~Cleared(v, KeepNow(a, read), run.history)
    PROVE  \E r \in Queued(v.download) : Classify(r, run.history) # "healthy"
  <1> DEFINE d == v.download
             D == Decide(d, read, run.history, HeldNow(a, read))
  <1>1. d \in KeepNow(a, read)
    BY DEF Cleared
  <1>2. Mine(d, read) = Queued(d) /\ read.folders = {}
    BY WholeRead
  <1>3. d \notin HeldNow(a, read)
    <2>1. ReadHeld(a, read) = {}
      BY <1>2 DEF ReadHeld
    <2>2. DepartedHeld(a, read) = {}
      BY <1>2 DEF DepartedHeld
    <2>3. OutageHeld(a, run.history) = {}
      BY DEF OutageHeld
    <2>4. QED
      BY <2>1, <2>2, <2>3 DEF HeldNow, HeldIds
  <1>4. DecideNow(a, read)[d].failing
    BY <1>1, <1>3 DEF KeepNow
  <1>5. DecideNow(a, read)[d] = D
    BY DEF DecideNow
  <1>6. D.failing => \E r \in Mine(d, read) : Classify(r, run.history) # "healthy"
    BY Decided
  <1> HIDE DEF D
  <1>7. QED
    BY <1>2, <1>4, <1>5, <1>6

\* After an app no row has more strikes than its download earned.
LEMMA StrikesStayEarned ==
    ASSUME Inv, NEW a, NEW read \in Reads(a), Looks(a, read, read \in QueueReads(a).whole),
           strikes' = StrikeApp(a, read).rows
    PROVE  StrikesEarned'
  <1> DEFINE out == StrikeApp(a, read)
             rows == strikes'
             fails(d) == \E r \in Queued(d) : Classify(r, run.history) # "healthy"
             whole == read \in QueueReads(a).whole
             known == HistoryKnown(run.history)
             gone(v) == Cleared(v, KeepNow(a, read), run.history)
  <1>1. IInv /\ strikes \in Seq(Row) /\ shown \in [Downloads -> 0..StrikeTop] /\ StrikeTop \in Nat /\ StrikeTop >= 1
    <2>1. IInv /\ strikes \in Seq(Row) /\ shown \in [Downloads -> 0..StrikeTop]
      BY DEF Inv, IInv, Types
    <2>2. StrikeTop \in Nat /\ MaxStrikes \in Nat /\ MaxStrikes < StrikeTop
      BY CleanarrAssumption
    <2>3. QED
      BY <2>1, <2>2
  <1>2. \A w \in ToSet(strikes) : w \in Row /\ w.strikes <= shown[w.download]
    <2> SUFFICES ASSUME NEW w \in ToSet(strikes) PROVE w \in Row /\ w.strikes <= shown[w.download]
      OBVIOUS
    <2>1. PICK n \in 1..Len(strikes) : w = strikes[n]
      BY <1>1, ListMember
    <2>2. n \in DOMAIN strikes /\ strikes[n] \in Row
      BY <1>1
    <2>3. QED
      BY <2>1, <2>2 DEF Inv, ChoiceInv, StrikesEarned
  <1>3. /\ \A d \in Downloads \ Of(a) : shown'[d] = shown[d]
        /\ \A d \in Of(a) : /\ fails(d) => shown'[d] = Least(shown[d] + 1, StrikeTop)
                            /\ ~fails(d) /\ whole /\ known => shown'[d] = 0
                            /\ ~fails(d) /\ ~(whole /\ known) => shown'[d] = shown[d]
    <2>1. IInv /\ Looks(a, read, whole)
      BY <1>1
    <2> HIDE DEF whole
    <2>2. QED
      BY <2>1, LooksIs
  <1>4. rows = out.rows
    OBVIOUS
  <1>5. /\ rows \in Seq(Row)
        /\ \A d \in out.struck : d \in Of(a) /\ d \in Downloads /\ fails(d)
        /\ \A v \in ToSet(rows) : v.download \notin out.struck => v \in ToSet(strikes)
        /\ \A v \in ToSet(rows) : v.download \in out.struck =>
             \/ v.strikes = 1
             \/ \E w \in ToSet(strikes) : w.download = v.download /\ v.strikes = Least(w.strikes + 1, StrikeTop)
        /\ read.complete => \A v \in ToSet(rows) : v.download \in Of(a) /\ v.download \notin out.struck => ~gone(v)
    <2>1. /\ out.rows \in Seq(Row)
          /\ \A d \in out.struck : d \in Of(a) /\ d \in Downloads /\ Shows(d)
      BY <1>1, StrikeRows
    <2>2. \A v \in ToSet(out.rows) : v.download \notin out.struck => v \in ToSet(strikes)
      BY <1>1, StrikeRows
    <2>3. \A v \in ToSet(out.rows) : v.download \in out.struck =>
             \/ v.strikes = 1
             \/ \E w \in ToSet(strikes) : w.download = v.download /\ v.strikes = Least(w.strikes + 1, StrikeTop)
      BY <1>1, StrikeRows
    <2>4. read.complete => \A v \in ToSet(out.rows) : v.download \in Of(a) /\ v.download \notin out.struck => ~gone(v)
      BY <1>1, StrikeRows
    <2>5. \A d : Shows(d) => fails(d)
      BY DEF Shows
    <2> HIDE DEF out, rows, fails, gone
    <2>6. QED
      BY <1>4, <2>1, <2>2, <2>3, <2>4, <2>5
  <1>6. \A d \in Downloads : shown[d] \in Nat /\ shown[d] <= StrikeTop
    BY <1>1
  <1>7. \A w \in Row : w.download \in Downloads /\ w.strikes \in Nat
    BY RowTyped
  <1>8. ASSUME whole, known, NEW v \in ToSet(rows), v.download \in Of(a), v.download \notin out.struck
        PROVE  fails(v.download)
    <2>1. read.complete
      BY <1>8, WholeRead
    <2>2. out.struck = StruckNow(a, read)
      BY <2>1, StrikeAppIs
    <2>3. ~gone(v)
      BY <1>5, <1>8, <2>1
    <2>4. QED
      BY <1>8, <2>2, <2>3, StaysFailing
  <1> HIDE DEF out, fails, whole, known, gone
  <1>9. ASSUME NEW v \in ToSet(rows) PROVE v.strikes <= shown'[v.download]
    <2>1. v \in Row /\ v.download \in Downloads /\ v.strikes \in Nat
      BY <1>5, <1>7, ListSet
    <2>2. CASE v.download \in out.struck
      <3>1. v.download \in Of(a) /\ shown'[v.download] = Least(shown[v.download] + 1, StrikeTop)
        BY <1>3, <1>5, <2>2
      <3>2. CASE v.strikes = 1
        BY <1>1, <1>6, <2>1, <3>1, <3>2 DEF Least
      <3>3. CASE \E w \in ToSet(strikes) : w.download = v.download /\ v.strikes = Least(w.strikes + 1, StrikeTop)
        <4>1. PICK w \in ToSet(strikes) : w.download = v.download /\ v.strikes = Least(w.strikes + 1, StrikeTop)
          BY <3>3
        <4>2. w.strikes \in Nat /\ w.strikes <= shown[v.download] /\ shown[v.download] \in Nat
          BY <1>2, <1>6, <1>7, <2>1, <4>1
        <4>3. Least(w.strikes + 1, StrikeTop) <= Least(shown[v.download] + 1, StrikeTop)
          BY <1>1, <4>2 DEF Least
        <4>4. QED
          BY <3>1, <4>1, <4>3
      <3>4. QED
        BY <1>5, <2>2, <3>2, <3>3
    <2>3. CASE v.download \notin out.struck
      <3>1. v.strikes <= shown[v.download] /\ shown[v.download] \in Nat /\ shown[v.download] <= StrikeTop
        BY <1>2, <1>5, <1>6, <2>1, <2>3
      <3>2. CASE v.download \notin Of(a)
        BY <1>3, <2>1, <3>1, <3>2
      <3>3. CASE v.download \in Of(a) /\ fails(v.download)
        <4>1. shown'[v.download] = Least(shown[v.download] + 1, StrikeTop)
          BY <1>3, <3>3
        <4>2. Least(shown[v.download] + 1, StrikeTop) >= shown[v.download]
          BY <1>1, <3>1 DEF Least
        <4>3. QED
          BY <1>1, <2>1, <3>1, <4>1, <4>2 DEF Least
      <3>4. CASE v.download \in Of(a) /\ ~fails(v.download)
        <4>1. shown'[v.download] = shown[v.download]
          BY <1>3, <1>8, <2>3, <3>4
        <4>2. QED
          BY <3>1, <4>1
      <3>5. QED
        BY <3>2, <3>3, <3>4
    <2>4. QED
      BY <2>2, <2>3
  <1>10. \A n \in 1..Len(rows) : rows[n] \in ToSet(rows)
    BY <1>5, ListSet
  <1>11. DOMAIN rows = 1..Len(rows)
    BY <1>5
  <1>12. \A n \in DOMAIN rows : rows[n].strikes <= shown'[rows[n].download]
    BY <1>9, <1>10, <1>11
  <1>13. QED
    BY <1>12 DEF StrikesEarned

LEMMA RunAppStep == ASSUME Inv, RunApp PROVE Inv'
  <1>1. IInv /\ ChoiceInv /\ Types /\ Ledgers /\ InRun /\ run \in RunType
    BY DEF Inv, IInv, Types
  <1> DEFINE a == Head(run.apps)
             out(read) == StrikeApp(a, read)
  <1>2. PICK read \in Reads(a) :
          /\ run.at = "app" /\ strikes' = out(read).rows /\ moves' \in [Kinds -> Nat]
          /\ run' = AfterApp([run EXCEPT !.struck = run.struck \cup out(read).struck], strikes')
          /\ reported' = [d \in Downloads |->
                IF d \in {strikes'[n].download : n \in DOMAIN strikes'} THEN reported[d] ELSE 0]
          /\ Looks(a, read, read \in QueueReads(a).whole)
          /\ UNCHANGED <<state, entry, job, ignored, categories, dryRun, acked>>
    BY RunAppParts
  <1> DEFINE struck == StrikeApp(a, read).struck
             r == [run EXCEPT !.struck = run.struck \cup struck]
  <1>3. /\ strikes' \in Seq(Row) /\ OneRowEach(strikes')
        /\ \A d \in struck : d \in Of(a) /\ d \in Downloads /\ Shows(d)
        /\ \A v \in ToSet(strikes') : v.download \notin struck => v \in ToSet(strikes)
        /\ \A v \in ToSet(strikes') : v.download \in struck => Points(v)
    <2>1. LET o == StrikeApp(a, read) IN
          /\ o.rows \in Seq(Row) /\ OneRowEach(o.rows)
          /\ \A d \in o.struck : d \in Of(a) /\ d \in Downloads /\ Shows(d)
          /\ \A v \in ToSet(o.rows) : v.download \notin o.struck => v \in ToSet(strikes)
          /\ \A v \in ToSet(o.rows) : v.download \in o.struck => Points(v)
      BY <1>1, StrikeRows
    <2>2. QED
      BY <1>2, <2>1
  <1>4. StrikesEarned'
    BY <1>2, StrikesStayEarned
  <1>5. shown' \in [Downloads -> 0..StrikeTop]
    <2>1. PICK whole : Looks(a, read, whole)
      BY <1>2
    <2>2. QED
      BY <1>1, <2>1, LooksIs
  <1>6. reported' \in [Downloads -> Nat]
    <2>1. reported \in [Downloads -> Nat]
      BY <1>1 DEF Types
    <2>2. QED
      BY <1>2, <2>1
  <1>7. run' = AfterApp(r, strikes')
    BY <1>2
  <1>8. run.struck \in SUBSET Downloads /\ struck \in SUBSET Downloads /\ \A d \in struck : d \notin run.ignored
    <2>1. run.struck \in SUBSET Downloads
      BY <1>1, RunTyped
    <2>2. QED
      BY <1>3, <2>1 DEF Shows
  <1> HIDE DEF struck, a
  <1>9. /\ r \in RunType /\ r.at = "app" /\ r.apps = run.apps /\ r.due = run.due /\ r.calls = run.calls
        /\ r.ignored = run.ignored /\ r.left = run.left /\ r.struck = run.struck \cup struck
    <2> DEFINE both == run.struck \cup struck
    <2>1. both \in SUBSET Downloads /\ r = [run EXCEPT !.struck = both]
      BY <1>8
    <2> HIDE DEF both, r
    <2>2. r \in RunType
      BY <1>1, <2>1 DEF RunType
    <2>3. /\ r.at = "app" /\ r.apps = run.apps /\ r.due = run.due /\ r.calls = run.calls
          /\ r.ignored = run.ignored /\ r.left = run.left /\ r.struck = both
      BY <1>1, <1>2, <2>1 DEF RunType
    <2>4. QED
      BY <2>2, <2>3 DEF both
  <1>10. /\ run.apps # <<>> /\ run.due = <<>> /\ run.calls = 0 /\ run.struck \cap run.ignored = {}
         /\ \A w \in ToSet(strikes) : w.download \in run.struck => Current(w)
    BY <1>1, <1>2 DEF InRun, ChoiceInv, AckedIgnored, RowsCurrent
  <1> HIDE DEF r
  <1>11. \A w \in ToSet(strikes') : w.download \in r.struck => Current(w)
    BY <1>3, <1>9, <1>10 DEF Points, Current
  <1>12. r.struck \cap r.ignored = {}
    BY <1>8, <1>9, <1>10
  <1>13. run' \in RunType /\ OneRowEach(run'.due) /\ InRun' /\ AckedIgnored' /\ DueEarned' /\ RowsCurrent' /\ CapKept'
    BY <1>2, <1>3, <1>4, <1>7, <1>9, <1>10, <1>11, <1>12, AfterAppStep
  <1>14. Types'
    BY <1>1, <1>2, <1>3, <1>5, <1>6, <1>13 DEF Types
  <1>15. Ledgers'
    BY <1>3, <1>13 DEF Ledgers, OneRowEach
  <1>16. QED
    BY <1>4, <1>13, <1>14, <1>15 DEF Inv, IInv, ChoiceInv

\* The queues after a call that may have removed the target: the rows that are
\* left to remove are as current as they were.
LEMMA RemovedIs ==
    ASSUME Types, NEW d \in Downloads, Removed(d)
    PROVE  /\ state' \in [Records -> AllRecordStates] /\ entry' = entry /\ job' \in [Downloads -> JobStates]
           /\ \A w \in Row : w.download # d /\ DownloadOf[w.record] = w.download =>
                (InQueue(w)' <=> InQueue(w))
  <1>1. /\ state' = [r \in Records |-> IF DownloadOf[r] = d THEN "out" ELSE state[r]]
        /\ job' = [job EXCEPT ![d] = "none"] /\ entry' = entry
    BY DEF Removed
  <1>2. state \in [Records -> AllRecordStates] /\ job \in [Downloads -> JobStates]
    BY DEF Types
  <1>3. "out" \in AllRecordStates /\ "none" \in JobStates
    BY DEF AllRecordStates, JobStates
  <1>4. \A w \in Row : w.record \in Records
    BY RowTyped
  <1>5. \A r \in Records : DownloadOf[r] # d => state'[r] = state[r]
    BY <1>1
  <1>6. \A w \in Row : w.download # d /\ DownloadOf[w.record] = w.download => (InQueue(w)' <=> InQueue(w))
    <2> SUFFICES ASSUME NEW w \in Row, w.download # d, DownloadOf[w.record] = w.download
                 PROVE  InQueue(w)' <=> InQueue(w)
      OBVIOUS
    <2>1. state'[w.record] = state[w.record] /\ entry'[w.record] = entry[w.record]
      BY <1>1, <1>4, <1>5
    <2>2. QED
      BY <2>1 DEF InQueue
  <1>7. QED
    BY <1>1, <1>2, <1>3, <1>6

\* What a run has to answer for after a row, when the rows that are left to
\* remove are as current as they were.
LEMMA AfterRowStep ==
    ASSUME Inv, run.at = "remove", NEW d, run' = AfterRow(Done(d)), UNCHANGED <<acked, ignored, shown>>,
           \A w \in ToSet(run.due) : w.download # Target.download => (InQueue(w)' <=> InQueue(w)),
           StrikesEarned'
    PROVE  run' \in RunType /\ OneRowEach(run'.due) /\ InRun' /\ AckedIgnored' /\ DueEarned' /\ RowsCurrent' /\ CapKept'
  <1>1. IInv /\ AckedIgnored /\ DueEarned /\ RowsCurrent /\ CapKept /\ run \in RunType
    BY DEF Inv, ChoiceInv, IInv, Types
  <1> DEFINE q == AfterRow(Done(d))
  <1>2. /\ q \in RunType /\ OneRowEach(q.due)
        /\ \/ q = Idle
           \/ /\ q.at = "remove" /\ q.due # <<>> /\ q.calls = run.calls + 1 /\ Len(q.due) = Len(run.due) - 1
              /\ q.struck = run.struck /\ q.ignored = run.ignored /\ q.left = run.left /\ q.dry = run.dry
              /\ \A w \in ToSet(q.due) : w \in ToSet(run.due) /\ w.download # Target.download
    BY <1>1, AfterRowIs
  <1>3. run' = q
    OBVIOUS
  <1> HIDE DEF q
  <1>4. CASE q = Idle
    <2>1. run'.at = "idle" /\ run'.due = <<>> /\ run'.calls = 0 /\ run'.struck = {}
      BY <1>3, <1>4, IdleIs
    <2>2. InRun' /\ AckedIgnored'
      BY <1>1, <2>1 DEF InRun, AckedIgnored
    <2>3. DueEarned' /\ RowsCurrent' /\ CapKept'
      BY <2>1, FreshRun
    <2>4. QED
      BY <1>2, <1>3, <2>2, <2>3
  <1>5. CASE /\ q.at = "remove" /\ q.due # <<>> /\ q.calls = run.calls + 1 /\ Len(q.due) = Len(run.due) - 1
             /\ q.struck = run.struck /\ q.ignored = run.ignored /\ q.left = run.left /\ q.dry = run.dry
             /\ \A w \in ToSet(q.due) : w \in ToSet(run.due) /\ w.download # Target.download
    <2>1. InRun'
      BY <1>3, <1>5 DEF InRun
    <2>2. AckedIgnored'
      BY <1>1, <1>3, <1>5 DEF AckedIgnored
    <2>3. DueEarned'
      BY <1>1, <1>3, <1>5 DEF DueEarned
    <2>4. CapKept'
      <3>1. run.calls \in Nat /\ Len(run.due) \in Nat
        <4>1. run.calls \in Nat /\ run.due \in Seq(Row)
          BY <1>1, RunTyped
        <4>2. QED
          BY <4>1
      <3>2. run.calls + 1 + (Len(run.due) - 1) <= Cap
        <4>1. Cap \in Nat
          BY CleanarrAssumption
        <4>2. run.calls + Len(run.due) <= Cap
          BY <1>1 DEF CapKept
        <4>3. QED
          BY <3>1, <4>1, <4>2
      <3>3. QED
        BY <1>3, <1>5, <3>2 DEF CapKept
    <2>5. RowsCurrent'
      <3>1. \A w \in ToSet(q.due) : DownloadOf[w.record] = w.download /\ (InQueue(w)' \/ w.download \in run.left)
        BY <1>1, <1>5 DEF RowsCurrent, Current
      <3>2. QED
        BY <1>3, <1>5, <3>1 DEF RowsCurrent, Current, InQueue
    <2>6. QED
      BY <1>2, <1>3, <2>1, <2>2, <2>3, <2>4, <2>5
  <1>6. QED
    BY <1>2, <1>4, <1>5

\* The rows without those of some downloads.
LEMMA WithoutRows ==
    ASSUME NEW rows \in Seq(Row), OneRowEach(rows), NEW ds
    PROVE  /\ Without(rows, ds) \in Seq(Row) /\ OneRowEach(Without(rows, ds))
           /\ \A w : w \in ToSet(Without(rows, ds)) <=> w \in ToSet(rows) /\ w.download \notin ds
  <1> DEFINE S == {w \in ToSet(rows) : w.download \notin ds}
             a == Among(rows, S)
  <1>1. Without(rows, ds) = a
    BY DEF Without
  <1>2. \A w : w \in S <=> w \in ToSet(rows) /\ w.download \notin ds
    OBVIOUS
  <1> HIDE DEF S
  <1>3. a \in Seq(Row) /\ OneRowEach(a) /\ ToSet(a) = ToSet(rows) \cap S
    BY AmongRows
  <1> HIDE DEF a
  <1>4. QED
    BY <1>1, <1>2, <1>3

LEMMA ForgetStep ==
    ASSUME Inv, NEW d, Forget(d), shown' = shown
    PROVE  /\ strikes' \in Seq(Row) /\ OneRowEach(strikes') /\ StrikesEarned'
           /\ reported' \in [Downloads -> Nat]
           /\ \A w \in ToSet(strikes') : w \in ToSet(strikes)
  <1>1. strikes' = Without(strikes, {d}) /\ reported' = [reported EXCEPT ![d] = 0]
    BY DEF Forget
  <1>2. strikes \in Seq(Row) /\ OneRowEach(strikes) /\ reported \in [Downloads -> Nat]
    BY DEF Inv, IInv, Types, Ledgers
  <1>3. /\ strikes' \in Seq(Row) /\ OneRowEach(strikes')
        /\ \A w \in ToSet(strikes') : w \in ToSet(strikes)
    BY <1>1, <1>2, WithoutRows
  <1>4. reported' \in [Downloads -> Nat]
    BY <1>1, <1>2
  <1> DEFINE rows == strikes'
  <1>5. ASSUME NEW n \in DOMAIN rows PROVE rows[n].strikes <= shown[rows[n].download]
    <2>1. rows[n] \in ToSet(rows)
      BY <1>5 DEF ToSet
    <2>2. PICK m \in 1..Len(strikes) : rows[n] = strikes[m]
      BY <1>2, <1>3, <2>1, ListMember
    <2>3. m \in DOMAIN strikes
      BY <1>2
    <2>4. strikes[m].strikes <= shown[strikes[m].download]
      BY <2>3 DEF Inv, ChoiceInv, StrikesEarned
    <2>5. QED
      BY <2>2, <2>4
  <1>6. StrikesEarned'
    BY <1>5 DEF StrikesEarned
  <1>7. QED
    BY <1>3, <1>4, <1>6

LEMMA RemoveOneStep == ASSUME Inv, RemoveOne PROVE Inv'
  <1>1. IInv /\ ChoiceInv /\ Types /\ Ledgers /\ InRun /\ run \in RunType /\ RowsCurrent
    BY DEF Inv, IInv, Types, ChoiceInv
  <1>2. /\ run.at = "remove" /\ run' = AfterRow(Done(Target.download)) /\ Forget(Target.download)
        /\ UNCHANGED <<ignored, categories, dryRun, acked, shown, moves>>
        /\ Removed(Target.download) \/ UNCHANGED <<state, entry, job>>
    BY DEF RemoveOne, settings, world
  <1>3. Target \in Row /\ Target.download \in Downloads /\ \A w \in ToSet(run.due) : w \in Row
    <2>1. Target \in Row /\ run.due \in Seq(Row)
      BY <1>1, <1>2, AfterRowIs, RunTyped
    <2>2. QED
      BY <2>1, RowTyped, ListSet
  <1>4. /\ state' \in [Records -> AllRecordStates] /\ entry' = entry /\ job' \in [Downloads -> JobStates]
        /\ \A w \in ToSet(run.due) : w.download # Target.download => (InQueue(w)' <=> InQueue(w))
    <2>1. \A w \in ToSet(run.due) : DownloadOf[w.record] = w.download
      BY <1>1, <1>2 DEF RowsCurrent, Current
    <2>2. CASE Removed(Target.download)
      BY <1>1, <1>3, <2>1, <2>2, RemovedIs
    <2>3. CASE UNCHANGED <<state, entry, job>>
      BY <1>1, <2>3 DEF Types, InQueue
    <2>4. QED
      BY <1>2, <2>2, <2>3
  <1>5. /\ strikes' \in Seq(Row) /\ OneRowEach(strikes') /\ StrikesEarned' /\ reported' \in [Downloads -> Nat]
    BY <1>2, ForgetStep
  <1>6. run' \in RunType /\ OneRowEach(run'.due) /\ InRun' /\ AckedIgnored' /\ DueEarned' /\ RowsCurrent' /\ CapKept'
    BY <1>2, <1>4, <1>5, AfterRowStep
  <1>7. Types'
    BY <1>1, <1>2, <1>4, <1>5, <1>6 DEF Types
  <1>8. Ledgers'
    BY <1>5, <1>6 DEF Ledgers, OneRowEach
  <1>9. QED
    BY <1>5, <1>6, <1>7, <1>8 DEF Inv, IInv, ChoiceInv

LEMMA RemoveFailsStep == ASSUME Inv, RemoveFails PROVE Inv'
  <1>1. IInv /\ ChoiceInv /\ Types /\ Ledgers /\ InRun /\ run \in RunType /\ RowsCurrent
        /\ moves \in [Kinds -> Nat] /\ StrikesEarned /\ strikes \in Seq(Row) /\ OneRowEach(strikes)
    BY DEF Inv, IInv, Types, ChoiceInv, Ledgers
  <1>2. /\ run.at = "remove" /\ run' = AfterRow(Done(Target.download)) /\ Move("refuse")
        /\ UNCHANGED <<ignored, categories, dryRun, acked, shown, strikes, reported>>
        /\ Removed(Target.download) \/ UNCHANGED <<state, entry, job>>
    BY DEF RemoveFails, settings, world, ghosts
  <1>3. Target \in Row /\ Target.download \in Downloads /\ \A w \in ToSet(run.due) : w \in Row
    <2>1. Target \in Row /\ run.due \in Seq(Row)
      BY <1>1, <1>2, AfterRowIs, RunTyped
    <2>2. QED
      BY <2>1, RowTyped, ListSet
  <1>4. /\ state' \in [Records -> AllRecordStates] /\ entry' = entry /\ job' \in [Downloads -> JobStates]
        /\ \A w \in ToSet(run.due) : w.download # Target.download => (InQueue(w)' <=> InQueue(w))
    <2>1. \A w \in ToSet(run.due) : DownloadOf[w.record] = w.download
      BY <1>1, <1>2 DEF RowsCurrent, Current
    <2>2. CASE Removed(Target.download)
      BY <1>1, <1>3, <2>1, <2>2, RemovedIs
    <2>3. CASE UNCHANGED <<state, entry, job>>
      BY <1>1, <2>3 DEF Types, InQueue
    <2>4. QED
      BY <1>2, <2>2, <2>3
  <1>5. moves' \in [Kinds -> Nat]
    BY <1>1, <1>2, MoveTyped DEF Kinds
  <1>6. StrikesEarned'
    BY <1>1, <1>2 DEF StrikesEarned
  <1>7. run' \in RunType /\ OneRowEach(run'.due) /\ InRun' /\ AckedIgnored' /\ DueEarned' /\ RowsCurrent' /\ CapKept'
    BY <1>2, <1>4, <1>6, AfterRowStep
  <1>8. Types'
    BY <1>1, <1>2, <1>4, <1>5, <1>7 DEF Types
  <1>9. Ledgers'
    BY <1>1, <1>2, <1>7 DEF Ledgers, OneRowEach
  <1>10. QED
    BY <1>6, <1>7, <1>8, <1>9 DEF Inv, IInv, ChoiceInv

LEMMA OneMoreReport ==
    ASSUME NEW f \in [Downloads -> Nat], NEW d
    PROVE  [f EXCEPT ![d] = @ + 1] \in [Downloads -> Nat]
  <1>1. \A x \in Downloads : f[x] \in Nat /\ f[x] + 1 \in Nat
    OBVIOUS
  <1>2. QED
    BY <1>1

\* The rows with the reported one flagged.
LEMMA ReportStep == ASSUME Inv, Report PROVE Inv'
  <1> DEFINE flag(w) == IF w.download = Target.download THEN [w EXCEPT !.logged = TRUE] ELSE w
             rows == [n \in DOMAIN strikes |-> flag(strikes[n])]
  <1>1. IInv /\ ChoiceInv /\ Types /\ Ledgers /\ InRun /\ run \in RunType
        /\ StrikesEarned /\ strikes \in Seq(Row) /\ OneRowEach(strikes)
    BY DEF Inv, IInv, Types, ChoiceInv, Ledgers
  <1>2. /\ run.at = "remove" /\ run' = AfterRow(Done(Target.download))
        /\ reported' = [reported EXCEPT ![Target.download] = @ + 1]
        /\ UNCHANGED <<state, entry, job, ignored, categories, dryRun, acked, shown, moves>>
    BY DEF Report, settings, world
  <1>3. strikes' = rows
    BY DEF Report
  <1>4. \A w \in Row : flag(w) \in Row /\ flag(w).download = w.download /\ flag(w).strikes = w.strikes
    BY DEF Row
  <1> HIDE DEF flag
  <1>5. DOMAIN strikes = 1..Len(strikes) /\ Len(strikes) \in Nat /\ \A n \in 1..Len(strikes) : strikes[n] \in Row
    BY <1>1
  <1>6. strikes' \in Seq(Row) /\ Len(strikes') = Len(strikes) /\ DOMAIN strikes' = 1..Len(strikes)
        /\ \A n \in 1..Len(strikes) : strikes'[n] = flag(strikes[n])
    <2>1. rows \in [1..Len(strikes) -> Row]
      BY <1>4, <1>5
    <2>2. rows \in Seq(Row) /\ Len(rows) = Len(strikes) /\ DOMAIN rows = 1..Len(strikes)
      BY <1>5, <2>1
    <2>3. QED
      BY <1>3, <1>5, <2>2
  <1>7. OneRowEach(strikes')
    <2> DEFINE new == strikes'
    <2>1. \A m, n \in 1..Len(new) : new[m].download = new[n].download => m = n
      BY <1>1, <1>4, <1>5, <1>6 DEF OneRowEach
    <2>2. QED
      BY <2>1 DEF OneRowEach
  <1>8. StrikesEarned'
    BY <1>1, <1>2, <1>4, <1>5, <1>6 DEF StrikesEarned
  <1>9. \A w \in ToSet(run.due) : w.download # Target.download => (InQueue(w)' <=> InQueue(w))
    BY <1>2 DEF InQueue
  <1>10. run' \in RunType /\ OneRowEach(run'.due) /\ InRun' /\ AckedIgnored' /\ DueEarned' /\ RowsCurrent' /\ CapKept'
    BY <1>2, <1>8, <1>9, AfterRowStep
  <1>11. reported' \in [Downloads -> Nat]
    <2>1. reported \in [Downloads -> Nat]
      BY <1>1 DEF Types
    <2>2. QED
      BY <1>2, <2>1, OneMoreReport
  <1>12. Types'
    BY <1>1, <1>2, <1>6, <1>10, <1>11 DEF Types
  <1>13. Ledgers'
    BY <1>7, <1>10 DEF Ledgers, OneRowEach
  <1>14. QED
    BY <1>8, <1>10, <1>12, <1>13 DEF Inv, IInv, ChoiceInv

LEMMA CrashStep == ASSUME Inv, Crash PROVE Inv'
  <1>1. IInv /\ ChoiceInv /\ Types /\ Ledgers /\ moves \in [Kinds -> Nat] /\ reported \in [Downloads -> Nat]
        /\ StrikesEarned /\ AckedIgnored /\ strikes \in Seq(Row) /\ OneRowEach(strikes)
    BY DEF Inv, IInv, Types, ChoiceInv, Ledgers
  <1>2. run' = Idle /\ UNCHANGED <<ignored, categories, dryRun, acked, strikes, shown>> /\ Move("crash")
    BY DEF Crash, settings
  <1>3. moves' \in [Kinds -> Nat]
    BY <1>1, <1>2, MoveTyped DEF Kinds
  <1>4. /\ state' \in [Records -> AllRecordStates] /\ entry' \in [Records -> Nat]
        /\ job' \in [Downloads -> JobStates] /\ reported' \in [Downloads -> Nat]
    <2>1. \/ UNCHANGED <<state, entry, job, reported>>
          \/ run.at = "remove" /\ Removed(Target.download) /\ UNCHANGED reported
          \/ UNCHANGED <<state, entry, job>> /\ reported' = [reported EXCEPT ![Target.download] = @ + 1]
      BY DEF Crash, world
    <2>2. CASE UNCHANGED <<state, entry, job, reported>>
      BY <1>1, <2>2 DEF Types
    <2>3. CASE run.at = "remove" /\ Removed(Target.download) /\ UNCHANGED reported
      <3>1. Target.download \in Downloads
        BY <1>1, <2>3, AfterRowIs, RowTyped
      <3>2. QED
        BY <1>1, <2>3, <3>1, RemovedIs DEF Types
    <2>4. CASE UNCHANGED <<state, entry, job>> /\ reported' = [reported EXCEPT ![Target.download] = @ + 1]
      <3>1. reported' \in [Downloads -> Nat]
        BY <1>1, <2>4, OneMoreReport
      <3>2. QED
        BY <1>1, <2>4, <3>1 DEF Types
    <2>5. QED
      BY <2>1, <2>2, <2>3, <2>4
  <1>5. /\ run' \in RunType /\ run'.at = "idle" /\ run'.due = <<>> /\ run'.calls = 0 /\ run'.struck = {}
        /\ OneRowEach(run'.due)
    BY <1>2, IdleIs
  <1>6. StrikesEarned'
    BY <1>1, <1>2 DEF StrikesEarned
  <1>7. Types'
    BY <1>1, <1>2, <1>3, <1>4, <1>5 DEF Types
  <1>8. Ledgers'
    BY <1>1, <1>2, <1>5 DEF Ledgers, OneRowEach
  <1>9. InRun' /\ AckedIgnored'
    BY <1>1, <1>2, <1>5 DEF InRun, AckedIgnored
  <1>10. DueEarned' /\ RowsCurrent' /\ CapKept'
    BY <1>5, <1>6, FreshRun
  <1>11. QED
    BY <1>6, <1>7, <1>8, <1>9, <1>10 DEF Inv, IInv, ChoiceInv

\* While no run is under way.
LEMMA IdleStep ==
    ASSUME Inv, run.at = "idle", run' = run, StrikesEarned', acked' \subseteq ignored'
    PROVE  run' \in RunType /\ OneRowEach(run'.due) /\ InRun' /\ AckedIgnored' /\ DueEarned' /\ RowsCurrent' /\ CapKept'
  <1>1. run \in RunType /\ OneRowEach(run.due) /\ InRun
    BY DEF Inv, IInv, Types, Ledgers
  <1>2. run.due = <<>> /\ run.calls = 0 /\ run.struck = {}
    BY <1>1 DEF InRun
  <1>3. DueEarned' /\ RowsCurrent' /\ CapKept'
    BY <1>2, FreshRun
  <1>4. InRun' /\ AckedIgnored'
    BY <1>1, <1>2 DEF InRun, AckedIgnored
  <1>5. QED
    BY <1>1, <1>3, <1>4

LEMMA ClearStrikesStep == ASSUME Inv, ClearStrikes PROVE Inv'
  <1>1. IInv /\ ChoiceInv /\ Types /\ Ledgers /\ AckedIgnored /\ moves \in [Kinds -> Nat]
    BY DEF Inv, IInv, Types, ChoiceInv
  <1>2. /\ run.at = "idle" /\ run' = run /\ strikes' = <<>> /\ Move("user")
        /\ reported' = [d \in Downloads |-> 0]
        /\ UNCHANGED <<state, entry, job, ignored, categories, dryRun, acked, shown>>
    BY DEF ClearStrikes, GateFree, world, settings
  <1>3. moves' \in [Kinds -> Nat]
    BY <1>1, <1>2, MoveTyped DEF Kinds
  <1>4. strikes' \in Seq(Row) /\ OneRowEach(strikes') /\ StrikesEarned'
    <2>1. strikes' \in Seq(Row) /\ OneRowEach(strikes')
      BY <1>2, RowTyped
    <2>2. QED
      BY <1>2, <2>1 DEF StrikesEarned
  <1>5. reported' \in [Downloads -> Nat]
    BY <1>2
  <1>6. run' \in RunType /\ OneRowEach(run'.due) /\ InRun' /\ AckedIgnored' /\ DueEarned' /\ RowsCurrent' /\ CapKept'
    BY <1>1, <1>2, <1>4, IdleStep DEF AckedIgnored
  <1>7. Types'
    BY <1>1, <1>2, <1>3, <1>4, <1>5, <1>6 DEF Types
  <1>8. Ledgers'
    BY <1>4, <1>6 DEF Ledgers, OneRowEach
  <1>9. QED
    BY <1>4, <1>6, <1>7, <1>8 DEF Inv, IInv, ChoiceInv

LEMMA IgnoreStep == ASSUME Inv, NEW d \in Downloads, Ignore(d) PROVE Inv'
  <1>1. IInv /\ ChoiceInv /\ Types /\ Ledgers /\ AckedIgnored /\ moves \in [Kinds -> Nat]
    BY DEF Inv, IInv, Types, ChoiceInv
  <1>2. /\ run.at = "idle" /\ run' = run /\ Forget(d) /\ Move("user")
        /\ ignored' = ignored \cup {d} /\ acked' = acked \cup {d}
        /\ UNCHANGED <<state, entry, job, categories, dryRun, shown>>
    BY DEF Ignore, GateFree, world
  <1>3. moves' \in [Kinds -> Nat]
    BY <1>1, <1>2, MoveTyped DEF Kinds
  <1>4. strikes' \in Seq(Row) /\ OneRowEach(strikes') /\ StrikesEarned' /\ reported' \in [Downloads -> Nat]
    BY <1>2, ForgetStep
  <1>5. acked' \subseteq ignored' /\ ignored' \subseteq Downloads
    BY <1>1, <1>2 DEF AckedIgnored, Types
  <1>6. run' \in RunType /\ OneRowEach(run'.due) /\ InRun' /\ AckedIgnored' /\ DueEarned' /\ RowsCurrent' /\ CapKept'
    BY <1>1, <1>2, <1>4, <1>5, IdleStep
  <1>7. Types'
    BY <1>1, <1>2, <1>3, <1>4, <1>5, <1>6 DEF Types
  <1>8. Ledgers'
    BY <1>4, <1>6 DEF Ledgers, OneRowEach
  <1>9. QED
    BY <1>4, <1>6, <1>7, <1>8 DEF Inv, IInv, ChoiceInv

\* A change of the settings leaves the run with what it read.
LEMMA UpdateSettingsStep == ASSUME Inv, UpdateSettings PROVE Inv'
  <1>1. IInv /\ ChoiceInv /\ Types /\ Ledgers /\ InRun /\ AckedIgnored /\ moves \in [Kinds -> Nat]
    BY DEF Inv, IInv, Types, ChoiceInv
  <1>2. Move("user") /\ UNCHANGED <<state, entry, job, strikes, run, shown, reported>>
    BY DEF UpdateSettings, world, ghosts
  <1>3. moves' \in [Kinds -> Nat]
    BY <1>1, <1>2, MoveTyped DEF Kinds
  <1>4. /\ ignored' \subseteq Downloads /\ categories' \subseteq Downloads /\ dryRun' \in BOOLEAN
        /\ acked' \subseteq ignored' /\ acked' \subseteq acked
    <2>1. CASE UNCHANGED <<categories, dryRun>> /\ \E d \in Downloads :
                 /\ ignored' = IF d \in ignored THEN ignored \ {d} ELSE ignored \cup {d}
                 /\ acked' = acked \ {d}
      BY <1>1, <2>1 DEF Types, AckedIgnored
    <2>2. CASE categories' \in CategoryChoices \ {categories} /\ UNCHANGED <<ignored, acked, dryRun>>
      BY <1>1, <2>2, CleanarrAssumption DEF Types, AckedIgnored
    <2>3. CASE dryRun' = ~dryRun /\ UNCHANGED <<ignored, categories, acked>>
      BY <1>1, <2>3 DEF Types, AckedIgnored
    <2>4. QED
      BY <2>1, <2>2, <2>3 DEF UpdateSettings
  <1>5. Types'
    BY <1>1, <1>2, <1>3, <1>4 DEF Types
  <1>6. Ledgers' /\ InRun'
    BY <1>1, <1>2 DEF Ledgers, OneRowEach, InRun
  <1>7. AckedIgnored'
    BY <1>1, <1>2, <1>4 DEF AckedIgnored
  <1>8. StrikesEarned' /\ DueEarned' /\ CapKept'
    BY <1>1, <1>2 DEF StrikesEarned, DueEarned, CapKept, ChoiceInv
  <1>9. RowsCurrent'
    BY <1>1, <1>2 DEF RowsCurrent, Current, InQueue, ChoiceInv
  <1>10. QED
    BY <1>5, <1>6, <1>7, <1>8, <1>9 DEF Inv, IInv, ChoiceInv

\* A record that leaves the queue, or comes back under a new id, is one whose
\* download left while the run went on.
LEMMA RecordChangesStep == ASSUME Inv, NEW r \in Records, RecordChanges(r) PROVE Inv'
  <1> DEFINE away == state'[r] = "out" /\ run.at \in {"app", "remove"}
             left == IF away THEN run.left \cup {DownloadOf[r]} ELSE run.left
  <1>1. IInv /\ ChoiceInv /\ Types /\ Ledgers /\ InRun /\ AckedIgnored /\ moves \in [Kinds -> Nat] /\ run \in RunType
    BY DEF Inv, IInv, Types, ChoiceInv
  <1>2. /\ Move("world") /\ UNCHANGED <<job, ignored, categories, dryRun, acked, strikes, shown, reported>>
        /\ run' = [run EXCEPT !.left = left]
    BY DEF RecordChanges, settings, ghosts
  <1>3. moves' \in [Kinds -> Nat]
    BY <1>1, <1>2, MoveTyped DEF Kinds
  <1>4. PICK s \in RecordStates \ {state[r]} :
           /\ state' = [state EXCEPT ![r] = s]
           /\ entry' = IF state[r] = "out" THEN [entry EXCEPT ![r] = @ + 1] ELSE entry
    BY DEF RecordChanges
  <1>5. state \in [Records -> AllRecordStates] /\ entry \in [Records -> Nat]
    BY <1>1 DEF Types
  <1>6. s \in AllRecordStates
    BY CleanarrAssumption
  <1>7. state' \in [Records -> AllRecordStates] /\ entry' \in [Records -> Nat]
    BY <1>4, <1>5, <1>6
  <1>8. DownloadOf[r] \in Downloads
    BY CleanarrAssumption
  <1>9. run.left \in SUBSET Downloads
    BY <1>1, RunTyped
  <1>10. left \in SUBSET Downloads /\ run.left \subseteq left /\ (away => DownloadOf[r] \in left)
    BY <1>8, <1>9
  <1> HIDE DEF left
  <1>11. /\ run' \in RunType /\ run'.at = run.at /\ run'.apps = run.apps /\ run'.ignored = run.ignored
         /\ run'.due = run.due /\ run'.calls = run.calls /\ run'.struck = run.struck /\ run'.left = left
    <2>1. run' \in RunType
      BY <1>1, <1>2, <1>10 DEF RunType
    <2>2. /\ run'.at = run.at /\ run'.apps = run.apps /\ run'.ignored = run.ignored
          /\ run'.due = run.due /\ run'.calls = run.calls /\ run'.struck = run.struck /\ run'.left = left
      BY <1>1, <1>2 DEF RunType
    <2>3. QED
      BY <2>1, <2>2
  <1>12. Types'
    BY <1>1, <1>2, <1>3, <1>7, <1>11 DEF Types
  <1>13. Ledgers' /\ InRun'
    BY <1>1, <1>2, <1>11 DEF Ledgers, OneRowEach, InRun
  <1>14. AckedIgnored'
    BY <1>1, <1>2, <1>11 DEF AckedIgnored
  <1>15. StrikesEarned' /\ DueEarned' /\ CapKept'
    BY <1>1, <1>2, <1>11 DEF StrikesEarned, DueEarned, CapKept, ChoiceInv
  <1>16. ASSUME NEW w \in Row, Current(w), run.at \in {"app", "remove"} PROVE Current(w)'
    <2>1. DownloadOf[w.record] = w.download /\ (InQueue(w) \/ w.download \in run.left) /\ w.record \in Records
      BY <1>16, RowTyped DEF Current
    <2>2. CASE w.download \in run.left
      BY <1>10, <1>11, <2>1, <2>2 DEF Current
    <2>3. CASE InQueue(w) /\ w.record # r
      <3>1. state'[w.record] = state[w.record] /\ entry'[w.record] = entry[w.record]
        BY <1>4, <1>5, <2>1, <2>3
      <3>2. QED
        BY <2>1, <2>3, <3>1 DEF Current, InQueue
    <2>4. CASE InQueue(w) /\ w.record = r
      <3>1. entry'[r] = entry[r]
        BY <1>4, <2>4 DEF InQueue
      <3>2. CASE state'[r] = "out"
        BY <1>10, <1>11, <1>16, <2>1, <2>4, <3>2 DEF Current
      <3>3. CASE state'[r] # "out"
        BY <2>1, <2>4, <3>1, <3>3 DEF Current, InQueue
      <3>4. QED
        BY <3>2, <3>3
    <2>5. QED
      BY <2>1, <2>2, <2>3, <2>4
  <1>17. RowsCurrent'
    <2>1. \A w \in ToSet(strikes) : w \in Row
      <3>1. strikes \in Seq(Row)
        BY <1>1 DEF Types
      <3>2. QED
        BY <3>1, ListSet
    <2>2. \A w \in ToSet(run.due) : w \in Row
      <3>1. run.due \in Seq(Row)
        BY <1>1, RunTyped
      <3>2. QED
        BY <3>1, ListSet
    <2>3. run.at = "app" => \A w \in ToSet(strikes) : w.download \in run.struck => Current(w)'
      BY <1>1, <1>16, <2>1 DEF RowsCurrent, ChoiceInv
    <2>4. run.at = "remove" => \A w \in ToSet(run.due) : Current(w)'
      BY <1>1, <1>16, <2>2 DEF RowsCurrent, ChoiceInv
    <2>5. QED
      BY <1>2, <1>11, <2>3, <2>4 DEF RowsCurrent
  <1>18. QED
    BY <1>12, <1>13, <1>14, <1>15, <1>17 DEF Inv, IInv, ChoiceInv

LEMMA JobChangesStep == ASSUME Inv, NEW d \in Downloads, JobChanges(d) PROVE Inv'
  <1>1. IInv /\ ChoiceInv /\ Types /\ Ledgers /\ InRun /\ moves \in [Kinds -> Nat]
    BY DEF Inv, IInv, Types, ChoiceInv
  <1>2. /\ Move("job") /\ UNCHANGED <<state, entry, ignored, categories, dryRun, acked, strikes, run, shown, reported>>
        /\ \E s \in JobStates : job' = [job EXCEPT ![d] = s]
    BY DEF JobChanges, settings, ghosts
  <1>3. moves' \in [Kinds -> Nat]
    BY <1>1, <1>2, MoveTyped DEF Kinds
  <1>4. Types'
    BY <1>1, <1>2, <1>3 DEF Types
  <1>5. Ledgers' /\ InRun'
    BY <1>1, <1>2 DEF Ledgers, OneRowEach, InRun
  <1>6. StrikesEarned' /\ DueEarned' /\ CapKept' /\ AckedIgnored'
    BY <1>1, <1>2 DEF StrikesEarned, DueEarned, CapKept, AckedIgnored, ChoiceInv
  <1>7. RowsCurrent'
    BY <1>1, <1>2 DEF RowsCurrent, Current, InQueue, ChoiceInv
  <1>8. QED
    BY <1>4, <1>5, <1>6, <1>7 DEF Inv, IInv, ChoiceInv

LEMMA StutterStep == ASSUME Inv, UNCHANGED vars PROVE Inv'
  <1>1. UNCHANGED <<state, entry, job, ignored, categories, dryRun, strikes, run, shown, reported, acked, moves>>
    BY DEF vars
  <1>2. Types /\ Ledgers /\ InRun /\ AckedIgnored /\ StrikesEarned /\ DueEarned /\ RowsCurrent /\ CapKept
    BY DEF Inv, IInv, ChoiceInv
  <1>3. Types'
    BY <1>1, <1>2 DEF Types
  <1>4. Ledgers' /\ InRun' /\ AckedIgnored'
    BY <1>1, <1>2 DEF Ledgers, OneRowEach, InRun, AckedIgnored
  <1>5. StrikesEarned' /\ DueEarned' /\ CapKept'
    BY <1>1, <1>2 DEF StrikesEarned, DueEarned, CapKept
  <1>6. RowsCurrent'
    BY <1>1, <1>2 DEF RowsCurrent, Current, InQueue
  <1>7. QED
    BY <1>3, <1>4, <1>5, <1>6 DEF Inv, IInv, ChoiceInv

LEMMA NextInv == Inv /\ [Next]_vars => Inv'
  <1> SUFFICES ASSUME Inv, [Next]_vars PROVE Inv'
    OBVIOUS
  <1>1. CASE Start
    BY <1>1, StartStep
  <1>2. CASE LoadSab
    BY <1>2, LoadSabStep
  <1>3. CASE SkipApp
    BY <1>3, SkipAppStep
  <1>4. CASE RunApp
    BY <1>4, RunAppStep
  <1>5. CASE RemoveOne
    BY <1>5, RemoveOneStep
  <1>6. CASE RemoveFails
    BY <1>6, RemoveFailsStep
  <1>7. CASE Report
    BY <1>7, ReportStep
  <1>8. CASE Crash
    BY <1>8, CrashStep
  <1>9. CASE ClearStrikes
    BY <1>9, ClearStrikesStep
  <1>10. CASE UpdateSettings
    BY <1>10, UpdateSettingsStep
  <1>11. ASSUME NEW d \in Downloads, Ignore(d) PROVE Inv'
    BY <1>11, IgnoreStep
  <1>12. ASSUME NEW d \in Downloads, JobChanges(d) PROVE Inv'
    BY <1>12, JobChangesStep
  <1>13. ASSUME NEW r \in Records, RecordChanges(r) PROVE Inv'
    BY <1>13, RecordChangesStep
  <1>14. CASE UNCHANGED vars
    BY <1>14, StutterStep
  <1>15. QED
    BY <1>1, <1>2, <1>3, <1>4, <1>5, <1>6, <1>7, <1>8, <1>9, <1>10, <1>11, <1>12, <1>13, <1>14
       DEF Next, RunStep, Environment

\* The state is of its types, a download has at most one row in the ledger and
\* in the list to remove, and the run is in order, through every failure.
THEOREM SpecInv == Spec => []Inv
  <1>1. QED
    BY InitInv, NextInv, PTL DEF Spec

\* Every variable keeps its type, for any apps, downloads, rows and disturbances.
THEOREM SpecTypeOK == Spec => []TypeOK
  <1>1. Inv => TypeOK
    <2> SUFFICES ASSUME Inv PROVE TypeOK
      OBVIOUS
    <2>1. strikes \in Seq(Row) /\ OneRowEach(strikes) /\ run \in RunType
      BY DEF Inv, IInv, Types, Ledgers
    <2>2. DOMAIN strikes = 1..Len(strikes) /\ \A n \in 1..Len(strikes) : strikes[n] \in Row
      BY <2>1
    <2>3. run.at \in {"idle", "sab", "app", "remove"}
      BY <2>1, RunTyped
    <2>4. QED
      BY <2>1, <2>2, <2>3, RowTyped DEF TypeOK, OneRowEach, Reasons
  <1>2. QED
    BY <1>1, SpecInv, PTL

\* No row has more strikes than runs that saw its download fail since a run
\* last saw it well, through held records, outages and defective reads.
THEOREM SpecStrikesEarned == Spec => []StrikesEarned
  <1>1. Inv => StrikesEarned
    BY DEF Inv, ChoiceInv
  <1>2. QED
    BY <1>1, SpecInv, PTL

\* The removals of a run over all apps stay within max_removals_per_run.
THEOREM SpecCapKept == Spec => []CapKept
  <1>1. Inv => CapKept
    BY DEF Inv, ChoiceInv
  <1>2. QED
    BY <1>1, SpecInv, PTL

\* What there is to remove is chosen and there is a first of it.
LEMMA TargetChosen ==
    ASSUME Inv, run.at = "remove"
    PROVE  Target \in ToSet(run.due)
  <1>1. run \in RunType /\ OneRowEach(run.due) /\ run.due # <<>>
    BY DEF Inv, IInv, Types, Ledgers, InRun
  <1>2. run.due \in Seq(Row)
    BY <1>1, RunTyped
  <1>3. QED
    BY <1>1, <1>2, TailRows DEF Target

\* A row is only dropped as already gone when its download left the queue while
\* the run went on: every removal calls the Arr with an id that was current.
THEOREM SpecAlreadyGoneTrue == Spec => []AlreadyGoneTrue
  <1>1. Inv => AlreadyGoneTrue
    BY TargetChosen DEF AlreadyGoneTrue, Inv, ChoiceInv, RowsCurrent, Current
  <1>2. QED
    BY <1>1, SpecInv, PTL

\* What a run removes failed in this run, has MaxStrikes strikes of runs that
\* saw it fail, and is not on a list an answered Ignore put it on.
THEOREM SpecRemovalEarned == Spec => RemovalEarned
  <1> DEFINE Earned == \A d \in Downloads :
               (/\ run.at = "remove" /\ Target.download = d /\ ~run.dry
                /\ run'.calls # run.calls \/ run' = Idle) =>
                  /\ d \in run.struck /\ shown[d] >= MaxStrikes
                  /\ d \notin acked
  <1>1. Inv => Earned
    <2> SUFFICES ASSUME Inv, NEW d \in Downloads, run.at = "remove", Target.download = d
                 PROVE  d \in run.struck /\ shown[d] >= MaxStrikes /\ d \notin acked
      OBVIOUS
    <2>1. Target \in ToSet(run.due)
      BY TargetChosen
    <2>2. d \in run.struck /\ Target.strikes >= MaxStrikes /\ Target.strikes <= shown[d]
      BY <2>1 DEF Inv, ChoiceInv, DueEarned
    <2>3. acked \subseteq run.ignored /\ run.struck \cap run.ignored = {}
      BY DEF Inv, ChoiceInv, AckedIgnored
    <2>4. shown[d] \in Nat /\ Target.strikes \in Nat /\ MaxStrikes \in Nat
      <3>1. shown[d] \in 0..StrikeTop
        BY DEF Inv, IInv, Types
      <3>2. Target \in Row
        BY AfterRowIs DEF Inv
      <3>3. StrikeTop \in Nat /\ MaxStrikes \in Nat
        BY CleanarrAssumption
      <3>4. QED
        BY <3>1, <3>2, <3>3, RowTyped
    <2>5. QED
      BY <2>2, <2>3, <2>4
  <1>2. QED
    BY <1>1, SpecInv, PTL DEF RemovalEarned
-----------------------------------------------------------------------------
(***************************************************************************)
(* What an app's step may do                                               *)
(***************************************************************************)

\* While an app is worked on, only its own step adds to what the run struck,
\* and only that changes the ledger.
LEMMA OthersAtApp ==
    ASSUME Inv, [Next]_vars, run.at = "app", ~RunApp
    PROVE  strikes' = strikes /\ run'.struck \subseteq run.struck
  <1>1. run \in RunType /\ strikes \in Seq(Row) /\ OneRowEach(strikes) /\ run.apps # <<>>
    BY DEF Inv, IInv, Types, Ledgers, InRun
  <1>2. CASE SkipApp
    <2>1. run' = AfterApp(run, strikes) /\ strikes' = strikes
      BY <1>2 DEF SkipApp
    <2>2. \/ AfterApp(run, strikes) = Idle
          \/ AfterApp(run, strikes).struck = run.struck
      BY <1>1, AfterAppIs
    <2>3. QED
      BY <2>1, <2>2, IdleIs
  <1>3. CASE Crash
    BY <1>3, IdleIs DEF Crash
  <1>4. CASE UpdateSettings
    BY <1>4 DEF UpdateSettings
  <1>5. ASSUME NEW d \in Downloads, JobChanges(d) PROVE strikes' = strikes /\ run'.struck \subseteq run.struck
    BY <1>5 DEF JobChanges
  <1>6. ASSUME NEW r \in Records, RecordChanges(r) PROVE strikes' = strikes /\ run'.struck \subseteq run.struck
    <2>1. strikes' = strikes /\ \E left : run' = [run EXCEPT !.left = left]
      BY <1>6 DEF RecordChanges
    <2>2. PICK left : run' = [run EXCEPT !.left = left]
      BY <2>1
    <2>3. run'.struck = run.struck
      BY <1>1, <2>2 DEF RunType
    <2>4. QED
      BY <2>1, <2>3
  <1>7. CASE UNCHANGED vars
    BY <1>7 DEF vars
  <1>8. ~Start /\ ~LoadSab /\ ~RemoveOne /\ ~RemoveFails /\ ~Report /\ ~ClearStrikes /\ \A d \in Downloads : ~Ignore(d)
    BY DEF Start, LoadSab, RemoveOne, RemoveFails, Report, ClearStrikes, Ignore, GateFree
  <1>9. QED
    BY <1>2, <1>3, <1>4, <1>5, <1>6, <1>7, <1>8 DEF Next, RunStep, Environment

\* The app's step in what these properties need of it.
LEMMA RunAppChanges ==
    ASSUME Inv, RunApp
    PROVE  \E read \in Reads(Head(run.apps)) :
              LET out == StrikeApp(Head(run.apps), read) IN
              strikes' = out.rows /\ run'.struck \subseteq run.struck \cup out.struck
  <1> DEFINE a == Head(run.apps)
             out(read) == StrikeApp(a, read)
  <1>1. PICK read \in Reads(a) :
          /\ run.at = "app" /\ strikes' = out(read).rows
          /\ run' = AfterApp([run EXCEPT !.struck = run.struck \cup out(read).struck], strikes')
    BY RunAppParts
  <1>2. IInv /\ run \in RunType /\ run.apps # <<>>
    BY <1>1 DEF Inv, IInv, Types, InRun
  <1> DEFINE struck == StrikeApp(a, read).struck
             both == run.struck \cup struck
             r == [run EXCEPT !.struck = both]
  <1>3. strikes' \in Seq(Row) /\ OneRowEach(strikes') /\ \A d \in struck : d \in Downloads
    <2>1. LET o == StrikeApp(a, read) IN
          o.rows \in Seq(Row) /\ OneRowEach(o.rows) /\ \A d \in o.struck : d \in Downloads
      BY <1>2, StrikeRows
    <2>2. QED
      BY <1>1, <2>1
  <1>4. both \in SUBSET Downloads
    BY <1>2, <1>3, RunTyped
  <1>5. run' = AfterApp(r, strikes')
    BY <1>1
  <1> HIDE DEF both
  <1>6. r \in RunType
    BY <1>2, <1>4 DEF RunType
  <1>7. r.at = "app" /\ r.apps = run.apps /\ r.struck = both
    BY <1>1, <1>2 DEF RunType
  <1> HIDE DEF r
  <1>8. run' = Idle \/ run'.struck = both
    <2>1. r.apps # <<>>
      BY <1>2, <1>7
    <2>2. AfterApp(r, strikes') = Idle \/ AfterApp(r, strikes').struck = r.struck
      BY <1>3, <1>6, <1>7, <2>1, AfterAppIs
    <2>3. QED
      BY <1>5, <1>7, <2>2
  <1>9. run'.struck \subseteq both
    BY <1>8, IdleIs
  <1>10. QED
    BY <1>1, <1>9 DEF both

\* A strike is only given to a download that fails, that no ignore rule names,
\* and none of whose queued records has an ignored title: on every read that
\* the Arr's queue and its defects allow.
THEOREM SpecOnlyFailingStruck == Spec => OnlyFailingStruck
  <1> DEFINE Rightly == \A d \in Downloads :
               (/\ run.at = "app" /\ d \in run'.struck \ run.struck) =>
                  /\ \E r \in Queued(d) : Classify(r, run.history) # "healthy"
                  /\ d \notin run.ignored \cup run.categories /\ Queued(d) \cap TitleIgnored = {}
  <1>1. Inv /\ [Next]_vars => Rightly
    <2> SUFFICES ASSUME Inv, [Next]_vars, NEW d \in Downloads, run.at = "app", d \in run'.struck \ run.struck
                 PROVE  Shows(d)
      BY DEF Shows
    <2>1. RunApp
      BY OthersAtApp
    <2>2. PICK read \in Reads(Head(run.apps)) :
             run'.struck \subseteq run.struck \cup StrikeApp(Head(run.apps), read).struck
      BY <2>1, RunAppChanges
    <2>3. d \in StrikeApp(Head(run.apps), read).struck
      BY <2>2
    <2>4. IInv
      BY DEF Inv
    <2>5. QED
      BY <2>3, <2>4, StrikeRows
  <1>2. QED
    BY <1>1, SpecInv, PTL DEF Spec, OnlyFailingStruck

\* While the history cannot be read, an app's step leaves every failed_download
\* row as it is: no strike is added and none is forgotten.
THEOREM SpecOutageFreezes == Spec => OutageFreezes
  <1> DEFINE Frozen == (run.at = "app" /\ ~HistoryKnown(run.history)) =>
                          \A n \in DOMAIN strikes :
                             strikes[n].reason = "failed_download" => strikes[n] \in ToSet(strikes')
  <1>1. Inv /\ [Next]_vars => Frozen
    <2> SUFFICES ASSUME Inv, [Next]_vars, run.at = "app", ~HistoryKnown(run.history),
                        NEW n \in DOMAIN strikes, strikes[n].reason = "failed_download"
                 PROVE  strikes[n] \in ToSet(strikes')
      OBVIOUS
    <2>1. strikes[n] \in ToSet(strikes)
      BY DEF ToSet
    <2>2. CASE RunApp
      <3>1. PICK read \in Reads(Head(run.apps)) : strikes' = StrikeApp(Head(run.apps), read).rows
        BY <2>2, RunAppChanges
      <3>2. IInv
        BY DEF Inv
      <3>3. strikes[n] \in ToSet(StrikeApp(Head(run.apps), read).rows)
        BY <2>1, <3>2, StrikeRows
      <3>4. QED
        BY <3>1, <3>3
    <2>3. CASE ~RunApp
      BY <2>1, <2>3, OthersAtApp
    <2>4. QED
      BY <2>2, <2>3
  <1>2. QED
    BY <1>1, SpecInv, PTL DEF Spec, OutageFreezes
-----------------------------------------------------------------------------
(***************************************************************************)
(* The reports of a dry run                                                *)
(***************************************************************************)

\* A download was reported more often than there were crashes only if its row
\* is flagged, and then once more; what is left to report is in the ledger,
\* and has no flag.
Logged(d) == \E w \in ToSet(strikes) : w.download = d /\ w.logged
ReportsCounted ==
    \A d \in Downloads : \/ reported[d] <= moves["crash"]
                         \/ Logged(d) /\ reported[d] <= 1 + moves["crash"]
DueHeld ==
    run.at = "remove" => \A w \in ToSet(run.due) : w \in ToSet(strikes) /\ (run.dry => ~w.logged)
ReportInv == ReportsCounted /\ DueHeld

LEMMA OtherMove ==
    ASSUME moves \in [Kinds -> Nat], NEW m \in Kinds, m # "crash", Move(m)
    PROVE  moves'["crash"] = moves["crash"]
  <1>1. moves' = [moves EXCEPT ![m] = moves[m] + 1]
    BY Zenon DEF Move
  <1>2. "crash" \in Kinds
    BY DEF Kinds
  <1>3. QED
    BY <1>1, <1>2

\* A step that leaves the ledger and the reports alone, and gives the run
\* nothing new to remove.
LEMMA QuietReports ==
    ASSUME ReportInv, strikes' = strikes, reported' = reported, moves'["crash"] = moves["crash"],
           run'.at = "remove" => run.at = "remove" /\ (run'.dry => run.dry) /\ ToSet(run'.due) \subseteq ToSet(run.due)
    PROVE  ReportInv'
  <1>1. ReportsCounted'
    BY DEF ReportInv, ReportsCounted, Logged
  <1>2. DueHeld'
    BY DEF ReportInv, DueHeld
  <1>3. QED
    BY <1>1, <1>2 DEF ReportInv

LEMMA QuietSteps ==
    ASSUME Inv, ReportInv,
           \/ Start \/ LoadSab \/ RemoveFails \/ UpdateSettings \/ UNCHANGED vars
           \/ \E d \in Downloads : JobChanges(d)
           \/ \E r \in Records : RecordChanges(r)
    PROVE  ReportInv'
  <1>1. run \in RunType /\ moves \in [Kinds -> Nat] /\ IInv
    BY DEF Inv, IInv, Types
  <1>2. CASE Start
    <2>1. strikes' = strikes /\ reported' = reported /\ moves' = moves
      BY <1>2 DEF Start, ghosts
    <2>2. run'.at = "sab"
      <3>1. \E o, i, c, y : run' = [Idle EXCEPT !.at = "sab", !.apps = o, !.ignored = i, !.categories = c, !.dry = y]
        BY <1>2 DEF Start
      <3>2. QED
        BY <3>1, IdleIs DEF RunType
    <2>3. QED
      BY <2>1, <2>2, QuietReports
  <1>3. CASE LoadSab
    <2>1. strikes' = strikes /\ reported' = reported
      BY <1>3 DEF LoadSab, ghosts
    <2>2. moves'["crash"] = moves["crash"]
      <3>1. UNCHANGED moves \/ Move("outage")
        BY <1>3 DEF LoadSab
      <3>2. QED
        BY <1>1, <3>1, OtherMove DEF Kinds
    <2>3. run'.at = "app"
      BY <1>1, <1>3 DEF LoadSab, RunType
    <2>4. QED
      BY <2>1, <2>2, <2>3, QuietReports
  <1>4. CASE RemoveFails
    <2>1. /\ strikes' = strikes /\ reported' = reported /\ Move("refuse")
          /\ run.at = "remove" /\ run' = AfterRow(Done(Target.download))
      BY <1>4 DEF RemoveFails, ghosts
    <2>2. moves'["crash"] = moves["crash"]
      BY <1>1, <2>1, OtherMove DEF Kinds
    <2>3. run'.at = "remove" => run'.dry = run.dry /\ ToSet(run'.due) \subseteq ToSet(run.due)
      BY <1>1, <2>1, AfterRowIs, IdleIs
    <2>4. QED
      BY <2>1, <2>2, <2>3, QuietReports
  <1>5. CASE UpdateSettings
    <2>1. strikes' = strikes /\ reported' = reported /\ run' = run /\ Move("user")
      BY <1>5 DEF UpdateSettings, ghosts
    <2>2. moves'["crash"] = moves["crash"]
      BY <1>1, <2>1, OtherMove DEF Kinds
    <2>3. QED
      BY <2>1, <2>2, QuietReports
  <1>6. CASE UNCHANGED vars
    <2>1. strikes' = strikes /\ reported' = reported /\ run' = run /\ moves' = moves
      BY <1>6 DEF vars
    <2>2. QED
      BY <2>1, QuietReports
  <1>7. CASE \E d \in Downloads : JobChanges(d)
    <2>1. strikes' = strikes /\ reported' = reported /\ run' = run /\ Move("job")
      BY <1>7 DEF JobChanges, ghosts
    <2>2. moves'["crash"] = moves["crash"]
      BY <1>1, <2>1, OtherMove DEF Kinds
    <2>3. QED
      BY <2>1, <2>2, QuietReports
  <1>8. CASE \E r \in Records : RecordChanges(r)
    <2>1. strikes' = strikes /\ reported' = reported /\ Move("world") /\ \E left : run' = [run EXCEPT !.left = left]
      BY <1>8 DEF RecordChanges, ghosts
    <2>2. moves'["crash"] = moves["crash"]
      BY <1>1, <2>1, OtherMove DEF Kinds
    <2>3. PICK left : run' = [run EXCEPT !.left = left]
      BY <2>1
    <2>4. run'.at = run.at /\ run'.dry = run.dry /\ run'.due = run.due
      BY <1>1, <2>3 DEF RunType
    <2>5. QED
      BY <2>1, <2>2, <2>4, QuietReports
  <1>9. QED
    BY <1>2, <1>3, <1>4, <1>5, <1>6, <1>7, <1>8

\* A row keeps its flag for as long as its download has one.
LEMMA FlagStays ==
    ASSUME IInv, NEW a, NEW read \in Reads(a), NEW w \in ToSet(strikes), w.logged,
           NEW v \in ToSet(StrikeApp(a, read).rows), v.download = w.download
    PROVE  v.logged
  <1>1. strikes \in Seq(Row) /\ OneRowEach(strikes) /\ w \in Row
    <2>1. strikes \in Seq(Row) /\ OneRowEach(strikes)
      BY DEF IInv, Types, Ledgers
    <2>2. QED
      BY <2>1, ListSet
  <1>2. CASE ~read.complete
    <2>1. v \in ToSet(strikes)
      BY <1>2, StrikeAppIs
    <2>2. QED
      BY <1>1, <2>1, OneRow
  <1>3. CASE read.complete
    <2>1. v \in ToSet(AgainRows(a, read) \o FreshRows(a, read))
      BY <1>3, StrikeAppIs
    <2>2. /\ AgainRows(a, read) \in Seq(Row)
          /\ \A x \in ToSet(AgainRows(a, read)) : \E u \in ToSet(strikes) : x = Again(u, a, read)
      BY <1>3, AgainRowsAre
    <2>3. /\ FreshRows(a, read) \in Seq(Row)
          /\ \A x \in ToSet(FreshRows(a, read)) : \E d \in StruckNow(a, read) \ Struck : x = FreshRow(d, a, read)
      BY <1>3, FreshRowsAre
    <2>4. v \in ToSet(AgainRows(a, read)) \/ v \in ToSet(FreshRows(a, read))
      BY <2>1, <2>2, <2>3, Joined
    <2>5. CASE v \in ToSet(FreshRows(a, read))
      <3>1. PICK d \in StruckNow(a, read) \ Struck : v = FreshRow(d, a, read)
        BY <2>3, <2>5
      <3>2. v.download = d
        BY <1>3, <3>1, FreshIs
      <3>3. PICK n \in 1..Len(strikes) : w = strikes[n]
        BY <1>1, ListMember
      <3>4. n \in DOMAIN strikes
        BY <1>1
      <3>5. w.download \in Struck
        BY <3>3, <3>4 DEF Struck
      <3>6. QED
        BY <3>1, <3>2, <3>5
    <2>6. CASE v \in ToSet(AgainRows(a, read))
      <3>1. PICK u \in ToSet(strikes) : v = Again(u, a, read)
        BY <2>2, <2>6
      <3>2. u \in Row
        BY <1>1, ListSet
      <3>3. v.download = u.download
        BY <1>3, <3>1, <3>2, AgainIs
      <3>4. u = w
        BY <1>1, <3>3, OneRow
      <3>5. Again(w, a, read) = w \/ \E s, x, y, z : Again(w, a, read) =
               [w EXCEPT !.strikes = s, !.reason = x, !.record = y, !.id = z]
        BY DEF Again, AddStrike
      <3>6. QED
        BY <1>1, <3>1, <3>4, <3>5 DEF Row
    <2>7. QED
      BY <2>4, <2>5, <2>6
  <1>4. QED
    BY <1>2, <1>3

\* What is left to do after an app is in the ledger, without a flag.
LEMMA AfterAppHeld ==
    ASSUME NEW r \in RunType, r.at = "app", r.apps # <<>>, strikes' \in Seq(Row), OneRowEach(strikes'),
           run' = AfterApp(r, strikes')
    PROVE  DueHeld'
  <1> DEFINE rows == strikes'
             q == AfterApp(r, rows)
  <1>1. \/ q = Idle
        \/ q.at = "app"
        \/ q.at = "remove" /\ q.due = Select(rows, r.struck, r.dry) /\ q.dry = r.dry
    BY AfterAppIs
  <1>2. r.dry \in BOOLEAN
    BY RunTyped
  <1>3. \A w \in ToSet(Select(rows, r.struck, r.dry)) : w \in ToSet(rows) /\ (r.dry => ~w.logged)
    BY <1>2, Selected
  <1>4. run' = q
    OBVIOUS
  <1> HIDE DEF q
  <1>5. QED
    BY <1>1, <1>3, <1>4, IdleIs DEF DueHeld

LEMMA SkipAppReports == ASSUME Inv, ReportInv, SkipApp PROVE ReportInv'
  <1>1. /\ run \in RunType /\ moves \in [Kinds -> Nat] /\ strikes \in Seq(Row) /\ OneRowEach(strikes)
        /\ run.apps # <<>> /\ run.at = "app"
    BY DEF Inv, IInv, Types, Ledgers, InRun, SkipApp
  <1>2. strikes' = strikes /\ reported' = reported /\ Move("skip") /\ run' = AfterApp(run, strikes)
    BY DEF SkipApp, ghosts
  <1>3. moves'["crash"] = moves["crash"]
    BY <1>1, <1>2, OtherMove DEF Kinds
  <1>4. ReportsCounted'
    BY <1>2, <1>3 DEF ReportInv, ReportsCounted, Logged
  <1>5. strikes' \in Seq(Row) /\ OneRowEach(strikes') /\ run' = AfterApp(run, strikes')
    BY <1>1, <1>2
  <1>6. DueHeld'
    BY <1>1, <1>5, AfterAppHeld
  <1>7. QED
    BY <1>4, <1>6 DEF ReportInv

LEMMA RunAppReports == ASSUME Inv, ReportInv, RunApp PROVE ReportInv'
  <1> DEFINE a == Head(run.apps)
             struck(read) == StrikeApp(a, read).struck
             rows(read) == StrikeApp(a, read).rows
  <1>1. PICK read \in Reads(a) :
          /\ run.at = "app" /\ strikes' = rows(read)
          /\ run' = AfterApp([run EXCEPT !.struck = run.struck \cup struck(read)], strikes')
          /\ reported' = [d \in Downloads |->
                IF d \in {strikes'[n].download : n \in DOMAIN strikes'} THEN reported[d] ELSE 0]
    BY RunAppParts
  <1>2. IInv /\ run \in RunType /\ moves \in [Kinds -> Nat] /\ run.apps # <<>>
    BY <1>1 DEF Inv, IInv, Types, InRun
  <1>3. moves'["crash"] = moves["crash"]
    <2>1. UNCHANGED moves \/ Move("defect")
      BY Zenon DEF RunApp
    <2>2. QED
      BY <1>2, <2>1, OtherMove DEF Kinds
  <1>4. strikes' \in Seq(Row) /\ OneRowEach(strikes') /\ \A d \in struck(read) : d \in Downloads
    <2>1. LET o == StrikeApp(a, read) IN
          o.rows \in Seq(Row) /\ OneRowEach(o.rows) /\ \A d \in o.struck : d \in Downloads
      BY <1>2, StrikeRows
    <2>2. QED
      BY <1>1, <2>1
  <1>5. \A w \in ToSet(strikes) : w.logged => \A v \in ToSet(strikes') : v.download = w.download => v.logged
    <2> SUFFICES ASSUME NEW w \in ToSet(strikes), w.logged, NEW v \in ToSet(strikes'), v.download = w.download
                 PROVE  v.logged
      OBVIOUS
    <2>1. v \in ToSet(StrikeApp(a, read).rows)
      BY <1>1
    <2>2. QED
      BY <1>2, <2>1, FlagStays
  <1> HIDE DEF struck, rows
  <1>6. ReportsCounted'
    <2> DEFINE new == strikes'
    <2> SUFFICES ASSUME NEW d \in Downloads
                 PROVE  \/ reported'[d] <= moves["crash"]
                        \/ (\E w \in ToSet(new) : w.download = d /\ w.logged) /\ reported'[d] <= 1 + moves["crash"]
      BY <1>3 DEF ReportsCounted, Logged
    <2>1. CASE d \notin {new[n].download : n \in DOMAIN new}
      <3>1. reported'[d] = 0
        BY <1>1, <2>1
      <3>2. moves["crash"] \in Nat
        BY <1>2 DEF Kinds
      <3>3. QED
        BY <3>1, <3>2
    <2>2. CASE d \in {new[n].download : n \in DOMAIN new}
      <3>1. reported'[d] = reported[d]
        BY <1>1, <2>2
      <3>2. PICK v \in ToSet(new) : v.download = d
        BY <2>2 DEF ToSet
      <3>3. CASE reported[d] <= moves["crash"]
        BY <3>1, <3>3
      <3>4. CASE Logged(d) /\ reported[d] <= 1 + moves["crash"]
        BY <1>5, <3>1, <3>2, <3>4 DEF Logged
      <3>5. QED
        BY <3>3, <3>4 DEF ReportInv, ReportsCounted
    <2>3. QED
      BY <2>1, <2>2
  <1>7. DueHeld'
    <2> DEFINE both == run.struck \cup struck(read)
               r == [run EXCEPT !.struck = both]
    <2>1. both \in SUBSET Downloads /\ run' = AfterApp(r, strikes')
      BY <1>1, <1>2, <1>4, RunTyped
    <2> HIDE DEF both
    <2>2. r \in RunType
      BY <1>2, <2>1 DEF RunType
    <2>3. r.at = "app" /\ r.apps = run.apps
      BY <1>1, <1>2 DEF RunType
    <2> HIDE DEF r
    <2>4. QED
      BY <1>2, <1>4, <2>1, <2>2, <2>3, AfterAppHeld
  <1>8. QED
    BY <1>6, <1>7 DEF ReportInv

\* A download whose row goes has its reports forgotten with it.
LEMMA ForgetReports ==
    ASSUME Inv, ReportInv, NEW d \in Downloads, Forget(d), moves'["crash"] = moves["crash"]
    PROVE  /\ ReportsCounted'
           /\ \A w \in ToSet(strikes) : w.download # d => w \in ToSet(strikes')
  <1>1. strikes \in Seq(Row) /\ OneRowEach(strikes) /\ reported \in [Downloads -> Nat] /\ moves \in [Kinds -> Nat]
    BY DEF Inv, IInv, Types, Ledgers
  <1>2. strikes' = Without(strikes, {d}) /\ reported' = [reported EXCEPT ![d] = 0]
    BY DEF Forget
  <1>3. \A w : w \in ToSet(strikes') <=> w \in ToSet(strikes) /\ w.download \notin {d}
    BY <1>1, <1>2, WithoutRows
  <1>4. moves["crash"] \in Nat
    BY <1>1 DEF Kinds
  <1>5. ReportsCounted'
    <2> DEFINE new == strikes'
    <2> SUFFICES ASSUME NEW x \in Downloads
                 PROVE  \/ reported'[x] <= moves["crash"]
                        \/ (\E w \in ToSet(new) : w.download = x /\ w.logged) /\ reported'[x] <= 1 + moves["crash"]
      BY DEF ReportsCounted, Logged
    <2>1. CASE x = d
      BY <1>1, <1>2, <1>4, <2>1
    <2>2. CASE x # d
      <3>1. reported'[x] = reported[x]
        BY <1>1, <1>2, <2>2
      <3>2. Logged(x) => \E w \in ToSet(new) : w.download = x /\ w.logged
        BY <1>3, <2>2 DEF Logged
      <3>3. QED
        BY <3>1, <3>2 DEF ReportInv, ReportsCounted
    <2>3. QED
      BY <2>1, <2>2
  <1>6. QED
    BY <1>3, <1>5

LEMMA RemoveOneReports == ASSUME Inv, ReportInv, RemoveOne PROVE ReportInv'
  <1>1. /\ run.at = "remove" /\ run' = AfterRow(Done(Target.download)) /\ Forget(Target.download) /\ moves' = moves
    BY DEF RemoveOne
  <1>2. IInv
    BY DEF Inv
  <1>3. Target \in Row /\ Target.download \in Downloads
    BY <1>1, <1>2, AfterRowIs, RowTyped
  <1>4. ReportsCounted' /\ \A w \in ToSet(strikes) : w.download # Target.download => w \in ToSet(strikes')
    BY <1>1, <1>3, ForgetReports
  <1>5. DueHeld'
    <2> DEFINE q == AfterRow(Done(Target.download))
    <2>1. q = Idle \/ (q.dry = run.dry /\ \A w \in ToSet(q.due) : w \in ToSet(run.due) /\ w.download # Target.download)
      BY <1>1, <1>2, AfterRowIs
    <2>2. run' = q
      BY <1>1
    <2> HIDE DEF q
    <2>3. QED
      BY <1>1, <1>4, <2>1, <2>2, IdleIs DEF DueHeld, ReportInv
  <1>6. QED
    BY <1>4, <1>5 DEF ReportInv

\* A row that is left to report has no flag, so its download was not reported.
LEMMA NotReported ==
    ASSUME Inv, ReportInv, run.at = "remove", run.dry
    PROVE  reported[Target.download] <= moves["crash"] /\ Target \in ToSet(strikes)
  <1>1. Target \in ToSet(run.due)
    BY TargetChosen
  <1>2. Target \in ToSet(strikes) /\ ~Target.logged
    BY <1>1 DEF ReportInv, DueHeld
  <1>3. strikes \in Seq(Row) /\ OneRowEach(strikes)
    BY DEF Inv, IInv, Types, Ledgers
  <1>4. ~Logged(Target.download)
    BY <1>2, <1>3, OneRow DEF Logged
  <1>5. Target.download \in Downloads
    BY <1>2, <1>3, ListSet, RowTyped
  <1>6. QED
    BY <1>2, <1>4, <1>5 DEF ReportInv, ReportsCounted

LEMMA ReportReports == ASSUME Inv, ReportInv, Report PROVE ReportInv'
  <1> DEFINE flag(w) == IF w.download = Target.download THEN [w EXCEPT !.logged = TRUE] ELSE w
             new == strikes'
  <1>1. /\ run.at = "remove" /\ run.dry /\ run' = AfterRow(Done(Target.download)) /\ moves' = moves
        /\ reported' = [reported EXCEPT ![Target.download] = @ + 1]
    BY DEF Report
  <1>2. IInv /\ strikes \in Seq(Row) /\ reported \in [Downloads -> Nat] /\ moves \in [Kinds -> Nat]
    BY DEF Inv, IInv, Types
  <1>3. strikes' = [n \in DOMAIN strikes |-> flag(strikes[n])]
    BY DEF Report
  <1>4. \A w \in ToSet(strikes) : flag(w) \in ToSet(new)
    <2> HIDE DEF flag
    <2> SUFFICES ASSUME NEW w \in ToSet(strikes) PROVE flag(w) \in ToSet(new)
      OBVIOUS
    <2>1. PICK n \in DOMAIN strikes : w = strikes[n]
      BY DEF ToSet
    <2>2. n \in DOMAIN new /\ new[n] = flag(w)
      BY <1>3, <2>1
    <2>3. QED
      BY <2>2 DEF ToSet
  <1>5. \A w \in ToSet(strikes) : w.download # Target.download => w \in ToSet(new)
    BY <1>4
  <1>6. reported[Target.download] <= moves["crash"] /\ Target \in ToSet(strikes) /\ Target \in Row
    <2>1. reported[Target.download] <= moves["crash"] /\ Target \in ToSet(strikes)
      BY <1>1, NotReported
    <2>2. QED
      BY <1>2, <2>1, ListSet
  <1>7. flag(Target).download = Target.download /\ flag(Target).logged = TRUE /\ flag(Target) \in ToSet(new)
    BY <1>4, <1>6 DEF Row
  <1> HIDE DEF flag
  <1>8. moves["crash"] \in Nat /\ Target.download \in Downloads
    BY <1>2, <1>6, RowTyped DEF Kinds
  <1>9. ReportsCounted'
    <2> SUFFICES ASSUME NEW x \in Downloads
                 PROVE  \/ reported'[x] <= moves["crash"]
                        \/ (\E w \in ToSet(new) : w.download = x /\ w.logged) /\ reported'[x] <= 1 + moves["crash"]
      BY <1>1 DEF ReportsCounted, Logged
    <2>1. CASE x = Target.download
      <3>1. reported'[x] = reported[x] + 1 /\ reported[x] \in Nat
        BY <1>1, <1>2, <2>1
      <3>2. reported'[x] <= 1 + moves["crash"]
        BY <1>6, <1>8, <2>1, <3>1
      <3>3. QED
        BY <1>7, <2>1, <3>2
    <2>2. CASE x # Target.download
      <3>1. reported'[x] = reported[x]
        BY <1>1, <1>2, <2>2
      <3>2. Logged(x) => \E w \in ToSet(new) : w.download = x /\ w.logged
        BY <1>5, <2>2 DEF Logged
      <3>3. QED
        BY <3>1, <3>2 DEF ReportInv, ReportsCounted
    <2>3. QED
      BY <2>1, <2>2
  <1>10. DueHeld'
    <2> DEFINE q == AfterRow(Done(Target.download))
    <2>1. q = Idle \/ (q.dry = run.dry /\ \A w \in ToSet(q.due) : w \in ToSet(run.due) /\ w.download # Target.download)
      BY <1>1, <1>2, AfterRowIs
    <2>2. run' = q
      BY <1>1
    <2> HIDE DEF q
    <2>3. QED
      BY <1>1, <1>5, <2>1, <2>2, IdleIs DEF DueHeld, ReportInv
  <1>11. QED
    BY <1>9, <1>10 DEF ReportInv

LEMMA CrashReports == ASSUME Inv, ReportInv, Crash PROVE ReportInv'
  <1>1. reported \in [Downloads -> Nat] /\ moves \in [Kinds -> Nat] /\ "crash" \in Kinds /\ moves["crash"] \in Nat
    BY DEF Inv, IInv, Types, Kinds
  <1>2. run' = Idle /\ strikes' = strikes /\ Move("crash")
    BY DEF Crash
  <1>3. moves'["crash"] = moves["crash"] + 1
    <2>1. moves' = [moves EXCEPT !["crash"] = moves["crash"] + 1]
      BY <1>2, Zenon DEF Move
    <2>2. QED
      BY <1>1, <2>1
  <1>4. \/ reported' = reported
        \/ run.at = "remove" /\ run.dry /\ reported' = [reported EXCEPT ![Target.download] = @ + 1]
    BY DEF Crash
  <1>5. ReportsCounted'
    <2> SUFFICES ASSUME NEW d \in Downloads
                 PROVE  \/ reported'[d] <= moves["crash"] + 1
                        \/ Logged(d) /\ reported'[d] <= 1 + (moves["crash"] + 1)
      BY <1>2, <1>3 DEF ReportsCounted, Logged
    <2>1. reported[d] \in Nat
      BY <1>1
    <2>2. reported[d] <= moves["crash"] \/ (Logged(d) /\ reported[d] <= 1 + moves["crash"])
      BY DEF ReportInv, ReportsCounted
    <2>3. CASE reported'[d] = reported[d]
      BY <1>1, <2>1, <2>2, <2>3
    <2>4. CASE run.at = "remove" /\ run.dry /\ reported'[d] = reported[d] + 1 /\ d = Target.download
      <3>1. reported[d] <= moves["crash"]
        BY <2>4, NotReported
      <3>2. QED
        BY <1>1, <2>1, <2>4, <3>1
    <2>5. reported'[d] = reported[d]
          \/ (run.at = "remove" /\ run.dry /\ reported'[d] = reported[d] + 1 /\ d = Target.download)
      BY <1>1, <1>4
    <2>6. QED
      BY <2>3, <2>4, <2>5
  <1>6. DueHeld'
    BY <1>2, IdleIs DEF DueHeld
  <1>7. QED
    BY <1>5, <1>6 DEF ReportInv

LEMMA UserReports ==
    ASSUME Inv, ReportInv, ClearStrikes \/ \E d \in Downloads : Ignore(d)
    PROVE  ReportInv'
  <1>1. moves \in [Kinds -> Nat] /\ moves["crash"] \in Nat
    BY DEF Inv, IInv, Types, Kinds
  <1>2. run' = run /\ run.at = "idle" /\ Move("user")
    BY DEF ClearStrikes, Ignore, GateFree
  <1>3. moves'["crash"] = moves["crash"]
    BY <1>1, <1>2, OtherMove DEF Kinds
  <1>4. DueHeld'
    BY <1>2 DEF DueHeld
  <1>5. CASE ClearStrikes
    <2>1. reported' = [d \in Downloads |-> 0]
      BY <1>5 DEF ClearStrikes
    <2>2. ReportsCounted'
      BY <1>1, <1>3, <2>1 DEF ReportsCounted
    <2>3. QED
      BY <1>4, <2>2 DEF ReportInv
  <1>6. CASE \E d \in Downloads : Ignore(d)
    <2>1. PICK d \in Downloads : Forget(d)
      BY <1>6 DEF Ignore
    <2>2. ReportsCounted'
      BY <1>3, <2>1, ForgetReports
    <2>3. QED
      BY <1>4, <2>2 DEF ReportInv
  <1>7. QED
    BY <1>5, <1>6

\* A dry run reports a row once for as long as the row stays, but for a process
\* that died between the History entry and the flag.
THEOREM SpecReportedOnce == Spec => []ReportedOnce
  <1>1. Init => ReportInv
    <2> SUFFICES ASSUME Init PROVE ReportInv
      OBVIOUS
    <2>1. DOMAIN Allowed = Kinds /\ "crash" \in Kinds
      BY CleanarrAssumption DEF Kinds
    <2>2. reported = [d \in Downloads |-> 0] /\ moves["crash"] = 0 /\ run = Idle
      BY <2>1 DEF Init
    <2>3. QED
      BY <2>2, IdleIs DEF ReportInv, ReportsCounted, DueHeld
  <1>2. Inv /\ ReportInv /\ [Next]_vars => ReportInv'
    <2> SUFFICES ASSUME Inv, ReportInv, [Next]_vars PROVE ReportInv'
      OBVIOUS
    <2>1. CASE \/ Start \/ LoadSab \/ RemoveFails \/ UpdateSettings \/ UNCHANGED vars
               \/ \E d \in Downloads : JobChanges(d)
               \/ \E r \in Records : RecordChanges(r)
      BY <2>1, QuietSteps
    <2>2. CASE SkipApp
      BY <2>2, SkipAppReports
    <2>3. CASE RunApp
      BY <2>3, RunAppReports
    <2>4. CASE RemoveOne
      BY <2>4, RemoveOneReports
    <2>5. CASE Report
      BY <2>5, ReportReports
    <2>6. CASE Crash
      BY <2>6, CrashReports
    <2>7. CASE ClearStrikes \/ \E d \in Downloads : Ignore(d)
      BY <2>7, UserReports
    <2>8. QED
      BY <2>1, <2>2, <2>3, <2>4, <2>5, <2>6, <2>7 DEF Next, RunStep, Environment
  <1>3. Inv /\ ReportInv => ReportedOnce
    <2> SUFFICES ASSUME Inv, ReportInv, NEW d \in Downloads PROVE reported[d] <= 1 + moves["crash"]
      BY DEF ReportedOnce
    <2>1. reported[d] \in Nat /\ moves["crash"] \in Nat
      BY DEF Inv, IInv, Types, Kinds
    <2>2. QED
      BY <2>1 DEF ReportInv, ReportsCounted
  <1>4. QED
    BY <1>1, <1>2, <1>3, SpecInv, PTL DEF Spec
=============================================================================
