---------------------------- MODULE FindarrProofs ----------------------------
(***************************************************************************)
(* For any apps, items, settings and disturbances: the Arrs get no more    *)
(* searches in an hour than the cap and what could not be logged, a unit   *)
(* is not searched again before its delay, a search's outcome is true and  *)
(* goes to its own history row, and a reset stays.                         *)
(***************************************************************************)
EXTENDS Findarr, SeqFilterProofs, FiniteSetTheorems

Grains     == {"episodes", "seasons", "shows", "movies"}
Keys       == {KeyOf(i, g) : i \in Items, g \in Grains}
Units      == [app : Apps, mode : Modes, key : Keys]
Wanted     == [app : Apps, mode : Modes, key : Keys, monitored : BOOLEAN, future : BOOLEAN]
RetryState == [attempts : Nat, due : Nat]
Tables     == UNION {[D -> RetryState] : D \in SUBSET Units}
Outcomes   == {"pending", "unknown", "failed", "grabbed", "not_found"}
Rows       == [id : Nat, ts : Nat, unit : Units, cmd : Nat, hist : Nat, outcome : Outcomes]
HistoryRow == [unit : Units \cup {NoUnit}, status : Outcomes \cup {"sent", "error", "success"},
               by : Units \cup {NoUnit}]
Command    == [unit : Units, started : Nat, ended : Nat,
               status : {"running", "completed", "failed", "purged"}, grabbed : {0, 1},
               fresh : BOOLEAN, overlaps : BOOLEAN]
Findings   == [search : Rows, command : Command]
Kinds      == {"fail", "noid", "crash", "reset", "clear", "file"}
Places     == {"idle", "app", "lookup", "resolve", "queue", "fetch", "send", "sent", "mode"}
RunType    == [at : Places, apps : Seq(Apps), modes : Seq(Modes), pending : Seq(Rows),
               finished : Seq(Findings), limit : Nat,
               retry : Tables, todo : Seq(Wanted)]

\* The types of the state, and which locals a run has where.
TypeOK ==
    /\ now \in Nat /\ processed \in Tables /\ searches \in Seq(Rows)
    /\ lastHistory \in Nat /\ DOMAIN history \subseteq 1..lastHistory
    /\ history \in [DOMAIN history -> HistoryRow]
    /\ file \in [Items -> AllFileStates] /\ grabs \subseteq [item : Items, at : Nat]
    /\ commands \in Seq(Command) /\ run \in RunType
    /\ moves \in [Kinds -> Nat]
Shape(r, n) ==
    /\ r.at # "idle" => r.apps # <<>>
    /\ r.at \in {"fetch", "send", "sent", "mode"} => r.modes # <<>>
    /\ r.at \notin {"lookup", "resolve", "queue"} => r.pending = <<>>
    /\ r.at # "resolve" => r.finished = <<>>
    /\ r.at \in {"send", "sent"} => r.todo # <<>>
    /\ n <= MaxCommands
    /\ r.at = "send" => n + Len(r.todo) <= MaxCommands
    /\ r.at = "sent" => n + Len(r.todo) <= MaxCommands + 1
InRun == Shape(run, Len(commands))

\* Every row that the table or a run holds is of a command that was accepted,
\* and names its own row of the history as long as that is there.
ReadBack == ToSet(run.pending) \cup {run.finished[k].search : k \in DOMAIN run.finished}
Genuine(row) ==
    /\ row.cmd \in DOMAIN commands /\ row.id = row.cmd
    /\ row.unit = commands[row.cmd].unit /\ row.ts >= commands[row.cmd].started
    /\ row.hist <= lastHistory
    /\ row.hist \in DOMAIN history => history[row.hist].unit = row.unit
RowsGenuine == \A row \in ToSet(searches) \cup ReadBack : Genuine(row)

\* The command whose answer the run awaits is the last one, and has no row yet.
InFlight ==
    run.at = "sent" =>
      /\ Len(commands) \in DOMAIN commands
      /\ commands[Len(commands)].unit = IdOf(Head(run.todo))
      /\ commands[Len(commands)].started <= now
      /\ ~Logged(Len(commands))

\* Rows are kept in the order of their ids; what a run read back is pending
\* until the run itself resolves it.
InOrder(rows) == \A m, n \in 1..Len(rows) : m < n => rows[m].id < rows[n].id
RowsInOrder ==
    /\ InOrder(searches) /\ InOrder(run.pending)
    /\ \A k, l \in 1..Len(run.finished) : k < l => run.finished[k].search.id < run.finished[l].search.id
StillPending ==
    /\ \A row \in ReadBack : row.outcome = "pending"
    /\ \A row \in ReadBack : \A s \in ToSet(searches) : s.id = row.id => s.outcome = "pending"

\* A command is not from the future; what it grabbed is in the grab history, at
\* the latest when the grace after its end is over.
Credited(c) ==
    \E g \in grabs : g.item \in Targets(commands[c].unit)
                     /\ commands[c].started <= g.at /\ g.at <= commands[c].ended + Grace
CommandsTrue ==
    \A c \in DOMAIN commands :
        /\ commands[c].started <= now
        /\ commands[c].status = "running" => commands[c].grabbed = 0
        /\ commands[c].grabbed > 0 => Credited(c)

\* A command that the Arr named gets an outcome once it has ended, as it ended.
EndedFirst ==
    /\ \A row \in ToSet(searches) :
         row.outcome \in {"grabbed", "not_found", "failed"} => commands[row.cmd].status # "running"
    /\ \A k \in DOMAIN run.finished :
         LET f == run.finished[k] IN
         f.command = commands[f.search.cmd] /\ f.command.status # "running"

\* The log of the hour, and what a run may still send or is awaiting, fit the
\* cap; the log of the retention has every other command but those that could
\* not be logged.
HourRows == SearchesSince(LogCutoff(Hour))
Reserved ==
    CASE run.at = "fetch" -> run.limit
      [] run.at \in {"send", "sent"} -> Len(run.todo)
      [] OTHER -> 0
Awaited(c) == run.at = "sent" /\ c = Len(commands)
Unlogged == {c \in SentSince(LogCutoff(Retention)) : ~Logged(c) /\ ~Awaited(c)}
CapInv ==
    /\ Cardinality(HourRows) + Reserved <= Cap
    /\ Cardinality(Unlogged) <= moves["fail"] + moves["crash"]

\* A search that is still to be resolved is known to every later search of its
\* unit.
Unresolved == {s \in ToSet(searches) : s.outcome = "pending"} \cup ReadBack
OverlapsKnown ==
    \A s \in Unresolved : \A i \in DOMAIN commands :
        (i > s.cmd /\ commands[i].unit = s.unit) => commands[i].overlaps

\* The retry state holds the delay of every search that RetryKept is about; a
\* unit that the run has selected was due, and is selected once.
Binds(i) ==
    /\ Logged(i) /\ ~OutcomeIs(i, "failed") /\ ~commands[i].overlaps
    /\ \A m \in i + 1..Len(commands) : commands[m].unit = commands[i].unit => ~commands[m].fresh
DelayHeld ==
    \A i \in DOMAIN commands :
        Binds(i) /\ commands[i].unit \in DOMAIN processed
          => processed[commands[i].unit].due >= commands[i].started + Base
SelectedDue ==
    run.at \in {"send", "sent"} =>
      /\ \A k \in DOMAIN run.todo :
           IdOf(run.todo[k]) \in DOMAIN processed => processed[IdOf(run.todo[k])].due <= now
      /\ \A k, l \in DOMAIN run.todo : IdOf(run.todo[k]) = IdOf(run.todo[l]) => k = l

IInv == TypeOK /\ InRun
RowsTrue == RowsGenuine /\ RowsInOrder /\ StillPending /\ OutcomeOnOwnRow
RowInv == RowsTrue /\ InFlight
VerdictInv == CommandsTrue /\ EndedFirst /\ VerdictTrue
RetryInv == OverlapsKnown /\ DelayHeld /\ SelectedDue /\ RetryKept
-----------------------------------------------------------------------------
(***************************************************************************)
(* Lists                                                                   *)
(***************************************************************************)

\* The first occurrences of a list: the same elements, each once.
LEMMA FirstOccurrencesOnce ==
    ASSUME NEW X, NEW s \in Seq(X)
    PROVE  /\ FirstOccurrences(s) \in Seq(X)
           /\ \A k, l \in 1..Len(FirstOccurrences(s)) :
                 FirstOccurrences(s)[k] = FirstOccurrences(s)[l] => k = l
  <1> DEFINE firsts == {n \in DOMAIN s : \A m \in 1..n - 1 : s[m] # s[n]}
             places == [n \in 1..Len(s) |-> n]
             order  == Among(places, firsts)
             found  == [k \in 1..Len(order) |-> s[order[k]]]
  <1>1. FirstOccurrences(s) = found
    BY DEF FirstOccurrences
  <1>2. Len(s) \in Nat /\ DOMAIN s = 1..Len(s)
    OBVIOUS
  <1>3. places \in Seq(Nat) /\ Len(places) = Len(s) /\ \A k \in 1..Len(s) : places[k] = k
    BY <1>2
  <1>4. /\ order \in Seq(Nat) /\ Len(order) \in Nat
        /\ \A k \in 1..Len(order) : order[k] \in firsts
        /\ \A k, l \in 1..Len(order) : order[k] = order[l] => k = l
    <2> HIDE DEF places, firsts
    <2>1. order \in Seq(Nat) /\ \A k \in 1..Len(order) : order[k] \in firsts
      BY <1>3, AmongProperties
    <2>2. \A k, l \in 1..Len(places) : places[k] = places[l] => k = l
      BY <1>3
    <2>3. \A k, l \in 1..Len(order) : order[k] = order[l] => k = l
      BY <1>3, <2>2, AmongInjective
    <2> HIDE DEF order
    <2>4. QED
      BY <2>1, <2>3
  <1> HIDE DEF order, places
  <1>5. \A k \in 1..Len(order) : order[k] \in 1..Len(s) /\ s[order[k]] \in X
    BY <1>2, <1>4
  <1>6. found \in Seq(X) /\ Len(found) = Len(order) /\ \A k \in 1..Len(order) : found[k] = s[order[k]]
    BY <1>4, <1>5
  <1>7. ASSUME NEW k \in 1..Len(order), NEW l \in 1..Len(order), s[order[k]] = s[order[l]]
        PROVE  k = l
    <2>1. \A m, n \in firsts : s[m] = s[n] => m = n
      BY <1>2
    <2> HIDE DEF firsts
    <2>2. order[k] = order[l]
      BY <1>4, <1>7, <2>1
    <2>3. QED
      BY <1>4, <2>2
  <1> HIDE DEF found
  <1>8. \A k, l \in 1..Len(found) : found[k] = found[l] => k = l
    BY <1>6, <1>7
  <1>9. QED
    BY <1>1, <1>6, <1>8
-----------------------------------------------------------------------------
(***************************************************************************)
(* Units and their retry state                                             *)
(***************************************************************************)

\* A table of retry states is a function from some units.
LEMMA TableOf == ASSUME NEW D \in SUBSET Units, NEW p \in [D -> RetryState] PROVE p \in Tables
  BY DEF Tables

LEMMA TableIs ==
    ASSUME NEW p \in Tables
    PROVE  DOMAIN p \in SUBSET Units /\ p \in [DOMAIN p -> RetryState]
  <1>1. PICK D \in SUBSET Units : p \in [D -> RetryState]
    BY DEF Tables
  <1>2. DOMAIN p = D
    BY <1>1
  <1>3. QED
    BY <1>1, <1>2

LEMMA NoTable == <<>> \in Tables /\ DOMAIN <<>> = {}
  <1>1. DOMAIN <<>> = {}
    OBVIOUS
  <1>2. <<>> = [u \in {} |-> [attempts |-> 0, due |-> 0]]
    BY <1>1
  <1>3. <<>> \in [{} -> RetryState]
    BY <1>2
  <1>4. QED
    BY <1>1, <1>3, TableOf

LEMMA UpdateTable ==
    ASSUME NEW p \in Tables, NEW u \in Units, NEW v \in RetryState
    PROVE  /\ Update(p, u, v) \in Tables /\ DOMAIN Update(p, u, v) = DOMAIN p \cup {u}
           /\ Update(p, u, v)[u] = v
           /\ \A x \in DOMAIN p : x # u => Update(p, u, v)[x] = p[x]
  <1>1. DOMAIN p \in SUBSET Units /\ p \in [DOMAIN p -> RetryState]
    BY TableIs
  <1>2. Update(p, u, v) \in [DOMAIN p \cup {u} -> RetryState]
    BY <1>1 DEF Update
  <1>3. DOMAIN p \cup {u} \in SUBSET Units
    BY <1>1
  <1>4. QED
    BY <1>2, <1>3, TableOf DEF Update

LEMMA WithoutTable ==
    ASSUME NEW p \in Tables, NEW ks
    PROVE  /\ Without(p, ks) \in Tables /\ DOMAIN Without(p, ks) = DOMAIN p \ ks
           /\ \A x \in DOMAIN p \ ks : Without(p, ks)[x] = p[x]
  <1>1. DOMAIN p \in SUBSET Units /\ p \in [DOMAIN p -> RetryState]
    BY TableIs
  <1>2. Without(p, ks) \in [DOMAIN p \ ks -> RetryState]
    BY <1>1 DEF Without
  <1>3. DOMAIN p \ ks \in SUBSET Units
    BY <1>1
  <1>4. QED
    BY <1>2, <1>3, TableOf DEF Without

\* A delay is never shorter than the base delay.
LEMMA DelayRange == ASSUME NEW a \in Nat PROVE Delay(a) \in Nat /\ Delay(a) >= Base
  <1>1. Exponent(a) \in 0..16
    BY DEF Exponent, MaxExponent, Least
  <1>2. PICK e \in 0..16 : e = Exponent(a)
    BY <1>1
  <1>3. PICK d \in Nat \ {0} : d = 2 ^ e
    <2>1. \/ e = 0 \/ e = 1 \/ e = 2 \/ e = 3 \/ e = 4 \/ e = 5 \/ e = 6 \/ e = 7 \/ e = 8
          \/ e = 9 \/ e = 10 \/ e = 11 \/ e = 12 \/ e = 13 \/ e = 14 \/ e = 15 \/ e = 16
      OBVIOUS
    <2> DEFINE Positive(n) == \E d \in Nat \ {0} : d = 2 ^ n
    <2>2. /\ Positive(0) /\ Positive(1) /\ Positive(2) /\ Positive(3) /\ Positive(4)
          /\ Positive(5) /\ Positive(6) /\ Positive(7) /\ Positive(8) /\ Positive(9)
          /\ Positive(10) /\ Positive(11) /\ Positive(12) /\ Positive(13) /\ Positive(14)
          /\ Positive(15) /\ Positive(16)
      OBVIOUS
    <2> HIDE DEF Positive
    <2>3. Positive(e)
      BY <2>1, <2>2
    <2>4. QED
      BY <2>3 DEF Positive
  <1> DEFINE longest == IF Base > Longest THEN Base ELSE Longest
  <1>4. Delay(a) = Least(Base * d, longest)
    BY <1>2, <1>3, Zenon DEF Delay
  <1>5. Base * d \in Nat /\ Base * d >= Base
    BY FindarrAssumption
  <1>6. longest \in Nat /\ longest >= Base
    BY FindarrAssumption
  <1> HIDE DEF longest
  <1>7. QED
    BY <1>4, <1>5, <1>6, FindarrAssumption DEF Least

\* The retry state after one finished search.
LEMMA BackoffTable ==
    ASSUME NEW p \in Tables, NEW s \in Rows, NEW o \in Outcomes
    PROVE  /\ Backoff(p, s, o) \in Tables /\ DOMAIN Backoff(p, s, o) = DOMAIN p
           /\ \A u \in DOMAIN p : \/ Backoff(p, s, o)[u] = p[u] /\ (u # s.unit \/ o = "unknown")
                                  \/ /\ u = s.unit /\ o # "unknown" /\ Backoff(p, s, o)[u].due >= s.ts
                                     /\ o \in {"grabbed", "not_found"}
                                          => Backoff(p, s, o)[u].due >= s.ts + Base
  <1>1. DOMAIN p \in SUBSET Units /\ p \in [DOMAIN p -> RetryState]
    BY TableIs
  <1>2. CASE s.unit \notin DOMAIN p \/ o = "unknown"
    <2>1. Backoff(p, s, o) = p
      BY <1>2 DEF Backoff
    <2>2. QED
      BY <1>2, <2>1
  <1>3. CASE ~(s.unit \notin DOMAIN p \/ o = "unknown")
    <2> DEFINE old == p[s.unit].attempts
               v == CASE o = "grabbed"   -> [attempts |-> 0, due |-> s.ts + Delay(0)]
                      [] o = "not_found" -> [attempts |-> old + 1, due |-> s.ts + Delay(old + 1)]
                      [] OTHER           -> [attempts |-> old, due |-> s.ts]
    <2>1. Backoff(p, s, o) = [p EXCEPT ![s.unit] = v]
      BY <1>3 DEF Backoff
    <2>2. s.ts \in Nat /\ old \in Nat /\ old + 1 \in Nat
      BY <1>1, <1>3 DEF Rows, RetryState
    <2>3. Delay(0) \in Nat /\ Delay(0) >= Base /\ Delay(old + 1) \in Nat /\ Delay(old + 1) >= Base
      <3> HIDE DEF old
      <3> QED BY <2>2, DelayRange
    <2>4. v \in RetryState /\ v.due >= s.ts /\ (o \in {"grabbed", "not_found"} => v.due >= s.ts + Base)
      <3>1. Base \in Nat
        BY FindarrAssumption
      <3> HIDE DEF old
      <3>2. CASE o = "grabbed"
        BY <2>2, <2>3, <3>1, <3>2 DEF RetryState
      <3>3. CASE o = "not_found"
        BY <2>2, <2>3, <3>1, <3>3 DEF RetryState
      <3>4. CASE o # "grabbed" /\ o # "not_found"
        <4>1. v = [attempts |-> old, due |-> s.ts]
          BY <3>4
        <4>2. QED
          BY <2>2, <3>4, <4>1 DEF RetryState
      <3>5. QED
        BY <3>2, <3>3, <3>4
    <2> HIDE DEF v
    <2>5. [p EXCEPT ![s.unit] = v] \in [DOMAIN p -> RetryState]
      BY <1>1, <2>4
    <2>6. [p EXCEPT ![s.unit] = v] \in Tables
      BY <1>1, <2>5, TableOf
    <2>7. QED
      BY <1>1, <1>3, <2>1, <2>4, <2>6
  <1>4. QED
    BY <1>2, <1>3

\* The recursive function that BackoffAll is made of exists.
LEMMA BackoffAllDefined ==
    ASSUME NEW done, Len(done) \in Nat, NEW outcome
    PROVE  \E f : /\ f[0] = processed
                  /\ \A n \in 1..Len(done) : f[n] = Backoff(f[n - 1], done[n].search, outcome[n])
                  /\ BackoffAll(done, outcome) = f[Len(done)]
  <1> DEFINE Step(f, n) == IF n = 0 THEN processed ELSE Backoff(f[n - 1], done[n].search, outcome[n])
             Fits(f, m) == f = [n \in 0..m |-> Step(f, n)]
             T == {m \in 0..Len(done) : \E f : Fits(f, m)}
  <1>1. 0 \in T
    <2>1. Fits([n \in 0..0 |-> processed], 0)
      OBVIOUS
    <2> HIDE DEF Fits
    <2>2. QED
      BY <2>1
  <1>2. ASSUME NEW m \in 1..Len(done), m - 1 \in T
        PROVE  m \in T
    <2>1. PICK f : Fits(f, m - 1)
      BY <1>2
    <2> DEFINE g == [n \in 0..m |-> IF n < m THEN f[n] ELSE Backoff(f[n - 1], done[n].search, outcome[n])]
    <2>2. ASSUME NEW n \in 0..m
          PROVE  g[n] = Step(g, n)
      <3>1. CASE n < m
        <4>1. n \in 0..m - 1 /\ (n # 0 => n - 1 \in 0..m - 1)
          BY <3>1
        <4>2. f[n] = Step(f, n)
          BY <2>1, <4>1
        <4>3. g[n] = f[n] /\ (n # 0 => g[n - 1] = f[n - 1])
          BY <3>1, <4>1
        <4>4. QED
          BY <4>2, <4>3
      <3>2. CASE n = m
        <4>1. g[m - 1] = f[m - 1]
          OBVIOUS
        <4>2. QED
          BY <3>2, <4>1
      <3>3. QED
        BY <3>1, <3>2
    <2>3. Fits(g, m)
      <3> HIDE DEF Step
      <3> QED BY <2>2
    <2> HIDE DEF Fits, g
    <2>4. QED
      BY <2>3
  <1>3. Len(done) \in T
    <2> HIDE DEF T
    <2>1. 0..Len(done) \subseteq T
      BY <1>1, <1>2, UpTo
    <2>2. QED
      BY <2>1
  <1> DEFINE F == CHOOSE f : Fits(f, Len(done))
  <1>4. Fits(F, Len(done))
    BY <1>3
  <1>5. BackoffAll(done, outcome) = F[Len(done)]
    BY DEF BackoffAll
  <1>6. F[0] = processed /\ \A n \in 1..Len(done) : F[n] = Backoff(F[n - 1], done[n].search, outcome[n])
    <2> HIDE DEF F
    <2> DEFINE G == [n \in 0..Len(done) |-> Step(F, n)]
    <2>1. F = G
      BY <1>4
    <2>2. G[0] = processed /\ \A n \in 1..Len(done) : G[n] = Backoff(F[n - 1], done[n].search, outcome[n])
      OBVIOUS
    <2> HIDE DEF G
    <2>3. QED
      BY <2>1, <2>2
  <1>7. QED
    BY <1>5, <1>6

\* What resolving searches does to the retry state: no unit comes or goes, and
\* a unit is not due before a time b unless one of its searches makes it so.
Spares(f, o, b) ==
    \/ o = "unknown" \/ f.search.ts >= b
    \/ o \in {"grabbed", "not_found"} /\ f.search.ts + Base >= b
LEMMA BackoffAllTable ==
    ASSUME processed \in Tables, NEW done \in Seq(Findings),
           NEW outcome \in [1..Len(done) -> Outcomes]
    PROVE  /\ BackoffAll(done, outcome) \in Tables
           /\ DOMAIN BackoffAll(done, outcome) = DOMAIN processed
           /\ \A u \in DOMAIN processed : \A b \in Nat :
                 /\ processed[u].due >= b
                 /\ \A k \in 1..Len(done) : done[k].search.unit = u => Spares(done[k], outcome[k], b)
                 => BackoffAll(done, outcome)[u].due >= b
  <1>1. Len(done) \in Nat
    OBVIOUS
  <1>2. PICK f : /\ f[0] = processed
                 /\ \A n \in 1..Len(done) : f[n] = Backoff(f[n - 1], done[n].search, outcome[n])
                 /\ BackoffAll(done, outcome) = f[Len(done)]
    BY <1>1, BackoffAllDefined
  <1> DEFINE Spared(u, b) == \A k \in 1..Len(done) : done[k].search.unit = u => Spares(done[k], outcome[k], b)
             Good(p) == /\ p \in Tables /\ DOMAIN p = DOMAIN processed
                        /\ \A u \in DOMAIN processed : \A b \in Nat :
                              processed[u].due >= b /\ Spared(u, b) => p[u].due >= b
             T == {n \in 0..Len(done) : Good(f[n])}
  <1>3. 0 \in T
    BY <1>1, <1>2
  <1>4. ASSUME NEW n \in 1..Len(done), n - 1 \in T
        PROVE  n \in T
    <2> DEFINE p == f[n - 1]
               q == f[n]
               s == done[n].search
               o == outcome[n]
    <2>1. q = Backoff(p, s, o) /\ s \in Rows /\ o \in Outcomes /\ Good(p)
      <3> HIDE DEF Good
      <3>1. q = Backoff(p, s, o)
        BY <1>2
      <3>2. s \in Rows /\ o \in Outcomes
        <4>1. done[n] \in Findings
          BY <1>1
        <4>2. QED
          BY <4>1 DEF Findings
      <3>3. QED
        BY <1>4, <3>1, <3>2
    <2> HIDE DEF p, q, Good
    <2>2. p \in Tables /\ DOMAIN p = DOMAIN processed
      BY <2>1 DEF Good
    <2>3. /\ q \in Tables /\ DOMAIN q = DOMAIN p
          /\ \A u \in DOMAIN p : \/ q[u] = p[u] /\ (u # s.unit \/ o = "unknown")
                                 \/ /\ u = s.unit /\ o # "unknown" /\ q[u].due >= s.ts
                                    /\ o \in {"grabbed", "not_found"} => q[u].due >= s.ts + Base
      <3> HIDE DEF s, o
      <3>1. /\ Backoff(p, s, o) \in Tables /\ DOMAIN Backoff(p, s, o) = DOMAIN p
            /\ \A u \in DOMAIN p :
                  \/ Backoff(p, s, o)[u] = p[u] /\ (u # s.unit \/ o = "unknown")
                  \/ /\ u = s.unit /\ o # "unknown" /\ Backoff(p, s, o)[u].due >= s.ts
                     /\ o \in {"grabbed", "not_found"} => Backoff(p, s, o)[u].due >= s.ts + Base
        BY <2>1, <2>2, BackoffTable
      <3>2. QED
        BY <2>1, <3>1
    <2>4. ASSUME NEW u \in DOMAIN processed, NEW b \in Nat, processed[u].due >= b, Spared(u, b)
          PROVE  q[u].due >= b
      <3>1. p[u].due >= b
        BY <2>1, <2>4 DEF Good
      <3>2. u = s.unit => Spares(done[n], o, b)
        BY <2>4
      <3>3. s.ts \in Nat /\ Base \in Nat /\ q[u].due \in Nat
        <4>1. q \in [DOMAIN q -> RetryState]
          BY <2>3, TableIs
        <4>2. QED
          BY <2>1, <2>2, <2>3, <4>1, FindarrAssumption DEF Rows, RetryState
      <3>4. CASE q[u] = p[u]
        BY <3>1, <3>4
      <3>5. CASE u = s.unit /\ q[u].due >= s.ts /\ (o \in {"grabbed", "not_found"} => q[u].due >= s.ts + Base)
                 /\ o # "unknown"
        BY <3>2, <3>3, <3>5 DEF Spares
      <3>6. QED
        BY <2>2, <2>3, <3>4, <3>5
    <2>5. Good(q)
      BY <2>2, <2>3, <2>4 DEF Good
    <2>6. QED
      BY <2>5 DEF q
  <1>5. Len(done) \in T
    <2> HIDE DEF T, Good
    <2>1. 0..Len(done) \subseteq T
      BY <1>1, <1>3, <1>4, UpTo
    <2>2. QED
      BY <1>1, <2>1
  <1>6. QED
    BY <1>2, <1>5
-----------------------------------------------------------------------------
(***************************************************************************)
(* What a run selects                                                      *)
(***************************************************************************)

\* The Arrs' lists hold items.
LEMMA RecordsAreItems == ASSUME NEW a, NEW mode PROVE WantedRecords(a, mode) \in Seq(Items)
  <1>1. \A items : Listed(a, items) \in Seq(Items)
    BY FindarrAssumption, AmongProperties DEF Listed
  <1>2. QED
    BY <1>1, ConcatProperties DEF WantedRecords

\* The units of a list of distinct items are distinct.
LEMMA UnitsBuilt ==
    ASSUME NEW a \in Apps, NEW mode \in Modes, NEW items \in Seq(Items),
           \A k, l \in 1..Len(items) : items[k] = items[l] => k = l
    PROVE  LET units == BuildUnits(a, mode, items) IN
           /\ units \in Seq(Wanted)
           /\ \A k \in 1..Len(units) : units[k].app = a /\ units[k].mode = mode
           /\ \A k, l \in 1..Len(units) : IdOf(units[k]) = IdOf(units[l]) => k = l
  <1> DEFINE g == GranularityOf(a, mode)
             members == Among(items, {i \in Items : Groupable(i, g)})
             each == [n \in 1..Len(members) |-> KeyOf(members[n], g)]
             keys == IF g \in {"seasons", "shows"} THEN FirstOccurrences(each) ELSE each
             Unit(n) == LET mine == {i \in ToSet(members) : KeyOf(i, g) = keys[n]}
                        IN [app |-> a, mode |-> mode, key |-> keys[n],
                            monitored |-> mine \ Unmonitored # {}, future |-> mine \subseteq Future]
             units == [n \in 1..Len(keys) |-> Unit(n)]
  <1>1. BuildUnits(a, mode, items) = units
    BY DEF BuildUnits
  <1>2. g \in Grains
    BY FindarrAssumption DEF GranularityOf, Grains
  <1>3. members \in Seq(Items) /\ \A k, l \in 1..Len(members) : members[k] = members[l] => k = l
    BY AmongProperties, AmongInjective
  <1> HIDE DEF g, members
  <1>4. each \in Seq(Keys) /\ Len(each) = Len(members)
    <2>1. Len(members) \in Nat /\ \A n \in 1..Len(members) : members[n] \in Items
      BY <1>3
    <2>2. \A n \in 1..Len(members) : KeyOf(members[n], g) \in Keys
      BY <1>2, <2>1 DEF Keys
    <2>3. each \in [1..Len(members) -> Keys]
      BY <2>2
    <2>4. QED
      BY <2>1, <2>3
  <1>5. keys \in Seq(Keys) /\ \A k, l \in 1..Len(keys) : keys[k] = keys[l] => k = l
    <2>1. CASE g \in {"seasons", "shows"}
      <3> HIDE DEF each
      <3> QED BY <1>4, <2>1, FirstOccurrencesOnce
    <2>2. CASE g \notin {"seasons", "shows"}
      <3>1. keys = each
        BY <2>2
      <3>2. \A i : KeyOf(i, g) = <<g, i>>
        BY <2>2 DEF KeyOf
      <3>3. \A k \in 1..Len(members) : each[k] = <<g, members[k]>>
        BY <3>2
      <3>4. \A k, l \in 1..Len(each) : each[k] = each[l] => k = l
        BY <1>3, <1>4, <3>3
      <3>5. QED
        BY <1>4, <3>1, <3>4
    <2>3. QED
      BY <2>1, <2>2
  <1> HIDE DEF keys
  <1>6. ASSUME NEW n \in 1..Len(keys)
        PROVE  Unit(n) \in Wanted /\ Unit(n).app = a /\ Unit(n).mode = mode /\ Unit(n).key = keys[n]
    <2>1. keys[n] \in Keys
      BY <1>5
    <2>2. QED
      BY <2>1 DEF Wanted
  <1> HIDE DEF Unit
  <1>7. Len(keys) \in Nat
    BY <1>5
  <1>8. units \in [1..Len(keys) -> Wanted]
    BY <1>6
  <1>9. units \in Seq(Wanted) /\ Len(units) = Len(keys) /\ \A n \in 1..Len(keys) : units[n] = Unit(n)
    BY <1>7, <1>8
  <1>10. \A k, l \in 1..Len(keys) : IdOf(units[k]) = IdOf(units[l]) => k = l
    <2>1. \A k, l \in 1..Len(keys) : IdOf(units[k]) = IdOf(units[l]) => keys[k] = keys[l]
      BY <1>6, <1>9 DEF IdOf
    <2>2. QED
      BY <1>5, <2>1
  <1> HIDE DEF units
  <1>11. QED
    BY <1>1, <1>6, <1>9, <1>10

\* What is selected is due, fits the limit and is selected once.
LEMMA UnitsSelected ==
    ASSUME NEW units \in Seq(Wanted), NEW retry, NEW limit \in Nat,
           \A k, l \in 1..Len(units) : IdOf(units[k]) = IdOf(units[l]) => k = l
    PROVE  LET todo == SelectUnits(units, retry, limit) IN
           /\ todo \in Seq(Wanted) /\ Len(todo) <= limit
           /\ \A k \in 1..Len(todo) : todo[k] \in ToSet(units) /\ UnitDue(todo[k], retry)
           /\ \A k, l \in 1..Len(todo) : IdOf(todo[k]) = IdOf(todo[l]) => k = l
  <1> DEFINE dues == {u \in ToSet(units) : UnitDue(u, retry)}
             known == {u \in ToSet(units) : IdOf(u) \in DOMAIN retry}
             due == Among(units, dues)
             fresh == ToSet(units) \ known
             first == Among(due, fresh)
             last == Among(due, known)
             sorted == first \o last
             size == Least(limit, Len(sorted))
             todo == SubSeq(sorted, 1, size)
  <1>1. SelectUnits(units, retry, limit) = todo
    BY DEF SelectUnits
  <1>2. /\ due \in Seq(Wanted)
        /\ \A k \in 1..Len(due) : due[k] \in dues
        /\ \A k, l \in 1..Len(due) : IdOf(due[k]) = IdOf(due[l]) => k = l
    <2> HIDE DEF dues
    <2>1. /\ due \in Seq(Wanted) /\ \A k \in 1..Len(due) : due[k] \in dues
          /\ \A i \in 1..Len(due) : \E k \in 1..Len(units) : units[k] = due[i]
      <3>1. Among(units, dues) \in Seq(Wanted)
        BY AmongProperties
      <3>2. \A k \in 1..Len(Among(units, dues)) : Among(units, dues)[k] \in dues
        BY AmongProperties
      <3>3. \A i \in 1..Len(Among(units, dues)) : \E k \in 1..Len(units) : units[k] = Among(units, dues)[i]
        BY AmongProperties
      <3>4. QED
        BY <3>1, <3>2, <3>3
    <2>2. \A k, l \in 1..Len(units) : units[k] = units[l] => k = l
      OBVIOUS
    <2>3. \A k, l \in 1..Len(due) : due[k] = due[l] => k = l
      BY <2>2, AmongInjective
    <2> HIDE DEF due
    <2>4. ASSUME NEW k \in 1..Len(due), NEW l \in 1..Len(due), IdOf(due[k]) = IdOf(due[l])
          PROVE  k = l
      <3>1. PICK m \in 1..Len(units) : units[m] = due[k]
        BY ZenonT(30), <2>1
      <3>2. PICK n \in 1..Len(units) : units[n] = due[l]
        BY ZenonT(30), <2>1
      <3>3. m = n
        BY <2>4, <3>1, <3>2
      <3>4. QED
        BY <2>3, <3>1, <3>2, <3>3
    <2>5. QED
      BY <2>1, <2>4
  <1> HIDE DEF due
  <1>3. /\ first \in Seq(Wanted)
        /\ \A k \in 1..Len(first) : first[k] \notin known /\ first[k] \in dues
        /\ \A k, l \in 1..Len(first) : IdOf(first[k]) = IdOf(first[l]) => k = l
    <2>1. \A x \in fresh : x \notin known
      OBVIOUS
    <2> HIDE DEF fresh, known, dues
    <2>2. /\ first \in Seq(Wanted) /\ \A k \in 1..Len(first) : first[k] \in fresh
          /\ \A i \in 1..Len(first) : \E k \in 1..Len(due) : due[k] = first[i]
      BY <1>2, AmongProperties
    <2>3. \A k, l \in 1..Len(first) : first[k] = first[l] => k = l
      BY <1>2, AmongInjective
    <2> HIDE DEF first
    <2>4. ASSUME NEW k \in 1..Len(first), NEW l \in 1..Len(first), IdOf(first[k]) = IdOf(first[l])
          PROVE  k = l
      <3>1. PICK m, n \in 1..Len(due) : due[m] = first[k] /\ due[n] = first[l]
        BY <2>2
      <3>2. m = n
        BY <1>2, <2>4, <3>1
      <3>3. QED
        BY <2>3, <3>1, <3>2
    <2>5. QED
      BY <1>2, <2>1, <2>2, <2>4
  <1>4. /\ last \in Seq(Wanted)
        /\ \A k \in 1..Len(last) : last[k] \in known /\ last[k] \in dues
        /\ \A k, l \in 1..Len(last) : IdOf(last[k]) = IdOf(last[l]) => k = l
    <2> HIDE DEF known, dues
    <2>2. /\ last \in Seq(Wanted) /\ \A k \in 1..Len(last) : last[k] \in known
          /\ \A i \in 1..Len(last) : \E k \in 1..Len(due) : due[k] = last[i]
      BY <1>2, AmongProperties
    <2>3. \A k, l \in 1..Len(last) : last[k] = last[l] => k = l
      BY <1>2, AmongInjective
    <2> HIDE DEF last
    <2>4. ASSUME NEW k \in 1..Len(last), NEW l \in 1..Len(last), IdOf(last[k]) = IdOf(last[l])
          PROVE  k = l
      <3>1. PICK m, n \in 1..Len(due) : due[m] = last[k] /\ due[n] = last[l]
        BY <2>2
      <3>2. m = n
        BY <1>2, <2>4, <3>1
      <3>3. QED
        BY <2>3, <3>1, <3>2
    <2>5. QED
      BY <1>2, <2>2, <2>4
  <1>5. \A u \in dues, v \in dues : u \notin known /\ v \in known => IdOf(u) # IdOf(v)
    OBVIOUS
  <1>6. \A u \in dues : u \in ToSet(units) /\ UnitDue(u, retry)
    OBVIOUS
  <1> HIDE DEF first, last, fresh, known, dues
  <1>7. /\ sorted \in Seq(Wanted)
        /\ \A k \in 1..Len(sorted) : sorted[k] \in dues
        /\ \A k, l \in 1..Len(sorted) : IdOf(sorted[k]) = IdOf(sorted[l]) => k = l
    <2>1. sorted \in Seq(Wanted) /\ Len(sorted) = Len(first) + Len(last)
      BY <1>3, <1>4
    <2>2. \A k \in 1..Len(sorted) : \/ k \in 1..Len(first) /\ sorted[k] = first[k]
                                    \/ k - Len(first) \in 1..Len(last) /\ sorted[k] = last[k - Len(first)]
      BY <1>3, <1>4
    <2>3. \A k \in 1..Len(sorted) : sorted[k] \in dues
      <3> HIDE DEF sorted
      <3> QED BY <1>3, <1>4, <2>2
    <2>4. ASSUME NEW k \in 1..Len(sorted), NEW l \in 1..Len(sorted), IdOf(sorted[k]) = IdOf(sorted[l])
          PROVE  k = l
      <3> HIDE DEF sorted
      <3>1. Len(first) \in Nat /\ k \in Int /\ l \in Int
        BY <1>3, <2>1
      <3>2. CASE k \in 1..Len(first) /\ sorted[k] = first[k] /\ l \in 1..Len(first) /\ sorted[l] = first[l]
        BY <1>3, <2>4, <3>2
      <3>3. CASE /\ k - Len(first) \in 1..Len(last) /\ sorted[k] = last[k - Len(first)]
                 /\ l - Len(first) \in 1..Len(last) /\ sorted[l] = last[l - Len(first)]
        <4>1. k - Len(first) = l - Len(first)
          BY <1>4, <2>4, <3>3
        <4>2. QED
          BY <3>1, <4>1
      <3>4. CASE k \in 1..Len(first) /\ sorted[k] = first[k]
                 /\ l - Len(first) \in 1..Len(last) /\ sorted[l] = last[l - Len(first)]
        BY <1>3, <1>4, <1>5, <2>4, <3>4
      <3>5. CASE l \in 1..Len(first) /\ sorted[l] = first[l]
                 /\ k - Len(first) \in 1..Len(last) /\ sorted[k] = last[k - Len(first)]
        BY <1>3, <1>4, <1>5, <2>4, <3>5
      <3>6. QED
        BY <2>2, <3>2, <3>3, <3>4, <3>5
    <2>5. QED
      BY <2>1, <2>3, <2>4
  <1> HIDE DEF sorted
  <1>8. size \in Nat /\ size <= limit /\ size <= Len(sorted)
    BY <1>7 DEF Least
  <1> HIDE DEF size
  <1>9. /\ todo \in Seq(Wanted) /\ Len(todo) = size
        /\ \A k \in 1..size : todo[k] = sorted[k] /\ k \in 1..Len(sorted)
    BY <1>7, <1>8, Beginning
  <1> HIDE DEF todo
  <1>10. /\ \A k \in 1..Len(todo) : todo[k] \in ToSet(units) /\ UnitDue(todo[k], retry)
         /\ \A k, l \in 1..Len(todo) : IdOf(todo[k]) = IdOf(todo[l]) => k = l
    BY <1>6, <1>7, <1>9
  <1>11. QED
    BY <1>1, <1>8, <1>9, <1>10
-----------------------------------------------------------------------------
(***************************************************************************)
(* Types                                                                   *)
(***************************************************************************)

\* The places of a run that others move it to.
LEMMA IdleShape ==
    ASSUME NEW n \in Nat, n <= MaxCommands
    PROVE  /\ Idle \in RunType /\ Shape(Idle, n)
           /\ \A names \in Seq(Apps) : names # <<>> =>
                LET r == [Idle EXCEPT !.at = "app", !.apps = names] IN r \in RunType /\ Shape(r, n)
  <1>1. <<>> \in Tables
    BY NoTable
  <1>2. Idle \in RunType
    BY <1>1 DEF Idle, RunType, Places
  <1>3. Shape(Idle, n)
    BY FindarrAssumption DEF Idle, Shape
  <1>4. ASSUME NEW names \in Seq(Apps), names # <<>>
        PROVE  LET r == [Idle EXCEPT !.at = "app", !.apps = names] IN r \in RunType /\ Shape(r, n)
    <2> DEFINE r == [Idle EXCEPT !.at = "app", !.apps = names]
    <2>1. r \in RunType
      BY <1>2 DEF RunType, Places
    <2>2. r.at = "app" /\ r.apps = names /\ r.pending = Idle.pending /\ r.finished = Idle.finished
      BY <1>2 DEF RunType
    <2>3. Idle.pending = <<>> /\ Idle.finished = <<>>
      BY DEF Idle
    <2> HIDE DEF r
    <2>4. Shape(r, n)
      BY <1>4, <2>2, <2>3, FindarrAssumption DEF Shape
    <2>5. QED
      BY <2>1, <2>4 DEF r
  <1>5. QED
    BY <1>2, <1>3, <1>4

LEMMA NextAppShape ==
    ASSUME NEW r \in RunType, r.apps # <<>>, NEW n \in Nat, n <= MaxCommands
    PROVE  NextApp(r) \in RunType /\ Shape(NextApp(r), n) /\ NextApp(r).at \in {"idle", "app"}
  <1>1. r.apps \in Seq(Apps) /\ (Len(r.apps) # 1 => Tail(r.apps) \in Seq(Apps) /\ Tail(r.apps) # <<>>)
    <2>1. r.apps \in Seq(Apps)
      BY DEF RunType
    <2>2. Tail(r.apps) \in Seq(Apps) /\ Len(Tail(r.apps)) = Len(r.apps) - 1 /\ Len(r.apps) \in Nat \ {0}
      BY <2>1, RestOfList
    <2> DEFINE t == Tail(r.apps)
    <2>3. t \in Seq(Apps) /\ (Len(r.apps) # 1 => Len(t) # 0)
      BY <2>2
    <2> HIDE DEF t
    <2>4. Len(r.apps) # 1 => t # <<>>
      BY <2>3
    <2>5. QED
      BY <2>3, <2>4 DEF t
  <1>2. QED
    BY <1>1, IdleShape DEF NextApp, Idle

LEMMA EnterModeShape ==
    ASSUME NEW r \in RunType, r.apps # <<>>, NEW n \in Nat, n <= MaxCommands,
           r.pending = <<>>, r.finished = <<>>, RemainingCapacity \in Nat
    PROVE  /\ EnterMode(r) \in RunType /\ Shape(EnterMode(r), n)
           /\ EnterMode(r).at \in {"idle", "app", "fetch"}
           /\ EnterMode(r).at = "fetch" => EnterMode(r).limit <= RemainingCapacity
  <1> DEFINE Limit(k) == Least(ModeLimit[Head(r.apps), r.modes[k]], RemainingCapacity)
             open == {k \in DOMAIN r.modes : Limit(k) > 0}
  <1>1. r.apps \in Seq(Apps) /\ r.modes \in Seq(Modes) /\ Head(r.apps) \in Apps
    <2>1. r.apps \in Seq(Apps) /\ r.modes \in Seq(Modes)
      BY DEF RunType
    <2>2. QED
      BY <2>1, RestOfList
  <1>2. DOMAIN r.modes = 1..Len(r.modes) /\ Len(r.modes) \in Nat
    BY <1>1
  <1>3. ASSUME NEW k \in DOMAIN r.modes
        PROVE  Limit(k) \in Nat /\ Limit(k) <= RemainingCapacity
    <2>1. r.modes[k] \in Modes
      BY <1>1
    <2> DEFINE most == ModeLimit[Head(r.apps), r.modes[k]]
    <2>2. most \in Nat
      BY <1>1, <2>1, FindarrAssumption
    <2>3. Limit(k) = Least(most, RemainingCapacity)
      OBVIOUS
    <2> HIDE DEF most, Limit
    <2>4. QED
      BY <2>2, <2>3 DEF Least
  <1>4. CASE open = {}
    BY <1>4, NextAppShape DEF EnterMode
  <1>5. CASE open # {}
    <2> DEFINE k == CHOOSE k \in open : \A l \in open : k <= l
               rest == SubSeq(r.modes, k, Len(r.modes))
               limit == Limit(k)
               fetch == [r EXCEPT !.at = "fetch", !.limit = limit, !.retry = <<>>, !.modes = rest]
    <2>1. EnterMode(r) = fetch
      BY <1>5 DEF EnterMode
    <2>2. open \subseteq Nat
      <3>1. open \subseteq 1..Len(r.modes)
        BY <1>2
      <3> HIDE DEF open
      <3>2. QED
        BY <1>2, <3>1
    <2>3. k \in open
      <3> HIDE DEF open
      <3>1. \E x \in open : \A y \in open : x <= y
        BY <1>5, <2>2, LeastNatural
      <3>2. QED
        BY <3>1
    <2> HIDE DEF k
    <2>4. k \in 1..Len(r.modes) /\ limit \in Nat /\ limit <= RemainingCapacity
      <3>1. k \in DOMAIN r.modes
        BY <2>3
      <3>2. QED
        BY <1>2, <1>3, <3>1
    <2> HIDE DEF Limit, open, limit
    <2>5. rest \in Seq(Modes) /\ Len(rest) = Len(r.modes) - k + 1
      BY <1>1, <1>2, <2>4
    <2> HIDE DEF rest
    <2>6. rest # <<>>
      <3>1. Len(rest) # 0
        BY <1>2, <2>4, <2>5
      <3>2. QED
        BY <2>5, <3>1
    <2>7. fetch \in RunType
      BY <2>4, <2>5, NoTable DEF RunType, Places
    <2>8. /\ fetch.at = "fetch" /\ fetch.limit = limit /\ fetch.modes = rest /\ fetch.apps = r.apps
          /\ fetch.pending = r.pending /\ fetch.finished = r.finished
      BY DEF RunType
    <2> HIDE DEF fetch
    <2>9. Shape(fetch, n)
      BY <2>6, <2>8 DEF Shape
    <2>10. QED
      BY <2>1, <2>4, <2>7, <2>8, <2>9
  <1>6. QED
    BY <1>4, <1>5

LEMMA CapacityIs == TypeOK => RemainingCapacity \in Nat
  <1> SUFFICES ASSUME TypeOK PROVE RemainingCapacity \in Nat
    OBVIOUS
  <1>1. IsFiniteSet(SearchesSince(LogCutoff(Hour)))
    <2>1. searches \in Seq(Rows)
      BY DEF TypeOK
    <2>2. IsFiniteSet(ToSet(searches))
      BY <2>1, ListFinite
    <2>3. QED
      BY <2>2, FS_Subset DEF SearchesSince
  <1>2. Cardinality(SearchesSince(LogCutoff(Hour))) \in Nat
    BY <1>1, FS_CardinalityType
  <1>3. QED
    BY <1>2, FindarrAssumption DEF RemainingCapacity

LEMMA MoveCounts ==
    ASSUME TypeOK, NEW m \in Kinds, Move(m)
    PROVE  /\ moves' \in [Kinds -> Nat] /\ moves'[m] = moves[m] + 1
           /\ \A k \in Kinds : moves'[k] >= moves[k]
  <1>1. moves \in [Kinds -> Nat] /\ moves' = [moves EXCEPT ![m] = @ + 1]
    BY DEF TypeOK, Move
  <1>2. moves' \in [Kinds -> Nat] /\ \A k \in Kinds : moves'[k] = IF k = m THEN moves[m] + 1 ELSE moves[k]
    BY <1>1
  <1>3. \A k \in Kinds : moves[k] \in Nat
    BY <1>1
  <1>4. QED
    BY <1>2, <1>3

\* What a run's steps that only concern its own locals leave alone.
Others == <<now, tables, arrs>>
LEMMA RunOnly ==
    ASSUME IInv, UNCHANGED Others, UNCHANGED moves \/ \E m \in Kinds : Move(m),
           run' \in RunType, Shape(run', Len(commands))
    PROVE  IInv'
  <1>1. moves' \in [Kinds -> Nat]
    BY MoveCounts DEF IInv, TypeOK
  <1>2. TypeOK'
    BY <1>1 DEF IInv, TypeOK, Others, tables, arrs
  <1>3. InRun'
    BY DEF InRun, Others, arrs
  <1>4. QED
    BY <1>2, <1>3 DEF IInv

LEMMA CommandCount == IInv => Len(commands) \in Nat /\ Len(commands) <= MaxCommands
  BY DEF IInv, TypeOK, InRun, Shape

LEMMA TypeStart == ASSUME IInv, JobDue \/ RunNow PROVE IInv'
  <1>1. PICK names \in Seq(Apps) : names # <<>> /\ Start(names)
    <2>1. AppOrder \in Seq(Apps) /\ AppOrder # <<>>
      BY FindarrAssumption
    <2>2. \A a \in Apps : <<a>> \in Seq(Apps) /\ <<a>> # <<>>
      OBVIOUS
    <2>3. QED
      BY <2>1, <2>2 DEF JobDue, RunNow
  <1> DEFINE r == [Idle EXCEPT !.at = "app", !.apps = names]
  <1>2. r \in RunType /\ Shape(r, Len(commands))
    BY <1>1, IdleShape, CommandCount
  <1>3. run' = r
    BY <1>1, IdleShape, CommandCount DEF Start, Goto, Idle
  <1>4. QED
    BY <1>1, <1>2, <1>3, RunOnly DEF Start, Others

\* A row that is added to the history.
LEMMA HistoryAdded ==
    ASSUME TypeOK, NEW row \in HistoryRow
    PROVE  LET h == Update(history, lastHistory + 1, row) IN
           /\ lastHistory + 1 \in Nat /\ lastHistory + 1 \notin DOMAIN history
           /\ DOMAIN h = DOMAIN history \cup {lastHistory + 1} /\ DOMAIN h \subseteq 1..lastHistory + 1
           /\ h \in [DOMAIN h -> HistoryRow] /\ h[lastHistory + 1] = row
           /\ \A k \in DOMAIN history : h[k] = history[k]
  <1> DEFINE D == DOMAIN history
             m == lastHistory + 1
  <1>1. lastHistory \in Nat /\ D \subseteq 1..lastHistory /\ history \in [D -> HistoryRow]
    BY DEF TypeOK
  <1>2. m \in Nat /\ m \notin D /\ D \cup {m} \subseteq 1..m
    BY <1>1
  <1> HIDE DEF D, m
  <1>3. Update(history, m, row) = [x \in D \cup {m} |-> IF x = m THEN row ELSE history[x]]
    BY DEF Update, D
  <1> DEFINE h == Update(history, m, row)
  <1>4. DOMAIN h = D \cup {m} /\ h \in [D \cup {m} -> HistoryRow] /\ h[m] = row
        /\ \A k \in D : h[k] = history[k]
    BY <1>1, <1>2, <1>3
  <1> HIDE DEF h
  <1>5. QED
    BY <1>2, <1>4 DEF h, m, D

LEMMA Added ==
    ASSUME TypeOK, NEW u \in Units \cup {NoUnit}, NEW status \in {"sent", "error", "success"},
           Adds(u, status)
    PROVE  /\ lastHistory' = lastHistory + 1 /\ lastHistory \in Nat /\ lastHistory + 1 \notin DOMAIN history
           /\ DOMAIN history' = DOMAIN history \cup {lastHistory + 1}
           /\ history'[lastHistory + 1].unit = u /\ history'[lastHistory + 1].by = u
           /\ \A k \in DOMAIN history : history'[k] = history[k]
           /\ lastHistory' \in Nat /\ DOMAIN history' \subseteq 1..lastHistory'
           /\ history' \in [DOMAIN history' -> HistoryRow]
  <1> DEFINE row == [unit |-> u, status |-> status, by |-> u]
             h == Update(history, lastHistory + 1, row)
  <1>1. row \in HistoryRow /\ row.unit = u /\ row.by = u
    BY DEF HistoryRow
  <1>2. history' = h /\ lastHistory' = lastHistory + 1
    BY DEF Adds, NextHistory
  <1>3. lastHistory \in Nat
    BY DEF TypeOK
  <1> HIDE DEF row
  <1>4. /\ lastHistory + 1 \in Nat /\ lastHistory + 1 \notin DOMAIN history
        /\ DOMAIN h = DOMAIN history \cup {lastHistory + 1} /\ DOMAIN h \subseteq 1..lastHistory + 1
        /\ h \in [DOMAIN h -> HistoryRow] /\ h[lastHistory + 1] = row
        /\ \A k \in DOMAIN history : h[k] = history[k]
    BY <1>1, HistoryAdded
  <1> HIDE DEF h
  <1>5. QED
    BY <1>1, <1>2, <1>3, <1>4

LEMMA TypeSkipApp == ASSUME IInv, SkipApp PROVE IInv'
  <1>1. NextApp(run) \in RunType /\ Shape(NextApp(run), Len(commands))
    BY NextAppShape, CommandCount DEF IInv, TypeOK, InRun, Shape, SkipApp
  <1>2. /\ lastHistory' \in Nat /\ DOMAIN history' \subseteq 1..lastHistory'
        /\ history' \in [DOMAIN history' -> HistoryRow]
    BY Added DEF IInv, SkipApp
  <1>3. moves' \in [Kinds -> Nat]
    BY MoveCounts DEF IInv, SkipApp, Kinds
  <1>4. run' = NextApp(run) /\ UNCHANGED <<now, processed, searches, arrs>>
    BY DEF SkipApp
  <1>5. QED
    BY <1>1, <1>2, <1>3, <1>4 DEF IInv, TypeOK, InRun, arrs

LEMMA TypeCrash == ASSUME IInv, Crash PROVE IInv'
  BY IdleShape, CommandCount, RunOnly DEF Crash, Others, Kinds

\* A part of the rows is in the order of the rows.
LEMMA AmongInOrder ==
    ASSUME NEW s \in Seq(Rows), NEW S, InOrder(s)
    PROVE  InOrder(Among(s, S))
  <1> DEFINE a == Among(s, S)
  <1>1. a \in Seq(Rows)
    BY AmongProperties
  <1>2. \A i, j \in 1..Len(Among(s, S)) : i < j =>
           \E k, l \in 1..Len(s) : k < l /\ s[k] = Among(s, S)[i] /\ s[l] = Among(s, S)[j]
    BY AmongOrder
  <1>3. \A i, j \in 1..Len(a) : i < j => \E k, l \in 1..Len(s) : k < l /\ s[k] = a[i] /\ s[l] = a[j]
    BY <1>2
  <1> HIDE DEF a
  <1>4. ASSUME NEW i \in 1..Len(a), NEW j \in 1..Len(a), i < j
        PROVE  a[i].id < a[j].id
    <2>1. PICK k, l \in 1..Len(s) : k < l /\ s[k] = a[i] /\ s[l] = a[j]
      BY <1>3, <1>4
    <2>2. QED
      BY <2>1 DEF InOrder
  <1>5. QED
    BY <1>4 DEF a, InOrder

\* The searches that a run reads.
LEMMA PendingRead ==
    ASSUME TypeOK
    PROVE  LET mine == Among(searches, {s \in ToSet(searches) :
                                           s.unit.app = ThisApp /\ s.outcome = "pending"})
               pending == SubSeq(mine, 1, Least(LookupLimit, Len(mine)))
           IN  /\ pending \in Seq(Rows)
               /\ \A k \in 1..Len(pending) : pending[k] \in ToSet(searches) /\ pending[k].outcome = "pending"
               /\ InOrder(searches) => InOrder(pending)
  <1> DEFINE S == {s \in ToSet(searches) : s.unit.app = ThisApp /\ s.outcome = "pending"}
             mine == Among(searches, S)
             size == Least(LookupLimit, Len(mine))
             pending == SubSeq(mine, 1, size)
  <1>1. searches \in Seq(Rows) /\ DOMAIN searches = 1..Len(searches)
    BY DEF TypeOK
  <1>2. /\ mine \in Seq(Rows) /\ \A k \in 1..Len(mine) : mine[k] \in S
        /\ InOrder(searches) => InOrder(mine)
    <2> HIDE DEF S
    <2> QED BY <1>1, AmongProperties, AmongInOrder
  <1> HIDE DEF mine
  <1>3. size \in Nat /\ size <= Len(mine)
    BY SMTT(30), <1>2, FindarrAssumption DEF Least
  <1> HIDE DEF size
  <1>4. /\ pending \in Seq(Rows) /\ Len(pending) = size /\ DOMAIN pending = 1..size
        /\ \A k \in 1..size : pending[k] = mine[k] /\ k \in 1..Len(mine)
    BY <1>2, <1>3, Beginning
  <1> HIDE DEF pending
  <1>5. \A k \in 1..Len(pending) : pending[k] \in ToSet(searches) /\ pending[k].outcome = "pending"
    BY <1>2, <1>4
  <1>6. InOrder(searches) => InOrder(pending)
    BY <1>2, <1>4, DomainOf DEF InOrder
  <1>7. QED
    BY <1>4, <1>5, <1>6 DEF pending, size, mine

LEMMA TypeBeginApp == ASSUME IInv, BeginApp PROVE IInv'
  <1> DEFINE mine == Among(searches, {s \in ToSet(searches) :
                                        s.unit.app = ThisApp /\ s.outcome = "pending"})
             pending == SubSeq(mine, 1, Least(LookupLimit, Len(mine)))
             place == IF pending = <<>> THEN "queue" ELSE "lookup"
  <1>1. pending \in Seq(Rows)
    BY PendingRead DEF IInv
  <1>2. run' = [[run EXCEPT !.pending = pending] EXCEPT !.at = place] /\ UNCHANGED <<Others, moves>>
    BY DEF BeginApp, Goto, Others
  <1>3. place \in {"queue", "lookup"}
    OBVIOUS
  <1> HIDE DEF pending, place
  <1>4. run \in RunType /\ run.at = "app" /\ run.apps # <<>> /\ run.finished = <<>>
    BY DEF IInv, TypeOK, InRun, Shape, BeginApp
  <1>5. run' \in RunType /\ run'.at = place /\ run'.apps = run.apps /\ run'.finished = run.finished
    BY <1>1, <1>2, <1>3, <1>4 DEF RunType, Places
  <1>6. Shape(run', Len(commands))
    BY <1>3, <1>4, <1>5, CommandCount, FindarrAssumption DEF Shape
  <1>7. QED
    BY <1>2, <1>5, <1>6, RunOnly

\* The finished commands that a run keeps.
LEMMA FinishedRead ==
    ASSUME TypeOK, RowsGenuine, NEW n \in 0..Len(run.pending)
    PROVE  LET read == SubSeq(run.pending, 1, n)
               done == Among(read, {s \in ToSet(read) : commands[s.cmd].status # "running"})
               found == [k \in 1..Len(done) |-> [search |-> done[k], command |-> commands[done[k].cmd]]]
           IN  /\ found \in Seq(Findings) /\ (done = <<>> => found = <<>>)
               /\ \A k \in 1..Len(found) :
                     /\ found[k].search \in ToSet(run.pending)
                     /\ found[k].command = commands[found[k].search.cmd]
                     /\ found[k].command.status # "running"
               /\ InOrder(run.pending) =>
                     \A k, l \in 1..Len(found) : k < l => found[k].search.id < found[l].search.id
  <1> DEFINE read == SubSeq(run.pending, 1, n)
             S == {s \in ToSet(read) : commands[s.cmd].status # "running"}
             done == Among(read, S)
             found == [k \in 1..Len(done) |-> [search |-> done[k], command |-> commands[done[k].cmd]]]
  <1>1. run.pending \in Seq(Rows) /\ Len(run.pending) \in Nat /\ n \in Nat /\ n <= Len(run.pending)
    <2>1. run.pending \in Seq(Rows)
      BY DEF TypeOK, RunType
    <2>2. QED
      BY <2>1
  <1>2. /\ read \in Seq(Rows) /\ Len(read) = n /\ ToSet(read) \subseteq ToSet(run.pending)
        /\ \A k \in 1..n : read[k] = run.pending[k]
    BY <1>1, Beginning
  <1>3. InOrder(run.pending) => InOrder(read)
    <2> HIDE DEF read
    <2> QED BY <1>1, <1>2 DEF InOrder
  <1> HIDE DEF read
  <1>4. done \in Seq(Rows) /\ (\A k \in 1..Len(done) : done[k] \in S) /\ (InOrder(read) => InOrder(done))
    <2> HIDE DEF S
    <2> QED BY <1>2, AmongProperties, AmongInOrder
  <1>5. \A k \in 1..Len(done) : done[k] \in ToSet(run.pending) /\ commands[done[k].cmd].status # "running"
    BY <1>2, <1>4
  <1> HIDE DEF done
  <1>6. commands \in Seq(Command)
    BY DEF TypeOK
  <1>7. \A k \in 1..Len(done) : done[k].cmd \in DOMAIN commands
    BY <1>5 DEF RowsGenuine, Genuine, ReadBack
  <1>8. \A k \in 1..Len(done) : commands[done[k].cmd] \in Command
    BY <1>6, <1>7
  <1>9. \A k \in 1..Len(done) : [search |-> done[k], command |-> commands[done[k].cmd]] \in Findings
    BY <1>4, <1>8 DEF Findings
  <1>10. Len(done) \in Nat /\ (done = <<>> => Len(done) = 0)
    BY <1>4
  <1>11. found \in Seq(Findings) /\ Len(found) = Len(done)
    <2>1. found \in [1..Len(done) -> Findings]
      BY <1>9
    <2>2. QED
      BY <1>10, <2>1
  <1>12. done = <<>> => found = <<>>
    <2> HIDE DEF found
    <2> QED BY <1>10, <1>11
  <1>13. \A k \in 1..Len(done) : found[k].search = done[k] /\ found[k].command = commands[done[k].cmd]
    OBVIOUS
  <1> HIDE DEF found
  <1>14. \A k \in 1..Len(found) :
            /\ found[k].search \in ToSet(run.pending)
            /\ found[k].command = commands[found[k].search.cmd]
            /\ found[k].command.status # "running"
    BY <1>5, <1>11, <1>13
  <1>15. InOrder(run.pending) =>
            \A k, l \in 1..Len(found) : k < l => found[k].search.id < found[l].search.id
    BY <1>3, <1>4, <1>11, <1>13 DEF InOrder
  <1>16. QED
    BY <1>11, <1>12, <1>14, <1>15 DEF found, done, read

LEMMA TypeReadCommands == ASSUME IInv, RowsGenuine, ReadCommands PROVE IInv'
  <1>1. PICK n \in 0..Len(run.pending) :
           /\ IF n = Len(run.pending) THEN UNCHANGED moves ELSE Move("fail")
           /\ LET read == SubSeq(run.pending, 1, n)
                  done == Among(read, {s \in ToSet(read) : commands[s.cmd].status # "running"})
              IN Goto(IF done = <<>> THEN "queue" ELSE "resolve",
                      [run EXCEPT !.finished =
                          [k \in 1..Len(done) |-> [search |-> done[k], command |-> commands[done[k].cmd]]]])
    BY DEF ReadCommands
  <1> DEFINE read == SubSeq(run.pending, 1, n)
             done == Among(read, {s \in ToSet(read) : commands[s.cmd].status # "running"})
             found == [k \in 1..Len(done) |-> [search |-> done[k], command |-> commands[done[k].cmd]]]
             place == IF done = <<>> THEN "queue" ELSE "resolve"
  <1>2. found \in Seq(Findings) /\ (done = <<>> => found = <<>>)
    BY FinishedRead DEF IInv
  <1>3. run' = [[run EXCEPT !.finished = found] EXCEPT !.at = place]
    BY <1>1 DEF Goto
  <1>4. place \in {"queue", "resolve"} /\ (place # "resolve" => done = <<>>)
    OBVIOUS
  <1> HIDE DEF found, place, done
  <1>5. run \in RunType /\ run.apps # <<>>
    BY DEF IInv, TypeOK, InRun, Shape, ReadCommands
  <1>6. run' \in RunType /\ run'.at = place /\ run'.apps = run.apps /\ run'.finished = found
    BY <1>2, <1>3, <1>4, <1>5 DEF RunType, Places
  <1>7. Shape(run', Len(commands))
    BY <1>2, <1>4, <1>5, <1>6, CommandCount, FindarrAssumption DEF Shape
  <1>8. UNCHANGED Others /\ (UNCHANGED moves \/ \E m \in Kinds : Move(m))
    BY <1>1 DEF ReadCommands, Others, Kinds
  <1>9. QED
    BY <1>6, <1>7, <1>8, RunOnly

\* After the lookups.
LEMMA QueueShape ==
    ASSUME IInv, run.at = "resolve", run' = [[run EXCEPT !.finished = <<>>, !.pending = <<>>] EXCEPT !.at = "queue"]
    PROVE  run' \in RunType /\ Shape(run', Len(commands)) /\ run'.at = "queue"
           /\ run'.finished = <<>> /\ run'.pending = <<>>
  <1>1. run \in RunType /\ run.apps # <<>>
    BY DEF IInv, TypeOK, InRun, Shape
  <1>2. run' \in RunType /\ run'.at = "queue" /\ run'.apps = run.apps
        /\ run'.finished = <<>> /\ run'.pending = <<>>
    <2> DEFINE none == <<>>
    <2>1. none \in Seq(Findings) /\ none \in Seq(Rows) /\ none = <<>>
      OBVIOUS
    <2>2. run' = [[run EXCEPT !.finished = none, !.pending = none] EXCEPT !.at = "queue"]
      OBVIOUS
    <2> HIDE DEF none
    <2>3. run' \in RunType /\ run'.at = "queue" /\ run'.apps = run.apps
          /\ run'.finished = none /\ run'.pending = none
      BY <1>1, <2>1, <2>2 DEF RunType, Places
    <2>4. QED
      BY <2>1, <2>3
  <1>3. QED
    BY <1>1, <1>2, CommandCount, FindarrAssumption DEF Shape

LEMMA TypeResolveFails == ASSUME IInv, ResolveFails PROVE IInv'
  <1>1. run' = [[run EXCEPT !.finished = <<>>, !.pending = <<>>] EXCEPT !.at = "queue"] /\ run.at = "resolve"
    BY DEF ResolveFails, Goto
  <1>2. QED
    BY <1>1, QueueShape, RunOnly DEF ResolveFails, Others, Kinds

LEMMA TypeQueueGuard ==
    ASSUME IInv, QueueGuard
    PROVE  /\ IInv' /\ run'.at \in {"idle", "app", "fetch"}
           /\ run'.at = "fetch" => run'.limit <= RemainingCapacity
  <1> DEFINE r == [run EXCEPT !.modes = ModeOrder, !.pending = <<>>]
  <1>1. run \in RunType /\ run.apps # <<>> /\ run.finished = <<>>
    BY DEF IInv, TypeOK, InRun, Shape, QueueGuard
  <1>2. r \in RunType /\ r.apps # <<>> /\ r.pending = <<>> /\ r.finished = <<>>
    <2> DEFINE none == <<>>
    <2>1. none \in Seq(Rows) /\ none = <<>> /\ ModeOrder \in Seq(Modes)
      BY FindarrAssumption
    <2>2. r = [run EXCEPT !.modes = ModeOrder, !.pending = none]
      OBVIOUS
    <2> HIDE DEF none, r
    <2>3. r \in RunType /\ r.apps = run.apps /\ r.pending = none /\ r.finished = run.finished
      BY <1>1, <2>1, <2>2 DEF RunType
    <2>4. QED
      BY <1>1, <2>1, <2>3
  <1>3. run' = EnterMode(r)
    BY DEF QueueGuard
  <1> HIDE DEF r
  <1>4. /\ run' \in RunType /\ Shape(run', Len(commands)) /\ run'.at \in {"idle", "app", "fetch"}
        /\ run'.at = "fetch" => run'.limit <= RemainingCapacity
    BY <1>2, <1>3, EnterModeShape, CommandCount, CapacityIs DEF IInv
  <1>5. QED
    BY <1>4, RunOnly DEF QueueGuard, Others

LEMMA TypeNextMode ==
    ASSUME IInv, NextMode
    PROVE  /\ IInv' /\ run'.at \in {"idle", "app", "fetch"}
           /\ run'.at = "fetch" => run'.limit <= RemainingCapacity
  <1> DEFINE r == [run EXCEPT !.modes = Tail(@)]
  <1>1. run \in RunType /\ run.apps # <<>> /\ run.finished = <<>> /\ run.pending = <<>> /\ run.modes # <<>>
    BY DEF IInv, TypeOK, InRun, Shape, NextMode
  <1>2. Tail(run.modes) \in Seq(Modes)
    BY <1>1, RestOfList DEF RunType
  <1>3. r \in RunType /\ r.apps # <<>> /\ r.pending = <<>> /\ r.finished = <<>>
    BY <1>1, <1>2 DEF RunType
  <1>4. run' = EnterMode(r)
    BY DEF NextMode
  <1> HIDE DEF r
  <1>5. /\ run' \in RunType /\ Shape(run', Len(commands)) /\ run'.at \in {"idle", "app", "fetch"}
        /\ run'.at = "fetch" => run'.limit <= RemainingCapacity
    BY <1>3, <1>4, EnterModeShape, CommandCount, CapacityIs DEF IInv
  <1>6. QED
    BY <1>5, RunOnly DEF NextMode, Others

\* What a fetch leaves: the units of the mode that are still wanted keep their
\* retry state, and what is selected was due and is selected once.
LEMMA Fetched ==
    ASSUME IInv, Fetch
    PROVE  \E retry \in Tables, todo \in Seq(Wanted) : \E gone :
              /\ processed' = Without(processed, gone)
              /\ run' = [[run EXCEPT !.retry = retry, !.todo = todo]
                            EXCEPT !.at = IF todo = <<>> THEN "mode" ELSE "send"]
              /\ Len(todo) <= run.limit /\ Len(todo) <= MaxCommands - Len(commands)
              /\ \A k, l \in 1..Len(todo) : IdOf(todo[k]) = IdOf(todo[l]) => k = l
              /\ \A k \in 1..Len(todo) :
                    IdOf(todo[k]) \in DOMAIN processed \ gone => processed[IdOf(todo[k])].due <= now
  <1> DEFINE items == NormaliseItems(WantedRecords(ThisApp, ThisMode))
             units == BuildUnits(ThisApp, ThisMode, items)
             listed == {u \in DOMAIN processed : u.app = ThisApp /\ u.mode = ThisMode}
             mine == listed \cap {IdOf(units[n]) : n \in DOMAIN units}
             retry == [u \in mine |-> processed[u]]
             limit == Least(run.limit, MaxCommands - Len(commands))
             todo == SelectUnits(units, retry, limit)
  <1>1. /\ processed' = Without(processed, listed \ mine)
        /\ run' = [[run EXCEPT !.retry = retry, !.todo = todo]
                      EXCEPT !.at = IF todo = <<>> THEN "mode" ELSE "send"]
    <2>1. [run EXCEPT !.retry = retry, !.todo = todo].todo = todo
      BY DEF IInv, TypeOK, RunType
    <2>2. QED
      BY <2>1 DEF Fetch, Continue, Goto
  <1>2. ThisApp \in Apps /\ ThisMode \in Modes
    <2>1. run.apps \in Seq(Apps) /\ run.modes \in Seq(Modes) /\ run.apps # <<>> /\ run.modes # <<>>
      BY DEF IInv, TypeOK, RunType, InRun, Shape, Fetch
    <2>2. QED
      BY <2>1, RestOfList DEF ThisApp, ThisMode
  <1>3. items \in Seq(Items) /\ \A k, l \in 1..Len(items) : items[k] = items[l] => k = l
    BY RecordsAreItems, FirstOccurrencesOnce DEF NormaliseItems
  <1> HIDE DEF items
  <1>4. /\ units \in Seq(Wanted)
        /\ \A k \in 1..Len(units) : units[k].app = ThisApp /\ units[k].mode = ThisMode
        /\ \A k, l \in 1..Len(units) : IdOf(units[k]) = IdOf(units[l]) => k = l
    BY <1>2, <1>3, UnitsBuilt
  <1> HIDE DEF units
  <1>5. retry \in Tables
    <2>1. DOMAIN processed \in SUBSET Units /\ processed \in [DOMAIN processed -> RetryState]
      BY TableIs DEF IInv, TypeOK
    <2>2. mine \in SUBSET Units /\ retry \in [mine -> RetryState]
      BY <2>1
    <2>3. QED
      BY <2>2, TableOf
  <1>6. limit \in Nat /\ limit <= run.limit /\ limit <= MaxCommands - Len(commands)
    <2>1. run.limit \in Nat /\ Len(commands) \in Nat /\ Len(commands) <= MaxCommands /\ MaxCommands \in Nat
      BY CommandCount, FindarrAssumption DEF IInv, TypeOK, RunType
    <2>2. QED
      BY <2>1 DEF Least
  <1> HIDE DEF limit
  <1>7. /\ todo \in Seq(Wanted) /\ Len(todo) <= limit
        /\ \A k \in 1..Len(todo) : todo[k] \in ToSet(units) /\ UnitDue(todo[k], retry)
        /\ \A k, l \in 1..Len(todo) : IdOf(todo[k]) = IdOf(todo[l]) => k = l
    <2> HIDE DEF retry
    <2> QED BY <1>4, <1>6, UnitsSelected
  <1> HIDE DEF todo
  <1>8. ASSUME NEW k \in 1..Len(todo), IdOf(todo[k]) \in DOMAIN processed \ (listed \ mine)
        PROVE  processed[IdOf(todo[k])].due <= now
    <2>1. PICK n \in 1..Len(units) : todo[k] = units[n]
      BY <1>4, <1>7, ListMember
    <2>2. IdOf(todo[k]).app = ThisApp /\ IdOf(todo[k]).mode = ThisMode
      BY <1>4, <2>1 DEF IdOf
    <2>3. IdOf(todo[k]) \in mine
      BY <1>4, <1>8, <2>1, <2>2
    <2>4. IdOf(todo[k]) \in DOMAIN retry /\ retry[IdOf(todo[k])] = processed[IdOf(todo[k])]
      BY <2>3
    <2>5. QED
      BY <1>7, <2>4 DEF UnitDue
  <1>9. Len(todo) <= run.limit /\ Len(todo) <= MaxCommands - Len(commands)
    <2>1. Len(todo) \in Nat /\ run.limit \in Nat /\ Len(commands) \in Nat
      BY <1>7, CommandCount DEF IInv, TypeOK, RunType
    <2>2. QED
      BY SMTT(30), <1>6, <1>7, <2>1, FindarrAssumption
  <1> HIDE DEF retry, mine, listed
  <1>10. QED
    BY <1>1, <1>5, <1>7, <1>8, <1>9

LEMMA TypeFetch == ASSUME IInv, Fetch PROVE IInv'
  <1>1. PICK retry \in Tables, todo \in Seq(Wanted) : \E gone :
              /\ processed' = Without(processed, gone)
              /\ run' = [[run EXCEPT !.retry = retry, !.todo = todo]
                            EXCEPT !.at = IF todo = <<>> THEN "mode" ELSE "send"]
              /\ Len(todo) <= MaxCommands - Len(commands)
    BY Fetched
  <1> DEFINE place == IF todo = <<>> THEN "mode" ELSE "send"
  <1>2. place \in {"mode", "send"} /\ (place = "send" => todo # <<>>)
    OBVIOUS
  <1>3. run' = [[run EXCEPT !.retry = retry, !.todo = todo] EXCEPT !.at = place]
    BY <1>1
  <1> HIDE DEF place
  <1>4. run \in RunType /\ run.apps # <<>> /\ run.modes # <<>> /\ run.pending = <<>> /\ run.finished = <<>>
    BY DEF IInv, TypeOK, InRun, Shape, Fetch
  <1>5. /\ run' \in RunType /\ run'.at = place /\ run'.apps = run.apps /\ run'.modes = run.modes
        /\ run'.pending = run.pending /\ run'.finished = run.finished /\ run'.todo = todo
    BY <1>2, <1>3, <1>4 DEF RunType, Places
  <1>6. Len(todo) \in Nat /\ Len(commands) \in Nat /\ Len(commands) <= MaxCommands
    BY CommandCount
  <1>7. Shape(run', Len(commands))
    <2>1. Len(commands) + Len(todo) <= MaxCommands
      <3>1. Len(todo) <= MaxCommands - Len(commands) /\ MaxCommands \in Nat
        BY <1>1, FindarrAssumption
      <3>2. QED
        BY <1>6, <3>1
    <2>2. QED
      BY <1>2, <1>4, <1>5, <1>6, <2>1 DEF Shape
  <1>8. processed' \in Tables
    <2>1. PICK gone : processed' = Without(processed, gone)
      BY <1>1
    <2>2. processed \in Tables
      BY DEF IInv, TypeOK
    <2>3. QED
      BY <2>1, <2>2, WithoutTable
  <1>9. UNCHANGED <<now, searches, history, lastHistory, arrs, moves>>
    BY DEF Fetch
  <1>10. QED
    BY <1>5, <1>7, <1>8, <1>9 DEF IInv, TypeOK, InRun, arrs

\* A command that an Arr accepts.
LEMMA Accepted ==
    ASSUME TypeOK, NEW u \in Units, Accepts(u)
    PROVE  /\ commands' \in Seq(Command) /\ Len(commands') = Len(commands) + 1
           /\ Len(commands) \in Nat
           /\ DOMAIN commands = 1..Len(commands) /\ DOMAIN commands' = DOMAIN commands \cup {Len(commands) + 1}
           /\ \A c \in DOMAIN commands : commands'[c] = commands[c]
           /\ LET c == commands'[Len(commands) + 1] IN
              /\ c.unit = u /\ c.started = now /\ c.status = "running" /\ c.grabbed = 0
              /\ c.fresh = (u \notin DOMAIN processed)
              /\ c.overlaps = (\E n \in DOMAIN searches :
                                   searches[n].unit = u /\ searches[n].outcome = "pending")
           /\ UNCHANGED <<file, grabs>>
  <1> DEFINE f == u \notin DOMAIN processed
             o == \E n \in DOMAIN searches : searches[n].unit = u /\ searches[n].outcome = "pending"
             c == [unit |-> u, started |-> now, ended |-> now, status |-> "running", grabbed |-> 0,
                   fresh |-> f, overlaps |-> o]
  <1>1. commands' = Append(commands, c) /\ UNCHANGED <<file, grabs>>
    BY DEF Accepts
  <1>2. f \in BOOLEAN /\ o \in BOOLEAN
    OBVIOUS
  <1> HIDE DEF f, o
  <1>3. c \in Command
    BY <1>2 DEF TypeOK, Command
  <1>4. /\ c.unit = u /\ c.started = now /\ c.status = "running" /\ c.grabbed = 0
        /\ c.fresh = f /\ c.overlaps = o
    OBVIOUS
  <1> HIDE DEF c
  <1>5. commands \in Seq(Command)
    BY DEF TypeOK
  <1>6. /\ commands' \in Seq(Command) /\ Len(commands') = Len(commands) + 1
        /\ Len(commands) \in Nat
        /\ DOMAIN commands = 1..Len(commands) /\ DOMAIN commands' = 1..Len(commands) + 1
        /\ \A k \in 1..Len(commands) : commands'[k] = commands[k]
        /\ commands'[Len(commands) + 1] = c
    BY <1>1, <1>3, <1>5
  <1>7. DOMAIN commands' = DOMAIN commands \cup {Len(commands) + 1}
    BY <1>6
  <1>8. QED
    BY <1>1, <1>4, <1>6, <1>7 DEF f, o

\* The writes after a search, up to the n-th.
NewRow(u, o) == [id |-> Len(commands), ts |-> now, unit |-> u, cmd |-> Len(commands),
                 hist |-> NextHistory(history), outcome |-> o]
LEMMA NewRowIs ==
    ASSUME TypeOK, NEW u \in Units, NEW o \in {"pending", "unknown"}
    PROVE  /\ NewRow(u, o) \in Rows /\ NewRow(u, o).id = Len(commands) /\ NewRow(u, o).cmd = Len(commands)
           /\ NewRow(u, o).ts = now /\ NewRow(u, o).unit = u /\ NewRow(u, o).hist = lastHistory + 1
           /\ NewRow(u, o).outcome = o
  <1>1. Len(commands) \in Nat /\ now \in Nat /\ lastHistory + 1 \in Nat
    BY DEF TypeOK
  <1>2. QED
    BY <1>1 DEF NewRow, Rows, Outcomes, NextHistory

LEMMA Marked ==
    ASSUME TypeOK, NEW u \in Units, NEW n \in 0..3, MarkSearched(u, n)
    PROVE  /\ processed' \in Tables
           /\ n < 1 => processed' = processed
           /\ n >= 1 => /\ DOMAIN processed' = DOMAIN processed \cup {u}
                        /\ processed'[u].due >= now + Base
                        /\ u \notin DOMAIN processed => processed'[u].attempts = 0
                        /\ \A x \in DOMAIN processed : x # u => processed'[x] = processed[x]
  <1> DEFINE old == IF u \in DOMAIN processed THEN processed[u].attempts ELSE 0
             was == IF u \in DOMAIN run.retry THEN run.retry[u].attempts ELSE 0
             v == [attempts |-> old, due |-> now + Delay(was)]
  <1>1. CASE n < 1
    BY <1>1 DEF MarkSearched, TypeOK
  <1>2. CASE n >= 1
    <2>1. processed' = Update(processed, u, v)
      BY <1>2 DEF MarkSearched
    <2>2. processed \in Tables /\ run.retry \in Tables /\ now \in Nat
      BY DEF TypeOK, RunType
    <2>3. processed \in [DOMAIN processed -> RetryState] /\ run.retry \in [DOMAIN run.retry -> RetryState]
      BY <2>2, TableIs
    <2>4. old \in Nat /\ was \in Nat /\ (u \notin DOMAIN processed => old = 0)
      BY <2>3 DEF RetryState
    <2> HIDE DEF old, was
    <2>5. Delay(was) \in Nat /\ Delay(was) >= Base /\ Base \in Nat
      BY <2>4, DelayRange, FindarrAssumption
    <2>6. v \in RetryState /\ v.due >= now + Base /\ v.attempts = old
      BY <2>2, <2>4, <2>5 DEF RetryState
    <2> HIDE DEF v
    <2>7. /\ Update(processed, u, v) \in Tables
          /\ DOMAIN Update(processed, u, v) = DOMAIN processed \cup {u}
          /\ Update(processed, u, v)[u] = v
          /\ \A x \in DOMAIN processed : x # u => Update(processed, u, v)[x] = processed[x]
      BY <2>2, <2>6, UpdateTable
    <2> DEFINE p == Update(processed, u, v)
    <2>8. p \in Tables /\ DOMAIN p = DOMAIN processed \cup {u} /\ p[u].due >= now + Base
          /\ (u \notin DOMAIN processed => p[u].attempts = 0)
          /\ (\A x \in DOMAIN processed : x # u => p[x] = processed[x]) /\ processed' = p
      BY <2>1, <2>4, <2>6, <2>7
    <2> HIDE DEF p
    <2>9. QED
      BY <1>2, <2>8
  <1>3. QED
    BY <1>1, <1>2

LEMMA Sent ==
    ASSUME TypeOK, NEW u \in Units, NEW n \in 0..3, AddSent(u, n)
    PROVE  /\ n < 2 => history' = history /\ lastHistory' = lastHistory
           /\ n >= 2 => /\ lastHistory' = lastHistory + 1 /\ lastHistory + 1 \notin DOMAIN history
                        /\ DOMAIN history' = DOMAIN history \cup {lastHistory + 1}
                        /\ history'[lastHistory + 1].unit = u /\ history'[lastHistory + 1].by = u
                        /\ \A k \in DOMAIN history : history'[k] = history[k]
           /\ lastHistory' \in Nat /\ DOMAIN history' \subseteq 1..lastHistory'
           /\ history' \in [DOMAIN history' -> HistoryRow]
  <1>1. CASE n < 2
    BY <1>1 DEF AddSent, TypeOK
  <1>2. CASE n >= 2
    <2>1. Adds(u, "sent")
      BY <1>2 DEF AddSent
    <2>2. u \in Units \cup {NoUnit} /\ ~(n < 2)
      BY <1>2
    <2>3. QED
      BY <2>1, <2>2, Added
  <1>3. QED
    BY <1>1, <1>2

LEMMA LoggedRow ==
    ASSUME TypeOK, NEW u \in Units, NEW n \in 0..3, NEW o \in {"pending", "unknown"},
           LogSearch(u, n, o)
    PROVE  /\ searches' \in Seq(Rows)
           /\ n < 3 => searches' = searches
           /\ n = 3 => ToSet(searches') = {s \in ToSet(searches) \cup {NewRow(u, o)} : s.ts >= LogCutoff(Retention)}
           /\ InOrder(searches) /\ (\A s \in ToSet(searches) : s.id < Len(commands)) => InOrder(searches')
  <1>1. CASE n < 3
    BY <1>1 DEF LogSearch, TypeOK
  <1>2. CASE n = 3
    <2> DEFINE row == NewRow(u, o)
               rows == Append(searches, row)
               S == {s \in ToSet(rows) : s.ts >= LogCutoff(Retention)}
    <2>1. searches' = Among(rows, S)
      BY <1>2 DEF LogSearch, NewRow
    <2>2. row \in Rows /\ row.id = Len(commands)
      BY NewRowIs
    <2> HIDE DEF row
    <2>3. searches \in Seq(Rows) /\ Len(commands) \in Nat /\ Len(searches) \in Nat
      BY DEF TypeOK
    <2>4. /\ rows \in Seq(Rows) /\ Len(rows) = Len(searches) + 1 /\ rows[Len(searches) + 1] = row
          /\ \A k \in 1..Len(searches) : rows[k] = searches[k]
          /\ ToSet(rows) = ToSet(searches) \cup {row}
      BY <2>2, <2>3, OneMore
    <2>5. ASSUME InOrder(searches), \A s \in ToSet(searches) : s.id < Len(commands)
          PROVE  InOrder(rows)
      <3> HIDE DEF rows
      <3>1. \A k \in 1..Len(searches) : searches[k].id < Len(commands) /\ searches[k].id \in Nat
        <4>1. \A k \in 1..Len(searches) : searches[k] \in ToSet(searches) /\ searches[k] \in Rows
          BY <2>3, ListSet
        <4>2. QED
          BY <2>5, <4>1 DEF Rows
      <3>2. ASSUME NEW k \in 1..Len(rows), NEW l \in 1..Len(rows), k < l
            PROVE  rows[k].id < rows[l].id
        <4>1. k \in 1..Len(searches)
          BY <2>3, <2>4, <3>2
        <4>2. CASE l \in 1..Len(searches)
          BY <2>4, <2>5, <3>2, <4>1, <4>2 DEF InOrder
        <4>3. CASE l = Len(searches) + 1
          BY <2>2, <2>3, <2>4, <3>1, <4>1, <4>3
        <4>4. QED
          BY <2>3, <2>4, <4>2, <4>3
      <3>3. QED
        BY <3>2 DEF InOrder
    <2> HIDE DEF rows
    <2>6. ToSet(Among(rows, S)) = ToSet(rows) \cap S /\ Among(rows, S) \in Seq(Rows)
      <3> HIDE DEF S
      <3> QED BY <2>4, AmongSet, AmongProperties
    <2>7. ToSet(searches') = {s \in ToSet(searches) \cup {row} : s.ts >= LogCutoff(Retention)}
      BY <2>1, <2>4, <2>6
    <2>8. InOrder(rows) => InOrder(searches')
      <3> HIDE DEF S
      <3> QED BY <2>1, <2>4, AmongInOrder
    <2>9. QED
      BY <1>2, <2>1, <2>5, <2>6, <2>7, <2>8 DEF row
  <1>3. QED
    BY <1>1, <1>2

\* The unit that is searched next, and the run after it.
Next1 == IdOf(Head(run.todo))
LEMMA NextUnit ==
    ASSUME IInv, run.at \in {"send", "sent"}
    PROVE  /\ Next1 \in Units /\ run.todo \in Seq(Wanted) /\ run.todo # <<>>
           /\ Next1 = IdOf(run.todo[1]) /\ Len(run.todo) \in Nat \ {0}
           /\ Tail(run.todo) \in Seq(Wanted) /\ Len(Tail(run.todo)) = Len(run.todo) - 1
           /\ \A k \in 1..Len(run.todo) - 1 : Tail(run.todo)[k] = run.todo[k + 1]
  <1>1. run.todo \in Seq(Wanted) /\ run.todo # <<>>
    BY DEF IInv, TypeOK, RunType, InRun, Shape
  <1>2. /\ Head(run.todo) \in Wanted /\ Head(run.todo) = run.todo[1] /\ Len(run.todo) \in Nat \ {0}
        /\ Tail(run.todo) \in Seq(Wanted) /\ Len(Tail(run.todo)) = Len(run.todo) - 1
        /\ \A k \in 1..Len(run.todo) - 1 : Tail(run.todo)[k] = run.todo[k + 1]
    BY <1>1, RestOfList
  <1>3. Next1 \in Units /\ Next1 = IdOf(run.todo[1])
    BY <1>2 DEF Next1, IdOf, Wanted, Units
  <1>4. QED
    BY <1>1, <1>2, <1>3

LEMMA AfterSend ==
    ASSUME IInv, run.at \in {"send", "sent"}, Continue([run EXCEPT !.todo = Tail(@)])
    PROVE  /\ run' \in RunType /\ run'.todo = Tail(run.todo)
           /\ run'.at = IF Len(run.todo) = 1 THEN "mode" ELSE "send"
           /\ run'.pending = <<>> /\ run'.finished = <<>> /\ run'.limit = run.limit
           /\ Shape(run', Len(commands))
  <1> DEFINE todo == Tail(run.todo)
             place == IF todo = <<>> THEN "mode" ELSE "send"
  <1>1. todo \in Seq(Wanted) /\ Len(todo) = Len(run.todo) - 1 /\ Len(run.todo) \in Nat \ {0}
    BY NextUnit
  <1>2. run \in RunType /\ run.apps # <<>> /\ run.modes # <<>> /\ run.pending = <<>> /\ run.finished = <<>>
    BY DEF IInv, TypeOK, InRun, Shape
  <1>3. run' = [[run EXCEPT !.todo = todo] EXCEPT !.at = place]
    <2>1. [run EXCEPT !.todo = todo].todo = todo
      BY <1>2 DEF RunType
    <2>2. QED
      BY <2>1 DEF Continue, Goto
  <1> HIDE DEF todo
  <1>4. todo = <<>> <=> Len(run.todo) = 1
    <2>1. todo \in Seq(Wanted) => (todo = <<>> <=> Len(todo) = 0)
      OBVIOUS
    <2>2. Len(todo) = 0 <=> Len(run.todo) = 1
      BY <1>1
    <2>3. QED
      BY <1>1, <2>1, <2>2
  <1>5. place \in {"mode", "send"} /\ (place = "send" <=> todo # <<>>)
    OBVIOUS
  <1> HIDE DEF place
  <1>6. /\ run' \in RunType /\ run'.at = place /\ run'.apps = run.apps /\ run'.modes = run.modes
        /\ run'.pending = run.pending /\ run'.finished = run.finished /\ run'.todo = todo
        /\ run'.limit = run.limit
    BY <1>1, <1>2, <1>3, <1>5 DEF RunType, Places
  <1>7. Len(commands) \in Nat /\ Len(commands) + Len(todo) <= MaxCommands
    <2>1. Len(commands) \in Nat /\ MaxCommands \in Nat
      BY CommandCount, FindarrAssumption
    <2>2. \/ Len(commands) + Len(run.todo) <= MaxCommands
          \/ Len(commands) + Len(run.todo) <= MaxCommands + 1
      BY DEF IInv, InRun, Shape
    <2>3. QED
      BY <1>1, <2>1, <2>2
  <1>8. Shape(run', Len(commands))
    BY <1>1, <1>2, <1>5, <1>6, <1>7, CommandCount DEF Shape
  <1>9. QED
    BY <1>2, <1>4, <1>5, <1>6, <1>8 DEF todo, place

\* The types after the first n writes.
LEMMA TypeRecord ==
    ASSUME IInv, NEW u \in Units, NEW n \in 0..3, NEW o \in {"pending", "unknown"}, Record(u, n, o),
           UNCHANGED <<now, arrs>>, UNCHANGED moves \/ \E m \in Kinds : Move(m),
           run' \in RunType, Shape(run', Len(commands))
    PROVE  IInv'
  <1>1. TypeOK
    BY DEF IInv
  <1>2. processed' \in Tables
    BY <1>1, Marked DEF Record
  <1>3. /\ lastHistory' \in Nat /\ DOMAIN history' \subseteq 1..lastHistory'
        /\ history' \in [DOMAIN history' -> HistoryRow]
    BY <1>1, Sent DEF Record
  <1>4. searches' \in Seq(Rows)
    BY <1>1, LoggedRow DEF Record
  <1>5. moves' \in [Kinds -> Nat]
    BY <1>1, MoveCounts DEF TypeOK
  <1>6. TypeOK'
    BY <1>1, <1>2, <1>3, <1>4, <1>5 DEF TypeOK, arrs
  <1>7. InRun'
    BY DEF InRun, arrs
  <1>8. QED
    BY <1>6, <1>7 DEF IInv

LEMMA TypeSend == ASSUME IInv, Send PROVE IInv'
  <1>1. Next1 \in Units /\ Accepts(Next1) /\ Len(run.todo) \in Nat \ {0}
    BY NextUnit DEF Send, Next1
  <1>2. commands' \in Seq(Command) /\ Len(commands') = Len(commands) + 1 /\ UNCHANGED <<file, grabs>>
    BY <1>1, Accepted DEF IInv
  <1>3. UNCHANGED <<now, tables, moves>> /\ run' = [run EXCEPT !.at = "sent"]
    BY DEF Send, Goto
  <1>4. run \in RunType
    BY DEF IInv, TypeOK
  <1>5. /\ run' \in RunType /\ run'.at = "sent" /\ run'.apps = run.apps /\ run'.modes = run.modes
        /\ run'.pending = run.pending /\ run'.finished = run.finished /\ run'.todo = run.todo
    BY <1>3, <1>4 DEF RunType, Places
  <1>6. /\ run.apps # <<>> /\ run.modes # <<>> /\ run.todo # <<>>
        /\ run.pending = <<>> /\ run.finished = <<>> /\ Len(commands) + Len(run.todo) <= MaxCommands
    BY DEF IInv, InRun, Shape, Send
  <1>7. /\ Len(commands) + 1 <= MaxCommands
        /\ (Len(commands) + 1) + Len(run.todo) <= MaxCommands + 1
    <2>1. Len(commands) \in Nat /\ MaxCommands \in Nat
      BY CommandCount, FindarrAssumption
    <2>2. \A i, k, n \in Nat : k # 0 /\ i + k <= n => i + 1 <= n /\ (i + 1) + k <= n + 1
      OBVIOUS
    <2>3. QED
      BY <1>1, <1>6, <2>1, <2>2
  <1>8. Shape(run', Len(commands) + 1)
    BY <1>5, <1>6, <1>7 DEF Shape
  <1>9. QED
    BY <1>2, <1>3, <1>5, <1>8 DEF IInv, TypeOK, InRun, tables

LEMMA TypeAnswered == ASSUME IInv, Answered PROVE IInv'
  <1>1. Next1 \in Units
    BY NextUnit DEF Answered
  <1>2. PICK o \in {"pending", "unknown"} :
           Record(Next1, 3, o) /\ (UNCHANGED moves \/ \E m \in Kinds : Move(m))
    BY DEF Answered, Next1, Kinds
  <1>3. run' \in RunType /\ Shape(run', Len(commands))
    BY AfterSend DEF Answered
  <1>4. QED
    BY <1>1, <1>2, <1>3, TypeRecord DEF Answered

LEMMA TypeCrashInSend == ASSUME IInv, CrashInSend PROVE IInv'
  <1>1. Next1 \in Units
    BY NextUnit DEF CrashInSend
  <1>2. PICK n \in 1..2 : Record(Next1, n, "pending")
    BY DEF CrashInSend, Next1
  <1>3. run' \in RunType /\ Shape(run', Len(commands))
    BY IdleShape, CommandCount DEF CrashInSend
  <1>4. n \in 0..3
    OBVIOUS
  <1>5. QED
    BY <1>1, <1>2, <1>3, <1>4, TypeRecord DEF CrashInSend, Kinds

LEMMA TypeSendFails == ASSUME IInv, SendFails PROVE IInv'
  <1>1. TypeOK /\ Next1 \in Units
    BY NextUnit DEF IInv, SendFails
  <1>2. run' \in RunType /\ Shape(run', Len(commands))
    BY AfterSend DEF SendFails
  <1>3. /\ lastHistory' \in Nat /\ DOMAIN history' \subseteq 1..lastHistory'
        /\ history' \in [DOMAIN history' -> HistoryRow]
    BY <1>1, Added DEF SendFails, Next1
  <1>4. moves' \in [Kinds -> Nat]
    BY <1>1, MoveCounts DEF SendFails, Kinds
  <1>5. UNCHANGED <<now, processed, searches, arrs>>
    BY DEF SendFails
  <1>6. QED
    BY <1>1, <1>2, <1>3, <1>4, <1>5 DEF IInv, TypeOK, InRun, arrs

\* A verdict is an outcome, and final.
Final == Outcomes \ {"pending"}
LEMMA VerdictType == ASSUME NEW c, NEW message PROVE Classify(c, message) \in Final
  BY DEF Classify, Final, Outcomes

\* What resolving does to the tables: the finished searches get their verdict,
\* in their row and in the history row they name.
LEMMA Resolved ==
    ASSUME IInv, Resolve
    PROVE  \E outcome \in [1..Len(run.finished) -> Final] :
              /\ \A k \in 1..Len(run.finished) :
                    \E message \in BOOLEAN : outcome[k] = Classify(run.finished[k].command, message)
              /\ processed' = BackoffAll(run.finished, outcome)
              /\ searches' \in Seq(Rows) /\ Len(searches') = Len(searches)
              /\ \A n \in 1..Len(searches) :
                    /\ searches'[n].id = searches[n].id /\ searches'[n].ts = searches[n].ts
                    /\ searches'[n].unit = searches[n].unit /\ searches'[n].cmd = searches[n].cmd
                    /\ searches'[n].hist = searches[n].hist
                    /\ \/ /\ searches'[n].outcome = searches[n].outcome
                          /\ \A k \in 1..Len(run.finished) : run.finished[k].search.id # searches[n].id
                       \/ \E k \in 1..Len(run.finished) :
                             run.finished[k].search.id = searches[n].id /\ searches'[n].outcome = outcome[k]
              /\ DOMAIN history' = DOMAIN history /\ history' \in [DOMAIN history -> HistoryRow]
              /\ \A h \in DOMAIN history :
                    /\ history'[h].unit = history[h].unit
                    /\ \/ history'[h] = history[h]
                       \/ \E k \in 1..Len(run.finished) : run.finished[k].search.hist = h
                             /\ history'[h].by = run.finished[k].search.unit
              /\ run' = [[run EXCEPT !.finished = <<>>, !.pending = <<>>] EXCEPT !.at = "queue"]
  <1> DEFINE done == run.finished
  <1>1. done \in Seq(Findings) /\ DOMAIN done = 1..Len(done) /\ Len(done) \in Nat
    BY DEF IInv, TypeOK, RunType
  <1>2. PICK kept \in SUBSET DOMAIN run.finished :
         LET outcome == [k \in DOMAIN run.finished |-> Classify(run.finished[k].command, k \in kept)]
             Of(id)   == {k \in DOMAIN run.finished : run.finished[k].search.id = id}
             Rewrites(h) == {k \in DOMAIN run.finished : run.finished[k].search.hist = h}
         IN /\ processed' = BackoffAll(run.finished, outcome)
            /\ searches' = [n \in DOMAIN searches |-> [searches[n] EXCEPT !.outcome =
                   IF Of(searches[n].id) = {} THEN @
                   ELSE outcome[CHOOSE k \in Of(searches[n].id) : TRUE]]]
            /\ history' = [h \in DOMAIN history |->
                   IF Rewrites(h) = {} THEN history[h]
                   ELSE LET k == CHOOSE k \in Rewrites(h) : TRUE
                        IN [history[h] EXCEPT !.status = outcome[k], !.by = run.finished[k].search.unit]]
    BY DEF Resolve
  <1> DEFINE outcome == [k \in DOMAIN done |-> Classify(done[k].command, k \in kept)]
             Of(id)   == {k \in DOMAIN done : done[k].search.id = id}
             Rewrites(h) == {k \in DOMAIN done : done[k].search.hist = h}
             verdict(n) == IF Of(searches[n].id) = {} THEN searches[n].outcome
                           ELSE outcome[CHOOSE k \in Of(searches[n].id) : TRUE]
             rewriter(h) == CHOOSE k \in Rewrites(h) : TRUE
             after(h) == [history[h] EXCEPT !.status = outcome[rewriter(h)],
                                            !.by = done[rewriter(h)].search.unit]
  <1>3. /\ processed' = BackoffAll(done, outcome)
        /\ searches' = [n \in DOMAIN searches |-> [searches[n] EXCEPT !.outcome = verdict(n)]]
        /\ history' = [h \in DOMAIN history |-> IF Rewrites(h) = {} THEN history[h] ELSE after(h)]
    BY <1>2
  <1>4. /\ outcome \in [1..Len(done) -> Final]
        /\ \A k \in 1..Len(done) :
              \E message \in BOOLEAN : outcome[k] = Classify(done[k].command, message)
    <2>1. \A k \in 1..Len(done) : Classify(done[k].command, k \in kept) \in Final
      BY VerdictType
    <2>2. \A k \in 1..Len(done) : outcome[k] = Classify(done[k].command, k \in kept)
      BY <1>1
    <2>3. outcome \in [1..Len(done) -> Final]
      BY <1>1, <2>1
    <2> HIDE DEF outcome
    <2>4. ASSUME NEW k \in 1..Len(done)
          PROVE  \E message \in BOOLEAN : outcome[k] = Classify(done[k].command, message)
      <3>1. (k \in kept) \in BOOLEAN
        OBVIOUS
      <3>2. QED
        BY <2>2, <3>1, Zenon
    <2>5. QED
      BY <2>3, <2>4
  <1> HIDE DEF outcome
  <1>5. \A n : \/ verdict(n) = searches[n].outcome /\ \A k \in 1..Len(done) : done[k].search.id # searches[n].id
               \/ \E k \in 1..Len(done) : done[k].search.id = searches[n].id /\ verdict(n) = outcome[k]
    BY <1>1
  <1>6. searches \in Seq(Rows) /\ DOMAIN searches = 1..Len(searches) /\ Len(searches) \in Nat
        /\ \A n \in 1..Len(searches) : searches[n] \in Rows
    BY DEF IInv, TypeOK
  <1>7. \A n \in 1..Len(searches) : verdict(n) \in Outcomes
    <2> HIDE DEF verdict
    <2>1. \A n \in 1..Len(searches) : searches[n].outcome \in Outcomes
      BY <1>6 DEF Rows
    <2>2. \A k \in 1..Len(done) : outcome[k] \in Outcomes
      BY <1>4 DEF Final
    <2>3. QED
      BY <1>5, <2>1, <2>2
  <1> HIDE DEF verdict
  <1>8. ASSUME NEW n \in 1..Len(searches)
        PROVE  /\ searches'[n] \in Rows /\ searches'[n].outcome = verdict(n)
               /\ searches'[n].id = searches[n].id /\ searches'[n].ts = searches[n].ts
               /\ searches'[n].unit = searches[n].unit /\ searches'[n].cmd = searches[n].cmd
               /\ searches'[n].hist = searches[n].hist
    <2>1. searches'[n] = [searches[n] EXCEPT !.outcome = verdict(n)]
      BY <1>3, <1>6
    <2>2. searches[n] \in Rows /\ verdict(n) \in Outcomes
      BY <1>6, <1>7
    <2>3. QED
      BY <2>1, <2>2 DEF Rows
  <1>9. searches' \in Seq(Rows) /\ Len(searches') = Len(searches)
    <2>1. searches' = [n \in 1..Len(searches) |-> searches'[n]]
      BY <1>3, <1>6
    <2>2. QED
      BY <1>6, <1>8, <2>1, WrittenOut
  <1>10. ASSUME NEW h \in DOMAIN history
         PROVE  /\ history'[h] \in HistoryRow /\ history'[h].unit = history[h].unit
                /\ \/ history'[h] = history[h]
                   \/ \E k \in 1..Len(done) : done[k].search.hist = h
                         /\ history'[h].by = done[k].search.unit
    <2>1. history[h] \in HistoryRow
      BY DEF IInv, TypeOK
    <2>2. CASE Rewrites(h) = {}
      <3>1. history'[h] = history[h]
        BY <1>3, <2>2
      <3>2. QED
        BY <2>1, <3>1
    <2>3. CASE Rewrites(h) # {}
      <3>1. rewriter(h) \in 1..Len(done) /\ done[rewriter(h)].search.hist = h
        BY <1>1, <2>3
      <3>2. history'[h] = after(h)
        BY <1>3, <2>3
      <3> HIDE DEF rewriter
      <3>3. outcome[rewriter(h)] \in Outcomes
        BY <1>4, <3>1 DEF Final
      <3>4. done[rewriter(h)].search.unit \in Units
        <4>1. done[rewriter(h)] \in Findings
          BY <1>1, <3>1
        <4>2. QED
          BY <4>1 DEF Findings, Rows
      <3>5. after(h) \in HistoryRow /\ after(h).unit = history[h].unit
            /\ after(h).by = done[rewriter(h)].search.unit
        BY <2>1, <3>3, <3>4 DEF HistoryRow
      <3>6. QED
        BY <3>1, <3>2, <3>5
    <2>4. QED
      BY <2>2, <2>3
  <1>11. DOMAIN history' = DOMAIN history /\ history' \in [DOMAIN history -> HistoryRow]
    <2>1. DOMAIN history' = DOMAIN history
      BY <1>3
    <2>2. history' = [h \in DOMAIN history |-> history'[h]]
      BY <1>3
    <2>3. QED
      BY <1>10, <2>1, <2>2
  <1>12. run' = [[run EXCEPT !.finished = <<>>, !.pending = <<>>] EXCEPT !.at = "queue"]
    BY DEF Resolve, Goto
  <1>13. \A n \in 1..Len(searches) :
            \/ searches'[n].outcome = searches[n].outcome
               /\ \A k \in 1..Len(done) : done[k].search.id # searches[n].id
            \/ \E k \in 1..Len(done) : done[k].search.id = searches[n].id /\ searches'[n].outcome = outcome[k]
    BY <1>5, <1>8
  <1>14. processed' = BackoffAll(done, outcome)
    BY <1>3
  <1>15. QED
    BY <1>4, <1>8, <1>9, <1>10, <1>11, <1>12, <1>13, <1>14

LEMMA TypeResolve == ASSUME IInv, Resolve PROVE IInv'
  <1>1. PICK outcome \in [1..Len(run.finished) -> Final] :
              /\ processed' = BackoffAll(run.finished, outcome)
              /\ searches' \in Seq(Rows)
              /\ DOMAIN history' = DOMAIN history /\ history' \in [DOMAIN history -> HistoryRow]
              /\ run' = [[run EXCEPT !.finished = <<>>, !.pending = <<>>] EXCEPT !.at = "queue"]
    BY Resolved
  <1>2. outcome \in [1..Len(run.finished) -> Outcomes]
    BY DEF Final
  <1>3. processed' \in Tables
    BY <1>1, <1>2, BackoffAllTable DEF IInv, TypeOK, RunType
  <1>4. run' \in RunType /\ Shape(run', Len(commands))
    BY <1>1, QueueShape DEF Resolve
  <1>5. UNCHANGED <<now, lastHistory, arrs, moves>>
    BY DEF Resolve
  <1>6. QED
    BY <1>1, <1>3, <1>4, <1>5 DEF IInv, TypeOK, InRun, arrs

LEMMA TypeReset == ASSUME IInv, ResetState PROVE IInv'
  <1>1. processed' \in Tables /\ UNCHANGED <<now, searches, arrs, run>>
    BY NoTable DEF ResetState
  <1>2. moves' \in [Kinds -> Nat]
    BY MoveCounts DEF IInv, ResetState, Kinds
  <1>3. /\ lastHistory' \in Nat /\ DOMAIN history' \subseteq 1..lastHistory'
        /\ history' \in [DOMAIN history' -> HistoryRow]
    BY Added DEF IInv, ResetState
  <1>4. QED
    BY <1>1, <1>2, <1>3 DEF IInv, TypeOK, InRun, arrs

LEMMA Cleared ==
    ASSUME IInv, ClearHistory
    PROVE  /\ lastHistory' = lastHistory + 1 /\ lastHistory' \in Nat /\ lastHistory' \notin DOMAIN history
           /\ DOMAIN history' = {lastHistory'} /\ history'[lastHistory'] = Audit
           /\ history' \in [DOMAIN history' -> HistoryRow]
  <1>1. lastHistory' = lastHistory + 1 /\ history' = [h \in {lastHistory + 1} |-> Audit]
    BY DEF ClearHistory, NextHistory
  <1>2. Audit \in HistoryRow
    BY DEF Audit, HistoryRow
  <1>3. lastHistory \in Nat /\ DOMAIN history \subseteq 1..lastHistory
    BY DEF IInv, TypeOK
  <1>4. QED
    BY <1>1, <1>2, <1>3

LEMMA TypeClear == ASSUME IInv, ClearHistory PROVE IInv'
  <1>1. /\ lastHistory' \in Nat /\ DOMAIN history' \subseteq 1..lastHistory'
        /\ history' \in [DOMAIN history' -> HistoryRow]
    BY Cleared DEF IInv, TypeOK
  <1>2. moves' \in [Kinds -> Nat]
    BY MoveCounts DEF IInv, ClearHistory, Kinds
  <1>3. UNCHANGED <<now, processed, searches, arrs, run>>
    BY DEF ClearHistory
  <1>4. QED
    BY <1>1, <1>2, <1>3 DEF IInv, TypeOK, InRun, arrs

LEMMA TypeTick == ASSUME IInv, Tick PROVE IInv'
  BY DEF IInv, TypeOK, InRun, Tick, tables, arrs

\* A command that ends keeps what it was; what it grabbed is in the history now.
LEMMA Ended ==
    ASSUME TypeOK, NEW c \in DOMAIN commands, CommandEnds(c)
    PROVE  /\ commands' \in Seq(Command) /\ Len(commands') = Len(commands)
           /\ DOMAIN commands' = DOMAIN commands
           /\ \A d \in DOMAIN commands : d # c => commands'[d] = commands[d]
           /\ commands'[c].unit = commands[c].unit /\ commands'[c].started = commands[c].started
           /\ commands'[c].fresh = commands[c].fresh /\ commands'[c].overlaps = commands[c].overlaps
           /\ commands[c].status = "running" /\ commands'[c].status # "running"
           /\ now <= commands'[c].ended + Grace
           /\ grabs \subseteq grabs' /\ grabs' \subseteq [item : Items, at : Nat]
           /\ \/ commands'[c].grabbed = commands[c].grabbed /\ grabs' = grabs
              \/ \E i \in Targets(commands[c].unit) : [item |-> i, at |-> now] \in grabs'
  <1>1. commands \in Seq(Command) /\ now \in Nat /\ grabs \subseteq [item : Items, at : Nat]
    BY DEF TypeOK
  <1>2. commands[c] \in Command /\ c \in 1..Len(commands) /\ Len(commands) \in Nat
        /\ DOMAIN commands = 1..Len(commands)
    BY <1>1
  <1>3. PICK end \in commands[c].started..now :
         /\ now <= end + Grace
         /\ \/ \E s \in Endings : commands' = [commands EXCEPT ![c].status = s, ![c].ended = end]
                                  /\ grabs' = grabs
            \/ \E i \in Targets(commands[c].unit) :
                 /\ commands' = [commands EXCEPT ![c].status = "completed", ![c].ended = end,
                                                 ![c].grabbed = 1]
                 /\ grabs' = grabs \cup {[item |-> i, at |-> now]}
    BY DEF CommandEnds
  <1>4. end \in Nat
    BY <1>1, <1>2 DEF Command
  <1>5. \E new \in Command :
           /\ commands' = [commands EXCEPT ![c] = new]
           /\ new.unit = commands[c].unit /\ new.started = commands[c].started
           /\ new.fresh = commands[c].fresh /\ new.overlaps = commands[c].overlaps /\ new.ended = end
           /\ new.status # "running"
           /\ \/ new.grabbed = commands[c].grabbed /\ grabs' = grabs
              \/ \E i \in Targets(commands[c].unit) : grabs' = grabs \cup {[item |-> i, at |-> now]}
    <2>1. CASE \E s \in Endings : commands' = [commands EXCEPT ![c].status = s, ![c].ended = end]
                                  /\ grabs' = grabs
      <3>1. PICK s \in Endings : commands' = [commands EXCEPT ![c].status = s, ![c].ended = end]
                                 /\ grabs' = grabs
        BY <2>1
      <3> DEFINE new == [commands[c] EXCEPT !.status = s, !.ended = end]
      <3>2. s \in {"completed", "failed", "purged"}
        BY FindarrAssumption
      <3>3. new \in Command /\ new.unit = commands[c].unit /\ new.started = commands[c].started
            /\ new.fresh = commands[c].fresh /\ new.overlaps = commands[c].overlaps
            /\ new.ended = end /\ new.grabbed = commands[c].grabbed /\ new.status # "running"
        BY <1>2, <1>4, <3>2 DEF Command
      <3>4. commands' = [commands EXCEPT ![c] = new]
        BY <1>1, <1>2, <3>1
      <3> HIDE DEF new
      <3>5. QED
        BY <3>1, <3>3, <3>4
    <2>2. CASE \E i \in Targets(commands[c].unit) :
                  /\ commands' = [commands EXCEPT ![c].status = "completed", ![c].ended = end,
                                                  ![c].grabbed = 1]
                  /\ grabs' = grabs \cup {[item |-> i, at |-> now]}
      <3> DEFINE new == [commands[c] EXCEPT !.status = "completed", !.ended = end, !.grabbed = 1]
      <3>1. new \in Command /\ new.unit = commands[c].unit /\ new.started = commands[c].started
            /\ new.fresh = commands[c].fresh /\ new.overlaps = commands[c].overlaps /\ new.ended = end
            /\ new.status # "running"
        BY <1>2, <1>4 DEF Command
      <3>2. commands' = [commands EXCEPT ![c] = new]
        BY <1>1, <1>2, <2>2
      <3> HIDE DEF new
      <3>3. QED
        BY <2>2, <3>1, <3>2
    <2>3. QED
      BY <1>3, <2>1, <2>2
  <1>6. PICK new \in Command :
           /\ commands' = [commands EXCEPT ![c] = new]
           /\ new.unit = commands[c].unit /\ new.started = commands[c].started
           /\ new.fresh = commands[c].fresh /\ new.overlaps = commands[c].overlaps /\ new.ended = end
           /\ new.status # "running"
           /\ \/ new.grabbed = commands[c].grabbed /\ grabs' = grabs
              \/ \E i \in Targets(commands[c].unit) : grabs' = grabs \cup {[item |-> i, at |-> now]}
    BY <1>5
  <1>7. /\ commands' \in Seq(Command) /\ Len(commands') = Len(commands)
        /\ DOMAIN commands' = DOMAIN commands /\ commands'[c] = new
        /\ \A d \in DOMAIN commands : d # c => commands'[d] = commands[d]
    BY <1>1, <1>2, <1>6
  <1>8. commands[c].status = "running"
    BY DEF CommandEnds
  <1>9. \A i \in Targets(commands[c].unit) : [item |-> i, at |-> now] \in [item : Items, at : Nat]
    BY <1>1 DEF Targets
  <1>10. now <= commands'[c].ended + Grace
    BY <1>3, <1>6, <1>7
  <1>11. QED
    BY <1>1, <1>6, <1>7, <1>8, <1>9, <1>10

LEMMA TypeCommandEnds == ASSUME IInv, NEW c \in DOMAIN commands, CommandEnds(c) PROVE IInv'
  <1>1. commands' \in Seq(Command) /\ Len(commands') = Len(commands)
        /\ grabs' \subseteq [item : Items, at : Nat]
    BY Ended DEF IInv
  <1>2. UNCHANGED <<now, tables, run, moves, file>>
    BY DEF CommandEnds
  <1>3. QED
    BY <1>1, <1>2 DEF IInv, TypeOK, InRun, tables

LEMMA TypeFileChanges == ASSUME IInv, NEW i \in Items, FileChanges(i) PROVE IInv'
  <1>1. UNCHANGED <<now, tables, commands, run>> /\ Move("file")
    BY DEF FileChanges
  <1>2. moves' \in [Kinds -> Nat]
    BY <1>1, MoveCounts DEF IInv, Kinds
  <1>3. file \in [Items -> AllFileStates] /\ grabs \subseteq [item : Items, at : Nat] /\ now \in Nat
    BY DEF IInv, TypeOK
  <1>4. CASE grabs' = grabs \cup {[item |-> i, at |-> now]} /\ file' = file
    BY <1>1, <1>2, <1>3, <1>4 DEF IInv, TypeOK, InRun, tables
  <1>5. CASE (\E s \in FileStates : file' = [file EXCEPT ![i] = s]) /\ grabs' = grabs
    <2>1. file' \in [Items -> AllFileStates]
      BY <1>3, <1>5, FindarrAssumption
    <2>2. QED
      BY <1>1, <1>2, <1>3, <1>5, <2>1 DEF IInv, TypeOK, InRun, tables
  <1>6. (\E s \in FileStates \ {file[i]} : file' = [file EXCEPT ![i] = s]) =>
           \E s \in FileStates : file' = [file EXCEPT ![i] = s]
    OBVIOUS
  <1>7. QED
    BY <1>4, <1>5, <1>6 DEF FileChanges

\* Every step keeps the types and the shape of a run.
LEMMA StepIInv == ASSUME IInv, RowsGenuine, [Next]_vars PROVE IInv'
  <1>1. CASE UNCHANGED vars
    BY <1>1 DEF vars, IInv, TypeOK, InRun
  <1>2. CASE JobDue \/ RunNow
    BY <1>2, TypeStart
  <1>3. CASE RunStep
    BY <1>3, TypeSkipApp, TypeBeginApp, TypeReadCommands, TypeResolve, TypeResolveFails, TypeQueueGuard,
       TypeNextMode, TypeFetch, TypeSend, TypeAnswered, TypeSendFails DEF RunStep
  <1>4. CASE Environment
    BY <1>4, TypeReset, TypeClear, TypeTick, TypeCrash, TypeCrashInSend, TypeCommandEnds,
       TypeFileChanges DEF Environment
  <1>5. QED
    BY <1>1, <1>2, <1>3, <1>4 DEF Next

LEMMA InitIInv == Init => IInv
  <1> SUFFICES ASSUME Init PROVE IInv
    OBVIOUS
  <1>1. Len(commands) = 0 /\ commands \in Seq(Command) /\ searches \in Seq(Rows)
    BY DEF Init
  <1>2. processed \in Tables
    BY NoTable DEF Init
  <1>3. DOMAIN history = {} /\ history \in [DOMAIN history -> HistoryRow] /\ lastHistory \in Nat
    <2>1. DOMAIN <<>> = {} /\ <<>> = [h \in {} |-> Audit]
      OBVIOUS
    <2>2. QED
      BY <2>1 DEF Init
  <1>4. moves \in [Kinds -> Nat]
    BY FindarrAssumption DEF Init, Kinds
  <1>5. file \in [Items -> AllFileStates] /\ grabs \subseteq [item : Items, at : Nat] /\ now \in Nat
    <2>1. file \in [Items -> FileStates] /\ FileStates \subseteq AllFileStates
      BY FindarrAssumption DEF Init
    <2>2. QED
      BY <2>1 DEF Init
  <1>6. run \in RunType /\ Shape(run, 0)
    <2>1. run = Idle /\ 0 \in Nat /\ 0 <= MaxCommands
      BY FindarrAssumption DEF Init
    <2>2. QED
      BY <2>1, IdleShape
  <1>7. TypeOK
    BY <1>1, <1>2, <1>3, <1>4, <1>5, <1>6 DEF TypeOK
  <1>8. InRun
    BY <1>1, <1>6 DEF InRun
  <1>9. QED
    BY <1>7, <1>8 DEF IInv
-----------------------------------------------------------------------------
(***************************************************************************)
(* Outcomes go to their own rows                                           *)
(***************************************************************************)

\* No step changes what a command is for or when it was sent, nor the unit of
\* a history row, and a row's id is never given again.
Keeps ==
    /\ \A c \in DOMAIN commands :
          /\ c \in DOMAIN commands' /\ commands'[c].unit = commands[c].unit
          /\ commands'[c].started = commands[c].started
    /\ lastHistory' >= lastHistory
    /\ \A h \in DOMAIN history' :
          h <= lastHistory => h \in DOMAIN history /\ history'[h].unit = history[h].unit
LEMMA StepKeeps == ASSUME IInv, Next PROVE Keeps
  <1> DEFINE CommandsKept == \A c \in DOMAIN commands :
                                /\ c \in DOMAIN commands' /\ commands'[c].unit = commands[c].unit
                                /\ commands'[c].started = commands[c].started
             HistoryKept == /\ lastHistory' >= lastHistory
                            /\ \A h \in DOMAIN history' : h <= lastHistory =>
                                  h \in DOMAIN history /\ history'[h].unit = history[h].unit
  <1>1. TypeOK /\ lastHistory \in Nat
    BY DEF IInv, TypeOK
  <1>2. commands' = commands => CommandsKept
    OBVIOUS
  <1>3. history' = history /\ lastHistory' = lastHistory => HistoryKept
    BY <1>1
  <1>4. ASSUME NEW u \in Units, Accepts(u) PROVE CommandsKept
    BY <1>1, <1>4, Accepted
  <1>5. ASSUME NEW c \in DOMAIN commands, CommandEnds(c) PROVE CommandsKept
    BY <1>1, <1>5, Ended
  <1>6. ASSUME NEW u \in Units \cup {NoUnit}, NEW status \in {"sent", "error", "success"}, Adds(u, status)
        PROVE  HistoryKept
    <2>1. /\ lastHistory' = lastHistory + 1
          /\ DOMAIN history' = DOMAIN history \cup {lastHistory + 1}
          /\ \A k \in DOMAIN history : history'[k] = history[k]
      BY <1>1, <1>6, Added
    <2>2. QED
      BY <1>1, <2>1
  <1> HIDE DEF CommandsKept, HistoryKept
  <1>7. CASE CommandsKept /\ HistoryKept
    BY <1>7 DEF CommandsKept, HistoryKept, Keeps
  <1>8. CASE UNCHANGED <<commands, history, lastHistory>>
    BY <1>2, <1>3, <1>7, <1>8
  <1>9. CASE Send
    BY <1>3, <1>4, <1>7, <1>9, NextUnit DEF Send, Next1, tables
  <1>10. CASE Answered \/ CrashInSend
    <2>1. PICK n \in 1..3 : AddSent(Next1, n)
      BY <1>10 DEF Answered, CrashInSend, Record, Next1
    <2>2. Next1 \in Units /\ UNCHANGED commands
      BY <1>10, NextUnit DEF Answered, CrashInSend, arrs
    <2>3. CASE n < 2
      BY <1>8, <2>1, <2>2, <2>3 DEF AddSent
    <2>4. CASE ~(n < 2)
      BY <1>2, <1>6, <1>7, <2>1, <2>2, <2>4 DEF AddSent
    <2>5. QED
      BY <2>3, <2>4
  <1>11. CASE SendFails \/ SkipApp \/ ResetState
    <2>1. PICK u \in Units \cup {NoUnit}, status \in {"error", "success"} : Adds(u, status)
      BY <1>11, NextUnit DEF SendFails, SkipApp, ResetState, Next1
    <2>2. UNCHANGED commands
      BY <1>11 DEF SendFails, SkipApp, ResetState, arrs
    <2>3. QED
      BY <1>2, <1>6, <1>7, <2>1, <2>2
  <1>12. CASE Resolve
    <2>1. DOMAIN history' = DOMAIN history /\ \A h \in DOMAIN history : history'[h].unit = history[h].unit
      BY <1>12, Resolved
    <2>2. lastHistory' = lastHistory /\ commands' = commands
      BY <1>12 DEF Resolve, arrs
    <2>3. HistoryKept
      BY <1>1, <2>1, <2>2 DEF HistoryKept
    <2>4. QED
      BY <1>2, <1>7, <2>2, <2>3
  <1>13. CASE ClearHistory
    <2>1. HistoryKept
      <3>1. lastHistory' = lastHistory + 1 /\ DOMAIN history' = {lastHistory'}
        BY <1>13, Cleared
      <3>2. QED
        BY <1>1, <3>1 DEF HistoryKept
    <2>2. QED
      BY <1>2, <1>7, <1>13, <2>1 DEF ClearHistory, arrs
  <1>14. CASE \E c \in DOMAIN commands : CommandEnds(c)
    BY <1>3, <1>5, <1>7, <1>14 DEF CommandEnds, tables
  <1>15. CASE JobDue \/ RunNow
    BY <1>8, <1>15 DEF JobDue, RunNow, Start, tables, arrs
  <1>16. CASE BeginApp \/ ReadCommands \/ ResolveFails \/ QueueGuard \/ NextMode \/ Fetch
    BY <1>8, <1>16 DEF BeginApp, ReadCommands, ResolveFails, QueueGuard, NextMode, Fetch, tables, arrs
  <1>17. CASE Tick \/ Crash \/ \E i \in Items : FileChanges(i)
    BY <1>8, <1>17 DEF Tick, Crash, FileChanges, tables, arrs
  <1>18. QED
    BY <1>9, <1>10, <1>11, <1>12, <1>13, <1>14, <1>15, <1>16, <1>17 DEF Next, RunStep, Environment

\* A row that is the same search as a genuine one is genuine after a step.
SameSearch(row, old) ==
    /\ row.id = old.id /\ row.ts = old.ts /\ row.unit = old.unit
    /\ row.cmd = old.cmd /\ row.hist = old.hist
LEMMA GenuineKept ==
    ASSUME IInv, Keeps, IInv', NEW row, NEW old \in Rows, Genuine(old), SameSearch(row, old)
    PROVE  Genuine(row)'
  <1>1. lastHistory \in Nat /\ lastHistory' \in Nat /\ old.hist \in Nat
    BY DEF IInv, TypeOK, Rows
  <1>2. /\ old.cmd \in DOMAIN commands /\ old.id = old.cmd
        /\ old.unit = commands[old.cmd].unit /\ old.ts >= commands[old.cmd].started
        /\ old.hist <= lastHistory
        /\ old.hist \in DOMAIN history => history[old.hist].unit = old.unit
    BY DEF Genuine
  <1>3. old.cmd \in DOMAIN commands' /\ commands'[old.cmd].unit = commands[old.cmd].unit
        /\ commands'[old.cmd].started = commands[old.cmd].started
    BY <1>2 DEF Keeps
  <1>4. old.hist \in DOMAIN history' =>
           old.hist \in DOMAIN history /\ history'[old.hist].unit = history[old.hist].unit
    BY <1>2 DEF Keeps
  <1>5. old.hist <= lastHistory'
    BY <1>1, <1>2 DEF Keeps
  <1>6. QED
    BY <1>2, <1>3, <1>4, <1>5 DEF SameSearch, Genuine

\* What a run holds are rows.
LEMMA HeldRows ==
    ASSUME IInv
    PROVE  /\ ToSet(searches) \subseteq Rows /\ ToSet(run.pending) \subseteq Rows
           /\ ReadBack \subseteq Rows
           /\ \A k \in 1..Len(run.finished) : run.finished[k].search \in ReadBack
           /\ DOMAIN run.finished = 1..Len(run.finished)
  <1>1. searches \in Seq(Rows) /\ run.pending \in Seq(Rows) /\ run.finished \in Seq(Findings)
    BY DEF IInv, TypeOK, RunType
  <1>2. ToSet(searches) \subseteq Rows /\ ToSet(run.pending) \subseteq Rows
    BY <1>1, ListSet
  <1>3. DOMAIN run.finished = 1..Len(run.finished) /\ \A k \in 1..Len(run.finished) : run.finished[k] \in Findings
    BY <1>1
  <1>4. \A k \in 1..Len(run.finished) : run.finished[k].search \in Rows
    BY <1>3 DEF Findings
  <1>5. QED
    BY <1>2, <1>3, <1>4 DEF ReadBack

\* A run that has dropped what it read.
NothingRead ==
    /\ ReadBack = {} /\ InOrder(run.pending)
    /\ \A k, l \in 1..Len(run.finished) : k < l => run.finished[k].search.id < run.finished[l].search.id
LEMMA NothingHeld == ASSUME run'.pending = <<>>, run'.finished = <<>> PROVE NothingRead'
  <1>1. DOMAIN <<>> = {} /\ Len(<<>>) = 0
    OBVIOUS
  <1>2. ToSet(<<>>) = {}
    BY <1>1 DEF ToSet
  <1>3. QED
    BY <1>1, <1>2 DEF NothingRead, ReadBack, InOrder

\* A step that leaves the table alone, and what the run has read or drops it.
LEMMA RowsQuiet ==
    ASSUME IInv, IInv', RowInv, Keeps, searches' = searches,
           run' = run \/ (run'.pending = <<>> /\ run'.finished = <<>>),
           OutcomeOnOwnRow'
    PROVE  RowsTrue'
  <1>1. RowsGenuine /\ RowsInOrder /\ StillPending
    BY DEF RowInv, RowsTrue
  <1>2. \A row \in ToSet(searches) \cup ReadBack : row \in Rows /\ Genuine(row)
    BY <1>1, HeldRows DEF RowsGenuine
  <1>3. \A row \in ToSet(searches) \cup ReadBack : Genuine(row)'
    BY <1>2, GenuineKept DEF SameSearch
  <1>4. CASE run' = run
    <2>1. run'.pending = run.pending /\ run'.finished = run.finished
      BY <1>4
    <2>2. ReadBack' = ReadBack
      BY <2>1 DEF ReadBack
    <2>3. RowsGenuine'
      BY <1>3, <2>2 DEF RowsGenuine
    <2>4. RowsInOrder'
      BY <1>1, <2>1 DEF RowsInOrder
    <2>5. StillPending'
      BY <1>1, <2>2 DEF StillPending
    <2>6. QED
      BY <2>3, <2>4, <2>5 DEF RowInv, RowsTrue
  <1>5. CASE run'.pending = <<>> /\ run'.finished = <<>>
    <2>1. NothingRead'
      BY <1>5, NothingHeld
    <2>2. RowsGenuine'
      BY <1>3, <2>1 DEF RowsGenuine, NothingRead
    <2>3. RowsInOrder'
      BY <1>1, <2>1 DEF RowsInOrder, NothingRead
    <2>4. StillPending'
      BY <2>1 DEF StillPending, NothingRead
    <2>5. QED
      BY <2>2, <2>3, <2>4 DEF RowInv, RowsTrue
  <1>6. QED
    BY <1>4, <1>5

\* The row that a search leaves is genuine.
LEMMA NewRowGenuine ==
    ASSUME IInv, InFlight, run.at = "sent", UNCHANGED commands, AddSent(Next1, 3),
           NEW o \in {"pending", "unknown"}, NEW row, row = NewRow(Next1, o)
    PROVE  Genuine(row)'
  <1>1. TypeOK /\ Next1 \in Units
    BY NextUnit DEF IInv
  <1>2. /\ row.id = Len(commands) /\ row.cmd = Len(commands)
        /\ row.ts = now /\ row.unit = Next1 /\ row.hist = lastHistory + 1
    BY <1>1, NewRowIs
  <1>3. /\ Len(commands) \in DOMAIN commands /\ commands[Len(commands)].unit = Next1
        /\ commands[Len(commands)].started <= now
    BY DEF InFlight, Next1
  <1>4. lastHistory' = lastHistory + 1 /\ history'[lastHistory + 1].unit = Next1 /\ lastHistory' \in Nat
    BY <1>1, Sent
  <1>5. row.ts >= commands[row.cmd].started /\ row.hist <= lastHistory'
    <2>1. now \in Nat /\ commands[Len(commands)] \in Command
      BY <1>1, <1>3 DEF TypeOK
    <2>2. QED
      BY <1>2, <1>3, <1>4, <2>1 DEF Command
  <1>6. /\ row.cmd \in DOMAIN commands' /\ row.id = row.cmd
        /\ row.unit = commands'[row.cmd].unit /\ row.ts >= commands'[row.cmd].started
        /\ row.hist <= lastHistory'
        /\ row.hist \in DOMAIN history' => history'[row.hist].unit = row.unit
    BY <1>2, <1>3, <1>4, <1>5
  <1>7. QED
    BY <1>6 DEF Genuine

\* A search has one row.
LEMMA RowsAreUnique == ASSUME IInv, RowInv PROVE \A s, t \in ToSet(searches) : s.id = t.id => s = t
  <1>1. searches \in Seq(Rows)
    BY DEF IInv, TypeOK
  <1>2. ASSUME NEW s \in ToSet(searches), NEW t \in ToSet(searches), s.id = t.id PROVE s = t
    <2>1. PICK m, n \in 1..Len(searches) : s = searches[m] /\ t = searches[n]
      BY <1>1, ListMember
    <2>2. ~(m < n) /\ ~(n < m)
      <3>1. searches[m].id \in Nat /\ searches[n].id \in Nat /\ searches[m].id = searches[n].id
        <4>1. s \in Rows /\ t \in Rows
          BY HeldRows
        <4>2. QED
          BY <1>2, <2>1, <4>1 DEF Rows
      <3>2. QED
        BY <3>1 DEF RowInv, RowsTrue, RowsInOrder, InOrder
    <2>3. QED
      BY <1>1, <2>1, <2>2
  <1>3. QED
    BY <1>2

LEMMA RowsBeginApp == ASSUME IInv, IInv', RowInv, Keeps, BeginApp PROVE RowsTrue'
  <1> DEFINE mine == Among(searches, {s \in ToSet(searches) :
                                        s.unit.app = ThisApp /\ s.outcome = "pending"})
             pending == SubSeq(mine, 1, Least(LookupLimit, Len(mine)))
             place == IF pending = <<>> THEN "queue" ELSE "lookup"
  <1>1. /\ pending \in Seq(Rows)
        /\ \A k \in 1..Len(pending) : pending[k] \in ToSet(searches) /\ pending[k].outcome = "pending"
        /\ InOrder(searches) => InOrder(pending)
    BY PendingRead DEF IInv
  <1>2. run' = [[run EXCEPT !.pending = pending] EXCEPT !.at = place] /\ UNCHANGED <<Others, moves>>
    BY DEF BeginApp, Goto, Others
  <1> HIDE DEF pending, place
  <1>3. run \in RunType /\ run.finished = <<>>
    BY DEF IInv, TypeOK, InRun, Shape, BeginApp
  <1>4. run'.pending = pending /\ run'.finished = <<>>
    BY <1>2, <1>3 DEF RunType
  <1>5. RowsGenuine /\ RowsInOrder /\ InOrder(searches) /\ OutcomeOnOwnRow
    BY DEF RowInv, RowsTrue, RowsInOrder
  <1>6. searches' = searches /\ history' = history
    BY <1>2 DEF Others, tables
  <1>7. \A row \in ReadBack' : row \in ToSet(searches) /\ row.outcome = "pending"
    <2>1. DOMAIN <<>> = {}
      OBVIOUS
    <2>2. DOMAIN pending = 1..Len(pending)
      BY <1>1
    <2>3. \A row \in ToSet(pending) : row \in ToSet(searches) /\ row.outcome = "pending"
      BY <1>1, <2>2 DEF ToSet
    <2>4. QED
      BY <1>4, <2>1, <2>3 DEF ReadBack
  <1>8. \A row \in ToSet(searches) : row \in Rows /\ Genuine(row)
    BY <1>5, HeldRows DEF RowsGenuine
  <1>9. \A row \in ToSet(searches) : Genuine(row)'
    BY <1>8, GenuineKept DEF SameSearch
  <1>10. RowsGenuine'
    BY <1>6, <1>7, <1>9 DEF RowsGenuine
  <1>11. RowsInOrder'
    <2>1. InOrder(run.pending)'
      BY <1>1, <1>4, <1>5 DEF InOrder
    <2>2. Len(<<>>) = 0
      OBVIOUS
    <2>3. InOrder(searches)'
      BY <1>5, <1>6 DEF InOrder
    <2>4. (\A k, l \in 1..Len(run.finished) : k < l => run.finished[k].search.id < run.finished[l].search.id)'
      BY <1>4, <2>2
    <2>5. QED
      BY <2>1, <2>3, <2>4 DEF RowsInOrder
  <1>12. \A s, t \in ToSet(searches) : s.id = t.id => s = t
    BY RowsAreUnique
  <1>13. StillPending'
    BY <1>6, <1>7, <1>12 DEF StillPending
  <1>14. OutcomeOnOwnRow'
    BY <1>5, <1>6 DEF OutcomeOnOwnRow
  <1>15. QED
    BY <1>10, <1>11, <1>13, <1>14 DEF RowInv, RowsTrue

\* What a run keeps of the commands that it asked about.
LEMMA CommandsRead ==
    ASSUME IInv, RowsGenuine, ReadCommands
    PROVE  /\ run'.pending = run.pending /\ run'.at \in {"queue", "resolve"}
           /\ \A k \in 1..Len(run'.finished) :
                 /\ run'.finished[k].search \in ToSet(run.pending)
                 /\ run'.finished[k].command = commands[run'.finished[k].search.cmd]
                 /\ run'.finished[k].command.status # "running"
           /\ InOrder(run.pending) =>
                 \A k, l \in 1..Len(run'.finished) : k < l => run'.finished[k].search.id < run'.finished[l].search.id
  <1>1. PICK n \in 0..Len(run.pending) :
           LET read == SubSeq(run.pending, 1, n)
               done == Among(read, {s \in ToSet(read) : commands[s.cmd].status # "running"})
           IN Goto(IF done = <<>> THEN "queue" ELSE "resolve",
                   [run EXCEPT !.finished =
                       [k \in 1..Len(done) |-> [search |-> done[k], command |-> commands[done[k].cmd]]]])
    BY DEF ReadCommands
  <1> DEFINE read == SubSeq(run.pending, 1, n)
             done == Among(read, {s \in ToSet(read) : commands[s.cmd].status # "running"})
             found == [k \in 1..Len(done) |-> [search |-> done[k], command |-> commands[done[k].cmd]]]
             place == IF done = <<>> THEN "queue" ELSE "resolve"
  <1>2. /\ \A k \in 1..Len(found) :
              /\ found[k].search \in ToSet(run.pending)
              /\ found[k].command = commands[found[k].search.cmd]
              /\ found[k].command.status # "running"
        /\ InOrder(run.pending) =>
              \A k, l \in 1..Len(found) : k < l => found[k].search.id < found[l].search.id
    BY FinishedRead DEF IInv
  <1>3. run' = [[run EXCEPT !.finished = found] EXCEPT !.at = place]
    BY <1>1 DEF Goto
  <1>4. place \in {"queue", "resolve"}
    OBVIOUS
  <1> HIDE DEF found, place
  <1>5. run'.pending = run.pending /\ run'.finished = found /\ run'.at = place
    BY <1>3 DEF IInv, TypeOK, RunType
  <1>6. QED
    BY <1>2, <1>4, <1>5

LEMMA RowsReadCommands == ASSUME IInv, IInv', RowInv, Keeps, ReadCommands PROVE RowsTrue'
  <1>1. RowsGenuine /\ RowsInOrder /\ StillPending /\ OutcomeOnOwnRow /\ InOrder(run.pending)
    BY DEF RowInv, RowsTrue, RowsInOrder
  <1>2. /\ run'.pending = run.pending
        /\ \A k \in 1..Len(run'.finished) : run'.finished[k].search \in ToSet(run.pending)
        /\ \A k, l \in 1..Len(run'.finished) : k < l => run'.finished[k].search.id < run'.finished[l].search.id
    BY <1>1, CommandsRead
  <1>3. DOMAIN run'.finished = 1..Len(run'.finished)
    <2>1. run'.finished \in Seq(Findings)
      BY DEF IInv, TypeOK, RunType
    <2>2. QED
      BY <2>1
  <1>4. ReadBack' \subseteq ReadBack
    BY <1>2, <1>3 DEF ReadBack
  <1>5. searches' = searches /\ history' = history
    BY DEF ReadCommands, tables
  <1>6. \A row \in ToSet(searches) \cup ReadBack : row \in Rows /\ Genuine(row)
    BY <1>1, HeldRows DEF RowsGenuine
  <1>7. \A row \in ToSet(searches) \cup ReadBack : Genuine(row)'
    BY <1>6, GenuineKept DEF SameSearch
  <1>8. RowsGenuine'
    BY <1>4, <1>5, <1>7 DEF RowsGenuine
  <1>9. RowsInOrder'
    BY <1>1, <1>2, <1>5 DEF RowsInOrder, InOrder
  <1>10. StillPending'
    BY <1>1, <1>4, <1>5 DEF StillPending
  <1>11. OutcomeOnOwnRow'
    BY <1>1, <1>5 DEF OutcomeOnOwnRow
  <1>12. QED
    BY <1>8, <1>9, <1>10, <1>11 DEF RowInv, RowsTrue

LEMMA RowsResolve == ASSUME IInv, IInv', RowInv, Keeps, Resolve PROVE RowsTrue'
  <1>1. RowsGenuine /\ InOrder(searches) /\ OutcomeOnOwnRow
    BY DEF RowInv, RowsTrue, RowsInOrder
  <1>2. /\ searches' \in Seq(Rows) /\ Len(searches') = Len(searches)
        /\ \A n \in 1..Len(searches) :
              /\ searches'[n].id = searches[n].id /\ searches'[n].ts = searches[n].ts
              /\ searches'[n].unit = searches[n].unit /\ searches'[n].cmd = searches[n].cmd
              /\ searches'[n].hist = searches[n].hist
        /\ DOMAIN history' = DOMAIN history
        /\ \A h \in DOMAIN history :
              /\ history'[h].unit = history[h].unit
              /\ \/ history'[h] = history[h]
                 \/ \E k \in 1..Len(run.finished) : run.finished[k].search.hist = h
                       /\ history'[h].by = run.finished[k].search.unit
        /\ run' = [[run EXCEPT !.finished = <<>>, !.pending = <<>>] EXCEPT !.at = "queue"]
    BY Resolved
  <1>3. NothingRead'
    <2>1. run'.pending = <<>> /\ run'.finished = <<>>
      BY <1>2, QueueShape DEF Resolve
    <2>2. QED
      BY <2>1, NothingHeld
  <1>4. \A row \in ToSet(searches) \cup ReadBack : row \in Rows /\ Genuine(row)
    BY <1>1, HeldRows DEF RowsGenuine
  <1>5. \A row \in ToSet(searches') : \E old \in ToSet(searches) : SameSearch(row, old)
    <2>1. ASSUME NEW row \in ToSet(searches') PROVE \E old \in ToSet(searches) : SameSearch(row, old)
      <3>1. PICK n \in 1..Len(searches) : row = searches'[n]
        BY <1>2, <2>1, ListMember
      <3>2. searches[n] \in ToSet(searches)
        BY ListSet DEF IInv, TypeOK
      <3>3. SameSearch(row, searches[n])
        BY <1>2, <3>1 DEF SameSearch
      <3>4. QED
        BY <3>2, <3>3
    <2>2. QED
      BY <2>1
  <1>6. RowsGenuine'
    <2>1. \A row \in ToSet(searches') : Genuine(row)'
      BY <1>4, <1>5, GenuineKept
    <2>2. QED
      BY <1>3, <2>1 DEF RowsGenuine, NothingRead
  <1>7. RowsInOrder'
    <2>1. InOrder(searches)'
      BY <1>1, <1>2 DEF InOrder
    <2>2. QED
      BY <1>3, <2>1 DEF RowsInOrder, NothingRead
  <1>8. StillPending'
    BY <1>3 DEF StillPending, NothingRead
  <1>9. OutcomeOnOwnRow'
    <2>1. ASSUME NEW h \in DOMAIN history PROVE history'[h].by = history'[h].unit
      <3>1. CASE history'[h] = history[h]
        BY <1>1, <3>1 DEF OutcomeOnOwnRow
      <3>2. CASE \E k \in 1..Len(run.finished) : run.finished[k].search.hist = h
                    /\ history'[h].by = run.finished[k].search.unit
        <4>1. PICK k \in 1..Len(run.finished) : run.finished[k].search.hist = h
                    /\ history'[h].by = run.finished[k].search.unit
          BY <3>2
        <4>2. Genuine(run.finished[k].search)
          BY <1>4, HeldRows
        <4>3. history[h].unit = run.finished[k].search.unit
          BY <4>1, <4>2 DEF Genuine
        <4>4. QED
          BY <1>2, <4>1, <4>3
      <3>3. QED
        BY <1>2, <3>1, <3>2
    <2>2. QED
      BY <1>2, <2>1 DEF OutcomeOnOwnRow
  <1>10. QED
    BY <1>6, <1>7, <1>8, <1>9 DEF RowInv, RowsTrue

\* An earlier search has an earlier command.
LEMMA RowsAreEarlier ==
    ASSUME IInv, RowsGenuine
    PROVE  \A row \in ToSet(searches) \cup ReadBack :
              row \in Rows /\ row.id = row.cmd /\ row.cmd \in 1..Len(commands)
  <1>1. DOMAIN commands = 1..Len(commands)
    BY DomainOf DEF IInv, TypeOK
  <1>2. QED
    BY <1>1, HeldRows DEF RowsGenuine, Genuine

\* The command that is awaited is later than every search that has a row.
LEMMA AwaitedIsLast ==
    ASSUME IInv, RowInv, run.at = "sent"
    PROVE  \A s \in ToSet(searches) : s.id < Len(commands)
  <1>1. \A s \in ToSet(searches) : s \in Rows /\ s.id = s.cmd /\ s.cmd \in 1..Len(commands)
    BY RowsAreEarlier DEF RowInv, RowsTrue
  <1>2. \A s \in ToSet(searches) : s.cmd # Len(commands)
    <2>1. ASSUME NEW s \in ToSet(searches), s.cmd = Len(commands) PROVE FALSE
      <3>1. PICK n \in DOMAIN searches : s = searches[n]
        BY <2>1 DEF ToSet
      <3>2. QED
        BY <2>1, <3>1 DEF RowInv, InFlight, Logged
    <2>2. QED
      BY <2>1
  <1>3. Len(commands) \in Nat
    BY CommandCount
  <1>4. QED
    BY <1>1, <1>2, <1>3

LEMMA RowsAnswered == ASSUME IInv, IInv', RowInv, Keeps, Answered PROVE RowsTrue'
  <1>1. RowsGenuine /\ InOrder(searches) /\ OutcomeOnOwnRow /\ InFlight /\ run.at = "sent"
    BY DEF RowInv, RowsTrue, RowsInOrder, Answered
  <1>2. PICK o \in {"pending", "unknown"} : Record(Next1, 3, o)
    BY DEF Answered, Next1
  <1>3. /\ Next1 \in Units /\ AddSent(Next1, 3) /\ LogSearch(Next1, 3, o) /\ UNCHANGED commands
    BY <1>1, <1>2, NextUnit DEF Answered, Record, arrs
  <1>4. NothingRead'
    <2>1. run'.pending = <<>> /\ run'.finished = <<>>
      BY AfterSend DEF Answered
    <2>2. QED
      BY <2>1, NothingHeld
  <1>5. TypeOK
    BY DEF IInv
  <1>6. ToSet(searches') \subseteq ToSet(searches) \cup {NewRow(Next1, o)}
        /\ (InOrder(searches) /\ (\A s \in ToSet(searches) : s.id < Len(commands)) => InOrder(searches'))
    BY <1>3, <1>5, LoggedRow
  <1>7. \A row \in ToSet(searches) : Genuine(row)'
    BY <1>1, HeldRows, GenuineKept DEF RowsGenuine, SameSearch
  <1>8. RowsGenuine'
    BY <1>1, <1>3, <1>4, <1>6, <1>7, NewRowGenuine DEF RowsGenuine, NothingRead
  <1>9. RowsInOrder'
    <2>1. InOrder(searches)'
      BY <1>1, <1>6, AwaitedIsLast DEF InOrder
    <2>2. QED
      BY <1>4, <2>1 DEF RowsInOrder, NothingRead
  <1>10. StillPending'
    BY <1>4 DEF StillPending, NothingRead
  <1>11. OutcomeOnOwnRow'
    <2>1. /\ DOMAIN history' = DOMAIN history \cup {lastHistory + 1}
          /\ history'[lastHistory + 1].unit = Next1 /\ history'[lastHistory + 1].by = Next1
          /\ \A k \in DOMAIN history : history'[k] = history[k]
      BY <1>3, <1>5, Sent
    <2>2. QED
      BY <1>1, <2>1 DEF OutcomeOnOwnRow
  <1>12. QED
    BY <1>8, <1>9, <1>10, <1>11 DEF RowsTrue

\* The history of the other steps.
LEMMA HistoryQuiet == ASSUME OutcomeOnOwnRow, UNCHANGED history PROVE OutcomeOnOwnRow'
  BY DEF OutcomeOnOwnRow

LEMMA HistoryAdds ==
    ASSUME TypeOK, OutcomeOnOwnRow, NEW u \in Units \cup {NoUnit},
           NEW status \in {"sent", "error", "success"}, Adds(u, status)
    PROVE  OutcomeOnOwnRow'
  <1>1. /\ DOMAIN history' = DOMAIN history \cup {lastHistory + 1}
        /\ history'[lastHistory + 1].unit = u /\ history'[lastHistory + 1].by = u
        /\ \A k \in DOMAIN history : history'[k] = history[k]
    BY Added
  <1>2. QED
    BY <1>1 DEF OutcomeOnOwnRow

LEMMA RowsAdd ==
    ASSUME IInv, IInv', RowInv, Keeps, SkipApp \/ SendFails \/ ResetState PROVE RowsTrue'
  <1>1. TypeOK /\ OutcomeOnOwnRow
    BY DEF IInv, RowInv, RowsTrue
  <1>2. PICK u \in Units \cup {NoUnit}, status \in {"error", "success"} : Adds(u, status)
    BY NextUnit DEF SendFails, SkipApp, ResetState, Next1
  <1>3. OutcomeOnOwnRow'
    BY <1>1, <1>2, HistoryAdds
  <1>4. searches' = searches
    BY DEF SkipApp, SendFails, ResetState
  <1>5. run' = run \/ (run'.pending = <<>> /\ run'.finished = <<>>)
    <2>1. CASE SkipApp
      BY <2>1 DEF SkipApp, NextApp, Idle
    <2>2. CASE SendFails
      BY <2>2, AfterSend DEF SendFails
    <2>3. CASE ResetState
      BY <2>3 DEF ResetState
    <2>4. QED
      BY <2>1, <2>2, <2>3
  <1>6. QED
    BY <1>3, <1>4, <1>5, RowsQuiet

LEMMA RowsCrashInSend == ASSUME IInv, IInv', RowInv, Keeps, CrashInSend PROVE RowsTrue'
  <1>1. run'.pending = <<>> /\ run'.finished = <<>>
    BY DEF CrashInSend, Idle
  <1>2. PICK n \in 1..2 : Record(Next1, n, "pending")
    BY DEF CrashInSend, Next1
  <1>3. Next1 \in Units /\ n \in 0..3 /\ n < 3 /\ TypeOK
    BY NextUnit DEF CrashInSend, IInv
  <1>4. searches' = searches
    BY <1>2, <1>3, LoggedRow DEF Record
  <1>5. OutcomeOnOwnRow'
    <2>1. \/ history' = history
          \/ /\ DOMAIN history' = DOMAIN history \cup {lastHistory + 1}
             /\ history'[lastHistory + 1].unit = Next1 /\ history'[lastHistory + 1].by = Next1
             /\ \A k \in DOMAIN history : history'[k] = history[k]
      <3>1. AddSent(Next1, n)
        BY <1>2 DEF Record
      <3>2. n < 2 \/ n >= 2
        BY <1>3
      <3>3. QED
        BY <1>3, <3>1, <3>2, Sent
    <2>2. QED
      BY <2>1 DEF RowInv, RowsTrue, OutcomeOnOwnRow
  <1>6. QED
    BY <1>1, <1>4, <1>5, RowsQuiet

LEMMA RowsClear == ASSUME IInv, IInv', RowInv, Keeps, ClearHistory PROVE RowsTrue'
  <1>1. searches' = searches /\ run' = run
    BY DEF ClearHistory
  <1>2. OutcomeOnOwnRow'
    <2>1. DOMAIN history' = {lastHistory'} /\ history'[lastHistory'] = Audit
      BY Cleared
    <2>2. Audit.by = Audit.unit
      BY DEF Audit
    <2>3. QED
      BY <2>1, <2>2 DEF OutcomeOnOwnRow
  <1>3. QED
    BY <1>1, <1>2, RowsQuiet

\* A run that drops what it read, or a step that leaves the run alone.
LEMMA RunHolds ==
    ASSUME IInv, IInv', JobDue \/ RunNow \/ ResolveFails \/ QueueGuard \/ NextMode \/ Fetch \/ Crash
    PROVE  run'.pending = <<>> /\ run'.finished = <<>> /\ run'.at # "sent"
  <1>1. CASE JobDue \/ RunNow
    <2>1. PICK names : run' = [[Idle EXCEPT !.apps = names] EXCEPT !.at = "app"]
      BY <1>1 DEF JobDue, RunNow, Start, Goto
    <2>2. QED
      BY <2>1 DEF Idle
  <1>2. CASE ResolveFails
    <2>1. run.at = "resolve" /\ run' = [[run EXCEPT !.finished = <<>>, !.pending = <<>>] EXCEPT !.at = "queue"]
      BY <1>2 DEF ResolveFails, Goto
    <2>2. QED
      BY <2>1, QueueShape
  <1>3. CASE QueueGuard \/ NextMode
    <2>1. run'.at \in {"idle", "app", "fetch"}
      BY <1>3, TypeQueueGuard, TypeNextMode
    <2>2. QED
      BY <2>1 DEF IInv, InRun, Shape
  <1>4. CASE Fetch
    <2>1. run'.at \in {"mode", "send"}
      <3>1. PICK retry \in Tables, todo \in Seq(Wanted) :
              run' = [[run EXCEPT !.retry = retry, !.todo = todo]
                         EXCEPT !.at = IF todo = <<>> THEN "mode" ELSE "send"]
        BY <1>4, Fetched
      <3>2. QED
        BY <3>1 DEF IInv, TypeOK, RunType
    <2>2. QED
      BY <2>1 DEF IInv, InRun, Shape
  <1>5. CASE Crash
    BY <1>5 DEF Crash, Idle
  <1>6. QED
    BY <1>1, <1>2, <1>3, <1>4, <1>5

\* The run that awaits an answer, and what it awaits.
LEMMA StepInFlight == ASSUME IInv, IInv', RowInv, Keeps, Next PROVE InFlight'
  <1>1. CASE run'.at # "sent"
    BY <1>1 DEF InFlight
  <1>2. CASE Send
    <2>1. Next1 \in Units /\ TypeOK
      BY <1>2, NextUnit DEF Send, IInv
    <2>2. /\ Accepts(Next1) /\ run' = [run EXCEPT !.at = "sent"]
          /\ searches' = searches /\ now' = now
      BY <1>2 DEF Send, Goto, Next1, tables
    <2>3. /\ Len(commands') = Len(commands) + 1 /\ Len(commands) \in Nat
          /\ Len(commands) + 1 \in DOMAIN commands'
          /\ commands'[Len(commands) + 1].unit = Next1 /\ commands'[Len(commands) + 1].started = now
      BY <2>1, <2>2, Accepted
    <2>4. Next1' = Next1
      BY <2>1, <2>2 DEF TypeOK, RunType, Next1
    <2>5. \A n \in DOMAIN searches : searches[n].cmd \in 1..Len(commands)
      <3>1. \A n \in DOMAIN searches : searches[n] \in ToSet(searches)
        BY DEF ToSet
      <3>2. QED
        BY <3>1, RowsAreEarlier DEF RowInv, RowsTrue
    <2>6. ~Logged(Len(commands))'
      BY <2>2, <2>3, <2>5 DEF Logged
    <2>7. now <= now
      BY <2>1 DEF TypeOK
    <2>8. QED
      BY <2>2, <2>3, <2>4, <2>6, <2>7 DEF InFlight, Next1
  <1>3. CASE ResetState \/ ClearHistory \/ Tick \/ (\E c \in DOMAIN commands : CommandEnds(c))
             \/ (\E i \in Items : FileChanges(i))
    <2>1. UNCHANGED <<searches, run>>
      BY <1>3 DEF ResetState, ClearHistory, Tick, CommandEnds, FileChanges, tables
    <2>2. Len(commands') = Len(commands)
      BY <1>3, Ended DEF ResetState, ClearHistory, Tick, FileChanges, arrs, IInv
    <2>3. now \in Nat /\ (now' = now \/ now' = now + 1)
      BY <1>3 DEF ResetState, ClearHistory, Tick, CommandEnds, FileChanges, IInv, TypeOK
    <2>4. ASSUME run.at = "sent" PROVE InFlight'
      <3> DEFINE c == Len(commands)
      <3>1. /\ c \in DOMAIN commands /\ commands[c].unit = Next1 /\ commands[c].started <= now
            /\ ~Logged(c) /\ commands[c].started \in Nat
        <4>1. c \in DOMAIN commands => commands[c] \in Command
          BY DEF IInv, TypeOK
        <4>2. QED
          BY <2>4, <4>1 DEF RowInv, InFlight, Next1, Command
      <3>2. c \in DOMAIN commands' /\ commands'[c].unit = Next1 /\ commands'[c].started <= now'
        BY <2>3, <3>1 DEF Keeps
      <3>3. Next1' = Next1 /\ Len(commands') = c
        BY <2>1, <2>2 DEF Next1
      <3>4. ~Logged(Len(commands))'
        BY <2>1, <3>1, <3>3 DEF Logged
      <3> HIDE DEF c
      <3>5. QED
        BY <3>2, <3>3, <3>4 DEF InFlight, Next1
    <2>5. QED
      BY <1>1, <2>1, <2>4
  <1>4. CASE SkipApp
    BY <1>1, <1>4 DEF SkipApp, NextApp, Idle
  <1>5. CASE BeginApp \/ ReadCommands \/ Resolve
    <2>1. run \in RunType
      BY DEF IInv, TypeOK
    <2>2. CASE BeginApp
      BY <1>1, <2>1, <2>2 DEF BeginApp, Goto, RunType
    <2>3. CASE ReadCommands
      BY <1>1, <2>3, CommandsRead DEF RowInv, RowsTrue
    <2>4. CASE Resolve
      BY <1>1, <2>1, <2>4 DEF Resolve, Goto, RunType
    <2>5. QED
      BY <1>5, <2>2, <2>3, <2>4
  <1>6. CASE Answered \/ SendFails
    <2>1. run'.at = IF Len(run.todo) = 1 THEN "mode" ELSE "send"
      BY <1>6, AfterSend DEF Answered, SendFails
    <2>2. QED
      BY <1>1, <2>1
  <1>7. CASE CrashInSend
    BY <1>1, <1>7 DEF CrashInSend, Idle
  <1>8. CASE JobDue \/ RunNow \/ ResolveFails \/ QueueGuard \/ NextMode \/ Fetch \/ Crash
    BY <1>1, <1>8, RunHolds
  <1>9. QED
    BY <1>2, <1>3, <1>4, <1>5, <1>6, <1>7, <1>8 DEF Next, RunStep, Environment

LEMMA StepRows == ASSUME IInv, RowInv, [Next]_vars PROVE IInv' /\ RowInv'
  <1>1. IInv'
    BY StepIInv DEF RowInv, RowsTrue
  <1>2. CASE UNCHANGED vars
    <2>1. UNCHANGED <<now, run, searches, history, lastHistory, commands>>
      BY <1>2 DEF vars
    <2>2. RowsGenuine'
      BY <2>1 DEF RowInv, RowsTrue, RowsGenuine, ReadBack, Genuine
    <2>3. RowsInOrder' /\ StillPending' /\ OutcomeOnOwnRow'
      BY <2>1 DEF RowInv, RowsTrue, RowsInOrder, InOrder, StillPending, ReadBack, OutcomeOnOwnRow
    <2>4. InFlight'
      BY <2>1 DEF RowInv, InFlight, Logged
    <2>5. QED
      BY <1>1, <2>2, <2>3, <2>4 DEF RowInv, RowsTrue
  <1>3. CASE Next
    <2>1. Keeps
      BY <1>3, StepKeeps
    <2>2. OutcomeOnOwnRow
      BY DEF RowInv, RowsTrue
    <2>3. CASE JobDue \/ RunNow \/ ResolveFails \/ QueueGuard \/ NextMode \/ Fetch \/ Crash
      <3>1. UNCHANGED <<searches, history>>
        BY <2>3 DEF JobDue, RunNow, Start, ResolveFails, QueueGuard, NextMode, Fetch, Crash, tables
      <3>2. RowsTrue'
        BY <1>1, <2>1, <2>2, <2>3, <3>1, RunHolds, RowsQuiet, HistoryQuiet
      <3>3. QED
        BY <1>1, <1>3, <2>1, <3>2, StepInFlight DEF RowInv
    <2>4. CASE Tick \/ (\E c \in DOMAIN commands : CommandEnds(c)) \/ (\E i \in Items : FileChanges(i))
      <3>1. UNCHANGED <<searches, history, run>>
        BY <2>4 DEF Tick, CommandEnds, FileChanges, tables
      <3>2. RowsTrue'
        BY <1>1, <2>1, <2>2, <3>1, RowsQuiet, HistoryQuiet
      <3>3. QED
        BY <1>1, <1>3, <2>1, <3>2, StepInFlight DEF RowInv
    <2>5. CASE Send
      <3>1. /\ UNCHANGED <<searches, history>>
            /\ run'.pending = run.pending /\ run'.finished = run.finished /\ run.at = "send"
        BY <2>5 DEF Send, Goto, tables, IInv, TypeOK, RunType
      <3>2. run'.pending = <<>> /\ run'.finished = <<>>
        BY <3>1 DEF IInv, InRun, Shape
      <3>3. RowsTrue'
        BY <1>1, <2>1, <2>2, <3>1, <3>2, RowsQuiet, HistoryQuiet
      <3>4. QED
        BY <1>1, <1>3, <2>1, <3>3, StepInFlight DEF RowInv
    <2>6. CASE \/ BeginApp \/ ReadCommands \/ Resolve \/ Answered \/ CrashInSend \/ ClearHistory
               \/ SkipApp \/ SendFails \/ ResetState
      <3>1. RowsTrue'
        BY <1>1, <2>1, <2>6, RowsBeginApp, RowsReadCommands, RowsResolve, RowsAnswered, RowsCrashInSend,
           RowsClear, RowsAdd
      <3>2. QED
        BY <1>1, <1>3, <2>1, <3>1, StepInFlight DEF RowInv
    <2>7. QED
      BY <1>1, <1>3, <2>3, <2>4, <2>5, <2>6 DEF Next, RunStep, Environment
  <1>4. QED
    BY <1>2, <1>3

LEMMA InitRows == Init => RowInv
  <1> SUFFICES ASSUME Init PROVE RowInv
    OBVIOUS
  <1>1. DOMAIN <<>> = {} /\ Len(<<>>) = 0
    OBVIOUS
  <1>2. ToSet(<<>>) = {}
    BY <1>1 DEF ToSet
  <1>3. searches = <<>> /\ run.pending = <<>> /\ run.finished = <<>> /\ DOMAIN history = {}
        /\ run.at # "sent"
    BY <1>1 DEF Init, Idle
  <1>4. QED
    BY <1>1, <1>2, <1>3 DEF RowInv, RowsTrue, InFlight, RowsGenuine, RowsInOrder, InOrder, StillPending, ReadBack, OutcomeOnOwnRow

\* The types of the state and the shape of a run.
THEOREM SpecIInv == Spec => [](IInv /\ RowInv)
  <1>1. Init => IInv /\ RowInv
    BY InitIInv, InitRows
  <1>2. (IInv /\ RowInv) /\ [Next]_vars => (IInv /\ RowInv)'
    BY StepRows
  <1>3. QED
    BY <1>1, <1>2, PTL DEF Spec

\* A search's outcome is written to its own history row and no other, whatever
\* is cleared and logged between the search and its outcome.
THEOREM SpecOutcomeOnOwnRow == Spec => []OutcomeOnOwnRow
  <1>1. IInv /\ RowInv => OutcomeOnOwnRow
    BY DEF RowInv, RowsTrue
  <1>2. QED
    BY <1>1, SpecIInv, PTL
-----------------------------------------------------------------------------
(***************************************************************************)
(* Outcomes are true                                                       *)
(***************************************************************************)

\* VerdictTrue of one row.
Verdict(row) ==
    /\ row.outcome = "not_found" => commands[row.cmd].grabbed = 0
    /\ row.outcome = "grabbed" => Credited(row.cmd)
LEMMA VerdictRows == VerdictTrue <=> \A row \in ToSet(searches) : Verdict(row)
  BY DEF VerdictTrue, Verdict, Credited, ToSet

LEMMA CommandIs ==
    ASSUME IInv
    PROVE  /\ DOMAIN commands = 1..Len(commands) /\ Len(commands) \in Nat
           /\ \A c \in DOMAIN commands : commands[c] \in Command
  <1>1. commands \in Seq(Command)
    BY DEF IInv, TypeOK
  <1>2. QED
    BY <1>1

\* A command that stays as it was stays credited.
LEMMA CreditKept ==
    ASSUME NEW c, commands'[c] = commands[c], grabs \subseteq grabs', Credited(c)
    PROVE  Credited(c)'
  BY DEF Credited

\* A step that changes no earlier command, adds none that has ended and gives
\* no outcome but that of a command without an id.
LEMMA VerdictQuiet ==
    ASSUME IInv, IInv', RowInv, VerdictInv, grabs \subseteq grabs', now' >= now,
           \A c \in DOMAIN commands : c \in DOMAIN commands' /\ commands'[c] = commands[c],
           \A c \in DOMAIN commands' : c \notin DOMAIN commands =>
               commands'[c].started <= now' /\ commands'[c].grabbed = 0,
           \A row \in ToSet(searches') : row \in ToSet(searches) \/ row.outcome \in {"pending", "unknown"},
           \A k \in 1..Len(run'.finished) :
               \/ k \in 1..Len(run.finished) /\ run'.finished[k] = run.finished[k]
               \/ /\ run'.finished[k].search.cmd \in DOMAIN commands
                  /\ run'.finished[k].command = commands[run'.finished[k].search.cmd]
                  /\ run'.finished[k].command.status # "running"
    PROVE  VerdictInv'
  <1>1. CommandsTrue /\ EndedFirst /\ VerdictTrue /\ RowsGenuine
    BY DEF VerdictInv, RowInv, RowsTrue
  <1>2. now \in Nat /\ now' \in Nat
    BY DEF IInv, TypeOK
  <1>3. CommandsTrue'
    <2>1. ASSUME NEW c \in DOMAIN commands'
          PROVE  /\ commands'[c].started <= now'
                 /\ commands'[c].status = "running" => commands'[c].grabbed = 0
                 /\ commands'[c].grabbed > 0 => Credited(c)'
      <3>1. CASE c \in DOMAIN commands
        <4>1. /\ commands'[c] = commands[c] /\ commands[c].started <= now
              /\ commands[c].status = "running" => commands[c].grabbed = 0
              /\ commands[c].grabbed > 0 => Credited(c)
          BY <1>1, <3>1 DEF CommandsTrue
        <4>2. commands[c].started \in Nat
          BY <3>1, CommandIs DEF Command
        <4>3. commands'[c].started <= now'
          BY <1>2, <4>1, <4>2
        <4>4. QED
          BY <4>1, <4>3, CreditKept
      <3>2. CASE c \notin DOMAIN commands
        BY <2>1, <3>2
      <3>3. QED
        BY <3>1, <3>2
    <2>2. QED
      BY <2>1 DEF CommandsTrue
  <1>4. \A row \in ToSet(searches) \cup ReadBack : row.cmd \in DOMAIN commands
    BY <1>1 DEF RowsGenuine, Genuine
  <1>5. EndedFirst'
    <2>1. ASSUME NEW row \in ToSet(searches'), row.outcome \in {"grabbed", "not_found", "failed"}
          PROVE  commands'[row.cmd].status # "running"
      <3>1. row \in ToSet(searches)
        BY <2>1
      <3>2. commands'[row.cmd] = commands[row.cmd]
        BY <1>4, <3>1
      <3>3. QED
        BY <1>1, <2>1, <3>1, <3>2 DEF EndedFirst
    <2>2. ASSUME NEW k \in 1..Len(run'.finished)
          PROVE  /\ run'.finished[k].command = commands'[run'.finished[k].search.cmd]
                 /\ run'.finished[k].command.status # "running"
      <3>1. CASE k \in 1..Len(run.finished) /\ run'.finished[k] = run.finished[k]
        <4>1. run.finished[k].search \in ReadBack /\ k \in DOMAIN run.finished
          BY <3>1, HeldRows
        <4>2. run.finished[k].command = commands[run.finished[k].search.cmd]
              /\ run.finished[k].command.status # "running"
          BY <1>1, <4>1 DEF EndedFirst
        <4>3. commands'[run.finished[k].search.cmd] = commands[run.finished[k].search.cmd]
          BY <1>4, <4>1
        <4>4. QED
          BY <3>1, <4>2, <4>3
      <3>2. CASE /\ run'.finished[k].search.cmd \in DOMAIN commands
                 /\ run'.finished[k].command = commands[run'.finished[k].search.cmd]
                 /\ run'.finished[k].command.status # "running"
        BY <3>2
      <3>3. QED
        BY <2>2, <3>1, <3>2
    <2>3. DOMAIN run'.finished = 1..Len(run'.finished)
      <3>1. run'.finished \in Seq(Findings)
        BY DEF IInv, TypeOK, RunType
      <3>2. QED
        BY <3>1
    <2>4. QED
      BY <2>1, <2>2, <2>3 DEF EndedFirst
  <1>6. VerdictTrue'
    <2>1. ASSUME NEW row \in ToSet(searches') PROVE Verdict(row)'
      <3>1. CASE row \in ToSet(searches)
        <4>1. Verdict(row) /\ commands'[row.cmd] = commands[row.cmd]
          BY <1>1, <1>4, <3>1, VerdictRows
        <4>2. QED
          BY <4>1, CreditKept DEF Verdict
      <3>2. CASE row.outcome \in {"pending", "unknown"}
        BY <3>2 DEF Verdict
      <3>3. QED
        BY <2>1, <3>1, <3>2
    <2>2. (VerdictTrue <=> \A row \in ToSet(searches) : Verdict(row))'
      BY VerdictRows, PTL
    <2>3. QED
      BY <2>1, <2>2
  <1>7. QED
    BY <1>3, <1>5, <1>6 DEF VerdictInv

\* The commands of a step that sends one or none.
CommandsQuiet ==
    /\ grabs \subseteq grabs'
    /\ \A c \in DOMAIN commands : c \in DOMAIN commands' /\ commands'[c] = commands[c]
    /\ \A c \in DOMAIN commands' : c \notin DOMAIN commands =>
           commands'[c].started <= now' /\ commands'[c].grabbed = 0
LEMMA NewCommandQuiet ==
    ASSUME IInv, now' = now, UNCHANGED arrs \/ \E u \in Units : Accepts(u)
    PROVE  CommandsQuiet
  <1>1. CASE UNCHANGED arrs
    BY <1>1 DEF arrs, CommandsQuiet
  <1>2. CASE \E u \in Units : Accepts(u)
    <2>1. PICK u \in Units : Accepts(u)
      BY <1>2
    <2>2. TypeOK /\ now \in Nat
      BY DEF IInv, TypeOK
    <2>3. /\ DOMAIN commands' = DOMAIN commands \cup {Len(commands) + 1}
          /\ \A c \in DOMAIN commands : commands'[c] = commands[c]
          /\ commands'[Len(commands) + 1].started = now /\ commands'[Len(commands) + 1].grabbed = 0
          /\ grabs' = grabs
      BY <2>1, <2>2, Accepted
    <2>4. QED
      BY <2>2, <2>3 DEF CommandsQuiet
  <1>3. QED
    BY <1>1, <1>2

\* Resolving gives each finished search the outcome of its own command.
LEMMA VerdictResolve == ASSUME IInv, IInv', RowInv, VerdictInv, Resolve PROVE VerdictInv'
  <1>1. CommandsTrue /\ EndedFirst /\ VerdictTrue /\ RowsGenuine
    BY DEF VerdictInv, RowInv, RowsTrue
  <1>2. PICK outcome \in [1..Len(run.finished) -> Final] :
              /\ \A k \in 1..Len(run.finished) :
                    \E message \in BOOLEAN : outcome[k] = Classify(run.finished[k].command, message)
              /\ searches' \in Seq(Rows) /\ Len(searches') = Len(searches)
              /\ \A n \in 1..Len(searches) :
                    /\ searches'[n].cmd = searches[n].cmd
                    /\ \/ searches'[n].outcome = searches[n].outcome
                       \/ \E k \in 1..Len(run.finished) :
                             run.finished[k].search.id = searches[n].id /\ searches'[n].outcome = outcome[k]
              /\ run' = [[run EXCEPT !.finished = <<>>, !.pending = <<>>] EXCEPT !.at = "queue"]
    BY Resolved
  <1>3. UNCHANGED <<now, commands, grabs>>
    BY DEF Resolve, arrs
  <1>4. \A row \in ToSet(searches) \cup ReadBack :
            row \in Rows /\ row.id = row.cmd /\ row.cmd \in DOMAIN commands
            /\ row.unit = commands[row.cmd].unit
    BY <1>1, RowsAreEarlier, CommandIs DEF RowsGenuine, Genuine
  <1>5. ASSUME NEW k \in 1..Len(run.finished)
        PROVE  LET c == run.finished[k].search.cmd IN
               /\ c \in DOMAIN commands /\ run.finished[k].search.id = c
               /\ run.finished[k].command = commands[c] /\ commands[c].status # "running"
               /\ outcome[k] = "not_found" => commands[c].grabbed = 0
               /\ outcome[k] = "grabbed" => Credited(c)
    <2> DEFINE c == run.finished[k].search.cmd
    <2>1. run.finished[k].search \in ReadBack /\ k \in DOMAIN run.finished
      BY HeldRows
    <2>2. /\ c \in DOMAIN commands /\ run.finished[k].search.id = c
          /\ run.finished[k].command = commands[c] /\ commands[c].status # "running"
      BY <1>1, <1>4, <2>1 DEF EndedFirst
    <2> HIDE DEF c
    <2>3. PICK message \in BOOLEAN : outcome[k] = Classify(commands[c], message)
      BY <1>2, <2>2
    <2>4. commands[c] \in Command /\ (commands[c].grabbed > 0 => Credited(c))
      BY <1>1, <2>2, CommandIs DEF CommandsTrue
    <2>5. commands[c].grabbed \in {0, 1}
      BY <2>4 DEF Command
    <2>6. Credited(c) <=> \E g \in grabs : InWindow(g, commands[c]) /\ g.item \in Targets(commands[c].unit)
      BY DEF Credited, InWindow
    <2>7. outcome[k] = "not_found" => commands[c].grabbed = 0
      BY <2>3, <2>4, <2>5, <2>6 DEF Classify
    <2>8. outcome[k] = "grabbed" => Credited(c)
      BY <2>3, <2>4, <2>5, <2>6 DEF Classify
    <2>9. QED
      BY <2>2, <2>7, <2>8 DEF c
  <1>6. ASSUME NEW n \in 1..Len(searches)
        PROVE  /\ searches'[n].outcome \in {"grabbed", "not_found", "failed"} =>
                    commands[searches[n].cmd].status # "running"
               /\ searches'[n].outcome = "not_found" => commands[searches[n].cmd].grabbed = 0
               /\ searches'[n].outcome = "grabbed" => Credited(searches[n].cmd)
    <2>1. searches[n] \in ToSet(searches)
      BY ListSet DEF IInv, TypeOK
    <2>2. CASE searches'[n].outcome = searches[n].outcome
      <3>1. Verdict(searches[n])
        BY <1>1, <2>1, VerdictRows
      <3>2. QED
        BY <1>1, <2>1, <2>2, <3>1 DEF EndedFirst, Verdict
    <2>3. CASE \E k \in 1..Len(run.finished) :
                  run.finished[k].search.id = searches[n].id /\ searches'[n].outcome = outcome[k]
      <3>1. PICK k \in 1..Len(run.finished) :
                  run.finished[k].search.id = searches[n].id /\ searches'[n].outcome = outcome[k]
        BY <2>3
      <3>2. run.finished[k].search.cmd = searches[n].cmd
        BY <1>4, <1>5, <2>1, <3>1
      <3>3. QED
        BY <1>5, <3>1, <3>2
    <2>4. QED
      BY <1>2, <2>2, <2>3
  <1>7. \A row \in ToSet(searches') :
            /\ row.outcome \in {"grabbed", "not_found", "failed"} => commands[row.cmd].status # "running"
            /\ row.outcome = "not_found" => commands[row.cmd].grabbed = 0
            /\ row.outcome = "grabbed" => Credited(row.cmd)
    <2>1. ASSUME NEW row \in ToSet(searches')
          PROVE  \E n \in 1..Len(searches) : row = searches'[n] /\ row.cmd = searches[n].cmd
      <3>1. PICK n \in 1..Len(searches) : row = searches'[n]
        BY <1>2, <2>1, ListMember
      <3>2. QED
        BY <1>2, <3>1
    <2>2. QED
      BY <1>6, <2>1
  <1>8. \A c : Credited(c)' <=> Credited(c)
    BY <1>3 DEF Credited
  <1>9. CommandsTrue'
    BY <1>1, <1>3, <1>8 DEF CommandsTrue
  <1>10. EndedFirst'
    <2>1. run'.finished = <<>>
      BY <1>2, QueueShape DEF Resolve
    <2>2. DOMAIN <<>> = {}
      OBVIOUS
    <2>3. QED
      BY <1>3, <1>7, <2>1, <2>2 DEF EndedFirst
  <1>11. VerdictTrue'
    <2>1. \A row \in ToSet(searches') : Verdict(row)'
      BY <1>3, <1>7, <1>8 DEF Verdict
    <2>2. (VerdictTrue <=> \A row \in ToSet(searches) : Verdict(row))'
      BY VerdictRows, PTL
    <2>3. QED
      BY <2>1, <2>2
  <1>12. QED
    BY <1>9, <1>10, <1>11 DEF VerdictInv

\* A command that ends has no outcome yet.
LEMMA VerdictEnds ==
    ASSUME IInv, IInv', RowInv, VerdictInv, NEW c \in DOMAIN commands, CommandEnds(c)
    PROVE  VerdictInv'
  <1>1. CommandsTrue /\ EndedFirst /\ VerdictTrue /\ RowsGenuine
    BY DEF VerdictInv, RowInv, RowsTrue
  <1>2. /\ DOMAIN commands' = DOMAIN commands
        /\ \A d \in DOMAIN commands : d # c => commands'[d] = commands[d]
        /\ commands'[c].unit = commands[c].unit /\ commands'[c].started = commands[c].started
        /\ commands[c].status = "running" /\ commands'[c].status # "running"
        /\ now <= commands'[c].ended + Grace /\ grabs \subseteq grabs'
        /\ \/ commands'[c].grabbed = commands[c].grabbed
           \/ \E i \in Targets(commands[c].unit) : [item |-> i, at |-> now] \in grabs'
    BY Ended DEF IInv
  <1>3. UNCHANGED <<now, searches, run>>
    BY DEF CommandEnds, tables
  <1>4. \A d \in DOMAIN commands : d # c /\ Credited(d) => Credited(d)'
    BY <1>2, CreditKept
  <1>5. now \in Nat /\ commands[c].started <= now /\ commands[c].grabbed = 0
    BY <1>1, <1>2 DEF IInv, TypeOK, CommandsTrue
  <1>6. commands'[c].grabbed > 0 => Credited(c)'
    <2>1. CASE commands'[c].grabbed = commands[c].grabbed
      BY <1>5, <2>1
    <2>2. CASE \E i \in Targets(commands[c].unit) : [item |-> i, at |-> now] \in grabs'
      <3>1. PICK i \in Targets(commands[c].unit) : [item |-> i, at |-> now] \in grabs'
        BY <2>2
      <3> DEFINE g == [item |-> i, at |-> now]
      <3>2. g \in grabs' /\ g.item = i /\ g.at = now
        BY <3>1
      <3> HIDE DEF g
      <3>3. /\ g.item \in Targets(commands'[c].unit) /\ commands'[c].started <= g.at
            /\ g.at <= commands'[c].ended + Grace
        BY <1>2, <1>5, <3>2
      <3>4. QED
        BY <3>2, <3>3 DEF Credited
    <2>3. QED
      BY <1>2, <2>1, <2>2
  <1>7. CommandsTrue'
    <2>1. ASSUME NEW d \in DOMAIN commands'
          PROVE  /\ commands'[d].started <= now'
                 /\ commands'[d].status = "running" => commands'[d].grabbed = 0
                 /\ commands'[d].grabbed > 0 => Credited(d)'
      <3>1. CASE d = c
        BY <1>2, <1>3, <1>5, <1>6, <3>1
      <3>2. CASE d # c
        BY <1>1, <1>2, <1>3, <1>4, <3>2 DEF CommandsTrue
      <3>3. QED
        BY <3>1, <3>2
    <2>2. QED
      BY <2>1 DEF CommandsTrue
  <1>8. \A row \in ToSet(searches) \cup ReadBack : row.cmd \in DOMAIN commands
    BY <1>1 DEF RowsGenuine, Genuine
  <1>9. \A row \in ToSet(searches) : row.outcome \in {"grabbed", "not_found", "failed"} =>
           row.cmd # c /\ commands'[row.cmd] = commands[row.cmd]
    BY <1>1, <1>2, <1>8 DEF EndedFirst
  <1>10. EndedFirst'
    <2>1. ASSUME NEW k \in DOMAIN run.finished
          PROVE  /\ run.finished[k].command = commands'[run.finished[k].search.cmd]
                 /\ run.finished[k].command.status # "running"
      <3>1. /\ run.finished[k].command = commands[run.finished[k].search.cmd]
            /\ run.finished[k].command.status # "running"
        BY <1>1 DEF EndedFirst
      <3>2. run.finished[k].search.cmd \in DOMAIN commands
        BY <1>8, HeldRows
      <3>3. QED
        BY <1>2, <3>1, <3>2
    <2>2. QED
      BY <1>1, <1>3, <1>9, <2>1 DEF EndedFirst
  <1>11. VerdictTrue'
    <2>1. ASSUME NEW row \in ToSet(searches) PROVE Verdict(row)'
      <3>1. CASE row.outcome \notin {"grabbed", "not_found"}
        BY <3>1 DEF Verdict
      <3>2. CASE row.outcome \in {"grabbed", "not_found"}
        <4>1. Verdict(row)
          BY <1>1, VerdictRows
        <4>2. QED
          BY <1>2, <1>9, <3>2, <4>1, CreditKept DEF Verdict
      <3>3. QED
        BY <3>1, <3>2
    <2>2. (VerdictTrue <=> \A row \in ToSet(searches) : Verdict(row))'
      BY VerdictRows, PTL
    <2>3. QED
      BY <1>3, <2>1, <2>2
  <1>12. QED
    BY <1>7, <1>10, <1>11 DEF VerdictInv

LEMMA StepVerdict == ASSUME IInv, RowInv, VerdictInv, [Next]_vars PROVE VerdictInv'
  <1>1. IInv' /\ RowInv'
    BY StepRows
  <1>2. now \in Nat /\ TypeOK
    BY DEF IInv, TypeOK
  <1>3. Len(<<>>) = 0
    OBVIOUS
  <1> DEFINE RowsOld == \A row \in ToSet(searches') :
                           row \in ToSet(searches) \/ row.outcome \in {"pending", "unknown"}
             FoundOld == \A k \in 1..Len(run'.finished) :
                            \/ k \in 1..Len(run.finished) /\ run'.finished[k] = run.finished[k]
                            \/ /\ run'.finished[k].search.cmd \in DOMAIN commands
                               /\ run'.finished[k].command = commands[run'.finished[k].search.cmd]
                               /\ run'.finished[k].command.status # "running"
  <1>4. searches' = searches => RowsOld
    OBVIOUS
  <1>5. run'.finished = run.finished \/ run'.finished = <<>> => FoundOld
    BY <1>3
  <1>6. CASE CommandsQuiet /\ now' >= now /\ RowsOld /\ FoundOld
    BY <1>1, <1>6, VerdictQuiet DEF CommandsQuiet
  <1> HIDE DEF RowsOld, FoundOld
  <1>7. CASE UNCHANGED vars \/ Tick \/ (\E i \in Items : FileChanges(i)) \/ ResetState \/ ClearHistory
    <2>1. CommandsQuiet /\ now' >= now
      BY <1>2, <1>7 DEF vars, Tick, FileChanges, ResetState, ClearHistory, tables, arrs, CommandsQuiet
    <2>2. searches' = searches /\ run'.finished = run.finished
      BY <1>7 DEF vars, Tick, FileChanges, ResetState, ClearHistory, tables
    <2>3. QED
      BY <1>4, <1>5, <1>6, <2>1, <2>2
  <1>8. CASE JobDue \/ RunNow \/ SkipApp \/ SendFails \/ ResolveFails \/ QueueGuard \/ NextMode \/ Fetch \/ Crash \/ BeginApp
    <2>1. UNCHANGED <<now, arrs, searches>>
      BY <1>8 DEF JobDue, RunNow, Start, SkipApp, SendFails, ResolveFails, QueueGuard, NextMode, Fetch,
         Crash, BeginApp, tables
    <2>2. run'.finished = <<>>
      <3>1. CASE BeginApp
        <4>1. run.finished = <<>> /\ run'.at \in {"queue", "lookup"}
          BY <3>1 DEF BeginApp, Goto, IInv, TypeOK, RunType, InRun, Shape
        <4>2. QED
          BY <1>1, <4>1 DEF IInv, InRun, Shape
      <3>2. CASE SkipApp
        BY <3>2 DEF SkipApp, NextApp, Idle
      <3>3. CASE SendFails
        BY <3>3, AfterSend DEF SendFails
      <3>4. QED
        BY <1>1, <1>8, <3>1, <3>2, <3>3, RunHolds
    <2>3. CommandsQuiet /\ now' >= now
      BY <1>2, <2>1, NewCommandQuiet
    <2>4. QED
      BY <1>4, <1>5, <1>6, <2>1, <2>2, <2>3
  <1>9. CASE ReadCommands
    <2>1. UNCHANGED <<now, arrs, searches>> /\ RowsGenuine
      BY <1>9 DEF ReadCommands, tables, RowInv, RowsTrue
    <2>2. CommandsQuiet /\ now' >= now
      BY <1>2, <2>1, NewCommandQuiet
    <2>3. \A k \in 1..Len(run'.finished) :
                 /\ run'.finished[k].search \in ToSet(run.pending)
                 /\ run'.finished[k].command = commands[run'.finished[k].search.cmd]
                 /\ run'.finished[k].command.status # "running"
      BY <1>9, <2>1, CommandsRead
    <2>4. \A row \in ToSet(run.pending) : row.cmd \in DOMAIN commands
      BY <2>1 DEF RowsGenuine, ReadBack, Genuine
    <2>5. FoundOld
      BY <2>3, <2>4 DEF FoundOld
    <2>6. QED
      BY <1>4, <1>6, <2>1, <2>2, <2>5
  <1>10. CASE Send
    <2>1. Next1 \in Units /\ Accepts(Next1) /\ now' = now /\ searches' = searches
      BY <1>10, NextUnit DEF Send, Next1, tables
    <2>2. CommandsQuiet /\ now' >= now
      BY <1>2, <2>1, NewCommandQuiet
    <2>3. run'.finished = run.finished
      BY <1>2, <1>10 DEF Send, Goto, TypeOK, RunType
    <2>4. QED
      BY <1>4, <1>5, <1>6, <2>1, <2>2, <2>3
  <1>11. CASE Answered
    <2>1. PICK o \in {"pending", "unknown"} : LogSearch(Next1, 3, o)
      BY <1>11 DEF Answered, Record, Next1
    <2>2. Next1 \in Units /\ now' = now /\ UNCHANGED arrs
      BY <1>11, NextUnit DEF Answered
    <2>3. CommandsQuiet /\ now' >= now
      BY <1>2, <2>2, NewCommandQuiet
    <2>4. RowsOld
      <3>1. ToSet(searches') \subseteq ToSet(searches) \cup {NewRow(Next1, o)}
        BY <1>2, <2>1, <2>2, LoggedRow
      <3>2. NewRow(Next1, o).outcome \in {"pending", "unknown"}
        BY <1>2, <2>1, <2>2, NewRowIs
      <3>3. QED
        BY <3>1, <3>2 DEF RowsOld
    <2>5. run'.finished = <<>>
      BY <1>11, AfterSend DEF Answered
    <2>6. QED
      BY <1>5, <1>6, <2>3, <2>4, <2>5
  <1>12. CASE CrashInSend
    <2>1. PICK n \in 1..2 : Record(Next1, n, "pending")
      BY <1>12 DEF CrashInSend, Next1
    <2>2. Next1 \in Units /\ n \in 0..3 /\ n < 3
      BY <1>12, NextUnit DEF CrashInSend
    <2>3. searches' = searches
      BY <1>2, <2>1, <2>2, LoggedRow DEF Record
    <2>4. now' = now /\ UNCHANGED arrs /\ run'.finished = <<>>
      BY <1>12 DEF CrashInSend, Idle
    <2>5. CommandsQuiet /\ now' >= now
      BY <1>2, <2>4, NewCommandQuiet
    <2>6. QED
      BY <1>4, <1>5, <1>6, <2>3, <2>4, <2>5
  <1>13. CASE Resolve \/ \E c \in DOMAIN commands : CommandEnds(c)
    BY <1>1, <1>13, VerdictResolve, VerdictEnds
  <1>14. QED
    BY <1>7, <1>8, <1>9, <1>10, <1>11, <1>12, <1>13 DEF Next, RunStep, Environment

LEMMA InitVerdict == Init => VerdictInv
  <1>1. DOMAIN <<>> = {}
    OBVIOUS
  <1>2. ToSet(<<>>) = {}
    BY <1>1 DEF ToSet
  <1>3. QED
    BY <1>1, <1>2 DEF Init, Idle, VerdictInv, CommandsTrue, EndedFirst, VerdictTrue

\* "Found nothing" is never said of a command that grabbed a release, and a
\* grab is only credited to a command that ran while it happened or had ended no
\* longer than the grace before.
THEOREM SpecVerdictTrue == Spec => []VerdictTrue
  <1>1. (IInv /\ RowInv) /\ VerdictInv /\ [Next]_vars => VerdictInv'
    BY StepVerdict
  <1>2. VerdictInv => VerdictTrue
    BY DEF VerdictInv
  <1>3. QED
    BY <1>1, <1>2, InitVerdict, SpecIInv, PTL DEF Spec
-----------------------------------------------------------------------------
(***************************************************************************)
(* The hourly cap                                                          *)
(***************************************************************************)

\* The log's cutoff moves with the time.
LEMMA Minus ==
    ASSUME NEW t \in Nat, NEW u \in Nat, u >= t, NEW span \in Nat,
           NEW a, a = (IF t > span THEN t - span ELSE 0), NEW b, b = (IF u > span THEN u - span ELSE 0)
    PROVE  a \in Nat /\ b \in Nat /\ b >= a /\ a <= t
  OBVIOUS

LEMMA CutoffGrows ==
    ASSUME NEW span \in Nat, now \in Nat, now' \in Nat, now' >= now
    PROVE  /\ LogCutoff(span) \in Nat /\ LogCutoff(span)' \in Nat
           /\ LogCutoff(span)' >= LogCutoff(span) /\ LogCutoff(span) <= now
  <1>1. LogCutoff(span) = (IF now > span THEN now - span ELSE 0)
    BY DEF LogCutoff
  <1>2. LogCutoff(span)' = (IF now' > span THEN now' - span ELSE 0)
    BY DEF LogCutoff
  <1>3. QED
    BY ZenonT(40), <1>1, <1>2, Minus

LEMMA CutoffOrder == IInv => LogCutoff(Retention) <= LogCutoff(Hour)
  <1>1. Hour \in Nat /\ Retention \in Nat /\ Retention > Hour
    BY FindarrAssumption
  <1>2. IInv => now \in Nat
    BY DEF IInv, TypeOK
  <1>3. QED
    BY <1>1, <1>2 DEF LogCutoff

\* The finite sets that are counted.
LEMMA Counted ==
    ASSUME IInv
    PROVE  /\ IsFiniteSet(HourRows) /\ Cardinality(HourRows) \in Nat
           /\ IsFiniteSet(Unlogged) /\ Cardinality(Unlogged) \in Nat
           /\ moves["fail"] \in Nat /\ moves["crash"] \in Nat
           /\ HourRows \subseteq ToSet(searches) /\ Reserved \in Nat
  <1>1. searches \in Seq(Rows) /\ run \in RunType
    BY DEF IInv, TypeOK
  <1>2. HourRows \subseteq ToSet(searches)
    BY DEF HourRows, SearchesSince
  <1>3. IsFiniteSet(HourRows)
    BY <1>1, <1>2, ListFinite, FS_Subset
  <1>4. Unlogged \subseteq 1..Len(commands) /\ Len(commands) \in Nat
    BY CommandIs DEF Unlogged, SentSince
  <1>5. IsFiniteSet(Unlogged)
    <2>1. IsFiniteSet(1..Len(commands))
      BY <1>4, FS_Interval
    <2>2. QED
      BY <1>4, <2>1, FS_Subset
  <1>6. moves["fail"] \in Nat /\ moves["crash"] \in Nat
    BY DEF IInv, TypeOK, Kinds
  <1>7. Reserved \in Nat
    <2>1. run.limit \in Nat /\ Len(run.todo) \in Nat
      <3>1. run.todo \in Seq(Wanted)
        BY <1>1 DEF RunType
      <3>2. QED
        BY <1>1, <3>1 DEF RunType
    <2>2. QED
      BY <2>1 DEF Reserved
  <1>8. QED
    BY <1>2, <1>3, <1>5, <1>6, <1>7, FS_CardinalityType

\* What could be logged and is young enough stays logged.
LEMMA UnloggedKept ==
    ASSUME IInv, IInv', RowsGenuine, Keeps, now' >= now,
           \A row \in ToSet(searches) : row.ts >= LogCutoff(Retention)' =>
               \E new \in ToSet(searches') : new.cmd = row.cmd
    PROVE  \A c \in Unlogged' : c \in Unlogged \/ c \notin DOMAIN commands \/ Awaited(c)
  <1> SUFFICES ASSUME NEW c \in Unlogged', c \in DOMAIN commands, ~Awaited(c)
               PROVE  c \in Unlogged
    OBVIOUS
  <1>1. commands'[c].started >= LogCutoff(Retention)' /\ ~Logged(c)'
    BY DEF Unlogged, SentSince
  <1>2. commands[c].started = commands'[c].started
    BY DEF Keeps
  <1>3. LogCutoff(Retention)' >= LogCutoff(Retention) /\ LogCutoff(Retention) \in Nat
        /\ LogCutoff(Retention)' \in Nat
    <2>1. now \in Nat /\ now' \in Nat /\ Retention \in Nat
      BY FindarrAssumption DEF IInv, TypeOK
    <2>2. QED
      BY <2>1, CutoffGrows
  <1>4. commands[c].started \in Nat
    BY CommandIs DEF Command
  <1>5. c \in SentSince(LogCutoff(Retention))
    <2>1. commands[c].started >= LogCutoff(Retention)
      BY <1>1, <1>2, <1>3, <1>4
    <2>2. QED
      BY <2>1 DEF SentSince
  <1>6. ASSUME Logged(c) PROVE FALSE
    <2>1. PICK row \in ToSet(searches) : row.cmd = c
      BY <1>6 DEF Logged, ToSet
    <2>2. row.ts >= commands[c].started /\ row.ts \in Nat
      BY <2>1, HeldRows DEF RowsGenuine, Genuine, Rows
    <2>3. row.ts >= LogCutoff(Retention)'
      BY <1>1, <1>2, <1>3, <1>4, <2>2
    <2>4. PICK new \in ToSet(searches') : new.cmd = c
      BY <2>1, <2>3
    <2>5. QED
      BY <1>1, <2>4 DEF Logged, ToSet
  <1>7. QED
    BY <1>5, <1>6 DEF Unlogged

\* A step that logs nothing new and leaves a run no more to send.
LEMMA CapQuiet ==
    ASSUME IInv, IInv', CapInv, Cardinality(HourRows') + Reserved' <= Cap,
           Unlogged' \subseteq Unlogged, UNCHANGED moves \/ \E m \in Kinds : Move(m)
    PROVE  CapInv'
  <1>1. Cardinality(Unlogged') <= Cardinality(Unlogged)
    BY Counted, FS_Subset
  <1>2. moves'["fail"] >= moves["fail"] /\ moves'["crash"] >= moves["crash"]
    <2>1. CASE UNCHANGED moves
      BY <2>1, Counted
    <2>2. CASE \E m \in Kinds : Move(m)
      BY <2>2, MoveCounts DEF IInv, Kinds
    <2>3. QED
      BY <2>1, <2>2
  <1>3. Cardinality(Unlogged') \in Nat /\ moves'["fail"] \in Nat /\ moves'["crash"] \in Nat
    <2>1. (IInv => Cardinality(Unlogged) \in Nat /\ moves["fail"] \in Nat /\ moves["crash"] \in Nat)'
      BY Counted, PTL
    <2>2. QED
      BY <2>1
  <1>4. Cardinality(Unlogged') <= moves'["fail"] + moves'["crash"]
    BY <1>1, <1>2, <1>3, Counted DEF CapInv
  <1>5. QED
    BY <1>4 DEF CapInv

\* The cutoffs after a step.
LEMMA Cutoffs ==
    ASSUME IInv, IInv', now' >= now
    PROVE  /\ LogCutoff(Hour) \in Nat /\ LogCutoff(Hour)' \in Nat /\ LogCutoff(Hour)' >= LogCutoff(Hour)
           /\ LogCutoff(Retention) \in Nat /\ LogCutoff(Retention)' \in Nat /\ LogCutoff(Retention) <= now
  <1>1. now \in Nat /\ now' \in Nat /\ Retention \in Nat /\ Hour \in Nat
    BY FindarrAssumption DEF IInv, TypeOK
  <1>2. QED
    BY <1>1, CutoffGrows

\* The log of an hour only loses rows while none is added.
LEMMA HourKept ==
    ASSUME IInv, IInv', now' >= now, searches' = searches
    PROVE  HourRows' \subseteq HourRows /\ Cardinality(HourRows') <= Cardinality(HourRows)
           /\ Cardinality(HourRows') \in Nat
  <1>1. ASSUME NEW s \in HourRows' PROVE s \in HourRows
    <2>1. s \in ToSet(searches) /\ s.ts >= LogCutoff(Hour)'
      BY <1>1 DEF HourRows, SearchesSince
    <2>2. s.ts \in Nat
      BY <2>1, HeldRows DEF Rows
    <2>3. s.ts >= LogCutoff(Hour)
      BY <2>1, <2>2, Cutoffs
    <2>4. QED
      BY <2>1, <2>3 DEF HourRows, SearchesSince
  <1>2. HourRows' \subseteq HourRows
    BY <1>1
  <1>3. QED
    BY <1>2, Counted, FS_Subset, FS_CardinalityType

\* What a run may still send after a step that sends nothing.
LEMMA CapIdle ==
    ASSUME IInv, IInv', RowsGenuine, CapInv, Keeps, now' >= now, UNCHANGED searches,
           DOMAIN commands' = DOMAIN commands, UNCHANGED moves \/ \E m \in Kinds : Move(m),
           run.at = "sent" => run' = run /\ Len(commands') = Len(commands),
           Reserved' <= Reserved \/ (Reserved' <= RemainingCapacity /\ now' = now)
    PROVE  CapInv'
  <1>1. Unlogged' \subseteq Unlogged
    <2>1. \A row \in ToSet(searches) : \E new \in ToSet(searches') : new.cmd = row.cmd
      OBVIOUS
    <2>2. \A c : Awaited(c) => Awaited(c)'
      BY DEF Awaited
    <2>3. ASSUME NEW c \in Unlogged' PROVE c \in Unlogged
      <3>1. c \in DOMAIN commands /\ ~Awaited(c)
        BY <2>2, <2>3 DEF Unlogged, SentSince
      <3>2. QED
        BY <2>1, <2>3, <3>1, UnloggedKept
    <2>4. QED
      BY <2>3
  <1>2. /\ Cardinality(HourRows') <= Cardinality(HourRows) /\ Cardinality(HourRows') \in Nat
        /\ Cardinality(HourRows) \in Nat /\ Reserved \in Nat
    BY HourKept, Counted
  <1>3. Reserved' \in Nat
    <2>1. (IInv => Reserved \in Nat)'
      BY Counted, PTL
    <2>2. QED
      BY <2>1
  <1>4. Cardinality(HourRows) + Reserved <= Cap /\ Cap \in Nat
    BY FindarrAssumption DEF CapInv
  <1>5. CASE Reserved' <= Reserved
    <2>1. Cardinality(HourRows') + Reserved' <= Cap
      BY <1>2, <1>3, <1>4, <1>5
    <2>2. QED
      BY <1>1, <2>1, CapQuiet
  <1>6. CASE Reserved' <= RemainingCapacity
    <2> DEFINE used == Cardinality(HourRows)
    <2>1. RemainingCapacity = IF used < Cap THEN Cap - used ELSE 0
      BY DEF RemainingCapacity, HourRows
    <2>2. used \in Nat /\ used <= Cap
      BY <1>2, <1>4
    <2> HIDE DEF used
    <2>3. used + RemainingCapacity <= Cap /\ RemainingCapacity \in Nat
      BY <1>4, <2>1, <2>2
    <2>4. Cardinality(HourRows') <= used
      BY <1>2 DEF used
    <2>5. Cardinality(HourRows') + Reserved' <= Cap
      BY <1>2, <1>3, <1>4, <1>6, <2>2, <2>3, <2>4
    <2>6. QED
      BY <1>1, <2>5, CapQuiet
  <1>7. QED
    BY <1>5, <1>6

\* A run in no mode has reserved nothing; one that sends, what it has to send.
LEMMA ReservedIs ==
    /\ run.at \notin {"fetch", "send", "sent"} => Reserved = 0
    /\ run.at = "fetch" => Reserved = run.limit
    /\ run.at \in {"send", "sent"} => Reserved = Len(run.todo)
  BY DEF Reserved

LEMMA ReservedAfter ==
    /\ run'.at \notin {"fetch", "send", "sent"} => Reserved' = 0
    /\ run'.at = "fetch" => Reserved' = run'.limit
    /\ run'.at \in {"send", "sent"} => Reserved' = Len(run'.todo)
    /\ run' = run => Reserved' = Reserved
  BY DEF Reserved

\* A run that is done with a search has one place less reserved.
LEMMA ReservedLess ==
    ASSUME IInv, Answered \/ SendFails
    PROVE  Reserved' = Reserved - 1 /\ Reserved \in Nat \ {0}
  <1>1. /\ run'.todo = Tail(run.todo) /\ run'.at = IF Len(run.todo) = 1 THEN "mode" ELSE "send"
        /\ run.at \in {"send", "sent"}
    BY AfterSend DEF Answered, SendFails
  <1>2. Len(Tail(run.todo)) = Len(run.todo) - 1 /\ Len(run.todo) \in Nat \ {0}
    BY <1>1, NextUnit
  <1>3. Reserved = Len(run.todo)
    BY <1>1, ReservedIs
  <1>4. CASE Len(run.todo) = 1
    <2>1. Reserved' = 0
      BY <1>1, <1>4, ReservedAfter
    <2>2. QED
      BY <1>3, <1>4, <2>1
  <1>5. CASE Len(run.todo) # 1
    <2>1. Reserved' = Len(run'.todo)
      BY <1>1, <1>5, ReservedAfter
    <2>2. QED
      BY <1>1, <1>2, <1>3, <2>1
  <1>6. QED
    BY <1>4, <1>5

LEMMA CapRun ==
    ASSUME IInv, IInv', RowInv, CapInv, Keeps,
           JobDue \/ RunNow \/ SkipApp \/ BeginApp \/ ReadCommands \/ ResolveFails \/ QueueGuard
              \/ NextMode \/ Fetch
    PROVE  CapInv'
  <1>1. UNCHANGED <<now, searches, commands>> /\ now \in Nat /\ now' >= now
    <2>1. UNCHANGED <<now, searches, commands>>
      BY DEF JobDue, RunNow, Start, SkipApp, BeginApp, ReadCommands, ResolveFails, QueueGuard,
         NextMode, Fetch, tables, arrs
    <2>2. now \in Nat
      BY DEF IInv, TypeOK
    <2>3. QED
      BY <2>1, <2>2
  <1>2. UNCHANGED moves \/ \E m \in Kinds : Move(m)
    BY DEF JobDue, RunNow, Start, SkipApp, BeginApp, ReadCommands, ResolveFails, QueueGuard,
       NextMode, Fetch, Kinds
  <1>3. Reserved \in Nat
    BY Counted
  <1>4. Reserved' <= Reserved \/ Reserved' <= RemainingCapacity
    <2>1. CASE run'.at \notin {"fetch", "send", "sent"}
      BY <1>3, <2>1, ReservedAfter
    <2>2. CASE QueueGuard \/ NextMode
      <3>1. run'.at \in {"idle", "app", "fetch"} /\ (run'.at = "fetch" => run'.limit <= RemainingCapacity)
        BY <2>2, TypeQueueGuard, TypeNextMode
      <3>2. QED
        BY <2>1, <3>1, ReservedAfter
    <2>3. CASE Fetch
      <3>1. PICK retry \in Tables, todo \in Seq(Wanted) :
              /\ run' = [[run EXCEPT !.retry = retry, !.todo = todo]
                            EXCEPT !.at = IF todo = <<>> THEN "mode" ELSE "send"]
              /\ Len(todo) <= run.limit
        BY <2>3, Fetched
      <3>2. run'.todo = todo /\ run'.at \in {"mode", "send"}
        BY <3>1 DEF IInv, TypeOK, RunType
      <3>3. Reserved = run.limit
        BY <2>3, ReservedIs DEF Fetch
      <3>4. QED
        BY <2>1, <3>1, <3>2, <3>3, ReservedAfter
    <2>4. CASE JobDue \/ RunNow \/ SkipApp \/ BeginApp \/ ReadCommands \/ ResolveFails
      <3>1. run'.at \notin {"fetch", "send", "sent"}
        <4>1. CASE JobDue \/ RunNow
          <5>1. PICK names : run' = [[Idle EXCEPT !.apps = names] EXCEPT !.at = "app"]
            BY <4>1 DEF JobDue, RunNow, Start, Goto
          <5>2. QED
            BY <5>1 DEF Idle
        <4>2. CASE SkipApp
          <5>1. NextApp(run).at \in {"idle", "app"}
            BY <4>2, NextAppShape, CommandCount DEF IInv, TypeOK, InRun, Shape, SkipApp
          <5>2. QED
            BY <4>2, <5>1 DEF SkipApp
        <4>3. CASE BeginApp
          <5>1. \E pending, place : run' = [[run EXCEPT !.pending = pending] EXCEPT !.at = place]
                                    /\ place \in {"queue", "lookup"}
            BY <4>3 DEF BeginApp, Goto
          <5>2. QED
            BY <5>1 DEF IInv, TypeOK, RunType
        <4>4. CASE ReadCommands
          BY <4>4, CommandsRead DEF RowInv, RowsTrue
        <4>5. CASE ResolveFails
          BY <4>5, QueueShape DEF ResolveFails, Goto
        <4>6. QED
          BY <2>4, <4>1, <4>2, <4>3, <4>4, <4>5
      <3>2. QED
        BY <2>1, <3>1
    <2>5. QED
      BY <2>2, <2>3, <2>4
  <1>5. run.at # "sent"
    BY DEF JobDue, RunNow, Start, SkipApp, BeginApp, ReadCommands, ResolveFails, QueueGuard, NextMode, Fetch
  <1>6. QED
    BY <1>1, <1>2, <1>4, <1>5, CapIdle DEF RowInv, RowsTrue

LEMMA CapOthers ==
    ASSUME IInv, IInv', RowInv, CapInv, Keeps,
           ResetState \/ ClearHistory \/ Tick \/ (\E c \in DOMAIN commands : CommandEnds(c))
              \/ (\E i \in Items : FileChanges(i))
    PROVE  CapInv'
  <1>1. UNCHANGED <<searches, run>>
    BY DEF ResetState, ClearHistory, Tick, CommandEnds, FileChanges, tables
  <1>2. DOMAIN commands' = DOMAIN commands /\ Len(commands') = Len(commands)
    <2>1. CASE \E c \in DOMAIN commands : CommandEnds(c)
      BY <2>1, Ended DEF IInv
    <2>2. CASE ResetState \/ ClearHistory \/ Tick \/ (\E i \in Items : FileChanges(i))
      BY <2>2 DEF ResetState, ClearHistory, Tick, FileChanges, arrs
    <2>3. QED
      BY <2>1, <2>2
  <1>3. now \in Nat /\ now' >= now
    <2>1. now \in Nat
      BY DEF IInv, TypeOK
    <2>2. now' = now \/ now' = now + 1
      BY DEF ResetState, ClearHistory, Tick, CommandEnds, FileChanges
    <2>3. QED
      BY <2>1, <2>2
  <1>4. UNCHANGED moves \/ \E m \in Kinds : Move(m)
    <2>1. UNCHANGED moves \/ Move("reset") \/ Move("clear") \/ Move("file")
      BY DEF ResetState, ClearHistory, Tick, CommandEnds, FileChanges
    <2>2. QED
      BY <2>1 DEF Kinds
  <1>5. Reserved' <= Reserved
    <2>1. Reserved' = Reserved
      BY <1>1 DEF Reserved
    <2>2. Reserved \in Nat
      BY Counted
    <2>3. QED
      BY <2>1, <2>2
  <1>6. RowsGenuine /\ searches' = searches
    BY <1>1 DEF RowInv, RowsTrue
  <1>7. now' >= now /\ (Reserved' <= Reserved \/ (Reserved' <= RemainingCapacity /\ now' = now))
    BY <1>3, <1>5
  <1>8. QED
    BY <1>1, <1>2, <1>4, <1>6, <1>7, CapIdle

\* Resolving changes no time and loses no row.
LEMMA CapResolve == ASSUME IInv, IInv', RowInv, RowInv', CapInv, Keeps, Resolve PROVE CapInv'
  <1>1. /\ searches' \in Seq(Rows) /\ Len(searches') = Len(searches)
        /\ \A n \in 1..Len(searches) :
              /\ searches'[n].id = searches[n].id /\ searches'[n].ts = searches[n].ts
              /\ searches'[n].cmd = searches[n].cmd
        /\ run' = [[run EXCEPT !.finished = <<>>, !.pending = <<>>] EXCEPT !.at = "queue"]
    BY Resolved
  <1>2. UNCHANGED <<now, commands, moves>> /\ now \in Nat /\ now' >= now
    <2>1. UNCHANGED <<now, commands, moves>> /\ now \in Nat
      BY DEF Resolve, arrs, IInv, TypeOK
    <2>2. QED
      BY <2>1
  <1>3. searches \in Seq(Rows)
    BY DEF IInv, TypeOK
  <1>4. \A row \in ToSet(searches) : \E new \in ToSet(searches') : new.cmd = row.cmd
    <2>1. ASSUME NEW row \in ToSet(searches) PROVE \E new \in ToSet(searches') : new.cmd = row.cmd
      <3>1. PICK n \in 1..Len(searches) : row = searches[n]
        BY <1>3, ListMember
      <3>2. searches'[n] \in ToSet(searches')
        BY <1>1, ListSet
      <3>3. QED
        BY <1>1, <3>1, <3>2
    <2>2. QED
      BY <2>1
  <1>5. Unlogged' \subseteq Unlogged
    <2>1. \A c : ~Awaited(c)
      BY DEF Awaited, Resolve
    <2>2. \A c \in Unlogged' : c \in DOMAIN commands
      BY <1>2 DEF Unlogged, SentSince
    <2>3. QED
      BY <1>2, <1>4, <2>1, <2>2, UnloggedKept DEF RowInv, RowsTrue
  <1>6. Cardinality(HourRows') <= Cardinality(HourRows)
    <2> DEFINE f == [row \in HourRows |-> CHOOSE new \in ToSet(searches') : new.id = row.id]
    <2>1. LogCutoff(Hour)' = LogCutoff(Hour)
      BY <1>2 DEF LogCutoff
    <2>2. \A s, t \in ToSet(searches') : s.id = t.id => s = t
      <3>1. (IInv /\ RowInv => \A s, t \in ToSet(searches) : s.id = t.id => s = t)'
        BY RowsAreUnique, PTL
      <3>2. QED
        BY <3>1
    <2>3. ASSUME NEW new \in HourRows' PROVE \E row \in HourRows : f[row] = new
      <3>1. new \in ToSet(searches') /\ new.ts >= LogCutoff(Hour)
        BY <2>1, <2>3 DEF HourRows, SearchesSince
      <3>2. PICK n \in 1..Len(searches) : new = searches'[n]
        BY <1>1, <3>1, ListMember
      <3>3. searches[n] \in ToSet(searches) /\ searches[n].ts >= LogCutoff(Hour) /\ searches[n].id = new.id
        BY <1>1, <1>3, <3>1, <3>2, ListSet
      <3>4. searches[n] \in HourRows
        BY <3>3 DEF HourRows, SearchesSince
      <3>5. f[searches[n]] = new
        BY <2>2, <3>1, <3>3, <3>4
      <3>6. QED
        BY <3>4, <3>5
    <2>4. ASSUME NEW row \in HourRows PROVE f[row] \in HourRows'
      <3>1. row \in ToSet(searches) /\ row.ts >= LogCutoff(Hour)
        BY <2>4 DEF HourRows, SearchesSince
      <3>2. PICK n \in 1..Len(searches) : row = searches[n]
        BY <1>3, <3>1, ListMember
      <3>3. searches'[n] \in ToSet(searches') /\ searches'[n].id = row.id /\ searches'[n].ts = row.ts
        BY <1>1, <3>2, ListSet
      <3>4. f[row] = searches'[n]
        BY <2>2, <3>3
      <3>5. QED
        BY <2>1, <3>1, <3>3, <3>4 DEF HourRows, SearchesSince
    <2> HIDE DEF f
    <2>5. f \in Surjection(HourRows, HourRows')
      <3>1. f \in [HourRows -> HourRows']
        BY <2>4 DEF f
      <3>2. QED
        BY <2>3, <3>1 DEF Surjection
    <2>6. QED
      BY <2>5, Counted, FS_Surjection
  <1>7. Reserved' = 0
    BY <1>1, QueueShape, ReservedAfter DEF Resolve
  <1>8. Cardinality(HourRows') + Reserved' <= Cap
    <2>1. (IInv => Cardinality(HourRows) \in Nat)'
      BY Counted, PTL
    <2>2. Cardinality(HourRows) + Reserved <= Cap /\ Cap \in Nat
      BY FindarrAssumption DEF CapInv
    <2>3. QED
      BY <1>6, <1>7, <2>1, <2>2, Counted
  <1>9. QED
    BY <1>2, <1>5, <1>8, CapQuiet

\* A command that is awaited keeps the place that it had reserved.
LEMMA CapSend == ASSUME IInv, IInv', RowInv, CapInv, Keeps, Send PROVE CapInv'
  <1>1. /\ Next1 \in Units /\ Accepts(Next1) /\ now' = now /\ moves' = moves /\ searches' = searches
        /\ TypeOK /\ now \in Nat /\ now' >= now /\ run.at = "send" /\ run' = [run EXCEPT !.at = "sent"]
    <2>1. now \in Nat /\ now' = now
      BY DEF IInv, TypeOK, Send
    <2>2. QED
      BY <2>1, NextUnit DEF Send, Goto, Next1, tables, IInv
  <1>2. run'.at = "sent" /\ run'.todo = run.todo
    BY <1>1 DEF TypeOK, RunType
  <1>3. Unlogged' \subseteq Unlogged
    <2>1. \A row \in ToSet(searches) : \E new \in ToSet(searches') : new.cmd = row.cmd
      BY <1>1
    <2>2. DOMAIN commands' = DOMAIN commands \cup {Len(commands) + 1} /\ Len(commands') = Len(commands) + 1
      BY <1>1, Accepted
    <2>3. \A c : ~Awaited(c)
      BY <1>1 DEF Awaited
    <2>4. ASSUME NEW c \in Unlogged' PROVE c \in DOMAIN commands
      BY <1>2, <2>2, <2>4 DEF Unlogged, SentSince, Awaited
    <2>5. QED
      BY <1>1, <2>1, <2>3, <2>4, UnloggedKept DEF RowInv, RowsTrue
  <1>4. Reserved' = Reserved
    BY <1>1, <1>2, ReservedIs, ReservedAfter
  <1>5. Cardinality(HourRows') + Reserved' <= Cap
    <2>1. /\ Cardinality(HourRows') <= Cardinality(HourRows) /\ Cardinality(HourRows') \in Nat
          /\ Cardinality(HourRows) \in Nat /\ Reserved \in Nat
      BY <1>1, HourKept, Counted
    <2>2. Cardinality(HourRows) + Reserved <= Cap /\ Cap \in Nat
      BY FindarrAssumption DEF CapInv
    <2>3. QED
      BY <1>4, <2>1, <2>2
  <1>6. QED
    BY <1>1, <1>3, <1>5, CapQuiet

\* A search that was logged, and took one of the places that it had reserved.
LEMMA CapAnswered == ASSUME IInv, IInv', RowInv, CapInv, Keeps, Answered PROVE CapInv'
  <1>1. PICK o \in {"pending", "unknown"} :
           LogSearch(Next1, 3, o) /\ (UNCHANGED moves \/ \E m \in Kinds : Move(m))
    BY DEF Answered, Record, Next1, Kinds
  <1>2. /\ TypeOK /\ now \in Nat /\ now' >= now /\ now' = now /\ commands' = commands
        /\ Next1 \in Units /\ run.at = "sent"
    <2>1. TypeOK /\ now \in Nat /\ now' = now /\ commands' = commands /\ run.at = "sent"
      BY DEF IInv, TypeOK, Answered, arrs
    <2>2. QED
      BY <2>1, NextUnit
  <1> DEFINE row == NewRow(Next1, o)
  <1>3. ToSet(searches') = {s \in ToSet(searches) \cup {row} : s.ts >= LogCutoff(Retention)}
    BY <1>1, <1>2, LoggedRow
  <1>4. row.ts = now /\ row.cmd = Len(commands)
    BY <1>1, <1>2, NewRowIs
  <1> HIDE DEF row
  <1>5. LogCutoff(Retention)' = LogCutoff(Retention) /\ LogCutoff(Hour)' = LogCutoff(Hour)
    BY <1>2 DEF LogCutoff
  <1>6. now >= LogCutoff(Retention)
    BY <1>2, Cutoffs
  <1>7. row \in ToSet(searches')
    BY <1>3, <1>4, <1>6
  <1>8. Unlogged' \subseteq Unlogged
    <2>1. \A s \in ToSet(searches) : s.ts >= LogCutoff(Retention)' => s \in ToSet(searches')
      BY <1>3, <1>5
    <2>2. \A c \in Unlogged' : c \in Unlogged \/ c \notin DOMAIN commands \/ Awaited(c)
      BY <1>2, <2>1, UnloggedKept DEF RowInv, RowsTrue
    <2>3. \A c : Awaited(c) => c = Len(commands)
      BY DEF Awaited
    <2>4. ASSUME NEW c \in Unlogged' PROVE c # Len(commands) /\ c \in DOMAIN commands
      <3>1. ~Logged(c)' /\ c \in DOMAIN commands
        BY <1>2, <2>4 DEF Unlogged, SentSince
      <3>2. \A s \in ToSet(searches') : s.cmd # c
        BY <3>1 DEF Logged, ToSet
      <3>3. QED
        BY <1>4, <1>7, <3>1, <3>2
    <2>5. QED
      BY <2>2, <2>3, <2>4
  <1>9. Cardinality(HourRows') <= Cardinality(HourRows) + 1 /\ Cardinality(HourRows') \in Nat
    <2>1. HourRows' \subseteq HourRows \cup {row}
      BY <1>3, <1>5 DEF HourRows, SearchesSince
    <2>2. IsFiniteSet(HourRows \cup {row}) /\ Cardinality(HourRows \cup {row}) <= Cardinality(HourRows) + 1
          /\ Cardinality(HourRows \cup {row}) \in Nat
      <3>1. IsFiniteSet(HourRows) /\ Cardinality(HourRows) \in Nat
        BY Counted
      <3>2. QED
        BY <3>1, FS_AddElement, FS_CardinalityType
    <2>3. IsFiniteSet(HourRows') /\ Cardinality(HourRows') <= Cardinality(HourRows \cup {row})
      BY <2>1, <2>2, FS_Subset
    <2>4. Cardinality(HourRows') \in Nat
      BY <2>3, FS_CardinalityType
    <2>5. QED
      BY <2>2, <2>3, <2>4, Counted
  <1>10. Reserved' = Reserved - 1 /\ Reserved \in Nat \ {0}
    BY ReservedLess
  <1>11. Cardinality(HourRows') + Reserved' <= Cap
    <2>1. Cardinality(HourRows) + Reserved <= Cap /\ Cap \in Nat /\ Cardinality(HourRows) \in Nat
      BY Counted, FindarrAssumption DEF CapInv
    <2>2. QED
      BY <1>9, <1>10, <2>1
  <1>12. QED
    BY <1>1, <1>8, <1>11, CapQuiet

\* A search that was not logged: its answer, or its first row, was lost.
LEMMA CapUnlogged ==
    ASSUME IInv, IInv', RowInv, CapInv, Keeps, now' = now, searches' = searches,
           commands' = commands,
           Move("fail") \/ Move("crash"), Reserved' <= Reserved
    PROVE  CapInv'
  <1>1. now \in Nat /\ now' >= now /\ TypeOK /\ Len(commands) \in Nat
    BY CommandCount DEF IInv, TypeOK
  <1>2. \A c : Awaited(c) => c = Len(commands)
    BY DEF Awaited
  <1>3. Unlogged' \subseteq Unlogged \cup {Len(commands)}
    <2>1. \A row \in ToSet(searches) : \E new \in ToSet(searches') : new.cmd = row.cmd
      OBVIOUS
    <2>2. \A c \in Unlogged' : c \in DOMAIN commands
      BY DEF Unlogged, SentSince
    <2>3. QED
      BY <1>1, <1>2, <2>1, <2>2, UnloggedKept DEF RowInv, RowsTrue
  <1>4. Cardinality(Unlogged') <= Cardinality(Unlogged) + 1 /\ Cardinality(Unlogged') \in Nat
    <2> DEFINE new == Len(commands)
    <2> HIDE DEF new
    <2>1. Unlogged' \subseteq Unlogged \cup {new}
      BY <1>3 DEF new
    <2>2. IsFiniteSet(Unlogged \cup {new}) /\ Cardinality(Unlogged \cup {new}) <= Cardinality(Unlogged) + 1
          /\ Cardinality(Unlogged \cup {new}) \in Nat
      <3>1. IsFiniteSet(Unlogged) /\ Cardinality(Unlogged) \in Nat
        BY Counted
      <3> DEFINE lost == Unlogged
      <3>2. IsFiniteSet(lost) /\ Cardinality(lost) \in Nat
        BY <3>1
      <3> HIDE DEF lost
      <3>3. IsFiniteSet(lost \cup {new})
            /\ Cardinality(lost \cup {new}) = IF new \in lost THEN Cardinality(lost)
                                             ELSE Cardinality(lost) + 1
        BY <3>2, FS_AddElement
      <3>4. QED
        BY <3>2, <3>3 DEF lost
    <2>3. IsFiniteSet(Unlogged') /\ Cardinality(Unlogged') <= Cardinality(Unlogged \cup {new})
      BY <2>1, <2>2, FS_Subset
    <2>4. Cardinality(Unlogged') \in Nat
      BY <2>3, FS_CardinalityType
    <2>5. QED
      BY <2>2, <2>3, <2>4, Counted
  <1>5. moves'["fail"] + moves'["crash"] >= moves["fail"] + moves["crash"] + 1
    <2>1. CASE Move("fail")
      <3>1. moves' \in [Kinds -> Nat] /\ moves'["fail"] = moves["fail"] + 1 /\ moves'["crash"] >= moves["crash"]
        BY <1>1, <2>1, MoveCounts DEF Kinds
      <3>2. QED
        BY <3>1, Counted DEF Kinds
    <2>2. CASE Move("crash")
      <3>1. moves' \in [Kinds -> Nat] /\ moves'["crash"] = moves["crash"] + 1 /\ moves'["fail"] >= moves["fail"]
        BY <1>1, <2>2, MoveCounts DEF Kinds
      <3>2. QED
        BY <3>1, Counted DEF Kinds
    <2>3. QED
      BY <2>1, <2>2
  <1>6. Cardinality(Unlogged') <= moves'["fail"] + moves'["crash"]
    <2>1. (IInv => moves["fail"] \in Nat /\ moves["crash"] \in Nat)'
      BY Counted, PTL
    <2>2. Cardinality(Unlogged) <= moves["fail"] + moves["crash"]
      BY DEF CapInv
    <2>3. QED
      BY <1>4, <1>5, <2>1, <2>2, Counted
  <1>7. Cardinality(HourRows') + Reserved' <= Cap
    <2>1. Cardinality(HourRows') <= Cardinality(HourRows) /\ Cardinality(HourRows') \in Nat
      BY <1>1, HourKept
    <2>2. (IInv => Reserved \in Nat)'
      BY Counted, PTL
    <2>3. Cardinality(HourRows) + Reserved <= Cap /\ Cap \in Nat
      BY FindarrAssumption DEF CapInv
    <2>4. QED
      BY <2>1, <2>2, <2>3, Counted
  <1>8. QED
    BY <1>6, <1>7 DEF CapInv

LEMMA StepCap == ASSUME IInv, RowInv, CapInv, [Next]_vars PROVE CapInv'
  <1>1. IInv' /\ RowInv'
    BY StepRows
  <1>2. CASE UNCHANGED vars
    <2>1. UNCHANGED <<now, searches, commands, run, moves>>
      BY <1>2 DEF vars
    <2>2. QED
      BY <2>1 DEF CapInv, HourRows, Reserved, Unlogged, Awaited, SentSince, Logged, SearchesSince, LogCutoff
  <1>3. CASE Next
    <2>1. Keeps
      BY <1>3, StepKeeps
    <2>2. CASE SendFails
      <3>1. now' = now /\ searches' = searches /\ commands' = commands /\ Move("fail")
        BY <2>2 DEF SendFails, arrs
      <3>2. Reserved' <= Reserved
        BY <2>2, ReservedLess
      <3>3. QED
        BY <1>1, <2>1, <3>1, <3>2, CapUnlogged
    <2>3. CASE CrashInSend \/ Crash
      <3>1. searches' = searches
        <4>1. CASE CrashInSend
          <5>1. PICK n \in 1..2 : Record(Next1, n, "pending")
            BY <4>1 DEF CrashInSend, Next1
          <5>2. Next1 \in Units /\ n \in 0..3 /\ n < 3 /\ TypeOK
            BY <4>1, NextUnit DEF CrashInSend, IInv
          <5>3. QED
            BY <5>1, <5>2, LoggedRow DEF Record
        <4>2. CASE Crash
          BY <4>2 DEF Crash, tables
        <4>3. QED
          BY <2>3, <4>1, <4>2
      <3>2. now' = now /\ commands' = commands /\ Move("crash") /\ run'.at = "idle"
        BY <2>3 DEF CrashInSend, Crash, Idle, arrs
      <3>3. Reserved' <= Reserved
        BY <3>2, ReservedAfter, Counted
      <3>4. QED
        BY <1>1, <2>1, <3>1, <3>2, <3>3, CapUnlogged
    <2>4. CASE Send \/ Answered \/ Resolve
      BY <1>1, <2>1, <2>4, CapSend, CapAnswered, CapResolve
    <2>5. CASE JobDue \/ RunNow \/ SkipApp \/ BeginApp \/ ReadCommands \/ ResolveFails \/ QueueGuard
                 \/ NextMode \/ Fetch
      BY <1>1, <2>1, <2>5, CapRun
    <2>6. CASE ResetState \/ ClearHistory \/ Tick \/ (\E c \in DOMAIN commands : CommandEnds(c))
                 \/ (\E i \in Items : FileChanges(i))
      BY <1>1, <2>1, <2>6, CapOthers
    <2>7. QED
      BY <1>3, <2>2, <2>3, <2>4, <2>5, <2>6 DEF Next, RunStep, Environment
  <1>4. QED
    BY <1>2, <1>3

\* The log covers the hour: a search that was sent in it is in the log, could
\* not be logged or has its place reserved.
LEMMA CapFollows == IInv /\ RowInv /\ CapInv => CapKept
  <1> SUFFICES ASSUME IInv, RowInv, CapInv PROVE CapKept
    OBVIOUS
  <1> DEFINE sent == SentSince(LogCutoff(Hour))
             logged == {c \in sent : Logged(c)}
             f == [row \in HourRows |-> row.cmd]
             image == {row.cmd : row \in HourRows}
  <1>1. \A c \in sent : c \in image \/ c \in Unlogged \/ Awaited(c)
    <2>1. ASSUME NEW c \in sent, ~Awaited(c) PROVE c \in image \/ c \in Unlogged
      <3>1. c \in DOMAIN commands /\ commands[c].started >= LogCutoff(Hour)
        BY <2>1 DEF SentSince
      <3>2. CASE Logged(c)
        <4>1. PICK row \in ToSet(searches) : row.cmd = c
          BY <3>2 DEF Logged, ToSet
        <4>2. row.ts >= commands[c].started /\ row.ts \in Nat
          BY <4>1, HeldRows DEF RowInv, RowsTrue, RowsGenuine, Genuine, Rows
        <4>3. row \in HourRows
          <5>1. commands[c].started \in Nat /\ LogCutoff(Hour) \in Nat
            <6>1. now \in Nat /\ Hour \in Nat
              BY FindarrAssumption DEF IInv, TypeOK
            <6>2. QED
              BY <3>1, <6>1, CommandIs DEF Command, LogCutoff
          <5>2. row.ts >= LogCutoff(Hour)
            BY <3>1, <4>2, <5>1
          <5>3. QED
            BY <4>1, <5>2 DEF HourRows, SearchesSince
        <4>4. QED
          BY <4>1, <4>3
      <3>3. CASE ~Logged(c)
        <4>1. LogCutoff(Retention) \in Nat /\ LogCutoff(Hour) \in Nat /\ LogCutoff(Retention) <= LogCutoff(Hour)
          <5>1. now \in Nat /\ Hour \in Nat /\ Retention \in Nat
            BY FindarrAssumption DEF IInv, TypeOK
          <5>2. LogCutoff(Retention) \in Nat /\ LogCutoff(Hour) \in Nat
            BY <5>1 DEF LogCutoff
          <5>3. QED
            BY <5>2, CutoffOrder
        <4>2. commands[c].started \in Nat
          BY <3>1, CommandIs DEF Command
        <4>3. c \in SentSince(LogCutoff(Retention))
          BY <3>1, <4>1, <4>2 DEF SentSince
        <4>4. QED
          BY <2>1, <3>3, <4>3 DEF Unlogged
      <3>4. QED
        BY <3>2, <3>3
    <2>2. QED
      BY <2>1
  <1>2. f \in Surjection(HourRows, image)
    BY DEF Surjection
  <1> HIDE DEF f, image, sent, logged
  <1>3. IsFiniteSet(image) /\ Cardinality(image) <= Cardinality(HourRows) /\ Cardinality(image) \in Nat
    <2>1. IsFiniteSet(image) /\ Cardinality(image) <= Cardinality(HourRows)
      BY <1>2, Counted, FS_Surjection
    <2>2. QED
      BY <2>1, FS_CardinalityType
  <1>4. /\ IsFiniteSet(image \cup Unlogged) /\ Cardinality(image \cup Unlogged) \in Nat
        /\ Cardinality(image \cup Unlogged) <= Cardinality(image) + Cardinality(Unlogged)
    <2>1. IsFiniteSet(Unlogged) /\ Cardinality(Unlogged) \in Nat
      BY Counted
    <2>2. /\ IsFiniteSet(image \cup Unlogged)
          /\ Cardinality(image \cup Unlogged)
                = Cardinality(image) + Cardinality(Unlogged) - Cardinality(image \cap Unlogged)
      BY <1>3, <2>1, FS_Union
    <2>3. Cardinality(image \cap Unlogged) \in Nat /\ Cardinality(image \cup Unlogged) \in Nat
      <3>1. IsFiniteSet(image \cap Unlogged)
        BY <1>3, FS_Intersection
      <3>2. QED
        BY <2>2, <3>1, FS_CardinalityType
    <2>4. QED
      BY <1>3, <2>1, <2>2, <2>3
  <1>5. Cardinality(sent) <= Cardinality(image \cup Unlogged) + Reserved /\ Cardinality(sent) \in Nat
    <2> DEFINE most == image \cup Unlogged
               last == Len(commands)
    <2>1. IsFiniteSet(most) /\ Cardinality(most) \in Nat /\ Reserved \in Nat
      BY <1>4, Counted
    <2>2. \A c \in sent : c \in most \/ (run.at = "sent" /\ c = last)
      BY <1>1 DEF Awaited
    <2>3. run.at = "sent" => Reserved >= 1
      BY NextUnit, ReservedIs
    <2> HIDE DEF most, last
    <2>4. IsFiniteSet(most \cup {last}) /\ Cardinality(most \cup {last}) <= Cardinality(most) + 1
          /\ Cardinality(most \cup {last}) \in Nat
      BY <2>1, FS_AddElement, FS_CardinalityType
    <2>5. CASE run.at = "sent"
      <3>1. sent \subseteq most \cup {last}
        BY <2>2
      <3>2. /\ Cardinality(sent) <= Cardinality(most \cup {last})
            /\ Cardinality(sent) \in Nat
        BY <2>4, <3>1, FS_Subset, FS_CardinalityType
      <3>3. Cardinality(sent) <= Cardinality(most) + Reserved
        BY <2>1, <2>3, <2>4, <2>5, <3>2
      <3>4. QED
        BY <3>2, <3>3 DEF most
    <2>6. CASE run.at # "sent"
      <3>1. sent \subseteq most
        BY <2>2, <2>6
      <3>2. Cardinality(sent) <= Cardinality(most) /\ Cardinality(sent) \in Nat
        BY <2>1, <3>1, FS_Subset, FS_CardinalityType
      <3>3. Cardinality(sent) <= Cardinality(most) + Reserved
        BY <2>1, <3>2
      <3>4. QED
        BY <3>2, <3>3 DEF most
    <2>7. QED
      BY <2>5, <2>6
  <1>6. Cardinality(HourRows) + Reserved <= Cap /\ Cardinality(Unlogged) <= moves["fail"] + moves["crash"]
        /\ Cap \in Nat
    BY FindarrAssumption DEF CapInv
  <1>7. Cardinality(sent) <= Cap + moves["fail"] + moves["crash"]
    BY <1>3, <1>4, <1>5, <1>6, Counted
  <1>8. QED
    BY <1>7 DEF sent, CapKept

LEMMA InitCap == Init => CapInv
  <1> SUFFICES ASSUME Init PROVE CapInv
    OBVIOUS
  <1>1. DOMAIN <<>> = {}
    OBVIOUS
  <1>2. ToSet(<<>>) = {}
    BY <1>1 DEF ToSet
  <1>3. HourRows = {} /\ Unlogged = {} /\ Reserved = 0
    BY <1>1, <1>2 DEF Init, Idle, HourRows, SearchesSince, Unlogged, SentSince, Reserved
  <1>4. moves["fail"] = 0 /\ moves["crash"] = 0
    BY FindarrAssumption DEF Init
  <1>5. Cardinality({}) = 0
    BY FS_EmptySet
  <1>6. QED
    BY <1>3, <1>4, <1>5, FindarrAssumption DEF CapInv

\* Whatever is in flight, cleared, reset or restarted: the Arrs get no more
\* searches in an hour than the cap, plus those that the program could not log.
THEOREM SpecCapKept == Spec => []CapKept
  <1>1. Init => CapInv
    BY InitCap
  <1>2. (IInv /\ RowInv) /\ CapInv /\ [Next]_vars => CapInv'
    BY StepCap
  <1>3. (IInv /\ RowInv) /\ CapInv => CapKept
    BY CapFollows
  <1>4. QED
    BY <1>1, <1>2, <1>3, SpecIInv, PTL DEF Spec
-----------------------------------------------------------------------------
(***************************************************************************)
(* The retry delay                                                         *)
(***************************************************************************)

\* A command stays what it was to RetryKept; the log forgets a search, keeps
\* that it failed, or gains the one that was awaited.
FieldsKept ==
    \A c \in DOMAIN commands :
        /\ c \in DOMAIN commands' /\ commands'[c].unit = commands[c].unit
        /\ commands'[c].started = commands[c].started
        /\ commands'[c].fresh = commands[c].fresh /\ commands'[c].overlaps = commands[c].overlaps
Standing(i) == Logged(i) /\ ~OutcomeIs(i, "failed")
Gained(i) == Answered /\ i = Len(commands)
LogKeeps == \A i \in DOMAIN commands : Standing(i)' => Standing(i) \/ Gained(i)

LEMMA LogSame == ASSUME searches' = searches PROVE LogKeeps /\ \A i : Standing(i)' <=> Standing(i)
  BY DEF LogKeeps, Standing, Logged, OutcomeIs

LEMMA StandingRows ==
    \A i : Standing(i) <=> /\ \E row \in ToSet(searches) : row.cmd = i
                           /\ \A row \in ToSet(searches) : row.cmd = i => row.outcome # "failed"
  BY DEF Standing, Logged, OutcomeIs, ToSet

LEMMA BindsIs ==
    \A i : Binds(i) <=> /\ Standing(i) /\ ~commands[i].overlaps
                        /\ \A m \in i + 1..Len(commands) :
                              commands[m].unit = commands[i].unit => ~commands[m].fresh
  BY DEF Binds, Standing

LEMMA BindsAfter ==
    \A i : Binds(i)' <=> /\ Standing(i)' /\ ~commands'[i].overlaps
                         /\ \A m \in i + 1..Len(commands') :
                               commands'[m].unit = commands'[i].unit => ~commands'[m].fresh
  BY DEF Binds, Standing

LEMMA BindsBefore ==
    ASSUME IInv, IInv', FieldsKept, LogKeeps
    PROVE  \A i \in DOMAIN commands : Binds(i)' => Binds(i) \/ Gained(i)
  <1> SUFFICES ASSUME NEW i \in DOMAIN commands, Binds(i)', ~Gained(i) PROVE Binds(i)
    OBVIOUS
  <1>1. /\ Standing(i)' /\ ~commands'[i].overlaps
        /\ \A m \in i + 1..Len(commands') : commands'[m].unit = commands'[i].unit => ~commands'[m].fresh
    BY BindsAfter
  <1>2. DOMAIN commands = 1..Len(commands) /\ Len(commands) \in Nat
    BY CommandIs
  <1>3. DOMAIN commands' = 1..Len(commands') /\ Len(commands') \in Nat
    <2>1. commands' \in Seq(Command)
      BY DEF IInv, TypeOK
    <2>2. QED
      BY <2>1
  <1>4. 1..Len(commands) \subseteq 1..Len(commands')
    BY <1>2, <1>3 DEF FieldsKept
  <1>5. \A m \in i + 1..Len(commands) : m \in 1..Len(commands) /\ m \in i + 1..Len(commands')
    BY <1>2, <1>3, <1>4
  <1>6. \A m \in i + 1..Len(commands) : commands[m].unit = commands[i].unit => ~commands[m].fresh
    <2>1. ASSUME NEW m \in i + 1..Len(commands), commands[m].unit = commands[i].unit PROVE ~commands[m].fresh
      <3>1. m \in DOMAIN commands /\ m \in i + 1..Len(commands')
        BY <1>2, <1>5
      <3>2. commands'[m].unit = commands'[i].unit /\ commands'[m].fresh = commands[m].fresh
        BY <2>1, <3>1 DEF FieldsKept
      <3>3. QED
        BY <1>1, <3>1, <3>2
    <2>2. QED
      BY <2>1
  <1>7. Standing(i) /\ ~commands[i].overlaps
    BY <1>1 DEF LogKeeps, FieldsKept
  <1>8. QED
    BY <1>6, <1>7, BindsIs

\* Two searches of a unit, before and after a step.
LEMMA RepeatsIs ==
    \A i, j : Repeats(i, j) <=> /\ i < j /\ commands[i].unit = commands[j].unit
                                /\ \A m \in i + 1..j : commands[m].unit = commands[j].unit => ~commands[m].fresh
  BY DEF Repeats
LEMMA RepeatsAfter ==
    \A i, j : Repeats(i, j)' <=> /\ i < j /\ commands'[i].unit = commands'[j].unit
                                 /\ \A m \in i + 1..j : commands'[m].unit = commands'[j].unit => ~commands'[m].fresh
  BY DEF Repeats
LEMMA KeptIs ==
    RetryKept <=> \A i, j \in DOMAIN commands :
                     (Repeats(i, j) /\ Standing(i) /\ ~commands[i].overlaps)
                     => commands[j].started >= commands[i].started + Base
  BY DEF RetryKept, Standing, Delayed
LEMMA KeptAfter ==
    RetryKept' <=> \A i, j \in DOMAIN commands' :
                     (Repeats(i, j)' /\ Standing(i)' /\ ~commands'[i].overlaps)
                     => commands'[j].started >= commands'[i].started + Base
  BY DEF RetryKept, Standing, Delayed

LEMMA RepeatsBefore ==
    ASSUME IInv, FieldsKept, NEW i \in DOMAIN commands, NEW j \in DOMAIN commands, Repeats(i, j)'
    PROVE  Repeats(i, j)
  <1>1. DOMAIN commands = 1..Len(commands) /\ Len(commands) \in Nat
    BY CommandIs
  <1>2. /\ i < j /\ commands'[i].unit = commands'[j].unit
        /\ \A m \in i + 1..j : commands'[m].unit = commands'[j].unit => ~commands'[m].fresh
    BY RepeatsAfter
  <1>3. \A m \in i + 1..j : m \in DOMAIN commands
    BY <1>1
  <1>4. \A m \in i + 1..j : commands[m].unit = commands[j].unit => ~commands[m].fresh
    <2>1. ASSUME NEW m \in i + 1..j, commands[m].unit = commands[j].unit PROVE ~commands[m].fresh
      <3>1. m \in DOMAIN commands
        BY <1>3
      <3>2. commands'[m].unit = commands'[j].unit /\ commands'[m].fresh = commands[m].fresh
        BY <2>1, <3>1 DEF FieldsKept
      <3>3. QED
        BY <1>2, <3>2
    <2>2. QED
      BY <2>1
  <1>5. QED
    BY <1>2, <1>4, RepeatsIs DEF FieldsKept

\* The searches that a step did not send.
LEMMA KeptBefore ==
    ASSUME IInv, FieldsKept, LogKeeps, RetryKept, NEW i \in DOMAIN commands, NEW j \in DOMAIN commands,
           Repeats(i, j)', Standing(i)', ~commands'[i].overlaps
    PROVE  commands'[j].started >= commands'[i].started + Base
  <1>1. Repeats(i, j) /\ Standing(i) /\ ~commands[i].overlaps
    <2>1. Repeats(i, j) /\ i < j
      BY RepeatsBefore, RepeatsIs
    <2>2. i # Len(commands)
      BY <2>1, CommandIs
    <2>3. QED
      BY <2>1, <2>2 DEF LogKeeps, FieldsKept, Gained
  <1>2. commands[j].started >= commands[i].started + Base
    BY <1>1, KeptIs
  <1>3. QED
    BY <1>2 DEF FieldsKept

\* A step sends one command or none.
SendsOne(u) ==
    /\ Len(commands) + 1 \in DOMAIN commands' /\ DOMAIN commands' = DOMAIN commands \cup {Len(commands) + 1}
    /\ LET c == commands'[Len(commands) + 1] IN
       /\ c.unit = u /\ c.started = now /\ c.fresh = (u \notin DOMAIN processed)
       /\ (\E s \in ToSet(searches) : s.unit = u /\ s.outcome = "pending") => c.overlaps
LEMMA AcceptedSends ==
    ASSUME IInv, NEW u \in Units, Accepts(u)
    PROVE  SendsOne(u) /\ FieldsKept
  <1>1. /\ DOMAIN commands' = DOMAIN commands \cup {Len(commands) + 1}
        /\ \A c \in DOMAIN commands : commands'[c] = commands[c]
        /\ LET c == commands'[Len(commands) + 1] IN
           /\ c.unit = u /\ c.started = now
           /\ c.fresh = (u \notin DOMAIN processed)
           /\ c.overlaps = (\E n \in DOMAIN searches :
                                searches[n].unit = u /\ searches[n].outcome = "pending")
    BY Accepted DEF IInv
  <1>2. FieldsKept
    BY <1>1 DEF FieldsKept
  <1>3. (\E s \in ToSet(searches) : s.unit = u /\ s.outcome = "pending")
          => \E n \in DOMAIN searches : searches[n].unit = u /\ searches[n].outcome = "pending"
    BY DEF ToSet
  <1>4. QED
    BY <1>1, <1>2, <1>3 DEF SendsOne

LEMMA StepFields == ASSUME IInv, Next PROVE FieldsKept
  <1>1. TypeOK
    BY DEF IInv
  <1>2. CASE UNCHANGED commands
    BY <1>2 DEF FieldsKept
  <1>3. CASE \E c \in DOMAIN commands : CommandEnds(c)
    BY <1>1, <1>3, Ended DEF FieldsKept
  <1>4. CASE Send
    BY <1>4, NextUnit, AcceptedSends DEF Send, Next1
  <1>5. CASE Answered \/ CrashInSend \/ SendFails
    BY <1>2, <1>5 DEF Answered, CrashInSend, SendFails, arrs
  <1>7. CASE JobDue \/ RunNow \/ ResetState \/ ClearHistory \/ Tick \/ Crash \/ \E i \in Items : FileChanges(i)
    BY <1>2, <1>7 DEF JobDue, RunNow, Start, ResetState, ClearHistory, Tick, Crash, FileChanges, arrs
  <1>8. CASE SkipApp \/ BeginApp \/ ReadCommands \/ Resolve \/ ResolveFails \/ QueueGuard \/ NextMode \/ Fetch
    BY <1>2, <1>8 DEF SkipApp, BeginApp, ReadCommands, Resolve, ResolveFails, QueueGuard, NextMode, Fetch, arrs
  <1>9. QED
    BY <1>3, <1>4, <1>5, <1>7, <1>8 DEF Next, RunStep, Environment

\* What is known of one row of the table.
LEMMA RowOf ==
    ASSUME IInv, RowInv, NEW s \in ToSet(searches), NEW t \in ToSet(searches), s.cmd = t.cmd
    PROVE  s = t
  <1>1. s.id = s.cmd /\ t.id = t.cmd
    BY RowsAreEarlier DEF RowInv, RowsTrue
  <1>2. QED
    BY <1>1, RowsAreUnique

\* The rows after an answer: those of before, which stay as they were, and that
\* of the command that was awaited.
LEMMA AnswerLog ==
    ASSUME IInv, Answered
    PROVE  \A row \in ToSet(searches') : row \in ToSet(searches) \/ row.cmd = Len(commands)
  <1>1. TypeOK /\ Next1 \in Units
    BY NextUnit DEF IInv, Answered
  <1>2. PICK o \in {"pending", "unknown"} : Record(Next1, 3, o)
    BY DEF Answered, Next1
  <1>3. ToSet(searches') = {s \in ToSet(searches) \cup {NewRow(Next1, o)} : s.ts >= LogCutoff(Retention)}
    BY <1>1, <1>2, LoggedRow DEF Record
  <1>4. QED
    BY <1>1, <1>3, NewRowIs

\* A death in between leaves the log as it was.
LEMMA CrashLog == ASSUME CrashInSend PROVE searches' = searches
  <1>1. PICK n \in 1..2 : Record(Next1, n, "pending")
    BY DEF CrashInSend, Next1
  <1>2. QED
    BY <1>1 DEF Record, LogSearch

LEMMA AnswerKeeps == ASSUME IInv, RowInv, Answered PROVE LogKeeps
  <1>1. DOMAIN commands = 1..Len(commands) /\ Len(commands) \in Nat
    BY CommandIs
  <1>2. ASSUME NEW i \in DOMAIN commands, Standing(i)', i # Len(commands) PROVE Standing(i)
    <2>1. /\ \E row \in ToSet(searches') : row.cmd = i
          /\ \A row \in ToSet(searches') : row.cmd = i => row.outcome # "failed"
      BY <1>2 DEF Standing, Logged, OutcomeIs, ToSet
    <2>2. PICK row \in ToSet(searches') : row.cmd = i /\ row.outcome # "failed"
      BY <2>1
    <2>3. row \in ToSet(searches)
      BY <1>2, <2>2, AnswerLog
    <2>4. \A s \in ToSet(searches) : s.cmd = i => s = row
      BY <2>2, <2>3, RowOf
    <2>5. QED
      BY <2>2, <2>3, <2>4, StandingRows
  <1>3. QED
    BY <1>2 DEF LogKeeps, Gained

LEMMA StepLog == ASSUME IInv, RowInv, Next PROVE LogKeeps
  <1>1. CASE UNCHANGED searches
    BY <1>1, LogSame
  <1>2. CASE Answered
    BY <1>2, AnswerKeeps
  <1>3. CASE Send \/ CrashInSend
    BY <1>1, <1>3, CrashLog DEF Send, tables
  <1>4. CASE Resolve
    <2>1. /\ searches' \in Seq(Rows) /\ Len(searches') = Len(searches) /\ Len(searches) \in Nat
          /\ DOMAIN searches' = 1..Len(searches) /\ DOMAIN searches = 1..Len(searches)
      BY <1>4, Resolved, DomainOf DEF IInv, TypeOK
    <2>2. \A n \in 1..Len(searches) :
             /\ searches'[n].id = searches[n].id /\ searches'[n].cmd = searches[n].cmd
             /\ \/ searches'[n].outcome = searches[n].outcome
                \/ \E k \in 1..Len(run.finished) : run.finished[k].search.id = searches[n].id
      BY <1>4, Resolved
    <2>3. \A n \in 1..Len(searches) : searches[n].outcome = "failed" => searches'[n].outcome = "failed"
      <3>1. ASSUME NEW n \in 1..Len(searches), searches[n].outcome = "failed"
            PROVE  ~ \E k \in 1..Len(run.finished) : run.finished[k].search.id = searches[n].id
        <4>1. searches[n] \in ToSet(searches)
          BY <2>1 DEF ToSet
        <4>2. \A k \in 1..Len(run.finished) : run.finished[k].search \in ReadBack
          BY HeldRows
        <4>3. QED
          BY <3>1, <4>1, <4>2 DEF RowInv, RowsTrue, StillPending
      <3>2. QED
        BY <2>2, <3>1
    <2>4. ASSUME NEW i \in DOMAIN commands, Standing(i)' PROVE Standing(i)
      <3>1. PICK n \in 1..Len(searches) : searches'[n].cmd = i
        BY <2>1, <2>4 DEF Standing, Logged
      <3>2. \A m \in 1..Len(searches) : searches'[m].cmd = i => searches'[m].outcome # "failed"
        BY <2>1, <2>4 DEF Standing, OutcomeIs
      <3>3. Logged(i)
        BY <2>1, <2>2, <3>1 DEF Logged
      <3>4. ~OutcomeIs(i, "failed")
        BY <2>1, <2>2, <2>3, <3>2 DEF OutcomeIs
      <3>5. QED
        BY <3>3, <3>4 DEF Standing
    <2>5. QED
      BY <2>4 DEF LogKeeps
  <1>5. CASE JobDue \/ RunNow \/ ResetState \/ ClearHistory \/ Tick \/ Crash \/ (\E i \in Items : FileChanges(i))
             \/ (\E c \in DOMAIN commands : CommandEnds(c))
    BY <1>1, <1>5 DEF JobDue, RunNow, Start, ResetState, ClearHistory, Tick, Crash, FileChanges, CommandEnds, tables
  <1>6. CASE SkipApp \/ BeginApp \/ ReadCommands \/ ResolveFails \/ QueueGuard \/ NextMode \/ Fetch \/ SendFails
    BY <1>1, <1>6 DEF SkipApp, BeginApp, ReadCommands, ResolveFails, QueueGuard, NextMode, Fetch, SendFails, tables
  <1>7. QED
    BY <1>2, <1>3, <1>4, <1>5, <1>6 DEF Next, RunStep, Environment

\* What is unresolved after a step was it before, or is of the last command. A
\* command that is sent knows of every unresolved search of its unit.
OldUnresolved ==
    \A s \in Unresolved' : \/ s.cmd = Len(commands')
                           \/ \E t \in Unresolved : s.cmd = t.cmd /\ s.unit = t.unit
SendsKnowing ==
    \/ commands' = commands \/ DOMAIN commands' = DOMAIN commands
    \/ ReadBack = {} /\ \E u \in Units : SendsOne(u)
LEMMA OverlapsStep ==
    ASSUME IInv, IInv', FieldsKept, OverlapsKnown, OldUnresolved, SendsKnowing
    PROVE  OverlapsKnown'
  <1>1. DOMAIN commands = 1..Len(commands) /\ Len(commands) \in Nat
    BY CommandIs
  <1>2. DOMAIN commands' \subseteq DOMAIN commands \cup {Len(commands) + 1}
    BY DEF SendsKnowing, SendsOne
  <1>3. SUFFICES ASSUME NEW s \in Unresolved', NEW i \in DOMAIN commands', i > s.cmd, commands'[i].unit = s.unit
                 PROVE  commands'[i].overlaps
    BY DEF OverlapsKnown
  <1>4. i \in 1..Len(commands') /\ Len(commands') \in Nat
    <2>1. commands' \in Seq(Command)
      BY DEF IInv, TypeOK
    <2>2. QED
      BY <2>1
  <1>5. s.cmd # Len(commands')
    BY <1>3, <1>4
  <1>6. PICK t \in Unresolved : s.cmd = t.cmd /\ s.unit = t.unit
    BY <1>5 DEF OldUnresolved
  <1>7. CASE i \in DOMAIN commands
    <2>1. commands[i].unit = t.unit /\ i > t.cmd
      BY <1>3, <1>6, <1>7 DEF FieldsKept
    <2>2. commands[i].overlaps
      BY <1>6, <1>7, <2>1 DEF OverlapsKnown
    <2>3. QED
      BY <1>7, <2>2 DEF FieldsKept
  <1>8. CASE i \notin DOMAIN commands
    <2>1. i = Len(commands) + 1
      BY <1>2, <1>8
    <2>2. PICK u \in Units : SendsOne(u) /\ ReadBack = {}
      BY <1>8 DEF SendsKnowing
    <2>3. t \in ToSet(searches) /\ t.outcome = "pending"
      BY <1>6, <2>2 DEF Unresolved
    <2>4. t.unit = u
      BY <1>3, <1>6, <2>1, <2>2 DEF SendsOne
    <2>5. QED
      BY <2>1, <2>2, <2>3, <2>4 DEF SendsOne
  <1>9. QED
    BY <1>7, <1>8

LEMMA NothingSent == ASSUME IInv, run.at = "send" PROVE ReadBack = {}
  <1>1. run.pending = <<>> /\ run.finished = <<>>
    BY DEF IInv, InRun, Shape
  <1>2. DOMAIN <<>> = {}
    OBVIOUS
  <1>3. ToSet(<<>>) = {}
    BY <1>2 DEF ToSet
  <1>4. QED
    BY <1>1, <1>2, <1>3 DEF ReadBack

LEMMA StepOverlaps == ASSUME IInv, IInv', RowInv, OverlapsKnown, Next PROVE OverlapsKnown'
  <1>1. FieldsKept
    BY StepFields
  <1>2. TypeOK
    BY DEF IInv
  <1>3. CASE UNCHANGED <<searches, run>> /\ DOMAIN commands' = DOMAIN commands
    <2>1. OldUnresolved
      BY <1>3 DEF OldUnresolved, Unresolved, ReadBack
    <2>2. QED
      BY <1>1, <1>3, <2>1, OverlapsStep DEF SendsKnowing
  <1>4. ASSUME run'.pending = <<>>, run'.finished = <<>>,
               \A row \in ToSet(searches') : row \in ToSet(searches) \/ row.cmd = Len(commands')
        PROVE  OldUnresolved
    <2>1. ReadBack' = {}
      BY <1>4, NothingHeld DEF NothingRead
    <2>2. QED
      BY <1>4, <2>1 DEF OldUnresolved, Unresolved
  <1>5. CASE JobDue \/ RunNow \/ SkipApp \/ ResolveFails \/ QueueGuard \/ NextMode \/ Fetch \/ Crash
    <2>1. UNCHANGED <<searches, commands>>
      BY <1>5 DEF JobDue, RunNow, Start, SkipApp, ResolveFails, QueueGuard, NextMode, Fetch, Crash, tables, arrs
    <2>2. OldUnresolved
      <3>1. SkipApp => run'.pending = <<>> /\ run'.finished = <<>>
        BY DEF SkipApp, NextApp, Idle
      <3>2. QED
        BY <1>4, <1>5, <2>1, <3>1, RunHolds
    <2>3. QED
      BY <1>1, <2>1, <2>2, OverlapsStep DEF SendsKnowing
  <1>6. CASE Send
    <2>1. Next1 \in Units /\ Accepts(Next1) /\ run.at = "send" /\ searches' = searches
          /\ run' = [run EXCEPT !.at = "sent"]
      BY <1>6, NextUnit DEF Send, Goto, Next1, tables
    <2>2. ReadBack' = ReadBack
      BY <1>2, <2>1 DEF ReadBack, TypeOK, RunType
    <2>3. OldUnresolved
      BY <2>1, <2>2 DEF OldUnresolved, Unresolved
    <2>4. SendsKnowing
      BY <2>1, NothingSent, AcceptedSends DEF SendsKnowing
    <2>5. QED
      BY <1>1, <2>3, <2>4, OverlapsStep
  <1>7. CASE Answered
    <2>1. run'.pending = <<>> /\ run'.finished = <<>> /\ commands' = commands
      BY <1>7, AfterSend DEF Answered, arrs
    <2>2. OldUnresolved
      BY <1>4, <1>7, <2>1, AnswerLog
    <2>3. QED
      BY <1>1, <2>1, <2>2, OverlapsStep DEF SendsKnowing
  <1>8. CASE SendFails \/ CrashInSend
    <2>1. run'.pending = <<>> /\ run'.finished = <<>>
      BY <1>8, AfterSend DEF SendFails, CrashInSend, Idle
    <2>2. searches' = searches /\ commands' = commands
      BY <1>8, CrashLog DEF SendFails, CrashInSend, arrs
    <2>3. OldUnresolved
      BY <1>4, <2>1, <2>2
    <2>4. QED
      BY <1>1, <2>2, <2>3, OverlapsStep DEF SendsKnowing
  <1>9. CASE BeginApp \/ ReadCommands
    <2>1. UNCHANGED <<searches, commands>>
      BY <1>9 DEF BeginApp, ReadCommands, tables, arrs
    <2>2. ReadBack' \subseteq Unresolved
      <3>1. CASE BeginApp
        <4>1. run'.finished = <<>>
          <5>1. run.finished = <<>> /\ run'.at \in {"queue", "lookup"}
            BY <3>1 DEF BeginApp, Goto, IInv, TypeOK, RunType, InRun, Shape
          <5>2. QED
            BY <5>1 DEF IInv, InRun, Shape
        <4>2. \A row \in ToSet(run'.pending) : row \in ToSet(searches) /\ row.outcome = "pending"
          <5> DEFINE pending == SubSeq(Among(searches, {s \in ToSet(searches) :
                                          s.unit.app = ThisApp /\ s.outcome = "pending"}), 1,
                                  Least(LookupLimit, Len(Among(searches, {s \in ToSet(searches) :
                                          s.unit.app = ThisApp /\ s.outcome = "pending"}))))
                     place == IF pending = <<>> THEN "queue" ELSE "lookup"
          <5>1. /\ pending \in Seq(Rows)
                /\ \A k \in 1..Len(pending) : pending[k] \in ToSet(searches) /\ pending[k].outcome = "pending"
            BY <1>2, PendingRead
          <5>2. run' = [[run EXCEPT !.pending = pending] EXCEPT !.at = place]
            BY <3>1 DEF BeginApp, Goto
          <5> HIDE DEF pending, place
          <5>3. run'.pending = pending
            BY <1>2, <5>2 DEF TypeOK, RunType
          <5>4. QED
            BY <5>1, <5>3, ListMember
        <4>3. DOMAIN <<>> = {}
          OBVIOUS
        <4>4. ReadBack' = ToSet(run'.pending)
          BY <4>1, <4>3 DEF ReadBack
        <4>5. QED
          BY <4>2, <4>4 DEF Unresolved
      <3>2. CASE ReadCommands
        <4>1. /\ run'.pending = run.pending
              /\ \A k \in 1..Len(run'.finished) : run'.finished[k].search \in ToSet(run.pending)
          BY <3>2, CommandsRead DEF RowInv, RowsTrue
        <4>2. DOMAIN run'.finished = 1..Len(run'.finished)
          BY DEF IInv, TypeOK, RunType
        <4>3. QED
          BY <4>1, <4>2 DEF ReadBack, Unresolved
      <3>3. QED
        BY <1>9, <3>1, <3>2
    <2>3. OldUnresolved
      BY <2>1, <2>2 DEF OldUnresolved, Unresolved
    <2>4. QED
      BY <1>1, <2>1, <2>3, OverlapsStep DEF SendsKnowing
  <1>10. CASE Resolve
    <2>1. commands' = commands
      BY <1>10 DEF Resolve, arrs
    <2>2. ReadBack' = {}
      <3>1. run' = [[run EXCEPT !.finished = <<>>, !.pending = <<>>] EXCEPT !.at = "queue"]
        BY <1>10, Resolved
      <3>2. run'.pending = <<>> /\ run'.finished = <<>>
        BY <1>10, <3>1, QueueShape DEF Resolve
      <3>3. QED
        BY <3>2, NothingHeld DEF NothingRead
    <2>3. searches' \in Seq(Rows) /\ Len(searches') = Len(searches) /\ searches \in Seq(Rows)
      BY <1>2, <1>10, Resolved DEF TypeOK
    <2>4. \A n \in 1..Len(searches) : searches'[n].outcome = "pending" =>
             /\ searches[n].outcome = "pending"
             /\ searches'[n].cmd = searches[n].cmd /\ searches'[n].unit = searches[n].unit
      <3>1. PICK outcome \in [1..Len(run.finished) -> Final] :
              \A n \in 1..Len(searches) :
                    /\ searches'[n].unit = searches[n].unit /\ searches'[n].cmd = searches[n].cmd
                    /\ \/ searches'[n].outcome = searches[n].outcome
                       \/ \E k \in 1..Len(run.finished) : searches'[n].outcome = outcome[k]
        BY <1>10, Resolved
      <3>2. \A k \in 1..Len(run.finished) : outcome[k] # "pending"
        BY DEF Final
      <3>3. QED
        BY <3>1, <3>2
    <2>5. \A s \in ToSet(searches') : s.outcome = "pending" =>
             \E t \in ToSet(searches) : t.outcome = "pending" /\ s.cmd = t.cmd /\ s.unit = t.unit
      <3>1. ASSUME NEW s \in ToSet(searches'), s.outcome = "pending"
            PROVE  \E t \in ToSet(searches) : t.outcome = "pending" /\ s.cmd = t.cmd /\ s.unit = t.unit
        <4>1. PICK n \in 1..Len(searches) : s = searches'[n]
          BY <2>3, <3>1, ListMember
        <4>2. searches[n] \in ToSet(searches)
          BY <2>3, ListSet
        <4>3. QED
          BY <2>4, <3>1, <4>1, <4>2
      <3>2. QED
        BY <3>1
    <2>6. OldUnresolved
      BY <2>2, <2>5 DEF OldUnresolved, Unresolved
    <2>7. QED
      BY <1>1, <2>1, <2>6, OverlapsStep DEF SendsKnowing
  <1>11. CASE ResetState \/ ClearHistory \/ Tick \/ (\E i \in Items : FileChanges(i))
              \/ (\E c \in DOMAIN commands : CommandEnds(c))
    <2>1. UNCHANGED <<searches, run>>
      BY <1>11 DEF ResetState, ClearHistory, Tick, FileChanges, CommandEnds, tables
    <2>2. DOMAIN commands' = DOMAIN commands
      BY <1>2, <1>11, Ended DEF ResetState, ClearHistory, Tick, FileChanges, arrs
    <2>3. QED
      BY <1>3, <2>1, <2>2
  <1>12. QED
    BY <1>5, <1>6, <1>7, <1>8, <1>9, <1>10, <1>11 DEF Next, RunStep, Environment

\* A step that only drops retry state, and marks what it searches.
DelaysStay ==
    /\ \A u \in DOMAIN processed' :
          \/ processed'[u].due >= now + Base
          \/ u \in DOMAIN processed /\ processed'[u] = processed[u]
    /\ \A i \in DOMAIN commands' : i \notin DOMAIN commands => ~Logged(i)'
    /\ Answered => processed'[commands[Len(commands)].unit].due >= now + Base
LEMMA DelayStep ==
    ASSUME IInv, IInv', CommandsTrue, FieldsKept, LogKeeps, DelayHeld, DelaysStay
    PROVE  DelayHeld'
  <1>1. now \in Nat /\ Base \in Nat
    BY FindarrAssumption DEF IInv, TypeOK
  <1>2. SUFFICES ASSUME NEW i \in DOMAIN commands', Binds(i)', commands'[i].unit \in DOMAIN processed'
                 PROVE  processed'[commands'[i].unit].due >= commands'[i].started + Base
    BY DEF DelayHeld
  <1>3. CASE i \notin DOMAIN commands
    <2>1. Logged(i)'
      BY <1>2 DEF Binds
    <2>2. QED
      BY <1>2, <1>3, <2>1 DEF DelaysStay
  <1>4. CASE i \in DOMAIN commands
    <2>1. Binds(i) \/ (Answered /\ i = Len(commands))
      BY <1>2, <1>4, BindsBefore DEF Gained
    <2>2. commands'[i].unit = commands[i].unit /\ commands'[i].started = commands[i].started
      BY <1>4 DEF FieldsKept
    <2>3. commands[i].started \in Nat /\ commands[i].started <= now
      BY <1>4, CommandIs DEF CommandsTrue, Command
    <2>4. CASE processed'[commands[i].unit].due >= now + Base
      <3>1. processed'[commands[i].unit] \in RetryState
        <4>1. processed' \in Tables
          BY DEF IInv, TypeOK
        <4>2. QED
          BY <1>2, <2>2, <4>1, TableIs
      <3>2. processed'[commands[i].unit].due \in Nat
        BY <3>1 DEF RetryState
      <3>3. QED
        BY <1>1, <2>2, <2>3, <2>4, <3>2
    <2>5. CASE commands[i].unit \in DOMAIN processed /\ processed'[commands[i].unit] = processed[commands[i].unit]
      <3>1. CASE Binds(i)
        <4>1. processed[commands[i].unit].due >= commands[i].started + Base
          BY <1>4, <2>5, <3>1 DEF DelayHeld
        <4>2. QED
          BY <2>2, <2>5, <4>1
      <3>2. CASE Answered /\ i = Len(commands)
        BY <2>4, <3>2 DEF DelaysStay
      <3>3. QED
        BY <2>1, <3>1, <3>2
    <2>6. QED
      BY <1>2, <2>2, <2>4, <2>5 DEF DelaysStay
  <1>5. QED
    BY <1>3, <1>4

\* Resolving a search leaves the delay of every search that binds: its own
\* outcome is no failure, a later one was sent a delay after it, and an earlier
\* one that was still unresolved excuses it.
LEMMA DelayResolve ==
    ASSUME IInv, IInv', RowInv, OverlapsKnown, DelayHeld, RetryKept, FieldsKept, LogKeeps, Resolve
    PROVE  DelayHeld'
  <1> DEFINE done == run.finished
  <1>1. PICK outcome \in [1..Len(done) -> Final] :
           /\ processed' = BackoffAll(done, outcome)
           /\ Len(searches') = Len(searches)
           /\ \A n \in 1..Len(searches) :
                 /\ searches'[n].id = searches[n].id /\ searches'[n].cmd = searches[n].cmd
                 /\ \/ /\ searches'[n].outcome = searches[n].outcome
                       /\ \A k \in 1..Len(done) : done[k].search.id # searches[n].id
                    \/ \E k \in 1..Len(done) :
                          done[k].search.id = searches[n].id /\ searches'[n].outcome = outcome[k]
    BY Resolved
  <1>2. commands' = commands
    BY DEF Resolve, arrs
  <1>3. processed \in Tables /\ done \in Seq(Findings) /\ searches \in Seq(Rows) /\ searches' \in Seq(Rows)
    BY DEF IInv, TypeOK, RunType
  <1>4. outcome \in [1..Len(done) -> Outcomes]
    BY DEF Final
  <1>5. /\ DOMAIN processed' = DOMAIN processed
        /\ \A u \in DOMAIN processed : \A b \in Nat :
              /\ processed[u].due >= b
              /\ \A k \in 1..Len(done) : done[k].search.unit = u => Spares(done[k], outcome[k], b)
              => processed'[u].due >= b
    BY <1>1, <1>3, <1>4, BackoffAllTable
  <1>6. SUFFICES ASSUME NEW i \in DOMAIN commands, Binds(i)', commands[i].unit \in DOMAIN processed
                 PROVE  processed'[commands[i].unit].due >= commands[i].started + Base
    BY <1>2, <1>5 DEF DelayHeld
  <1>7. Binds(i) /\ Standing(i)'
    <2>1. ~Gained(i)
      BY DEF Gained, Answered, Resolve
    <2>2. QED
      BY <1>6, <2>1, BindsBefore, BindsAfter
  <1>8. commands[i] \in Command /\ commands[i].started \in Nat /\ Base \in Nat
        /\ DOMAIN commands = 1..Len(commands) /\ Len(commands) \in Nat
    BY CommandIs, FindarrAssumption DEF Command
  <1> DEFINE b == commands[i].started + Base
  <1>9. b \in Nat /\ processed[commands[i].unit].due >= b
    BY <1>6, <1>7, <1>8 DEF DelayHeld
  <1>10. ASSUME NEW k \in 1..Len(done), done[k].search.unit = commands[i].unit
         PROVE  Spares(done[k], outcome[k], b)
    <2> DEFINE s == done[k].search
    <2>1. s \in ReadBack
      BY HeldRows
    <2>2. Genuine(s) /\ s \in Unresolved
      BY <2>1 DEF RowInv, RowsTrue, RowsGenuine, Unresolved
    <2>3. /\ s.cmd \in DOMAIN commands /\ s.id = s.cmd
          /\ s.ts \in Nat /\ commands[s.cmd].started \in Nat /\ s.ts >= commands[s.cmd].started
      <3>1. s \in Rows
        BY <2>1, HeldRows
      <3>2. s.cmd \in DOMAIN commands => commands[s.cmd] \in Command
        BY CommandIs
      <3>3. QED
        BY <2>2, <3>1, <3>2 DEF Genuine, Rows, Command
    <2>4. outcome[k] \in {"unknown", "failed", "grabbed", "not_found"}
      BY DEF Final, Outcomes
    <2>5. CASE s.cmd = i
      <3>1. outcome[k] # "failed"
        <4>1. /\ DOMAIN searches' = 1..Len(searches)
              /\ \E row \in 1..Len(searches) : searches'[row].cmd = i
          BY <1>1, <1>3, <1>7, DomainOf DEF Standing, Logged
        <4>2. PICK n \in 1..Len(searches) : searches'[n].cmd = i
          BY <4>1
        <4>3. searches'[n].outcome # "failed"
          BY <1>7, <4>1, <4>2 DEF Standing, OutcomeIs
        <4>4. searches[n].id = i
          <5>1. searches[n] \in ToSet(searches) /\ searches[n].cmd = i
            BY <1>1, <1>3, <4>2, ListSet
          <5>2. QED
            BY <5>1, RowsAreEarlier DEF RowInv, RowsTrue
        <4>5. PICK l \in 1..Len(done) : done[l].search.id = i /\ searches'[n].outcome = outcome[l]
          BY <1>1, <2>3, <2>5, <4>4
        <4>6. l = k
          <5>1. ~(l < k) /\ ~(k < l)
            <6>1. done[l].search.id = done[k].search.id /\ done[k].search.id \in Nat
              BY <1>8, <2>3, <2>5, <4>5
            <6>2. \A x, y \in 1..Len(done) : x < y => done[x].search.id < done[y].search.id
              BY DEF RowInv, RowsTrue, RowsInOrder
            <6>3. QED
              BY <6>1, <6>2
          <5>2. l \in Nat /\ k \in Nat
            BY <1>3
          <5>3. QED
            BY <5>1, <5>2
        <4>7. QED
          BY <4>3, <4>5, <4>6
      <3>2. s.ts + Base >= b
        BY <1>8, <2>3, <2>5
      <3>3. QED
        BY <2>4, <3>1, <3>2 DEF Spares
    <2>6. CASE s.cmd > i
      <3>1. \A m \in i + 1..s.cmd : m \in i + 1..Len(commands)
        BY <1>8, <2>3
      <3>2. s.unit = commands[s.cmd].unit
        BY <2>2 DEF Genuine
      <3>3. Repeats(i, s.cmd)
        BY <1>7, <1>8, <1>10, <2>3, <2>6, <3>1, <3>2 DEF Repeats, Binds
      <3>4. commands[s.cmd].started >= b
        BY <1>7, <2>3, <3>3, KeptIs, BindsIs
      <3>5. QED
        <4>1. s.ts >= b /\ s.ts + Base >= b
          <5>1. \A x, y, z, d \in Nat : x >= y /\ y >= z => x >= z /\ x + d >= z
            OBVIOUS
          <5>2. b \in Nat /\ Base \in Nat
            BY <1>8, <1>9
          <5> HIDE DEF b
          <5>3. QED
            BY <2>3, <3>4, <5>1, <5>2
        <4>2. QED
          BY <2>4, <4>1 DEF Spares
    <2>7. CASE s.cmd < i
      <3>1. commands[i].overlaps
        BY <1>8, <1>10, <2>2, <2>3, <2>7 DEF OverlapsKnown
      <3>2. QED
        BY <1>7, <3>1 DEF Binds
    <2>8. QED
      BY <1>8, <2>3, <2>5, <2>6, <2>7
  <1>11. QED
    BY <1>5, <1>6, <1>9, <1>10

\* The retry state after the writes that follow a search.
LEMMA MarkedStays ==
    ASSUME IInv, RowInv, run.at = "sent", NEW n \in 1..3, MarkSearched(Next1, n)
    PROVE  /\ \A u \in DOMAIN processed' :
                 \/ processed'[u].due >= now + Base
                 \/ u \in DOMAIN processed /\ processed'[u] = processed[u]
           /\ commands[Len(commands)].unit = Next1 /\ processed'[Next1].due >= now + Base
  <1>1. TypeOK /\ Next1 \in Units
    BY NextUnit DEF IInv
  <1>2. n \in 0..3 /\ n >= 1
    OBVIOUS
  <1>3. /\ DOMAIN processed' = DOMAIN processed \cup {Next1}
        /\ processed'[Next1].due >= now + Base
        /\ \A x \in DOMAIN processed : x # Next1 => processed'[x] = processed[x]
    BY <1>1, <1>2, Marked
  <1>4. QED
    BY <1>3 DEF RowInv, InFlight, Next1

LEMMA StepDelays == ASSUME IInv, IInv', RowInv, VerdictInv, RetryInv, Next PROVE DelayHeld'
  <1>1. FieldsKept /\ LogKeeps /\ CommandsTrue /\ OverlapsKnown /\ DelayHeld /\ RetryKept /\ TypeOK
    BY StepFields, StepLog DEF VerdictInv, RetryInv, IInv
  <1>2. CASE /\ ~Answered /\ DOMAIN commands' = DOMAIN commands
             /\ \A u \in DOMAIN processed' : u \in DOMAIN processed /\ processed'[u] = processed[u]
    <2>1. DelaysStay
      BY <1>2 DEF DelaysStay
    <2>2. QED
      BY <1>1, <2>1, DelayStep
  <1>3. CASE Send
    <2>1. Next1 \in Units /\ Accepts(Next1) /\ ~Answered /\ processed' = processed /\ searches' = searches
      BY <1>3, NextUnit DEF Send, Answered, Next1, tables
    <2>2. \A i : Logged(i)' => i \in DOMAIN commands
      <3>1. \A i : Logged(i)' => \E row \in ToSet(searches) : row.cmd = i
        BY <2>1 DEF Logged, ToSet
      <3>2. QED
        BY <3>1 DEF RowInv, RowsTrue, RowsGenuine, Genuine
    <2>3. DelaysStay
      BY <2>1, <2>2 DEF DelaysStay
    <2>4. QED
      BY <1>1, <2>3, DelayStep
  <1>4. CASE Answered \/ CrashInSend
    <2>1. PICK n \in 1..3 : MarkSearched(Next1, n)
      <3>1. 3 \in 1..3 /\ 1..2 \subseteq 1..3
        OBVIOUS
      <3>2. Answered => MarkSearched(Next1, 3)
        BY DEF Answered, Record, Next1
      <3>3. CrashInSend => \E n \in 1..2 : MarkSearched(Next1, n)
        BY DEF CrashInSend, Record, Next1
      <3>4. QED
        BY <1>4, <3>1, <3>2, <3>3
    <2>2. run.at = "sent" /\ commands' = commands
      BY <1>4 DEF Answered, CrashInSend, arrs
    <2>3. DelaysStay
      BY <2>1, <2>2, MarkedStays DEF DelaysStay
    <2>4. QED
      BY <1>1, <2>3, DelayStep
  <1>6. CASE ~Answered /\ Fetch
    <2>1. commands' = commands
      BY <1>6 DEF Fetch, arrs
    <2>2. PICK gone : processed' = Without(processed, gone)
      BY <1>6, Fetched
    <2>3. \A u \in DOMAIN processed' : u \in DOMAIN processed /\ processed'[u] = processed[u]
      BY <2>2 DEF Without
    <2>4. QED
      BY <1>2, <1>6, <2>1, <2>3
  <1>7. CASE ~Answered /\ ResetState
    <2>1. commands' = commands /\ processed' = <<>>
      BY <1>7 DEF ResetState, arrs
    <2>2. DOMAIN <<>> = {}
      OBVIOUS
    <2>3. QED
      BY <1>2, <1>7, <2>1, <2>2
  <1>8. CASE Resolve
    BY <1>1, <1>8, DelayResolve
  <1>9. CASE ~Answered /\ \E c \in DOMAIN commands : CommandEnds(c)
    BY <1>1, <1>2, <1>9, Ended DEF CommandEnds, tables
  <1>10. CASE ~Answered /\ (JobDue \/ RunNow \/ ClearHistory \/ Tick \/ Crash \/ (\E i \in Items : FileChanges(i)))
    BY <1>2, <1>10 DEF JobDue, RunNow, Start, ClearHistory, Tick, Crash, FileChanges, tables, arrs
  <1>11. CASE ~Answered /\ (SkipApp \/ BeginApp \/ ReadCommands \/ ResolveFails \/ QueueGuard \/ NextMode
                             \/ SendFails)
    BY <1>2, <1>11 DEF SkipApp, BeginApp, ReadCommands, ResolveFails, QueueGuard, NextMode, SendFails, tables, arrs
  <1>12. QED
    BY <1>3, <1>4, <1>6, <1>7, <1>8, <1>9, <1>10, <1>11 DEF Next, RunStep, Environment

\* Another unit's search leaves a unit that the run has selected due.
LEMMA SelectedSend ==
    ASSUME IInv, SelectedDue, run.at \in {"send", "sent"}, now' = now, run'.todo = Tail(run.todo),
           \A x \in DOMAIN processed' : x # Next1 => x \in DOMAIN processed /\ processed'[x] = processed[x]
    PROVE  SelectedDue'
  <1>1. /\ Next1 = IdOf(run.todo[1]) /\ Len(run.todo) \in Nat \ {0}
        /\ run.todo \in Seq(Wanted) /\ Tail(run.todo) \in Seq(Wanted)
        /\ Len(Tail(run.todo)) = Len(run.todo) - 1
        /\ \A k \in 1..Len(run.todo) - 1 : Tail(run.todo)[k] = run.todo[k + 1]
    BY NextUnit
  <1>2. DOMAIN run.todo = 1..Len(run.todo) /\ DOMAIN run'.todo = 1..Len(run.todo) - 1
    BY <1>1, DomainOf
  <1>3. \A k, l \in 1..Len(run.todo) : IdOf(run.todo[k]) = IdOf(run.todo[l]) => k = l
    BY <1>2 DEF SelectedDue
  <1>4. \A k \in 1..Len(run.todo) :
           IdOf(run.todo[k]) \in DOMAIN processed => processed[IdOf(run.todo[k])].due <= now
    BY <1>2 DEF SelectedDue
  <1>5. \A k \in 1..Len(run.todo) - 1 : k + 1 \in 1..Len(run.todo) /\ run'.todo[k] = run.todo[k + 1]
    BY <1>1
  <1>6. ASSUME NEW k \in 1..Len(run.todo) - 1, IdOf(run'.todo[k]) \in DOMAIN processed'
        PROVE  processed'[IdOf(run'.todo[k])].due <= now'
    <2>1. IdOf(run.todo[k + 1]) # IdOf(run.todo[1])
      BY <1>1, <1>3, <1>5
    <2>2. QED
      BY <1>1, <1>4, <1>5, <1>6, <2>1
  <1>7. ASSUME NEW k \in 1..Len(run.todo) - 1, NEW l \in 1..Len(run.todo) - 1,
               IdOf(run'.todo[k]) = IdOf(run'.todo[l])
        PROVE  k = l
    <2>1. k + 1 = l + 1
      BY <1>3, <1>5, <1>7
    <2>2. QED
      BY <1>1, <2>1
  <1>8. QED
    BY <1>2, <1>6, <1>7 DEF SelectedDue

LEMMA StepSelected == ASSUME IInv, IInv', RowInv, SelectedDue, Next PROVE SelectedDue'
  <1>1. TypeOK /\ now \in Nat /\ run \in RunType
    BY DEF IInv, TypeOK
  <1>2. run'.at \notin {"send", "sent"} => SelectedDue'
    BY DEF SelectedDue
  <1>3. CASE JobDue \/ RunNow \/ SkipApp \/ Crash \/ CrashInSend
    <2>1. CASE JobDue \/ RunNow
      <3>1. PICK names : run' = [[Idle EXCEPT !.apps = names] EXCEPT !.at = "app"]
        BY <2>1 DEF JobDue, RunNow, Start, Goto
      <3>2. run'.at = "app"
        BY <3>1 DEF Idle
      <3>3. QED
        BY <1>2, <3>2
    <2>2. CASE SkipApp
      <3>1. run'.at \in {"idle", "app"}
        BY <2>2 DEF SkipApp, NextApp, Idle
      <3>2. QED
        BY <1>2, <3>1
    <2>3. CASE Crash \/ CrashInSend
      <3>1. run'.at = "idle"
        BY <2>3 DEF Crash, CrashInSend, Idle
      <3>2. QED
        BY <1>2, <3>1
    <2>4. QED
      BY <1>3, <2>1, <2>2, <2>3
  <1>4. CASE BeginApp
    <2>1. run'.at \in {"queue", "lookup"}
      BY <1>1, <1>4 DEF BeginApp, Goto, RunType
    <2>2. QED
      BY <1>2, <2>1
  <1>5. CASE ReadCommands
    <2>1. run'.at \in {"queue", "resolve"}
      BY <1>5, CommandsRead DEF RowInv, RowsTrue
    <2>2. QED
      BY <1>2, <2>1
  <1>6. CASE Resolve \/ ResolveFails
    <2>1. run' = [[run EXCEPT !.finished = <<>>, !.pending = <<>>] EXCEPT !.at = "queue"]
      BY <1>6 DEF Resolve, ResolveFails, Goto
    <2>2. run'.at = "queue"
      BY <1>1, <2>1 DEF RunType
    <2>3. QED
      BY <1>2, <2>2
  <1>7. CASE QueueGuard \/ NextMode
    <2>1. run'.at \in {"idle", "app", "fetch"}
      BY <1>7, TypeQueueGuard, TypeNextMode
    <2>2. QED
      BY <1>2, <2>1
  <1>8. CASE Fetch
    <2>1. PICK retry \in Tables, todo \in Seq(Wanted) : \E gone :
              /\ processed' = Without(processed, gone)
              /\ run' = [[run EXCEPT !.retry = retry, !.todo = todo]
                            EXCEPT !.at = IF todo = <<>> THEN "mode" ELSE "send"]
              /\ \A k, l \in 1..Len(todo) : IdOf(todo[k]) = IdOf(todo[l]) => k = l
              /\ \A k \in 1..Len(todo) :
                    IdOf(todo[k]) \in DOMAIN processed \ gone => processed[IdOf(todo[k])].due <= now
      BY <1>8, Fetched
    <2>2. PICK gone :
              /\ processed' = Without(processed, gone)
              /\ run' = [[run EXCEPT !.retry = retry, !.todo = todo]
                            EXCEPT !.at = IF todo = <<>> THEN "mode" ELSE "send"]
              /\ \A k, l \in 1..Len(todo) : IdOf(todo[k]) = IdOf(todo[l]) => k = l
              /\ \A k \in 1..Len(todo) :
                    IdOf(todo[k]) \in DOMAIN processed \ gone => processed[IdOf(todo[k])].due <= now
      BY <2>1
    <2>3. run'.todo = todo /\ DOMAIN todo = 1..Len(todo)
      BY <1>1, <2>2, DomainOf DEF RunType
    <2>4. \A x \in DOMAIN processed' : x \in DOMAIN processed \ gone /\ processed'[x] = processed[x]
      BY <2>2 DEF Without
    <2>5. now' = now
      BY <1>8 DEF Fetch
    <2>6. QED
      BY <2>2, <2>3, <2>4, <2>5 DEF SelectedDue
  <1>9. CASE Send
    <2>1. run.at = "send" /\ run' = [run EXCEPT !.at = "sent"] /\ UNCHANGED <<now, processed>>
      BY <1>9 DEF Send, Goto, tables
    <2>2. run'.todo = run.todo
      BY <1>1, <2>1 DEF RunType
    <2>3. QED
      BY <2>1, <2>2 DEF SelectedDue
  <1>10. CASE Answered \/ SendFails
    <2>1. run.at \in {"send", "sent"} /\ now' = now
      BY <1>10 DEF Answered, SendFails
    <2>2. run'.todo = Tail(run.todo)
      BY <1>10, AfterSend DEF Answered, SendFails
    <2>3. \A x \in DOMAIN processed' : x # Next1 => x \in DOMAIN processed /\ processed'[x] = processed[x]
      <3>1. CASE Answered
        <4>1. Next1 \in Units /\ MarkSearched(Next1, 3) /\ 3 \in 0..3 /\ 3 >= 1
          BY <3>1, NextUnit DEF Answered, Record, Next1
        <4>2. /\ DOMAIN processed' = DOMAIN processed \cup {Next1}
              /\ \A x \in DOMAIN processed : x # Next1 => processed'[x] = processed[x]
          BY <1>1, <4>1, Marked
        <4>3. QED
          BY <4>2
      <3>2. CASE SendFails
        BY <3>2 DEF SendFails
      <3>3. QED
        BY <1>10, <3>1, <3>2
    <2>4. QED
      BY <2>1, <2>2, <2>3, SelectedSend
  <1>11. CASE ResetState
    <2>1. run' = run /\ processed' = <<>>
      BY <1>11 DEF ResetState
    <2>2. DOMAIN <<>> = {}
      OBVIOUS
    <2>3. QED
      BY <2>1, <2>2 DEF SelectedDue
  <1>12. CASE ClearHistory \/ (\E i \in Items : FileChanges(i)) \/ (\E c \in DOMAIN commands : CommandEnds(c))
    <2>1. UNCHANGED <<run, now, processed>>
      BY <1>12 DEF ClearHistory, FileChanges, CommandEnds, tables
    <2>2. QED
      BY <2>1 DEF SelectedDue
  <1>13. CASE Tick
    <2>1. run' = run /\ processed' = processed /\ now' = now + 1
      BY <1>13 DEF Tick, tables
    <2>2. processed \in [DOMAIN processed -> RetryState]
      BY <1>1, TableIs DEF TypeOK
    <2>3. \A x \in DOMAIN processed : processed[x].due <= now => processed[x].due <= now'
      BY <1>1, <2>1, <2>2 DEF RetryState
    <2>4. CASE run.at \notin {"send", "sent"}
      BY <1>2, <2>1, <2>4
    <2>5. CASE run.at \in {"send", "sent"}
      <3>1. \A k \in DOMAIN run.todo :
               IdOf(run.todo[k]) \in DOMAIN processed => processed[IdOf(run.todo[k])].due <= now
        BY <2>5 DEF SelectedDue
      <3>2. \A k \in DOMAIN run.todo :
               IdOf(run.todo[k]) \in DOMAIN processed => processed[IdOf(run.todo[k])].due <= now'
        BY <2>3, <3>1
      <3>3. \A k, l \in DOMAIN run.todo : IdOf(run.todo[k]) = IdOf(run.todo[l]) => k = l
        BY <2>5 DEF SelectedDue
      <3>4. QED
        BY <2>1, <3>2, <3>3 DEF SelectedDue
    <2>6. QED
      BY <2>4, <2>5
  <1>14. QED
    BY <1>3, <1>4, <1>5, <1>6, <1>7, <1>8, <1>9, <1>10, <1>11, <1>12, <1>13 DEF Next, RunStep, Environment

\* The new search of a unit whose retry state was not dropped: the state holds
\* the delay of the searches before it, and the run found it past.
LEMMA StepKept == ASSUME IInv, IInv', RowInv, RetryInv, Next PROVE RetryKept'
  <1>1. FieldsKept /\ LogKeeps /\ DelayHeld /\ SelectedDue /\ RetryKept
    BY StepFields, StepLog DEF RetryInv
  <1>2. DOMAIN commands = 1..Len(commands) /\ Len(commands) \in Nat
    BY CommandIs
  <1>3. SUFFICES ASSUME NEW i \in DOMAIN commands', NEW j \in DOMAIN commands',
                        Repeats(i, j)', Standing(i)', ~commands'[i].overlaps
                 PROVE  commands'[j].started >= commands'[i].started + Base
    BY KeptAfter
  <1>4. CASE i \in DOMAIN commands /\ j \in DOMAIN commands
    BY <1>1, <1>3, <1>4, KeptBefore
  <1>5. CASE DOMAIN commands' = DOMAIN commands
    BY <1>4, <1>5
  <1>6. CASE run.at = "send" /\ SendsOne(Next1)
    <2>1. DOMAIN commands' = DOMAIN commands \cup {Len(commands) + 1}
      BY <1>6 DEF SendsOne
    <2>2. i < j
      BY <1>3, RepeatsAfter
    <2>3. i \in DOMAIN commands
      BY <1>2, <2>1, <2>2
    <2>4. CASE j = Len(commands) + 1
      <3>1. /\ commands'[i].unit = commands'[j].unit
            /\ \A m \in i + 1..j : commands'[m].unit = commands'[j].unit => ~commands'[m].fresh
        BY <1>3, RepeatsAfter
      <3>2. commands'[j].unit = Next1 /\ commands'[j].started = now
            /\ commands'[j].fresh = (Next1 \notin DOMAIN processed)
        BY <1>6, <2>4 DEF SendsOne
      <3>3. commands'[i].unit = commands[i].unit /\ commands'[i].started = commands[i].started
            /\ ~commands[i].overlaps
        BY <1>1, <1>3, <2>3 DEF FieldsKept
      <3>4. Next1 \in DOMAIN processed
        <4>1. j \in i + 1..j
          BY <1>2, <2>2, <2>3, <2>4
        <4>2. QED
          BY <3>1, <3>2, <4>1
      <3>5. \A m \in i + 1..Len(commands) : commands[m].unit = commands[i].unit => ~commands[m].fresh
        <4>1. ASSUME NEW m \in i + 1..Len(commands), commands[m].unit = commands[i].unit PROVE ~commands[m].fresh
          <5>1. m \in DOMAIN commands /\ m \in i + 1..j
            BY <1>2, <2>3, <2>4
          <5>2. commands'[m].unit = commands[m].unit /\ commands'[m].fresh = commands[m].fresh
            BY <1>1, <5>1 DEF FieldsKept
          <5>3. QED
            BY <3>1, <3>3, <4>1, <5>1, <5>2
        <4>2. QED
          BY <4>1
      <3>6. Binds(i)
        <4>1. ~Gained(i)
          BY <1>6 DEF Gained, Answered
        <4>2. QED
          BY <1>1, <1>3, <2>3, <3>3, <3>5, <4>1, BindsIs DEF LogKeeps
      <3>7. processed[Next1].due >= commands[i].started + Base
        BY <1>1, <2>3, <3>1, <3>2, <3>3, <3>4, <3>6 DEF DelayHeld
      <3>8. processed[Next1].due <= now
        <4>1. Next1 = IdOf(run.todo[1]) /\ 1 \in DOMAIN run.todo
          <5>1. Next1 = IdOf(run.todo[1]) /\ run.todo \in Seq(Wanted) /\ Len(run.todo) \in Nat \ {0}
            BY <1>6, NextUnit
          <5>2. DOMAIN run.todo = 1..Len(run.todo)
            BY <5>1, DomainOf
          <5>3. QED
            BY <5>1, <5>2
        <4>2. QED
          BY <1>1, <1>6, <3>4, <4>1 DEF SelectedDue
      <3>9. processed[Next1].due \in Nat /\ commands[i].started + Base \in Nat /\ now \in Nat
        <4>1. processed \in Tables /\ now \in Nat
          BY DEF IInv, TypeOK
        <4>2. processed[Next1] \in RetryState
          BY <3>4, <4>1, TableIs
        <4>3. commands[i].started \in Nat
          BY <2>3, CommandIs DEF Command
        <4>4. Base \in Nat
          BY FindarrAssumption
        <4>5. processed[Next1].due \in Nat
          BY <4>2 DEF RetryState
        <4>6. QED
          BY <4>1, <4>3, <4>4, <4>5
      <3>10. now >= commands[i].started + Base
        BY <3>7, <3>8, <3>9
      <3>11. QED
        BY <3>2, <3>3, <3>10
    <2>5. QED
      BY <1>4, <2>1, <2>3, <2>4
  <1>7. DOMAIN commands' = DOMAIN commands \/ (run.at = "send" /\ SendsOne(Next1))
    <2>1. CASE Send
      BY <2>1, NextUnit, AcceptedSends DEF Send, Next1
    <2>2. CASE Answered \/ CrashInSend \/ SendFails
      BY <2>2 DEF Answered, CrashInSend, SendFails, arrs
    <2>4. CASE \E c \in DOMAIN commands : CommandEnds(c)
      BY <2>4, Ended DEF IInv
    <2>5. CASE JobDue \/ RunNow \/ ResetState \/ ClearHistory \/ Tick \/ Crash \/ \E x \in Items : FileChanges(x)
      BY <2>5 DEF JobDue, RunNow, Start, ResetState, ClearHistory, Tick, Crash, FileChanges, arrs
    <2>6. CASE SkipApp \/ BeginApp \/ ReadCommands \/ Resolve \/ ResolveFails \/ QueueGuard \/ NextMode \/ Fetch
      BY <2>6 DEF SkipApp, BeginApp, ReadCommands, Resolve, ResolveFails, QueueGuard, NextMode, Fetch, arrs
    <2>7. QED
      BY <2>1, <2>2, <2>4, <2>5, <2>6 DEF Next, RunStep, Environment
  <1>8. QED
    BY <1>5, <1>6, <1>7

LEMMA StepRetry == ASSUME IInv, RowInv, VerdictInv, RetryInv, [Next]_vars PROVE RetryInv'
  <1>1. IInv' /\ RowInv'
    BY StepRows
  <1>2. OverlapsKnown /\ DelayHeld /\ SelectedDue /\ RetryKept
    BY DEF RetryInv
  <1>3. CASE Next
    BY <1>1, <1>2, <1>3, StepOverlaps, StepDelays, StepSelected, StepKept DEF RetryInv
  <1>4. CASE UNCHANGED vars
    <2>1. UNCHANGED <<now, processed, searches, commands, run>>
      BY <1>4 DEF vars
    <2>2. OverlapsKnown'
      BY <1>2, <2>1 DEF OverlapsKnown, Unresolved, ReadBack
    <2>3. DelayHeld'
      BY <1>2, <2>1 DEF DelayHeld, Binds, Logged, OutcomeIs
    <2>4. SelectedDue'
      BY <1>2, <2>1 DEF SelectedDue
    <2>5. RetryKept'
      BY <1>2, <2>1 DEF RetryKept, Repeats, Delayed, Logged, OutcomeIs
    <2>6. QED
      BY <2>2, <2>3, <2>4, <2>5 DEF RetryInv
  <1>5. QED
    BY <1>3, <1>4

LEMMA InitRetry == Init => RetryInv
  <1>1. DOMAIN <<>> = {}
    OBVIOUS
  <1>2. ToSet(<<>>) = {}
    BY <1>1 DEF ToSet
  <1>3. QED
    BY <1>1, <1>2 DEF Init, Idle, RetryInv, OverlapsKnown, Unresolved, ReadBack, DelayHeld, SelectedDue, RetryKept

\* A unit searched and logged is not searched again within the base delay,
\* unless its retry state was dropped, its search failed, or an earlier search
\* of it was still pending when it was sent; whatever is reset, pruned, lost or
\* restarted in between.
THEOREM SpecRetryKept == Spec => []RetryKept
  <1>1. (IInv /\ RowInv) /\ VerdictInv /\ [Next]_vars => VerdictInv'
    BY StepVerdict
  <1>2. (IInv /\ RowInv) /\ VerdictInv /\ RetryInv /\ [Next]_vars => RetryInv'
    BY StepRetry
  <1>3. RetryInv => RetryKept
    BY DEF RetryInv
  <1>4. QED
    BY <1>1, <1>2, <1>3, InitVerdict, InitRetry, SpecIInv, PTL DEF Spec
-----------------------------------------------------------------------------
(***************************************************************************)
(* Resets                                                                  *)
(***************************************************************************)

\* Retry state appears for the unit whose search was awaited, and for no other.
SentLast(u) ==
    run.at = "sent" /\ u = Next1 /\ commands[Len(commands)].unit = u /\ processed'[u].attempts = 0
LEMMA RecordRevives ==
    ASSUME IInv, RowInv, run.at = "sent", NEW n \in 0..3, MarkSearched(Next1, n)
    PROVE  \A u \in DOMAIN processed' : u \in DOMAIN processed \/ SentLast(u)
  <1>1. TypeOK /\ Next1 \in Units
    BY NextUnit DEF IInv
  <1>2. \/ processed' = processed
        \/ /\ DOMAIN processed' = DOMAIN processed \cup {Next1}
           /\ Next1 \notin DOMAIN processed => processed'[Next1].attempts = 0
    <2>1. CASE n < 1
      BY <1>1, <2>1, Marked
    <2>2. CASE n >= 1
      BY <1>1, <2>2, Marked
    <2>3. QED
      BY <2>1, <2>2
  <1>3. commands[Len(commands)].unit = Next1
    BY DEF RowInv, InFlight, Next1
  <1>4. QED
    BY <1>2, <1>3 DEF SentLast

LEMMA StepReset ==
    ASSUME IInv, RowInv, Next
    PROVE  \A u \in DOMAIN processed' : u \in DOMAIN processed \/ SentLast(u)
  <1>1. CASE processed' = processed
    BY <1>1
  <1>2. CASE Answered \/ CrashInSend
    <2>1. PICK n \in 0..3 : MarkSearched(Next1, n)
      <3>1. 3 \in 0..3 /\ 1..2 \subseteq 0..3
        OBVIOUS
      <3>2. Answered => MarkSearched(Next1, 3)
        BY DEF Answered, Record, Next1
      <3>3. CrashInSend => \E n \in 1..2 : MarkSearched(Next1, n)
        BY DEF CrashInSend, Record, Next1
      <3>4. QED
        BY <1>2, <3>1, <3>2, <3>3
    <2>2. QED
      BY <1>2, <2>1, RecordRevives DEF Answered, CrashInSend
  <1>4. CASE Fetch
    <2>1. PICK gone : processed' = Without(processed, gone)
      BY <1>4, Fetched
    <2>2. QED
      BY <2>1 DEF Without
  <1>5. CASE Resolve
    <2>1. PICK outcome \in [1..Len(run.finished) -> Final] : processed' = BackoffAll(run.finished, outcome)
      BY <1>5, Resolved
    <2>2. outcome \in [1..Len(run.finished) -> Outcomes]
      BY DEF Final
    <2>3. processed \in Tables /\ run.finished \in Seq(Findings)
      BY DEF IInv, TypeOK, RunType
    <2>4. DOMAIN processed' = DOMAIN processed
      BY <2>1, <2>2, <2>3, BackoffAllTable
    <2>5. QED
      BY <2>4
  <1>6. CASE ResetState
    <2>1. processed' = <<>> /\ DOMAIN <<>> = {}
      BY <1>6 DEF ResetState
    <2>2. QED
      BY <2>1
  <1>7. CASE JobDue \/ RunNow \/ ClearHistory \/ Tick \/ Crash \/ (\E i \in Items : FileChanges(i))
             \/ (\E c \in DOMAIN commands : CommandEnds(c))
    BY <1>1, <1>7 DEF JobDue, RunNow, Start, ClearHistory, Tick, Crash, FileChanges, CommandEnds, tables
  <1>8. CASE SkipApp \/ BeginApp \/ ReadCommands \/ ResolveFails \/ QueueGuard \/ NextMode
             \/ Send \/ SendFails
    BY <1>1, <1>8 DEF SkipApp, BeginApp, ReadCommands, ResolveFails, QueueGuard, NextMode, Send, SendFails, tables
  <1>9. QED
    BY <1>2, <1>4, <1>5, <1>6, <1>7, <1>8 DEF Next, RunStep, Environment

\* After a reset retry state only comes back with a search of the unit, and with
\* no count of earlier ones: never from what is read back later. The search may
\* be the one that the Arr had when the reset came and whose answer was awaited.
THEOREM SpecResetStays == Spec => ResetStays
  <1>1. IInv /\ RowInv /\ [Next]_vars =>
          [\A u \in DOMAIN processed' \ DOMAIN processed :
              /\ run.at = "sent" /\ u = IdOf(Head(run.todo)) /\ commands[Len(commands)].unit = u
              /\ processed'[u].attempts = 0]_vars
    BY StepReset DEF SentLast, Next1
  <1>2. QED
    BY <1>1, SpecIInv, PTL DEF Spec, ResetStays
=============================================================================
