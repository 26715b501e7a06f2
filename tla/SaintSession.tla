---------------------------- MODULE SaintSession ----------------------------
(***************************************************************************)
(* The Saint's local server (src/app.py): one session in memory, shared by *)
(* every tab of the browser.  An import is merged into the session, the    *)
(* session is cleared, or an analysis of it runs in a thread of its own    *)
(* while imports and clears go on.                                         *)
(*                                                                         *)
(* Every handler changes the session in one block under the server's lock, *)
(* so each is one action; the analysis reads its snapshot when it is       *)
(* started and comes back under the lock when it ends.  A file that cannot *)
(* be read changes nothing and is no step here.                            *)
(***************************************************************************)
EXTENDS Integers, Sequences, FiniteSets

CONSTANTS
  File,         \* the imports: [source, records, watch_times, categories]
  DatedSource,  \* DATED_IDENTITY_SOURCES
  MAX_RECORDS,
  MinRecords,   \* passages an analysis asks for (30)
  MaxChanges    \* bound: imports and clears that change the session

ASSUME LimitsAssumption == MAX_RECORDS \in Nat /\ MinRecords \in Nat \ {0} /\ MaxChanges \in Nat

\* A file is a list of passages, each with a date (or Undated).
ASSUME FileAssumption ==
  \A file \in File :
    /\ file.records \in Seq({file.records[n] : n \in DOMAIN file.records})
    /\ \A n \in DOMAIN file.records : file.records[n].when \in Nat

VARIABLES
  snapshot,     \* records, watch_times, categories, counts by source, map
  generation,
  job,          \* what the page is shown of the analysis
  worker_busy,
  analyses,     \* the threads in analyze(): the passages and generation they got
  imported      \* history: the files imported since the session was last empty

vars == <<snapshot, generation, job, worker_busy, analyses, imported>>

NoMap == <<>>   \* no map is made of less than MinRecords passages
Undated == 0    \* when is None; all dates are later

\* summarize([])
Empty == [records |-> <<>>, watch_times |-> <<>>, categories |-> {}, counts |-> <<>>, map |-> NoMap]

\* What tells two passages apart (text stands for text, kind and detail).
RecordKey(r) == <<r.origin, r.text, IF r.origin \in DatedSource THEN r.when ELSE Undated>>

RecordKeys(records) == [i \in DOMAIN records |-> RecordKey(records[i])]

\* The nth of the given positions, and the entries of s there, in their order.
Nth(positions, n) == CHOOSE j \in positions : Cardinality({i \in positions : i < j}) = n - 1
Pick(s, positions) == [n \in 1..Cardinality(positions) |-> s[Nth(positions, n)]]

Copies(keys, key) == Cardinality({i \in DOMAIN keys : keys[i] = key})

\* Positions of the incoming keys the session has not yet: n copies there absorb
\* the first n copies here.
NotAlreadyPresent(existing, incoming) ==
  {j \in DOMAIN incoming :
     Copies(existing, incoming[j])
       <= Cardinality({i \in DOMAIN incoming : incoming[i] = incoming[j] /\ i < j})}

\* The later date first; of two equal ones (undated ones last), as they stand.
Before(records, i, j) ==
  \/ records[i].when > records[j].when
  \/ records[i].when = records[j].when /\ i < j

\* The count most recent of the given positions.
Newest(records, positions, count) ==
  {j \in positions : Cardinality({i \in positions : Before(records, i, j)}) < count}

CountOf(records, source) == Cardinality({i \in DOMAIN records : records[i].origin = source})

\* Variant: each import is trimmed on its own.  NewestKept fails.
KeptIncomingOnly(existing, all, source) ==
  LET same == {i \in DOMAIN all : all[i].origin = source}
      added == same \ DOMAIN existing
  IN IF Len(all) <= MAX_RECORDS THEN DOMAIN all
     ELSE DOMAIN existing \cup Newest(all, added, MAX_RECORDS - Len(existing))

\* Variant: the newest of all sources are kept.  CountsAgree fails.
KeptOfAnySource(existing, all, source) == Newest(all, DOMAIN all, MAX_RECORDS)

\* Of the session and what is new, the positions that fit: all of the other
\* sources, and the newest of this one.
Kept(existing, all, source) ==
  LET same == {i \in DOMAIN all : all[i].origin = source}
  IN IF Len(all) <= MAX_RECORDS THEN DOMAIN all
     ELSE (DOMAIN all \ same)
            \cup Newest(all, same, MAX_RECORDS - Cardinality(DOMAIN all \ same))

Tagged(file) ==
  [n \in DOMAIN file.records |->
     [origin |-> file.source, text |-> file.records[n].text, when |-> file.records[n].when]]

\* What merge_snapshot makes of the session's passages with the new ones
\* behind them (all), of which some fit (kept): the session itself when nothing
\* in it would change.
Merged(existing, file, all, kept) ==
  LET watches == Pick(file.watch_times, NotAlreadyPresent(existing.watch_times, file.watch_times))
      categories == existing.categories \cup file.categories
      records == Pick(all, kept)
  IN IF kept \subseteq DOMAIN existing.records /\ watches = <<>> /\ categories = existing.categories
     THEN existing
     ELSE [records |-> records,
           watch_times |-> existing.watch_times \o watches,
           categories |-> categories,
           counts |-> [s \in DOMAIN existing.counts \cup {file.source} |->
                         IF s = file.source THEN CountOf(records, s) ELSE existing.counts[s]],
           map |-> NoMap]

Init ==
  /\ snapshot = Empty
  /\ generation = 0
  /\ job = "idle"
  /\ worker_busy = FALSE
  /\ analyses = {}
  /\ imported = {}

\* Variant: the session is replaced as it is, whatever analysis is under way
\* (no new generation).  SessionAgrees fails.
ReplaceSilently(merged) ==
  /\ generation < MaxChanges
  /\ snapshot' = merged
  /\ job' = "idle"
  /\ UNCHANGED <<generation, worker_busy, analyses>>

Replace(merged) ==
  /\ generation < MaxChanges
  /\ generation' = generation + 1
  /\ snapshot' = merged
  /\ job' = "idle"
  /\ UNCHANGED <<worker_busy, analyses>>

\* POST /api/import.  An import that brings nothing new leaves the session, a
\* finished map and a running analysis alone.
Import(file) ==
  /\ imported' = imported \cup {file}
  /\ \E new \in {NotAlreadyPresent(RecordKeys(snapshot.records), RecordKeys(Tagged(file)))} :
     \E all \in {snapshot.records \o Pick(Tagged(file), new)} :
     \E kept \in {Kept(snapshot.records, all, file.source)} :
     \E merged \in {Merged(snapshot, file, all, kept)} :
       IF merged = snapshot
       THEN UNCHANGED <<snapshot, generation, job, worker_busy, analyses>>
       ELSE Replace(merged)

\* POST /api/clear
Clear ==
  /\ Replace(Empty)
  /\ imported' = {}

CanAnalyze == ~worker_busy /\ Len(snapshot.records) >= MinRecords

\* POST /api/analyze; refused (409, 400) unless CanAnalyze.
Analyze ==
  /\ CanAnalyze
  /\ worker_busy' = TRUE
  /\ job' = "running"
  /\ analyses' = analyses \cup {[records |-> snapshot.records, generation |-> generation]}
  /\ UNCHANGED <<snapshot, generation, imported>>

\* analyze() comes back: a result for a session that was replaced meanwhile is
\* thrown away.
AnalysisEnds(a) ==
  /\ a \in analyses
  /\ analyses' = analyses \ {a}
  /\ worker_busy' = FALSE
  /\ \/ /\ a.generation = generation
        /\ \/ job' = "done" /\ snapshot' = [snapshot EXCEPT !.map = a.records]
           \/ job' = "error" /\ UNCHANGED snapshot
     \/ a.generation # generation /\ UNCHANGED <<job, snapshot>>
  /\ UNCHANGED <<generation, imported>>

Next ==
  \/ \E file \in File : Import(file)
  \/ Clear
  \/ Analyze
  \/ \E a \in analyses : AnalysisEnds(a)

Spec == Init /\ [][Next]_vars
-----------------------------------------------------------------------------
(* Properties                                                              *)

\* The map on the page is the map of the passages on the page: never of the
\* session before an import, and never of one that was cleared.
MapOfSession == snapshot.map \in {NoMap, snapshot.records}

\* "Finding semantic islands" is shown while, and only while, an analysis of
\* this very session is running, and "ready" only over a map.
JobTruthful ==
  /\ job = "running" <=> \E a \in analyses : a.generation = generation
  /\ job = "done" => snapshot.map # NoMap

\* An analysis runs alone, and on the session its generation names.
AnalysesAgree ==
  /\ worker_busy <=> analyses # {}
  /\ \A a, b \in analyses : a = b
  /\ \A a \in analyses :
       /\ Len(a.records) >= MinRecords
       /\ a.generation <= generation
       /\ a.generation = generation => a.records = snapshot.records

TypeOK ==
  /\ DOMAIN snapshot = DOMAIN Empty
  /\ generation \in Nat
  /\ job \in {"idle", "running", "done", "error"}
  /\ worker_busy \in BOOLEAN
  /\ \A a \in analyses : DOMAIN a = {"records", "generation"} /\ a.generation \in Nat
  /\ imported \subseteq File

\* Map, job, analyses and the session agree, whatever imports, clears and
\* requests for analysis come while one is running (the inductive invariant).
SessionAgrees == TypeOK /\ MapOfSession /\ JobTruthful /\ AnalysesAgree

-----------------------------------------------------------------------------
(* What the session holds                                                  *)

Brought == UNION {{Tagged(f)[n] : n \in DOMAIN Tagged(f)} : f \in imported}

\* How often a passage is in a file, and in the session.
InFile(r, f) == Copies(RecordKeys(Tagged(f)), RecordKey(r))
Held(r) == Copies(RecordKeys(snapshot.records), RecordKey(r))

\* Everything held of the source of r is at least as recent as r.
RoomOnlyForNewer(r) ==
  \A i \in DOMAIN snapshot.records :
    snapshot.records[i].origin = r.origin => snapshot.records[i].when >= r.when

\* app.py:206-207 and 238-240: in whatever order overlapping files arrive, and
\* however often, a passage is held as many times as the file that has it most
\* often; what is missing was left out because the session is full, and then
\* everything held of its source is at least as recent as it was when it was
\* left out: as some copy of it that was brought.  (Not as every copy, as
\* README.md:98-99 has it: a passage keeps the date it was first seen with.)
NewestKept ==
  \A r \in Brought :
    /\ \E f \in imported : Held(r) <= InFile(r, f)
    /\ (\E f \in imported : Held(r) < InFile(r, f)) =>
         /\ Len(snapshot.records) = MAX_RECORDS
         /\ \E b \in Brought : RecordKey(b) = RecordKey(r) /\ RoomOnlyForNewer(b)

\* The list of sources on the page is right: each import updates the count of
\* its own source only, and never takes a passage from another.
CountsAgree ==
  /\ Len(snapshot.records) <= MAX_RECORDS
  /\ \A s \in {f.source : f \in File} :
       CountOf(snapshot.records, s) = IF s \in DOMAIN snapshot.counts THEN snapshot.counts[s] ELSE 0
=============================================================================
