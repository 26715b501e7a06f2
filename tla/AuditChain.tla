----------------------------- MODULE AuditChain -----------------------------
(***************************************************************************)
(* The audit ledger of the consent kernel (app/consent/audit.py): units of *)
(* work append to the hash chain of a profile, scripts/verify_audit_chain  *)
(* walks the ledger and writes anchors, and rows are damaged or lost       *)
(* outside the program, after which appending goes on.                     *)
(*                                                                         *)
(* On PostgreSQL an appender holds the lock of its chain until its         *)
(* transaction ends.  On SQLite it holds none: another may commit between  *)
(* reading the head and inserting.  (The database's write lock, if an      *)
(* earlier write of the unit took it, only removes interleavings.)  Ids    *)
(* only order the rows: that SQLite may give the id of a rolled back or    *)
(* lost row to the next one is left out.                                   *)
(*                                                                         *)
(* A hash is the tuple of what is hashed: equal only for equal events with *)
(* equal pasts.  Type, actor, grant and payload of an event are one value, *)
(* its content.                                                            *)
(***************************************************************************)
EXTENDS Naturals, Sequences, FiniteSets, SequencesExt

CONSTANTS
  Proc,         \* threads and processes, on hosts with clocks of their own
  Profile,      \* profiles with a chain, UNATTRIBUTED_PROFILE_ID among them
  Content,      \* contents of events
  MaxTime,      \* bound: readings of any clock
  MaxEvents,    \* bound: ids given out
  MaxDamage     \* bound: rows altered, rows lost, restores of a backup

ASSUME AuditBoundAssumption == {MaxTime, MaxEvents, MaxDamage} \subseteq Nat

Time == 0..MaxTime

VARIABLES
  backend,      \* the database: "postgresql" or "sqlite"
  ledger,       \* audit_event: the committed rows by id
  next_id,      \* the next id; on SQLite, too, an id once given out is not used again
  txn,          \* the unit of work of each thread
  anchors,      \* the file of anchors of the latest run that wrote it
  seen,         \* the chains that run read, if it found them sound
  damaged       \* rows <<id, chain>> damaged or lost outside the program

chains == <<ledger, next_id, txn>>
files == <<anchors, seen>>
vars == <<backend, chains, files, damaged>>

GENESIS_HASH == <<>>
Idle == [phase |-> "idle"]

compute_event_hash(e) == <<e.chain, e.content, e.previous, e.time>>

\* The ids of a chain among rows, and its rows in the order of their ids.
ChainIds(rows, c) == {i \in DOMAIN rows : rows[i].chain = c}
Nth(ids, k) == CHOOSE i \in ids : Cardinality({j \in ids : j < i}) = k - 1
Chain(c) ==
  [k \in 1..Cardinality(ChainIds(ledger, c)) |-> ledger[Nth(ChainIds(ledger, c), k)]]

Merge(rows, more) ==
  [i \in DOMAIN rows \cup DOMAIN more |-> IF i \in DOMAIN more THEN more[i] ELSE rows[i]]

\* What a thread's SELECT returns: committed rows and its own.
Visible(p) == Merge(ledger, txn[p].rows)

\* The newest of the rows with these ids; if there is none, what the first
\* event of a chain builds on.
Newest(rows, ids) ==
  IF ids = {} THEN [hash |-> GENESIS_HASH, time |-> 0]
  ELSE LET e == rows[CHOOSE i \in ids : \A j \in ids : j <= i]
       IN [hash |-> e.hash, time |-> e.time]

ChainHead(rows, c) == Newest(rows, ChainIds(rows, c))

Init ==
  /\ backend \in {"postgresql", "sqlite"}
  /\ ledger = <<>> /\ next_id = 1
  /\ txn = [p \in Proc |-> Idle]
  /\ anchors = <<>> /\ seen = <<>>
  /\ damaged = {}

-----------------------------------------------------------------------------
(* Appending (append_event), in the transaction of a unit of work          *)

HoldsChain(q, c) == txn[q] # Idle /\ txn[q].chain = c

Step(p, t) == txn' = [txn EXCEPT ![p] = t]

\* Variant: pg_advisory_xact_lock is left out.  ReadsTrueHead fails.
AppendUnlocked(p, c) ==
  /\ txn[p] = Idle
  /\ next_id <= MaxEvents
  /\ Step(p, [phase |-> "append", chain |-> c, rows |-> <<>>])
  /\ UNCHANGED <<backend, ledger, next_id, files, damaged>>

\* A unit of work comes to its first event and waits for the chain's lock.
AppendFirst(p, c) ==
  /\ txn[p] = Idle
  /\ next_id <= MaxEvents
  /\ backend = "postgresql" => \A q \in Proc : ~HoldsChain(q, c)
  /\ Step(p, [phase |-> "append", chain |-> c, rows |-> <<>>])
  /\ UNCHANGED <<backend, ledger, next_id, files, damaged>>

\* It appends a second event, as create_grant does.
AppendNext(p) ==
  /\ txn[p].phase = "written" /\ Cardinality(DOMAIN txn[p].rows) = 1
  /\ next_id <= MaxEvents
  /\ Step(p, [phase |-> "append", chain |-> txn[p].chain, rows |-> txn[p].rows])
  /\ UNCHANGED <<backend, ledger, next_id, files, damaged>>

ReadHead(p) ==
  /\ txn[p].phase = "append"
  /\ LET t == txn[p] IN
     Step(p, [phase |-> "head", chain |-> t.chain, rows |-> t.rows,
              head |-> ChainHead(Visible(p), t.chain)])
  /\ UNCHANGED <<backend, ledger, next_id, files, damaged>>

\* An insert waits for another's that is not committed: for any on SQLite,
\* for one of the same link on PostgreSQL.
Waits(p) ==
  \E q \in Proc \ {p} :
    /\ txn[q] # Idle /\ DOMAIN txn[q].rows # {}
    /\ \/ backend = "sqlite"
       \/ \E i \in DOMAIN txn[q].rows :
            /\ txn[q].chain = txn[p].chain
            /\ txn[q].rows[i].previous = txn[p].head.hash

\* Variant: the link is not constrained.  NoSilentBranch fails.
LinkUnconstrained(p) == FALSE

\* uq_audit_event_chain_link: a row builds on the same event already.
LinkTaken(p) ==
  LET rows == Visible(p) IN
  \E i \in ChainIds(rows, txn[p].chain) : rows[i].previous = txn[p].head.hash

\* Variant: the clock is taken as it is.  NoFalseAlarm fails.
created_at_unclamped(head, now) == now

created_at(head, now) == IF now < head.time THEN head.time ELSE now

NewEvent(t, content, now) ==
  LET e == [chain |-> t.chain, content |-> content, previous |-> t.head.hash,
            time |-> created_at(t.head, now)]
  IN [chain |-> e.chain, content |-> e.content, previous |-> e.previous,
      time |-> e.time, hash |-> compute_event_hash(e)]

\* Variant: the id is not used up.  Linked fails.
FlushSameId(p, content, now) ==
  /\ txn[p].phase = "head" /\ ~Waits(p) /\ ~LinkTaken(p)
  /\ next_id <= MaxEvents
  /\ LET t == txn[p]
         row == [i \in {next_id} |-> NewEvent(t, content, now)] IN
     Step(p, [phase |-> "written", chain |-> t.chain, rows |-> Merge(t.rows, row)])
  /\ UNCHANGED <<backend, ledger, next_id, files, damaged>>

\* The row is inserted, stamped by the host's clock but not before the head.
Flush(p, content, now) ==
  /\ txn[p].phase = "head" /\ ~Waits(p) /\ ~LinkTaken(p)
  /\ next_id <= MaxEvents
  /\ LET t == txn[p]
         row == [i \in {next_id} |-> NewEvent(t, content, now)] IN
     Step(p, [phase |-> "written", chain |-> t.chain, rows |-> Merge(t.rows, row)])
  /\ next_id' = next_id + 1
  /\ UNCHANGED <<backend, ledger, files, damaged>>

\* The insert is an IntegrityError and the unit of work rolls back.
Conflict(p) ==
  /\ txn[p].phase = "head" /\ ~Waits(p) /\ LinkTaken(p)
  /\ Step(p, Idle)
  /\ UNCHANGED <<backend, ledger, next_id, files, damaged>>

Commit(p) ==
  /\ txn[p].phase = "written"
  /\ ledger' = Merge(ledger, txn[p].rows)
  /\ Step(p, Idle)
  /\ UNCHANGED <<backend, next_id, files, damaged>>

\* Any failure before the commit.
Abort(p) ==
  /\ txn[p] # Idle
  /\ Step(p, Idle)
  /\ UNCHANGED <<backend, ledger, next_id, files, damaged>>

-----------------------------------------------------------------------------
(* verify_chain, a walk over events in the order of their ids              *)

ChainErrorKind ==
  {"BAD_GENESIS", "BROKEN_LINK", "HASH_MISMATCH", "TIMESTAMP_REGRESSION",
   "ANCHOR_MISMATCH", "ANCHOR_MISSING"}

NewSummary == [length |-> 0, head |-> GENESIS_HASH, time |-> 0]

\* Variant: rows before the end of the anchored chain are not compared.
\* VerdictRight and AnchoredKept fail.
AnchorUncompared(e, length, known) == FALSE

AnchorMismatch(e, length, known) ==
  /\ e.chain \in DOMAIN known
  /\ length = known[e.chain].length
  /\ e.hash # known[e.chain].head

\* The errors of event e, met after what its chain's summary tells.
errors_at(e, summary, known) ==
  {kind \in ChainErrorKind :
     CASE kind = "BAD_GENESIS" -> summary.length = 0 /\ e.previous # summary.head
       [] kind = "BROKEN_LINK" -> summary.length > 0 /\ e.previous # summary.head
       [] kind = "HASH_MISMATCH" -> compute_event_hash(e) # e.hash
       [] kind = "TIMESTAMP_REGRESSION" -> e.time < summary.time
       [] kind = "ANCHOR_MISMATCH" -> AnchorMismatch(e, summary.length + 1, known)
       [] kind = "ANCHOR_MISSING" -> FALSE}

\* Variant: after an error the walk stays at the head it had.
\* ErrorsStayLocal fails.
advance_if_sound(summary, e) ==
  [length |-> summary.length + 1,
   head |-> IF e.previous = summary.head THEN e.hash ELSE summary.head,
   time |-> e.time]

advance(summary, e) == [length |-> summary.length + 1, head |-> e.hash, time |-> e.time]

NewReport == [chains |-> [c \in Profile |-> NewSummary], errors |-> {}]

visit(report, i, known) ==
  LET e == ledger[i]  summary == report.chains[e.chain] IN
  [chains |-> [report.chains EXCEPT ![e.chain] = advance(summary, e)],
   errors |-> report.errors \cup {<<i, kind>> : kind \in errors_at(e, summary, known)}]

\* The report after the events with these ids, of all that were given out.
verify_chain(ids, known) ==
  LET walked[n \in 0..(next_id - 1)] ==
        IF n = 0 THEN NewReport
        ELSE IF n \in ids THEN visit(walked[n - 1], n, known) ELSE walked[n - 1]
      report == walked[next_id - 1]
      missing == {c \in DOMAIN known : report.chains[c].length < known[c].length}
  IN [chains |-> report.chains,
      errors |-> report.errors \cup {<<c, "ANCHOR_MISSING">> : c \in missing}]

\* iter_events, for the chains of some profiles: one statement, one snapshot.
iter_events(profiles) == {i \in DOMAIN ledger : ledger[i].chain \in profiles}

Report(known) == verify_chain(iter_events(Profile), known)

\* verify_audit_chain.py --emit-anchors: whatever it found, the heads of the
\* chains that have events replace the file.
EmitAnchors ==
  LET report == Report(<<>>)  walked == report.chains
      some == {c \in Profile : walked[c].length > 0} IN
  /\ anchors' = [c \in some |-> [length |-> walked[c].length, head |-> walked[c].head]]
  /\ seen' = [c \in IF report.errors = {} THEN some ELSE {} |-> Chain(c)]
  /\ UNCHANGED <<backend, chains, damaged>>

-----------------------------------------------------------------------------
(* Outside the program: the triggers and grants of the migration refuse    *)
(* these to the kernel's role, not to a restore or to the table's owner.   *)

Quiet == \A p \in Proc : txn[p] = Idle
Damages(ids) ==
  /\ Quiet /\ Cardinality(damaged) < MaxDamage
  /\ damaged' = damaged \cup {<<i, ledger[i].chain>> : i \in ids}
  /\ UNCHANGED <<backend, next_id, txn, files>>

Altered(e, content, now) ==
  [chain |-> e.chain, content |-> content, previous |-> e.previous, time |-> now, hash |-> e.hash]

\* Columns of a row are changed.
Alter(i, content, now) ==
  /\ i \in DOMAIN ledger
  /\ <<content, now>> # <<ledger[i].content, ledger[i].time>>
  /\ ledger' = [ledger EXCEPT ![i] = Altered(@, content, now)]
  /\ Damages({i})

\* A row is lost.
Lose(i) ==
  /\ i \in DOMAIN ledger
  /\ ledger' = [j \in DOMAIN ledger \ {i} |-> ledger[j]]
  /\ Damages({i})

\* A backup is restored, from before id i was committed.
Restore(i) ==
  /\ i \in DOMAIN ledger
  /\ ledger' = [j \in {j \in DOMAIN ledger : j < i} |-> ledger[j]]
  /\ Damages({j \in DOMAIN ledger : j >= i})

Appends(p) ==
  \/ \E c \in Profile : AppendFirst(p, c)
  \/ AppendNext(p) \/ ReadHead(p)
  \/ \E content \in Content, now \in Time : Flush(p, content, now)
  \/ Conflict(p) \/ Commit(p) \/ Abort(p)

Damage ==
  \E i \in DOMAIN ledger :
    \/ \E content \in Content, now \in Time : Alter(i, content, now)
    \/ Lose(i)
    \/ Restore(i)

Next == (\E p \in Proc : Appends(p)) \/ EmitAnchors \/ Damage

Spec == Init /\ [][Next]_vars
-----------------------------------------------------------------------------
(* Properties                                                              *)

IsEvent(e) ==
  /\ e = [x \in {"chain", "content", "previous", "time", "hash"} |-> e[x]]
  /\ e.chain \in Profile /\ e.content \in Content /\ e.time \in Time

\* Rows, units of work and anchors have their types; ids are given out once,
\* to rows of the chain the unit holds.
TypeOK ==
  /\ backend \in {"postgresql", "sqlite"}
  /\ DOMAIN ledger \subseteq 1..(next_id - 1) /\ next_id \in 1..(MaxEvents + 1)
  /\ ledger = [i \in DOMAIN ledger |-> ledger[i]]
  /\ \A i \in DOMAIN ledger : IsEvent(ledger[i])
  /\ txn = [p \in Proc |-> txn[p]]
  /\ \A p \in Proc : txn[p] # Idle =>
       /\ txn[p].phase \in {"append", "head", "written"} /\ txn[p].chain \in Profile
       /\ DOMAIN txn[p].rows \subseteq 1..(next_id - 1) \ DOMAIN ledger
       /\ \A i \in DOMAIN txn[p].rows :
            IsEvent(txn[p].rows[i]) /\ txn[p].rows[i].chain = txn[p].chain
       /\ txn[p].phase = "head" => txn[p].head.time \in Time
       /\ \A q \in Proc \ {p} : txn[q] # Idle => DOMAIN txn[p].rows \cap DOMAIN txn[q].rows = {}
  /\ DOMAIN anchors \subseteq Profile /\ DOMAIN seen \in {{}, DOMAIN anchors}
  /\ damaged \subseteq (1..(next_id - 1)) \X Profile

\* No appender is a false alarm: as long as nothing is damaged, the verifier
\* finds every chain sound, whoever appends, fails or has a slow clock, at
\* every moment and against the anchors of any earlier run.
NoFalseAlarm == damaged = {} => Report(anchors).errors = {}

\* A chain never forks, on either database, damaged or not.
NoSilentBranch ==
  \A i, j \in DOMAIN ledger :
    ledger[i].chain = ledger[j].chain /\ ledger[i].previous = ledger[j].previous => i = j

\* "Each reads the true head": the chain's lock makes what a unit has read
\* still true when it inserts, so on PostgreSQL no append is refused.
ReadsTrueHead ==
  backend = "postgresql" =>
    \A p \in Proc : txn[p].phase = "head" => txn[p].head = ChainHead(Visible(p), txn[p].chain)

SameLink(e, f) == e.chain = f.chain /\ e.previous = f.previous

\* What both rest on: no two rows have one link, uncommitted ones included,
\* and on PostgreSQL no two units of work hold one chain.
Linked ==
  /\ TypeOK
  /\ NoSilentBranch
  /\ \A p \in Proc : txn[p] # Idle => \A i \in DOMAIN txn[p].rows :
       /\ \A j \in DOMAIN txn[p].rows : SameLink(txn[p].rows[i], txn[p].rows[j]) => i = j
       /\ \A j \in DOMAIN ledger : ~SameLink(txn[p].rows[i], ledger[j])
       /\ \A q \in Proc \ {p} : txn[q] # Idle =>
            \A j \in DOMAIN txn[q].rows : ~SameLink(txn[p].rows[i], txn[q].rows[j])
  /\ backend = "postgresql" =>
       \A p, q \in Proc : p # q /\ txn[p] # Idle /\ txn[q] # Idle => txn[p].chain # txn[q].chain
  /\ ReadsTrueHead

\* I1 to I5 as the module's docstring lists them, over whole chains.
I1(c) == Chain(c) # <<>> => Chain(c)[1].previous = GENESIS_HASH
I2(c) == \A k \in DOMAIN Chain(c) : k > 1 => Chain(c)[k].previous = Chain(c)[k - 1].hash
I3(c) == \A k \in DOMAIN Chain(c) : Chain(c)[k].hash = compute_event_hash(Chain(c)[k])
I4(c) == \A j, k \in DOMAIN Chain(c) : j < k => Chain(c)[j].time <= Chain(c)[k].time
I5(c) == c \in DOMAIN anchors =>
           anchors[c].length \in DOMAIN Chain(c)
           /\ Chain(c)[anchors[c].length].hash = anchors[c].head

\* The single pass decides exactly these invariants, whatever the ledger has
\* become and however its chains interleave.
VerdictRight ==
  Report(anchors).errors = {} <=>
    \A c \in Profile : I1(c) /\ I2(c) /\ I3(c) /\ I4(c) /\ I5(c)

\* What an earlier run saw cannot be lost or changed unnoticed: if the
\* verifier is content then every chain still begins with the events that
\* a clean run saw when it wrote the anchors, also if it grew again since.
AnchoredKept ==
  Report(anchors).errors = {} =>
    \A c \in DOMAIN seen : IsPrefix(seen[c], Chain(c))

\* Damage does not spoil the rest of a chain: links, hashes and times are
\* reported only at a damaged row or at the first row after one.
ErrorsStayLocal ==
  \A err \in Report(<<>>).errors : LET i == err[1]  c == ledger[i].chain IN
    \E d \in damaged :
      /\ d[2] = c /\ d[1] <= i
      /\ \A j \in ChainIds(ledger, c) : j <= d[1] \/ i <= j

\* "Verify only this profile's chain" (verify_audit_chain.py:47): with
\* --profile, an undamaged ledger is found clean.  Violated: the anchors of the
\* other profiles are kept, and their chains then count as missing.
OnlyThisProfile ==
  damaged = {} => \A c \in Profile : verify_chain(iter_events({c}), anchors).errors = {}
=============================================================================
