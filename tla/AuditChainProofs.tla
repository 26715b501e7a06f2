-------------------------- MODULE AuditChainProofs --------------------------
(***************************************************************************)
(* For any number of threads, profiles, contents and damages: a chain      *)
(* never forks; on PostgreSQL an appender builds on its true head; every   *)
(* row follows the one before it unless it or that one was damaged, so     *)
(* that the verifier finds nothing in an undamaged ledger and errs only    *)
(* next to damage in another; it is right about the five invariants; and   *)
(* what it anchored cannot change unnoticed.                               *)
(***************************************************************************)
EXTENDS AuditChain, FiniteSetTheorems, SequenceTheorems, TLAPS

USE AuditBoundAssumption

-----------------------------------------------------------------------------
(* The head of a chain                                                     *)

\* A set of numbers has a least.
LEMMA Least ==
  ASSUME NEW S \in SUBSET Nat, S # {}
  PROVE  \E i \in S : \A j \in S : i <= j
<1>1. PICK i \in S : \A j \in S : <<j, i>> \notin OpToRel(<, Nat)
  BY NatLessThanWellFounded, WFMin
<1>2. ASSUME NEW j \in S PROVE i <= j
  <2>1. i \in Nat /\ j \in Nat OBVIOUS
  <2>2. ~(j < i) BY <1>1, <2>1 DEF OpToRel
  <2> QED BY <2>1, <2>2
<1> QED BY <1>2

\* A set of numbers with a bound has a greatest.
LEMMA Greatest ==
  ASSUME NEW n \in Nat, NEW S \in SUBSET (1..n), S # {}
  PROVE  \E i \in S : \A j \in S : j <= i
<1> DEFINE Above(i) == {j \in 1..n : j > i}
           T == {Above(i) : i \in S}
           R == StrictSubsetOrdering(1..n)
<1>1. IsFiniteSet(1..n) BY FS_Interval
<1>2. IsWellFoundedOn(R, SUBSET (1..n))
  BY <1>1, FS_StrictSubsetOrderingWellFounded, FS_FiniteSubsetsOfFinite
<1>3. T \subseteq SUBSET (1..n) /\ T # {} OBVIOUS
<1>4. PICK x \in T : \A y \in T : <<y, x>> \notin R
  <2> HIDE DEF T, R
  <2> QED BY <1>2, <1>3, WFMin
<1>5. PICK i \in S : x = Above(i) OBVIOUS
<1>6. SUFFICES ASSUME NEW j \in S, j > i PROVE FALSE OBVIOUS
<1>7. Above(j) \subseteq Above(i) BY <1>6
<1>8. j \in Above(i) /\ j \notin Above(j) BY <1>6
<1>9. <<Above(j), Above(i)>> \in R BY <1>7, <1>8 DEF StrictSubsetOrdering
<1> QED BY <1>4, <1>5, <1>9

\* The newest of some rows is the one with the greatest id.
LEMMA NewestOf ==
  ASSUME NEW rows, NEW n \in Nat, NEW S \in SUBSET (1..n), NEW i \in S, \A j \in S : j <= i
  PROVE  Newest(rows, S) = [hash |-> rows[i].hash, time |-> rows[i].time]
<1> DEFINE last == CHOOSE k \in S : \A j \in S : j <= k
<1>1. last \in S /\ \A j \in S : j <= last OBVIOUS
<1> HIDE DEF last
<1>2. last = i
  <2>1. last \in Nat /\ i \in Nat /\ last <= i /\ i <= last BY <1>1
  <2> QED BY <2>1
<1>3. Newest(rows, S) = [hash |-> rows[last].hash, time |-> rows[last].time] BY DEF Newest, last
<1> QED BY <1>2, <1>3

\* The newest of the same rows is the same.
LEMMA SameNewest ==
  ASSUME NEW r, NEW s, NEW n \in Nat, NEW ids \in SUBSET (1..n), \A i \in ids : r[i] = s[i]
  PROVE  Newest(r, ids) = Newest(s, ids)
<1>1. CASE ids = {} BY <1>1 DEF Newest
<1>2. CASE ids # {}
  <2>1. PICK i \in ids : \A j \in ids : j <= i BY <1>2, Greatest
  <2>2. Newest(r, ids) = [hash |-> r[i].hash, time |-> r[i].time] BY <2>1, NewestOf
  <2>3. Newest(s, ids) = [hash |-> s[i].hash, time |-> s[i].time] BY <2>1, NewestOf
  <2> QED BY <2>1, <2>2, <2>3
<1> QED BY <1>1, <1>2

\* A head is that of a row, and its time one of a row.
LEMMA HeadTime ==
  ASSUME NEW rows, NEW c, NEW n \in Nat, DOMAIN rows \subseteq 1..n,
         \A i \in DOMAIN rows : rows[i].time \in Time
  PROVE  ChainHead(rows, c).time \in Time
<1> DEFINE ids == ChainIds(rows, c)
<1>1. ids \in SUBSET (1..n) /\ ids \subseteq DOMAIN rows BY DEF ChainIds
<1>2. CASE ids = {}
  <2>1. MaxTime \in Nat OBVIOUS
  <2> QED BY <1>2, <2>1 DEF ChainHead, Newest, Time
<1>3. CASE ids # {}
  <2> HIDE DEF ids
  <2>1. PICK i \in ids : \A j \in ids : j <= i BY <1>1, <1>3, Greatest
  <2>2. Newest(rows, ids) = [hash |-> rows[i].hash, time |-> rows[i].time] BY <1>1, <2>1, NewestOf
  <2> QED BY <1>1, <2>2 DEF ChainHead, ids
<1> QED BY <1>2, <1>3

\* Rows of other chains do not matter to it.
LEMMA HeadOf ==
  ASSUME NEW r, NEW s, NEW c, NEW n \in Nat, DOMAIN r \subseteq 1..n,
         ChainIds(r, c) = ChainIds(s, c), \A i \in ChainIds(r, c) : r[i] = s[i]
  PROVE  ChainHead(r, c) = ChainHead(s, c)
<1> DEFINE ids == ChainIds(r, c)
<1>1. ids \in SUBSET (1..n) BY DEF ChainIds
<1>2. \A i \in ids : r[i] = s[i] OBVIOUS
<1>3. ids = ChainIds(s, c) OBVIOUS
<1> HIDE DEF ids
<1>4. Newest(r, ids) = Newest(s, ids) BY <1>1, <1>2, SameNewest
<1> QED BY <1>3, <1>4 DEF ChainHead, ids

-----------------------------------------------------------------------------
(* Units of work                                                           *)

LEMMA Merged ==
  ASSUME NEW r, NEW s
  PROVE  /\ DOMAIN Merge(r, s) = DOMAIN r \cup DOMAIN s
         /\ \A i \in DOMAIN s : Merge(r, s)[i] = s[i]
         /\ \A i \in DOMAIN r \ DOMAIN s : Merge(r, s)[i] = r[i]
  BY DEF Merge

LEMMA Stepped ==
  ASSUME TypeOK, NEW p \in Proc, NEW t, Step(p, t)
  PROVE  /\ txn' = [q \in Proc |-> txn'[q]] /\ txn'[p] = t
         /\ \A q \in Proc : q # p => txn'[q] = txn[q]
<1>1. txn = [q \in Proc |-> txn[q]] BY DEF TypeOK
<1>2. txn' = [txn EXCEPT ![p] = t] BY DEF Step
<1>3. txn' = [q \in Proc |-> IF q = p THEN t ELSE txn[q]]
  <2> DEFINE f == [q \in Proc |-> txn[q]]
  <2>1. txn = f BY <1>1
  <2>2. [f EXCEPT ![p] = t] = [q \in Proc |-> IF q = p THEN t ELSE f[q]] OBVIOUS
  <2>3. \A q \in Proc : f[q] = txn[q] OBVIOUS
  <2> HIDE DEF f
  <2> QED BY <1>2, <2>1, <2>2, <2>3
<1> QED BY <1>3

\* What a unit of work sees: the ledger, and its own rows beside it.
LEMMA Sees ==
  ASSUME TypeOK, NEW p \in Proc, txn[p] # Idle
  PROVE  /\ DOMAIN Visible(p) = DOMAIN ledger \cup DOMAIN txn[p].rows
         /\ \A i \in DOMAIN txn[p].rows : Visible(p)[i] = txn[p].rows[i]
         /\ \A i \in DOMAIN ledger : Visible(p)[i] = ledger[i]
<1>1. DOMAIN txn[p].rows \cap DOMAIN ledger = {} BY DEF TypeOK
<1> QED BY <1>1 DEF Visible, Merge

LEMMA Start == Init => Linked
<1> SUFFICES ASSUME Init PROVE Linked OBVIOUS
<1>1. \A p \in Proc : txn[p] = Idle BY DEF Init
<1>2. DOMAIN ledger = {} /\ DOMAIN anchors = {} /\ DOMAIN seen = {} /\ ledger = <<>> BY DEF Init
<1>3. TypeOK
  <2>1. txn = [p \in Proc |-> txn[p]] BY DEF Init
  <2>2. ledger = [i \in DOMAIN ledger |-> ledger[i]] BY <1>2
  <2>3. next_id \in 1..MaxEvents + 1 BY DEF Init
  <2> QED BY <1>1, <1>2, <2>1, <2>2, <2>3 DEF Init, TypeOK
<1>4. ReadsTrueHead BY <1>1 DEF ReadsTrueHead, Idle
<1> QED BY <1>1, <1>2, <1>3, <1>4 DEF Linked, NoSilentBranch

\* A step of one unit of work that leaves the ledger and its own rows alone.
LEMMA KeepsRows ==
  ASSUME Linked, NEW p \in Proc, NEW t, Step(p, t),
         UNCHANGED <<backend, ledger, next_id, anchors, seen, damaged>>,
         t.phase \in {"append", "head", "written"}, t # Idle,
         t.chain \in Profile,
         txn[p] # Idle => t.chain = txn[p].chain /\ t.rows = txn[p].rows,
         txn[p] = Idle => DOMAIN t.rows = {},
         txn[p] = Idle /\ backend = "postgresql" => \A q \in Proc : ~HoldsChain(q, t.chain),
         t.phase = "head" => t.head = ChainHead(Merge(ledger, t.rows), t.chain)
  PROVE  Linked'
<1>1. TypeOK /\ next_id - 1 \in Nat BY DEF Linked, TypeOK
<1>2. /\ txn' = [q \in Proc |-> txn'[q]] /\ txn'[p] = t
      /\ \A q \in Proc : q # p => txn'[q] = txn[q]
  BY <1>1, Stepped
<1>3. /\ DOMAIN t.rows \subseteq 1..(next_id - 1) \ DOMAIN ledger
      /\ \A i \in DOMAIN t.rows : IsEvent(t.rows[i]) /\ t.rows[i].chain = t.chain
  BY <1>1 DEF TypeOK
<1>4. t.phase = "head" => t.head.time \in Time
  <2> DEFINE rows == Merge(ledger, t.rows)
  <2>0. /\ DOMAIN rows = DOMAIN ledger \cup DOMAIN t.rows
        /\ \A i \in DOMAIN t.rows : rows[i] = t.rows[i]
        /\ \A i \in DOMAIN ledger \ DOMAIN t.rows : rows[i] = ledger[i]
    BY Merged
  <2> HIDE DEF rows
  <2>1. DOMAIN rows \subseteq 1..(next_id - 1) BY <1>1, <1>3, <2>0 DEF TypeOK
  <2>2. \A i \in DOMAIN rows : rows[i].time \in Time BY <1>1, <1>3, <2>0 DEF TypeOK, IsEvent
  <2>3. ChainHead(rows, t.chain).time \in Time BY <1>1, <2>1, <2>2, HeadTime
  <2> QED BY <2>3 DEF rows
<1>5. TypeOK'
  <2>1. \A q \in Proc : txn'[q] # Idle =>
          /\ txn'[q].phase \in {"append", "head", "written"} /\ txn'[q].chain \in Profile
          /\ DOMAIN txn'[q].rows \subseteq 1..(next_id - 1) \ DOMAIN ledger
          /\ \A i \in DOMAIN txn'[q].rows :
               IsEvent(txn'[q].rows[i]) /\ txn'[q].rows[i].chain = txn'[q].chain
          /\ txn'[q].phase = "head" => txn'[q].head.time \in Time
    <3> TAKE q \in Proc
    <3>1. CASE q = p BY <1>2, <1>3, <1>4, <3>1
    <3>2. CASE q # p BY <1>1, <1>2, <3>2 DEF TypeOK
    <3> QED BY <3>1, <3>2
  <2>2. \A q \in Proc, r \in Proc : q # r /\ txn'[q] # Idle /\ txn'[r] # Idle =>
          DOMAIN txn'[q].rows \cap DOMAIN txn'[r].rows = {}
    BY <1>1, <1>2 DEF TypeOK
  <2>3. TypeOK BY <1>1
  <2> QED BY <1>2, <2>1, <2>2, <2>3 DEF TypeOK, IsEvent
<1>6. NoSilentBranch' BY DEF Linked, NoSilentBranch
<1>7. ASSUME NEW q \in Proc, txn'[q] # Idle, NEW i \in DOMAIN txn'[q].rows
      PROVE  /\ \A j \in DOMAIN txn'[q].rows : SameLink(txn'[q].rows[i], txn'[q].rows[j]) => i = j
             /\ \A j \in DOMAIN ledger : ~SameLink(txn'[q].rows[i], ledger[j])
             /\ \A r \in Proc \ {q} : txn'[r] # Idle =>
                  \A j \in DOMAIN txn'[r].rows : ~SameLink(txn'[q].rows[i], txn'[r].rows[j])
  <2>1. txn[q] # Idle /\ txn'[q].rows = txn[q].rows BY <1>2, <1>7
  <2>2. \A r \in Proc : txn'[r] # Idle => DOMAIN txn'[r].rows = {} \/ (txn[r] # Idle /\ txn'[r].rows = txn[r].rows)
    BY <1>2
  <2> QED BY <1>7, <2>1, <2>2 DEF Linked
<1>8. backend = "postgresql" =>
        \A q, r \in Proc : q # r /\ txn'[q] # Idle /\ txn'[r] # Idle => txn'[q].chain # txn'[r].chain
  BY <1>2 DEF Linked, HoldsChain
<1>9. ReadsTrueHead'
  <2> SUFFICES ASSUME backend = "postgresql", NEW q \in Proc, txn'[q].phase = "head"
               PROVE  txn'[q].head = ChainHead(Merge(ledger, txn'[q].rows), txn'[q].chain)
    BY DEF ReadsTrueHead, Visible
  <2>1. CASE q = p BY <1>2, <2>1
  <2>2. CASE q # p BY <1>2, <2>2 DEF Linked, ReadsTrueHead, Visible
  <2> QED BY <2>1, <2>2
<1> QED BY <1>5, <1>6, <1>7, <1>8, <1>9 DEF Linked, SameLink

\* A unit of work that ends without committing.
LEMMA Ends ==
  ASSUME Linked, NEW p \in Proc, Step(p, Idle),
         UNCHANGED <<backend, ledger, next_id, anchors, seen, damaged>>
  PROVE  Linked'
<1>1. TypeOK BY DEF Linked
<1>2. /\ txn' = [q \in Proc |-> txn'[q]] /\ txn'[p] = Idle
      /\ \A q \in Proc : q # p => txn'[q] = txn[q]
  BY <1>1, Stepped
<1>3. TypeOK'
  <2>1. \A q \in Proc : txn'[q] # Idle => txn[q] # Idle /\ txn'[q] = txn[q] BY <1>2
  <2>2. \A q \in Proc : txn'[q] # Idle =>
          /\ txn'[q].phase \in {"append", "head", "written"} /\ txn'[q].chain \in Profile
          /\ DOMAIN txn'[q].rows \subseteq 1..(next_id - 1) \ DOMAIN ledger
          /\ \A i \in DOMAIN txn'[q].rows :
               IsEvent(txn'[q].rows[i]) /\ txn'[q].rows[i].chain = txn'[q].chain
          /\ txn'[q].phase = "head" => txn'[q].head.time \in Time
    BY <1>1, <2>1 DEF TypeOK
  <2>3. \A q \in Proc, r \in Proc : q # r /\ txn'[q] # Idle /\ txn'[r] # Idle =>
          DOMAIN txn'[q].rows \cap DOMAIN txn'[r].rows = {}
    BY <1>1, <2>1 DEF TypeOK
  <2> QED BY <1>1, <1>2, <2>2, <2>3 DEF TypeOK, IsEvent
<1>4. NoSilentBranch' BY DEF Linked, NoSilentBranch
<1>5. ReadsTrueHead'
  <2> SUFFICES ASSUME backend = "postgresql", NEW q \in Proc, txn'[q].phase = "head"
               PROVE  txn'[q].head = ChainHead(Merge(ledger, txn'[q].rows), txn'[q].chain)
    BY DEF ReadsTrueHead, Visible
  <2>1. q # p BY <1>2 DEF Idle
  <2> QED BY <1>2, <2>1 DEF Linked, ReadsTrueHead, Visible
<1> QED BY <1>2, <1>3, <1>4, <1>5 DEF Linked, SameLink

LEMMA FlushStep ==
  ASSUME Linked, NEW p \in Proc, NEW content \in Content, NEW now \in Time, Flush(p, content, now)
  PROVE  Linked'
<1> USE DEF Flush, files
<1> DEFINE e == NewEvent(txn[p], content, now)
           row == [i \in {next_id} |-> e]
           t == [phase |-> "written", chain |-> txn[p].chain, rows |-> Merge(txn[p].rows, row)]
<1>1. TypeOK /\ next_id \in 1..MaxEvents + 1 /\ next_id \in Nat /\ MaxEvents \in Nat BY DEF Linked, TypeOK
<1>2. txn[p] # Idle /\ txn[p].phase = "head" BY DEF Idle
<1>3. /\ txn' = [q \in Proc |-> txn'[q]] /\ txn'[p] = t
      /\ \A q \in Proc : q # p => txn'[q] = txn[q]
  BY <1>1, Stepped
<1>4. e.chain = txn[p].chain /\ e.previous = txn[p].head.hash BY DEF NewEvent
<1>5. IsEvent(e)
  <2>1. created_at(txn[p].head, now) \in Time BY <1>1, <1>2 DEF created_at, TypeOK
  <2>2. txn[p].chain \in Profile BY <1>1, <1>2 DEF TypeOK
  <2> QED BY <2>1, <2>2 DEF NewEvent, IsEvent
<1>6. /\ DOMAIN t.rows = DOMAIN txn[p].rows \cup {next_id}
      /\ next_id \notin DOMAIN txn[p].rows /\ next_id \notin DOMAIN ledger
      /\ t.rows[next_id] = e
      /\ \A i \in DOMAIN txn[p].rows : t.rows[i] = txn[p].rows[i]
      /\ t.phase = "written" /\ t.chain = txn[p].chain /\ t # Idle
  <2>1. DOMAIN row = {next_id} /\ row[next_id] = e OBVIOUS
  <2>2. next_id \notin DOMAIN txn[p].rows /\ next_id \notin DOMAIN ledger BY <1>1, <1>2 DEF TypeOK
  <2>3. t.rows = Merge(txn[p].rows, row) /\ t.phase = "written" /\ t.chain = txn[p].chain OBVIOUS
  <2>4. t # Idle BY DEF Idle
  <2>5. /\ DOMAIN Merge(txn[p].rows, row) = DOMAIN txn[p].rows \cup {next_id}
        /\ Merge(txn[p].rows, row)[next_id] = e
        /\ \A i \in DOMAIN txn[p].rows : Merge(txn[p].rows, row)[i] = txn[p].rows[i]
    <3> HIDE DEF row, e, Flush
    <3> QED BY <2>1, <2>2 DEF Merge
  <2> HIDE DEF t, row, e, Flush
  <2> QED BY <2>2, <2>3, <2>4, <2>5
<1>7. next_id' = next_id + 1 /\ UNCHANGED <<backend, ledger, anchors, seen, damaged>> OBVIOUS
<1>8. ~Waits(p) /\ ~LinkTaken(p) OBVIOUS
<1> HIDE DEF e, t, Flush
<1>9. TypeOK'
  <2>1. \A q \in Proc : txn'[q] # Idle =>
          /\ txn'[q].phase \in {"append", "head", "written"} /\ txn'[q].chain \in Profile
          /\ DOMAIN txn'[q].rows \subseteq 1..next_id \ DOMAIN ledger
          /\ \A i \in DOMAIN txn'[q].rows :
               IsEvent(txn'[q].rows[i]) /\ txn'[q].rows[i].chain = txn'[q].chain
          /\ txn'[q].phase = "head" => txn'[q].head.time \in Time
    <3> TAKE q \in Proc
    <3>1. CASE q = p
      <4>1. DOMAIN t.rows \subseteq 1..next_id \ DOMAIN ledger BY <1>1, <1>2, <1>6 DEF TypeOK
      <4>2. \A i \in DOMAIN t.rows : IsEvent(t.rows[i]) /\ t.rows[i].chain = t.chain
        BY <1>1, <1>2, <1>4, <1>5, <1>6 DEF TypeOK
      <4>3. t.chain \in Profile BY <1>1, <1>2, <1>6 DEF TypeOK
      <4> QED BY <1>3, <1>6, <3>1, <4>1, <4>2, <4>3
    <3>2. CASE q # p BY <1>1, <1>3, <3>2 DEF TypeOK
    <3> QED BY <3>1, <3>2
  <2>2. \A q \in Proc, r \in Proc : q # r /\ txn'[q] # Idle /\ txn'[r] # Idle =>
          DOMAIN txn'[q].rows \cap DOMAIN txn'[r].rows = {}
    <3>1. \A q \in Proc : txn[q] # Idle => next_id \notin DOMAIN txn[q].rows BY <1>1 DEF TypeOK
    <3> QED BY <1>1, <1>2, <1>3, <1>6, <3>1 DEF TypeOK
  <2>3. /\ DOMAIN ledger \subseteq 1..(next_id' - 1) /\ next_id' \in 1..MaxEvents + 1
        /\ damaged \subseteq (1..(next_id' - 1)) \X Profile
        /\ 1..(next_id' - 1) = 1..next_id
    <3>1. next_id' - 1 = next_id /\ next_id <= MaxEvents BY <1>1, <1>7 DEF Flush
    <3>2. 1..(next_id - 1) \subseteq 1..next_id BY <1>1
    <3> QED BY <1>1, <1>7, <3>1, <3>2 DEF TypeOK
  <2> QED BY <1>1, <1>3, <1>7, <2>1, <2>2, <2>3 DEF TypeOK, IsEvent
<1>10. NoSilentBranch' BY <1>7 DEF Linked, NoSilentBranch
<1>11. /\ \A j \in DOMAIN ledger : ~SameLink(e, ledger[j])
       /\ \A i \in DOMAIN txn[p].rows : ~SameLink(e, txn[p].rows[i])
       /\ \A q \in Proc \ {p} : txn[q] # Idle => \A j \in DOMAIN txn[q].rows : ~SameLink(e, txn[q].rows[j])
  <2>1. \A i \in ChainIds(Visible(p), txn[p].chain) : Visible(p)[i].previous # txn[p].head.hash
    BY <1>8 DEF LinkTaken
  <2>2. \A i \in DOMAIN Visible(p) : ~SameLink(e, Visible(p)[i]) BY <1>4, <2>1 DEF ChainIds, SameLink
  <2>3. \A i \in DOMAIN txn[p].rows : i \in DOMAIN Visible(p) /\ Visible(p)[i] = txn[p].rows[i]
    BY <1>1, <1>2, Sees
  <2>4. \A i \in DOMAIN ledger : i \in DOMAIN Visible(p) /\ Visible(p)[i] = ledger[i]
    BY <1>1, <1>2, Sees
  <2>5. \A q \in Proc \ {p} : txn[q] # Idle => \A j \in DOMAIN txn[q].rows : ~SameLink(e, txn[q].rows[j])
    <3> TAKE q \in Proc \ {p}
    <3> HAVE txn[q] # Idle
    <3> TAKE j \in DOMAIN txn[q].rows
    <3>1. txn[q].chain # txn[p].chain \/ txn[q].rows[j].previous # txn[p].head.hash BY <1>8 DEF Waits
    <3>2. txn[q].rows[j].chain = txn[q].chain BY <1>1 DEF TypeOK
    <3> QED BY <1>4, <3>1, <3>2 DEF SameLink
  <2> QED BY <2>2, <2>3, <2>4, <2>5
<1>12. ASSUME NEW q \in Proc, txn'[q] # Idle, NEW i \in DOMAIN txn'[q].rows
      PROVE  /\ \A j \in DOMAIN txn'[q].rows : SameLink(txn'[q].rows[i], txn'[q].rows[j]) => i = j
             /\ \A j \in DOMAIN ledger : ~SameLink(txn'[q].rows[i], ledger[j])
             /\ \A r \in Proc \ {q} : txn'[r] # Idle =>
                  \A j \in DOMAIN txn'[r].rows : ~SameLink(txn'[q].rows[i], txn'[r].rows[j])
  <2> USE <1>12
  <2>1. \A f, g : SameLink(f, g) <=> SameLink(g, f) BY DEF SameLink
  <2>2. CASE q = p /\ i = next_id BY <1>3, <1>6, <1>11, <2>2
  <2>3. CASE q = p /\ i # next_id BY <1>2, <1>3, <1>6, <1>11, <2>1, <2>3 DEF Linked
  <2>4. CASE q # p
    <3>1. txn[q] # Idle /\ txn'[q] = txn[q] BY <1>3, <2>4
    <3>2. \A r \in Proc \ {q} : txn'[r] # Idle =>
            \A j \in DOMAIN txn'[r].rows : ~SameLink(txn'[q].rows[i], txn'[r].rows[j])
      <4> TAKE r \in Proc \ {q}
      <4>1. CASE r = p BY <1>2, <1>3, <1>6, <1>11, <2>1, <2>4, <3>1, <4>1 DEF Linked
      <4>2. CASE r # p BY <1>3, <3>1, <4>2 DEF Linked
      <4> QED BY <4>1, <4>2
    <3> QED BY <3>1, <3>2 DEF Linked
  <2> QED BY <2>2, <2>3, <2>4
<1>13. backend = "postgresql" =>
        \A q, r \in Proc : q # r /\ txn'[q] # Idle /\ txn'[r] # Idle => txn'[q].chain # txn'[r].chain
  BY <1>2, <1>3, <1>6 DEF Linked
<1>14. ReadsTrueHead'
  <2> SUFFICES ASSUME backend = "postgresql", NEW q \in Proc, txn'[q].phase = "head"
               PROVE  txn'[q].head = ChainHead(Merge(ledger, txn'[q].rows), txn'[q].chain)
    BY <1>7 DEF ReadsTrueHead, Visible
  <2>1. q # p BY <1>3, <1>6
  <2> QED BY <1>3, <2>1 DEF Linked, ReadsTrueHead, Visible
<1> QED BY <1>7, <1>9, <1>10, <1>12, <1>13, <1>14 DEF Linked, SameLink

LEMMA CommitStep ==
  ASSUME Linked, NEW p \in Proc, Commit(p)
  PROVE  Linked'
<1> USE DEF files
<1>1. TypeOK /\ txn[p] # Idle /\ next_id - 1 \in Nat BY DEF Linked, Commit, Idle, TypeOK
<1>2. /\ txn' = [q \in Proc |-> txn'[q]] /\ txn'[p] = Idle
      /\ \A q \in Proc : q # p => txn'[q] = txn[q]
  BY <1>1, Stepped DEF Commit
<1>3. /\ DOMAIN ledger' = DOMAIN ledger \cup DOMAIN txn[p].rows
      /\ \A i \in DOMAIN ledger : ledger'[i] = ledger[i]
      /\ \A i \in DOMAIN txn[p].rows : ledger'[i] = txn[p].rows[i]
      /\ ledger' = [i \in DOMAIN ledger' |-> ledger'[i]]
  <2>1. ledger' = Visible(p) BY DEF Commit, Visible
  <2>2. Visible(p) = [i \in DOMAIN Visible(p) |-> Visible(p)[i]] BY DEF Visible, Merge
  <2> QED BY <1>1, <2>1, <2>2, Sees
<1>4. UNCHANGED <<backend, next_id, anchors, seen, damaged>> BY DEF Commit
<1>5. \A q \in Proc : txn'[q] # Idle => q # p /\ txn[q] # Idle /\ txn'[q] = txn[q] BY <1>2
<1>6. TypeOK'
  <2>1. \A i \in DOMAIN ledger' : i \in 1..(next_id - 1) /\ IsEvent(ledger'[i]) BY <1>1, <1>3 DEF TypeOK
  <2>2. \A q \in Proc : txn'[q] # Idle =>
          /\ txn'[q].phase \in {"append", "head", "written"} /\ txn'[q].chain \in Profile
          /\ DOMAIN txn'[q].rows \subseteq 1..(next_id - 1) \ DOMAIN ledger'
          /\ \A i \in DOMAIN txn'[q].rows :
               IsEvent(txn'[q].rows[i]) /\ txn'[q].rows[i].chain = txn'[q].chain
          /\ txn'[q].phase = "head" => txn'[q].head.time \in Time
    BY <1>1, <1>3, <1>5 DEF TypeOK
  <2>3. \A q \in Proc, r \in Proc : q # r /\ txn'[q] # Idle /\ txn'[r] # Idle =>
          DOMAIN txn'[q].rows \cap DOMAIN txn'[r].rows = {}
    BY <1>1, <1>5 DEF TypeOK
  <2> QED BY <1>1, <1>2, <1>3, <1>4, <2>1, <2>2, <2>3 DEF TypeOK, IsEvent
<1>7. \A f, g : SameLink(f, g) <=> SameLink(g, f) BY DEF SameLink
<1>8. NoSilentBranch'
  <2>1. \A i, j \in DOMAIN ledger : SameLink(ledger[i], ledger[j]) => i = j
    BY DEF Linked, NoSilentBranch, SameLink
  <2>2. \A i \in DOMAIN txn[p].rows :
          /\ \A j \in DOMAIN txn[p].rows : SameLink(txn[p].rows[i], txn[p].rows[j]) => i = j
          /\ \A j \in DOMAIN ledger : ~SameLink(txn[p].rows[i], ledger[j])
    BY <1>1 DEF Linked
  <2>3. \A i, j \in DOMAIN ledger' : SameLink(ledger'[i], ledger'[j]) => i = j
    BY <1>3, <1>7, <2>1, <2>2
  <2> QED BY <2>3 DEF NoSilentBranch, SameLink
<1>9. ASSUME NEW q \in Proc, txn'[q] # Idle, NEW i \in DOMAIN txn'[q].rows
      PROVE  /\ \A j \in DOMAIN txn'[q].rows : SameLink(txn'[q].rows[i], txn'[q].rows[j]) => i = j
             /\ \A j \in DOMAIN ledger' : ~SameLink(txn'[q].rows[i], ledger'[j])
             /\ \A r \in Proc \ {q} : txn'[r] # Idle =>
                  \A j \in DOMAIN txn'[r].rows : ~SameLink(txn'[q].rows[i], txn'[r].rows[j])
  <2>1. q # p /\ txn[q] # Idle /\ txn'[q] = txn[q] BY <1>5, <1>9
  <2>2. /\ \A j \in DOMAIN txn[q].rows : SameLink(txn[q].rows[i], txn[q].rows[j]) => i = j
        /\ \A j \in DOMAIN ledger : ~SameLink(txn[q].rows[i], ledger[j])
        /\ \A r \in Proc \ {q} : txn[r] # Idle =>
             \A j \in DOMAIN txn[r].rows : ~SameLink(txn[q].rows[i], txn[r].rows[j])
    BY <1>9, <2>1 DEF Linked
  <2>3. \A j \in DOMAIN txn[p].rows : ~SameLink(txn[q].rows[i], txn[p].rows[j]) BY <1>1, <2>1, <2>2
  <2> QED BY <1>3, <1>5, <2>1, <2>2, <2>3
<1>10. backend = "postgresql" =>
        \A q, r \in Proc : q # r /\ txn'[q] # Idle /\ txn'[r] # Idle => txn'[q].chain # txn'[r].chain
  BY <1>5 DEF Linked
<1>11. ReadsTrueHead'
  <2> SUFFICES ASSUME backend = "postgresql", NEW q \in Proc, txn'[q].phase = "head"
               PROVE  txn'[q].head = ChainHead(Merge(ledger', txn'[q].rows), txn'[q].chain)
    BY <1>4 DEF ReadsTrueHead, Visible
  <2>1. q # p /\ txn[q] # Idle /\ txn'[q] = txn[q] BY <1>2, <1>5 DEF Idle
  <2> DEFINE c == txn[q].chain
             s == Merge(ledger', txn[q].rows)
             v == Visible(q)
  <2>2. /\ DOMAIN v = DOMAIN ledger \cup DOMAIN txn[q].rows
        /\ \A i \in DOMAIN txn[q].rows : v[i] = txn[q].rows[i]
        /\ \A i \in DOMAIN ledger : v[i] = ledger[i]
    BY <1>1, <2>1, Sees
  <2>3. /\ DOMAIN s = DOMAIN ledger' \cup DOMAIN txn[q].rows
        /\ \A i \in DOMAIN txn[q].rows : s[i] = txn[q].rows[i]
        /\ \A i \in DOMAIN ledger' \ DOMAIN txn[q].rows : s[i] = ledger'[i]
    BY Merged
  <2>4. txn[p].chain # c /\ DOMAIN txn[p].rows \cap DOMAIN txn[q].rows = {} BY <1>1, <2>1 DEF Linked, TypeOK
  <2>5. \A i \in DOMAIN txn[p].rows : txn[p].rows[i].chain # c BY <1>1, <2>4 DEF TypeOK
  <2>6. DOMAIN txn[p].rows \cap DOMAIN ledger = {} /\ DOMAIN txn[q].rows \cap DOMAIN ledger = {}
    BY <1>1, <2>1 DEF TypeOK
  <2>7. DOMAIN v \subseteq 1..(next_id - 1) BY <1>1, <2>1, <2>2 DEF TypeOK
  <2>8. txn[q].head = ChainHead(v, c) BY <2>1 DEF Linked, ReadsTrueHead
  <2> HIDE DEF c, s, v
  <2>9. \A i \in DOMAIN v : i \in DOMAIN s /\ s[i] = v[i] BY <1>3, <2>2, <2>3, <2>6
  <2>10. \A i \in DOMAIN s : s[i].chain = c => i \in DOMAIN v BY <1>3, <2>2, <2>3, <2>5
  <2>11. ChainIds(v, c) = ChainIds(s, c) /\ \A i \in ChainIds(v, c) : v[i] = s[i]
    BY <2>9, <2>10 DEF ChainIds
  <2>12. ChainHead(v, c) = ChainHead(s, c) BY <1>1, <2>7, <2>11, HeadOf
  <2> QED BY <2>1, <2>8, <2>12 DEF c, s
<1> QED BY <1>4, <1>6, <1>8, <1>9, <1>10, <1>11 DEF Linked, SameLink

-----------------------------------------------------------------------------
(* Damage and the verifier                                                 *)

\* What is done to the ledger outside the program keeps rows' links, and
\* happens while no unit of work is under way.
LEMMA Damaged ==
  ASSUME Linked, NEW ids \in SUBSET DOMAIN ledger, Damages(ids),
         ledger' = [i \in DOMAIN ledger' |-> ledger'[i]],
         DOMAIN ledger' \subseteq DOMAIN ledger,
         \A i \in DOMAIN ledger' : IsEvent(ledger'[i]) /\ SameLink(ledger'[i], ledger[i])
  PROVE  Linked'
<1> USE DEF Damages, files
<1>1. TypeOK BY DEF Linked
<1>2. \A p \in Proc : txn'[p] = Idle BY DEF Quiet
<1>3. damaged' \subseteq (1..(next_id - 1)) \X Profile BY <1>1 DEF TypeOK, IsEvent
<1>4. TypeOK'
  <2> HIDE DEF Damages
  <2>1. UNCHANGED <<backend, next_id, txn, anchors, seen>> BY DEF Damages, files
  <2> QED BY <1>1, <1>2, <1>3, <2>1 DEF TypeOK, IsEvent
<1>5. NoSilentBranch' BY DEF Linked, NoSilentBranch, SameLink
<1>6. ReadsTrueHead' BY <1>2 DEF ReadsTrueHead, Idle
<1> QED BY <1>2, <1>4, <1>5, <1>6 DEF Linked

LEMMA DamageStep ==
  ASSUME Linked, NEW i \in DOMAIN ledger,
         \/ \E content \in Content, now \in Time : Alter(i, content, now)
         \/ Lose(i)
         \/ Restore(i)
  PROVE  Linked'
<1>1. TypeOK /\ ledger = [j \in DOMAIN ledger |-> ledger[j]] BY DEF Linked, TypeOK
<1>2. \A j \in DOMAIN ledger : IsEvent(ledger[j]) /\ SameLink(ledger[j], ledger[j])
  BY <1>1 DEF TypeOK, SameLink
<1>3. ASSUME NEW content \in Content, NEW now \in Time, Alter(i, content, now)
      PROVE  Linked'
  <2> DEFINE e == Altered(ledger[i], content, now)
  <2>1. ledger' = [ledger EXCEPT ![i] = e] BY <1>3 DEF Alter
  <2>2. ledger' = [j \in DOMAIN ledger |-> IF j = i THEN e ELSE ledger[j]]
    <3> DEFINE f == [j \in DOMAIN ledger |-> ledger[j]]
    <3>1. [f EXCEPT ![i] = e] = [j \in DOMAIN ledger |-> IF j = i THEN e ELSE f[j]] OBVIOUS
    <3>2. f = ledger BY <1>1
    <3> HIDE DEF f, e
    <3> QED BY <2>1, <3>1, <3>2
  <2>3. IsEvent(e) /\ SameLink(e, ledger[i]) BY <1>2 DEF Altered, IsEvent, SameLink
  <2> HIDE DEF e
  <2>4. Damages({i}) BY <1>3 DEF Alter
  <2>5. DOMAIN ledger' = DOMAIN ledger /\ ledger' = [j \in DOMAIN ledger' |-> ledger'[j]]
        /\ \A j \in DOMAIN ledger' : IsEvent(ledger'[j]) /\ SameLink(ledger'[j], ledger[j])
    BY <1>2, <2>2, <2>3
  <2> QED BY <2>4, <2>5, Damaged
<1>4. CASE Lose(i)
  <2>1. Damages({i}) /\ ledger' = [j \in DOMAIN ledger \ {i} |-> ledger[j]] BY <1>4 DEF Lose
  <2> QED BY <1>2, <2>1, Damaged
<1>5. CASE Restore(i)
  <2> DEFINE kept == {j \in DOMAIN ledger : j < i}
             lost == {j \in DOMAIN ledger : j >= i}
  <2>1. Damages(lost) /\ ledger' = [j \in kept |-> ledger[j]] BY <1>5 DEF Restore
  <2>2. kept \subseteq DOMAIN ledger /\ lost \in SUBSET DOMAIN ledger OBVIOUS
  <2> HIDE DEF kept, lost
  <2> QED BY <1>2, <2>1, <2>2, Damaged
<1> QED BY <1>3, <1>4, <1>5

LEMMA EmitStep ==
  ASSUME Linked, EmitAnchors
  PROVE  Linked'
<1>1. UNCHANGED <<backend, ledger, next_id, txn, damaged>> BY DEF EmitAnchors, chains
<1>2. DOMAIN anchors' \subseteq Profile /\ DOMAIN seen' \in {{}, DOMAIN anchors'} BY DEF EmitAnchors
<1>3. TypeOK' BY <1>1, <1>2 DEF Linked, TypeOK, IsEvent
<1> QED BY <1>1, <1>3 DEF Linked, NoSilentBranch, SameLink, ReadsTrueHead, Visible

-----------------------------------------------------------------------------
(* The theorems                                                            *)

LEMMA AppendsStep ==
  ASSUME Linked, NEW p \in Proc, Appends(p)
  PROVE  Linked'
<1> USE DEF files
<1>1. ASSUME NEW c \in Profile, AppendFirst(p, c) PROVE Linked'
  <2> DEFINE t == [phase |-> "append", chain |-> c, rows |-> <<>>]
  <2>1. Step(p, t) /\ txn[p] = Idle /\ (backend = "postgresql" => \A q \in Proc : ~HoldsChain(q, c))
        /\ UNCHANGED <<backend, ledger, next_id, anchors, seen, damaged>>
    BY <1>1 DEF AppendFirst
  <2>2. t.phase = "append" /\ t # Idle /\ t.chain = c /\ DOMAIN t.rows = {} BY DEF Idle
  <2> HIDE DEF t
  <2> QED BY <2>1, <2>2, KeepsRows
<1>2. CASE AppendNext(p)
  <2> DEFINE t == [phase |-> "append", chain |-> txn[p].chain, rows |-> txn[p].rows]
  <2>1. Step(p, t) /\ txn[p] # Idle /\ UNCHANGED <<backend, ledger, next_id, anchors, seen, damaged>>
    BY <1>2 DEF AppendNext, Idle
  <2>2. t.phase = "append" /\ t # Idle /\ t.chain = txn[p].chain /\ t.rows = txn[p].rows BY DEF Idle
  <2>3. txn[p].chain \in Profile BY <2>1 DEF Linked, TypeOK
  <2> HIDE DEF t
  <2> QED BY <2>1, <2>2, <2>3, KeepsRows
<1>3. CASE ReadHead(p)
  <2> DEFINE t == [phase |-> "head", chain |-> txn[p].chain, rows |-> txn[p].rows,
                   head |-> ChainHead(Visible(p), txn[p].chain)]
  <2>1. Step(p, t) /\ txn[p] # Idle /\ UNCHANGED <<backend, ledger, next_id, anchors, seen, damaged>>
    BY <1>3 DEF ReadHead, Idle
  <2>2. t.phase = "head" /\ t # Idle /\ t.chain = txn[p].chain /\ t.rows = txn[p].rows
        /\ t.head = ChainHead(Merge(ledger, t.rows), t.chain)
    BY DEF Idle, Visible
  <2>3. txn[p].chain \in Profile BY <2>1 DEF Linked, TypeOK
  <2> HIDE DEF t
  <2> QED BY <2>1, <2>2, <2>3, KeepsRows
<1>4. CASE Conflict(p) \/ Abort(p) BY <1>4, Ends DEF Conflict, Abort
<1> QED BY <1>1, <1>2, <1>3, <1>4, FlushStep, CommitStep DEF Appends

LEMMA LinkedStep == Linked /\ [Next]_vars => Linked'
<1> SUFFICES ASSUME Linked, [Next]_vars PROVE Linked' OBVIOUS
<1>1. CASE \E p \in Proc : Appends(p) BY <1>1, AppendsStep
<1>2. CASE EmitAnchors BY <1>2, EmitStep
<1>3. CASE Damage BY <1>3, DamageStep DEF Damage
<1>4. CASE UNCHANGED vars
  <2>1. UNCHANGED <<backend, ledger, next_id, txn, anchors, seen, damaged>> BY <1>4 DEF vars, chains, files
  <2>2. TypeOK' BY <2>1 DEF Linked, TypeOK, IsEvent
  <2> QED BY <2>1, <2>2 DEF Linked, NoSilentBranch, SameLink, ReadsTrueHead, Visible
<1> QED BY <1>1, <1>2, <1>3, <1>4 DEF Next

\* Rows have their types and links of their own, whoever appends on either
\* database and whatever is damaged outside.
THEOREM LinkedHolds == Spec => []Linked
<1> QED BY Start, LinkedStep, PTL DEF Spec

\* No chain forks, on either database.
THEOREM NoSilentBranchHolds == Spec => []NoSilentBranch
<1>1. Linked => NoSilentBranch BY DEF Linked
<1> QED BY <1>1, LinkedHolds, PTL

\* The lock of a chain keeps the head that was read true until the insert.
THEOREM ReadsTrueHeadHolds == Spec => []ReadsTrueHead
<1>1. Linked => ReadsTrueHead BY DEF Linked
<1> QED BY <1>1, LinkedHolds, PTL

-----------------------------------------------------------------------------
(* What the verifier's walk comes to                                       *)

\* The ids of a chain up to n, and what a walk up to n knows of it.
Upto(rows, c, n) == {i \in ChainIds(rows, c) : i <= n}
SummaryAt(c, n) ==
  [length |-> Cardinality(Upto(ledger, c, n)),
   head |-> Newest(ledger, Upto(ledger, c, n)).hash, time |-> Newest(ledger, Upto(ledger, c, n)).time]

ReportAt(n, known) ==
  [chains |-> [c \in Profile |-> SummaryAt(c, n)],
   errors |-> UNION {{<<i, kind>> : kind \in errors_at(ledger[i], SummaryAt(ledger[i].chain, i - 1), known)}
                       : i \in {j \in DOMAIN ledger : j <= n}}]

\* All that the walk needs of the ledger's type.
Ids ==
  /\ next_id \in Nat \ {0}
  /\ DOMAIN ledger \subseteq 1..(next_id - 1)
  /\ \A i \in DOMAIN ledger : ledger[i].chain \in Profile

\* A report before the first event is a new one.
LEMMA FirstReport == ASSUME Ids, NEW known PROVE ReportAt(0, known) = NewReport
<1>1. \A c : Upto(ledger, c, 0) = {}
  BY DEF Upto, ChainIds, Ids
<1>2. \A c : SummaryAt(c, 0) = NewSummary
  BY <1>1, FS_EmptySet DEF SummaryAt, NewSummary, Newest
<1>3. {j \in DOMAIN ledger : j <= 0} = {}
  BY DEF Ids
<1> QED
  BY <1>2, <1>3 DEF ReportAt, NewReport

\* An id that no row has adds nothing.
LEMMA SameReport ==
  ASSUME Ids, NEW known, NEW n \in 1..(next_id - 1), n \notin DOMAIN ledger
  PROVE  ReportAt(n, known) = ReportAt(n - 1, known)
<1>1. \A c : Upto(ledger, c, n) = Upto(ledger, c, n - 1)
  BY DEF Upto, ChainIds, Ids
<1>2. \A c : SummaryAt(c, n) = SummaryAt(c, n - 1)
  BY <1>1 DEF SummaryAt
<1>3. {j \in DOMAIN ledger : j <= n} = {j \in DOMAIN ledger : j <= n - 1}
  BY DEF Ids
<1> QED
  BY <1>2, <1>3 DEF ReportAt

\* A row is visited after what is below it.
LEMMA NextReport ==
  ASSUME Ids, NEW known, NEW n \in DOMAIN ledger
  PROVE  ReportAt(n, known) = visit(ReportAt(n - 1, known), n, known)
<1> DEFINE c == ledger[n].chain
           before == SummaryAt(c, n - 1)
           found(i) == {<<i, kind>> : kind \in errors_at(ledger[i], SummaryAt(ledger[i].chain, i - 1), known)}
<1>1. n \in 1..(next_id - 1) /\ n \in Nat /\ c \in Profile
  BY DEF Ids
<1>2. Upto(ledger, c, n) = Upto(ledger, c, n - 1) \cup {n} /\ n \notin Upto(ledger, c, n - 1) /\ n \in Upto(ledger, c, n)
  BY <1>1 DEF Upto, ChainIds, Ids
<1>3. IsFiniteSet(Upto(ledger, c, n - 1)) /\ Upto(ledger, c, n) \in SUBSET (1..n)
  <2>1. Upto(ledger, c, n - 1) \in SUBSET (1..n) /\ Upto(ledger, c, n) \in SUBSET (1..n)
    BY <1>1 DEF Upto, ChainIds, Ids
  <2>2. IsFiniteSet(1..n)
    BY <1>1, FS_Interval
  <2> QED
    BY <2>1, <2>2, FS_Subset
<1>4. SummaryAt(c, n) = advance(before, ledger[n])
  <2>1. Cardinality(Upto(ledger, c, n)) = Cardinality(Upto(ledger, c, n - 1)) + 1
    BY <1>2, <1>3, FS_AddElement
  <2>2. Newest(ledger, Upto(ledger, c, n)) = [hash |-> ledger[n].hash, time |-> ledger[n].time]
    <3>1. \A j \in Upto(ledger, c, n) : j <= n
      BY DEF Upto
    <3> QED
      BY <1>1, <1>2, <1>3, <3>1, NewestOf
  <2> QED
    BY <2>1, <2>2 DEF SummaryAt, advance
<1>5. \A d : d # c => SummaryAt(d, n) = SummaryAt(d, n - 1)
  <2>1. \A d : d # c => Upto(ledger, d, n) = Upto(ledger, d, n - 1)
    BY <1>1 DEF Upto, ChainIds, Ids
  <2> QED
    BY <2>1 DEF SummaryAt
<1>6. {j \in DOMAIN ledger : j <= n} = {j \in DOMAIN ledger : j <= n - 1} \cup {n}
  BY <1>1 DEF Ids
<1>7. ReportAt(n, known).errors = ReportAt(n - 1, known).errors \cup found(n)
  <2>1. ReportAt(n, known).errors = UNION {found(i) : i \in {j \in DOMAIN ledger : j <= n}}
    BY DEF ReportAt
  <2>2. ReportAt(n - 1, known).errors = UNION {found(i) : i \in {j \in DOMAIN ledger : j <= n - 1}}
    BY DEF ReportAt
  <2> HIDE DEF found
  <2> QED
    BY <1>6, <2>1, <2>2
<1>8. ReportAt(n, known).chains = [ReportAt(n - 1, known).chains EXCEPT ![c] = advance(before, ledger[n])]
  <2>1. ReportAt(n, known).chains = [d \in Profile |-> SummaryAt(d, n)]
    BY DEF ReportAt
  <2>2. ReportAt(n - 1, known).chains = [d \in Profile |-> SummaryAt(d, n - 1)]
    BY DEF ReportAt
  <2>3. [d \in Profile |-> SummaryAt(d, n)]
          = [[d \in Profile |-> SummaryAt(d, n - 1)] EXCEPT ![c] = advance(before, ledger[n])]
    BY <1>1, <1>4, <1>5
  <2> QED
    BY <2>1, <2>2, <2>3
<1>9. ReportAt(n - 1, known).chains[c] = before
  BY <1>1 DEF ReportAt
<1>10. found(n) = {<<n, kind>> : kind \in errors_at(ledger[n], before, known)}
  OBVIOUS
<1>11. ReportAt(n, known) = [chains |-> ReportAt(n, known).chains, errors |-> ReportAt(n, known).errors]
  BY DEF ReportAt
<1> HIDE DEF before, found
<1> QED
  BY <1>7, <1>8, <1>9, <1>10, <1>11 DEF visit, c

\* The walk over the whole ledger comes to the report above.
LEMMA WalkedReport ==
  ASSUME Ids, NEW known
  PROVE  LET report == ReportAt(next_id - 1, known)
         IN verify_chain(DOMAIN ledger, known) =
              [chains |-> report.chains,
               errors |-> report.errors \cup
                 {<<c, "ANCHOR_MISSING">> : c \in {d \in DOMAIN known : report.chains[d].length < known[d].length}}]
<1> DEFINE N == next_id - 1
           walked[n \in 0..N] ==
             IF n = 0 THEN NewReport
             ELSE IF n \in DOMAIN ledger THEN visit(walked[n - 1], n, known) ELSE walked[n - 1]
           w == [n \in 0..N |-> ReportAt(n, known)]
<1>1. N \in Nat /\ DOMAIN ledger \subseteq 1..N
  BY DEF Ids
<1>2. w = [n \in 0..N |-> IF n = 0 THEN NewReport
             ELSE IF n \in DOMAIN ledger THEN visit(w[n - 1], n, known) ELSE w[n - 1]]
  <2>1. ASSUME NEW n \in 0..N
        PROVE  ReportAt(n, known) = IF n = 0 THEN NewReport
                 ELSE IF n \in DOMAIN ledger THEN visit(w[n - 1], n, known) ELSE w[n - 1]
    <3>1. CASE n = 0
      BY <3>1, FirstReport
    <3>2. CASE n # 0
      <4>1. n \in 1..N /\ n - 1 \in 0..N
        BY <1>1, <3>2
      <4>2. w[n - 1] = ReportAt(n - 1, known)
        BY <4>1
      <4> HIDE DEF w
      <4> QED
        BY <3>2, <4>1, <4>2, SameReport, NextReport
    <3> QED
      BY <3>1, <3>2
  <2> QED
    BY <2>1
<1>3. walked = [n \in 0..N |-> IF n = 0 THEN NewReport
             ELSE IF n \in DOMAIN ledger THEN visit(walked[n - 1], n, known) ELSE walked[n - 1]]
  <2> HIDE DEF w
  <2> QED
    BY <1>2 DEF walked
<1> HIDE DEF walked, w
<1>4. ASSUME NEW n \in 0..N
      PROVE  walked[n] = w[n]
  <2> DEFINE bad == {m \in 0..N : walked[m] # w[m]}
  <2>1. SUFFICES ASSUME bad # {} PROVE FALSE
    OBVIOUS
  <2>2. PICK m \in bad : \A j \in bad : m <= j
    <3>1. bad \in SUBSET Nat
      OBVIOUS
    <3> HIDE DEF bad
    <3> QED
      BY <2>1, <3>1, Least
  <2>3. m = 0 \/ (m - 1 \in 0..N /\ walked[m - 1] = w[m - 1])
    BY <1>1, <2>2
  <2>4. /\ walked[m] = IF m = 0 THEN NewReport
             ELSE IF m \in DOMAIN ledger THEN visit(walked[m - 1], m, known) ELSE walked[m - 1]
        /\ w[m] = IF m = 0 THEN NewReport
             ELSE IF m \in DOMAIN ledger THEN visit(w[m - 1], m, known) ELSE w[m - 1]
    BY <1>2, <1>3
  <2> QED
    BY <2>2, <2>3, <2>4
<1>5. walked[N] = ReportAt(N, known)
  BY <1>1, <1>4 DEF w
<1>6. verify_chain(DOMAIN ledger, known) =
        [chains |-> walked[N].chains,
         errors |-> walked[N].errors \cup
           {<<c, "ANCHOR_MISSING">> : c \in {d \in DOMAIN known : walked[N].chains[d].length < known[d].length}}]
  BY DEF verify_chain, walked
<1> QED
  BY <1>5, <1>6

-----------------------------------------------------------------------------
(* Rows follow one another                                                 *)

\* The earlier rows of a row's chain.
Below(rows, i) == {j \in ChainIds(rows, rows[i].chain) : j < i}

\* A row follows the rows below it as append_event writes it.
Follows(rows, i) ==
  /\ rows[i].previous = Newest(rows, Below(rows, i)).hash
  /\ rows[i].hash = compute_event_hash(rows[i])
  /\ rows[i].time >= Newest(rows, Below(rows, i)).time

\* Row i was damaged, or the rows just before it.
Excused(rows, d, i) ==
  \E x \in d :
    /\ x[2] = rows[i].chain /\ x[1] <= i
    /\ \A j \in ChainIds(rows, rows[i].chain) : j <= x[1] \/ i <= j

LedgerFollows(l, d) == \A i \in DOMAIN l : Follows(l, i) \/ Excused(l, d, i)

\* What a unit of work has written follows the ledger, and what it read as the
\* head is the head, or another has built on it already.
UnitFollows(l, t) ==
  /\ \A i \in DOMAIN t.rows :
       /\ Follows(Merge(l, t.rows), i)
       /\ \A j \in ChainIds(l, t.chain) : j < i
  /\ t.phase = "head" =>
       \/ t.head = ChainHead(Merge(l, t.rows), t.chain)
       \/ \E j \in ChainIds(Merge(l, t.rows), t.chain) : Merge(l, t.rows)[j].previous = t.head.hash

\* Of the units of work on one chain at most one has written.
OneWriter ==
  \A p, q \in Proc :
    p # q /\ txn[p] # Idle /\ txn[q] # Idle /\ txn[p].chain = txn[q].chain =>
      DOMAIN txn[p].rows = {} \/ DOMAIN txn[q].rows = {}

\* The inductive invariant of a ledger whose rows follow one another.
RowsFollow ==
  /\ LedgerFollows(ledger, damaged)
  /\ \A p \in Proc : txn[p] # Idle => UnitFollows(ledger, txn[p])
  /\ OneWriter

\* Rows that come later, and rows of other chains, do not matter to a row.
LEMMA SameFollows ==
  ASSUME NEW r, NEW s, NEW n \in Nat, DOMAIN r \subseteq 1..n, DOMAIN s \subseteq 1..n,
         NEW i \in DOMAIN r, i \in DOMAIN s, r[i] = s[i],
         \A j \in DOMAIN r : j < i /\ r[j].chain = r[i].chain => j \in DOMAIN s /\ s[j] = r[j],
         \A j \in DOMAIN s : j < i /\ s[j].chain = r[i].chain => j \in DOMAIN r /\ s[j] = r[j]
  PROVE  Follows(r, i) <=> Follows(s, i)
<1>1. Below(r, i) = Below(s, i) /\ Below(r, i) \in SUBSET (1..n)
  BY DEF Below, ChainIds
<1>2. \A j \in Below(r, i) : r[j] = s[j]
  BY DEF Below, ChainIds
<1>3. Newest(r, Below(r, i)) = Newest(s, Below(r, i))
  BY <1>1, <1>2, SameNewest
<1> QED
  BY <1>1, <1>3 DEF Follows

\* What is committed leaves the ledger as sound as it was.
LEMMA CommitFollows ==
  ASSUME NEW l, NEW d, NEW n \in Nat, DOMAIN l \subseteq 1..n, LedgerFollows(l, d),
         NEW t, DOMAIN t.rows \subseteq (1..n) \ DOMAIN l, UnitFollows(l, t),
         \A i \in DOMAIN t.rows : t.rows[i].chain = t.chain
  PROVE  LedgerFollows(Merge(l, t.rows), d)
<1> DEFINE m == Merge(l, t.rows)
<1>1. /\ DOMAIN m = DOMAIN l \cup DOMAIN t.rows
      /\ \A i \in DOMAIN t.rows : m[i] = t.rows[i]
      /\ \A i \in DOMAIN l : m[i] = l[i]
  BY DEF Merge
<1>2. \A i \in DOMAIN t.rows : Follows(m, i) /\ \A j \in ChainIds(l, t.chain) : j < i
  BY DEF UnitFollows
<1> HIDE DEF m
<1>3. ASSUME NEW i \in DOMAIN l
      PROVE  Follows(m, i) \/ Excused(m, d, i)
  <2>1. \A j \in DOMAIN m : m[j].chain = l[i].chain /\ ~(i <= j) => j \in DOMAIN l
    BY <1>1, <1>2 DEF ChainIds
  <2>2. CASE Follows(l, i)
    <3>1. DOMAIN m \subseteq 1..n
      BY <1>1
    <3>2. \A j \in DOMAIN m : j < i /\ m[j].chain = l[i].chain => j \in DOMAIN l /\ m[j] = l[j]
      BY <1>1, <2>1, <3>1
    <3> QED
      BY <1>1, <2>2, <3>1, <3>2, SameFollows
  <2>3. CASE Excused(l, d, i)
    <3>1. PICK x \in d : /\ x[2] = l[i].chain /\ x[1] <= i
                         /\ \A j \in ChainIds(l, l[i].chain) : j <= x[1] \/ i <= j
      BY <2>3 DEF Excused
    <3>2. \A j \in ChainIds(m, m[i].chain) : j <= x[1] \/ i <= j
      BY <1>1, <2>1, <3>1 DEF ChainIds
    <3> QED
      BY <1>1, <3>1, <3>2 DEF Excused
  <2> QED
    BY <2>2, <2>3 DEF LedgerFollows
<1> QED
  BY <1>1, <1>2, <1>3 DEF LedgerFollows, m

\* What a unit of work t commits to its chain makes the head that another (u)
\* read there an old one, and is nothing to the other chains.
LEMMA CommitUndisturbing ==
  ASSUME NEW l, NEW n \in Nat, DOMAIN l \subseteq 1..n,
         NEW t, DOMAIN t.rows \subseteq (1..n) \ DOMAIN l, UnitFollows(l, t),
         \A i \in DOMAIN t.rows : t.rows[i].chain = t.chain,
         NEW u, DOMAIN u.rows \subseteq (1..n) \ DOMAIN l, UnitFollows(l, u),
         \A i \in DOMAIN u.rows : u.rows[i].chain = u.chain,
         DOMAIN t.rows \cap DOMAIN u.rows = {},
         t.chain = u.chain => DOMAIN t.rows = {} \/ DOMAIN u.rows = {}
  PROVE  UnitFollows(Merge(l, t.rows), u)
<1> DEFINE m == Merge(l, t.rows)
           v == Merge(l, u.rows)
           w == Merge(m, u.rows)
           c == u.chain
<1>1. /\ DOMAIN m = DOMAIN l \cup DOMAIN t.rows
      /\ \A i \in DOMAIN t.rows : m[i] = t.rows[i]
      /\ \A i \in DOMAIN l : m[i] = l[i]
  BY DEF Merge
<1>2. /\ DOMAIN v = DOMAIN l \cup DOMAIN u.rows
      /\ \A i \in DOMAIN u.rows : v[i] = u.rows[i]
      /\ \A i \in DOMAIN l : v[i] = l[i]
  BY DEF Merge
<1>3. /\ DOMAIN w = DOMAIN l \cup DOMAIN t.rows \cup DOMAIN u.rows
      /\ \A i \in DOMAIN u.rows : w[i] = u.rows[i]
      /\ \A i \in DOMAIN t.rows : w[i] = t.rows[i]
      /\ \A i \in DOMAIN l : w[i] = l[i]
  <2> HIDE DEF m
  <2>1. /\ DOMAIN w = DOMAIN m \cup DOMAIN u.rows
        /\ \A i \in DOMAIN u.rows : w[i] = u.rows[i]
        /\ \A i \in DOMAIN m \ DOMAIN u.rows : w[i] = m[i]
    BY DEF Merge
  <2> HIDE DEF w
  <2>2. \A i \in DOMAIN m : i \notin DOMAIN u.rows
    BY <1>1
  <2> QED
    BY <1>1, <2>1, <2>2
<1>4. DOMAIN v \subseteq 1..n /\ DOMAIN w \subseteq 1..n /\ DOMAIN m \subseteq 1..n
  BY <1>1, <1>2, <1>3
<1>5. /\ \A i \in DOMAIN t.rows : Follows(m, i) /\ \A j \in ChainIds(l, t.chain) : j < i
      /\ \A i \in DOMAIN u.rows : Follows(v, i) /\ \A j \in ChainIds(l, c) : j < i
      /\ u.phase = "head" =>
           \/ u.head = ChainHead(v, c)
           \/ \E j \in ChainIds(v, c) : v[j].previous = u.head.hash
  BY DEF UnitFollows
<1> HIDE DEF m, v, w
<1>6. CASE \A i \in DOMAIN t.rows : t.rows[i].chain # c
  <2>1. /\ ChainIds(w, c) = ChainIds(v, c) /\ ChainIds(m, c) = ChainIds(l, c)
        /\ \A i \in ChainIds(v, c) : w[i] = v[i]
    BY <1>1, <1>2, <1>3, <1>6 DEF ChainIds
  <2>2. ASSUME NEW i \in DOMAIN u.rows PROVE Follows(w, i)
    <3>1. /\ i \in DOMAIN v /\ i \in DOMAIN w /\ v[i] = w[i] /\ v[i].chain = c
          /\ \A j \in DOMAIN v : v[j].chain = c => j \in DOMAIN w /\ w[j] = v[j]
          /\ \A j \in DOMAIN w : w[j].chain = c => j \in DOMAIN v /\ w[j] = v[j]
      BY <1>2, <1>3, <2>1 DEF ChainIds
    <3>2. Follows(v, i) <=> Follows(w, i)
      BY <1>4, <3>1, SameFollows
    <3> QED
      BY <1>5, <3>2
  <2>3. ChainHead(w, c) = ChainHead(v, c)
    BY <1>4, <2>1, HeadOf
  <2> QED
    BY <1>5, <2>1, <2>2, <2>3 DEF UnitFollows, m, w
<1>7. CASE \E i \in DOMAIN t.rows : t.rows[i].chain = c
  <2>1. c = t.chain /\ DOMAIN u.rows = {} /\ DOMAIN t.rows # {}
    BY <1>7
  <2>2. PICK first \in DOMAIN t.rows : \A j \in DOMAIN t.rows : first <= j
    <3>1. DOMAIN t.rows \in SUBSET Nat
      OBVIOUS
    <3> QED
      BY <2>1, <3>1, Least
  <2>3. first \in ChainIds(w, c) /\ w[first] = m[first] /\ first \in Nat
    BY <1>1, <1>3, <2>1, <2>2 DEF ChainIds
  <2>4. Below(m, first) = ChainIds(l, c)
    <3>1. \A j \in DOMAIN t.rows : j \in Nat /\ ~(j < first)
      BY <2>2
    <3>2. \A j \in ChainIds(l, c) : j < first
      BY <1>5, <2>1
    <3> QED
      BY <1>1, <2>1, <3>1, <3>2 DEF Below, ChainIds
  <2>5. ChainIds(v, c) = ChainIds(l, c) /\ ChainIds(l, c) \in SUBSET (1..n)
        /\ \A j \in ChainIds(l, c) : v[j] = l[j] /\ m[j] = l[j] /\ w[j] = l[j] /\ j \in ChainIds(w, c)
    BY <1>1, <1>2, <1>3, <2>1 DEF ChainIds
  <2>6. w[first].previous = ChainHead(v, c).hash
    <3> DEFINE ids == ChainIds(l, c)
    <3>1. ids \in SUBSET (1..n) /\ \A j \in ids : m[j] = v[j]
      BY <2>5
    <3> HIDE DEF ids
    <3>2. Newest(m, ids) = Newest(v, ids)
      BY <3>1, SameNewest
    <3>3. m[first].previous = Newest(m, ids).hash
      BY <1>5, <2>2, <2>4 DEF Follows, ids
    <3> QED
      BY <2>3, <2>5, <3>2, <3>3 DEF ChainHead, ids
  <2>7. u.phase = "head" => \E j \in ChainIds(w, c) : w[j].previous = u.head.hash
    BY <1>5, <2>3, <2>5, <2>6
  <2> QED
    BY <2>1, <2>7 DEF UnitFollows, m, w
<1> QED
  BY <1>6, <1>7

\* What inserting a row makes of the unit of work.
LEMMA Flushed ==
  ASSUME TypeOK, NEW p \in Proc, NEW content \in Content, NEW now \in Time, Flush(p, content, now)
  PROVE  /\ txn[p] # Idle /\ txn[p].phase = "head" /\ next_id \in Nat \ {0}
         /\ txn'[p] # Idle /\ txn'[p].phase = "written" /\ txn'[p].chain = txn[p].chain
         /\ DOMAIN txn'[p].rows = DOMAIN txn[p].rows \cup {next_id}
         /\ DOMAIN txn[p].rows \subseteq 1..(next_id - 1)
         /\ \A i \in DOMAIN txn[p].rows : txn'[p].rows[i] = txn[p].rows[i]
         /\ txn'[p].rows[next_id] = NewEvent(txn[p], content, now)
         /\ \A q \in Proc : q # p => txn'[q] = txn[q]
         /\ UNCHANGED <<backend, ledger, damaged>>
<1> DEFINE e == NewEvent(txn[p], content, now)
           row == [i \in {next_id} |-> e]
           t == [phase |-> "written", chain |-> txn[p].chain, rows |-> Merge(txn[p].rows, row)]
<1>1. Step(p, t) /\ txn[p].phase = "head" /\ UNCHANGED <<backend, ledger, damaged>>
  BY DEF Flush
<1>2. txn'[p] = t /\ \A q \in Proc : q # p => txn'[q] = txn[q]
  BY <1>1, Stepped
<1>3. txn[p] # Idle /\ next_id \in Nat \ {0}
  BY <1>1 DEF Idle, TypeOK
<1>4. DOMAIN txn[p].rows \subseteq 1..(next_id - 1)
  BY <1>3 DEF TypeOK
<1>5. next_id \notin DOMAIN txn[p].rows
  BY <1>3, <1>4
<1> HIDE DEF e
<1>6. DOMAIN row = {next_id} /\ row[next_id] = e
  OBVIOUS
<1> HIDE DEF row
<1>7. /\ DOMAIN Merge(txn[p].rows, row) = DOMAIN txn[p].rows \cup {next_id}
      /\ Merge(txn[p].rows, row)[next_id] = e
      /\ \A i \in DOMAIN txn[p].rows : Merge(txn[p].rows, row)[i] = txn[p].rows[i]
  BY <1>5, <1>6 DEF Merge
<1>8. t.phase = "written" /\ t.chain = txn[p].chain /\ t.rows = Merge(txn[p].rows, row) /\ t # Idle
  BY DEF Idle
<1> HIDE DEF t
<1> QED
  BY <1>1, <1>2, <1>3, <1>4, <1>7, <1>8 DEF e

\* An inserted row follows the one before it: what the unit of work read as
\* the head is still the head, or the link would be taken.
LEMMA FlushFollows ==
  ASSUME Linked, RowsFollow, NEW p \in Proc, NEW content \in Content, NEW now \in Time,
         Flush(p, content, now)
  PROVE  RowsFollow'
<1> DEFINE c == txn[p].chain
           N == next_id
           rows == txn[p].rows
           more == txn'[p].rows
           head == txn[p].head
           e == NewEvent(txn[p], content, now)
           v == Merge(ledger, rows)
           w == Merge(ledger, more)
<1>1. TypeOK /\ ~Waits(p) /\ ~LinkTaken(p)
  BY DEF Linked, Flush
<1>2. /\ txn[p] # Idle /\ txn[p].phase = "head" /\ N \in Nat \ {0}
      /\ txn'[p] # Idle /\ txn'[p].phase = "written" /\ txn'[p].chain = c
      /\ DOMAIN more = DOMAIN rows \cup {N} /\ DOMAIN rows \subseteq 1..(N - 1)
      /\ \A i \in DOMAIN rows : more[i] = rows[i]
      /\ more[N] = e
      /\ \A q \in Proc : q # p => txn'[q] = txn[q]
      /\ UNCHANGED <<backend, ledger, damaged>>
  BY <1>1, Flushed
<1>3. /\ DOMAIN ledger \subseteq 1..(N - 1) /\ DOMAIN rows \cap DOMAIN ledger = {}
      /\ head.time \in Time /\ \A i \in DOMAIN rows : rows[i].chain = c
  BY <1>1, <1>2 DEF TypeOK
<1>4. /\ DOMAIN v = DOMAIN ledger \cup DOMAIN rows
      /\ \A i \in DOMAIN rows : v[i] = rows[i]
      /\ \A i \in DOMAIN ledger : v[i] = ledger[i]
  BY <1>3 DEF Merge
<1> HIDE DEF rows, more, e
<1>5. /\ DOMAIN w = DOMAIN v \cup {N}
      /\ \A i \in DOMAIN v : w[i] = v[i]
      /\ w[N] = e
  <2>1. /\ DOMAIN w = DOMAIN ledger \cup DOMAIN more
        /\ \A i \in DOMAIN more : w[i] = more[i]
        /\ \A i \in DOMAIN ledger \ DOMAIN more : w[i] = ledger[i]
    BY DEF Merge
  <2>2. \A i \in DOMAIN ledger : i \notin DOMAIN more
    <3>1. N \notin DOMAIN ledger
      BY <1>2, <1>3
    <3> QED
      BY <1>2, <1>3, <3>1
  <2> HIDE DEF v, w
  <2> QED
    BY <1>2, <1>4, <2>1, <2>2
<1>6. DOMAIN v \subseteq 1..(N - 1) /\ DOMAIN w \subseteq 1..N
  BY <1>2, <1>3, <1>4, <1>5
<1>7. /\ \A i \in DOMAIN rows : Follows(v, i) /\ \A j \in ChainIds(ledger, c) : j < i
      /\ head = ChainHead(v, c) \/ \E j \in ChainIds(v, c) : v[j].previous = head.hash
  BY <1>2 DEF RowsFollow, UnitFollows, rows
<1>8. head = ChainHead(v, c)
  BY <1>1, <1>7 DEF LinkTaken, Visible, rows
<1>9. e.chain = c /\ e.previous = head.hash /\ e.hash = compute_event_hash(e) /\ e.time = created_at(head, now)
  BY DEF NewEvent, compute_event_hash, e
<1> HIDE DEF v, w, c, head
<1>10. Follows(w, N)
  <2> DEFINE ids == ChainIds(v, c)
  <2>1. Below(w, N) = ids
    BY <1>2, <1>5, <1>6, <1>9 DEF Below, ChainIds
  <2>2. ids \in SUBSET (1..N) /\ \A j \in ids : w[j] = v[j]
    BY <1>2, <1>5, <1>6 DEF ChainIds
  <2> HIDE DEF ids
  <2>3. Newest(w, ids) = head
    BY <1>2, <1>8, <2>2, SameNewest DEF ChainHead, ids
  <2>4. e.time >= head.time
    BY <1>3, <1>9 DEF created_at, Time
  <2> QED
    BY <1>5, <1>9, <2>1, <2>3, <2>4 DEF Follows
<1>11. ASSUME NEW i \in DOMAIN rows PROVE Follows(w, i)
  <2>1. /\ i \in DOMAIN v /\ i \in DOMAIN w /\ v[i] = w[i] /\ i \in 1..(N - 1)
        /\ \A j \in DOMAIN v : j \in DOMAIN w /\ w[j] = v[j]
    BY <1>2, <1>4, <1>5
  <2>2. \A j \in DOMAIN w : j < i => j \in DOMAIN v
    BY <1>2, <1>5, <2>1
  <2>3. DOMAIN v \subseteq 1..N
    BY <1>5, <1>6
  <2>4. Follows(v, i) <=> Follows(w, i)
    BY <1>2, <1>6, <2>1, <2>2, <2>3, SameFollows
  <2> QED
    BY <1>7, <2>4
<1>12. UnitFollows(ledger, txn'[p])
  <2>1. \A j \in ChainIds(ledger, c) : j < N
    BY <1>2, <1>3 DEF ChainIds
  <2>2. \A i \in DOMAIN more : Follows(w, i) /\ \A j \in ChainIds(ledger, c) : j < i
    BY <1>2, <1>7, <1>10, <1>11, <2>1
  <2> QED
    BY <1>2, <2>2 DEF UnitFollows, w, more, c
<1>13. \A q \in Proc : txn'[q] # Idle => UnitFollows(ledger, txn'[q])
  BY <1>2, <1>12 DEF RowsFollow
<1>14. \A q \in Proc \ {p} : txn[q] # Idle /\ txn[q].chain = c => DOMAIN txn[q].rows = {}
  <2> SUFFICES ASSUME NEW q \in Proc \ {p}, txn[q] # Idle, txn[q].chain = c, DOMAIN txn[q].rows # {}
               PROVE  FALSE
    OBVIOUS
  <2>1. backend = "sqlite"
    BY <1>1, <1>2 DEF Linked, TypeOK, c
  <2> QED
    BY <1>1, <2>1 DEF Waits
<1>15. OneWriter'
  <2>1. ASSUME NEW q \in Proc, NEW r \in Proc, q # r, txn'[q] # Idle, txn'[r] # Idle,
               txn'[q].chain = txn'[r].chain
        PROVE  DOMAIN txn'[q].rows = {} \/ DOMAIN txn'[r].rows = {}
    <3>1. CASE q = p
      BY <1>2, <1>14, <2>1, <3>1
    <3>2. CASE r = p
      BY <1>2, <1>14, <2>1, <3>2
    <3>3. CASE q # p /\ r # p
      BY <1>2, <2>1, <3>3 DEF RowsFollow, OneWriter
    <3> QED
      BY <3>1, <3>2, <3>3
  <2> QED
    BY <2>1 DEF OneWriter
<1> QED
  BY <1>2, <1>13, <1>15 DEF RowsFollow

\* Committing one unit of work, by the two lemmas above.
LEMMA CommitFollowsStep ==
  ASSUME Linked, RowsFollow, NEW p \in Proc, Commit(p)
  PROVE  RowsFollow'
<1> DEFINE N == next_id - 1
           t == txn[p]
<1>1. TypeOK /\ t # Idle /\ N \in Nat
  BY DEF Linked, Commit, Idle, TypeOK
<1>2. /\ txn'[p] = Idle /\ ledger' = Merge(ledger, t.rows) /\ damaged' = damaged
      /\ \A q \in Proc : q # p => txn'[q] = txn[q]
  BY <1>1, Stepped DEF Commit
<1>3. \A q \in Proc : txn[q] # Idle =>
        /\ DOMAIN txn[q].rows \subseteq (1..N) \ DOMAIN ledger
        /\ \A i \in DOMAIN txn[q].rows : txn[q].rows[i].chain = txn[q].chain
        /\ UnitFollows(ledger, txn[q])
  BY <1>1 DEF TypeOK, RowsFollow
<1>4. DOMAIN ledger \subseteq 1..N /\ LedgerFollows(ledger, damaged)
  BY <1>1 DEF TypeOK, RowsFollow
<1> HIDE DEF N
<1>5. LedgerFollows(ledger', damaged)
  BY <1>1, <1>2, <1>3, <1>4, CommitFollows
<1>6. ASSUME NEW q \in Proc, txn'[q] # Idle PROVE UnitFollows(ledger', txn'[q])
  <2> DEFINE u == txn[q]
  <2>1. q # p /\ txn'[q] = u /\ u # Idle
    BY <1>2, <1>6
  <2>2. DOMAIN t.rows \cap DOMAIN u.rows = {}
    BY <1>1, <2>1 DEF TypeOK
  <2>3. t.chain = u.chain => DOMAIN t.rows = {} \/ DOMAIN u.rows = {}
    BY <1>1, <2>1 DEF RowsFollow, OneWriter
  <2>4. /\ DOMAIN t.rows \subseteq (1..N) \ DOMAIN ledger /\ UnitFollows(ledger, t)
        /\ \A i \in DOMAIN t.rows : t.rows[i].chain = t.chain
        /\ DOMAIN u.rows \subseteq (1..N) \ DOMAIN ledger /\ UnitFollows(ledger, u)
        /\ \A i \in DOMAIN u.rows : u.rows[i].chain = u.chain
    BY <1>1, <1>3, <2>1
  <2> HIDE DEF t, u
  <2>5. UnitFollows(Merge(ledger, t.rows), u)
    BY <1>1, <1>4, <2>2, <2>3, <2>4, CommitUndisturbing
  <2> QED
    BY <1>2, <2>1, <2>5
<1>7. OneWriter'
  BY <1>2 DEF RowsFollow, OneWriter
<1> QED
  BY <1>2, <1>5, <1>6, <1>7 DEF RowsFollow

\* A step of a unit of work that leaves the rows alone.
LEMMA RowsKept ==
  ASSUME Linked, RowsFollow, NEW p \in Proc, NEW t, Step(p, t), UNCHANGED <<ledger, damaged>>,
         t # Idle => /\ txn[p] # Idle => t.chain = txn[p].chain /\ t.rows = txn[p].rows
                     /\ txn[p] = Idle => DOMAIN t.rows = {}
                     /\ t.phase = "head" => t.head = ChainHead(Merge(ledger, t.rows), t.chain)
  PROVE  RowsFollow'
<1>1. txn'[p] = t /\ \A q \in Proc : q # p => txn'[q] = txn[q]
  BY Stepped DEF Linked
<1>2. t # Idle => UnitFollows(ledger, t)
  BY DEF RowsFollow, UnitFollows
<1>3. \A q \in Proc : txn'[q] # Idle => UnitFollows(ledger, txn'[q])
  BY <1>1, <1>2 DEF RowsFollow
<1>4. OneWriter'
  BY <1>1 DEF RowsFollow, OneWriter
<1> QED
  BY <1>3, <1>4 DEF RowsFollow

\* What is done to the ledger outside the program is done to rows that excuse
\* what then no longer follows.
LEMMA DamageFollows ==
  ASSUME Linked, RowsFollow, NEW ids \in SUBSET DOMAIN ledger, Damages(ids),
         DOMAIN ledger' \subseteq DOMAIN ledger, DOMAIN ledger \ DOMAIN ledger' \subseteq ids,
         \A i \in DOMAIN ledger' :
           ledger'[i].chain = ledger[i].chain /\ ledger'[i].hash = ledger[i].hash
           /\ (i \notin ids => ledger'[i] = ledger[i])
  PROVE  RowsFollow'
<1>1. TypeOK /\ next_id - 1 \in Nat /\ DOMAIN ledger \subseteq 1..(next_id - 1)
  BY DEF Linked, TypeOK
<1>2. \A p \in Proc : txn'[p] = Idle
  BY DEF Damages, Quiet
<1>3. damaged' = damaged \cup {<<i, ledger[i].chain>> : i \in ids}
  BY DEF Damages
<1>4. ASSUME NEW i \in DOMAIN ledger' PROVE Follows(ledger', i) \/ Excused(ledger', damaged', i)
  <2> DEFINE c == ledger[i].chain
             was == Below(ledger, i)
  <2>1. i \in DOMAIN ledger /\ i \in Nat /\ ledger'[i].chain = c
    BY <1>1, <1>4
  <2>2. \A j \in ChainIds(ledger', c) : j \in ChainIds(ledger, c) /\ j \in Nat
    BY <1>1 DEF ChainIds
  <2>3. \A k \in ids : ledger[k].chain = c =>
          <<k, c>> \in damaged' /\ <<k, c>>[1] = k /\ <<k, c>>[2] = c
    BY <1>3
  <2>4. CASE i \in ids
    <3>1. \A j \in ChainIds(ledger', c) : j <= i \/ i <= j
      BY <2>1, <2>2
    <3>2. <<i, c>> \in damaged' /\ <<i, c>>[1] <= i /\ <<i, c>>[2] = c
      BY <2>1, <2>3, <2>4
    <3> HIDE DEF c
    <3> QED
      BY <2>1, <3>1, <3>2 DEF Excused
  <2>5. CASE i \notin ids /\ Excused(ledger, damaged, i)
    <3>1. PICK x \in damaged : /\ x[2] = c /\ x[1] <= i
                               /\ \A j \in ChainIds(ledger, c) : j <= x[1] \/ i <= j
      BY <2>5 DEF Excused
    <3> QED
      BY <1>3, <2>1, <2>2, <3>1 DEF Excused
  <2>6. CASE i \notin ids /\ Follows(ledger, i) /\ was = {}
    <3>1. Below(ledger', i) = {}
      BY <2>1, <2>2, <2>6 DEF Below
    <3> QED
      BY <1>4, <2>6, <3>1 DEF Follows, Newest
  <2>7. CASE i \notin ids /\ Follows(ledger, i) /\ was # {}
    <3>1. was \in SUBSET (1..(next_id - 1))
      BY <1>1 DEF Below, ChainIds
    <3> HIDE DEF was
    <3>2. PICK m \in was : \A j \in was : j <= m
      BY <1>1, <2>7, <3>1, Greatest
    <3>3. m \in DOMAIN ledger /\ ledger[m].chain = c /\ m < i /\ m \in Nat
      BY <3>1, <3>2 DEF was, Below, ChainIds
    <3>4. \A j \in ChainIds(ledger', c) : j <= m \/ i <= j
      BY <2>1, <2>2, <3>2, <3>3 DEF was, Below
    <3>5. CASE m \in ids
      <4>1. m <= i
        BY <2>1, <3>3
      <4> QED
        BY <2>1, <2>3, <3>3, <3>4, <3>5, <4>1 DEF Excused
    <3>6. CASE m \notin ids
      <4>1. m \in DOMAIN ledger' /\ ledger'[m] = ledger[m] /\ ledger'[i] = ledger[i]
        BY <2>7, <3>3, <3>6
      <4>2. /\ Below(ledger', i) \in SUBSET (1..(next_id - 1)) /\ m \in Below(ledger', i)
            /\ \A j \in Below(ledger', i) : j <= m
        <5>1. Below(ledger', i) = {j \in ChainIds(ledger', c) : j < i}
          BY <2>1 DEF Below
        <5>2. \A j \in Below(ledger', i) : j \in was
          BY <2>2, <5>1 DEF was, Below
        <5>3. m \in Below(ledger', i)
          BY <3>3, <4>1, <5>1 DEF ChainIds
        <5> QED
          BY <3>1, <3>2, <5>2, <5>3
      <4>3. Newest(ledger', Below(ledger', i)) = [hash |-> ledger'[m].hash, time |-> ledger'[m].time]
        BY <1>1, <4>2, NewestOf
      <4>4. Newest(ledger, was) = [hash |-> ledger[m].hash, time |-> ledger[m].time]
        BY <1>1, <3>1, <3>2, NewestOf
      <4> QED
        BY <2>7, <4>1, <4>3, <4>4 DEF Follows, was
    <3> QED
      BY <3>5, <3>6
  <2> QED
    BY <2>1, <2>4, <2>5, <2>6, <2>7 DEF RowsFollow, LedgerFollows
<1> QED
  BY <1>2, <1>4 DEF RowsFollow, LedgerFollows, OneWriter

LEMMA DamageFollowsStep ==
  ASSUME Linked, RowsFollow, Damage
  PROVE  RowsFollow'
<1>1. PICK i \in DOMAIN ledger :
        \/ \E content \in Content, now \in Time : Alter(i, content, now)
        \/ Lose(i)
        \/ Restore(i)
  BY DEF Damage
<1>2. ledger = [j \in DOMAIN ledger |-> ledger[j]] /\ DOMAIN ledger \subseteq Nat
  BY DEF Linked, TypeOK
<1>3. ASSUME NEW content \in Content, NEW now \in Time, Alter(i, content, now)
      PROVE  RowsFollow'
  <2>1. Damages({i}) /\ ledger' = [ledger EXCEPT ![i] = Altered(ledger[i], content, now)]
    BY <1>3 DEF Alter
  <2>2. /\ DOMAIN ledger' = DOMAIN ledger
        /\ ledger'[i] = Altered(ledger[i], content, now)
        /\ \A j \in DOMAIN ledger : j # i => ledger'[j] = ledger[j]
    BY <1>2, <2>1
  <2>3. Altered(ledger[i], content, now).chain = ledger[i].chain
        /\ Altered(ledger[i], content, now).hash = ledger[i].hash
    BY DEF Altered
  <2> QED
    BY <2>1, <2>2, <2>3, DamageFollows
<1>4. CASE Lose(i)
  <2>1. Damages({i}) /\ ledger' = [j \in DOMAIN ledger \ {i} |-> ledger[j]]
    BY <1>4 DEF Lose
  <2> QED
    BY <2>1, DamageFollows
<1>5. CASE Restore(i)
  <2> DEFINE kept == {j \in DOMAIN ledger : j < i}
             lost == {j \in DOMAIN ledger : j >= i}
  <2>1. Damages(lost) /\ ledger' = [j \in kept |-> ledger[j]]
    BY <1>5 DEF Restore
  <2>2. kept \subseteq DOMAIN ledger /\ lost \in SUBSET DOMAIN ledger /\ DOMAIN ledger \ kept \subseteq lost
    BY <1>2
  <2> HIDE DEF kept, lost
  <2> QED
    BY <2>1, <2>2, DamageFollows
<1> QED
  BY <1>1, <1>3, <1>4, <1>5

LEMMA AppendsFollow ==
  ASSUME Linked, RowsFollow, NEW p \in Proc, Appends(p)
  PROVE  RowsFollow'
<1>1. ASSUME NEW c \in Profile, AppendFirst(p, c) PROVE RowsFollow'
  <2> DEFINE t == [phase |-> "append", chain |-> c, rows |-> <<>>]
  <2>1. Step(p, t) /\ txn[p] = Idle /\ UNCHANGED <<ledger, damaged>>
    BY <1>1 DEF AppendFirst
  <2>2. t.phase = "append" /\ DOMAIN t.rows = {}
    OBVIOUS
  <2> HIDE DEF t
  <2> QED
    BY <2>1, <2>2, RowsKept
<1>2. CASE AppendNext(p)
  <2> DEFINE t == [phase |-> "append", chain |-> txn[p].chain, rows |-> txn[p].rows]
  <2>1. Step(p, t) /\ txn[p] # Idle /\ UNCHANGED <<ledger, damaged>>
    BY <1>2 DEF AppendNext, Idle
  <2>2. t.phase = "append" /\ t.chain = txn[p].chain /\ t.rows = txn[p].rows
    OBVIOUS
  <2> HIDE DEF t
  <2> QED
    BY <2>1, <2>2, RowsKept
<1>3. CASE ReadHead(p)
  <2> DEFINE t == [phase |-> "head", chain |-> txn[p].chain, rows |-> txn[p].rows,
                   head |-> ChainHead(Visible(p), txn[p].chain)]
  <2>1. Step(p, t) /\ txn[p] # Idle /\ UNCHANGED <<ledger, damaged>>
    BY <1>3 DEF ReadHead, Idle
  <2>2. t.chain = txn[p].chain /\ t.rows = txn[p].rows /\ t.head = ChainHead(Merge(ledger, t.rows), t.chain)
    BY DEF Visible
  <2> HIDE DEF t
  <2> QED
    BY <2>1, <2>2, RowsKept
<1>4. CASE Conflict(p) \/ Abort(p)
  <2>1. Step(p, Idle) /\ UNCHANGED <<ledger, damaged>>
    BY <1>4 DEF Conflict, Abort
  <2> QED
    BY <2>1, RowsKept
<1> QED
  BY <1>1, <1>2, <1>3, <1>4, FlushFollows, CommitFollowsStep DEF Appends

LEMMA FollowStart == Init => RowsFollow
<1> SUFFICES ASSUME Init PROVE RowsFollow
  OBVIOUS
<1>1. DOMAIN ledger = {} /\ \A p \in Proc : txn[p] = Idle
  BY DEF Init
<1> QED
  BY <1>1 DEF RowsFollow, LedgerFollows, OneWriter

LEMMA FollowStep == Linked /\ RowsFollow /\ [Next]_vars => RowsFollow'
<1> SUFFICES ASSUME Linked, RowsFollow, [Next]_vars PROVE RowsFollow'
  OBVIOUS
<1>1. CASE EmitAnchors \/ UNCHANGED vars
  <2>1. UNCHANGED <<ledger, txn, damaged>>
    BY <1>1 DEF EmitAnchors, vars, chains
  <2> QED
    BY <2>1 DEF RowsFollow, OneWriter
<1> QED
  BY <1>1, AppendsFollow, DamageFollowsStep DEF Next

\* Every row follows the one before it in its chain, or was damaged, or the row
\* before it was: whoever appends, whatever is damaged.
THEOREM RowsFollowHolds == Spec => []RowsFollow
<1> QED
  BY FollowStart, FollowStep, LinkedHolds, PTL DEF Spec

-----------------------------------------------------------------------------
(* Errors are local                                                        *)

LEMMA TypedIds == TypeOK => Ids
  BY DEF TypeOK, Ids, IsEvent

\* What a verifier of the whole ledger reports.
LEMMA Reported ==
  ASSUME TypeOK, NEW known
  PROVE  LET report == ReportAt(next_id - 1, known) IN
         /\ Report(known).errors =
              report.errors \cup
                {<<c, "ANCHOR_MISSING">> : c \in {d \in DOMAIN known : report.chains[d].length < known[d].length}}
         /\ Report(known).chains = report.chains
         /\ report.errors = UNION {{<<i, kind>> : kind \in errors_at(ledger[i], SummaryAt(ledger[i].chain, i - 1), known)}
                                     : i \in DOMAIN ledger}
         /\ \A c \in Profile : report.chains[c] = SummaryAt(c, next_id - 1)
<1> DEFINE report == ReportAt(next_id - 1, known)
           found(i) == {<<i, kind>> : kind \in errors_at(ledger[i], SummaryAt(ledger[i].chain, i - 1), known)}
<1>1. Ids
  BY TypedIds
<1>2. iter_events(Profile) = DOMAIN ledger
  BY <1>1 DEF Ids, iter_events
<1>3. Report(known) = [chains |-> report.chains, errors |-> report.errors \cup
        {<<c, "ANCHOR_MISSING">> : c \in {d \in DOMAIN known : report.chains[d].length < known[d].length}}]
  BY <1>1, <1>2, WalkedReport DEF Report
<1>4. {j \in DOMAIN ledger : j <= next_id - 1} = DOMAIN ledger
  <2>1. \A j \in DOMAIN ledger : j <= next_id - 1
    BY <1>1 DEF Ids
  <2> QED
    BY <2>1
<1>5. report.errors = UNION {found(i) : i \in {j \in DOMAIN ledger : j <= next_id - 1}}
  BY DEF ReportAt
<1>6. report.errors = UNION {found(i) : i \in DOMAIN ledger}
  BY <1>4, <1>5
<1>7. \A c \in Profile : report.chains[c] = SummaryAt(c, next_id - 1)
  BY DEF ReportAt
<1> HIDE DEF report
<1> QED
  BY <1>3, <1>6, <1>7 DEF report

\* At a row that follows the one before it there is no error but of an anchor.
LEMMA SoundRow ==
  ASSUME TypeOK, NEW i \in DOMAIN ledger, NEW known, NEW kind \in ChainErrorKind \ {"ANCHOR_MISMATCH"}
  PROVE  Follows(ledger, i) => kind \notin errors_at(ledger[i], SummaryAt(ledger[i].chain, i - 1), known)
<1> DEFINE e == ledger[i]
           below == Below(ledger, i)
           newest == Newest(ledger, below)
           s == SummaryAt(e.chain, i - 1)
<1>1. i \in Nat /\ next_id - 1 \in Nat /\ DOMAIN ledger \subseteq 1..(next_id - 1) /\ e.time \in Nat
  BY DEF TypeOK, IsEvent, Time
<1>2. Upto(ledger, e.chain, i - 1) = below /\ below \in SUBSET (1..(next_id - 1)) /\ below \subseteq DOMAIN ledger
  BY <1>1 DEF Upto, Below, ChainIds
<1>3. s.head = newest.hash /\ s.time = newest.time /\ s.length = Cardinality(below)
  BY <1>2 DEF SummaryAt
<1>4. newest.time \in Nat
  <2>1. \A j \in DOMAIN ledger : ledger[j].time \in Nat
    BY DEF TypeOK, IsEvent, Time
  <2> HIDE DEF below
  <2>2. CASE below = {}
    BY <2>2 DEF Newest
  <2>3. CASE below # {}
    <3>1. PICK m \in below : \A j \in below : j <= m
      BY <1>1, <1>2, <2>3, Greatest
    <3>2. newest = [hash |-> ledger[m].hash, time |-> ledger[m].time]
      BY <1>1, <1>2, <3>1, NewestOf
    <3> QED
      BY <1>2, <2>1, <3>1, <3>2
  <2> QED
    BY <2>2, <2>3
<1> HIDE DEF s, newest
<1> SUFFICES ASSUME Follows(ledger, i), kind \in errors_at(e, s, known)
             PROVE  FALSE
  BY DEF s
<1>5. e.previous = s.head /\ e.hash = compute_event_hash(e) /\ e.time >= s.time
  BY <1>3 DEF Follows, newest
<1>6. s.time \in Nat
  BY <1>3, <1>4
<1> HIDE DEF e
<1>7. CASE kind = "BAD_GENESIS" \/ kind = "BROKEN_LINK"
  BY <1>5, <1>7 DEF errors_at
<1>8. CASE kind = "HASH_MISMATCH"
  BY <1>5, <1>8 DEF errors_at
<1>9. CASE kind = "TIMESTAMP_REGRESSION"
  <2>1. e.time < s.time
    BY <1>9 DEF errors_at
  <2> QED
    BY <1>1, <1>5, <1>6, <2>1
<1>10. CASE kind = "ANCHOR_MISSING"
  BY <1>10 DEF errors_at
<1> QED
  BY <1>7, <1>8, <1>9, <1>10 DEF ChainErrorKind

\* Without anchors there is no error of an anchor.
LEMMA Unanchored ==
  ASSUME NEW e, NEW s
  PROVE  errors_at(e, s, <<>>) \subseteq ChainErrorKind \ {"ANCHOR_MISMATCH"}
<1>1. DOMAIN <<>> = {}
  OBVIOUS
<1>2. ~AnchorMismatch(e, s.length + 1, <<>>)
  BY <1>1 DEF AnchorMismatch
<1> QED
  BY <1>2 DEF errors_at, ChainErrorKind

\* verify_chain goes on from what a damaged row says of itself (audit.py), so
\* that without anchors it reports only at damaged rows and right after them,
\* for any damages and any appends between them.
THEOREM ErrorsStayLocalHolds == Spec => []ErrorsStayLocal
<1>1. ASSUME TypeOK, RowsFollow PROVE ErrorsStayLocal
  <2>1. SUFFICES ASSUME NEW err \in Report(<<>>).errors
                 PROVE  Excused(ledger, damaged, err[1])
    BY DEF ErrorsStayLocal, Excused
  <2>2. DOMAIN <<>> = {}
    OBVIOUS
  <2>3. PICK i \in DOMAIN ledger :
          err \in {<<i, kind>> : kind \in errors_at(ledger[i], SummaryAt(ledger[i].chain, i - 1), <<>>)}
    BY <1>1, <2>1, <2>2, Reported
  <2>4. PICK kind \in errors_at(ledger[i], SummaryAt(ledger[i].chain, i - 1), <<>>) : err = <<i, kind>>
    BY <2>3
  <2>5. kind \in ChainErrorKind \ {"ANCHOR_MISMATCH"}
    BY Unanchored
  <2>6. ~Follows(ledger, i)
    BY <1>1, <2>4, <2>5, SoundRow
  <2> QED
    BY <1>1, <2>4, <2>6 DEF RowsFollow, LedgerFollows
<1>2. Linked => TypeOK
  BY DEF Linked
<1> QED
  BY <1>1, <1>2, LinkedHolds, RowsFollowHolds, PTL

-----------------------------------------------------------------------------
(* No false alarms                                                         *)

\* An anchor of an undamaged ledger is an event of its chain and how many
\* there were up to it.
AnchorsFit ==
  \A c \in DOMAIN anchors :
    /\ anchors[c].length \in Nat \ {0}
    /\ damaged = {} =>
         \E i \in ChainIds(ledger, c) :
           anchors[c].length = Cardinality(Upto(ledger, c, i)) /\ anchors[c].head = ledger[i].hash

\* The number of events of a chain up to one of them tells which it is.
LEMMA UptoCounts ==
  ASSUME TypeOK, NEW c, NEW n \in Nat
  PROVE  /\ Cardinality(Upto(ledger, c, n)) \in Nat
         /\ Cardinality(Upto(ledger, c, n)) > 0 <=> Upto(ledger, c, n) # {}
         /\ \A m \in Nat : m <= n => Cardinality(Upto(ledger, c, m)) <= Cardinality(Upto(ledger, c, n))
         /\ \A i \in ChainIds(ledger, c) : \A j \in ChainIds(ledger, c) :
              Cardinality(Upto(ledger, c, i)) = Cardinality(Upto(ledger, c, j)) => i = j
<1>1. DOMAIN ledger \subseteq Nat /\ DOMAIN ledger \subseteq 1..(next_id - 1) /\ next_id - 1 \in Nat
  BY DEF TypeOK
<1>2. ASSUME NEW m PROVE IsFiniteSet(Upto(ledger, c, m))
  <2>1. IsFiniteSet(1..(next_id - 1))
    BY <1>1, FS_Interval
  <2>2. Upto(ledger, c, m) \subseteq 1..(next_id - 1)
    BY <1>1 DEF Upto, ChainIds
  <2> QED
    BY <2>1, <2>2, FS_Subset
<1>3. ASSUME NEW m \in Nat, NEW k \in Nat, m <= k
      PROVE  Upto(ledger, c, m) \subseteq Upto(ledger, c, k) /\ Cardinality(Upto(ledger, c, m)) <= Cardinality(Upto(ledger, c, k))
             /\ (Cardinality(Upto(ledger, c, m)) = Cardinality(Upto(ledger, c, k)) => Upto(ledger, c, m) = Upto(ledger, c, k))
  <2>1. Upto(ledger, c, m) \subseteq Upto(ledger, c, k)
    BY <1>1, <1>3 DEF Upto, ChainIds
  <2> QED
    BY <1>2, <2>1, FS_Subset
<1>4. ASSUME NEW i \in ChainIds(ledger, c), NEW j \in ChainIds(ledger, c), i <= j,
             Cardinality(Upto(ledger, c, i)) = Cardinality(Upto(ledger, c, j))
      PROVE  i = j
  <2>1. i \in Nat /\ j \in Nat
    BY <1>1 DEF ChainIds
  <2>2. Upto(ledger, c, i) = Upto(ledger, c, j)
    BY <1>3, <1>4, <2>1
  <2>3. j \in Upto(ledger, c, j)
    BY <2>1 DEF Upto
  <2>4. j <= i
    BY <2>2, <2>3 DEF Upto
  <2> QED
    BY <1>4, <2>1, <2>4
<1>5. \A i \in ChainIds(ledger, c) : i \in Nat
  BY <1>1 DEF ChainIds
<1>6. ASSUME NEW i \in ChainIds(ledger, c), NEW j \in ChainIds(ledger, c),
             Cardinality(Upto(ledger, c, i)) = Cardinality(Upto(ledger, c, j))
      PROVE  i = j
  <2>1. i <= j \/ j <= i
    BY <1>5
  <2> QED
    BY <1>4, <1>6, <2>1
<1>7. Cardinality(Upto(ledger, c, n)) \in Nat /\ (Cardinality(Upto(ledger, c, n)) = 0 <=> Upto(ledger, c, n) = {})
  BY <1>2, FS_CardinalityType, FS_EmptySet
<1> QED
  BY <1>3, <1>6, <1>7

\* The number of events before a row, and one, is that of the events up to it.
LEMMA UptoRow ==
  ASSUME TypeOK, NEW i \in DOMAIN ledger
  PROVE  SummaryAt(ledger[i].chain, i - 1).length + 1 = Cardinality(Upto(ledger, ledger[i].chain, i))
<1> DEFINE c == ledger[i].chain
<1>1. i \in Nat /\ DOMAIN ledger \subseteq Nat /\ DOMAIN ledger \subseteq 1..(next_id - 1) /\ next_id - 1 \in Nat
  BY DEF TypeOK
<1>2. Upto(ledger, c, i) = Upto(ledger, c, i - 1) \cup {i} /\ i \notin Upto(ledger, c, i - 1)
  BY <1>1 DEF Upto, ChainIds
<1>3. IsFiniteSet(Upto(ledger, c, i - 1))
  <2>1. IsFiniteSet(1..(next_id - 1))
    BY <1>1, FS_Interval
  <2>2. Upto(ledger, c, i - 1) \subseteq 1..(next_id - 1)
    BY <1>1 DEF Upto, ChainIds
  <2> QED
    BY <2>1, <2>2, FS_Subset
<1>4. Cardinality(Upto(ledger, c, i)) = Cardinality(Upto(ledger, c, i - 1)) + 1
  BY <1>2, <1>3, FS_AddElement
<1> QED
  BY <1>4 DEF SummaryAt

\* Rows that follow one another, and anchors that fit, leave nothing to report.
LEMMA NoAlarm == TypeOK /\ RowsFollow /\ AnchorsFit => NoFalseAlarm
<1> SUFFICES ASSUME TypeOK, RowsFollow, AnchorsFit, damaged = {}, NEW err \in Report(anchors).errors
             PROVE  FALSE
  BY DEF NoFalseAlarm
<1>1. DOMAIN anchors \subseteq Profile /\ next_id - 1 \in Nat /\ DOMAIN ledger \subseteq 1..(next_id - 1)
  BY DEF TypeOK
<1>2. \A i \in DOMAIN ledger : Follows(ledger, i)
  BY DEF RowsFollow, LedgerFollows, Excused
<1>3. ASSUME NEW c \in DOMAIN anchors
      PROVE  ~(SummaryAt(c, next_id - 1).length < anchors[c].length)
  <2>1. PICK i \in ChainIds(ledger, c) : anchors[c].length = Cardinality(Upto(ledger, c, i))
    BY DEF AnchorsFit
  <2>2. i \in Nat /\ i <= next_id - 1
    BY <1>1 DEF ChainIds
  <2>3. /\ Cardinality(Upto(ledger, c, i)) <= Cardinality(Upto(ledger, c, next_id - 1))
        /\ Cardinality(Upto(ledger, c, i)) \in Nat /\ Cardinality(Upto(ledger, c, next_id - 1)) \in Nat
    BY <1>1, <2>2, UptoCounts
  <2> QED
    BY <2>1, <2>3 DEF SummaryAt
<1>4. ASSUME NEW i \in DOMAIN ledger
      PROVE  errors_at(ledger[i], SummaryAt(ledger[i].chain, i - 1), anchors) = {}
  <2> DEFINE c == ledger[i].chain
             s == SummaryAt(c, i - 1)
  <2>1. SUFFICES ASSUME NEW kind \in errors_at(ledger[i], s, anchors) PROVE FALSE
    OBVIOUS
  <2>2. kind \in ChainErrorKind
    BY <2>1 DEF errors_at
  <2>3. kind = "ANCHOR_MISMATCH"
    BY <1>2, <2>1, <2>2, SoundRow
  <2>4. AnchorMismatch(ledger[i], s.length + 1, anchors)
    BY <2>1, <2>3 DEF errors_at
  <2>5. c \in DOMAIN anchors /\ s.length + 1 = anchors[c].length /\ ledger[i].hash # anchors[c].head
    BY <2>4 DEF AnchorMismatch
  <2>6. PICK j \in ChainIds(ledger, c) : anchors[c].length = Cardinality(Upto(ledger, c, j)) /\ anchors[c].head = ledger[j].hash
    BY <2>5 DEF AnchorsFit
  <2>7. i \in ChainIds(ledger, c) /\ s.length + 1 = Cardinality(Upto(ledger, c, i))
    BY UptoRow DEF ChainIds
  <2> HIDE DEF c, s
  <2>8. i = j
    BY <2>5, <2>6, <2>7, <1>1, UptoCounts
  <2> QED
    BY <2>5, <2>6, <2>8
<1>5. /\ Report(anchors).errors =
           ReportAt(next_id - 1, anchors).errors \cup
             {<<c, "ANCHOR_MISSING">> : c \in {d \in DOMAIN anchors :
                ReportAt(next_id - 1, anchors).chains[d].length < anchors[d].length}}
      /\ ReportAt(next_id - 1, anchors).errors =
           UNION {{<<i, kind>> : kind \in errors_at(ledger[i], SummaryAt(ledger[i].chain, i - 1), anchors)}
                    : i \in DOMAIN ledger}
      /\ \A c \in Profile : ReportAt(next_id - 1, anchors).chains[c] = SummaryAt(c, next_id - 1)
  BY Reported
<1>6. ReportAt(next_id - 1, anchors).errors = {}
  BY <1>4, <1>5
<1>7. {d \in DOMAIN anchors : ReportAt(next_id - 1, anchors).chains[d].length < anchors[d].length} = {}
  BY <1>1, <1>3, <1>5
<1> QED
  BY <1>5, <1>6, <1>7

\* Steps that change neither the ledger nor the anchors, nor add to the damage.
LEMMA AnchorsKept ==
  ASSUME AnchorsFit, UNCHANGED <<ledger, anchors, damaged>>
  PROVE  AnchorsFit'
  BY DEF AnchorsFit, Upto

\* Damage spares the anchors, and is no longer none.
LEMMA AnchorsDamaged ==
  ASSUME Linked, AnchorsFit, Damage
  PROVE  AnchorsFit'
<1>1. UNCHANGED anchors
  BY DEF Damage, Alter, Lose, Restore, Damages, files
<1>2. damaged' # {}
  <2>1. PICK i \in DOMAIN ledger :
        \/ \E content \in Content, now \in Time : Alter(i, content, now)
        \/ Lose(i)
        \/ Restore(i)
    BY DEF Damage
  <2>2. i \in Nat
    BY DEF Linked, TypeOK
  <2>3. \E ids : i \in ids /\ Damages(ids)
    <3>1. ASSUME Restore(i) PROVE i \in {j \in DOMAIN ledger : j >= i}
      BY <2>2
    <3> QED
      BY <2>1, <3>1 DEF Alter, Lose, Restore
  <2> QED
    BY <2>3 DEF Damages
<1> QED
  BY <1>1, <1>2 DEF AnchorsFit

\* What is committed comes after the anchored events.
LEMMA AnchorsCommit ==
  ASSUME Linked, RowsFollow, AnchorsFit, NEW p \in Proc, Commit(p)
  PROVE  AnchorsFit'
<1>1. TypeOK /\ txn[p] # Idle /\ UnitFollows(ledger, txn[p]) /\ DOMAIN ledger \subseteq Nat
  BY DEF Linked, RowsFollow, Commit, Idle, TypeOK
<1>2. /\ DOMAIN ledger' = DOMAIN ledger \cup DOMAIN txn[p].rows
      /\ \A i \in DOMAIN ledger : ledger'[i] = ledger[i]
      /\ \A i \in DOMAIN txn[p].rows : ledger'[i] = txn[p].rows[i]
  <2>1. ledger' = Visible(p)
    BY DEF Commit, Visible
  <2> QED
    BY <1>1, <2>1, Sees
<1>3. UNCHANGED <<anchors, damaged>>
  BY DEF Commit, files
<1>4. \A i \in DOMAIN txn[p].rows :
        txn[p].rows[i].chain = txn[p].chain /\ i \in Nat /\ \A j \in ChainIds(ledger, txn[p].chain) : j < i
  BY <1>1 DEF TypeOK, UnitFollows
<1>5. ASSUME NEW c, NEW i \in ChainIds(ledger, c)
      PROVE  i \in ChainIds(ledger', c) /\ Upto(ledger', c, i) = Upto(ledger, c, i) /\ ledger'[i] = ledger[i]
  <2>1. i \in DOMAIN ledger /\ i \in Nat /\ ledger[i].chain = c
    BY <1>1 DEF ChainIds
  <2>2. \A j \in ChainIds(ledger', c) : j <= i => j \in ChainIds(ledger, c)
    BY <1>2, <1>4, <2>1 DEF ChainIds
  <2>3. \A j \in ChainIds(ledger, c) : j \in ChainIds(ledger', c)
    BY <1>2 DEF ChainIds
  <2> QED
    BY <1>2, <2>1, <2>2, <2>3 DEF Upto
<1> QED
  BY <1>3, <1>5 DEF AnchorsFit

\* Anchors are written of the newest event of every chain that has one.
LEMMA AnchorsWritten ==
  ASSUME Linked, EmitAnchors
  PROVE  AnchorsFit'
<1> DEFINE N == next_id - 1
           some == {c \in Profile : Report(<<>>).chains[c].length > 0}
<1>1. TypeOK /\ N \in Nat /\ DOMAIN ledger \subseteq 1..N
  BY DEF Linked, TypeOK
<1>2. \A c \in Profile : Report(<<>>).chains[c] = SummaryAt(c, N)
  BY <1>1, Reported
<1>3. /\ anchors' = [c \in some |-> [length |-> Report(<<>>).chains[c].length, head |-> Report(<<>>).chains[c].head]]
      /\ UNCHANGED <<ledger, damaged>>
  BY DEF EmitAnchors, chains
<1> HIDE DEF N
<1>4. ASSUME NEW c \in some
      PROVE  /\ anchors'[c].length = Cardinality(Upto(ledger, c, N)) /\ Cardinality(Upto(ledger, c, N)) \in Nat \ {0}
             /\ \E i \in ChainIds(ledger, c) : Upto(ledger, c, i) = Upto(ledger, c, N) /\ anchors'[c].head = ledger[i].hash
  <2>1. c \in Profile /\ SummaryAt(c, N).length > 0
    BY <1>2
  <2>2. anchors'[c] = [length |-> SummaryAt(c, N).length, head |-> SummaryAt(c, N).head]
    BY <1>2, <1>3, <2>1
  <2>3. Upto(ledger, c, N) # {} /\ Cardinality(Upto(ledger, c, N)) \in Nat \ {0}
    BY <1>1, <2>1, UptoCounts DEF SummaryAt
  <2> DEFINE ids == Upto(ledger, c, N)
  <2>4. ids \in SUBSET (1..N)
    BY <1>1 DEF Upto, ChainIds
  <2>5. PICK i \in ids : \A j \in ids : j <= i
    <3> HIDE DEF ids
    <3> QED
      BY <1>1, <2>3, <2>4, Greatest DEF ids
  <2>6. i \in ChainIds(ledger, c) /\ i \in Nat /\ i <= N
    BY <2>4, <2>5 DEF Upto
  <2>7. Newest(ledger, ids) = [hash |-> ledger[i].hash, time |-> ledger[i].time]
    <3> HIDE DEF ids
    <3> QED
      BY <1>1, <2>4, <2>5, NewestOf
  <2>8. Upto(ledger, c, i) = ids
    BY <1>1, <2>5, <2>6 DEF Upto, ChainIds
  <2> QED
    BY <2>2, <2>3, <2>6, <2>7, <2>8 DEF SummaryAt
<1>5. DOMAIN anchors' = some /\ UNCHANGED ledger
  BY <1>3 DEF Upto
<1> HIDE DEF some
<1> QED
  BY <1>3, <1>4, <1>5 DEF AnchorsFit

LEMMA AnchorStep == Linked /\ RowsFollow /\ AnchorsFit /\ [Next]_vars => AnchorsFit'
<1> SUFFICES ASSUME Linked, RowsFollow, AnchorsFit, [Next]_vars PROVE AnchorsFit'
  OBVIOUS
<1>1. CASE \E p \in Proc : Appends(p)
  <2>1. PICK p \in Proc : Appends(p)
    BY <1>1
  <2>2. CASE Commit(p)
    BY <2>2, AnchorsCommit
  <2>3. CASE ~Commit(p)
    <3>1. UNCHANGED <<ledger, anchors, damaged>>
      BY <2>1, <2>3 DEF Appends, AppendFirst, AppendNext, ReadHead, Flush, Conflict, Abort, files
    <3> QED
      BY <3>1, AnchorsKept
  <2> QED
    BY <2>2, <2>3
<1>2. CASE UNCHANGED vars
  BY <1>2, AnchorsKept DEF vars, chains, files
<1> QED
  BY <1>1, <1>2, AnchorsWritten, AnchorsDamaged DEF Next

LEMMA AnchorStart == Init => AnchorsFit
<1>1. Init => DOMAIN anchors = {}
  BY DEF Init
<1> QED
  BY <1>1 DEF AnchorsFit

\* The anchors of any run are events of an undamaged ledger, at their places,
\* however it grows (verify_audit_chain.py --emit-anchors).
THEOREM AnchorsFitHolds == Spec => []AnchorsFit
<1> QED
  BY AnchorStart, AnchorStep, LinkedHolds, RowsFollowHolds, PTL DEF Spec

\* Appending (append_event) never makes verify_chain report anything: any
\* number of appenders, on either database, with clocks that go backwards,
\* against the anchors of any earlier run.
THEOREM NoFalseAlarmHolds == Spec => []NoFalseAlarm
<1>1. Linked => TypeOK
  BY DEF Linked
<1> QED
  BY <1>1, NoAlarm, LinkedHolds, RowsFollowHolds, AnchorsFitHolds, PTL

-----------------------------------------------------------------------------
(* The verdict is right                                                    *)

\* The place of an event in its chain.
Place(c, i) == Cardinality(Upto(ledger, c, i))

\* The kth event of a chain is the one with k events up to it.
LEMMA Places ==
  ASSUME TypeOK, NEW c
  PROVE  LET ids == ChainIds(ledger, c) IN
         /\ Cardinality(ids) \in Nat
         /\ \A i \in ids : Place(c, i) \in 1..Cardinality(ids) /\ Nth(ids, Place(c, i)) = i
         /\ \A k \in 1..Cardinality(ids) : Nth(ids, k) \in ids /\ Place(c, Nth(ids, k)) = k
         /\ \A i, j \in ids : i < j => Place(c, i) < Place(c, j)
<1> DEFINE ids == ChainIds(ledger, c)
           T == 1..Cardinality(ids)
           f == [i \in ids |-> Place(c, i)]
<1>1. ids \in SUBSET Nat /\ ids \in SUBSET (1..(next_id - 1)) /\ next_id - 1 \in Nat
  BY DEF TypeOK, ChainIds
<1>2. IsFiniteSet(ids) /\ Cardinality(ids) \in Nat
  <2>1. IsFiniteSet(1..(next_id - 1))
    BY <1>1, FS_Interval
  <2> HIDE DEF ids
  <2>2. IsFiniteSet(ids)
    BY <1>1, <2>1, FS_Subset
  <2> QED
    BY <2>2, FS_CardinalityType
<1>3. ASSUME NEW i \in ids
      PROVE  Place(c, i) \in T /\ Cardinality({j \in ids : j < i}) = Place(c, i) - 1
  <2> DEFINE below == {j \in ids : j < i}
  <2>1. Upto(ledger, c, i) = below \cup {i} /\ i \notin below /\ Upto(ledger, c, i) \subseteq ids
    BY <1>1 DEF Upto
  <2>2. IsFiniteSet(below) /\ Cardinality(below) \in Nat
    BY <1>2, FS_Subset, FS_CardinalityType
  <2> HIDE DEF below
  <2>3. Cardinality(Upto(ledger, c, i)) = Cardinality(below) + 1
    BY <2>1, <2>2, FS_AddElement
  <2>4. Cardinality(Upto(ledger, c, i)) <= Cardinality(ids)
    <3> HIDE DEF ids
    <3> QED
      BY <1>2, <2>1, FS_Subset
  <2>5. Place(c, i) = Cardinality(below) + 1 /\ Place(c, i) <= Cardinality(ids)
    BY <2>3, <2>4 DEF Place
  <2> QED
    BY <1>2, <2>2, <2>5 DEF below
<1>4. ASSUME NEW i \in ids, NEW j \in ids, i < j PROVE Place(c, i) < Place(c, j)
  <2>1. i \in Nat /\ j \in Nat
    BY <1>1
  <2>2. Place(c, i) <= Place(c, j) /\ Place(c, i) # Place(c, j)
    BY <1>4, <2>1, UptoCounts DEF Place
  <2>3. Place(c, i) \in Nat /\ Place(c, j) \in Nat
    BY <2>1, UptoCounts DEF Place
  <2> QED
    BY <2>2, <2>3
<1>5. \A i, j \in ids : Place(c, i) = Place(c, j) => i = j
  BY UptoCounts, <1>1 DEF Place
<1>6. f \in Injection(ids, T)
  <2>1. f \in [ids -> T]
    BY <1>3
  <2>2. \A i, j \in ids : f[i] = f[j] => i = j
    BY <1>5
  <2> HIDE DEF f, T
  <2> QED
    BY <2>1, <2>2 DEF Injection, IsInjective
<1>7. f \in Surjection(ids, T)
  <2>1. IsFiniteSet(T) /\ Cardinality(T) = Cardinality(ids)
    <3> DEFINE n == Cardinality(ids)
    <3>1. n \in Nat
      BY <1>2
    <3> HIDE DEF n
    <3>2. 1 \in Int /\ n \in Int
      BY <3>1
    <3>3. IsFiniteSet(1..n) /\ Cardinality(1..n) = IF 1 > n THEN 0 ELSE n - 1 + 1
      BY <3>2, FS_Interval
    <3>4. Cardinality(1..n) = n
      BY <3>1, <3>3
    <3> QED
      BY <3>3, <3>4 DEF n
  <2> HIDE DEF f, T, ids
  <2> QED
    BY <1>2, <1>6, <2>1, FS_Injection
<1>8. ASSUME NEW k \in T PROVE Nth(ids, k) \in ids /\ Place(c, Nth(ids, k)) = k
  <2>1. \E i \in ids : f[i] = k
    BY <1>7 DEF Surjection
  <2>2. \E i \in ids : Cardinality({j \in ids : j < i}) = k - 1
    BY <1>3, <2>1
  <2>3. Nth(ids, k) \in ids /\ Cardinality({j \in ids : j < Nth(ids, k)}) = k - 1
    BY <2>2 DEF Nth
  <2> HIDE DEF ids
  <2>4. Place(c, Nth(ids, k)) \in T /\ Place(c, Nth(ids, k)) - 1 = k - 1
    BY <1>3, <2>3
  <2>5. Place(c, Nth(ids, k)) \in Nat /\ k \in Nat
    BY <1>2, <2>4
  <2> HIDE DEF T
  <2>6. Place(c, Nth(ids, k)) = k
    BY <2>4, <2>5
  <2> QED
    BY <2>3, <2>6
<1>9. ASSUME NEW i \in ids PROVE Place(c, i) \in T /\ Nth(ids, Place(c, i)) = i
  BY <1>3, <1>5, <1>8
<1> HIDE DEF ids
<1> QED
  BY <1>2, <1>4, <1>8, <1>9 DEF ids

\* A chain by places: its kth row, and the rows before it.
LEMMA ChainPlaces ==
  ASSUME TypeOK, NEW c, NEW i \in ChainIds(ledger, c)
  PROVE  LET k == Place(c, i) IN
         /\ k \in DOMAIN Chain(c) /\ Chain(c)[k] = ledger[i]
         /\ k = 1 => Below(ledger, i) = {}
         /\ k > 1 => k - 1 \in DOMAIN Chain(c)
                     /\ Newest(ledger, Below(ledger, i)) =
                          [hash |-> Chain(c)[k - 1].hash, time |-> Chain(c)[k - 1].time]
<1> DEFINE ids == ChainIds(ledger, c)
           n == Cardinality(ids)
           k == Place(c, i)
           was == Below(ledger, i)
<1>1. /\ n \in Nat
      /\ \A j \in ids : Place(c, j) \in 1..n /\ Nth(ids, Place(c, j)) = j
      /\ \A m \in 1..n : Nth(ids, m) \in ids /\ Place(c, Nth(ids, m)) = m
      /\ \A j, l \in ids : j < l => Place(c, j) < Place(c, l)
  BY Places
<1>2. ids \in SUBSET Nat /\ ids \in SUBSET (1..(next_id - 1)) /\ next_id - 1 \in Nat
  BY DEF TypeOK, ChainIds
<1>3. was = {j \in ids : j < i}
  BY DEF Below, ChainIds
<1>4. DOMAIN Chain(c) = 1..n /\ \A m \in 1..n : Chain(c)[m] = ledger[Nth(ids, m)]
  BY DEF Chain
<1> HIDE DEF ids, n
<1>5. i \in ids /\ k \in 1..n /\ Nth(ids, k) = i
  BY <1>1 DEF ids
<1>6. \A j \in was : j \in ids /\ Place(c, j) \in 1..n /\ Place(c, j) < k
  BY <1>1, <1>3, <1>5
<1> HIDE DEF k
<1>7. k = 1 => was = {}
  BY <1>1, <1>6
<1>8. ASSUME k > 1
      PROVE  k - 1 \in 1..n /\ Newest(ledger, was) = [hash |-> Chain(c)[k - 1].hash, time |-> Chain(c)[k - 1].time]
  <2> DEFINE m == Nth(ids, k - 1)
  <2>1. k - 1 \in 1..n
    BY <1>1, <1>5, <1>8
  <2>2. m \in ids /\ Place(c, m) = k - 1 /\ m \in Nat /\ i \in Nat
    BY <1>1, <1>2, <1>5, <2>1
  <2>3. Chain(c)[k - 1] = ledger[m]
    BY <1>4, <2>1
  <2> HIDE DEF m
  <2>4. m < i
    <3>1. ASSUME i <= m PROVE k <= k - 1
      <4>1. i = m \/ i < m
        BY <2>2, <3>1
      <4>2. k = Place(c, i)
        BY DEF k
      <4>3. k = k - 1 \/ k < k - 1
        BY <1>1, <1>5, <2>2, <4>1, <4>2
      <4> QED
        BY <1>1, <1>5, <4>3
    <3> QED
      BY <1>1, <1>5, <2>2, <3>1
  <2>5. ASSUME NEW j \in was PROVE j <= m
    <3>1. j \in ids /\ j \in Nat /\ Place(c, j) \in Nat /\ Place(c, j) < k
      <4>1. j \in ids /\ Place(c, j) \in 1..n /\ Place(c, j) < k
        BY <1>6
      <4> QED
        BY <1>1, <1>2, <4>1
    <3>2. ASSUME m < j PROVE k - 1 < Place(c, j)
      BY <1>1, <2>2, <3>1, <3>2
    <3> QED
      BY <1>1, <1>5, <2>2, <3>1, <3>2
  <2>6. m \in was /\ was \in SUBSET (1..(next_id - 1))
    BY <1>2, <1>3, <2>2, <2>4
  <2> HIDE DEF was
  <2>7. Newest(ledger, was) = [hash |-> ledger[m].hash, time |-> ledger[m].time]
    BY <1>2, <2>5, <2>6, NewestOf
  <2> QED
    BY <2>1, <2>3, <2>7
<1> QED
  BY <1>4, <1>5, <1>7, <1>8 DEF k

\* What a row follows, by places.
LEMMA FollowsAtPlace ==
  ASSUME TypeOK, NEW c, NEW i \in ChainIds(ledger, c), NEW k, k = Place(c, i)
  PROVE  Follows(ledger, i) <=>
           /\ k = 1 => Chain(c)[k].previous = GENESIS_HASH
           /\ k > 1 => Chain(c)[k].previous = Chain(c)[k - 1].hash
           /\ Chain(c)[k].hash = compute_event_hash(Chain(c)[k])
           /\ k > 1 => Chain(c)[k - 1].time <= Chain(c)[k].time
<1> DEFINE e == ledger[i]
           newest == Newest(ledger, Below(ledger, i))
<1>1. /\ Chain(c)[k] = e
      /\ k = 1 => Below(ledger, i) = {}
      /\ k > 1 => newest = [hash |-> Chain(c)[k - 1].hash, time |-> Chain(c)[k - 1].time]
  BY ChainPlaces
<1>2. k \in Nat \ {0}
  <2>1. Cardinality(ChainIds(ledger, c)) \in Nat /\ k \in 1..Cardinality(ChainIds(ledger, c))
    BY Places
  <2> QED
    BY <2>1
<1>3. e.time \in Nat
  BY DEF TypeOK, IsEvent, Time, ChainIds
<1>4. CASE k = 1
  <2>1. newest = [hash |-> GENESIS_HASH, time |-> 0]
    BY <1>1, <1>4 DEF Newest
  <2> QED
    BY <1>1, <1>3, <1>4, <2>1 DEF Follows
<1>5. CASE k > 1
  <2>1. \A x \in Nat : \A y : y = Chain(c)[k - 1].time => (x >= y <=> y <= x)
    OBVIOUS
  <2> QED
    BY <1>1, <1>3, <1>5, <2>1 DEF Follows
<1> QED
  BY <1>2, <1>4, <1>5

\* The rows of a chain follow one another if and only if the chain is sound.
LEMMA ChainSound ==
  ASSUME TypeOK, NEW c
  PROVE  (\A i \in ChainIds(ledger, c) : Follows(ledger, i)) <=> I1(c) /\ I2(c) /\ I3(c) /\ I4(c)
<1> DEFINE ids == ChainIds(ledger, c)
           n == Cardinality(ids)
           ch == Chain(c)
<1>1. /\ n \in Nat
      /\ \A i \in ids : Place(c, i) \in 1..n /\ Nth(ids, Place(c, i)) = i
      /\ \A k \in 1..n : Nth(ids, k) \in ids /\ Place(c, Nth(ids, k)) = k
  BY Places
<1>2. DOMAIN ch = 1..n /\ (n = 0 => ch = <<>>)
  BY DEF Chain
<1>3. \A k \in 1..n : ch[k].time \in Nat
  <2>1. \A k \in 1..n : ch[k] = ledger[Nth(ids, k)]
    BY DEF Chain
  <2>2. \A i \in ids : ledger[i].time \in Nat
    BY DEF TypeOK, IsEvent, Time, ChainIds
  <2> QED
    BY <1>1, <2>1, <2>2
<1>4. (\A i \in ids : Follows(ledger, i)) <=>
        \A k \in 1..n :
          /\ k = 1 => ch[k].previous = GENESIS_HASH
          /\ k > 1 => ch[k].previous = ch[k - 1].hash
          /\ ch[k].hash = compute_event_hash(ch[k])
          /\ k > 1 => ch[k - 1].time <= ch[k].time
  BY <1>1, FollowsAtPlace
<1> HIDE DEF ids, n, ch
<1>5. I1(c) <=> \A k \in 1..n : k = 1 => ch[k].previous = GENESIS_HASH
  <2>1. ch # <<>> <=> n # 0
    BY <1>1, <1>2
  <2>2. n # 0 <=> 1 \in 1..n
    BY <1>1
  <2> QED
    BY <2>1, <2>2 DEF I1, ch
<1>6. I2(c) <=> \A k \in 1..n : k > 1 => ch[k].previous = ch[k - 1].hash
  BY <1>2 DEF I2, ch
<1>7. I3(c) <=> \A k \in 1..n : ch[k].hash = compute_event_hash(ch[k])
  BY <1>2 DEF I3, ch
<1>8. I4(c) <=> \A k \in 1..n : k > 1 => ch[k - 1].time <= ch[k].time
  <2>1. I4(c) <=> \A j, k \in 1..n : j < k => ch[j].time <= ch[k].time
    BY <1>2 DEF I4, ch
  <2>2. ASSUME I4(c), NEW k \in 1..n, k > 1 PROVE ch[k - 1].time <= ch[k].time
    <3>1. k - 1 \in 1..n /\ k - 1 < k
      BY <1>1, <2>2
    <3> QED
      BY <2>1, <2>2, <3>1
  <2>3. ASSUME \A k \in 1..n : k > 1 => ch[k - 1].time <= ch[k].time
        PROVE  I4(c)
    <3> DEFINE late == {k \in 1..n : \E j \in 1..n : j < k /\ ~(ch[j].time <= ch[k].time)}
    <3>1. SUFFICES ASSUME late # {} PROVE FALSE
      BY <2>1
    <3>2. PICK k \in late : \A l \in late : k <= l
      <4>1. late \in SUBSET Nat
        BY <1>1
      <4> HIDE DEF late
      <4> QED
        BY <3>1, <4>1, Least
    <3>3. k \in 1..n /\ k \in Nat
      BY <1>1
    <3>4. PICK j \in 1..n : j < k /\ ~(ch[j].time <= ch[k].time)
      OBVIOUS
    <3>5. k > 1 /\ k - 1 \in 1..n /\ k - 1 \in Nat /\ j \in Nat
      BY <1>1, <3>3, <3>4
    <3>6. k - 1 \notin late
      <4> HIDE DEF late
      <4> QED
        BY <3>2, <3>3, <3>5
    <3>7. ch[j].time <= ch[k - 1].time
      <4>1. CASE j = k - 1
        BY <1>3, <3>5, <4>1
      <4>2. CASE j # k - 1
        <5>1. j < k - 1
          BY <3>3, <3>4, <3>5, <4>2
        <5> QED
          BY <3>5, <3>6, <5>1
      <4> QED
        BY <4>1, <4>2
    <3>8. ch[k - 1].time <= ch[k].time
      BY <2>3, <3>3, <3>5
    <3>9. ch[j].time \in Nat /\ ch[k].time \in Nat /\ ch[k - 1].time \in Nat
      BY <1>3, <3>3, <3>5
    <3> QED
      BY <3>4, <3>7, <3>8, <3>9
  <2> QED
    BY <2>2, <2>3
<1> QED
  BY <1>4, <1>5, <1>6, <1>7, <1>8 DEF ids

\* At a row that does not follow the one before it there is an error.
LEMMA UnsoundRow ==
  ASSUME TypeOK, NEW i \in DOMAIN ledger, NEW known, ~Follows(ledger, i)
  PROVE  errors_at(ledger[i], SummaryAt(ledger[i].chain, i - 1), known) \ {"ANCHOR_MISMATCH"} # {}
<1> DEFINE e == ledger[i]
           below == Below(ledger, i)
           newest == Newest(ledger, below)
           s == SummaryAt(e.chain, i - 1)
<1>1. i \in Nat \ {0} /\ DOMAIN ledger \subseteq Nat
  BY DEF TypeOK
<1>2. Upto(ledger, e.chain, i - 1) = below
  BY <1>1 DEF Upto, Below, ChainIds
<1>3. s.head = newest.hash /\ s.time = newest.time /\ s.length = Cardinality(below)
  BY <1>2 DEF SummaryAt
<1>4. s.length = 0 \/ s.length > 0
  <2>1. i - 1 \in Nat
    BY <1>1
  <2>2. Cardinality(Upto(ledger, e.chain, i - 1)) \in Nat
    BY <2>1, UptoCounts
  <2> QED
    BY <1>2, <1>3, <2>2
<1>5. e.time \in Nat /\ s.time \in Nat
  <2>1. e.time \in Nat
    BY DEF TypeOK, IsEvent, Time
  <2>2. newest.time \in Nat
    <3>1. \A j \in DOMAIN ledger : ledger[j].time \in Nat
      BY DEF TypeOK, IsEvent, Time
    <3>2. below \subseteq DOMAIN ledger /\ below \in SUBSET (1..(next_id - 1)) /\ next_id - 1 \in Nat
      BY DEF Below, ChainIds, TypeOK
    <3> HIDE DEF below
    <3>3. CASE below = {}
      BY <3>3 DEF Newest
    <3>4. CASE below # {}
      <4>1. PICK m \in below : \A j \in below : j <= m
        BY <3>2, <3>4, Greatest
      <4>2. newest = [hash |-> ledger[m].hash, time |-> ledger[m].time]
        BY <3>2, <4>1, NewestOf
      <4> QED
        BY <3>1, <3>2, <4>1, <4>2
    <3> QED
      BY <3>3, <3>4
  <2> QED
    BY <1>3, <2>1, <2>2
<1>6. e.previous # s.head \/ e.hash # compute_event_hash(e) \/ ~(e.time >= s.time)
  BY <1>3 DEF Follows
<1> HIDE DEF s, newest, e, below
<1>7. CASE e.previous # s.head
  <2>1. \/ "BAD_GENESIS" \in errors_at(e, s, known)
        \/ "BROKEN_LINK" \in errors_at(e, s, known)
    BY <1>4, <1>7 DEF errors_at, ChainErrorKind
  <2> QED
    BY <2>1 DEF e, s
<1>8. CASE e.hash # compute_event_hash(e)
  <2>1. "HASH_MISMATCH" \in errors_at(e, s, known)
    BY <1>8 DEF errors_at, ChainErrorKind
  <2> QED
    BY <2>1 DEF e, s
<1>9. CASE ~(e.time >= s.time)
  <2>0. e.time < s.time
    BY <1>5, <1>9
  <2>1. "TIMESTAMP_REGRESSION" \in errors_at(e, s, known)
    BY <2>0 DEF errors_at, ChainErrorKind
  <2> QED
    BY <2>1 DEF e, s
<1> QED
  BY <1>6, <1>7, <1>8, <1>9

\* A report is clean if and only if every row follows the one before it and
\* every chain reaches its anchor and has the anchored event there.
LEMMA CleanReport ==
  ASSUME TypeOK, NEW known, DOMAIN known \subseteq Profile
  PROVE  Report(known).errors = {} <=>
           /\ \A i \in DOMAIN ledger : Follows(ledger, i) /\ ~AnchorMismatch(ledger[i], Place(ledger[i].chain, i), known)
           /\ \A c \in DOMAIN known : ~(Cardinality(ChainIds(ledger, c)) < known[c].length)
<1> DEFINE N == next_id - 1
           found(i) == errors_at(ledger[i], SummaryAt(ledger[i].chain, i - 1), known)
<1>1. /\ Report(known).errors =
           ReportAt(N, known).errors \cup
             {<<c, "ANCHOR_MISSING">> : c \in {d \in DOMAIN known : ReportAt(N, known).chains[d].length < known[d].length}}
      /\ ReportAt(N, known).errors = UNION {{<<i, kind>> : kind \in found(i)} : i \in DOMAIN ledger}
      /\ \A c \in Profile : ReportAt(N, known).chains[c] = SummaryAt(c, N)
  BY Reported
<1>2. \A c \in Profile : SummaryAt(c, N).length = Cardinality(ChainIds(ledger, c))
  <2>1. \A c : Upto(ledger, c, N) = ChainIds(ledger, c)
    BY DEF TypeOK, Upto, ChainIds
  <2> QED
    BY <2>1 DEF SummaryAt
<1>3. ASSUME NEW i \in DOMAIN ledger
      PROVE  found(i) = {} <=> Follows(ledger, i) /\ ~AnchorMismatch(ledger[i], Place(ledger[i].chain, i), known)
  <2>1. SummaryAt(ledger[i].chain, i - 1).length + 1 = Place(ledger[i].chain, i)
    BY UptoRow DEF Place
  <2>2. found(i) \subseteq ChainErrorKind
    BY DEF errors_at
  <2>3. "ANCHOR_MISMATCH" \in found(i) <=> AnchorMismatch(ledger[i], Place(ledger[i].chain, i), known)
    BY <2>1 DEF errors_at, ChainErrorKind
  <2>4. ~Follows(ledger, i) => found(i) # {}
    BY UnsoundRow
  <2>5. Follows(ledger, i) => \A kind \in ChainErrorKind \ {"ANCHOR_MISMATCH"} : kind \notin found(i)
    BY SoundRow
  <2> HIDE DEF found
  <2> QED
    BY <2>2, <2>3, <2>4, <2>5
<1> HIDE DEF found
<1>4. ReportAt(N, known).errors = {} <=> \A i \in DOMAIN ledger : found(i) = {}
  <2>1. ReportAt(N, known).errors = UNION {{<<i, kind>> : kind \in found(i)} : i \in DOMAIN ledger}
    BY <1>1
  <2>2. ASSUME NEW i \in DOMAIN ledger, NEW kind \in found(i) PROVE ReportAt(N, known).errors # {}
    <3>1. <<i, kind>> \in ReportAt(N, known).errors
      BY <2>1
    <3> QED
      BY <3>1
  <2>3. ASSUME \A i \in DOMAIN ledger : found(i) = {} PROVE ReportAt(N, known).errors = {}
    BY <2>1, <2>3
  <2> QED
    BY <2>2, <2>3
<1>5. \A c \in DOMAIN known : ReportAt(N, known).chains[c].length = Cardinality(ChainIds(ledger, c))
  BY <1>1, <1>2
<1>6. Report(known).errors = {} <=>
        /\ ReportAt(N, known).errors = {}
        /\ \A c \in DOMAIN known : ~(ReportAt(N, known).chains[c].length < known[c].length)
  <2> DEFINE missing == {d \in DOMAIN known : ReportAt(N, known).chains[d].length < known[d].length}
  <2>1. Report(known).errors = ReportAt(N, known).errors \cup {<<c, "ANCHOR_MISSING">> : c \in missing}
    BY <1>1
  <2>2. missing = {} <=> \A c \in DOMAIN known : ~(ReportAt(N, known).chains[c].length < known[c].length)
    OBVIOUS
  <2> HIDE DEF missing
  <2>3. {<<c, "ANCHOR_MISSING">> : c \in missing} = {} <=> missing = {}
    OBVIOUS
  <2> QED
    BY <2>1, <2>2, <2>3
<1> QED
  BY <1>3, <1>4, <1>5, <1>6

\* The verdict is that of the five invariants.
LEMMA RightVerdict == TypeOK /\ AnchorsFit => VerdictRight
<1> SUFFICES ASSUME TypeOK, AnchorsFit PROVE VerdictRight
  OBVIOUS
<1>1. DOMAIN anchors \subseteq Profile
  BY DEF TypeOK
<1>2. \A i \in DOMAIN ledger : ledger[i].chain \in Profile /\ i \in ChainIds(ledger, ledger[i].chain)
  BY DEF TypeOK, IsEvent, ChainIds
<1>3. (\A i \in DOMAIN ledger : Follows(ledger, i)) <=>
        \A c \in Profile : I1(c) /\ I2(c) /\ I3(c) /\ I4(c)
  <2>1. (\A i \in DOMAIN ledger : Follows(ledger, i)) <=>
          \A c \in Profile : \A i \in ChainIds(ledger, c) : Follows(ledger, i)
    BY <1>2 DEF ChainIds
  <2> QED
    BY <2>1, ChainSound
<1>4. ASSUME NEW c \in DOMAIN anchors
      PROVE  I5(c) <=>
               /\ \A i \in ChainIds(ledger, c) : ~AnchorMismatch(ledger[i], Place(c, i), anchors)
               /\ ~(Cardinality(ChainIds(ledger, c)) < anchors[c].length)
  <2> DEFINE ids == ChainIds(ledger, c)
             n == Cardinality(ids)
             m == anchors[c].length
  <2>1. /\ n \in Nat
        /\ \A i \in ids : Place(c, i) \in 1..n /\ Nth(ids, Place(c, i)) = i
        /\ \A k \in 1..n : Nth(ids, k) \in ids /\ Place(c, Nth(ids, k)) = k
    BY Places
  <2>2. DOMAIN Chain(c) = 1..n /\ \A k \in 1..n : Chain(c)[k] = ledger[Nth(ids, k)]
    BY DEF Chain
  <2>3. m \in Nat \ {0}
    BY DEF AnchorsFit
  <2>4. \A i \in ids : ledger[i].chain = c
    BY DEF ChainIds
  <2> HIDE DEF ids, n, m
  <2>5. m \in 1..n <=> ~(n < m)
    BY <2>1, <2>3
  <2>6. m \in 1..n => (Chain(c)[m].hash = anchors[c].head <=>
          \A i \in ids : ~AnchorMismatch(ledger[i], Place(c, i), anchors))
    <3> SUFFICES ASSUME m \in 1..n
                 PROVE  Chain(c)[m].hash = anchors[c].head <=>
                          \A i \in ids : ~AnchorMismatch(ledger[i], Place(c, i), anchors)
      OBVIOUS
    <3>1. \A i \in ids : AnchorMismatch(ledger[i], Place(c, i), anchors) <=>
            Place(c, i) = m /\ ledger[i].hash # anchors[c].head
      BY <1>4, <2>4 DEF AnchorMismatch, m
    <3>2. \A i \in ids : Place(c, i) = m <=> i = Nth(ids, m)
      BY <2>1
    <3> QED
      BY <2>1, <2>2, <3>1, <3>2
  <2> QED
    BY <2>2, <2>5, <2>6, <1>4 DEF I5, ids, n, m
<1>5. (\A i \in DOMAIN ledger : ~AnchorMismatch(ledger[i], Place(ledger[i].chain, i), anchors)) <=>
        \A c \in DOMAIN anchors : \A i \in ChainIds(ledger, c) : ~AnchorMismatch(ledger[i], Place(c, i), anchors)
  BY <1>2 DEF ChainIds, AnchorMismatch
<1>6. (\A c \in Profile : I5(c)) <=> \A c \in DOMAIN anchors : I5(c)
  BY <1>1 DEF I5
<1>7. Report(anchors).errors = {} <=>
           /\ \A i \in DOMAIN ledger : Follows(ledger, i) /\ ~AnchorMismatch(ledger[i], Place(ledger[i].chain, i), anchors)
           /\ \A c \in DOMAIN anchors : ~(Cardinality(ChainIds(ledger, c)) < anchors[c].length)
  BY <1>1, CleanReport
<1>8. (\A c \in DOMAIN anchors : I5(c)) <=>
        /\ \A i \in DOMAIN ledger : ~AnchorMismatch(ledger[i], Place(ledger[i].chain, i), anchors)
        /\ \A c \in DOMAIN anchors : ~(Cardinality(ChainIds(ledger, c)) < anchors[c].length)
  BY <1>4, <1>5
<1> QED
  BY <1>3, <1>6, <1>7, <1>8 DEF VerdictRight

\* verify_chain, one pass over all chains at once, is clean exactly for the
\* ledgers its docstring describes, after any damage.
THEOREM VerdictRightHolds == Spec => []VerdictRight
<1>1. Linked => TypeOK
  BY DEF Linked
<1> QED
  BY <1>1, RightVerdict, LinkedHolds, AnchorsFitHolds, PTL

-----------------------------------------------------------------------------
(* What was anchored is kept                                               *)

\* What a clean run saw of a chain is sound, and its last event is the anchor.
SoundCopy(s, n, head) ==
  /\ n \in Nat \ {0} /\ s = [k \in 1..n |-> s[k]] /\ s[n].hash = head
  /\ \A k \in 1..n :
       /\ IsEvent(s[k]) /\ s[k].hash = compute_event_hash(s[k])
       /\ k > 1 => s[k].previous = s[k - 1].hash

SeenSound ==
  \A c \in DOMAIN seen :
    c \in DOMAIN anchors /\ SoundCopy(seen[c], anchors[c].length, anchors[c].head)

\* A sequence that has the elements of another begins with it.
LEMMA BeginsWith ==
  ASSUME NEW S, NEW s \in Seq(S), NEW t \in Seq(S), Len(s) <= Len(t), \A k \in 1..Len(s) : s[k] = t[k]
  PROVE  IsPrefix(s, t)
<1> DEFINE m == Len(s)
           n == Len(t)
<1>1. s \in Seq(S) /\ Len(s) = m /\ t \in Seq(S) /\ Len(t) = n /\ m \in Nat /\ n \in Nat /\ m <= n
      /\ \A k \in 1..m : s[k] = t[k]
  OBVIOUS
<1> HIDE DEF m, n
<1>2. m \in 0..Len(t) /\ \A k \in 1..m : k \in 1..n
  BY <1>1
<1>3. SubSeq(s, 1, m) = s
  BY <1>1, SubSeqFull
<1>4. SubSeq(t, 1, m) \in Seq(S) /\ Len(SubSeq(t, 1, m)) = m /\ \A k \in 1..m : SubSeq(t, 1, m)[k] = t[k]
  <2>1. \A k \in 1..m : t[k] \in S
    BY <1>1, <1>2
  <2>2. /\ SubSeq(t, 1, m) \in Seq(S)
        /\ Len(SubSeq(t, 1, m)) = IF 1 <= m THEN m - 1 + 1 ELSE 0
        /\ \A k \in 1..(m - 1 + 1) : SubSeq(t, 1, m)[k] = t[1 + k - 1]
    BY <1>1, <2>1, SubSeqProperties
  <2>3. m - 1 + 1 = m /\ (~(1 <= m) => m = 0) /\ \A k \in 1..m : 1 + k - 1 = k
    BY <1>1
  <2> QED
    BY <2>2, <2>3
<1>5. SubSeq(t, 1, m) = s
  BY <1>1, <1>4
<1> QED
  BY <1>1, <1>3, <1>5 DEF IsPrefix

\* Events of one hash are one event.
LEMMA SameEvent ==
  ASSUME NEW e, NEW f, IsEvent(e), IsEvent(f), e.hash = f.hash,
         e.hash = compute_event_hash(e), f.hash = compute_event_hash(f)
  PROVE  e = f
<1>1. e.chain = f.chain /\ e.content = f.content /\ e.previous = f.previous /\ e.time = f.time
  <2>1. <<e.chain, e.content, e.previous, e.time>> = <<f.chain, f.content, f.previous, f.time>>
    BY DEF compute_event_hash
  <2>2. \A a1, a2, a3, a4, b1, b2, b3, b4 :
          <<a1, a2, a3, a4>> = <<b1, b2, b3, b4>> => a1 = b1 /\ a2 = b2 /\ a3 = b3 /\ a4 = b4
    OBVIOUS
  <2> QED
    BY <2>1, <2>2
<1>2. e = [x \in {"chain", "content", "previous", "time", "hash"} |-> e[x]]
      /\ f = [x \in {"chain", "content", "previous", "time", "hash"} |-> f[x]]
  BY DEF IsEvent
<1> QED
  BY <1>1, <1>2

\* From the anchored event the chain is compared backwards: equal hashes are of
\* equal events, which have the hash of the one before them in them.
LEMMA KeptAnchored == TypeOK /\ AnchorsFit /\ SeenSound => AnchoredKept
<1> SUFFICES ASSUME TypeOK, AnchorsFit, SeenSound, Report(anchors).errors = {}, NEW c \in DOMAIN seen
             PROVE  IsPrefix(seen[c], Chain(c))
  BY DEF AnchoredKept
<1> DEFINE s == seen[c]
           t == Chain(c)
           m == anchors[c].length
           n == Cardinality(ChainIds(ledger, c))
<1>0. c \in DOMAIN anchors /\ c \in Profile /\ SoundCopy(s, m, anchors[c].head)
  BY DEF SeenSound, TypeOK
<1> HIDE DEF s, m
<1>1. /\ m \in Nat \ {0} /\ c \in Profile
      /\ s = [k \in 1..m |-> s[k]] /\ s[m].hash = anchors[c].head
      /\ \A k \in 1..m :
           /\ IsEvent(s[k]) /\ s[k].hash = compute_event_hash(s[k])
           /\ k > 1 => s[k].previous = s[k - 1].hash
  BY <1>0 DEF SoundCopy
<1>2. /\ n \in Nat /\ t = [k \in 1..n |-> t[k]]
      /\ \A k \in 1..n : IsEvent(t[k])
  <2>1. n \in Nat /\ \A k \in 1..n : Nth(ChainIds(ledger, c), k) \in ChainIds(ledger, c)
    BY Places
  <2>2. \A i \in ChainIds(ledger, c) : IsEvent(ledger[i])
    BY DEF TypeOK, ChainIds
  <2> QED
    BY <2>1, <2>2 DEF Chain
<1>3. I2(c) /\ I3(c) /\ I5(c)
  BY RightVerdict, <1>1 DEF VerdictRight
<1>4. /\ m \in 1..n /\ t[m].hash = s[m].hash
      /\ \A k \in 1..n : t[k].hash = compute_event_hash(t[k]) /\ (k > 1 => t[k].previous = t[k - 1].hash)
  <2>1. DOMAIN t = 1..n
    BY <1>2
  <2> QED
    BY <1>0, <1>1, <1>3, <2>1 DEF I2, I3, I5, m
<1> HIDE DEF t, m, n
<1>5. ASSUME NEW k \in 1..m, s[k].hash = t[k].hash PROVE s[k] = t[k]
  <2>1. k \in 1..n
    BY <1>1, <1>2, <1>4
  <2>2. IsEvent(s[k]) /\ IsEvent(t[k]) /\ s[k].hash = compute_event_hash(s[k]) /\ t[k].hash = compute_event_hash(t[k])
    BY <1>1, <1>2, <1>4, <2>1
  <2> QED
    BY <1>5, <2>2, SameEvent
<1>6. \A k \in 1..m : s[k].hash = t[k].hash
  <2> DEFINE other == {k \in 1..m : s[k].hash # t[k].hash}
  <2>1. SUFFICES ASSUME other # {} PROVE FALSE
    OBVIOUS
  <2>2. PICK k \in other : \A j \in other : j <= k
    <3>1. other \in SUBSET (1..m)
      OBVIOUS
    <3> HIDE DEF other
    <3> QED
      BY <1>1, <2>1, <3>1, Greatest
  <2>3. k \in 1..m /\ k \in Nat /\ k # m
    BY <1>1, <1>4
  <2>4. k + 1 \in 1..m /\ k + 1 \in 1..n /\ k + 1 > 1 /\ (k + 1) - 1 = k
    BY <1>1, <1>2, <1>4, <2>3
  <2>5. s[k + 1].hash = t[k + 1].hash
    <3>1. ~(k + 1 <= k)
      BY <2>3
    <3> QED
      BY <2>2, <2>4, <3>1
  <2>6. s[k + 1] = t[k + 1]
    BY <1>5, <2>4, <2>5
  <2>7. s[k + 1].previous = s[k].hash /\ t[k + 1].previous = t[k].hash
    BY <1>1, <1>4, <2>4
  <2> QED
    BY <2>2, <2>6, <2>7
<1>7. IsPrefix(s, t)
  <2>1. m <= n /\ m \in Nat
    BY <1>1, <1>2, <1>4
  <2>2. \A k \in 1..m : s[k] = t[k]
    BY <1>5, <1>6
  <2> DEFINE S == {t[k] : k \in 1..n}
  <2>3. \A k \in 1..m : k \in 1..n
    BY <1>2, <2>1
  <2>4. t \in [1..n -> S] /\ s \in [1..m -> S] /\ n \in Nat
    BY <1>1, <1>2, <2>2, <2>3
  <2> HIDE DEF S
  <2> QED
    <3>1. t \in Seq(S) /\ s \in Seq(S) /\ Len(s) = m /\ Len(t) = n
      BY <2>1, <2>4
    <3>2. Len(s) <= Len(t) /\ \A k \in 1..Len(s) : s[k] = t[k]
      BY <2>1, <2>2, <3>1
    <3> QED
      BY <3>1, <3>2, BeginsWith
<1> QED
  BY <1>7 DEF s, t

\* A clean run without anchors has seen sound chains, and anchors their ends.
LEMMA SeenWritten ==
  ASSUME Linked, EmitAnchors
  PROVE  SeenSound'
<1> DEFINE N == next_id - 1
           report == Report(<<>>)
           some == {c \in Profile : report.chains[c].length > 0}
<1>1. TypeOK /\ N \in Nat
  BY DEF Linked, TypeOK
<1>2. \A c \in Profile : report.chains[c] = SummaryAt(c, N)
  BY <1>1, Reported
<1>3. /\ anchors' = [c \in some |-> [length |-> report.chains[c].length, head |-> report.chains[c].head]]
      /\ seen' = [c \in IF report.errors = {} THEN some ELSE {} |-> Chain(c)]
  BY DEF EmitAnchors
<1>4. CASE report.errors # {}
  <2>1. DOMAIN seen' = {}
    BY <1>3, <1>4
  <2> QED
    BY <2>1 DEF SeenSound
<1>5. CASE report.errors = {}
  <2>1. \A i \in DOMAIN ledger : Follows(ledger, i)
    <3>1. DOMAIN <<>> \subseteq Profile
      OBVIOUS
    <3> QED
      BY <1>1, <1>5, <3>1, CleanReport
  <2>2. ASSUME NEW c \in some
        PROVE  SoundCopy(Chain(c), anchors'[c].length, anchors'[c].head)
    <3> DEFINE ids == ChainIds(ledger, c)
               n == Cardinality(ids)
               s == Chain(c)
    <3>1. /\ n \in Nat
          /\ \A i \in ids : Place(c, i) \in 1..n /\ Nth(ids, Place(c, i)) = i
          /\ \A k \in 1..n : Nth(ids, k) \in ids /\ Place(c, Nth(ids, k)) = k
          /\ \A i, j \in ids : i < j => Place(c, i) < Place(c, j)
      BY <1>1, Places
    <3>2. s = [k \in 1..n |-> s[k]] /\ DOMAIN s = 1..n /\ \A k \in 1..n : s[k] = ledger[Nth(ids, k)]
      BY DEF Chain
    <3>3. c \in Profile /\ anchors'[c] = [length |-> report.chains[c].length, head |-> report.chains[c].head]
          /\ report.chains[c].length > 0
      BY <1>3
    <3>4. Upto(ledger, c, N) = ids /\ ids \in SUBSET (1..N)
      BY <1>1 DEF TypeOK, Upto, ChainIds
    <3>5. report.chains[c].length = n /\ report.chains[c].head = Newest(ledger, ids).hash
      <4>1. report.chains[c] = SummaryAt(c, N)
        BY <1>2, <3>3
      <4> HIDE DEF report, ids
      <4> QED
        BY <3>4, <4>1 DEF SummaryAt
    <3>6. n \in Nat \ {0}
      BY <3>1, <3>3, <3>5
    <3>7. \A i \in ids : IsEvent(ledger[i])
      BY <1>1 DEF TypeOK, ChainIds
    <3>8. I2(c) /\ I3(c)
      <4>1. \A i \in ids : Follows(ledger, i)
        BY <2>1 DEF ChainIds
      <4> QED
        BY <1>1, <4>1, ChainSound
    <3>9. \A k \in 1..n : IsEvent(s[k]) /\ s[k].hash = compute_event_hash(s[k])
                          /\ (k > 1 => s[k].previous = s[k - 1].hash)
      BY <3>1, <3>2, <3>7, <3>8 DEF I2, I3
    <3> HIDE DEF ids, n, s, report, N
    <3>10. s[n].hash = report.chains[c].head
      <4> DEFINE last == Nth(ids, n)
      <4>1. n \in 1..n
        BY <3>6
      <4>2. last \in ids /\ Place(c, last) = n /\ s[n] = ledger[last]
        BY <3>1, <3>2, <4>1
      <4> HIDE DEF last
      <4>3. ASSUME NEW j \in ids PROVE j <= last
        <5>1. j \in Nat /\ last \in Nat
          BY <1>1, <3>4, <4>2
        <5>2. Place(c, j) \in Nat /\ Place(c, j) <= n
          BY <3>1
        <5>3. ~(last < j)
          BY <3>1, <3>6, <4>2, <5>2
        <5> QED
          BY <5>1, <5>3
      <4>4. Newest(ledger, ids) = [hash |-> ledger[last].hash, time |-> ledger[last].time]
        BY <1>1, <3>4, <4>2, <4>3, NewestOf
      <4> QED
        BY <3>5, <4>2, <4>4
    <3>11. anchors'[c].length = n /\ anchors'[c].head = s[n].hash
      BY <3>3, <3>5, <3>10
    <3>12. SoundCopy(s, n, s[n].hash)
      BY <3>2, <3>6, <3>9 DEF SoundCopy
    <3> QED
      BY <3>11, <3>12 DEF s
  <2>3. DOMAIN seen' = some /\ DOMAIN anchors' = some /\ \A c \in some : seen'[c] = Chain(c)
    BY <1>3, <1>5
  <2> HIDE DEF some, report
  <2> QED
    BY <2>2, <2>3 DEF SeenSound, SoundCopy, IsEvent, compute_event_hash
<1> QED
  BY <1>4, <1>5

LEMMA SeenStep == Linked /\ SeenSound /\ [Next]_vars => SeenSound'
<1> SUFFICES ASSUME Linked, SeenSound, [Next]_vars, ~EmitAnchors PROVE SeenSound'
  BY SeenWritten
<1>1. UNCHANGED <<anchors, seen>>
  BY DEF Next, vars, files, chains, Appends, AppendFirst, AppendNext, ReadHead, Flush, Conflict, Commit, Abort,
         Damage, Alter, Lose, Restore, Damages
<1> QED
  BY <1>1 DEF SeenSound, SoundCopy, IsEvent, compute_event_hash

LEMMA SeenStart == Init => SeenSound
<1>1. Init => DOMAIN seen = {}
  BY DEF Init
<1> QED
  BY <1>1 DEF SeenSound

\* Nothing that a clean run saw before it wrote the anchors can be altered or
\* lost without verify_chain reporting it against them, for any damages and
\* any appends after them.
THEOREM AnchoredKeptHolds == Spec => []AnchoredKept
<1>1. Linked => TypeOK
  BY DEF Linked
<1>2. Spec => []SeenSound
  BY SeenStart, SeenStep, LinkedHolds, PTL DEF Spec
<1> QED
  BY <1>1, <1>2, KeptAnchored, LinkedHolds, AnchorsFitHolds, PTL
=============================================================================
