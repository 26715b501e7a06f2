------------------------ MODULE ErasureLedgerProofs ------------------------
(***************************************************************************)
(* What the ledger is for, for any number of memorials, files, operators,  *)
(* faults, backups and restores: Sound is an inductive invariant, and the  *)
(* properties the runs check follow from it.                               *)
(***************************************************************************)
EXTENDS ErasureLedger, TLAPS

USE FileAssumption, BoundAssumption

-----------------------------------------------------------------------------
(* Commands and locks                                                      *)

\* The shapes a command has.
LEMMA Shapes ==
  ASSUME TypeOK, NEW o \in Operator
  PROVE  /\ command[o] \in Command
         /\ \/ command[o] = Idle
            \/ command[o].step = "next" /\ command[o].at \in Nat
            \/ /\ command[o].step \in {"append", "unlink"}
               /\ command[o].run \in {"erase", "reapply"}
               /\ command[o].memorial \in Memorial /\ command[o].todo \subseteq File
         /\ command[o] # Idle => command[o].step \in {"next", "append", "unlink"}
<1>1. command[o] \in Command BY DEF TypeOK
<1> QED BY <1>1 DEF Command, Idle

\* The ledger's lock leaves one command at work.
LEMMA Alone ==
  ASSUME TypeOK, NEW o \in Operator, NEW p \in Operator, p # o, o \in holder \/ command[o] # Idle
  PROVE  command[p] = Idle
  BY DEF TypeOK

\* What holds of commands and locks.
Locks ==
  /\ holder = {o \in Operator : command[o] # Idle}
  /\ writer = {o \in Operator : command[o].step \in {"append", "unlink"}}
  /\ \A o, p \in holder : o = p
  /\ command \in [Operator -> Command]

LEMMA Performs ==
  ASSUME TypeOK, NEW o \in Operator, NEW c \in Command, c.step # "idle",
         \A p \in Operator : p # o => command[p] = Idle,
         command' = [command EXCEPT ![o] = c], holder' = {o},
         writer' = IF c.step \in {"append", "unlink"} THEN {o} ELSE {}
  PROVE  Locks'
<1>1. command \in [Operator -> Command] BY DEF TypeOK
<1>2. command' \in [Operator -> Command] BY <1>1
<1>3. command'[o] = c /\ \A p \in Operator : p # o => command'[p] = Idle BY <1>1
<1>4. c # Idle BY DEF Idle
<1>5. holder' = {p \in Operator : command'[p] # Idle} BY <1>3, <1>4
<1>6. writer' = {p \in Operator : command'[p].step \in {"append", "unlink"}}
  <2>1. \A p \in Operator : p # o => command'[p].step \notin {"append", "unlink"} BY <1>3 DEF Idle
  <2> QED BY <2>1, <1>3
<1> QED BY <1>2, <1>5, <1>6 DEF Locks

LEMMA Closes ==
  ASSUME TypeOK, NEW o \in Operator, \A p \in Operator : p # o => command[p] = Idle, Close(o)
  PROVE  Locks' /\ \A p \in Operator : command'[p] = Idle
<1>1. command \in [Operator -> Command] BY DEF TypeOK
<1>2. command' = [command EXCEPT ![o] = Idle] BY DEF Close, Perform
<1>3. Idle \in Command BY DEF Command
<1>4. command' \in [Operator -> Command] BY <1>1, <1>2, <1>3
<1>5. \A p \in Operator : command'[p] = Idle BY <1>1, <1>2
<1>6. holder' = {} /\ writer' = {} BY DEF Close
<1>7. \A p \in Operator : command'[p].step \notin {"append", "unlink"} BY <1>5 DEF Idle
<1> QED BY <1>4, <1>5, <1>6, <1>7 DEF Locks

\* Who may open the ledger finds no command at work.
LEMMA Opens ==
  ASSUME TypeOK, NEW o \in Operator, open_ledger(o)
  PROVE  /\ \A p \in Operator : command[p] = Idle
         /\ writer = {}
         /\ holder' = {o}
<1>1. \A p \in Operator : command[p] = Idle BY DEF TypeOK, open_ledger
<1>2. writer = {} BY <1>1 DEF TypeOK, Idle
<1> QED BY <1>1, <1>2 DEF open_ledger

Busy == [step : {"append", "unlink"}, run : {"erase", "reapply"}, memorial : Memorial, todo : SUBSET File]

LEMMA TodoOf ==
  ASSUME NEW r \in Busy, NEW t
  PROVE  [r EXCEPT !.todo = t] = [step |-> r.step, run |-> r.run, memorial |-> r.memorial, todo |-> t]
  BY DEF Busy

\* A memorial a command is at work on.
LEMMA AtMemorial ==
  ASSUME TypeOK, NEW o \in Operator, command[o].step \in {"append", "unlink"}
  PROVE  /\ command[o] # Idle /\ command[o] \in Busy
         /\ \A p \in Operator : p # o => command[p] = Idle /\ command[p].step = "idle"
         /\ holder = {o} /\ writer = {o}
<1>1. command[o] # Idle BY DEF Idle
<1>2. command[o] \in Busy BY <1>1, Shapes DEF Command, Busy, Idle
<1>3. \A p \in Operator : p # o => command[p] = Idle BY <1>1, Alone
<1>4. \A p \in Operator : p # o => command[p].step = "idle" BY <1>3 DEF Idle
<1>5. holder = {o} BY <1>1, <1>3 DEF TypeOK
<1>6. writer = {o} BY <1>4 DEF TypeOK
<1> QED BY <1>1, <1>2, <1>3, <1>4, <1>5, <1>6

LEMMA PositionOf ==
  ASSUME NEW m \in Decided
  PROVE  Position(m) \in DOMAIN ledger /\ ledger[Position(m)] = m
  BY DEF Decided, Position

\* A ledger that does not repeat has one position for a memorial.
LEMMA OnePosition ==
  ASSUME ~repeats, NEW i \in DOMAIN ledger
  PROVE  Position(ledger[i]) = i
<1>1. ledger[i] \in Decided BY DEF Decided
<1> QED BY <1>1, PositionOf DEF repeats

-----------------------------------------------------------------------------
(* Databases                                                               *)

LEMMA Fields ==
  ASSUME NEW d, IsDatabase(d)
  PROVE  /\ d \in [memorials : SUBSET Memorial, media : SUBSET File,
                   erasures : [DOMAIN d.erasures -> Nat \ {0}]]
         /\ d.memorials \subseteq Memorial /\ d.media \subseteq File
         /\ DOMAIN d.erasures \subseteq Memorial
         /\ d.erasures \in [DOMAIN d.erasures -> Nat \ {0}]
         /\ \A f \in d.media : of[f] \in d.memorials
<1>1. PICK E \in SUBSET Memorial :
        d \in [memorials : SUBSET Memorial, media : SUBSET File, erasures : [E -> Nat \ {0}]]
  BY DEF IsDatabase
<1>2. d.erasures \in [E -> Nat \ {0}] /\ DOMAIN d.erasures = E BY <1>1
<1> QED BY <1>1, <1>2 DEF IsDatabase

LEMMA ADatabase ==
  ASSUME NEW M \in SUBSET Memorial, NEW F \in SUBSET File, NEW E \in SUBSET Memorial,
         NEW e \in [E -> Nat \ {0}], \A f \in F : of[f] \in M
  PROVE  IsDatabase([memorials |-> M, media |-> F, erasures |-> e])
<1> DEFINE d == [memorials |-> M, media |-> F, erasures |-> e]
<1>1. d \in [memorials : SUBSET Memorial, media : SUBSET File, erasures : [E -> Nat \ {0}]] OBVIOUS
<1>2. \A f \in d.media : of[f] \in d.memorials OBVIOUS
<1> HIDE DEF d
<1> QED BY <1>1, <1>2 DEF IsDatabase

-----------------------------------------------------------------------------
(* Sound holds at the start                                                *)

LEMMA Start == Init => Sound
<1> SUFFICES ASSUME Init PROVE Sound OBVIOUS
<1>1. IsDatabase(db)
  <2>1. db = [memorials |-> {}, media |-> {}, erasures |-> <<>>] BY DEF Init
  <2>2. db.erasures \in [{} -> Nat \ {0}] BY <2>1
  <2>3. db \in [memorials : SUBSET Memorial, media : SUBSET File, erasures : [{} -> Nat \ {0}]]
    BY <2>1, <2>2
  <2> QED BY <2>1, <2>3 DEF IsDatabase
<1>2. TypeOK
  <2>1. command \in [Operator -> Command] BY DEF Init, Command
  <2>2. copying \in [db : {copying.db}, left : SUBSET File, on : BOOLEAN] BY DEF Init, NoBackup
  <2>3. ledger \in Seq(Memorial) BY DEF Init
  <2>4. \A o \in Operator : command[o] = Idle BY DEF Init
  <2>5. holder = {o \in Operator : command[o] # Idle} BY <2>4 DEF Init
  <2>6. writer = {o \in Operator : command[o].step \in {"append", "unlink"}} BY <2>4 DEF Init, Idle
  <2> QED BY <1>1, <2>1, <2>2, <2>3, <2>5, <2>6 DEF Init, TypeOK
<1>3. ~repeats /\ Decided = {} BY DEF Init, repeats, Decided
<1>4. AtWork BY DEF Init, AtWork, Idle
<1>5. AllCovered BY <1>1 DEF Init, AllCovered, Covered, WithinLedger, NoBackup
<1> QED BY <1>2, <1>3, <1>4, <1>5 DEF Init, Sound, Accounted, DecidedBeforeLost, NotBack

-----------------------------------------------------------------------------
(* The web application                                                     *)

LEMMA NewMemorialStep ==
  ASSUME Sound, NEW m \in Memorial, new_memorial(m)
  PROVE  Sound'
<1> USE DEF new_memorial, ledgerFile, locks, backup
<1>1. TypeOK /\ IsDatabase(db) BY DEF Sound, TypeOK
<1>2. db' = [memorials |-> db.memorials \cup {m}, media |-> db.media, erasures |-> db.erasures]
  <2>1. db' = [db EXCEPT !.memorials = @ \cup {m}] OBVIOUS
  <2> HIDE DEF new_memorial
  <2> QED BY <1>1, <2>1, Fields
<1>3. IsDatabase(db') BY <1>1, <1>2, Fields, ADatabase
<1>4. db'.memorials = db.memorials \cup {m} /\ db'.media = db.media /\ db'.erasures = db.erasures
  BY <1>2
<1>5. TypeOK' BY <1>1, <1>3 DEF TypeOK
<1>6. m \notin Decided /\ m \notin erased BY DEF Sound, Accounted
<1>7. AtWork'
  BY <1>4, <1>6 DEF Sound, AtWork, ClearBefore, Decided, Position, MediaOf
<1>8. AllCovered'
  <2>1. Covered(db)' BY <1>3, <1>4 DEF Sound, AllCovered, Covered, WithinLedger
  <2>2. \A b \in backups : Covered(b)' BY DEF Sound, AllCovered, Covered, WithinLedger
  <2>3. copying.on => Covered(copying.db)' BY DEF Sound, AllCovered, Covered, WithinLedger
  <2> QED BY <2>1, <2>2, <2>3 DEF AllCovered, Covered, WithinLedger
<1>9. Accounted' /\ DecidedBeforeLost' /\ NotBack'
  BY <1>4, <1>6 DEF Sound, Accounted, DecidedBeforeLost, NotBack, Decided
<1> QED BY <1>5, <1>7, <1>8, <1>9 DEF Sound, repeats

LEMMA UploadWriteStep ==
  ASSUME Sound, NEW f \in File, UploadWrite(f)
  PROVE  Sound'
<1> USE DEF UploadWrite, ledgerFile, locks, backup, history
<1>1. TypeOK BY DEF Sound
<1>2. TypeOK' BY <1>1 DEF TypeOK
<1>3. upload' \in [File -> {"new", "written", "done", "died"}] /\ upload'[f] = "written"
      /\ \A g \in File : g # f => upload'[g] = upload[g]
  BY <1>1 DEF TypeOK
<1>4. f \notin db.media BY DEF Sound, AllCovered, Covered
<1>5. AtWork' BY <1>4 DEF Sound, AtWork, ClearBefore, Decided, Position, MediaOf
<1>6. AllCovered'
  <2>1. \A d : Covered(d) => Covered(d)' BY <1>3, Fields DEF Covered, WithinLedger
  <2> QED BY <2>1 DEF Sound, AllCovered, Covered, WithinLedger
<1>7. Accounted' BY <1>1, <1>3 DEF Sound, Accounted, Decided, TypeOK
<1>8. DecidedBeforeLost' BY DEF Sound, DecidedBeforeLost, Decided
<1> QED BY <1>2, <1>5, <1>6, <1>7, <1>8 DEF Sound, repeats, NotBack

LEMMA UploadCommitStep ==
  ASSUME Sound, NEW f \in File, UploadCommit(f)
  PROVE  Sound'
<1> USE DEF UploadCommit, ledgerFile, locks, backup, history
<1>1. TypeOK /\ IsDatabase(db) BY DEF Sound, TypeOK
<1>2. db' = [memorials |-> db.memorials, media |-> db.media \cup {f}, erasures |-> db.erasures]
  <2>1. db' = [db EXCEPT !.media = @ \cup {f}] OBVIOUS
  <2> HIDE DEF UploadCommit
  <2> QED BY <1>1, <2>1, Fields
<1>3. IsDatabase(db') BY <1>1, <1>2, Fields, ADatabase
<1>4. db'.memorials = db.memorials /\ db'.media = db.media \cup {f} /\ db'.erasures = db.erasures
  BY <1>2
<1>5. upload' \in [File -> {"new", "written", "done", "died"}] /\ upload'[f] = "done"
      /\ \A g \in File : g # f => upload'[g] = upload[g]
  BY <1>1 DEF TypeOK
<1>6. TypeOK' BY <1>1, <1>3, <1>5 DEF TypeOK
<1>7. \A o \in Operator : command[o].step # "unlink" BY <1>1 DEF TypeOK
<1>8. AtWork' BY <1>4, <1>7 DEF Sound, AtWork, ClearBefore, Decided
<1>9. AllCovered'
  <2>1. \A d : Covered(d) => Covered(d)' BY <1>5, Fields DEF Covered, WithinLedger
  <2>2. Covered(db)' BY <1>3, <1>4, <1>5, <1>1, Fields DEF Sound, AllCovered, Covered, WithinLedger
  <2>3. \A b \in backups : Covered(b)' BY <2>1 DEF Sound, AllCovered
  <2>4. copying.on => Covered(copying.db)' BY <2>1 DEF Sound, AllCovered
  <2>5. UNCHANGED <<backups, copying>> OBVIOUS
  <2> HIDE DEF UploadCommit
  <2> QED BY <2>2, <2>3, <2>4, <2>5 DEF AllCovered, Covered, WithinLedger
<1>10. Accounted' BY <1>1, <1>4, <1>5 DEF Sound, Accounted, Decided, TypeOK
<1>11. DecidedBeforeLost' /\ NotBack'
  BY <1>4 DEF Sound, DecidedBeforeLost, Decided, Accounted, NotBack
<1> QED BY <1>6, <1>8, <1>9, <1>10, <1>11 DEF Sound, repeats

LEMMA UploadEndStep ==
  ASSUME Sound, NEW f \in File, UploadRejected(f) \/ UploadDies(f)
  PROVE  Sound'
<1> USE DEF UploadRejected, UploadDies, Fault, ledgerFile, locks, backup, history, disk
<1>1. TypeOK BY DEF Sound
<1>2. f \notin db.media BY DEF Sound, AllCovered, Covered
<1>3. upload[f] = "written" /\ upload' \in [File -> {"new", "written", "done", "died"}]
      /\ \A g \in File : g # f => upload'[g] = upload[g]
  BY <1>1 DEF TypeOK
<1>4. files' \subseteq files /\ files \subseteq files' \cup {f} /\ db' = db /\ (f \in files' => upload'[f] = "died")
  BY <1>1 DEF TypeOK
<1>5. TypeOK' BY <1>1, <1>3, <1>4 DEF TypeOK
<1>6. AtWork' BY <1>2, <1>4 DEF Sound, AtWork, ClearBefore, Decided, Position, MediaOf
<1>7. AllCovered'
  <2>1. \A d : Covered(d) => Covered(d)' BY <1>3, Fields DEF Covered, WithinLedger
  <2> QED BY <2>1, <1>4 DEF Sound, AllCovered, Covered, WithinLedger
<1>8. Accounted'
  <2>1. upload'[f] # "written" BY <1>1 DEF TypeOK
  <2> QED BY <1>1, <1>3, <1>4, <2>1 DEF Sound, Accounted, Decided, TypeOK
<1>9. DecidedBeforeLost' BY <1>2, <1>4 DEF Sound, DecidedBeforeLost, Decided
<1> QED BY <1>4, <1>5, <1>6, <1>7, <1>8, <1>9 DEF Sound, repeats, NotBack

-----------------------------------------------------------------------------
(* Commands                                                                *)

LEMMA EraseBeginStep ==
  ASSUME Sound, NEW o \in Operator, NEW m \in Memorial, EraseBegin(o, m)
  PROVE  Sound'
<1> USE DEF EraseBegin, ledgerFile, backup, history, disk
<1>1. TypeOK /\ IsDatabase(db) BY DEF Sound, TypeOK
<1>2. /\ \A p \in Operator : command[p] = Idle
      /\ writer = {} /\ holder' = {o} /\ writer' = {o}
  BY <1>1, Opens
<1> DEFINE c == IF m \in Decided
                THEN [step |-> "unlink", run |-> "erase", memorial |-> m, todo |-> MediaOf(m)]
                ELSE [step |-> "append", run |-> "erase", memorial |-> m, todo |-> {}]
<1>3. c \in Command /\ c.step \in {"append", "unlink"} BY <1>1, Fields DEF Command, MediaOf
<1>4. command' = [command EXCEPT ![o] = c] BY DEF Perform, Removes
<1>5. command'[o] = c /\ \A p \in Operator : p # o => command'[p] = Idle BY <1>1, <1>2, <1>4 DEF TypeOK
<1>6. TypeOK'
  <2>1. Locks' BY <1>1, <1>2, <1>3, <1>4, Performs
  <2> QED BY <1>1, <2>1 DEF TypeOK, Locks
<1>7. AtWork'
  <2>1. \A p \in Operator : p # o => command'[p].step = "idle" BY <1>5 DEF Idle
  <2> QED BY <1>5, <2>1 DEF AtWork, MediaOf, Decided
<1> QED BY <1>6, <1>7 DEF Sound, repeats, AllCovered, Covered, WithinLedger, Accounted, Decided,
           DecidedBeforeLost, NotBack

LEMMA AppendStep ==
  ASSUME Sound, NEW o \in Operator, append(o)
  PROVE  Sound'
<1> USE DEF append, ledgerFile, backup, history, disk, locks
<1>1. TypeOK /\ IsDatabase(db) BY DEF Sound, TypeOK
<1>2. /\ command[o] # Idle /\ command[o] \in Busy /\ holder = {o} /\ writer = {o}
      /\ \A p \in Operator : p # o => command[p] = Idle /\ command[p].step = "idle"
  BY <1>1, AtMemorial
<1>3. PICK m \in Memorial : m = command[o].memorial BY <1>2 DEF Busy
<1>4. command[o].run = "erase" /\ m \in db.memorials \ Decided BY <1>3 DEF Sound, AtWork
<1> DEFINE c == [step |-> "unlink", run |-> "erase", memorial |-> m, todo |-> MediaOf(m)]
<1>5. c \in Command /\ c.step = "unlink" BY <1>1, Fields DEF Command, MediaOf
<1>6. command' = [command EXCEPT ![o] = c] BY <1>3 DEF Perform, Removes
<1>7. command'[o] = c /\ \A p \in Operator : p # o => command'[p].step = "idle"
  BY <1>1, <1>2, <1>6 DEF TypeOK
<1>8. ledger \in Seq(Memorial) /\ ledger' = Append(ledger, m) BY <1>1, <1>3 DEF TypeOK
<1>9. /\ DOMAIN ledger' = 1..Len(ledger) + 1 /\ DOMAIN ledger = 1..Len(ledger) /\ Len(ledger) \in Nat
      /\ ledger' \in Seq(Memorial)
      /\ \A i \in DOMAIN ledger : ledger'[i] = ledger[i]
      /\ ledger'[Len(ledger) + 1] = m
  BY <1>8
<1>10. Decided' = Decided \cup {m} BY <1>9 DEF Decided
<1>11. TypeOK'
  <2>1. Locks' BY <1>1, <1>2, <1>5, <1>6, Performs
  <2> QED BY <1>1, <1>9, <2>1 DEF TypeOK, Locks
<1>12. ~repeats' BY <1>4, <1>9 DEF Sound, repeats, Decided
<1>13. AtWork' BY <1>4, <1>7, <1>10 DEF AtWork, MediaOf
<1>14. AllCovered'
  <2>1. \A d : Covered(d) => Covered(d)' BY <1>9 DEF Covered, WithinLedger
  <2> QED BY <2>1 DEF Sound, AllCovered, Covered, WithinLedger
<1>15. Accounted' /\ DecidedBeforeLost' /\ NotBack'
  BY <1>4, <1>10 DEF Sound, Accounted, DecidedBeforeLost, NotBack, AllCovered, Covered
<1> QED BY <1>11, <1>12, <1>13, <1>14, <1>15 DEF Sound

LEMMA UnlinkStep ==
  ASSUME Sound, NEW o \in Operator, NEW f \in File, Unlink(o, f)
  PROVE  Sound'
<1> USE DEF Unlink, ledgerFile, backup, history, locks
<1>1. TypeOK /\ IsDatabase(db) BY DEF Sound, TypeOK
<1>2. /\ command[o] # Idle /\ command[o] \in Busy /\ holder = {o} /\ writer = {o}
      /\ \A p \in Operator : p # o => command[p] = Idle /\ command[p].step = "idle"
  BY <1>1, AtMemorial
<1>3. PICK m \in Memorial : m = command[o].memorial BY <1>2 DEF Busy
<1>4. /\ m \in db.memorials \cap Decided /\ f \in MediaOf(m)
      /\ command[o].todo \subseteq MediaOf(m) /\ MediaOf(m) \cap files \subseteq command[o].todo
      /\ command[o].run = "reapply" => ClearBefore(Position(m))
  BY <1>3 DEF Sound, AtWork
<1> DEFINE c == [step |-> "unlink", run |-> command[o].run, memorial |-> m, todo |-> command[o].todo \ {f}]
<1>5. command' = [command EXCEPT ![o] = c]
  <2>1. command' = [command EXCEPT ![o] = [command[o] EXCEPT !.todo = @ \ {f}]] BY DEF Perform
  <2>2. command[o].step = "unlink" OBVIOUS
  <2> HIDE DEF Unlink
  <2>3. [command[o] EXCEPT !.todo = @ \ {f}] = c BY <1>2, <1>3, <2>2, TodoOf
  <2> QED BY <2>1, <2>3
<1>6. c \in Command /\ c.step = "unlink" BY <1>2, <1>3 DEF Command, Busy
<1>7. command'[o] = c /\ \A p \in Operator : p # o => command'[p].step = "idle"
  BY <1>1, <1>2, <1>5 DEF TypeOK
<1>8. TypeOK'
  <2>1. Locks' BY <1>1, <1>2, <1>5, <1>6, Performs
  <2> QED BY <1>1, <2>1 DEF TypeOK, Locks
<1>9. AtWork'
  <2>1. Decided' = Decided /\ db' = db /\ (ClearBefore(Position(m)) => ClearBefore(Position(m))')
        /\ MediaOf(m)' = MediaOf(m)
    BY DEF Decided, ClearBefore, Position, MediaOf
  <2>2. MediaOf(m) \cap files' \subseteq c.todo BY <1>4
  <2>3. c.todo \subseteq MediaOf(m) BY <1>4
  <2>4. c.step = "unlink" /\ c.memorial = m /\ c.run = command[o].run OBVIOUS
  <2> HIDE DEF Unlink, c
  <2> QED BY <1>4, <1>7, <2>1, <2>2, <2>3, <2>4 DEF AtWork
<1>10. AllCovered' BY DEF Sound, AllCovered, Covered, WithinLedger
<1>11. Accounted'
  <2>1. upload[f] = "done" BY <1>4 DEF MediaOf, Sound, AllCovered, Covered
  <2> QED BY <2>1 DEF Sound, Accounted, Decided
<1>12. DecidedBeforeLost' /\ NotBack'
  BY <1>4 DEF Sound, DecidedBeforeLost, NotBack, Decided, MediaOf
<1> QED BY <1>8, <1>9, <1>10, <1>11, <1>12 DEF Sound, repeats

\* The database a commit or a reapply leaves: rows of some memorials and their
\* media, and one more position registered.
LEMMA Registers ==
  ASSUME IsDatabase(db), WithinLedger(db), NEW i \in DOMAIN ledger, ledger[i] \in Memorial,
         ledger \in Seq(Memorial), NEW M \in SUBSET db.memorials, NEW F \in SUBSET db.media, \A f \in F : of[f] \in M,
         NEW keep \in BOOLEAN,
         db' = [memorials |-> M, media |-> F,
                erasures |-> [x \in registered \cup {ledger[i]} |->
                  IF x = ledger[i] /\ ~(keep /\ x \in registered) THEN i ELSE db.erasures[x]]],
         ledger' = ledger
  PROVE  /\ IsDatabase(db)' /\ WithinLedger(db)'
         /\ db'.memorials = M /\ db'.media = F
<1> DEFINE E == registered \cup {ledger[i]}
           e == [x \in E |-> IF x = ledger[i] /\ ~(keep /\ x \in registered) THEN i ELSE db.erasures[x]]
<1>1. i \in Nat \ {0} OBVIOUS
<1>2. E \in SUBSET Memorial BY Fields DEF registered
<1>3. e \in [E -> Nat \ {0}] BY <1>1, Fields DEF registered
<1>4. M \in SUBSET Memorial /\ F \in SUBSET File BY Fields
<1>5. db' = [memorials |-> M, media |-> F, erasures |-> e] OBVIOUS
<1>6. \A x \in E : e[x] \in DOMAIN ledger /\ ledger[e[x]] = x BY DEF WithinLedger, registered
<1>7. DOMAIN e = E OBVIOUS
<1> HIDE DEF e, E
<1>8. IsDatabase(db') BY <1>2, <1>3, <1>4, <1>5, ADatabase
<1>9. WithinLedger(db)' BY <1>5, <1>6, <1>7 DEF WithinLedger
<1> QED BY <1>5, <1>8, <1>9

LEMMA CommitStep ==
  ASSUME Sound, NEW o \in Operator, Commit(o)
  PROVE  Sound'
<1> USE DEF Commit, ledgerFile, backup
<1>1. TypeOK /\ IsDatabase(db) /\ WithinLedger(db) BY DEF Sound, TypeOK, AllCovered, Covered
<1>2. /\ command[o] # Idle /\ command[o] \in Busy /\ holder = {o} /\ writer = {o}
      /\ \A p \in Operator : p # o => command[p] = Idle /\ command[p].step = "idle"
  BY <1>1, AtMemorial
<1>3. PICK m \in Memorial : m = command[o].memorial BY <1>2 DEF Busy
<1>4. /\ m \in db.memorials \cap Decided /\ MediaOf(m) \cap files = {}
      /\ command[o].run = "reapply" => ClearBefore(Position(m))
  BY <1>3 DEF Sound, AtWork
<1>5. PICK i \in DOMAIN ledger : i = Position(m) /\ ledger[i] = m BY <1>4, PositionOf
<1>6. IsDatabase(db)' /\ WithinLedger(db)' /\ db'.memorials = db.memorials \ {m}
      /\ db'.media = db.media \ MediaOf(m)
  <2>1. db' = [memorials |-> db.memorials \ {m}, media |-> db.media \ MediaOf(m),
               erasures |-> [x \in registered \cup {ledger[i]} |->
                 IF x = ledger[i] /\ ~(FALSE /\ x \in registered) THEN i ELSE db.erasures[x]]]
    BY <1>3, <1>5 DEF Without
  <2>2. \A f \in db.media \ MediaOf(m) : of[f] \in db.memorials \ {m} BY <1>1, Fields DEF MediaOf
  <2>3. ledger \in Seq(Memorial) /\ ledger[i] \in Memorial BY <1>1, <1>5 DEF TypeOK
  <2> DEFINE M == db.memorials \ {m}
             F == db.media \ MediaOf(m)
  <2>4. M \in SUBSET db.memorials /\ F \in SUBSET db.media OBVIOUS
  <2>5. ledger' = ledger OBVIOUS
  <2> HIDE DEF Commit, M, F
  <2> QED BY <1>1, <2>1, <2>2, <2>3, <2>4, <2>5, Registers DEF M, F
<1>7. erased' = erased \cup {m} /\ created' = created /\ files' = files BY <1>3
<1>8. TypeOK' /\ AtWork'
  <2>1. CASE command[o].run = "erase"
    <3>1. Close(o) BY <2>1
    <3>2. Locks' /\ \A p \in Operator : command'[p] = Idle BY <1>1, <1>2, <3>1, Closes
    <3>3. TypeOK' BY <1>1, <1>3, <1>6, <3>2 DEF TypeOK, Locks
    <3>4. AtWork' BY <3>2 DEF AtWork, Idle
    <3> QED BY <3>3, <3>4
  <2>2. CASE command[o].run # "erase"
    <3> DEFINE c == [step |-> "next", at |-> i + 1]
    <3>1. ledger \in Seq(Memorial) /\ i \in 1..Len(ledger) /\ Len(ledger) \in Nat BY <1>1 DEF TypeOK
    <3>2. c \in Command /\ c.step = "next" BY <3>1 DEF Command
    <3>3. command' = [command EXCEPT ![o] = c] BY <1>3, <1>5, <2>2 DEF Perform
    <3>4. writer' = {} /\ holder' = {o} BY <1>2, <2>2
    <3>5. Locks' BY <1>1, <1>2, <3>2, <3>3, <3>4, Performs
    <3>6. TypeOK' BY <1>1, <1>3, <1>6, <3>5 DEF TypeOK, Locks
    <3>7. command'[o] = c /\ \A p \in Operator : p # o => command'[p].step = "idle"
      BY <1>1, <1>2, <3>3 DEF TypeOK
    <3>8. ledger' = ledger OBVIOUS
    <3>9. ClearBefore(i + 1)'
      <4>1. ClearBefore(i) BY <1>2, <1>4, <1>5, <2>2 DEF Busy
      <4>2. SUFFICES ASSUME NEW j \in DOMAIN ledger, j < i + 1 PROVE ledger[j] \notin db'.memorials
        BY <3>8 DEF ClearBefore
      <4>3. j < i \/ j = i BY <3>1, <4>2
      <4> QED BY <1>5, <1>6, <4>1, <4>3 DEF ClearBefore
    <3> HIDE DEF Commit
    <3> QED BY <3>1, <3>6, <3>7, <3>8, <3>9 DEF AtWork
  <2> QED BY <2>1, <2>2
<1>9. AllCovered'
  <2>1. \A d : Covered(d) => Covered(d)' BY <1>7 DEF Covered, WithinLedger
  <2>2. Covered(db)' BY <1>6, <1>7 DEF Sound, AllCovered, Covered
  <2>3. \A b \in backups : Covered(b)' BY <2>1 DEF Sound, AllCovered
  <2>4. copying.on => Covered(copying.db)' BY <2>1 DEF Sound, AllCovered
  <2>5. UNCHANGED <<backups, copying>> OBVIOUS
  <2> HIDE DEF Commit
  <2> QED BY <2>2, <2>3, <2>4, <2>5 DEF AllCovered, Covered, WithinLedger
<1>10. Decided' = Decided /\ upload' = upload BY DEF Decided
<1>11. Accounted' BY <1>4, <1>6, <1>7, <1>10 DEF Sound, Accounted
<1>12. DecidedBeforeLost' /\ NotBack'
  BY <1>6, <1>7, <1>10 DEF Sound, DecidedBeforeLost, NotBack
<1> QED BY <1>8, <1>9, <1>11, <1>12 DEF Sound, repeats

LEMMA ReapplyBeginStep ==
  ASSUME Sound, NEW o \in Operator, ReapplyBegin(o)
  PROVE  Sound'
<1> USE DEF ReapplyBegin, ledgerFile, backup, history, disk
<1> DEFINE c == [step |-> "next", at |-> 1]
<1>1. TypeOK /\ ledger \in Seq(Memorial) /\ Len(ledger) \in Nat BY DEF Sound, TypeOK
<1>2. /\ \A p \in Operator : command[p] = Idle
      /\ writer = {} /\ holder' = {o} /\ writer' = {}
  BY <1>1, Opens
<1>3. c \in Command /\ c.step = "next" BY DEF Command
<1>4. command' = [command EXCEPT ![o] = c] BY DEF Perform
<1>5. Locks' BY <1>1, <1>2, <1>3, <1>4, Performs
<1>6. TypeOK' BY <1>1, <1>5 DEF TypeOK, Locks
<1>7. command'[o] = c /\ \A p \in Operator : p # o => command'[p].step = "idle"
  BY <1>1, <1>2, <1>4 DEF TypeOK, Idle
<1>8. AtWork'
  <2>1. ledger' = ledger /\ ClearBefore(1)' BY <1>1 DEF ClearBefore
  <2> HIDE DEF ReapplyBegin
  <2> QED BY <1>1, <1>7, <2>1 DEF AtWork
<1> QED BY <1>6, <1>8 DEF Sound, repeats, AllCovered, Covered, WithinLedger, Accounted, Decided,
           DecidedBeforeLost, NotBack

LEMMA ReapplyEntryStep ==
  ASSUME Sound, NEW o \in Operator, ReapplyEntry(o)
  PROVE  Sound'
<1> USE DEF ReapplyEntry, ledgerFile, backup, history
<1>1. TypeOK /\ IsDatabase(db) /\ WithinLedger(db) /\ ledger \in Seq(Memorial) /\ Len(ledger) \in Nat
  BY DEF Sound, TypeOK, AllCovered, Covered
<1>2. PICK i \in DOMAIN ledger : i = command[o].at OBVIOUS
<1>3. i \in 1..Len(ledger) /\ ledger[i] \in Memorial BY <1>1
<1>4. command[o] # Idle /\ ClearBefore(i) BY <1>2 DEF Idle, Sound, AtWork
<1>5. holder = {o} /\ \A p \in Operator : p # o => command[p] = Idle BY <1>1, <1>4, Alone DEF TypeOK
<1>6. CASE ledger[i] \in db.memorials
  <2> DEFINE m == ledger[i]
             c == [step |-> "unlink", run |-> "reapply", memorial |-> m, todo |-> MediaOf(m)]
  <2>1. c \in Command /\ c.step = "unlink" BY <1>1, <1>3, Fields DEF Command, MediaOf
  <2>2. command' = [command EXCEPT ![o] = c] /\ writer' = {o} /\ holder' = {o} /\ db' = db
    BY <1>2, <1>5, <1>6 DEF Perform, Removes
  <2>3. Locks' BY <1>1, <1>5, <2>1, <2>2, Performs
  <2>4. TypeOK' BY <1>1, <2>2, <2>3 DEF TypeOK, Locks
  <2>5. command'[o] = c /\ \A p \in Operator : p # o => command'[p].step = "idle"
    BY <1>1, <1>5, <2>2 DEF TypeOK, Idle
  <2>6. ledger[i] \in Decided BY DEF Decided
  <2>7. Position(ledger[i]) = i BY OnePosition DEF Sound
  <2>8. ledger' = ledger /\ files' = files OBVIOUS
  <2>9. Decided' = Decided /\ Position(ledger[i])' = i BY <2>7, <2>8 DEF Decided, Position
  <2>10. ClearBefore(i)' BY <1>4, <2>2, <2>8 DEF ClearBefore
  <2>11. AtWork'
    <3> HIDE DEF ReapplyEntry
    <3> QED BY <1>6, <2>2, <2>5, <2>6, <2>8, <2>9, <2>10 DEF AtWork, MediaOf
  <2> QED BY <2>2, <2>4, <2>11 DEF Sound, repeats, AllCovered, Covered, WithinLedger, Accounted, Decided,
             DecidedBeforeLost, NotBack
<1>7. CASE ledger[i] \notin db.memorials
  <2> DEFINE c == [step |-> "next", at |-> i + 1]
  <2>1. c \in Command /\ c.step = "next" BY <1>3 DEF Command
  <2>2. command' = [command EXCEPT ![o] = c] /\ holder' = {o} /\ writer' = {}
    BY <1>2, <1>5, <1>7 DEF Perform
  <2>3. Locks' BY <1>1, <1>5, <2>1, <2>2, Performs
  <2>4. IsDatabase(db)' /\ WithinLedger(db)' /\ db'.memorials = db.memorials /\ db'.media = db.media
    <3>1. db' = [db EXCEPT !.erasures = [x \in registered \cup {ledger[i]} |->
                   IF x \in registered THEN db.erasures[x] ELSE i]]
      BY <1>2, <1>7
    <3>2. db' = [memorials |-> db.memorials, media |-> db.media,
                 erasures |-> [x \in registered \cup {ledger[i]} |->
                   IF x \in registered THEN db.erasures[x] ELSE i]]
      <4> HIDE DEF ReapplyEntry
      <4> QED BY <1>1, <3>1, Fields
    <3>3. db' = [memorials |-> db.memorials, media |-> db.media,
                 erasures |-> [x \in registered \cup {ledger[i]} |->
                   IF x = ledger[i] /\ ~(TRUE /\ x \in registered) THEN i ELSE db.erasures[x]]]
      BY <3>2
    <3>4. ledger' = ledger /\ \A f \in db.media : of[f] \in db.memorials BY <1>1, Fields
    <3> DEFINE M == db.memorials
               F == db.media
    <3>5. M \in SUBSET db.memorials /\ F \in SUBSET db.media OBVIOUS
    <3> HIDE DEF ReapplyEntry, M, F
    <3> QED BY <1>1, <1>3, <3>3, <3>4, <3>5, Registers DEF M, F
  <2>5. TypeOK' BY <1>1, <2>3, <2>4 DEF TypeOK, Locks
  <2>6. command'[o] = c /\ \A p \in Operator : p # o => command'[p].step = "idle"
    BY <1>1, <1>5, <2>2 DEF TypeOK, Idle
  <2>7. ClearBefore(i + 1)'
    <3>1. SUFFICES ASSUME NEW j \in DOMAIN ledger, j < i + 1 PROVE ledger[j] \notin db'.memorials
      BY DEF ClearBefore
    <3>2. j < i \/ j = i BY <1>1, <1>3, <3>1
    <3> QED BY <1>4, <1>7, <2>4, <3>2 DEF ClearBefore
  <2>8. ledger' = ledger OBVIOUS
  <2>9. AtWork'
    <3> HIDE DEF ReapplyEntry
    <3> QED BY <1>1, <1>3, <2>6, <2>7, <2>8 DEF AtWork
  <2>10. AllCovered'
    <3>1. \A d : Covered(d) => Covered(d)' BY DEF Covered, WithinLedger
    <3>2. Covered(db)' BY <2>4 DEF Sound, AllCovered, Covered
    <3>3. \A b \in backups : Covered(b)' BY <3>1 DEF Sound, AllCovered
    <3>4. copying.on => Covered(copying.db)' BY <3>1 DEF Sound, AllCovered
    <3>5. UNCHANGED <<backups, copying>> OBVIOUS
    <3> HIDE DEF ReapplyEntry
    <3> QED BY <3>2, <3>3, <3>4, <3>5 DEF AllCovered, Covered, WithinLedger
  <2> QED BY <2>4, <2>5, <2>9, <2>10 DEF Sound, repeats, Accounted, Decided, DecidedBeforeLost, NotBack
<1> QED BY <1>6, <1>7

LEMMA ReapplyDoneStep ==
  ASSUME Sound, NEW o \in Operator, ReapplyDone(o)
  PROVE  Sound'
<1> USE DEF ReapplyDone, ledgerFile, backup, history, disk
<1>1. TypeOK /\ ledger \in Seq(Memorial) /\ Len(ledger) \in Nat BY DEF Sound, TypeOK
<1>2. command[o] # Idle /\ command[o].at = Len(ledger) + 1 /\ ClearBefore(command[o].at)
  BY <1>1 DEF Idle, Sound, AtWork
<1>3. Locks' /\ \A p \in Operator : command'[p] = Idle BY <1>1, <1>2, Alone, Closes
<1>4. TypeOK' BY <1>1, <1>3 DEF TypeOK, Locks
<1>5. AtWork' BY <1>3 DEF AtWork, Idle
<1>6. NotBack'
  <2>1. \A m \in Decided : m \notin db.memorials BY <1>1, <1>2 DEF Decided, ClearBefore
  <2> QED BY <2>1 DEF Sound, Accounted, NotBack
<1> QED BY <1>4, <1>5, <1>6 DEF Sound, repeats, AllCovered, Covered, WithinLedger, Accounted, Decided,
           DecidedBeforeLost

LEMMA FailsStep ==
  ASSUME Sound, NEW o \in Operator, Fails(o)
  PROVE  Sound'
<1> USE DEF Fails, Fault, backup, history, disk
<1>1. TypeOK BY DEF Sound
<1>2. Locks' /\ \A p \in Operator : command'[p] = Idle BY <1>1, Alone, Closes
<1>3. torn' \in BOOLEAN OBVIOUS
<1>4. TypeOK' BY <1>1, <1>2, <1>3 DEF TypeOK, Locks
<1>5. AtWork' BY <1>2 DEF AtWork, Idle
<1> QED BY <1>4, <1>5 DEF Sound, repeats, AllCovered, Covered, WithinLedger, Accounted, Decided,
           DecidedBeforeLost, NotBack

-----------------------------------------------------------------------------
(* Backup and restore                                                      *)

\* Steps of a backup, of the server and of the ledger's last line leave what
\* Sound is about alone, but for the copy.
LEMMA KeepsMost ==
  ASSUME Sound, TypeOK', UNCHANGED <<db, files, ledger, command, upload, created, erased>>,
         \A b \in backups' : b \in backups \/ Covered(b),
         copying'.on => Covered(copying'.db),
         server' # "restored" => server # "restored"
  PROVE  Sound'
<1>1. \A d : Covered(d) => Covered(d)' BY DEF Covered, WithinLedger
<1>2. Covered(db)' BY <1>1 DEF Sound, AllCovered
<1>3. \A b \in backups' : Covered(b)' BY <1>1 DEF Sound, AllCovered
<1>4. copying'.on => Covered(copying.db)' BY DEF Covered, WithinLedger
<1>5. AllCovered' BY <1>2, <1>3, <1>4 DEF AllCovered, Covered, WithinLedger
<1>6. AtWork' BY DEF Sound, AtWork, ClearBefore, Decided, Position, MediaOf
<1> QED BY <1>5, <1>6 DEF Sound, repeats, Accounted, Decided, DecidedBeforeLost, NotBack

LEMMA MaintainStep ==
  ASSUME Sound, Maintain
  PROVE  Sound'
<1>1. TypeOK BY DEF Sound
<1>2. CASE RemovePartialLine
  <2>1. TypeOK' BY <1>1, <1>2 DEF RemovePartialLine, TypeOK, disk, locks, backup, history
  <2> QED BY <1>2, <2>1, KeepsMost DEF Sound, AllCovered, RemovePartialLine, disk, locks, backup, history
<1>3. CASE BackupDatabase
  <2>1. copying' = [db |-> db, left |-> db.media, on |-> TRUE] BY <1>3 DEF BackupDatabase
  <2>2. copying' \in [db : {copying'.db}, left : SUBSET File, on : BOOLEAN] /\ copying'.db = db
    BY <1>1, <2>1, Fields DEF TypeOK
  <2>3. TypeOK' BY <1>1, <1>3, <2>2 DEF BackupDatabase, TypeOK, disk, ledgerFile, locks, history
  <2> QED BY <1>3, <2>2, <2>3, KeepsMost
          DEF Sound, AllCovered, BackupDatabase, disk, ledgerFile, locks, history
<1>4. CASE \E f \in File : BackupFile(f)
  <2>1. copying' \in [db : {copying'.db}, left : SUBSET File, on : BOOLEAN]
        /\ (copying'.on => copying.on /\ copying'.db = copying.db)
    <3>1. copying \in [db : {copying.db}, left : SUBSET File, on : BOOLEAN] BY <1>1 DEF TypeOK
    <3>2. PICK f \in File : f \in copying.left /\ copying' = IF f \in files THEN [copying EXCEPT !.left = @ \ {f}] ELSE NoBackup
      BY <1>4 DEF BackupFile
    <3>3. CASE f \in files
      <4>1. copying' = [db |-> copying.db, left |-> copying.left \ {f}, on |-> copying.on]
        BY <3>1, <3>2, <3>3
      <4> QED BY <3>1, <4>1
    <3>4. CASE f \notin files BY <3>2, <3>4 DEF NoBackup
    <3> QED BY <3>3, <3>4
  <2>2. TypeOK' BY <1>1, <1>4, <2>1 DEF BackupFile, TypeOK, disk, ledgerFile, locks, history
  <2> QED BY <1>4, <2>1, <2>2, KeepsMost
          DEF Sound, AllCovered, BackupFile, disk, ledgerFile, locks, history
<1>5. CASE BackupDone
  <2>1. Covered(copying.db) /\ backups' = backups \cup {copying.db} /\ copying' = NoBackup
    BY <1>5 DEF BackupDone, Sound, AllCovered
  <2>2. copying' \in [db : {copying'.db}, left : SUBSET File, on : BOOLEAN] /\ ~copying'.on
    BY <2>1 DEF NoBackup
  <2>3. TypeOK' BY <1>1, <1>5, <2>1, <2>2 DEF BackupDone, Covered, TypeOK, disk, ledgerFile, locks, history
  <2> QED BY <1>5, <2>1, <2>2, <2>3, KeepsMost DEF BackupDone, disk, ledgerFile, locks, history
<1>6. CASE GoLive
  <2>1. TypeOK' BY <1>1, <1>6 DEF GoLive, TypeOK, disk, ledgerFile, locks, backup, history
  <2> QED BY <1>6, <2>1, KeepsMost DEF Sound, AllCovered, GoLive, disk, ledgerFile, locks, backup, history
<1>7. ASSUME NEW b \in backups, Restore(b)
      PROVE  Sound'
  <2> USE <1>7 DEF Restore, ledgerFile, locks, backup
  <2>1. Covered(b) BY DEF Sound, AllCovered
  <2>2. upload' \in [File -> {"new", "done"}] /\ \A f \in File : upload[f] = "done" => upload'[f] = "done"
    BY <1>1 DEF TypeOK
  <2>3. TypeOK' BY <1>1, <2>1, <2>2, Fields DEF TypeOK, Covered
  <2>4. AtWork' BY DEF AtWork, Idle
  <2>5. \A d : Covered(d) => Covered(d)' BY <2>2, Fields DEF Covered, WithinLedger
  <2>6. AllCovered'
    <3>1. \A d \in backups : Covered(d)' BY <2>5 DEF Sound, AllCovered
    <3>2. copying.on => Covered(copying.db)' BY <2>5 DEF Sound, AllCovered
    <3>3. UNCHANGED <<backups, copying>> /\ db' \in backups OBVIOUS
    <3> HIDE <1>7 DEF Restore
    <3> QED BY <3>1, <3>2, <3>3 DEF AllCovered, Covered, WithinLedger
  <2>7. Accounted' BY <2>2 DEF Sound, Accounted, Decided
  <2> QED BY <2>3, <2>4, <2>6, <2>7 DEF Sound, repeats, DecidedBeforeLost, NotBack
<1> QED BY <1>2, <1>3, <1>4, <1>5, <1>6, <1>7 DEF Maintain

-----------------------------------------------------------------------------
(* The theorems                                                            *)

LEMMA SoundStep == Sound /\ [Next]_vars => Sound'
<1> SUFFICES ASSUME Sound, [Next]_vars PROVE Sound' OBVIOUS
<1>1. ASSUME NEW o \in Operator, Operate(o) PROVE Sound'
  BY <1>1, EraseBeginStep, AppendStep, UnlinkStep, CommitStep, ReapplyBeginStep, ReapplyEntryStep,
     ReapplyDoneStep, FailsStep DEF Operate
<1>2. CASE Use
  BY <1>2, NewMemorialStep, UploadWriteStep, UploadCommitStep, UploadEndStep DEF Use
<1>3. CASE Maintain BY <1>3, MaintainStep
<1>4. CASE UNCHANGED vars
  <2>1. TypeOK' BY <1>4 DEF vars, disk, ledgerFile, locks, backup, history, Sound, TypeOK
  <2> QED BY <1>4, <2>1, KeepsMost
          DEF Sound, AllCovered, vars, disk, ledgerFile, locks, backup, history
<1> QED BY <1>1, <1>2, <1>3, <1>4 DEF Next

\* Whatever is erased, fails, is backed up or restored, in any order: rows,
\* files, ledger, backups and locks fit together as Sound says.
THEOREM SoundHolds == Spec => []Sound
<1> QED BY Start, SoundStep, PTL DEF Spec

\* No operator command ever comes to be refused for its ledger: every database
\* there is, in a backup or live, is covered, and no memorial is named twice.
THEOREM NeverRefusedHolds == Spec => []NeverRefused
<1>1. Sound => NeverRefused BY DEF Sound, NeverRefused, AllCovered, Covered
<1> QED BY <1>1, SoundHolds, PTL

\* Media are missing only of a memorial whose erasure is on disk.
THEOREM DecidedBeforeLostHolds == Spec => []DecidedBeforeLost
<1>1. Sound => DecidedBeforeLost BY DEF Sound
<1> QED BY <1>1, SoundHolds, PTL

\* A memorial erased once is never served again, whatever backup is restored.
THEOREM ErasedStaysErasedHolds == Spec => []ErasedStaysErased
<1>1. Sound => ErasedStaysErased BY DEF Sound, NotBack, ErasedStaysErased
<1> QED BY <1>1, SoundHolds, PTL

\* Nor do its files outlive it, but those of uploads that have not ended well.
THEOREM ErasedFilesGoneHolds == Spec => []ErasedFilesGone
<1>1. Sound => ErasedFilesGone
  <2> SUFFICES ASSUME Sound, server = "serving", NEW f \in files, of[f] \in erased
               PROVE  upload[f] \in {"written", "died"}
    BY DEF ErasedFilesGone
  <2>1. of[f] \notin db.memorials BY DEF Sound, NotBack
  <2>2. f \notin db.media BY <2>1, Fields DEF Sound, TypeOK
  <2> QED BY <2>2 DEF Sound, Accounted
<1> QED BY <1>1, SoundHolds, PTL
=============================================================================
