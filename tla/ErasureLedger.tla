---------------------------- MODULE ErasureLedger ----------------------------
(***************************************************************************)
(* Permanent erasure of memorials (remembrance/erasure.py): the SQLite     *)
(* database, the media directory and the ledger file outside both, with    *)
(* uploads, backups (scripts/backup.py) and restores (scripts/restore.py)  *)
(* going on around them.                                                   *)
(*                                                                         *)
(* The operator commands "erasure memorial" and "erasure reapply" hold the *)
(* ledger's file lock throughout, and SQLite's write lock for each         *)
(* memorial they erase.  Between two steps of a command the process may    *)
(* die or a call may fail: the transaction rolls back, the ledger entry    *)
(* and the files already removed stay as they are.  A command that is      *)
(* refused before it changes anything is not an action.  A ledger file     *)
(* that does not exist reads as an empty one.                              *)
(***************************************************************************)
EXTENDS Naturals, Sequences, FiniteSets

CONSTANTS
  Memorial,     \* ids of memorials; an id is never used again
  File,         \* media files of uploads, each with a name of its own
  of,           \* the memorial each is uploaded to
  Operator,     \* operator processes
  MaxFaults,    \* bound: processes that die, calls that fail
  MaxBackups,   \* bound: backups
  MaxRestores   \* bound: restores

ASSUME FileAssumption == of \in [File -> Memorial]
ASSUME BoundAssumption == MaxFaults \in Nat /\ MaxBackups \in Nat /\ MaxRestores \in Nat

VARIABLES
  db,          \* the committed database: memorials, media rows and erasures
  files,       \* names in the media directory
  ledger,      \* memorials of the ledger's entries, in order
  torn,        \* the ledger ends with an incomplete line
  holder,      \* operator holding the ledger's file lock, or {}
  writer,      \* operator holding the database's write lock, or {}
  command,     \* what each operator process is doing
  upload,      \* state of each upload
  copying,     \* the backup being written
  backups,     \* databases of the backups; each has all its media
  server,      \* is the data directory served, restored, or reapplied to
  created,     \* memorials created so far
  erased,      \* memorials whose erasure has committed, here or before a restore
  faults, restores   \* counters (they bound the model)

disk == <<db, files>>
ledgerFile == <<ledger, torn>>
locks == <<holder, writer>>
backup == <<copying, backups>>
history == <<created, erased, restores>>
vars == <<disk, ledgerFile, locks, command, upload, backup, server, history, faults>>

Idle == [step |-> "idle"]
Command ==
  {Idle} \cup [step : {"next"}, at : Nat]
    \cup [step : {"append", "unlink"}, run : {"erase", "reapply"}, memorial : Memorial, todo : SUBSET File]
NoBackup == [db |-> <<>>, left |-> {}, on |-> FALSE]

MediaOf(m) == {f \in db.media : of[f] = m}
Decided == {ledger[i] : i \in DOMAIN ledger}
registered == DOMAIN db.erasures

\* Variant: the media rows are left.  Sound fails: the foreign key.
WithoutParentOnly(m, i) ==
  [memorials |-> db.memorials \ {m},
   media |-> db.media,
   erasures |-> [x \in registered \cup {m} |-> IF x = m THEN i ELSE db.erasures[x]]]

\* The database without memorial m, its erasure registered at position i.
Without(m, i) ==
  [memorials |-> db.memorials \ {m},
   media |-> db.media \ MediaOf(m),
   erasures |-> [x \in registered \cup {m} |-> IF x = m THEN i ELSE db.erasures[x]]]

Position(m) == CHOOSE i \in DOMAIN ledger : ledger[i] = m

Init ==
  /\ db = [memorials |-> {}, media |-> {}, erasures |-> <<>>]
  /\ files = {}
  /\ ledger = <<>>
  /\ torn = FALSE
  /\ holder = {} /\ writer = {}
  /\ command = [o \in Operator |-> Idle]
  /\ upload = [f \in File |-> "new"]
  /\ copying = NoBackup
  /\ backups = {}
  /\ server = "serving"
  /\ created = {} /\ erased = {}
  /\ faults = 0 /\ restores = 0

-----------------------------------------------------------------------------
(* The web application                                                     *)

\* POST /memorials/new, with a random id.
new_memorial(m) ==
  /\ server = "serving" /\ writer = {}
  /\ m \notin created
  /\ db' = [db EXCEPT !.memorials = @ \cup {m}]
  /\ created' = created \cup {m}
  /\ UNCHANGED <<files, ledgerFile, locks, command, upload, backup, server, erased, restores, faults>>

\* POST /m/<mid>/upload: the file is written before the transaction.
UploadWrite(f) ==
  /\ server = "serving"
  /\ upload[f] = "new" /\ of[f] \in db.memorials
  /\ files' = files \cup {f}
  /\ upload' = [upload EXCEPT ![f] = "written"]
  /\ UNCHANGED <<db, ledgerFile, locks, command, backup, server, history, faults>>

\* The row is inserted, the foreign key and the owner checked, and committed.
UploadCommit(f) ==
  /\ upload[f] = "written" /\ writer = {}
  /\ of[f] \in db.memorials
  /\ db' = [db EXCEPT !.media = @ \cup {f}]
  /\ upload' = [upload EXCEPT ![f] = "done"]
  /\ UNCHANGED <<files, ledgerFile, locks, command, backup, server, history, faults>>

\* Variant: a rejected upload leaves its file.  ErasedFilesGone fails.
UploadRejectedKeeping(f) ==
  /\ upload[f] = "written"
  /\ upload' = [upload EXCEPT ![f] = "done"]
  /\ UNCHANGED <<disk, ledgerFile, locks, command, backup, server, history, faults>>

\* The memorial or its ownership is gone, or the database is busy: rolled
\* back, and the file removed.
UploadRejected(f) ==
  /\ upload[f] = "written"
  /\ files' = files \ {f}
  /\ upload' = [upload EXCEPT ![f] = "done"]
  /\ UNCHANGED <<db, ledgerFile, locks, command, backup, server, history, faults>>

Fault ==
  /\ faults < MaxFaults
  /\ faults' = faults + 1

\* The web process dies in between: the file stays, with no row.
UploadDies(f) ==
  /\ Fault
  /\ upload[f] = "written"
  /\ upload' = [upload EXCEPT ![f] = "died"]
  /\ UNCHANGED <<disk, ledgerFile, locks, command, backup, server, history>>

-----------------------------------------------------------------------------
(* Opening the ledger                                                      *)

\* Every erasure the database recorded is in the ledger, at its place.
registry_agrees ==
  \A m \in registered : db.erasures[m] \in DOMAIN ledger /\ ledger[db.erasures[m]] = m

repeats == \E i, j \in DOMAIN ledger : i # j /\ ledger[i] = ledger[j]

\* open_ledger waits for the lock and refuses a ledger that ends half way or
\* names a memorial twice; _check_registry refuses one that is not complete.
open_ledger(o) ==
  /\ command[o] = Idle
  /\ holder = {} /\ holder' = {o}
  /\ ~torn /\ ~repeats
  /\ registry_agrees

Close(o) ==
  /\ holder' = {}
  /\ writer' = {}
  /\ command' = [command EXCEPT ![o] = Idle]

Perform(o, c) == command' = [command EXCEPT ![o] = c]

\* The rows of m are deleted in the open transaction; its files are next.
Removes(o, run, m) ==
  Perform(o, [step |-> "unlink", run |-> run, memorial |-> m, todo |-> MediaOf(m)])

-----------------------------------------------------------------------------
(* erasure memorial (erase)                                                *)

\* Variant: the ledger is not searched for an earlier decision on the
\* memorial.  NeverRefused fails.
EraseBeginAnew(o, m) ==
  /\ open_ledger(o)
  /\ writer = {} /\ writer' = {o}
  /\ m \in db.memorials
  /\ Perform(o, [step |-> "append", run |-> "erase", memorial |-> m, todo |-> {}])
  /\ UNCHANGED <<disk, ledgerFile, upload, backup, server, history, faults>>

\* Both locks are taken.  A memorial the ledger names already, because an
\* earlier erasure of it failed, gets no second entry.
EraseBegin(o, m) ==
  /\ open_ledger(o)
  /\ writer = {} /\ writer' = {o}
  /\ m \in db.memorials
  /\ IF m \in Decided
     THEN Removes(o, "erase", m)
     ELSE Perform(o, [step |-> "append", run |-> "erase", memorial |-> m, todo |-> {}])
  /\ UNCHANGED <<disk, ledgerFile, upload, backup, server, history, faults>>

\* Variant: the files are removed before the entry is written.
\* DecidedBeforeLost fails.
append_after_files(o) ==
  /\ command[o].step = "append"
  /\ files' = files \ MediaOf(command[o].memorial)
  /\ IF files' # files
     THEN UNCHANGED <<ledger, command>>
     ELSE /\ ledger' = Append(ledger, command[o].memorial)
          /\ Perform(o, [command[o] EXCEPT !.step = "unlink"])
  /\ UNCHANGED <<db, torn, locks, upload, backup, server, history, faults>>

\* Ledger.append: the entry is on disk before anything is erased.  Then the
\* rows are deleted, in the transaction, and the files are next.
append(o) ==
  /\ command[o].step = "append"
  /\ ledger' = Append(ledger, command[o].memorial)
  /\ Removes(o, "erase", command[o].memorial)
  /\ UNCHANGED <<disk, torn, locks, upload, backup, server, history, faults>>

\* _apply removes the files one by one.
Unlink(o, f) ==
  /\ command[o].step = "unlink" /\ f \in command[o].todo
  /\ files' = files \ {f}
  /\ Perform(o, [command[o] EXCEPT !.todo = @ \ {f}])
  /\ UNCHANGED <<db, ledgerFile, locks, upload, backup, server, history, faults>>

\* The transaction commits: the rows are gone and the erasure is registered.
Commit(o) ==
  /\ command[o].step = "unlink" /\ command[o].todo = {}
  /\ LET m == command[o].memorial IN
     /\ db' = Without(m, Position(m))
     /\ erased' = erased \cup {m}
  /\ IF command[o].run = "erase"
     THEN Close(o)
     ELSE /\ Perform(o, [step |-> "next", at |-> Position(command[o].memorial) + 1])
          /\ writer' = {} /\ UNCHANGED holder
  /\ UNCHANGED <<files, ledgerFile, upload, backup, server, created, restores, faults>>

-----------------------------------------------------------------------------
(* erasure reapply                                                         *)

ReapplyBegin(o) ==
  /\ open_ledger(o)
  /\ Perform(o, [step |-> "next", at |-> 1])
  /\ UNCHANGED <<disk, ledgerFile, writer, upload, backup, server, history, faults>>

\* Variant: an erasure that is not registered is registered, whether or not
\* the memorial is there.  ErasedStaysErased fails.
ReapplyEntryRegisterFirst(o) ==
  /\ command[o].step = "next" /\ command[o].at \in DOMAIN ledger
  /\ writer = {}
  /\ LET i == command[o].at  m == ledger[i] IN
     IF m \notin registered
     THEN /\ db' = [db EXCEPT !.erasures = [x \in registered \cup {m} |->
                      IF x = m THEN i ELSE db.erasures[x]]]
          /\ Perform(o, [step |-> "next", at |-> i + 1])
          /\ UNCHANGED writer
     ELSE IF m \in db.memorials
     THEN /\ writer' = {o}
          /\ Removes(o, "reapply", m)
          /\ UNCHANGED db
     ELSE /\ Perform(o, [step |-> "next", at |-> i + 1])
          /\ UNCHANGED <<db, writer>>
  /\ UNCHANGED <<files, ledgerFile, holder, upload, backup, server, history, faults>>

\* One entry, in a transaction of its own: the memorial is erased if it is
\* there, else the erasure is registered if it is not.
ReapplyEntry(o) ==
  /\ command[o].step = "next" /\ command[o].at \in DOMAIN ledger
  /\ writer = {}
  /\ LET i == command[o].at  m == ledger[i] IN
     IF m \in db.memorials
     THEN /\ writer' = {o}
          /\ Removes(o, "reapply", m)
          /\ UNCHANGED db
     ELSE /\ db' = [db EXCEPT !.erasures = [x \in registered \cup {m} |->
                      IF x \in registered THEN db.erasures[x] ELSE i]]
          /\ Perform(o, [step |-> "next", at |-> i + 1])
          /\ UNCHANGED writer
  /\ UNCHANGED <<files, ledgerFile, holder, upload, backup, server, history, faults>>

ReapplyDone(o) ==
  /\ command[o].step = "next" /\ command[o].at \notin DOMAIN ledger
  /\ Close(o)
  /\ server' = IF server = "restored" THEN "reapplied" ELSE server
  /\ UNCHANGED <<disk, ledgerFile, upload, backup, history, faults>>

-----------------------------------------------------------------------------
(* Failures of a command                                                   *)

\* The process dies or a call raises; an interrupted write may leave part of
\* the ledger's last line.
Fails(o) ==
  /\ Fault
  /\ command[o] # Idle
  /\ Close(o)
  /\ torn' \in {FALSE, command[o].step = "append"}
  /\ UNCHANGED <<disk, ledger, upload, backup, server, history>>

\* The operator removes the partial line, as the error message says.
RemovePartialLine ==
  /\ torn /\ holder = {}
  /\ torn' = FALSE
  /\ UNCHANGED <<disk, ledger, locks, command, upload, backup, server, history, faults>>

-----------------------------------------------------------------------------
(* Backup and restore                                                      *)

\* The database is copied first, by SQLite's backup call.
BackupDatabase ==
  /\ ~copying.on /\ Cardinality(backups) < MaxBackups
  /\ copying' = [db |-> db, left |-> db.media, on |-> TRUE]
  /\ UNCHANGED <<disk, ledgerFile, locks, command, upload, backups, server, history, faults>>

\* Then each media file its rows name; one that is missing ends the backup.
BackupFile(f) ==
  /\ f \in copying.left
  /\ copying' = IF f \in files THEN [copying EXCEPT !.left = @ \ {f}] ELSE NoBackup
  /\ UNCHANGED <<disk, ledgerFile, locks, command, upload, backups, server, history, faults>>

BackupDone ==
  /\ copying.on /\ copying.left = {}
  /\ backups' = backups \cup {copying.db}
  /\ copying' = NoBackup
  /\ UNCHANGED <<disk, ledgerFile, locks, command, upload, server, history, faults>>

\* A stopped server's data are replaced by those of a backup, in a new
\* directory; the ledger is not part of them.
Restore(b) ==
  /\ restores < MaxRestores /\ restores' = restores + 1
  /\ ~copying.on
  /\ \A o \in Operator : command[o] = Idle
  /\ db' = b
  /\ files' = b.media
  /\ upload' = [f \in File |-> IF upload[f] = "new" THEN "new" ELSE "done"]
  /\ server' = "restored"
  /\ UNCHANGED <<ledgerFile, locks, command, backup, created, erased, faults>>

\* Traffic is routed to restored data once the ledger was reapplied.
GoLive ==
  /\ server = "reapplied"
  /\ server' = "serving"
  /\ UNCHANGED <<disk, ledgerFile, locks, command, upload, backup, history, faults>>

-----------------------------------------------------------------------------
Operate(o) ==
  \/ \E m \in Memorial : EraseBegin(o, m)
  \/ append(o)
  \/ \E f \in File : Unlink(o, f)
  \/ Commit(o)
  \/ ReapplyBegin(o)
  \/ ReapplyEntry(o)
  \/ ReapplyDone(o)
  \/ Fails(o)

Use ==
  \/ \E m \in Memorial : new_memorial(m)
  \/ \E f \in File : UploadWrite(f) \/ UploadCommit(f) \/ UploadRejected(f) \/ UploadDies(f)

Maintain ==
  \/ RemovePartialLine
  \/ BackupDatabase
  \/ \E f \in File : BackupFile(f)
  \/ BackupDone
  \/ \E b \in backups : Restore(b)
  \/ GoLive

Next ==
  \/ \E o \in Operator : Operate(o)
  \/ Use
  \/ Maintain

Spec == Init /\ [][Next]_vars
-----------------------------------------------------------------------------
(* Properties                                                              *)

\* d is a database: rows of its memorials, and a registry of positions.
IsDatabase(d) ==
  /\ \E erasures \in SUBSET Memorial :
       d \in [memorials : SUBSET Memorial, media : SUBSET File, erasures : [erasures -> Nat \ {0}]]
  /\ \A f \in d.media : of[f] \in d.memorials

\* The types of all that is stored, and which locks a command holds at which
\* step.  Media rows belong to memorials: the foreign key.
TypeOK ==
  /\ IsDatabase(db)
  /\ files \subseteq File
  /\ ledger \in Seq(Memorial) /\ torn \in BOOLEAN
  /\ holder = {o \in Operator : command[o] # Idle}
  /\ writer = {o \in Operator : command[o].step \in {"append", "unlink"}}
  /\ \A o, p \in holder : o = p
  /\ command \in [Operator -> Command]
  /\ upload \in [File -> {"new", "written", "done", "died"}]
  /\ copying \in [db : {copying.db}, left : SUBSET File, on : BOOLEAN]
  /\ \A b \in backups : IsDatabase(b)
  /\ server \in {"serving", "restored", "reapplied"}
  /\ created \subseteq Memorial /\ erased \subseteq Memorial
  /\ faults \in Nat /\ restores \in Nat

\* What d has registered is in the ledger, at the registered place.
WithinLedger(d) ==
  \A m \in DOMAIN d.erasures :
    d.erasures[m] \in DOMAIN ledger /\ ledger[d.erasures[m]] = m

\* The ledger is complete for every database there is, the live one and
\* those in the backups, and names a memorial once, however often its erasure
\* failed and was repeated.  So whatever fails or is restored, no later
\* command is refused for a ledger that lacks, contradicts or repeats an
\* erasure.
NeverRefused == ~repeats /\ \A d \in {db} \cup backups : WithinLedger(d)

\* Nothing is lost before the decision is on disk: a memorial whose media are
\* missing is in the ledger.
DecidedBeforeLost == \A f \in db.media \ files : of[f] \in Decided

\* What was erased once is not served again: no restore brings a memorial
\* back to visitors.
ErasedStaysErased == server = "serving" => erased \cap db.memorials = {}

\* Nor do its files outlive it, except that of an upload not yet rejected or
\* of one whose process died between writing the file and its row.
ErasedFilesGone ==
  server = "serving" =>
    \A f \in files : of[f] \in erased => upload[f] \in {"written", "died"}
-----------------------------------------------------------------------------
(* What the properties rest on                                             *)

ClearBefore(i) == \A j \in DOMAIN ledger : j < i => ledger[j] \notin db.memorials

\* A command that decides anew has found no earlier decision; one that
\* removes files has its decision on disk and what is left of them still to
\* do; reapply has left nothing behind up to where it is.
AtWork ==
  \A o \in Operator :
    LET c == command[o]
    IN /\ c.step = "append" => c.run = "erase" /\ c.memorial \in db.memorials \ Decided
       /\ c.step = "unlink" =>
            /\ c.memorial \in db.memorials \cap Decided
            /\ c.todo \subseteq MediaOf(c.memorial)
            /\ MediaOf(c.memorial) \cap files \subseteq c.todo
            /\ c.run = "reapply" => ClearBefore(Position(c.memorial))
       /\ c.step = "next" => c.at \in 1..Len(ledger) + 1 /\ ClearBefore(c.at)

\* Every database, the one being copied included, is one the ledger covers,
\* with rows of uploads that were committed.
Covered(d) ==
  /\ IsDatabase(d) /\ WithinLedger(d)
  /\ d.memorials \subseteq created
  /\ \A f \in d.media : upload[f] = "done"

AllCovered ==
  /\ \A d \in {db} \cup backups : Covered(d)
  /\ copying.on => Covered(copying.db)

\* Decisions are on memorials there were, erasures on decided ones; a file is
\* named by a row, or its upload has not ended, or ended half way.
Accounted ==
  /\ Decided \subseteq created /\ erased \subseteq Decided
  /\ \A f \in File : upload[f] = "written" => f \in files
  /\ \A f \in files : f \in db.media \/ upload[f] \in {"written", "died"}

\* From the end of a reapply on, as ErasedStaysErased says of a server.
NotBack == server # "restored" => erased \cap db.memorials = {}

\* The inductive invariant: it implies the properties above.
Sound ==
  TypeOK /\ ~repeats /\ AtWork /\ AllCovered /\ Accounted /\ DecidedBeforeLost /\ NotBack
=============================================================================
