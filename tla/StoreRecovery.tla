---------------------------- MODULE StoreRecovery ----------------------------
(***************************************************************************)
(* crates/project-store: opening a database file statement by statement,   *)
(* and archiving it, while other handles commit, initialise and archive.   *)
(*                                                                         *)
(* open_state reads the file in separate statements, each of which sees    *)
(* one state of it, and initialises it in one transaction.  ProjectStore,  *)
(* where opening is one step, is about the contents of the rows; here a    *)
(* revision is its sequence number and a table of the log is how many rows *)
(* it has, because no row ever changes.  An archive is a copy, checked and *)
(* synced under a temporary name and then renamed.  A power loss keeps     *)
(* what SQLite committed and what was synced, and may or may not keep      *)
(* anything else.                                                          *)
(***************************************************************************)
EXTENDS Integers, FiniteSets

CONSTANTS
  Stores,        \* handles, of one process or of several
  Destinations,  \* the paths archives are written to
  Absent,        \* no file
  Torn,          \* a file whose content was lost
  MaxRevision    \* bounds the log

ASSUME RecoveryAssumption ==
  /\ MaxRevision \in Nat
  /\ Absent # Torn

Sequence == 0..MaxRevision

VARIABLES
  (* the file system *)
  file,       \* the database
  archives,   \* what is found at a destination
  synced,     \* what is found there after a power loss, at the least
  (* the handles *)
  at,         \* the statement a handle is about to run; "open" when idle
  seen,       \* what the statements of its open or archive call have read
  memory,     \* State.sequence: State.head and project are the log's there
  (* history *)
  refused,    \* the handles whose last open found the store corrupt, or not
              \* its own to initialise
  overtaken,  \* those during whose last open another one wrote to the log
  reported,   \* the destinations an archive call reported as written
  rivals      \* the calls under way when a destination was last written

handles == <<at, seen, memory>>
history == <<refused, overtaken, reported, rivals>>
vars == <<file, archives, synced, handles, history>>

-----------------------------------------------------------------------------
(* Types *)

Database ==
  [application_id : BOOLEAN, user_version : BOOLEAN, tables : BOOLEAN,
   revisions : Sequence, receipts : Sequence, head : Sequence,
   snapshots : SUBSET (1..MaxRevision)]

\* A copy of the database, by the length of its log.
Copy == [sequence : Sequence, synced : BOOLEAN]

Found == Copy \cup {Absent, Torn}

ASSUME FoundAssumption == Absent \notin Copy /\ Torn \notin Copy

Opening == {"application_id", "user_version", "objects", "initialize",
            "schema", "head", "snapshot", "snapshot_row", "scan",
            "receipt_count", "revision_count", "mismatch"}

Archiving == {"backup", "validate", "sync", "rename", "sync_parent"}

Seen == [application_id : BOOLEAN, user_version : BOOLEAN, head : Sequence,
         snapshot : Sequence, log : Sequence, receipts : Sequence,
         revisions : Sequence, destination : Destinations \cup {Absent},
         copy : Copy \cup {Absent}]

Unseen == [application_id |-> FALSE, user_version |-> FALSE, head |-> 0,
           snapshot |-> 0, log |-> 0, receipts |-> 0, revisions |-> 0,
           destination |-> Absent, copy |-> Absent]

\* Values are of the code's types.
TypeOK ==
  /\ file \in Database
  /\ archives \in [Destinations -> Found]
  /\ synced \in [Destinations -> Found]
  /\ at \in [Stores -> {"closed", "open"} \cup Opening \cup Archiving]
  /\ seen \in [Stores -> Seen]
  /\ memory \in [Stores -> Sequence]
  /\ refused \subseteq Stores
  /\ overtaken \subseteq Stores
  /\ reported \subseteq Destinations
  /\ rivals \in [Destinations -> SUBSET Stores]

\* A new, empty database.
Empty == [application_id |-> FALSE, user_version |-> FALSE, tables |-> FALSE,
          revisions |-> 0, receipts |-> 0, head |-> 0, snapshots |-> {}]

Init ==
  /\ file = Empty
  /\ archives = [d \in Destinations |-> Absent]
  /\ synced = [d \in Destinations |-> Absent]
  /\ at = [s \in Stores |-> "closed"]
  /\ seen = [s \in Stores |-> Unseen]
  /\ memory = [s \in Stores |-> 0]
  /\ refused = {}
  /\ overtaken = {}
  /\ reported = {}
  /\ rivals = [d \in Destinations |-> {}]

-----------------------------------------------------------------------------
(* open_state.  Any statement may fail for SQLite's own reasons.           *)

Goto(s, statement) == at' = [at EXCEPT ![s] = statement]

See(s, field, value) == seen' = [seen EXCEPT ![s][field] = value]

\* Whatever of a call's reading is left is forgotten.
Forget(s) == seen' = [seen EXCEPT ![s] = Unseen]

Overtakes(s) ==
  overtaken' = overtaken \cup {u \in Stores \ {s} : at[u] \in Opening}

files == <<file, archives, synced>>

\* The open ends in CorruptStore, or in SQLite's error for a table that exists.
Refuse(s) ==
  /\ Goto(s, "closed")
  /\ Forget(s)
  /\ refused' = refused \cup {s}
  /\ UNCHANGED <<files, memory, overtaken, reported, rivals>>

\* A statement that read a field, followed by the next one.
Read(s, field, value, following) ==
  /\ at[s] = field
  /\ See(s, field, value)
  /\ Goto(s, following)
  /\ UNCHANGED <<files, memory, history>>

Open(s) ==
  /\ at[s] = "closed"
  /\ Goto(s, "application_id")
  /\ refused' = refused \ {s}
  /\ overtaken' = overtaken \ {s}
  /\ UNCHANGED <<files, seen, memory, reported, rivals>>

ReadIdentity(s) ==
  \/ Read(s, "application_id", file.application_id, "user_version")
  \/ Read(s, "user_version", file.user_version, "objects")

\* The file is initialised if it is new, and must be a store if it is not.
CountObjects(s) ==
  LET new == /\ ~ seen[s].application_id
             /\ ~ seen[s].user_version
             /\ ~ file.tables
      ours == seen[s].application_id /\ seen[s].user_version
  IN
  /\ at[s] = "objects"
  /\ IF new \/ ours
       THEN /\ Goto(s, IF new THEN "initialize" ELSE "schema")
            /\ UNCHANGED <<files, seen, memory, history>>
       ELSE Refuse(s)

\* Mutant: the application id is set before the transaction.
MutInitialize(s) ==
  /\ at[s] = "initialize"
  /\ IF file.tables THEN Refuse(s)
     ELSE /\ IF ~ file.application_id
               THEN /\ file' = [file EXCEPT !.application_id = TRUE]
                    /\ UNCHANGED at
               ELSE /\ file' = [file EXCEPT !.user_version = TRUE,
                                            !.tables = TRUE]
                    /\ Goto(s, "schema")
          /\ Overtakes(s)
          /\ UNCHANGED <<archives, synced, seen, memory, refused, reported,
                         rivals>>

\* initialize_store, a transaction: it fails if the tables exist by now.
Initialize(s) ==
  /\ at[s] = "initialize"
  /\ IF file.tables THEN Refuse(s)
     ELSE /\ file' = [file EXCEPT !.application_id = TRUE,
                                  !.user_version = TRUE, !.tables = TRUE]
          /\ Overtakes(s)
          /\ Goto(s, "schema")
          /\ UNCHANGED <<archives, synced, seen, memory, refused, reported,
                         rivals>>

ValidateSchema(s) ==
  /\ at[s] = "schema"
  /\ IF file.tables
       THEN Goto(s, "head") /\ UNCHANGED <<files, seen, memory, history>>
       ELSE Refuse(s)

-----------------------------------------------------------------------------
(* restore *)

Newest(snapshots) ==
  IF snapshots = {} THEN 0
  ELSE CHOOSE n \in snapshots : \A m \in snapshots : m <= n

ReadHead(s) == Read(s, "head", file.head, "snapshot")

\* Without a snapshot the revision it names is not looked for.
ReadSnapshot(s) ==
  Read(s, "snapshot", Newest(file.snapshots),
       IF file.snapshots = {} THEN "scan" ELSE "snapshot_row")

FindSnapshotRow(s) ==
  /\ at[s] = "snapshot_row"
  /\ IF seen[s].snapshot <= file.revisions
       THEN Goto(s, "scan") /\ UNCHANGED <<files, seen, memory, history>>
       ELSE Refuse(s)

\* One SELECT of all revisions; the newest snapshot's must be among them.
Scan(s) ==
  /\ at[s] = "scan"
  /\ IF seen[s].snapshot <= file.revisions
       THEN /\ See(s, "log", file.revisions)
            /\ Goto(s, "receipt_count")
            /\ UNCHANGED <<files, memory, history>>
       ELSE Refuse(s)

\* validate_receipts: two counts, and the rows that do not join.
CountRows(s) ==
  \/ /\ at[s] = "receipt_count"
     /\ See(s, "receipts", file.receipts)
     /\ Goto(s, "revision_count")
     /\ UNCHANGED <<files, memory, history>>
  \/ /\ at[s] = "revision_count"
     /\ See(s, "revisions", file.revisions)
     /\ Goto(s, "mismatch")
     /\ UNCHANGED <<files, memory, history>>

Consistent(s) ==
  /\ seen[s].receipts = seen[s].revisions
  /\ file.receipts <= file.revisions
  /\ seen[s].head = seen[s].log

Restore(s) ==
  /\ at[s] = "mismatch"
  /\ IF Consistent(s)
       THEN /\ memory' = [memory EXCEPT ![s] = seen[s].log]
            /\ Goto(s, "open")
            /\ Forget(s)
            /\ UNCHANGED <<files, history>>
       ELSE Refuse(s)

-----------------------------------------------------------------------------
(* What open handles do to the file. *)

\* The transaction of commit: refused unless the handle is at the head.
Commit(s) ==
  /\ at[s] = "open"
  /\ memory[s] = file.revisions
  /\ memory[s] < MaxRevision
  /\ file' = [file EXCEPT !.revisions = memory[s] + 1,
                          !.receipts = @ + 1,
                          !.head = memory[s] + 1]
  /\ memory' = [memory EXCEPT ![s] = @ + 1]
  /\ Overtakes(s)
  /\ UNCHANGED <<archives, synced, at, seen, refused, reported, rivals>>

\* persist_snapshot, of a handle that may have been overtaken.
Snapshot(s) ==
  /\ at[s] = "open"
  /\ memory[s] # 0
  /\ file' = [file EXCEPT !.snapshots = @ \cup {memory[s]}]
  /\ UNCHANGED <<archives, synced, handles, history>>

\* The second transaction of compact.
Compact(s) ==
  /\ at[s] = "open"
  /\ file.snapshots # {}
  /\ file' = [file EXCEPT !.snapshots = {Newest(@)}]
  /\ UNCHANGED <<archives, synced, handles, history>>

-----------------------------------------------------------------------------
(* archive *)

\* Mutant: the destination is not looked at.
MutMayArchive(d) == TRUE

MayArchive(d) == archives[d] = Absent

Archive(s) ==
  /\ at[s] = "open"
  /\ \E d \in Destinations :
       /\ MayArchive(d)
       /\ See(s, "destination", d)
  /\ Goto(s, "backup")
  /\ UNCHANGED <<files, memory, history>>

\* SQLite's backup begins again when the file changes: one state is copied.
Backup(s) ==
  /\ at[s] = "backup"
  /\ See(s, "copy", [sequence |-> file.revisions, synced |-> FALSE])
  /\ Goto(s, "validate")
  /\ UNCHANGED <<files, memory, history>>

\* The call ends; after an error a temporary file may be left.
EndArchive(s) == Goto(s, "open") /\ Forget(s)

\* validate_archive restores the copy; it must have the handle's own head.
ValidateArchive(s) ==
  /\ at[s] = "validate"
  /\ IF seen[s].copy.sequence = memory[s]
       THEN Goto(s, "sync") /\ UNCHANGED seen
       ELSE EndArchive(s)
  /\ UNCHANGED <<files, memory, history>>

\* Mutant: the temporary file is not synced.
MutSynced(copy) == copy

Synced(copy) == [copy EXCEPT !.synced = TRUE]

SyncTemporary(s) ==
  /\ at[s] = "sync"
  /\ See(s, "copy", Synced(seen[s].copy))
  /\ Goto(s, "rename")
  /\ UNCHANGED <<files, memory, history>>

RivalsOf(s, d) ==
  {u \in Stores \ {s} : at[u] \in Archiving /\ seen[u].destination = d}

\* The rename replaces what is there by now.
Rename(s) ==
  LET d == seen[s].destination IN
  /\ at[s] = "rename"
  /\ archives' = [archives EXCEPT ![d] = seen[s].copy]
  /\ rivals' = [rivals EXCEPT ![d] = RivalsOf(s, d)]
  /\ Goto(s, "sync_parent")
  /\ UNCHANGED <<file, synced, seen, memory, refused, overtaken, reported>>

\* sync_archive_parent: the directory of the destination is synced, and the
\* call returns Ok.  Of other destinations in it, PowerLoss leaves open whether
\* their entries are durable.
SyncParent(s) ==
  LET d == seen[s].destination IN
  /\ at[s] = "sync_parent"
  /\ synced' = [synced EXCEPT ![d] = archives[d]]
  /\ reported' = reported \cup {d}
  /\ EndArchive(s)
  /\ UNCHANGED <<file, archives, memory, refused, overtaken, rivals>>

-----------------------------------------------------------------------------
(* Failures *)

\* SQLite or the file system fails: the open, or the archive call, does.
Fail(s) ==
  /\ \/ at[s] \in Opening /\ Goto(s, "closed")
     \/ at[s] \in Archiving /\ Goto(s, "open")
  /\ Forget(s)
  /\ UNCHANGED <<files, memory, history>>

\* The handle is shut down, or its process dies.
Crash(s) ==
  /\ at[s] # "closed"
  /\ Goto(s, "closed")
  /\ Forget(s)
  /\ memory' = [memory EXCEPT ![s] = 0]
  /\ UNCHANGED <<files, history>>

\* What of a file is found if its directory entry survives.
Surviving(found) ==
  IF found \in {Absent, Torn} \/ found.synced THEN {found} ELSE {found, Torn}

PowerLoss ==
  /\ \E s \in Stores : at[s] # "closed"
  /\ \E left \in [Destinations -> {archives[d] : d \in Destinations}
                                    \cup {synced[d] : d \in Destinations}
                                    \cup {Torn}] :
       /\ \A d \in Destinations :
            left[d] \in Surviving(archives[d]) \cup Surviving(synced[d])
       /\ archives' = left
       /\ synced' = left
  /\ at' = [s \in Stores |-> "closed"]
  /\ seen' = [s \in Stores |-> Unseen]
  /\ memory' = [s \in Stores |-> 0]
  /\ UNCHANGED <<file, history>>

OpenStep(s) ==
  \/ Open(s) \/ ReadIdentity(s) \/ CountObjects(s) \/ Initialize(s)
  \/ ValidateSchema(s) \/ ReadHead(s) \/ ReadSnapshot(s) \/ FindSnapshotRow(s)
  \/ Scan(s) \/ CountRows(s) \/ Restore(s)

ArchiveStep(s) ==
  \/ Archive(s) \/ Backup(s) \/ ValidateArchive(s) \/ SyncTemporary(s)
  \/ Rename(s) \/ SyncParent(s)

Next ==
  \/ \E s \in Stores :
       \/ OpenStep(s) \/ ArchiveStep(s)
       \/ Commit(s) \/ Snapshot(s) \/ Compact(s)
       \/ Fail(s) \/ Crash(s)
  \/ PowerLoss

Spec == Init /\ [][Next]_vars

-----------------------------------------------------------------------------
(* Properties *)

\* An open finds a store corrupt, or fails to initialise it, only when
\* another handle committed or initialised the file in the meantime; never
\* because of another's snapshot or compaction between its statements, nor
\* because an initialisation was cut short by a crash (lib.rs:487-545 and
\* 627-714).  So to open again, with nobody writing, is enough.
UndisturbedOpenSucceeds == refused \subseteq overtaken

\* Whatever failed, and whenever the power did, a destination never holds
\* part of an archive, and an archive that was reported as written is there
\* (lib.rs:881-894: check, sync, rename, and on Unix sync of the directory).
ArchivesSurvive ==
  \A d \in Destinations :
    /\ archives[d] # Torn
    /\ d \in reported => archives[d] # Absent

\* destination.exists() comes long before the rename (lib.rs:870, 891): an
\* archive can still be replaced, but only by a call that was under way when
\* it was written, never by one made later.
ReplacedOnlyByRivals ==
  [][ \A d \in Destinations, s \in Stores :
        archives[d] # Absent /\ at[s] = "rename" /\ at'[s] = "sync_parent"
          /\ seen[s].destination = d =>
          s \in rivals[d] ]_vars

\* open (lib.rs:173-175) fails if the runtime, the command log or a snapshot
\* is invalid; here they never are.  Refuted: what another handle writes, its
\* first open or a commit, between two statements of this one is taken for
\* corruption.
ValidStoreOpens == refused = {}
=============================================================================
