------------------------ MODULE StoreRecoveryProofs ------------------------
(***************************************************************************)
(* StoreRecovery for every number of handles, destinations and revisions:  *)
(* an open that nobody overtook is never refused, archives survive crashes *)
(* and power losses whole, and only a rival under way replaces one.        *)
(***************************************************************************)
EXTENDS StoreRecovery, WellFoundedInduction, TLAPS

USE RecoveryAssumption, FoundAssumption

-----------------------------------------------------------------------------
(* Types *)

Statements == {"closed", "open"} \cup Opening \cup Archiving

\* A handle moves, and the others stay where they are.
LEMMA Moves ==
  ASSUME TypeOK, NEW s \in Stores, NEW x \in Statements, Goto(s, x)
  PROVE  /\ at' \in [Stores -> Statements] /\ at'[s] = x
         /\ \A u \in Stores \ {s} : at'[u] = at[u]
BY DEF TypeOK, Goto, Statements

LEMMA Forgets ==
  ASSUME TypeOK, NEW s \in Stores, Forget(s)
  PROVE  /\ seen' \in [Stores -> Seen]
         /\ \A u \in Stores \ {s} : seen'[u] = seen[u]
<1>1. Unseen \in Seen
  BY DEF Unseen, Seen, Sequence
<1>2. QED
  BY <1>1 DEF TypeOK, Forget

\* The newest snapshot is one of them.
LEMMA NewestIsOne ==
  ASSUME NEW S \in SUBSET (1..MaxRevision), S # {}
  PROVE  Newest(S) \in S
<1> DEFINE T == {k \in Nat : MaxRevision - k \in S}
           less == {ss \in Nat \X Nat : ss[1] < ss[2]}
<1>1. T \in SUBSET Nat /\ T # {}
  <2>1. PICK n \in S : TRUE
    OBVIOUS
  <2>2. MaxRevision - n \in Nat /\ MaxRevision - (MaxRevision - n) = n
    OBVIOUS
  <2>3. QED
    BY <2>1, <2>2
<1>2. IsWellFoundedOn(less, Nat)
  BY NatLessThanWellFounded DEF OpToRel
<1>3. PICK k \in T : \A j \in T : <<j, k>> \notin less
  <2> HIDE DEF less, T
  <2> QED
    BY <1>1, <1>2, WFMin
<1>4. ASSUME NEW m \in S PROVE m <= MaxRevision - k
  <2>1. MaxRevision - m \in T /\ k \in Nat
    <3>1. MaxRevision - m \in Nat /\ MaxRevision - (MaxRevision - m) = m
      OBVIOUS
    <3>2. QED
      BY <3>1
  <2>2. <<MaxRevision - m, k>> \in Nat \X Nat
    BY <2>1
  <2>3. ~ (MaxRevision - m < k)
    BY <1>3, <2>1, <2>2
  <2>4. QED
    BY <2>1, <2>3
<1>5. MaxRevision - k \in S
  OBVIOUS
<1>6. QED
  BY <1>4, <1>5 DEF Newest

LEMMA NewestBound ==
  ASSUME TypeOK
  PROVE  /\ Newest(file.snapshots) \in Sequence
         /\ file.snapshots = {} => Newest(file.snapshots) = 0
         /\ file.snapshots # {} => Newest(file.snapshots) \in file.snapshots
<1>1. file.snapshots \in SUBSET (1..MaxRevision)
  BY DEF TypeOK, Database
<1>2. CASE file.snapshots = {}
  BY <1>2 DEF Newest, Sequence
<1>3. CASE file.snapshots # {}
  BY <1>1, <1>3, NewestIsOne DEF Sequence
<1>4. QED
  BY <1>2, <1>3

LEMMA InitType == Init => TypeOK
<1>1. Empty \in Database
  BY DEF Empty, Database, Sequence
<1>2. Unseen \in Seen
  BY DEF Unseen, Seen, Sequence
<1>3. QED
  BY <1>1, <1>2 DEF Init, TypeOK, Found, Sequence

\* The handles' part of the types, and the rest.
HandleTypes ==
  /\ at \in [Stores -> Statements]
  /\ seen \in [Stores -> Seen]
  /\ memory \in [Stores -> Sequence]

OtherTypes ==
  /\ file \in Database
  /\ archives \in [Destinations -> Found] /\ synced \in [Destinations -> Found]
  /\ refused \subseteq Stores /\ overtaken \subseteq Stores
  /\ reported \subseteq Destinations
  /\ rivals \in [Destinations -> SUBSET Stores]

LEMMA TypeParts ==
  /\ HandleTypes /\ OtherTypes => TypeOK
  /\ HandleTypes' /\ OtherTypes' => TypeOK'
BY DEF TypeOK, HandleTypes, OtherTypes, Statements

LEMMA FileFields ==
  ASSUME TypeOK
  PROVE  /\ file.application_id \in BOOLEAN /\ file.user_version \in BOOLEAN
         /\ file.tables \in BOOLEAN /\ file.revisions \in Sequence
         /\ file.receipts \in Sequence /\ file.head \in Sequence
         /\ file.snapshots \in SUBSET (1..MaxRevision)
BY DEF TypeOK, Database

\* A statement that reads.
Reads(s) ==
  ReadIdentity(s) \/ ReadHead(s) \/ ReadSnapshot(s)

LEMMA ReadsType ==
  ASSUME TypeOK, NEW s \in Stores, Reads(s)
  PROVE  /\ HandleTypes' /\ UNCHANGED <<files, memory, history>>
         /\ \A u \in Stores \ {s} : at'[u] = at[u] /\ seen'[u] = seen[u]
<1> USE DEF Read, See
<1>1. seen \in [Stores -> Seen] /\ memory \in [Stores -> Sequence]
  BY DEF TypeOK
<1>2. CASE ReadIdentity(s)
  <2>1. \E x \in {"user_version", "objects"} : Goto(s, x)
    BY <1>2 DEF ReadIdentity
  <2>2. /\ at' \in [Stores -> Statements]
        /\ \A u \in Stores \ {s} : at'[u] = at[u]
    BY <2>1, Moves DEF Statements, Opening
  <2>3. /\ seen' \in [Stores -> Seen]
        /\ \A u \in Stores \ {s} : seen'[u] = seen[u]
    BY <1>1, <1>2, FileFields DEF ReadIdentity, Seen
  <2>4. UNCHANGED <<files, memory, history>>
    BY <1>2 DEF ReadIdentity
  <2>5. QED
    BY <1>1, <2>2, <2>3, <2>4 DEF HandleTypes
<1>3. CASE ReadHead(s)
  <2>1. Goto(s, "snapshot")
    BY <1>3 DEF ReadHead
  <2>2. /\ at' \in [Stores -> Statements]
        /\ \A u \in Stores \ {s} : at'[u] = at[u]
    BY <2>1, Moves DEF Statements, Opening
  <2>3. /\ seen' \in [Stores -> Seen]
        /\ \A u \in Stores \ {s} : seen'[u] = seen[u]
    BY <1>1, <1>3, FileFields DEF ReadHead, Seen
  <2>4. UNCHANGED <<files, memory, history>>
    BY <1>3 DEF ReadHead
  <2>5. QED
    BY <1>1, <2>2, <2>3, <2>4 DEF HandleTypes
<1>4. CASE ReadSnapshot(s)
  <2>1. \E x \in {"scan", "snapshot_row"} : Goto(s, x)
    BY <1>4 DEF ReadSnapshot
  <2>2. /\ at' \in [Stores -> Statements]
        /\ \A u \in Stores \ {s} : at'[u] = at[u]
    BY <2>1, Moves DEF Statements, Opening
  <2>3. /\ seen' \in [Stores -> Seen]
        /\ \A u \in Stores \ {s} : seen'[u] = seen[u]
    BY <1>1, <1>4, NewestBound DEF ReadSnapshot, Seen
  <2>4. UNCHANGED <<files, memory, history>>
    BY <1>4 DEF ReadSnapshot
  <2>5. QED
    BY <1>1, <2>2, <2>3, <2>4 DEF HandleTypes
<1>5. QED
  BY <1>2, <1>3, <1>4 DEF Reads

LEMMA RefuseType ==
  ASSUME TypeOK, NEW s \in Stores, Refuse(s)
  PROVE  /\ HandleTypes' /\ OtherTypes'
         /\ \A u \in Stores \ {s} : at'[u] = at[u] /\ seen'[u] = seen[u]
         /\ at'[s] = "closed"
         /\ UNCHANGED <<files, memory, overtaken, reported, rivals>>
<1>1. /\ at' \in [Stores -> Statements] /\ at'[s] = "closed"
      /\ \A u \in Stores \ {s} : at'[u] = at[u]
  BY Moves DEF Refuse, Statements
<1>2. /\ seen' \in [Stores -> Seen]
      /\ \A u \in Stores \ {s} : seen'[u] = seen[u]
  BY Forgets DEF Refuse
<1>3. /\ refused' \subseteq Stores
      /\ UNCHANGED <<files, memory, overtaken, reported, rivals>>
  BY DEF Refuse, TypeOK
<1>4. QED
  BY <1>1, <1>2, <1>3 DEF TypeOK, HandleTypes, OtherTypes, files

\* A statement that only checks, or refuses.
Checks(s) ==
  CountObjects(s) \/ ValidateSchema(s) \/ FindSnapshotRow(s)

LEMMA ChecksType ==
  ASSUME TypeOK, NEW s \in Stores, Checks(s)
  PROVE  /\ HandleTypes' /\ OtherTypes'
         /\ \A u \in Stores \ {s} : at'[u] = at[u] /\ seen'[u] = seen[u]
         /\ UNCHANGED <<files, memory, overtaken, reported, rivals>>
<1>1. CASE Refuse(s)
  BY <1>1, RefuseType
<1>2. CASE ~ Refuse(s)
  <2>1. /\ \E x \in {"initialize", "schema", "head", "scan"} : Goto(s, x)
        /\ UNCHANGED <<files, seen, memory, history>>
    BY <1>2 DEF Checks, CountObjects, ValidateSchema, FindSnapshotRow
  <2>2. /\ at' \in [Stores -> Statements]
        /\ \A u \in Stores \ {s} : at'[u] = at[u]
    BY <2>1, Moves DEF Statements, Opening
  <2>3. QED
    BY <2>1, <2>2 DEF TypeOK, HandleTypes, OtherTypes, files, history
<1>3. QED
  BY <1>1, <1>2

LEMMA CountsType ==
  ASSUME TypeOK, NEW s \in Stores, Scan(s) \/ CountRows(s)
  PROVE  /\ HandleTypes' /\ OtherTypes'
         /\ \A u \in Stores \ {s} : at'[u] = at[u] /\ seen'[u] = seen[u]
         /\ UNCHANGED <<files, memory, overtaken, reported, rivals>>
<1>1. CASE Refuse(s)
  BY <1>1, RefuseType
<1>2. CASE ~ Refuse(s)
  <2>1. /\ \E x \in {"receipt_count", "revision_count", "mismatch"} : Goto(s, x)
        /\ UNCHANGED <<files, memory, history>>
    BY <1>2 DEF Scan, CountRows
  <2>2. /\ at' \in [Stores -> Statements]
        /\ \A u \in Stores \ {s} : at'[u] = at[u]
    BY <2>1, Moves DEF Statements, Opening
  <2>3. \/ See(s, "log", file.revisions) \/ See(s, "receipts", file.receipts)
        \/ See(s, "revisions", file.revisions)
    BY <1>2 DEF Scan, CountRows
  <2>4. seen \in [Stores -> Seen]
    BY DEF TypeOK
  <2>5. /\ seen' \in [Stores -> Seen]
        /\ \A u \in Stores \ {s} : seen'[u] = seen[u]
    BY <2>3, <2>4, FileFields DEF See, Seen
  <2>6. QED
    BY <2>1, <2>2, <2>5 DEF TypeOK, HandleTypes, OtherTypes, files, history
<1>3. QED
  BY <1>1, <1>2

\* A step of a handle leaves the others where they are.
Others(s) == \A u \in Stores \ {s} : at'[u] = at[u] /\ seen'[u] = seen[u]

\* What a transaction of another handle does to the opens under way.
Overtaken(s) == \A u \in Stores \ {s} : at[u] \in Opening => u \in overtaken'

LEMMA OpenType ==
  ASSUME TypeOK, NEW s \in Stores, Open(s)
  PROVE  /\ TypeOK' /\ Others(s) /\ at'[s] = "application_id"
         /\ UNCHANGED <<files, seen, memory, reported, rivals>>
         /\ refused' = refused \ {s} /\ overtaken' = overtaken \ {s}
<1>1. /\ at' \in [Stores -> Statements] /\ at'[s] = "application_id"
      /\ \A u \in Stores \ {s} : at'[u] = at[u]
  BY Moves DEF Open, Statements, Opening
<1>2. /\ UNCHANGED <<files, seen, memory, reported, rivals>>
      /\ refused' = refused \ {s} /\ overtaken' = overtaken \ {s}
  BY DEF Open
<1>3. HandleTypes' /\ OtherTypes' /\ Others(s)
  BY <1>1, <1>2 DEF TypeOK, HandleTypes, OtherTypes, files, Others
<1>4. QED
  BY <1>1, <1>2, <1>3, TypeParts

LEMMA InitializeType ==
  ASSUME TypeOK, NEW s \in Stores, Initialize(s), ~ Refuse(s)
  PROVE  /\ TypeOK' /\ Others(s) /\ at'[s] = "schema"
         /\ UNCHANGED <<archives, synced, seen, memory, refused, reported, rivals>>
         /\ Overtaken(s) /\ overtaken \subseteq overtaken'
         /\ file'.application_id /\ file'.user_version /\ file'.tables
         /\ file'.revisions = file.revisions /\ file'.receipts = file.receipts
         /\ file'.head = file.head /\ file'.snapshots = file.snapshots
<1>1. /\ UNCHANGED <<archives, synced, seen, memory, refused, reported, rivals>>
      /\ file' = [file EXCEPT !.application_id = TRUE,
                              !.user_version = TRUE, !.tables = TRUE]
      /\ Overtakes(s) /\ Goto(s, "schema")
  BY DEF Initialize
<1>2. /\ at' \in [Stores -> Statements] /\ at'[s] = "schema"
      /\ \A u \in Stores \ {s} : at'[u] = at[u]
  BY <1>1, Moves DEF Statements, Opening
<1>3. /\ file' \in Database
      /\ file'.application_id /\ file'.user_version /\ file'.tables
      /\ file'.revisions = file.revisions /\ file'.receipts = file.receipts
      /\ file'.head = file.head /\ file'.snapshots = file.snapshots
  BY <1>1 DEF TypeOK, Database
<1>4. /\ overtaken' \subseteq Stores /\ overtaken \subseteq overtaken'
      /\ Overtaken(s)
  BY <1>1 DEF Overtakes, Overtaken, TypeOK
<1>5. HandleTypes' /\ OtherTypes' /\ Others(s)
  BY <1>1, <1>2, <1>3, <1>4 DEF TypeOK, HandleTypes, OtherTypes, Others
<1>6. QED
  BY <1>1, <1>2, <1>3, <1>4, <1>5, TypeParts

LEMMA RestoreType ==
  ASSUME TypeOK, NEW s \in Stores, Restore(s), ~ Refuse(s)
  PROVE  /\ TypeOK' /\ Others(s) /\ at'[s] = "open"
         /\ memory' = [memory EXCEPT ![s] = seen[s].log]
         /\ seen[s].log \in Sequence
         /\ UNCHANGED <<files, history>>
<1>1. /\ Goto(s, "open") /\ Forget(s) /\ UNCHANGED <<files, history>>
      /\ memory' = [memory EXCEPT ![s] = seen[s].log]
  BY DEF Restore
<1>2. /\ at' \in [Stores -> Statements] /\ at'[s] = "open"
      /\ \A u \in Stores \ {s} : at'[u] = at[u]
  BY <1>1, Moves DEF Statements
<1>3. /\ seen' \in [Stores -> Seen]
      /\ \A u \in Stores \ {s} : seen'[u] = seen[u]
  BY <1>1, Forgets
<1>4. seen[s].log \in Sequence
  BY DEF TypeOK, Seen
<1>5. memory' \in [Stores -> Sequence]
  BY <1>1, <1>4 DEF TypeOK
<1>6. HandleTypes' /\ OtherTypes' /\ Others(s)
  BY <1>1, <1>2, <1>3, <1>5
     DEF TypeOK, HandleTypes, OtherTypes, Others, files, history
<1>7. QED
  BY <1>1, <1>2, <1>4, <1>6, TypeParts

\* The tables of the log agree, and so does what identifies the file.
FileInv ==
  /\ file.receipts = file.revisions /\ file.head = file.revisions
  /\ file.application_id = file.tables /\ file.user_version = file.tables
  /\ \A n \in file.snapshots : n <= file.revisions

LEMMA CommitType ==
  ASSUME TypeOK, FileInv, NEW s \in Stores, Commit(s)
  PROVE  /\ TypeOK' /\ Others(s) /\ at[s] = "open" /\ at' = at
         /\ UNCHANGED <<archives, synced, seen, refused, reported, rivals>>
         /\ Overtaken(s) /\ overtaken \subseteq overtaken'
         /\ memory' = [memory EXCEPT ![s] = file.revisions + 1]
         /\ file'.revisions = file.revisions + 1
         /\ file'.receipts = file.revisions + 1
         /\ file'.head = file.revisions + 1
         /\ file'.application_id = file.application_id
         /\ file'.user_version = file.user_version
         /\ file'.tables = file.tables /\ file'.snapshots = file.snapshots
<1>1. /\ at[s] = "open" /\ at' = at
      /\ UNCHANGED <<archives, synced, seen, refused, reported, rivals>>
      /\ memory[s] = file.revisions /\ file.revisions < MaxRevision
      /\ file' = [file EXCEPT !.revisions = memory[s] + 1,
                              !.receipts = @ + 1, !.head = memory[s] + 1]
      /\ memory' = [memory EXCEPT ![s] = @ + 1]
      /\ Overtakes(s)
  BY DEF Commit
<1>2. file \in Database /\ file.revisions \in Sequence
      /\ file.receipts = file.revisions
  BY FileFields DEF TypeOK, FileInv
<1>3. file.revisions + 1 \in Sequence
  BY <1>1, <1>2 DEF Sequence
<1>4. file' = [file EXCEPT !.revisions = file.revisions + 1,
                           !.receipts = file.revisions + 1,
                           !.head = file.revisions + 1]
  BY <1>1, <1>2
<1>5. /\ file' \in Database
      /\ file'.revisions = file.revisions + 1
      /\ file'.receipts = file.revisions + 1
      /\ file'.head = file.revisions + 1
      /\ file'.application_id = file.application_id
      /\ file'.user_version = file.user_version
      /\ file'.tables = file.tables /\ file'.snapshots = file.snapshots
  BY <1>2, <1>3, <1>4 DEF Database
<1>6. /\ memory' = [memory EXCEPT ![s] = file.revisions + 1]
      /\ memory' \in [Stores -> Sequence]
  BY <1>1, <1>3 DEF TypeOK
<1>7. /\ overtaken' \subseteq Stores /\ overtaken \subseteq overtaken'
      /\ Overtaken(s)
  BY <1>1 DEF Overtakes, Overtaken, TypeOK
<1>8. HandleTypes' /\ OtherTypes' /\ Others(s)
  BY <1>1, <1>5, <1>6, <1>7
     DEF TypeOK, HandleTypes, OtherTypes, Others, Statements
<1>9. QED
  BY <1>1, <1>5, <1>6, <1>7, <1>8, TypeParts

LEMMA SnapshotsType ==
  ASSUME TypeOK, NEW s \in Stores, Snapshot(s) \/ Compact(s)
  PROVE  /\ TypeOK' /\ Others(s) /\ at' = at
         /\ UNCHANGED <<archives, synced, handles, history>>
         /\ file'.revisions = file.revisions /\ file'.receipts = file.receipts
         /\ file'.head = file.head /\ file'.tables = file.tables
         /\ file'.application_id = file.application_id
         /\ file'.user_version = file.user_version
         /\ file'.snapshots \subseteq file.snapshots \cup {memory[s]}
<1>1. UNCHANGED <<archives, synced, handles, history>>
  BY DEF Snapshot, Compact
<1>2. file \in Database /\ file.snapshots \in SUBSET (1..MaxRevision)
  BY FileFields DEF TypeOK
<1>3. \E S \in SUBSET (1..MaxRevision) :
        /\ file' = [file EXCEPT !.snapshots = S]
        /\ S \subseteq file.snapshots \cup {memory[s]}
  <2>1. CASE Snapshot(s)
    <3>1. memory[s] \in 1..MaxRevision
      BY <2>1 DEF Snapshot, TypeOK, Sequence
    <3>2. file' = [file EXCEPT !.snapshots = file.snapshots \cup {memory[s]}]
      BY <2>1, <1>2 DEF Snapshot
    <3>3. QED
      BY <1>2, <3>1, <3>2
  <2>2. CASE Compact(s)
    <3>1. Newest(file.snapshots) \in file.snapshots
      BY <2>2, NewestBound DEF Compact
    <3>2. file' = [file EXCEPT !.snapshots = {Newest(file.snapshots)}]
      BY <2>2, <1>2 DEF Compact
    <3>3. QED
      BY <1>2, <3>1, <3>2
  <2>3. QED
    BY <2>1, <2>2
<1>4. /\ file' \in Database
      /\ file'.revisions = file.revisions /\ file'.receipts = file.receipts
      /\ file'.head = file.head /\ file'.tables = file.tables
      /\ file'.application_id = file.application_id
      /\ file'.user_version = file.user_version
      /\ file'.snapshots \subseteq file.snapshots \cup {memory[s]}
  BY <1>2, <1>3 DEF Database
<1>5. HandleTypes' /\ OtherTypes' /\ Others(s) /\ at' = at
  BY <1>1, <1>4
     DEF TypeOK, HandleTypes, OtherTypes, Others, Statements, handles, history
<1>6. QED
  BY <1>1, <1>4, <1>5, TypeParts

\* What a step of archive reads or ends.
ArchiveReads(s) ==
  Archive(s) \/ Backup(s) \/ ValidateArchive(s) \/ SyncTemporary(s)

LEMMA ArchiveReadsType ==
  ASSUME TypeOK, NEW s \in Stores, ArchiveReads(s),
         at[s] = "sync" => seen[s].copy \in Copy
  PROVE  TypeOK' /\ Others(s) /\ UNCHANGED <<files, memory, history>>
<1>1. UNCHANGED <<files, memory, history>>
  BY DEF ArchiveReads, Archive, Backup, ValidateArchive, SyncTemporary
<1>2. \E x \in {"open", "backup", "validate", "sync", "rename"} : Goto(s, x)
  BY DEF ArchiveReads, Archive, Backup, ValidateArchive, SyncTemporary,
         EndArchive
<1>3. /\ at' \in [Stores -> Statements]
      /\ \A u \in Stores \ {s} : at'[u] = at[u]
  BY <1>2, Moves DEF Statements, Archiving
<1>4. seen \in [Stores -> Seen] /\ file.revisions \in Sequence
  BY FileFields DEF TypeOK
<1>5. /\ seen' \in [Stores -> Seen]
      /\ \A u \in Stores \ {s} : seen'[u] = seen[u]
  <2>1. CASE Archive(s)
    BY <1>4, <2>1 DEF Archive, See, Seen
  <2>2. CASE Backup(s)
    <3> DEFINE c == [sequence |-> file.revisions, synced |-> FALSE]
    <3>1. c \in Copy /\ See(s, "copy", c)
      BY <1>4, <2>2 DEF Backup, Copy
    <3> HIDE DEF c
    <3>2. QED
      BY <1>4, <3>1 DEF See, Seen
  <2>3. CASE ValidateArchive(s)
    BY <1>4, <2>3, Forgets DEF ValidateArchive, EndArchive
  <2>4. CASE SyncTemporary(s)
    <3> DEFINE c == Synced(seen[s].copy)
    <3>1. c \in Copy /\ See(s, "copy", c)
      BY <2>4 DEF SyncTemporary, Synced, Copy
    <3> HIDE DEF c
    <3>2. QED
      BY <1>4, <3>1 DEF See, Seen
  <2>5. QED
    BY <2>1, <2>2, <2>3, <2>4 DEF ArchiveReads
<1>6. HandleTypes' /\ OtherTypes' /\ Others(s)
  BY <1>1, <1>3, <1>5
     DEF TypeOK, HandleTypes, OtherTypes, Others, files, history
<1>7. QED
  BY <1>1, <1>6, TypeParts

LEMMA RenameType ==
  ASSUME TypeOK, NEW s \in Stores, Rename(s),
         seen[s].copy \in Copy, seen[s].destination \in Destinations
  PROVE  /\ TypeOK' /\ Others(s) /\ at'[s] = "sync_parent"
         /\ UNCHANGED <<file, synced, seen, memory, refused, overtaken, reported>>
         /\ archives' = [archives EXCEPT ![seen[s].destination] = seen[s].copy]
         /\ rivals' = [rivals EXCEPT ![seen[s].destination] =
                         RivalsOf(s, seen[s].destination)]
<1>1. /\ UNCHANGED <<file, synced, seen, memory, refused, overtaken, reported>>
      /\ archives' = [archives EXCEPT ![seen[s].destination] = seen[s].copy]
      /\ rivals' = [rivals EXCEPT ![seen[s].destination] =
                      RivalsOf(s, seen[s].destination)]
      /\ Goto(s, "sync_parent")
  BY DEF Rename
<1>2. /\ at' \in [Stores -> Statements] /\ at'[s] = "sync_parent"
      /\ \A u \in Stores \ {s} : at'[u] = at[u]
  BY <1>1, Moves DEF Statements, Archiving
<1>3. archives' \in [Destinations -> Found]
  BY <1>1 DEF TypeOK, Found
<1>4. rivals' \in [Destinations -> SUBSET Stores]
  BY <1>1 DEF TypeOK, RivalsOf
<1>5. HandleTypes' /\ OtherTypes' /\ Others(s)
  BY <1>1, <1>2, <1>3, <1>4 DEF TypeOK, HandleTypes, OtherTypes, Others
<1>6. QED
  BY <1>1, <1>2, <1>5, TypeParts

LEMMA SyncParentType ==
  ASSUME TypeOK, NEW s \in Stores, SyncParent(s),
         seen[s].destination \in Destinations
  PROVE  /\ TypeOK' /\ Others(s) /\ at'[s] = "open"
         /\ UNCHANGED <<file, archives, memory, refused, overtaken, rivals>>
         /\ synced' = [synced EXCEPT ![seen[s].destination] =
                         archives[seen[s].destination]]
         /\ reported' = reported \cup {seen[s].destination}
<1>1. /\ UNCHANGED <<file, archives, memory, refused, overtaken, rivals>>
      /\ synced' = [synced EXCEPT ![seen[s].destination] =
                      archives[seen[s].destination]]
      /\ reported' = reported \cup {seen[s].destination}
      /\ Goto(s, "open") /\ Forget(s)
  BY DEF SyncParent, EndArchive
<1>2. /\ at' \in [Stores -> Statements] /\ at'[s] = "open"
      /\ \A u \in Stores \ {s} : at'[u] = at[u]
  BY <1>1, Moves DEF Statements
<1>3. /\ seen' \in [Stores -> Seen]
      /\ \A u \in Stores \ {s} : seen'[u] = seen[u]
  BY <1>1, Forgets
<1>4. HandleTypes' /\ OtherTypes' /\ Others(s)
  BY <1>1, <1>2, <1>3 DEF TypeOK, HandleTypes, OtherTypes, Others
<1>5. QED
  BY <1>1, <1>2, <1>4, TypeParts

LEMMA FailureType ==
  ASSUME TypeOK, NEW s \in Stores, Fail(s) \/ Crash(s)
  PROVE  /\ TypeOK' /\ Others(s) /\ at'[s] \in {"closed", "open"}
         /\ UNCHANGED <<files, history>>
         /\ \A u \in Stores : memory'[u] \in {0, memory[u]}
<1>1. /\ UNCHANGED <<files, history>> /\ Forget(s)
      /\ Goto(s, "closed") \/ Goto(s, "open")
      /\ memory' = memory \/ memory' = [memory EXCEPT ![s] = 0]
  BY DEF Fail, Crash
<1>2. /\ at' \in [Stores -> Statements] /\ at'[s] \in {"closed", "open"}
      /\ \A u \in Stores \ {s} : at'[u] = at[u]
  BY <1>1, Moves DEF Statements
<1>3. /\ seen' \in [Stores -> Seen]
      /\ \A u \in Stores \ {s} : seen'[u] = seen[u]
  BY <1>1, Forgets
<1>4. /\ memory' \in [Stores -> Sequence]
      /\ \A u \in Stores : memory'[u] \in {0, memory[u]}
  BY <1>1 DEF TypeOK, Sequence
<1>5. HandleTypes' /\ OtherTypes' /\ Others(s)
  BY <1>1, <1>2, <1>3, <1>4
     DEF TypeOK, HandleTypes, OtherTypes, Others, files, history
<1>6. QED
  BY <1>1, <1>2, <1>4, <1>5, TypeParts

\* After a power loss a destination holds what it held or was to hold, if that
\* was synced.
LEMMA PowerLossType ==
  ASSUME TypeOK, PowerLoss
  PROVE  /\ TypeOK' /\ UNCHANGED <<file, history>>
         /\ \A s \in Stores : at'[s] = "closed" /\ memory'[s] = 0
         /\ \A d \in Destinations :
              /\ archives'[d] \in Surviving(archives[d]) \cup Surviving(synced[d])
              /\ synced'[d] = archives'[d]
<1>1. PICK left \in [Destinations -> {archives[d] : d \in Destinations}
                                      \cup {synced[d] : d \in Destinations}
                                      \cup {Torn}] :
        /\ \A d \in Destinations :
             left[d] \in Surviving(archives[d]) \cup Surviving(synced[d])
        /\ archives' = left /\ synced' = left
  BY DEF PowerLoss
<1>2. \A d \in Destinations : archives[d] \in Found /\ synced[d] \in Found
  BY DEF TypeOK
<1>3. left \in [Destinations -> Found]
  BY <1>1, <1>2 DEF Found
<1>4. UNCHANGED <<file, history>>
  BY DEF PowerLoss
<1>5. /\ at' = [s \in Stores |-> "closed"] /\ seen' = [s \in Stores |-> Unseen]
      /\ memory' = [s \in Stores |-> 0]
  BY DEF PowerLoss
<1>6. Unseen \in Seen
  BY DEF Unseen, Seen, Sequence
<1>7. HandleTypes'
  BY <1>5, <1>6 DEF HandleTypes, Statements, Sequence
<1>8. OtherTypes'
  BY <1>1, <1>3, <1>4 DEF TypeOK, OtherTypes, history
<1>9. QED
  BY <1>1, <1>4, <1>5, <1>7, <1>8, TypeParts

-----------------------------------------------------------------------------
(* Opening *)

\* What an open that nobody overtook has read is still what the file holds.
Undisturbed(s) ==
  at[s] \in Opening /\ s \notin overtaken =>
    /\ at[s] \in {"user_version", "objects"} =>
         seen[s].application_id = file.tables
    /\ at[s] = "objects" => seen[s].user_version = file.tables
    /\ at[s] = "initialize" => ~ file.tables
    /\ at[s] \in {"schema", "head", "snapshot", "snapshot_row", "scan",
                  "receipt_count", "revision_count", "mismatch"} => file.tables
    /\ at[s] \in {"snapshot", "snapshot_row", "scan", "receipt_count",
                  "revision_count", "mismatch"} =>
         seen[s].head = file.revisions
    /\ at[s] \in {"snapshot_row", "scan"} => seen[s].snapshot <= file.revisions
    /\ at[s] \in {"receipt_count", "revision_count", "mismatch"} =>
         seen[s].log = file.revisions
    /\ at[s] \in {"revision_count", "mismatch"} =>
         seen[s].receipts = file.revisions
    /\ at[s] = "mismatch" => seen[s].revisions = file.revisions

\* No handle knows of a revision the log has not.
Behind(s) == memory[s] <= file.revisions /\ seen[s].log <= file.revisions

LogInv ==
  /\ FileInv
  /\ \A s \in Stores : Behind(s) /\ Undisturbed(s)
  /\ refused \subseteq overtaken

\* A step that leaves the log alone, or that overtakes the opens under way.
LEMMA LogStep ==
  ASSUME TypeOK, LogInv, TypeOK', FileInv', NEW s \in Stores, Others(s),
         file.revisions <= file'.revisions,
         \/ /\ file'.revisions = file.revisions /\ file'.tables = file.tables
            /\ overtaken \ {s} \subseteq overtaken'
         \/ Overtaken(s) /\ overtaken \subseteq overtaken',
         \A u \in Stores \ {s} : memory'[u] = memory[u],
         Behind(s)', Undisturbed(s)', refused' \subseteq overtaken'
  PROVE  LogInv'
<1>1. ASSUME NEW u \in Stores \ {s} PROVE Behind(u)' /\ Undisturbed(u)'
  <2>1. at'[u] = at[u] /\ seen'[u] = seen[u] /\ memory'[u] = memory[u]
    BY DEF Others
  <2>2. Behind(u) /\ Undisturbed(u)
    BY DEF LogInv
  <2>3. Behind(u)'
    <3> DEFINE l == seen[u].log
               m == memory[u]
               r == file.revisions
               q == file'.revisions
    <3>1. l \in Nat /\ m \in Nat /\ r \in Nat /\ q \in Nat
      BY DEF TypeOK, Database, Seen, Sequence
    <3>2. m <= r /\ l <= r /\ r <= q
      BY <2>2 DEF Behind
    <3> HIDE DEF l, m, r, q
    <3>3. m <= q /\ l <= q
      BY <3>1, <3>2
    <3> USE DEF l, m, r, q
    <3>4. QED
      BY <2>1, <3>3 DEF Behind
  <2>4. CASE at[u] \in Opening => u \in overtaken'
    BY <2>1, <2>3, <2>4 DEF Undisturbed
  <2>5. CASE /\ file'.revisions = file.revisions /\ file'.tables = file.tables
             /\ u \in overtaken => u \in overtaken'
    BY <2>1, <2>2, <2>3, <2>5 DEF Undisturbed
  <2>6. QED
    BY <2>3, <2>4, <2>5 DEF Overtaken
<1>2. QED
  BY <1>1 DEF LogInv

\* FileInv only depends on the file.
LEMMA FileKept == ASSUME FileInv, UNCHANGED files PROVE FileInv'
BY DEF FileInv, files

LEMMA Numbers ==
  ASSUME TypeOK
  PROVE  /\ file.revisions \in Nat
         /\ \A s \in Stores :
              memory[s] \in Nat /\ seen[s].log \in Nat /\ seen[s].snapshot \in Nat
BY DEF TypeOK, Database, Seen, Sequence

\* An open that is refused has been overtaken.
LEMMA RefuseLog ==
  ASSUME TypeOK, LogInv, NEW s \in Stores, s \in overtaken, Refuse(s)
  PROVE  TypeOK' /\ LogInv'
<1>1. TypeOK' /\ Others(s) /\ at'[s] = "closed"
  BY RefuseType, TypeParts DEF Others
<1>2. /\ UNCHANGED <<files, memory, overtaken>>
      /\ refused' = refused \cup {s} /\ seen' = [seen EXCEPT ![s] = Unseen]
  BY DEF Refuse, Forget
<1>3. FileInv' /\ file' = file
  BY <1>2, FileKept DEF LogInv, files
<1>4. seen'[s].log = 0
  BY <1>2 DEF TypeOK, Unseen
<1>5. Behind(s)'
  BY <1>2, <1>3, <1>4, Numbers DEF LogInv, Behind
<1>6. Undisturbed(s)'
  BY <1>1 DEF Undisturbed, Opening
<1>7. refused' \subseteq overtaken'
  BY <1>2 DEF LogInv
<1>8. QED
  BY <1>1, <1>2, <1>3, <1>5, <1>6, <1>7, LogStep, Numbers

\* A step of an open that goes on, in an undisturbed state.
LEMMA ReadLog ==
  ASSUME TypeOK, LogInv, NEW s \in Stores, HandleTypes', Others(s),
         UNCHANGED <<files, memory, history>>,
         seen'[s].log \in {seen[s].log, file.revisions}, Undisturbed(s)'
  PROVE  TypeOK' /\ LogInv'
<1>1. OtherTypes'
  BY DEF TypeOK, OtherTypes, files, history
<1>2. TypeOK'
  BY <1>1, TypeParts
<1>3. FileInv' /\ file' = file /\ memory' = memory
  BY FileKept DEF LogInv, files
<1>4. Behind(s)'
  BY <1>3, Numbers DEF LogInv, Behind
<1>5. refused' = refused /\ overtaken' = overtaken
  BY DEF history
<1>6. refused' \subseteq overtaken'
  BY <1>5 DEF LogInv
<1>7. QED
  BY <1>2, <1>3, <1>4, <1>5, <1>6, LogStep, Numbers

\* The statements before the schema is looked at.
LEMMA OpenLog ==
  ASSUME TypeOK, LogInv, NEW s \in Stores, Open(s)
  PROVE  TypeOK' /\ LogInv'
<1>1. /\ TypeOK' /\ Others(s) /\ at'[s] = "application_id"
      /\ UNCHANGED <<files, seen, memory, reported, rivals>>
      /\ refused' = refused \ {s} /\ overtaken' = overtaken \ {s}
  BY OpenType
<1>2. FileInv' /\ file' = file
  BY <1>1, FileKept DEF LogInv, files
<1>3. Behind(s)' /\ refused' \subseteq overtaken'
  BY <1>1, <1>2 DEF LogInv, Behind
<1>4. Undisturbed(s)'
  BY <1>1 DEF Undisturbed
<1>5. QED
  BY <1>1, <1>2, <1>3, <1>4, LogStep, Numbers

LEMMA ReadIdentityLog ==
  ASSUME TypeOK, LogInv, NEW s \in Stores, ReadIdentity(s)
  PROVE  TypeOK' /\ LogInv'
<1>1. /\ HandleTypes' /\ UNCHANGED <<files, memory, history>>
      /\ Others(s)
  BY ReadsType DEF Reads, Others
<1>2. file' = file /\ overtaken' = overtaken
  BY <1>1 DEF files, history
<1>3. FileInv /\ Undisturbed(s)
  BY DEF LogInv
<1>4. /\ at[s] \in Opening
      /\ \/ /\ at[s] = "application_id" /\ at'[s] = "user_version"
            /\ seen' = [seen EXCEPT ![s].application_id = file.application_id]
         \/ /\ at[s] = "user_version" /\ at'[s] = "objects"
            /\ seen' = [seen EXCEPT ![s].user_version = file.user_version]
  BY DEF ReadIdentity, Read, Goto, See, TypeOK, Opening
<1>5. seen'[s].log = seen[s].log
  BY <1>4 DEF TypeOK, Seen
<1>6. Undisturbed(s)'
  <2>1. CASE at'[s] = "user_version"
    <3>1. seen'[s].application_id = file.application_id
      BY <1>4, <2>1 DEF TypeOK, Seen
    <3>2. QED
      BY <1>2, <1>3, <2>1, <3>1 DEF Undisturbed, FileInv
  <2>2. CASE at'[s] = "objects"
    <3>1. /\ seen'[s].user_version = file.user_version
          /\ seen'[s].application_id = seen[s].application_id
          /\ at[s] = "user_version"
      BY <1>4, <2>2 DEF TypeOK, Seen
    <3>2. QED
      BY <1>2, <1>3, <1>4, <2>2, <3>1 DEF Undisturbed, FileInv
  <2>3. QED
    BY <1>4, <2>1, <2>2
<1>7. QED
  BY <1>1, <1>5, <1>6, ReadLog

LEMMA CountObjectsLog ==
  ASSUME TypeOK, LogInv, NEW s \in Stores, CountObjects(s)
  PROVE  TypeOK' /\ LogInv'
<1>1. HandleTypes' /\ Others(s)
  BY ChecksType DEF Checks, Others
<1>2. FileInv /\ Undisturbed(s) /\ at[s] = "objects" /\ at[s] \in Opening
  BY DEF LogInv, CountObjects, Opening
<1>3. /\ seen[s].application_id \in BOOLEAN /\ seen[s].user_version \in BOOLEAN
      /\ file.tables \in BOOLEAN
  BY FileFields DEF TypeOK, Seen
<1>4. CASE Refuse(s)
  <2>1. at'[s] = "closed"
    BY <1>4, RefuseType
  <2>2. ASSUME s \notin overtaken PROVE FALSE
    <3>1. /\ seen[s].application_id = file.tables
          /\ seen[s].user_version = file.tables
      BY <1>2, <2>2 DEF Undisturbed
    <3>2. \E x \in {"initialize", "schema"} : Goto(s, x)
      BY <1>3, <3>1 DEF CountObjects
    <3>3. QED
      BY <2>1, <3>2 DEF Goto, TypeOK
  <2>3. QED
    BY <1>4, <2>2, RefuseLog
<1>5. CASE ~ Refuse(s)
  <2>1. /\ UNCHANGED <<files, seen, memory, history>>
        /\ \/ Goto(s, "initialize") /\ ~ file.tables
           \/ /\ Goto(s, "schema")
              /\ seen[s].application_id /\ seen[s].user_version
    BY <1>5, <1>3 DEF CountObjects
  <2>2. file' = file /\ overtaken' = overtaken
    BY <2>1 DEF files, history
  <2>3. Undisturbed(s)'
    <3>1. CASE Goto(s, "initialize") /\ ~ file.tables
      <4>1. at'[s] = "initialize"
        BY <3>1 DEF Goto, TypeOK
      <4>2. QED
        BY <2>2, <3>1, <4>1 DEF Undisturbed
    <3>2. CASE Goto(s, "schema") /\ seen[s].application_id
      <4>1. at'[s] = "schema"
        BY <3>2 DEF Goto, TypeOK
      <4>2. s \notin overtaken => file.tables
        BY <1>2, <3>2 DEF Undisturbed
      <4>3. QED
        BY <2>2, <4>1, <4>2 DEF Undisturbed
    <3>3. QED
      BY <2>1, <3>1, <3>2
  <2>4. UNCHANGED <<files, memory, history>> /\ seen'[s].log = seen[s].log
    BY <2>1
  <2>5. QED
    BY <1>1, <2>3, <2>4, ReadLog
<1>6. QED
  BY <1>4, <1>5

LEMMA InitializeLog ==
  ASSUME TypeOK, LogInv, NEW s \in Stores, Initialize(s)
  PROVE  TypeOK' /\ LogInv'
<1>1. CASE Refuse(s)
  <2>1. at[s] = "initialize" /\ at[s] \in Opening /\ Undisturbed(s)
    BY DEF Initialize, LogInv, Opening
  <2>2. file.tables
    <3>1. at'[s] = "closed"
      BY <1>1, RefuseType
    <3>2. ~ Goto(s, "schema")
      BY <3>1 DEF Goto, TypeOK
    <3>3. QED
      BY <3>2 DEF Initialize
  <2>3. s \in overtaken
    BY <2>1, <2>2 DEF Undisturbed
  <2>4. QED
    BY <1>1, <2>3, RefuseLog
<1>2. CASE ~ Refuse(s)
  <2>1. /\ TypeOK' /\ Others(s) /\ at'[s] = "schema"
        /\ UNCHANGED <<archives, synced, seen, memory, refused, reported, rivals>>
        /\ Overtaken(s) /\ overtaken \subseteq overtaken'
        /\ file'.application_id /\ file'.user_version /\ file'.tables
        /\ file'.revisions = file.revisions
        /\ file'.receipts = file.receipts
        /\ file'.head = file.head /\ file'.snapshots = file.snapshots
    BY <1>2, InitializeType
  <2>2. FileInv'
    <3>1. /\ file'.application_id \in BOOLEAN /\ file'.user_version \in BOOLEAN
          /\ file'.tables \in BOOLEAN
      BY <2>1 DEF TypeOK, Database
    <3>2. QED
      BY <2>1, <3>1 DEF FileInv, LogInv
  <2>3. Behind(s)' /\ refused' \subseteq overtaken'
    BY <2>1 DEF LogInv, Behind
  <2>4. Undisturbed(s)'
    BY <2>1 DEF Undisturbed
  <2>5. file.revisions <= file'.revisions
    BY <2>1, Numbers
  <2>6. QED
    BY <2>1, <2>2, <2>3, <2>4, <2>5, LogStep
<1>3. QED
  BY <1>1, <1>2

LEMMA ValidateSchemaLog ==
  ASSUME TypeOK, LogInv, NEW s \in Stores, ValidateSchema(s)
  PROVE  TypeOK' /\ LogInv'
<1>1. HandleTypes' /\ Others(s)
  BY ChecksType DEF Checks, Others
<1>2. Undisturbed(s) /\ at[s] = "schema" /\ at[s] \in Opening
  BY DEF LogInv, ValidateSchema, Opening
<1>3. CASE ~ file.tables
  <2>1. s \in overtaken /\ Refuse(s)
    BY <1>2, <1>3 DEF Undisturbed, ValidateSchema
  <2>2. QED
    BY <2>1, RefuseLog
<1>4. CASE file.tables
  <2>1. /\ UNCHANGED <<files, memory, history>> /\ seen' = seen
        /\ Goto(s, "head")
    BY <1>4 DEF ValidateSchema
  <2>2. file' = file /\ at'[s] = "head"
    BY <2>1 DEF files, Goto, TypeOK
  <2>3. Undisturbed(s)'
    BY <1>4, <2>2 DEF Undisturbed
  <2>4. QED
    BY <1>1, <2>1, <2>3, ReadLog
<1>5. QED
  BY <1>3, <1>4

-----------------------------------------------------------------------------
(* Restoring *)

LEMMA ReadHeadLog ==
  ASSUME TypeOK, LogInv, NEW s \in Stores, ReadHead(s)
  PROVE  TypeOK' /\ LogInv'
<1>1. /\ HandleTypes' /\ UNCHANGED <<files, memory, history>>
      /\ Others(s)
  BY ReadsType DEF Reads, Others
<1>2. /\ file' = file /\ overtaken' = overtaken
      /\ FileInv /\ Undisturbed(s)
  BY <1>1 DEF files, history, LogInv
<1>3. /\ at[s] = "head" /\ at[s] \in Opening /\ at'[s] = "snapshot"
      /\ seen' = [seen EXCEPT ![s].head = file.head]
  BY DEF ReadHead, Read, Goto, See, TypeOK, Opening
<1>4. seen'[s].log = seen[s].log /\ seen'[s].head = file.revisions
  BY <1>2, <1>3 DEF TypeOK, Seen, FileInv
<1>5. Undisturbed(s)'
  BY <1>2, <1>3, <1>4 DEF Undisturbed
<1>6. QED
  BY <1>1, <1>4, <1>5, ReadLog

LEMMA ReadSnapshotLog ==
  ASSUME TypeOK, LogInv, NEW s \in Stores, ReadSnapshot(s)
  PROVE  TypeOK' /\ LogInv'
<1>1. /\ HandleTypes' /\ UNCHANGED <<files, memory, history>>
      /\ Others(s)
  BY ReadsType DEF Reads, Others
<1>2. /\ file' = file /\ overtaken' = overtaken
      /\ FileInv /\ Undisturbed(s)
  BY <1>1 DEF files, history, LogInv
<1>3. /\ at[s] = "snapshot" /\ at[s] \in Opening
      /\ at'[s] \in {"scan", "snapshot_row"}
      /\ seen' = [seen EXCEPT ![s].snapshot = Newest(file.snapshots)]
  BY DEF ReadSnapshot, Read, Goto, See, TypeOK, Opening
<1>4. Newest(file.snapshots) <= file.revisions
  <2>1. CASE file.snapshots = {}
    BY <2>1, NewestBound, Numbers
  <2>2. CASE file.snapshots # {}
    BY <1>2, <2>2, NewestBound DEF FileInv
  <2>3. QED
    BY <2>1, <2>2
<1>5. /\ seen'[s].log = seen[s].log /\ seen'[s].head = seen[s].head
      /\ seen'[s].snapshot = Newest(file.snapshots)
  BY <1>3 DEF TypeOK, Seen
<1>6. s \notin overtaken => file.tables /\ seen[s].head = file.revisions
  BY <1>2, <1>3 DEF Undisturbed
<1>7. Undisturbed(s)'
  BY <1>2, <1>3, <1>4, <1>5, <1>6 DEF Undisturbed
<1>8. QED
  BY <1>1, <1>5, <1>7, ReadLog

LEMMA FindSnapshotRowLog ==
  ASSUME TypeOK, LogInv, NEW s \in Stores, FindSnapshotRow(s)
  PROVE  TypeOK' /\ LogInv'
<1>1. HandleTypes' /\ Others(s)
  BY ChecksType DEF Checks, Others
<1>2. Undisturbed(s) /\ at[s] = "snapshot_row" /\ at[s] \in Opening
  BY DEF LogInv, FindSnapshotRow, Opening
<1>3. s \notin overtaken =>
        /\ file.tables /\ seen[s].head = file.revisions
        /\ seen[s].snapshot <= file.revisions
  BY <1>2 DEF Undisturbed
<1>4. CASE ~ (seen[s].snapshot <= file.revisions)
  <2>1. s \in overtaken /\ Refuse(s)
    BY <1>3, <1>4 DEF FindSnapshotRow
  <2>2. QED
    BY <2>1, RefuseLog
<1>5. CASE seen[s].snapshot <= file.revisions
  <2>1. /\ UNCHANGED <<files, memory, history>> /\ seen' = seen
        /\ Goto(s, "scan")
    BY <1>5 DEF FindSnapshotRow
  <2>2. file' = file /\ at'[s] = "scan" /\ overtaken' = overtaken
    BY <2>1 DEF files, Goto, TypeOK, history
  <2>3. Undisturbed(s)'
    BY <1>3, <2>1, <2>2 DEF Undisturbed
  <2>4. QED
    BY <1>1, <2>1, <2>3, ReadLog
<1>6. QED
  BY <1>4, <1>5

LEMMA ScanLog ==
  ASSUME TypeOK, LogInv, NEW s \in Stores, Scan(s)
  PROVE  TypeOK' /\ LogInv'
<1>1. HandleTypes' /\ Others(s)
  BY CountsType DEF Others
<1>2. Undisturbed(s) /\ at[s] = "scan" /\ at[s] \in Opening
  BY DEF LogInv, Scan, Opening
<1>3. s \notin overtaken =>
        /\ file.tables /\ seen[s].head = file.revisions
        /\ seen[s].snapshot <= file.revisions
  BY <1>2 DEF Undisturbed
<1>4. CASE ~ (seen[s].snapshot <= file.revisions)
  <2>1. s \in overtaken /\ Refuse(s)
    BY <1>3, <1>4 DEF Scan
  <2>2. QED
    BY <2>1, RefuseLog
<1>5. CASE seen[s].snapshot <= file.revisions
  <2>1. /\ UNCHANGED <<files, memory, history>>
        /\ seen' = [seen EXCEPT ![s].log = file.revisions]
        /\ Goto(s, "receipt_count")
    BY <1>5 DEF Scan, See
  <2>2. file' = file /\ at'[s] = "receipt_count" /\ overtaken' = overtaken
    BY <2>1 DEF files, Goto, TypeOK, history
  <2>3. seen'[s].log = file.revisions /\ seen'[s].head = seen[s].head
    BY <2>1 DEF TypeOK, Seen
  <2>4. Undisturbed(s)'
    BY <1>3, <2>2, <2>3 DEF Undisturbed
  <2>5. QED
    BY <1>1, <2>1, <2>3, <2>4, ReadLog
<1>6. QED
  BY <1>4, <1>5

LEMMA CountRowsLog ==
  ASSUME TypeOK, LogInv, NEW s \in Stores, CountRows(s)
  PROVE  TypeOK' /\ LogInv'
<1>1. HandleTypes' /\ Others(s)
  BY CountsType DEF Others
<1>2. /\ UNCHANGED <<files, memory, history>>
      /\ \/ /\ at[s] = "receipt_count" /\ at'[s] = "revision_count"
            /\ seen' = [seen EXCEPT ![s].receipts = file.receipts]
         \/ /\ at[s] = "revision_count" /\ at'[s] = "mismatch"
            /\ seen' = [seen EXCEPT ![s].revisions = file.revisions]
  BY DEF CountRows, Goto, See, TypeOK
<1>3. /\ file' = file /\ overtaken' = overtaken
      /\ FileInv /\ Undisturbed(s) /\ at[s] \in Opening
  BY <1>2 DEF files, history, LogInv, Opening
<1>4. s \notin overtaken =>
        /\ file.tables /\ seen[s].head = file.revisions
        /\ seen[s].log = file.revisions
        /\ at[s] = "revision_count" => seen[s].receipts = file.revisions
  BY <1>2, <1>3 DEF Undisturbed
<1>5. seen'[s].log = seen[s].log /\ seen'[s].head = seen[s].head
  BY <1>2 DEF TypeOK, Seen
<1>6. /\ at'[s] = "revision_count" => seen'[s].receipts = file.revisions
      /\ at'[s] = "mismatch" =>
           /\ seen'[s].receipts = seen[s].receipts
           /\ seen'[s].revisions = file.revisions
  BY <1>2, <1>3 DEF TypeOK, Seen, FileInv
<1>7. Undisturbed(s)'
  <2>1. CASE at'[s] = "revision_count"
    BY <1>3, <1>4, <1>5, <1>6, <2>1 DEF Undisturbed
  <2>2. CASE at[s] = "revision_count" /\ at'[s] = "mismatch"
    BY <1>3, <1>4, <1>5, <1>6, <2>2 DEF Undisturbed
  <2>3. QED
    BY <1>2, <2>1, <2>2
<1>8. QED
  BY <1>1, <1>2, <1>5, <1>7, ReadLog

LEMMA RestoreLog ==
  ASSUME TypeOK, LogInv, NEW s \in Stores, Restore(s)
  PROVE  TypeOK' /\ LogInv'
<1>1. /\ Undisturbed(s) /\ Behind(s) /\ FileInv
      /\ at[s] = "mismatch" /\ at[s] \in Opening
  BY DEF LogInv, Restore, Opening
<1>2. CASE ~ Consistent(s)
  <2>1. Refuse(s)
    BY <1>2 DEF Restore
  <2>2. s \notin overtaken => Consistent(s)
    BY <1>1, Numbers DEF Undisturbed, Consistent, FileInv
  <2>3. QED
    BY <1>2, <2>1, <2>2, RefuseLog
<1>3. CASE Consistent(s)
  <2>1. ~ Refuse(s)
    <3>1. Goto(s, "open")
      BY <1>3 DEF Restore
    <3>2. QED
      BY <3>1 DEF Refuse, Goto, TypeOK
  <2>2. /\ TypeOK' /\ Others(s) /\ at'[s] = "open"
        /\ memory' = [memory EXCEPT ![s] = seen[s].log]
        /\ UNCHANGED <<files, history>>
    BY <2>1, RestoreType
  <2>3. seen' = [seen EXCEPT ![s] = Unseen]
    BY <1>3 DEF Restore, Forget
  <2>4. /\ file' = file /\ FileInv' /\ overtaken' = overtaken
        /\ refused' = refused
    BY <1>1, <2>2, FileKept DEF files, history
  <2>5. memory'[s] = seen[s].log /\ seen'[s].log = 0
    BY <2>2, <2>3 DEF TypeOK, Unseen
  <2>6. Behind(s)'
    BY <1>1, <2>4, <2>5, Numbers DEF Behind
  <2>7. Undisturbed(s)'
    BY <2>2 DEF Undisturbed, Opening
  <2>8. refused' \subseteq overtaken'
    BY <2>4 DEF LogInv
  <2>9. \A u \in Stores \ {s} : memory'[u] = memory[u]
    BY <2>2 DEF TypeOK
  <2>10. QED
    BY <2>2, <2>4, <2>6, <2>7, <2>8, <2>9, LogStep, Numbers
<1>4. QED
  BY <1>2, <1>3

-----------------------------------------------------------------------------
(* The log under open handles, archives and failures *)

LEMMA CommitLog ==
  ASSUME TypeOK, LogInv, NEW s \in Stores, Commit(s)
  PROVE  TypeOK' /\ LogInv'
<1>1. /\ TypeOK' /\ Others(s) /\ at[s] = "open" /\ at' = at
      /\ UNCHANGED <<archives, synced, seen, refused, reported, rivals>>
      /\ Overtaken(s) /\ overtaken \subseteq overtaken'
      /\ memory' = [memory EXCEPT ![s] = file.revisions + 1]
      /\ file'.revisions = file.revisions + 1
      /\ file'.receipts = file.revisions + 1
      /\ file'.head = file.revisions + 1
      /\ file'.application_id = file.application_id
      /\ file'.user_version = file.user_version
      /\ file'.tables = file.tables /\ file'.snapshots = file.snapshots
  BY CommitType DEF LogInv
<1>2. file.revisions \in Nat /\ file.snapshots \in SUBSET (1..MaxRevision)
  BY Numbers, FileFields
<1>3. \A n \in file.snapshots : n <= file.revisions + 1
  <2> DEFINE r == file.revisions
  <2>1. \A n \in file.snapshots : n \in Nat /\ n <= r
    BY <1>2 DEF LogInv, FileInv
  <2> HIDE DEF r
  <2>2. \A n \in file.snapshots : n <= r + 1
    BY <1>2, <2>1 DEF r
  <2> USE DEF r
  <2>3. QED
    BY <2>2
<1>4. FileInv'
  BY <1>1, <1>3 DEF LogInv, FileInv
<1>5. Behind(s)'
  <2>1. memory'[s] = file.revisions + 1 /\ seen'[s].log = seen[s].log
    BY <1>1 DEF TypeOK
  <2>2. seen[s].log <= file.revisions /\ seen[s].log \in Nat
    BY Numbers DEF LogInv, Behind
  <2>3. seen[s].log <= file.revisions + 1
    BY <1>2, <2>2
  <2>4. QED
    BY <1>1, <1>2, <2>1, <2>3 DEF Behind
<1>6. Undisturbed(s)'
  BY <1>1 DEF Undisturbed, Opening
<1>7. /\ refused' \subseteq overtaken'
      /\ \A u \in Stores \ {s} : memory'[u] = memory[u]
      /\ file.revisions <= file'.revisions
  BY <1>1, <1>2 DEF LogInv, TypeOK
<1>8. QED
  BY <1>1, <1>4, <1>5, <1>6, <1>7, LogStep

LEMMA SnapshotsLog ==
  ASSUME TypeOK, LogInv, NEW s \in Stores, Snapshot(s) \/ Compact(s)
  PROVE  TypeOK' /\ LogInv'
<1>1. /\ TypeOK' /\ Others(s) /\ at' = at
      /\ UNCHANGED <<archives, synced, handles, history>>
      /\ file'.revisions = file.revisions /\ file'.receipts = file.receipts
      /\ file'.head = file.head /\ file'.tables = file.tables
      /\ file'.application_id = file.application_id
      /\ file'.user_version = file.user_version
      /\ file'.snapshots \subseteq file.snapshots \cup {memory[s]}
  BY SnapshotsType
<1>2. FileInv'
  BY <1>1 DEF LogInv, FileInv, Behind
<1>3. /\ seen' = seen /\ memory' = memory /\ refused' = refused
      /\ overtaken' = overtaken /\ at[s] = "open"
  BY <1>1 DEF handles, history, Snapshot, Compact
<1>4. Behind(s)' /\ refused' \subseteq overtaken'
  BY <1>1, <1>3 DEF LogInv, Behind
<1>5. Undisturbed(s)'
  BY <1>1, <1>3 DEF Undisturbed, Opening
<1>6. file.revisions <= file'.revisions
  BY <1>1, Numbers
<1>7. QED
  BY <1>1, <1>2, <1>3, <1>4, <1>5, <1>6, LogStep

\* A step that neither opens the store nor touches its file.
LEMMA QuietLog ==
  ASSUME TypeOK, LogInv, NEW s \in Stores, TypeOK', Others(s),
         UNCHANGED <<file, refused, overtaken>>, at'[s] \notin Opening,
         \A u \in Stores : memory'[u] \in {0, memory[u]},
         \A u \in Stores \ {s} : memory'[u] = memory[u],
         seen'[s].log \in {0, seen[s].log}
  PROVE  LogInv'
<1>1. FileInv'
  BY DEF LogInv, FileInv
<1>2. Behind(s)'
  BY Numbers DEF LogInv, Behind
<1>3. Undisturbed(s)'
  BY DEF Undisturbed
<1>4. refused' \subseteq overtaken'
  BY DEF LogInv
<1>5. QED
  BY <1>1, <1>2, <1>3, <1>4, LogStep, Numbers

LEMMA PowerLossLog ==
  ASSUME TypeOK, LogInv, PowerLoss
  PROVE  TypeOK' /\ LogInv'
<1>1. /\ TypeOK' /\ UNCHANGED <<file, history>>
      /\ \A s \in Stores : at'[s] = "closed" /\ memory'[s] = 0
  BY PowerLossType
<1>2. \A s \in Stores : seen'[s].log = 0
  BY DEF PowerLoss, Unseen
<1>3. FileInv'
  BY <1>1 DEF LogInv, FileInv
<1>4. \A s \in Stores : Behind(s)' /\ Undisturbed(s)'
  BY <1>1, <1>2, Numbers DEF Behind, Undisturbed, Opening
<1>5. QED
  BY <1>1, <1>3, <1>4 DEF LogInv, history

-----------------------------------------------------------------------------
(* Archives *)

\* What an archive call has prepared.
Drafted(s) ==
  /\ at[s] \in Archiving => seen[s].destination \in Destinations
  /\ at[s] \in {"validate", "sync", "rename"} => seen[s].copy \in Copy
  /\ at[s] = "rename" => seen[s].copy.synced
  /\ at[s] = "sync_parent" => archives[seen[s].destination] # Absent

\* A call that may still write finds its destination empty, or was under way
\* when the archive there was written.
Rival(s) ==
  at[s] \in {"backup", "validate", "sync", "rename"}
    /\ archives[seen[s].destination] # Absent =>
      s \in rivals[seen[s].destination]

WholeCopies == {c \in Copy : c.synced}

\* A destination only ever holds synced copies; a reported one, durably.
Whole(d) ==
  /\ archives[d] \in WholeCopies \cup {Absent}
  /\ synced[d] \in WholeCopies \cup {Absent}
  /\ d \in reported => archives[d] # Absent /\ synced[d] # Absent

ArchiveInv ==
  /\ \A s \in Stores : Drafted(s) /\ Rival(s)
  /\ \A d \in Destinations : Whole(d)

\* A step that writes no archive.
LEMMA ArchiveStays ==
  ASSUME ArchiveInv, NEW s \in Stores, Others(s),
         UNCHANGED <<archives, synced, reported, rivals>>,
         Drafted(s)', Rival(s)'
  PROVE  ArchiveInv'
<1>1. ASSUME NEW u \in Stores \ {s} PROVE Drafted(u)' /\ Rival(u)'
  <2>1. Drafted(u) /\ Rival(u) /\ at'[u] = at[u] /\ seen'[u] = seen[u]
    BY DEF ArchiveInv, Others
  <2>2. QED
    BY <2>1 DEF Drafted, Rival
<1>2. \A d \in Destinations : Whole(d)'
  BY DEF ArchiveInv, Whole
<1>3. QED
  BY <1>1, <1>2 DEF ArchiveInv

\* In particular one that leaves its handle idle, or opening.
LEMMA ArchiveElsewhere ==
  ASSUME ArchiveInv, NEW s \in Stores, Others(s), at'[s] \notin Archiving,
         UNCHANGED <<archives, synced, reported, rivals>>
  PROVE  ArchiveInv'
<1>1. Drafted(s)' /\ Rival(s)'
  BY DEF Drafted, Rival, Archiving
<1>2. QED
  BY <1>1, ArchiveStays

LEMMA ArchiveReadsInv ==
  ASSUME TypeOK, LogInv, ArchiveInv, NEW s \in Stores, ArchiveReads(s)
  PROVE  TypeOK' /\ LogInv' /\ ArchiveInv'
<1>1. Drafted(s) /\ Rival(s)
  BY DEF ArchiveInv
<1>2. TypeOK' /\ Others(s) /\ UNCHANGED <<files, memory, history>>
  BY <1>1, ArchiveReadsType DEF Drafted
<1>3. /\ file' = file /\ archives' = archives /\ synced' = synced
      /\ refused' = refused /\ overtaken' = overtaken
      /\ reported' = reported /\ rivals' = rivals /\ memory' = memory
  BY <1>2 DEF files, history
<1>4. CASE Archive(s)
  <2>1. PICK d \in Destinations :
          MayArchive(d) /\ seen' = [seen EXCEPT ![s].destination = d]
    BY <1>4 DEF Archive, See
  <2>2. at'[s] = "backup" /\ seen'[s].destination = d
    BY <1>4, <2>1 DEF Archive, Goto, TypeOK, Seen
  <2>3. seen'[s].log = seen[s].log
    BY <2>1 DEF TypeOK, Seen
  <2>4. Drafted(s)' /\ Rival(s)'
    BY <1>3, <2>1, <2>2 DEF Drafted, Rival, MayArchive
  <2>5. ArchiveInv'
    BY <1>2, <1>3, <2>4, ArchiveStays
  <2>6. LogInv'
    BY <1>2, <1>3, <2>2, <2>3, QuietLog DEF Opening
  <2>7. QED
    BY <1>2, <2>5, <2>6
<1>5. CASE Backup(s)
  <2> DEFINE c == [sequence |-> file.revisions, synced |-> FALSE]
  <2>1. c \in Copy /\ seen' = [seen EXCEPT ![s].copy = c]
    BY <1>5, FileFields DEF Backup, See, Copy
  <2> HIDE DEF c
  <2>2. /\ at[s] = "backup" /\ at'[s] = "validate"
        /\ seen'[s].copy \in Copy
        /\ seen'[s].destination = seen[s].destination
        /\ seen'[s].log = seen[s].log
    BY <1>5, <2>1 DEF Backup, Goto, TypeOK, Seen
  <2>3. Drafted(s)' /\ Rival(s)'
    BY <1>1, <1>3, <2>2 DEF Drafted, Rival, Archiving
  <2>4. ArchiveInv'
    BY <1>2, <1>3, <2>3, ArchiveStays
  <2>5. LogInv'
    BY <1>2, <1>3, <2>2, QuietLog DEF Opening
  <2>6. QED
    BY <1>2, <2>4, <2>5
<1>6. CASE ValidateArchive(s)
  <2>1. CASE Goto(s, "sync") /\ UNCHANGED seen
    <3>1. at[s] = "validate" /\ at'[s] = "sync" /\ seen' = seen
      BY <1>6, <2>1 DEF ValidateArchive, Goto, TypeOK
    <3>2. Drafted(s)' /\ Rival(s)'
      BY <1>1, <1>3, <3>1 DEF Drafted, Rival, Archiving
    <3>3. ArchiveInv'
      BY <1>2, <1>3, <3>2, ArchiveStays
    <3>4. LogInv'
      BY <1>2, <1>3, <3>1, QuietLog DEF Opening
    <3>5. QED
      BY <1>2, <3>3, <3>4
  <2>2. CASE EndArchive(s)
    <3>1. at'[s] = "open" /\ seen'[s].log = 0
      BY <2>2 DEF EndArchive, Goto, Forget, TypeOK, Unseen
    <3>2. ArchiveInv'
      BY <1>2, <1>3, <3>1, ArchiveElsewhere DEF Archiving
    <3>3. LogInv'
      BY <1>2, <1>3, <3>1, QuietLog DEF Opening
    <3>4. QED
      BY <1>2, <3>2, <3>3
  <2>3. QED
    BY <1>6, <2>1, <2>2 DEF ValidateArchive
<1>7. CASE SyncTemporary(s)
  <2> DEFINE c == Synced(seen[s].copy)
  <2>1. c \in Copy /\ c.synced /\ seen' = [seen EXCEPT ![s].copy = c]
    BY <1>1, <1>7 DEF SyncTemporary, See, Synced, Copy, Drafted
  <2> HIDE DEF c
  <2>2. /\ at[s] = "sync" /\ at'[s] = "rename"
        /\ seen'[s].copy = c
        /\ seen'[s].destination = seen[s].destination
        /\ seen'[s].log = seen[s].log
    BY <1>7, <2>1 DEF SyncTemporary, Goto, TypeOK, Seen
  <2>3. Drafted(s)' /\ Rival(s)'
    BY <1>1, <1>3, <2>1, <2>2 DEF Drafted, Rival, Archiving
  <2>4. ArchiveInv'
    BY <1>2, <1>3, <2>3, ArchiveStays
  <2>5. LogInv'
    BY <1>2, <1>3, <2>2, QuietLog DEF Opening
  <2>6. QED
    BY <1>2, <2>4, <2>5
<1>8. QED
  BY <1>4, <1>5, <1>6, <1>7 DEF ArchiveReads

\* Every other call preparing an archive for that destination becomes a rival.
LEMMA RenameInv ==
  ASSUME TypeOK, LogInv, ArchiveInv, NEW s \in Stores, Rename(s)
  PROVE  TypeOK' /\ LogInv' /\ ArchiveInv'
<1> DEFINE d == seen[s].destination
<1>1. /\ Drafted(s) /\ at[s] = "rename" /\ d \in Destinations
      /\ seen[s].copy \in WholeCopies
  BY DEF ArchiveInv, Rename, Drafted, Archiving, WholeCopies
<1>2. /\ TypeOK' /\ Others(s) /\ at'[s] = "sync_parent"
      /\ UNCHANGED <<file, synced, seen, memory, refused, overtaken, reported>>
      /\ archives' = [archives EXCEPT ![d] = seen[s].copy]
      /\ rivals' = [rivals EXCEPT ![d] = RivalsOf(s, d)]
  BY <1>1, RenameType DEF WholeCopies
<1>3. archives'[d] = seen[s].copy /\ archives'[d] # Absent
  BY <1>1, <1>2 DEF TypeOK, WholeCopies
<1>4. Drafted(s)' /\ Rival(s)'
  BY <1>1, <1>2, <1>3 DEF Drafted, Rival
<1>5. ASSUME NEW u \in Stores \ {s} PROVE Drafted(u)' /\ Rival(u)'
  <2>1. /\ Drafted(u) /\ Rival(u) /\ at'[u] = at[u] /\ seen'[u] = seen[u]
    BY <1>2 DEF ArchiveInv, Others
  <2>2. CASE seen[u].destination = d
    <3>1. at[u] \in Archiving => u \in rivals'[d]
      BY <1>1, <1>2, <2>2 DEF TypeOK, RivalsOf
    <3>2. QED
      BY <1>3, <2>1, <2>2, <3>1 DEF Drafted, Rival, Archiving
  <2>3. CASE seen[u].destination # d
    <3>1. CASE at[u] \in Archiving
      <4>1. /\ archives'[seen[u].destination] = archives[seen[u].destination]
            /\ rivals'[seen[u].destination] = rivals[seen[u].destination]
        BY <1>2, <2>1, <2>3, <3>1 DEF TypeOK, Drafted
      <4>2. QED
        BY <2>1, <4>1 DEF Drafted, Rival
    <3>2. CASE at[u] \notin Archiving
      BY <2>1, <3>2 DEF Drafted, Rival, Archiving
    <3>3. QED
      BY <3>1, <3>2
  <2>4. QED
    BY <2>2, <2>3
<1>6. ASSUME NEW e \in Destinations PROVE Whole(e)'
  <2>1. Whole(e)
    BY DEF ArchiveInv
  <2>2. /\ archives'[e] \in {archives[e], seen[s].copy}
        /\ archives'[e] = Absent => archives[e] = Absent
    BY <1>1, <1>2, <1>3 DEF TypeOK
  <2>3. QED
    BY <1>1, <1>2, <2>1, <2>2 DEF Whole
<1>7. LogInv'
  BY <1>2, QuietLog DEF Opening
<1>8. QED
  BY <1>2, <1>4, <1>5, <1>6, <1>7 DEF ArchiveInv

LEMMA SyncParentInv ==
  ASSUME TypeOK, LogInv, ArchiveInv, NEW s \in Stores, SyncParent(s)
  PROVE  TypeOK' /\ LogInv' /\ ArchiveInv'
<1> DEFINE d == seen[s].destination
<1>1. /\ Drafted(s) /\ at[s] = "sync_parent" /\ d \in Destinations
      /\ archives[d] # Absent
  BY DEF ArchiveInv, SyncParent, Drafted, Archiving
<1>2. /\ TypeOK' /\ Others(s) /\ at'[s] = "open"
      /\ UNCHANGED <<file, archives, memory, refused, overtaken, rivals>>
      /\ synced' = [synced EXCEPT ![d] = archives[d]]
      /\ reported' = reported \cup {d}
  BY <1>1, SyncParentType
<1>3. Drafted(s)' /\ Rival(s)'
  BY <1>2 DEF Drafted, Rival, Archiving
<1>4. ASSUME NEW u \in Stores \ {s} PROVE Drafted(u)' /\ Rival(u)'
  BY <1>2 DEF ArchiveInv, Others, Drafted, Rival
<1>5. ASSUME NEW e \in Destinations PROVE Whole(e)'
  <2>1. Whole(e) /\ archives'[e] = archives[e] /\ rivals'[e] = rivals[e]
    BY <1>2 DEF ArchiveInv
  <2>2. synced'[e] = IF e = d THEN archives[e] ELSE synced[e]
    BY <1>2 DEF TypeOK
  <2>3. e \in reported' <=> e \in reported \/ e = d
    BY <1>2
  <2> HIDE DEF d
  <2>4. QED
    BY <1>1, <2>1, <2>2, <2>3 DEF Whole
<1>6. seen'[s].log = 0
  BY DEF SyncParent, EndArchive, Forget, Unseen, TypeOK
<1>7. LogInv'
  BY <1>2, <1>6, QuietLog DEF Opening
<1>8. QED
  BY <1>2, <1>3, <1>4, <1>5, <1>7 DEF ArchiveInv

\* A power loss leaves what was synced, which is whole.
LEMMA PowerLossInv ==
  ASSUME TypeOK, LogInv, ArchiveInv, PowerLoss
  PROVE  TypeOK' /\ LogInv' /\ ArchiveInv'
<1>1. /\ UNCHANGED <<file, history>>
      /\ \A s \in Stores : at'[s] = "closed"
      /\ \A d \in Destinations :
           /\ archives'[d] \in Surviving(archives[d]) \cup Surviving(synced[d])
           /\ synced'[d] = archives'[d]
  BY PowerLossType
<1>2. \A s \in Stores : Drafted(s)' /\ Rival(s)'
  BY <1>1 DEF Drafted, Rival, Archiving
<1>3. ASSUME NEW d \in Destinations PROVE Whole(d)'
  <2>1. Whole(d)
    BY DEF ArchiveInv
  <2>2. archives'[d] \in {archives[d], synced[d]}
    BY <1>1, <2>1 DEF Whole, WholeCopies, Surviving
  <2>3. QED
    BY <1>1, <2>1, <2>2 DEF Whole, history
<1>4. QED
  BY <1>2, <1>3, PowerLossLog DEF ArchiveInv

LEMMA FailureInv ==
  ASSUME TypeOK, LogInv, ArchiveInv, NEW s \in Stores, Fail(s) \/ Crash(s)
  PROVE  TypeOK' /\ LogInv' /\ ArchiveInv'
<1>1. /\ TypeOK' /\ Others(s) /\ at'[s] \in {"closed", "open"}
      /\ UNCHANGED <<files, history>>
      /\ \A u \in Stores : memory'[u] \in {0, memory[u]}
  BY FailureType
<1>2. seen'[s].log = 0
  BY DEF Fail, Crash, Forget, Unseen, TypeOK
<1>3. \A u \in Stores \ {s} : memory'[u] = memory[u]
  BY DEF Fail, Crash, TypeOK
<1>4. UNCHANGED <<file, archives, synced, refused, overtaken, reported, rivals>>
  BY <1>1 DEF files, history
<1>5. LogInv'
  BY <1>1, <1>2, <1>3, <1>4, QuietLog DEF Opening
<1>6. ArchiveInv'
  BY <1>1, <1>4, ArchiveElsewhere DEF Archiving
<1>7. QED
  BY <1>1, <1>5, <1>6

\* A step of an open writes no archive and ends, if at all, idle or closed.
LEMMA OpenStepInv ==
  ASSUME TypeOK, LogInv, ArchiveInv, NEW s \in Stores, OpenStep(s)
  PROVE  TypeOK' /\ LogInv' /\ ArchiveInv'
<1>1. TypeOK' /\ LogInv'
  BY OpenLog, ReadIdentityLog, CountObjectsLog, InitializeLog,
     ValidateSchemaLog, ReadHeadLog, ReadSnapshotLog, FindSnapshotRowLog,
     ScanLog, CountRowsLog, RestoreLog DEF OpenStep
<1>2. UNCHANGED <<archives, synced, reported, rivals>>
  BY DEF OpenStep, Open, ReadIdentity, Read, CountObjects, Initialize,
         ValidateSchema, ReadHead, ReadSnapshot, FindSnapshotRow, Scan,
         CountRows, Restore, Refuse, files, history
<1>3. \E x \in {"closed", "open"} \cup Opening : Goto(s, x)
  BY DEF OpenStep, Open, ReadIdentity, Read, CountObjects, Initialize,
         ValidateSchema, ReadHead, ReadSnapshot, FindSnapshotRow, Scan,
         CountRows, Restore, Refuse, Opening
<1>4. at'[s] \notin Archiving
  BY <1>3 DEF Goto, TypeOK, Opening, Archiving
<1>5. Others(s)
  <2>1. CASE Open(s)
    BY <2>1, OpenType
  <2>2. CASE Reads(s)
    BY <2>2, ReadsType DEF Others
  <2>3. CASE Checks(s)
    BY <2>3, ChecksType DEF Others
  <2>4. CASE Refuse(s)
    BY <2>4, RefuseType DEF Others
  <2>5. CASE Initialize(s) /\ ~ Refuse(s)
    BY <2>5, InitializeType
  <2>6. CASE Scan(s) \/ CountRows(s)
    BY <2>6, CountsType DEF Others
  <2>7. CASE Restore(s) /\ ~ Refuse(s)
    BY <2>7, RestoreType
  <2>8. QED
    BY <2>1, <2>2, <2>3, <2>4, <2>5, <2>6, <2>7 DEF OpenStep, Reads, Checks
<1>6. QED
  BY <1>1, <1>2, <1>4, <1>5, ArchiveElsewhere

-----------------------------------------------------------------------------
(* The invariant *)

RecoveryInv == TypeOK /\ LogInv /\ ArchiveInv

LEMMA RecoveryInit == Init => RecoveryInv
<1> SUFFICES ASSUME Init PROVE RecoveryInv
  OBVIOUS
<1>1. TypeOK
  BY InitType
<1>2. FileInv
  BY DEF Init, Empty, FileInv
<1>3. \A s \in Stores : Behind(s) /\ Undisturbed(s)
  BY DEF Init, Empty, Unseen, Behind, Undisturbed, Opening
<1>4. LogInv
  BY <1>2, <1>3 DEF Init, LogInv
<1>5. ArchiveInv
  BY DEF Init, ArchiveInv, Drafted, Rival, Whole, Archiving
<1>6. QED
  BY <1>1, <1>4, <1>5 DEF RecoveryInv

LEMMA RecoveryNext == RecoveryInv /\ [Next]_vars => RecoveryInv'
<1> SUFFICES ASSUME TypeOK, LogInv, ArchiveInv, [Next]_vars
             PROVE  TypeOK' /\ LogInv' /\ ArchiveInv'
  BY DEF RecoveryInv
<1>1. ASSUME NEW s \in Stores, OpenStep(s)
      PROVE  TypeOK' /\ LogInv' /\ ArchiveInv'
  BY <1>1, OpenStepInv
<1>2. ASSUME NEW s \in Stores, ArchiveStep(s)
      PROVE  TypeOK' /\ LogInv' /\ ArchiveInv'
  BY <1>2, ArchiveReadsInv, RenameInv, SyncParentInv
     DEF ArchiveStep, ArchiveReads
<1>3. ASSUME NEW s \in Stores, Commit(s)
      PROVE  TypeOK' /\ LogInv' /\ ArchiveInv'
  <2>1. FileInv
    BY DEF LogInv
  <2>2. /\ Others(s) /\ at'[s] \notin Archiving
        /\ UNCHANGED <<archives, synced, reported, rivals>>
    BY <1>3, <2>1, CommitType DEF Archiving
  <2>3. QED
    BY <1>3, <2>2, CommitLog, ArchiveElsewhere
<1>4. ASSUME NEW s \in Stores, Snapshot(s) \/ Compact(s)
      PROVE  TypeOK' /\ LogInv' /\ ArchiveInv'
  <2>1. Others(s) /\ at' = at /\ UNCHANGED <<archives, synced, handles, history>>
    BY <1>4, SnapshotsType
  <2>2. at'[s] \notin Archiving /\ UNCHANGED <<archives, synced, reported, rivals>>
    BY <1>4, <2>1 DEF Snapshot, Compact, Archiving, history
  <2>3. QED
    BY <1>4, <2>1, <2>2, SnapshotsLog, ArchiveElsewhere
<1>5. ASSUME NEW s \in Stores, Fail(s) \/ Crash(s)
      PROVE  TypeOK' /\ LogInv' /\ ArchiveInv'
  BY <1>5, FailureInv
<1>6. CASE PowerLoss
  BY <1>6, PowerLossInv
<1>7. CASE UNCHANGED vars
  BY <1>7 DEF vars, handles, history, TypeOK, LogInv, FileInv, Behind,
              Undisturbed, ArchiveInv, Drafted, Rival, Whole
<1>8. QED
  BY <1>1, <1>2, <1>3, <1>4, <1>5, <1>6, <1>7 DEF Next

LEMMA RecoveryInvariant == Spec => []RecoveryInv
BY RecoveryInit, RecoveryNext, PTL DEF Spec

\* Values are of the code's types.
THEOREM RecoveryTypeOK == Spec => []TypeOK
<1>1. RecoveryInv => TypeOK
  BY DEF RecoveryInv
<1>2. QED
  BY <1>1, RecoveryInvariant, PTL

\* However many handles open, commit, snapshot, compact and crash around it, an
\* open finds the store corrupt, or cannot initialise it, only if one of them
\* committed or initialised the file between two of its statements
\* (lib.rs:487-545, 627-714).
THEOREM RecoveryUndisturbedOpenSucceeds == Spec => []UndisturbedOpenSucceeds
<1>1. RecoveryInv => UndisturbedOpenSucceeds
  BY DEF RecoveryInv, LogInv, UndisturbedOpenSucceeds
<1>2. QED
  BY <1>1, RecoveryInvariant, PTL

\* No failure, crash or power loss leaves part of an archive at a destination,
\* nor loses one that was reported as written (lib.rs:881-894).
THEOREM RecoveryArchivesSurvive == Spec => []ArchivesSurvive
<1>1. Torn \notin WholeCopies \cup {Absent}
  BY DEF WholeCopies
<1>2. RecoveryInv => ArchivesSurvive
  BY <1>1 DEF RecoveryInv, ArchiveInv, Whole, ArchivesSurvive
<1>3. QED
  BY <1>2, RecoveryInvariant, PTL

\* An archive is replaced only by a call that was under way when it was written
\* (lib.rs:870, 891).
THEOREM RecoveryReplacedOnlyByRivals == Spec => ReplacedOnlyByRivals
<1> DEFINE Step ==
      \A d \in Destinations, s \in Stores :
        archives[d] # Absent /\ at[s] = "rename" /\ at'[s] = "sync_parent"
          /\ seen[s].destination = d =>
          s \in rivals[d]
<1>1. RecoveryInv => Step
  BY DEF RecoveryInv, ArchiveInv, Rival
<1>2. Spec => [][Step]_vars
  BY <1>1, RecoveryInvariant, PTL
<1>3. QED
  BY <1>2 DEF ReplacedOnlyByRivals
=============================================================================
