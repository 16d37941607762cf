-------------------------- MODULE ProjectStoreProofs --------------------------
(***************************************************************************)
(* ProjectStore for every number of handles, callers, requests, commands   *)
(* and fault points: the inductive invariant and what follows from it.     *)
(***************************************************************************)
EXTENDS ProjectStore, ProjectModelProofs, FiniteSetTheorems, FunctionTheorems

-----------------------------------------------------------------------------
(* The inductive invariant *)

(* Every prefix of the log names the chain of its commands, whose replay   *)
(* is a sound project.                                                     *)
ChainSound ==
  \A i \in 0..Len(revisions) :
    /\ HashAt(i) \in Seq(Command) /\ Len(HashAt(i)) = i
    /\ \A j \in 1..i : HashAt(i)[j] = revisions[j].command
    /\ Replay(HashAt(i)) \in Project /\ WellFormed(Replay(HashAt(i)))

(* Receipts and revisions are one to one and agree. *)
ReceiptsSound ==
  /\ \A r \in RequestIds : receipts[r] # Absent =>
       /\ receipts[r].sequence \in 1..Len(revisions)
       /\ revisions[receipts[r].sequence].hash = receipts[r].hash
       /\ revisions[receipts[r].sequence].command = receipts[r].command
       /\ \A q \in RequestIds \ {r} : receipts[q] # Absent =>
            receipts[q].sequence # receipts[r].sequence
  /\ \A i \in 1..Len(revisions) :
       \E r \in RequestIds : receipts[r] # Absent /\ receipts[r].sequence = i

LogSound == LogReplays /\ ChainSound /\ ReceiptsSound /\ HeadMatches

(* MemoryFollowsLog of every handle, closed ones included. *)
MemorySound ==
  \A s \in Stores :
    /\ memory[s].sequence \in 0..Len(revisions)
    /\ memory[s].head = HashAt(memory[s].sequence)
    /\ memory[s].project = Replay(memory[s].head)

Busy(s) == phase[s] \in {"working", "committing", "compacting", "replying"}

CallsAt(c, s) == calls[c] # Absent /\ calls[c].store = s

(* The work of a handle belongs to callers blocked in it, each at one      *)
(* place of the channel or in the hands of the worker.                     *)
CallsSound ==
  \A s \in Stores :
    /\ \A i \in 1..Len(queue[s]) : CallsAt(queue[s][i], s)
    /\ \A i, j \in 1..Len(queue[s]) : queue[s][i] = queue[s][j] => i = j
    /\ Busy(s) => /\ job[s] \in Callers /\ CallsAt(job[s], s)
                  /\ \A i \in 1..Len(queue[s]) : queue[s][i] # job[s]

(* What a worker is about to commit or to answer. *)
WorkSoundAt(s) ==
  /\ phase[s] = "committing" =>
       work(s).op = "Commit" /\ Accepts(memory[s].project, work(s).command)
  /\ phase[s] = "replying" =>
       /\ reply[s].receipt # Absent =>
            /\ receipt(reply[s].receipt.request) = reply[s].receipt
            /\ work(s).op = "Commit" =>
                 receipts[reply[s].receipt.request].command = work(s).command
       /\ reply[s].outcome = "Ambiguous" =>
            work(s).op = "Commit" /\ receipts[work(s).request] # Absent

WorkSound == \A s \in Stores : WorkSoundAt(s)

Inv == /\ TypeOK
       /\ LogSound
       /\ MemorySound
       /\ SnapshotsReplay
       /\ CallsSound
       /\ WorkSound
       /\ AcknowledgedIsDurable

LEMMA InitInv == Init => Inv
<1> SUFFICES ASSUME Init PROVE Inv
  OBVIOUS
<1> USE DEF Init
<1>1. TypeOK
  <2>1. Fresh \in State
    BY EmptyProjectType DEF Fresh, State, NoHash, RevisionHash
  <2>2. NoReply \in Reply
    BY DEF NoReply, Reply, Outcome
  <2>3. QueuesBounded
    BY StoreAssumption DEF QueuesBounded
  <2>4. MemoryCounts
    BY DEF MemoryCounts, Fresh, NoHash
  <2>5. QED
    BY <2>1, <2>2, <2>3, <2>4 DEF TypeOK, Phase
<1>2. LogSound
  <2>1. revisions = <<>> /\ Len(revisions) = 0
    OBVIOUS
  <2>2. \A i \in 0..0 : HashAt(i) = <<>>
    BY DEF HashAt, HashIn, NoHash
  <2>3. ChainSound
    <3>1. ASSUME NEW i \in 0..0
          PROVE  /\ HashAt(i) \in Seq(Command) /\ Len(HashAt(i)) = i
                 /\ Replay(HashAt(i)) = EmptyProject
      <4>1. i = 0 /\ HashAt(i) = <<>>
        BY <2>2
      <4>2. <<>> \in Seq(Command) /\ Len(<<>>) = 0
        OBVIOUS
      <4>3. QED
        BY <4>1, <4>2, ReplayEmpty
    <3>2. QED
      BY <2>1, <3>1, EmptyProjectType, EmptyProjectWellFormed DEF ChainSound
  <2>4. QED
    BY <2>1, <2>3 DEF LogSound, LogReplays, ReceiptsSound, HeadMatches
<1>3. MemorySound
  BY ReplayEmpty DEF MemorySound, Fresh, HashAt, HashIn, NoHash
<1>4. SnapshotsReplay /\ CallsSound /\ WorkSound /\ AcknowledgedIsDurable
  BY DEF SnapshotsReplay, CallsSound, Busy, WorkSound, WorkSoundAt,
         AcknowledgedIsDurable
<1>5. QED
  BY <1>1, <1>2, <1>3, <1>4 DEF Inv

-----------------------------------------------------------------------------
(* Steps that leave part of the state alone *)

LEMMA LogFrame ==
  ASSUME LogSound, UNCHANGED <<revisions, receipts, head>>
  PROVE  LogSound'
<1>1. LogReplays'
  BY DEF LogSound, LogReplays, HashAt, HashIn
<1>2. ChainSound'
  BY DEF LogSound, ChainSound, HashAt, HashIn
<1>3. ReceiptsSound'
  BY DEF LogSound, ReceiptsSound
<1>4. HeadMatches'
  BY DEF LogSound, HeadMatches, HashAt, HashIn
<1>5. QED
  BY <1>1, <1>2, <1>3, <1>4 DEF LogSound

LEMMA AcknowledgedFrame ==
  ASSUME AcknowledgedIsDurable,
         UNCHANGED <<revisions, receipts, acked, ambiguous>>
  PROVE  AcknowledgedIsDurable'
BY DEF AcknowledgedIsDurable, receipt, HashAt, HashIn

LEMMA MemoryFrame ==
  ASSUME MemorySound, UNCHANGED <<revisions, memory>>
  PROVE  MemorySound'
BY DEF MemorySound, HashAt, HashIn

LEMMA CountsFrame ==
  ASSUME MemoryCounts, UNCHANGED memory
  PROVE  MemoryCounts'
BY DEF MemoryCounts

LEMMA QueuesFrame ==
  ASSUME QueuesBounded, UNCHANGED queue
  PROVE  QueuesBounded'
BY DEF QueuesBounded

(* One handle's memory changes. *)
LEMMA CountsStep ==
  ASSUME MemoryCounts, NEW s \in Stores, NEW m,
         memory \in [Stores -> State],
         memory' = [memory EXCEPT ![s] = m], m.sequence = Len(m.head)
  PROVE  MemoryCounts'
BY DEF MemoryCounts

(* One handle's channel changes. *)
LEMMA QueuesStep ==
  ASSUME QueuesBounded, NEW s \in Stores, NEW q,
         queue \in [Stores -> Seq(Callers)],
         queue' = [queue EXCEPT ![s] = q], Len(q) <= Capacity
  PROVE  QueuesBounded'
BY DEF QueuesBounded

LEMMA SnapshotsFrame ==
  ASSUME SnapshotsReplay, UNCHANGED <<revisions, snapshots>>
  PROVE  SnapshotsReplay'
BY DEF SnapshotsReplay, HashAt, HashIn

(* The work of a busy handle. *)
LEMMA WorkType ==
  ASSUME Inv, NEW s \in Stores, Busy(s)
  PROVE  /\ job[s] \in Callers /\ calls[job[s]] \in BlockedCall
         /\ calls[job[s]].store = s /\ work(s) \in Work
         /\ work(s).op = "Commit" =>
              work(s).request \in RequestIds /\ work(s).command \in Commands
         /\ work(s).op = "Receipt" => work(s).request \in RequestIds
<1>1. job[s] \in Callers /\ CallsAt(job[s], s)
  BY DEF Inv, CallsSound
<1>2. calls[job[s]] \in BlockedCall /\ calls[job[s]].store = s
  BY <1>1 DEF Inv, TypeOK, CallsAt
<1>3. work(s) \in Work
  BY <1>2 DEF work, BlockedCall
<1>4. QED
  BY <1>1, <1>2, <1>3 DEF Work

(* Two busy handles serve two callers. *)
LEMMA JobsDiffer ==
  ASSUME Inv, NEW s \in Stores, NEW t \in Stores, Busy(s), Busy(t), s # t
  PROVE  job[s] # job[t]
BY WorkType

(* What a receipt names. *)
LEMMA ReceiptNames ==
  ASSUME Inv, NEW r \in RequestIds, receipts[r] # Absent
  PROVE  /\ receipt(r) \in CommitReceipt
         /\ receipt(r).request = r
         /\ receipt(r).sequence \in 1..Len(revisions)
         /\ HashAt(receipt(r).sequence) = receipt(r).hash
         /\ revisions[receipt(r).sequence].command = receipts[r].command
<1>1. receipts[r] \in Row
  BY DEF Inv, TypeOK
<1>2. receipt(r) = [request |-> r, hash |-> receipts[r].hash,
                    sequence |-> receipts[r].sequence]
  BY DEF receipt
<1>3. /\ receipts[r].sequence \in 1..Len(revisions)
      /\ revisions[receipts[r].sequence].hash = receipts[r].hash
      /\ revisions[receipts[r].sequence].command = receipts[r].command
  BY DEF Inv, LogSound, ReceiptsSound
<1>4. HashAt(receipts[r].sequence) = receipts[r].hash
  BY <1>1, <1>3 DEF HashAt, HashIn, Row
<1>5. QED
  BY <1>1, <1>2, <1>3, <1>4 DEF Row, CommitReceipt

-----------------------------------------------------------------------------
(* A step of one worker that leaves the log and its memory alone *)

LEMMA LocalStep ==
  ASSUME Inv, NEW s \in Stores, NEW p \in Phase, NEW v \in Reply,
         phase' = [phase EXCEPT ![s] = p],
         \/ p \in {"committing", "compacting", "replying"} /\ Busy(s)
         \/ p = "idle",
         reply' = [reply EXCEPT ![s] = v],
         failed' \subseteq Stores,
         snapshots' \subseteq snapshots \cup
           (IF memory[s].sequence = 0 THEN {} ELSE {MemorySnapshot(s)}),
         UNCHANGED <<revisions, receipts, head, memory, queue, job, calls,
                     acked, ambiguous>>,
         WorkSoundAt(s)'
  PROVE  Inv'
<1>1. memory[s] \in State /\ memory[s].sequence \in 0..Len(revisions)
  BY DEF Inv, TypeOK, MemorySound
<1>2. MemorySnapshot(s) \in Snapshot
  BY <1>1 DEF MemorySnapshot, Snapshot, State
<1>3. TypeOK'
  <2>1. snapshots' \subseteq Snapshot
    BY <1>2 DEF Inv, TypeOK
  <2>2. phase' \in [Stores -> Phase] /\ reply' \in [Stores -> Reply]
    BY DEF Inv, TypeOK
  <2>3. QueuesBounded' /\ MemoryCounts'
    BY QueuesFrame, CountsFrame DEF Inv, TypeOK
  <2>4. QED
    BY <2>1, <2>2, <2>3 DEF Inv, TypeOK
<1>4. LogSound' /\ MemorySound' /\ AcknowledgedIsDurable'
  BY LogFrame, MemoryFrame, AcknowledgedFrame DEF Inv
<1>5. SnapshotsReplay'
  <2>1. ASSUME memory[s].sequence # 0
        PROVE  /\ MemorySnapshot(s).sequence \in 1..Len(revisions)
               /\ MemorySnapshot(s).hash = HashAt(MemorySnapshot(s).sequence)
               /\ MemorySnapshot(s).project = Replay(MemorySnapshot(s).hash)
    BY <1>1, <2>1 DEF Inv, MemorySound, MemorySnapshot
  <2>2. QED
    BY <2>1 DEF Inv, SnapshotsReplay, HashAt, HashIn
<1>6. CallsSound'
  BY DEF Inv, TypeOK, CallsSound, CallsAt, Busy
<1>7. WorkSound'
  <2>1. ASSUME NEW t \in Stores \ {s} PROVE WorkSoundAt(t)'
    <3>1. phase'[t] = phase[t] /\ reply'[t] = reply[t]
      BY DEF Inv, TypeOK
    <3>2. work(t)' = work(t) /\ \A r : receipt(r)' = receipt(r)
      BY <3>1 DEF work, receipt
    <3>3. QED
      BY <3>1, <3>2 DEF Inv, WorkSound, WorkSoundAt
  <2>2. QED
    BY <2>1 DEF WorkSound
<1>8. QED
  BY <1>3, <1>4, <1>5, <1>6, <1>7 DEF Inv

(* The steps of a worker that LocalStep covers. *)
LEMMA LocalSteps ==
  ASSUME Inv, NEW s \in Stores,
         \/ Refuse(s) \/ ReadReceipt(s) \/ QueryFails(s)
         \/ CommitLookup(s) \/ CommitRollback(s)
         \/ TakeSnapshot(s) \/ AutoSnapshot(s) \/ Checkpoint(s)
         \/ CompactPersist(s) \/ CompactDelete(s)
  PROVE  Inv'
<1> USE DEF Goto, Settle
<1>1. ASSUME NEW o \in Outcome
      PROVE  [outcome |-> o, receipt |-> Absent] \in Reply
  BY DEF Reply
<1>2. ASSUME phase'[s] # "committing", phase'[s] # "replying" PROVE WorkSoundAt(s)'
  BY <1>2 DEF WorkSoundAt
<1>3. ASSUME phase'[s] = "replying", reply'[s].receipt = Absent,
             reply'[s].outcome # "Ambiguous"
      PROVE  WorkSoundAt(s)'
  BY <1>3 DEF WorkSoundAt
<1>4. phase \in [Stores -> Phase] /\ reply \in [Stores -> Reply]
      /\ failed \subseteq Stores
  BY DEF Inv, TypeOK
<1>5. CASE Refuse(s)
  <2>1. WorkSoundAt(s)'
    BY <1>3, <1>4, <1>5 DEF Refuse
  <2>2. [outcome |-> "Maintenance", receipt |-> Absent] \in Reply
    BY <1>1 DEF Outcome
  <2>3. QED
    BY <1>4, <1>5, <2>1, <2>2, LocalStep DEF Refuse, durable, history, Phase, Busy
<1>6. CASE ReadReceipt(s)
  <2> DEFINE r == work(s).request
             v == [outcome |-> IF receipt(r) = Absent THEN "NoReceipt" ELSE "Ok",
                   receipt |-> receipt(r)]
  <2>1. Busy(s)
    BY <1>6 DEF ReadReceipt, Working, Busy
  <2>2. r \in RequestIds /\ work(s).op = "Receipt"
    BY <1>6, <2>1, WorkType DEF ReadReceipt, Working
  <2>3. v \in Reply
    BY <2>2, ReceiptNames DEF Reply, Outcome, receipt
  <2>4. /\ phase' = [phase EXCEPT ![s] = "replying"]
        /\ reply' = [reply EXCEPT ![s] = v]
        /\ UNCHANGED <<revisions, receipts, head, snapshots, memory, failed, queue,
                       job, calls, acked, ambiguous>>
    BY <1>6 DEF ReadReceipt, durable, history
  <2>5. phase'[s] = "replying" /\ reply'[s] = v
    BY <1>4, <2>4
  <2>6. receipt(r)' = receipt(r) /\ work(s)' = work(s)
    BY <2>4 DEF receipt, work
  <2>7. receipt(r) # Absent => receipt(r).request = r
    BY <2>2, ReceiptNames DEF receipt
  <2>8. WorkSoundAt(s)'
    <3>1. v.receipt = receipt(r) /\ v.outcome # "Ambiguous"
      OBVIOUS
    <3> HIDE DEF v
    <3>2. work(s)'.op # "Commit"
      BY <2>2, <2>6
    <3>3. reply[s].receipt' # Absent =>
            receipt(reply[s].receipt.request)' = reply[s].receipt'
      BY <2>4, <2>5, <2>7, <3>1 DEF receipt
    <3>4. QED
      BY <2>5, <3>1, <3>2, <3>3 DEF WorkSoundAt
  <2> HIDE DEF v
  <2>9. QED
    BY <1>4, <2>1, <2>3, <2>4, <2>8, LocalStep DEF Phase
<1>7. CASE CommitLookup(s)
  <2> DEFINE r == work(s).request
  <2>1. Busy(s) /\ work(s).op = "Commit"
    BY <1>7 DEF CommitLookup, Working, Busy
  <2>2. r \in RequestIds /\ work(s).command \in Commands
    BY <2>1, WorkType
  <2>3. UNCHANGED <<revisions, receipts, head, snapshots, memory, failed, queue,
                    job, calls, acked, ambiguous>>
    BY <1>7 DEF CommitLookup, durable, history
  <2>4. receipt(r)' = receipt(r) /\ work(s)' = work(s)
    BY <2>3 DEF receipt, work
  <2>5. CASE receipts[r] # Absent /\ receipts[r].command = work(s).command
    <3> DEFINE v == [outcome |-> "Ok", receipt |-> receipt(r)]
    <3>1. /\ phase' = [phase EXCEPT ![s] = "replying"]
          /\ reply' = [reply EXCEPT ![s] = v]
      BY <1>7, <2>5 DEF CommitLookup, AnswerFromReceipt
    <3>2. receipt(r) \in CommitReceipt /\ receipt(r).request = r
      BY <2>2, <2>5, ReceiptNames
    <3>3. v \in Reply
      BY <3>2 DEF Reply, Outcome
    <3>4. WorkSoundAt(s)'
      <4>1. phase'[s] = "replying" /\ reply'[s] = v
        BY <1>4, <3>1
      <4>2. v.receipt = receipt(r) /\ v.outcome # "Ambiguous"
        OBVIOUS
      <4> HIDE DEF v
      <4>3. receipts'[receipt(r).request].command = work(s)'.command
        BY <2>3, <2>4, <2>5, <3>2
      <4>4. QED
        BY <2>4, <3>2, <4>1, <4>2, <4>3 DEF WorkSoundAt
    <3> HIDE DEF v
    <3>5. QED
      BY <1>4, <2>1, <2>3, <3>1, <3>3, <3>4, LocalStep DEF Phase
  <2>6. CASE \E o \in {"RequestConflict", "Model"} :
               /\ phase' = [phase EXCEPT ![s] = "replying"]
               /\ reply' = [reply EXCEPT ![s] = [outcome |-> o, receipt |-> Absent]]
    <3>1. PICK o \in {"RequestConflict", "Model"} :
               /\ phase' = [phase EXCEPT ![s] = "replying"]
               /\ reply' = [reply EXCEPT ![s] = [outcome |-> o, receipt |-> Absent]]
      BY <2>6
    <3>2. [outcome |-> o, receipt |-> Absent] \in Reply
      BY <1>1 DEF Outcome
    <3>3. WorkSoundAt(s)'
      BY <1>3, <1>4, <3>1
    <3>4. QED
      BY <1>4, <2>1, <2>3, <3>1, <3>2, <3>3, LocalStep DEF Phase
  <2>7. CASE /\ Accepts(memory[s].project, work(s).command)
             /\ phase' = [phase EXCEPT ![s] = "committing"] /\ reply' = reply
    <3>1. phase'[s] = "committing"
      BY <1>4, <2>7
    <3>2. WorkSoundAt(s)'
      BY <2>1, <2>3, <2>4, <2>7, <3>1 DEF WorkSoundAt
    <3>3. reply' = [reply EXCEPT ![s] = reply[s]] /\ reply[s] \in Reply
      BY <1>4, <2>7
    <3>4. QED
      BY <1>4, <2>1, <2>3, <2>7, <3>2, <3>3, LocalStep DEF Phase
  <2>8. QED
    BY <1>7, <2>5, <2>6, <2>7 DEF CommitLookup, AnswerFromReceipt
<1>8. CASE CommitRollback(s)
  <2>1. PICK o \in {"Injected", "Sql"} :
          /\ phase' = [phase EXCEPT ![s] = "replying"]
          /\ reply' = [reply EXCEPT ![s] = [outcome |-> o, receipt |-> Absent]]
    BY <1>8 DEF CommitRollback
  <2>2. WorkSoundAt(s)'
    BY <1>3, <1>4, <2>1
  <2>3. [outcome |-> o, receipt |-> Absent] \in Reply
    BY <1>1 DEF Outcome
  <2>4. Busy(s)
    BY <1>8 DEF CommitRollback, Busy
  <2>5. QED
    BY <1>4, <1>8, <2>1, <2>2, <2>3, <2>4, LocalStep
       DEF CommitRollback, durable, history, Phase
<1>9. ASSUME NEW ok \in BOOLEAN, NEW fault, PersistSnapshot(s, fault, ok)
      PROVE  snapshots' \subseteq snapshots \cup
               (IF memory[s].sequence = 0 THEN {} ELSE {MemorySnapshot(s)})
  BY <1>9 DEF PersistSnapshot
<1>10. ASSUME NEW o \in {"Ok", "Maintenance"}, Busy(s),
              phase' = [phase EXCEPT ![s] = "replying"],
              reply' = [reply EXCEPT ![s] = [outcome |-> o, receipt |-> Absent]],
              failed' \subseteq Stores,
              snapshots' \subseteq snapshots \cup
                (IF memory[s].sequence = 0 THEN {} ELSE {MemorySnapshot(s)}),
              UNCHANGED <<revisions, receipts, head, memory, queue, job, calls,
                          acked, ambiguous>>
       PROVE  Inv'
  <2>1. WorkSoundAt(s)'
    BY <1>3, <1>4, <1>10
  <2>2. [outcome |-> o, receipt |-> Absent] \in Reply
    BY <1>1 DEF Outcome
  <2>3. QED
    BY <1>10, <2>1, <2>2, LocalStep DEF Phase
<1>11. CASE TakeSnapshot(s)
  <2>1. PICK ok \in BOOLEAN :
          /\ PersistSnapshot(s, work(s).fault, ok)
          /\ Settle(s, IF ok THEN "Ok" ELSE "Maintenance", Absent)
          /\ failed' = IF ok THEN failed ELSE failed \cup {s}
    BY <1>11 DEF TakeSnapshot
  <2>2. Busy(s)
    BY <1>11 DEF TakeSnapshot, Working, Busy
  <2>3. snapshots' \subseteq snapshots \cup
          (IF memory[s].sequence = 0 THEN {} ELSE {MemorySnapshot(s)})
    BY <1>9, <2>1
  <2>4. QED
    BY <1>4, <1>10, <1>11, <2>1, <2>2, <2>3 DEF TakeSnapshot, history
<1>12. CASE AutoSnapshot(s)
  <2>1. PICK ok \in BOOLEAN :
          /\ PersistSnapshot(s, "NoFault", ok)
          /\ failed' = IF ok THEN failed ELSE failed \cup {s}
    BY <1>12 DEF AutoSnapshot
  <2>2. snapshots' \subseteq snapshots \cup
          (IF memory[s].sequence = 0 THEN {} ELSE {MemorySnapshot(s)})
    BY <1>9, <2>1
  <2>3. WorkSoundAt(s)'
    BY <1>2, <1>4, <1>12 DEF AutoSnapshot
  <2>4. reply' = [reply EXCEPT ![s] = reply[s]] /\ reply[s] \in Reply
    BY <1>4, <1>12 DEF AutoSnapshot
  <2>5. QED
    BY <1>4, <1>12, <2>1, <2>2, <2>3, <2>4, LocalStep
       DEF AutoSnapshot, history, Phase
<1>13. CASE Checkpoint(s)
  BY <1>4, <1>10, <1>13 DEF Checkpoint, Working, Busy, durable, history
<1>14. CASE CompactPersist(s)
  <2>1. Busy(s)
    BY <1>14 DEF CompactPersist, Working, Busy
  <2>2. UNCHANGED <<revisions, receipts, head, memory, failed, queue, job, calls,
                    acked, ambiguous>>
    BY <1>14 DEF CompactPersist, history
  <2>3. snapshots' \subseteq snapshots \cup
          (IF memory[s].sequence = 0 THEN {} ELSE {MemorySnapshot(s)})
    BY <1>9, <1>14 DEF CompactPersist
  <2>4. CASE Settle(s, "Maintenance", Absent)
    BY <1>4, <1>10, <2>1, <2>2, <2>3, <2>4
  <2>5. CASE phase' = [phase EXCEPT ![s] = "compacting"] /\ reply' = reply
    <3>1. WorkSoundAt(s)'
      BY <1>2, <1>4, <2>5
    <3>2. reply' = [reply EXCEPT ![s] = reply[s]] /\ reply[s] \in Reply
      BY <1>4, <2>5
    <3>3. QED
      BY <1>4, <2>1, <2>2, <2>3, <2>5, <3>1, <3>2, LocalStep DEF Phase
  <2>6. QED
    BY <1>14, <2>4, <2>5 DEF CompactPersist
<1>15. CASE CompactDelete(s)
  <2>1. PICK outcome \in {"Ok", "Maintenance"} :
          (snapshots' = Newest \/ snapshots' = snapshots)
          /\ Settle(s, outcome, Absent)
    BY <1>15 DEF CompactDelete
  <2>2. snapshots' \subseteq snapshots
    BY <2>1 DEF Newest
  <2>3. Busy(s)
    BY <1>15 DEF CompactDelete, Busy
  <2>4. QED
    BY <1>4, <1>10, <1>15, <2>1, <2>2, <2>3 DEF CompactDelete, history
<1>16. CASE QueryFails(s)
  <2>1. WorkSoundAt(s)'
    BY <1>3, <1>4, <1>16 DEF QueryFails
  <2>2. [outcome |-> "Sql", receipt |-> Absent] \in Reply
    BY <1>1 DEF Outcome
  <2>3. Busy(s)
    BY <1>16 DEF QueryFails, Working, Busy
  <2>4. QED
    BY <1>4, <1>16, <2>1, <2>2, <2>3, LocalStep
       DEF QueryFails, durable, history, Phase
<1>17. QED
  BY <1>5, <1>6, <1>7, <1>8, <1>11, <1>12, <1>13, <1>14, <1>15, <1>16

-----------------------------------------------------------------------------
(* The transaction *)

LEMMA CommitInv ==
  ASSUME Inv, NEW s \in Stores, CommitTransaction(s)
  PROVE  Inv'
<1> USE DEF HashAt
<1> DEFINE n == Len(revisions)
           r0 == work(s).request
           c0 == work(s).command
           h0 == memory[s].head
           row == RevisionRow(s)
           entry == ReceiptRow(s)
           given == [request |-> r0, hash |-> NextHash(s),
                     sequence |-> NextSequence(s)]
<1>1. /\ phase[s] = "committing" /\ KeysFree(s) /\ Busy(s)
      /\ revisions' = Append(revisions, row)
      /\ receipts' = [receipts EXCEPT ![r0] = entry]
      /\ head' = NewHeadRow(s)
      /\ memory' = [memory EXCEPT ![s] = StateAfter(s)]
      /\ phase' = [phase EXCEPT ![s] = "replying"]
      /\ UNCHANGED <<snapshots, failed, queue, job, calls, acked, ambiguous>>
  BY DEF CommitTransaction, Settle, Goto, Busy, history, HeadAfter
<1>2. \E v \in {[outcome |-> "Ambiguous", receipt |-> Absent],
                [outcome |-> "Ok", receipt |-> given]} :
        reply' = [reply EXCEPT ![s] = v]
  BY DEF CommitTransaction, Settle
<1>3. /\ job[s] \in Callers /\ work(s).op = "Commit"
      /\ r0 \in RequestIds /\ c0 \in Commands /\ c0 \in Command
      /\ Accepts(memory[s].project, c0)
  BY <1>1, WorkType, StoreAssumption DEF Inv, WorkSound, WorkSoundAt
<1>4. /\ revisions \in Seq(Revision) /\ n \in Nat
      /\ receipts \in [RequestIds -> Row \cup {Absent}]
      /\ memory \in [Stores -> State]
  BY DEF Inv, TypeOK
<1>5. memory[s].sequence = n /\ h0 = HashAt(n) /\ memory[s].project = Replay(h0)
  <2>1. memory[s].sequence \in 0..n /\ memory[s].sequence + 1 \notin 1..n
    BY <1>1 DEF KeysFree, Inv, MemorySound
  <2>2. memory[s].sequence = n
    BY <1>4, <2>1
  <2>3. QED
    BY <2>2 DEF Inv, MemorySound
<1>6. /\ h0 \in Seq(Command) /\ Len(h0) = n
      /\ Replay(h0) \in Project /\ WellFormed(Replay(h0))
  <2>1. n \in 0..n
    BY <1>4
  <2>2. QED
    BY <1>5, <2>1 DEF Inv, LogSound, ChainSound
<1> DEFINE h1 == Append(h0, c0)
<1>7. /\ h1 \in Seq(Command) /\ Len(h1) = n + 1
      /\ Replay(h1) = Reduce(Replay(h0), c0)
      /\ Replay(h1) \in Project /\ WellFormed(Replay(h1))
  BY <1>3, <1>5, <1>6, AppendProperties, ReplayAppend, ReduceType, ReduceWellFormed
<1>8. /\ NextHash(s) = h1 /\ NextSequence(s) = n + 1
      /\ row = [hash |-> h1, parent |-> h0, command |-> c0]
      /\ entry = [hash |-> h1, sequence |-> n + 1, command |-> c0]
      /\ NewHeadRow(s) = [hash |-> h1, sequence |-> n + 1]
      /\ StateAfter(s) = [project |-> Replay(h1), head |-> h1, sequence |-> n + 1]
      /\ given = [request |-> r0, hash |-> h1, sequence |-> n + 1]
  BY <1>5, <1>7 DEF NextHash, NextSequence, revision_hash, RevisionRow, ReceiptRow,
                    NewHeadRow, StateAfter
<1> HIDE DEF row, entry, given, h0, h1
<1>9. /\ row \in Revision /\ entry \in Row /\ entry # Absent
      /\ given \in CommitReceipt /\ given # Absent
      /\ NewHeadRow(s) \in HeadRow /\ StateAfter(s) \in State
  BY <1>3, <1>4, <1>6, <1>7, <1>8, StoreAssumption
     DEF Revision, Row, CommitReceipt, HeadRow, State, RevisionHash
<1> HIDE DEF n, r0, c0
<1>10. /\ revisions' \in Seq(Revision) /\ Len(revisions') = n + 1
       /\ \A i \in 1..n : revisions'[i] = revisions[i]
       /\ revisions'[n + 1] = row
  BY <1>1, <1>4, <1>9, AppendProperties DEF n
<1>11. /\ \A i \in 0..n : HashIn(revisions', i) = HashAt(i)
       /\ HashIn(revisions', n + 1) = h1
  <2>1. ASSUME NEW i \in 0..n PROVE HashIn(revisions', i) = HashAt(i)
    BY <1>4, <1>10, n \in Nat DEF HashIn, n
  <2>2. HashIn(revisions', n + 1) = h1
    BY <1>4, <1>8, <1>10 DEF HashIn, n
  <2>3. QED
    BY <2>1, <2>2
<1>12. /\ receipts[r0] = Absent /\ receipts'[r0] = entry
       /\ \A r \in RequestIds \ {r0} : receipts'[r] = receipts[r]
  BY <1>1, <1>3, <1>4 DEF KeysFree, r0
<1>13. ASSUME NEW r \in RequestIds, receipts[r] # Absent
       PROVE  receipts'[r] = receipts[r] /\ receipt(r)' = receipt(r)
  <2>1. r # r0
    BY <1>12, <1>13
  <2>2. QED
    BY <1>12, <2>1 DEF receipt
<1>14. work(s)' = work(s)
  BY <1>1 DEF work
<1>15. TypeOK'
  <2>1. receipts' \in [RequestIds -> Row \cup {Absent}]
    BY <1>1, <1>3, <1>4, <1>9
  <2>2. memory' \in [Stores -> State]
    BY <1>1, <1>4, <1>9
  <2>3. phase' \in [Stores -> Phase]
    BY <1>1 DEF Inv, TypeOK, Phase
  <2>4. reply' \in [Stores -> Reply]
    <3>1. /\ [outcome |-> "Ambiguous", receipt |-> Absent] \in Reply
          /\ [outcome |-> "Ok", receipt |-> given] \in Reply
      BY <1>9 DEF Reply, Outcome
    <3>2. QED
      BY <1>2, <3>1 DEF Inv, TypeOK
  <2>5. head' \in HeadRow
    BY <1>1, <1>9
  <2>6. QueuesBounded'
    BY <1>1, QueuesFrame DEF Inv, TypeOK
  <2>7. MemoryCounts'
    <3>1. StateAfter(s).sequence = Len(StateAfter(s).head)
      BY <1>7, <1>8
    <3>2. MemoryCounts
      BY DEF Inv, TypeOK
    <3>3. QED
      BY <1>1, <1>4, <3>1, <3>2, CountsStep
  <2>8. QED
    BY <1>1, <1>10, <2>1, <2>2, <2>3, <2>4, <2>5, <2>6, <2>7 DEF Inv, TypeOK
<1>16. LogReplays'
  <2>1. ASSUME NEW i \in 1..n
        PROVE  /\ revisions'[i].parent = HashIn(revisions', i - 1)
               /\ revisions'[i].hash = revision_hash(HashIn(revisions', i - 1), revisions'[i].command)
               /\ Accepts(Replay(HashIn(revisions', i - 1)), revisions'[i].command)
    <3>1. i - 1 \in 0..n
      BY <1>4 DEF n
    <3>2. HashIn(revisions', i - 1) = HashAt(i - 1) /\ revisions'[i] = revisions[i]
      BY <1>10, <1>11, <3>1
    <3>3. QED
      BY <3>2 DEF Inv, LogSound, LogReplays, n
  <2>2. /\ revisions'[n + 1].parent = HashIn(revisions', n)
        /\ revisions'[n + 1].hash = revision_hash(HashIn(revisions', n), revisions'[n + 1].command)
        /\ Accepts(Replay(HashIn(revisions', n)), revisions'[n + 1].command)
    <3>1. HashIn(revisions', n) = h0
      BY <1>4, <1>5, <1>11 DEF n
    <3>2. QED
      BY <1>3, <1>5, <1>8, <1>10, <3>1 DEF revision_hash, h1, c0
  <2>3. ASSUME NEW i \in 1..(n + 1)
        PROVE  /\ revisions'[i].parent = HashIn(revisions', i - 1)
               /\ revisions'[i].hash = revision_hash(HashIn(revisions', i - 1), revisions'[i].command)
               /\ Accepts(Replay(HashIn(revisions', i - 1)), revisions'[i].command)
    <3>1. CASE i = n + 1
      <4>1. i - 1 = n
        BY <1>4, <3>1 DEF n
      <4>2. QED
        BY <2>2, <3>1, <4>1
    <3>2. CASE i # n + 1
      <4>1. i \in 1..n
        BY <1>4, <3>2 DEF n
      <4>2. QED
        BY <2>1, <4>1
    <3>3. QED
      BY <3>1, <3>2
  <2>4. QED
    BY <1>10, <2>3 DEF LogReplays
<1>17. ChainSound'
  <2>1. ASSUME NEW i \in 0..(n + 1)
        PROVE  /\ HashIn(revisions', i) \in Seq(Command) /\ Len(HashIn(revisions', i)) = i
               /\ \A j \in 1..i : HashIn(revisions', i)[j] = revisions'[j].command
               /\ Replay(HashIn(revisions', i)) \in Project /\ WellFormed(Replay(HashIn(revisions', i)))
    <3>1. CASE i = n + 1
      <4>1. \A j \in 1..n : h0[j] = revisions[j].command
        <5>1. n \in 0..n
          BY <1>4 DEF n
        <5>2. QED
          BY <1>5, <5>1 DEF Inv, LogSound, ChainSound, n
      <4>2. \A j \in 1..n : h1[j] = h0[j]
        BY <1>3, <1>6, AppendProperties DEF h1, c0
      <4>3. h1[n + 1] = c0
        BY <1>3, <1>6, AppendProperties DEF h1, c0
      <4>4. \A j \in 1..(n + 1) : h1[j] = revisions'[j].command
        <5>1. \A j \in 1..(n + 1) : j \in 1..n \/ j = n + 1
          BY <1>4 DEF n
        <5>2. revisions'[n + 1].command = c0
          BY <1>8, <1>10
        <5>3. QED
          BY <1>10, <4>1, <4>2, <4>3, <5>1, <5>2
      <4>5. QED
        BY <1>7, <1>11, <3>1, <4>4 DEF n
    <3>2. CASE i # n + 1
      <4>1. i \in 0..n
        BY <1>4, <3>2 DEF n
      <4>2. QED
        <5>1. \A j \in 1..i : revisions'[j] = revisions[j]
          BY <1>4, <1>10, <4>1 DEF n
        <5>2. QED
          BY <1>11, <4>1, <5>1 DEF Inv, LogSound, ChainSound, n
    <3>3. QED
      BY <3>1, <3>2
  <2>2. QED
    BY <1>10, <2>1 DEF ChainSound
<1>18. ReceiptsSound'
  <2>1. n + 1 \in 1..(n + 1) /\ n + 1 \notin 1..n /\ 1..n \subseteq 1..(n + 1)
    BY <1>4 DEF n
  <2>2. \A r \in RequestIds : receipts[r] # Absent =>
          /\ receipts[r].sequence \in 1..n
          /\ revisions[receipts[r].sequence].hash = receipts[r].hash
          /\ revisions[receipts[r].sequence].command = receipts[r].command
    BY DEF Inv, LogSound, ReceiptsSound, n
  <2>3. ASSUME NEW r \in RequestIds, receipts'[r] # Absent
        PROVE  /\ receipts'[r].sequence \in 1..(n + 1)
               /\ revisions'[receipts'[r].sequence].hash = receipts'[r].hash
               /\ revisions'[receipts'[r].sequence].command = receipts'[r].command
               /\ \A q \in RequestIds \ {r} : receipts'[q] # Absent =>
                    receipts'[q].sequence # receipts'[r].sequence
    <3>1. CASE r = r0
      BY <1>8, <1>10, <1>12, <2>1, <2>2, <3>1
    <3>2. CASE r # r0
      <4>1. receipts'[r] = receipts[r] /\ receipts[r] # Absent
        BY <1>12, <2>3, <3>2
      <4>2. \A q \in RequestIds \ {r} : receipts[q] # Absent =>
              receipts[q].sequence # receipts[r].sequence
        BY <4>1 DEF Inv, LogSound, ReceiptsSound
      <4>3. /\ receipts'[r].sequence \in 1..n /\ receipts'[r].sequence \in 1..(n + 1)
            /\ receipts'[r].sequence # n + 1
        BY <2>1, <2>2, <4>1
      <4>4. /\ revisions'[receipts'[r].sequence].hash = receipts'[r].hash
            /\ revisions'[receipts'[r].sequence].command = receipts'[r].command
        <5> DEFINE j == receipts'[r].sequence
        <5>1. revisions'[j] = revisions[j]
          BY <1>10, <4>3
        <5>2. QED
          BY <2>2, <4>1, <5>1
      <4>5. ASSUME NEW q \in RequestIds \ {r}, receipts'[q] # Absent
            PROVE  receipts'[q].sequence # receipts'[r].sequence
        <5>1. CASE q = r0
          BY <1>8, <1>12, <4>3, <5>1
        <5>2. CASE q # r0
          BY <1>12, <4>1, <4>2, <4>5, <5>2
        <5>3. QED
          BY <5>1, <5>2
      <4>6. QED
        BY <4>3, <4>4, <4>5
    <3>3. QED
      BY <3>1, <3>2
  <2>4. ASSUME NEW i \in 1..(n + 1)
        PROVE  \E r \in RequestIds : receipts'[r] # Absent /\ receipts'[r].sequence = i
    <3>1. CASE i = n + 1
      BY <1>3, <1>8, <1>9, <1>12, <3>1 DEF r0
    <3>2. CASE i # n + 1
      <4>1. i \in 1..n
        BY <1>4, <3>2 DEF n
      <4>2. PICK r \in RequestIds : receipts[r] # Absent /\ receipts[r].sequence = i
        BY <4>1 DEF Inv, LogSound, ReceiptsSound, n
      <4>3. QED
        BY <1>13, <4>2
    <3>3. QED
      BY <3>1, <3>2
  <2>5. QED
    BY <1>10, <2>3, <2>4 DEF ReceiptsSound
<1>19. HeadMatches'
  <2>1. revisions' # <<>>
    BY <1>4, <1>10 DEF n
  <2>2. QED
    BY <1>1, <1>8, <1>10, <1>11, <2>1 DEF HeadMatches
<1>20. MemorySound'
  <2>1. ASSUME NEW t \in Stores
        PROVE  /\ memory'[t].sequence \in 0..(n + 1)
               /\ memory'[t].head = HashIn(revisions', memory'[t].sequence)
               /\ memory'[t].project = Replay(memory'[t].head)
    <3>1. CASE t = s
      <4>1. memory'[s] = StateAfter(s)
        BY <1>1, <1>4
      <4>2. QED
        BY <1>4, <1>8, <1>11, <3>1, <4>1 DEF n
    <3>2. CASE t # s
      <4>1. memory'[t] = memory[t]
        BY <1>1, <1>4, <3>2
      <4>2. /\ memory[t].sequence \in 0..n
            /\ memory[t].head = HashAt(memory[t].sequence)
            /\ memory[t].project = Replay(memory[t].head)
        BY DEF Inv, MemorySound, n
      <4>4. memory[t].sequence \in 0..(n + 1)
        BY <1>4, <4>2 DEF n
      <4>5. memory'[t].head = HashIn(revisions', memory'[t].sequence)
        BY <1>4, <1>10, <4>1, <4>2 DEF HashIn, n
      <4>6. QED
        BY <4>1, <4>2, <4>4, <4>5
    <3>3. QED
      BY <3>1, <3>2
  <2>2. QED
    BY <1>10, <2>1 DEF MemorySound
<1>21. SnapshotsReplay'
  <2>1. ASSUME NEW m \in snapshots
        PROVE  /\ m.sequence \in 1..(n + 1)
               /\ m.hash = HashIn(revisions', m.sequence)
               /\ m.project = Replay(m.hash)
    <3>1. m.sequence \in 1..n /\ m.hash = HashAt(m.sequence)
          /\ m.project = Replay(m.hash)
      BY DEF Inv, SnapshotsReplay, n
    <3>2. m.sequence \in 0..n /\ m.sequence \in 1..(n + 1)
      BY <1>4, <3>1 DEF n
    <3>3. QED
      BY <1>11, <3>1, <3>2
  <2>2. QED
    BY <1>1, <1>10, <2>1 DEF SnapshotsReplay
<1>22. CallsSound'
  BY <1>1 DEF Inv, TypeOK, CallsSound, CallsAt, Busy
<1>23. WorkSound'
  <2>1. ASSUME NEW t \in Stores \ {s} PROVE WorkSoundAt(t)'
    <3>1. /\ phase'[t] = phase[t] /\ reply'[t] = reply[t]
          /\ memory'[t] = memory[t] /\ work(t)' = work(t)
      BY <1>1, <1>2 DEF Inv, TypeOK, work
    <3>2. WorkSoundAt(t)
      BY DEF Inv, WorkSound
    <3>3. ASSUME phase[t] = "replying", reply[t].receipt # Absent
          PROVE  /\ receipt(reply[t].receipt.request)' = reply[t].receipt
                 /\ receipts'[reply[t].receipt.request]
                      = receipts[reply[t].receipt.request]
      <4>1. receipt(reply[t].receipt.request) = reply[t].receipt
        BY <3>2, <3>3 DEF WorkSoundAt
      <4>2. reply[t].receipt.request \in RequestIds
        BY <3>3 DEF Inv, TypeOK, Reply, CommitReceipt
      <4>3. receipts[reply[t].receipt.request] # Absent
        BY <3>3, <4>1 DEF receipt
      <4>4. receipts'[reply[t].receipt.request] = receipts[reply[t].receipt.request]
        BY <1>13, <4>2, <4>3
      <4>5. QED
        BY <3>1, <4>1, <4>4 DEF receipt
    <3>4. ASSUME phase[t] = "replying", reply[t].outcome = "Ambiguous"
          PROVE  work(t).op = "Commit" /\ receipts'[work(t).request] # Absent
      <4>1. work(t).op = "Commit" /\ receipts[work(t).request] # Absent
        BY <3>2, <3>4 DEF WorkSoundAt
      <4>2. work(t).request \in RequestIds
        BY <3>4, <4>1, WorkType DEF Busy
      <4>3. QED
        BY <1>13, <4>1, <4>2
    <3>5. QED
      BY <3>1, <3>2, <3>3, <3>4 DEF WorkSoundAt
  <2>2. WorkSoundAt(s)'
    <3>1. phase'[s] = "replying"
      BY <1>1 DEF Inv, TypeOK
    <3>2. CASE reply' = [reply EXCEPT ![s] = [outcome |-> "Ok", receipt |-> given]]
      <4>1. reply'[s].outcome = "Ok" /\ reply'[s].receipt = given
        BY <3>2 DEF Inv, TypeOK
      <4>2. given.request = r0 /\ receipts'[r0].command = c0
        BY <1>8, <1>12
      <4>3. receipt(reply[s].receipt.request)' = given
        BY <1>8, <1>9, <1>12, <4>1, <4>2 DEF receipt
      <4>4. QED
        BY <1>14, <3>1, <4>1, <4>2, <4>3 DEF WorkSoundAt, c0
    <3>3. CASE reply' = [reply EXCEPT ![s] = [outcome |-> "Ambiguous",
                                              receipt |-> Absent]]
      <4>1. reply'[s].outcome = "Ambiguous" /\ reply'[s].receipt = Absent
        BY <3>3 DEF Inv, TypeOK
      <4>2. QED
        BY <1>3, <1>9, <1>12, <1>14, <3>1, <4>1 DEF WorkSoundAt, r0
    <3>4. QED
      BY <1>2, <3>2, <3>3
  <2>3. QED
    BY <2>1, <2>2 DEF WorkSound
<1>24. AcknowledgedIsDurable'
  <2>1. ASSUME NEW a \in acked
        PROVE  /\ receipt(a.receipt.request)' = a.receipt
               /\ HashIn(revisions', a.receipt.sequence) = a.receipt.hash
               /\ a.command # Absent =>
                    revisions'[a.receipt.sequence].command = a.command
    <3>1. a.receipt \in CommitReceipt /\ a.receipt.request \in RequestIds
      BY DEF Inv, TypeOK, CommitReceipt
    <3>2. receipt(a.receipt.request) = a.receipt /\ a.receipt # Absent
      BY <3>1, StoreAssumption DEF Inv, AcknowledgedIsDurable
    <3>3. receipts[a.receipt.request] # Absent
      BY <3>2 DEF receipt
    <3>4. receipt(a.receipt.request)' = a.receipt
      BY <1>13, <3>1, <3>2, <3>3
    <3>5. a.receipt.sequence \in 1..n
      BY <3>1, <3>2, <3>3, ReceiptNames DEF n
    <3>6. HashIn(revisions', a.receipt.sequence) = HashAt(a.receipt.sequence)
          /\ revisions'[a.receipt.sequence] = revisions[a.receipt.sequence]
      <4>1. a.receipt.sequence \in 0..n
        BY <1>4, <3>5 DEF n
      <4>2. QED
        BY <1>10, <1>11, <3>5, <4>1
    <3>7. QED
      BY <3>4, <3>6 DEF Inv, AcknowledgedIsDurable
  <2>2. ASSUME NEW r \in ambiguous PROVE receipts'[r] # Absent
    BY <1>13 DEF Inv, TypeOK, AcknowledgedIsDurable
  <2>3. QED
    BY <1>1, <2>1, <2>2 DEF AcknowledgedIsDurable
<1>25. QED
  BY <1>15, <1>16, <1>17, <1>18, <1>19, <1>20, <1>21, <1>22, <1>23, <1>24
     DEF Inv, LogSound

-----------------------------------------------------------------------------
(* Callers, and the beginning and the end of a handle *)

LEMMA OpenInv ==
  ASSUME Inv, NEW s \in Stores, Open(s)
  PROVE  Inv'
<1> DEFINE n == Len(revisions)
           opened == [project |-> Replay(HashAt(n)), head |-> HashAt(n),
                      sequence |-> n]
<1>1. /\ phase' = [phase EXCEPT ![s] = "idle"]
      /\ memory' = [memory EXCEPT ![s] = opened]
      /\ UNCHANGED <<revisions, receipts, head, snapshots, failed, queue, job,
                     reply, calls, acked, ambiguous>>
  BY DEF Open, durable, history
<1>2. n \in Nat /\ n \in 0..n
  BY DEF Inv, TypeOK
<1>3. /\ HashAt(n) \in RevisionHash /\ Len(HashAt(n)) = n
      /\ Replay(HashAt(n)) \in Project
  BY <1>2 DEF Inv, LogSound, ChainSound, RevisionHash
<1>4. opened \in State
  BY <1>2, <1>3 DEF State
<1>5. TypeOK'
  <2>1. phase' \in [Stores -> Phase] /\ memory' \in [Stores -> State]
    BY <1>1, <1>4 DEF Inv, TypeOK, Phase
  <2>2. QueuesBounded' /\ MemoryCounts'
    <3>1. opened.sequence = Len(opened.head)
      BY <1>3
    <3> HIDE DEF opened
    <3>2. QED
      BY <1>1, <3>1, QueuesFrame, CountsStep DEF Inv, TypeOK
  <2>3. QED
    BY <1>1, <2>1, <2>2 DEF Inv, TypeOK
<1>6. LogSound' /\ SnapshotsReplay' /\ AcknowledgedIsDurable'
  BY <1>1, LogFrame, SnapshotsFrame, AcknowledgedFrame DEF Inv
<1>7. MemorySound'
  <2>1. ASSUME NEW t \in Stores
        PROVE  /\ memory'[t].sequence \in 0..n
               /\ memory'[t].head = HashAt(memory'[t].sequence)
               /\ memory'[t].project = Replay(memory'[t].head)
    <3>1. CASE t = s
      <4>1. memory'[t] = opened
        BY <1>1, <3>1 DEF Inv, TypeOK
      <4>2. QED
        BY <1>2, <4>1
    <3>2. CASE t # s
      <4>1. memory'[t] = memory[t]
        BY <1>1, <3>2 DEF Inv, TypeOK
      <4>2. QED
        BY <4>1 DEF Inv, MemorySound
    <3>3. QED
      BY <3>1, <3>2
  <2>2. QED
    BY <1>1, <2>1 DEF MemorySound, HashAt
<1>8. CallsSound'
  BY <1>1 DEF Inv, TypeOK, CallsSound, CallsAt, Busy
<1>9. WorkSound'
  <2>1. ASSUME NEW t \in Stores \ {s} PROVE WorkSoundAt(t)'
    <3>1. phase'[t] = phase[t] /\ memory'[t] = memory[t]
      BY <1>1 DEF Inv, TypeOK
    <3>2. QED
      BY <1>1, <3>1 DEF Inv, WorkSound, WorkSoundAt, work, receipt
  <2>2. WorkSoundAt(s)'
    BY <1>1 DEF Inv, TypeOK, WorkSoundAt
  <2>3. QED
    BY <2>1, <2>2 DEF WorkSound
<1>10. QED
  BY <1>5, <1>6, <1>7, <1>8, <1>9 DEF Inv

LEMMA CallInv ==
  ASSUME Inv, NEW c \in Callers, NEW s \in Stores, NEW w \in Work, Call(c, s, w)
  PROVE  Inv'
<1> DEFINE call == [store |-> s, work |-> w]
<1>1. /\ calls[c] = Absent /\ calls' = [calls EXCEPT ![c] = call]
      /\ UNCHANGED <<revisions, receipts, head, snapshots, phase, memory, failed,
                     queue, job, reply, acked, ambiguous>>
  BY DEF Call, durable, worker, history
<1>2. call \in BlockedCall /\ call # Absent
  BY StoreAssumption DEF BlockedCall
<1> HIDE DEF call
<1>3. \A d \in Callers : calls[d] # Absent => d # c /\ calls'[d] = calls[d]
  BY <1>1 DEF Inv, TypeOK
<1>4. TypeOK'
  <2>1. QueuesBounded' /\ MemoryCounts'
    BY <1>1, QueuesFrame, CountsFrame DEF Inv, TypeOK
  <2>2. QED
    BY <1>1, <1>2, <2>1 DEF Inv, TypeOK
<1>5. LogSound' /\ SnapshotsReplay' /\ AcknowledgedIsDurable' /\ MemorySound'
  BY <1>1, LogFrame, SnapshotsFrame, AcknowledgedFrame, MemoryFrame DEF Inv
<1>6. ASSUME NEW d \in Callers, NEW t \in Stores, CallsAt(d, t)
      PROVE  CallsAt(d, t)'
  BY <1>3, <1>6 DEF CallsAt
<1>7. CallsSound'
  <2>1. ASSUME NEW t \in Stores, NEW i \in 1..Len(queue[t])
        PROVE  CallsAt(queue[t][i], t)'
    <3>1. queue[t][i] \in Callers
      BY DEF Inv, TypeOK
    <3>2. CallsAt(queue[t][i], t)
      BY DEF Inv, CallsSound
    <3>3. calls'[queue[t][i]] = calls[queue[t][i]]
      BY <1>3, <3>1, <3>2 DEF CallsAt
    <3>4. QED
      BY <1>1, <3>2, <3>3 DEF CallsAt
  <2>2. ASSUME NEW t \in Stores, Busy(t)
        PROVE  job[t] \in Callers /\ CallsAt(job[t], t)'
    <3>1. job[t] \in Callers /\ CallsAt(job[t], t)
      BY <2>2 DEF Inv, CallsSound
    <3>2. calls'[job[t]] = calls[job[t]]
      BY <1>3, <3>1 DEF CallsAt
    <3>3. QED
      BY <1>1, <3>1, <3>2 DEF CallsAt
  <2>3. QED
    BY <1>1, <2>1, <2>2 DEF Inv, CallsSound, CallsAt, Busy
<1>8. WorkSound'
  <2>1. ASSUME NEW t \in Stores PROVE WorkSoundAt(t)'
    <3>1. ASSUME Busy(t) PROVE work(t)' = work(t)
      <4>1. job[t] \in Callers /\ calls[job[t]] # Absent
        BY <3>1 DEF Inv, CallsSound, CallsAt
      <4>2. QED
        BY <1>1, <1>3, <4>1 DEF work
    <3>2. QED
      BY <1>1, <3>1 DEF Inv, WorkSound, WorkSoundAt, Busy, receipt
  <2>2. QED
    BY <2>1 DEF WorkSound
<1>9. QED
  BY <1>4, <1>5, <1>7, <1>8 DEF Inv

LEMMA SendInv ==
  ASSUME Inv, NEW c \in Callers, Send(c)
  PROVE  Inv'
<1> DEFINE s == calls[c].store
           q == queue[s]
<1>1. /\ calls[c] # Absent /\ ~ Pending(c) /\ Len(q) < Capacity
      /\ queue' = [queue EXCEPT ![s] = Append(q, c)]
      /\ UNCHANGED <<revisions, receipts, head, snapshots, phase, memory, failed,
                     job, reply, calls, acked, ambiguous>>
  BY DEF Send, HasRoom, durable, history
<1>2. s \in Stores /\ q \in Seq(Callers) /\ Len(q) \in Nat
  BY <1>1 DEF Inv, TypeOK, BlockedCall
<1>3. /\ Append(q, c) \in Seq(Callers) /\ Len(Append(q, c)) = Len(q) + 1
      /\ \A i \in 1..Len(q) : Append(q, c)[i] = q[i]
      /\ Append(q, c)[Len(q) + 1] = c
  BY <1>2, AppendProperties
<1>4. job[s] # c /\ \A i \in 1..Len(q) : q[i] # c
  BY <1>1, <1>2 DEF Pending
<1>5. TypeOK'
  <2>1. Len(Append(q, c)) <= Capacity
    BY <1>1, <1>2, <1>3, StoreAssumption
  <2> DEFINE longer == Append(q, c)
  <2> HIDE DEF longer
  <2>2. Len(longer) <= Capacity /\ queue' = [queue EXCEPT ![s] = longer]
    BY <1>1, <2>1 DEF longer
  <2>3. QueuesBounded' /\ MemoryCounts'
    BY <1>1, <1>2, <2>2, QueuesStep, CountsFrame DEF Inv, TypeOK
  <2>4. QED
    BY <1>1, <1>2, <1>3, <2>3 DEF Inv, TypeOK
<1>6. LogSound' /\ SnapshotsReplay' /\ AcknowledgedIsDurable' /\ MemorySound'
  BY <1>1, LogFrame, SnapshotsFrame, AcknowledgedFrame, MemoryFrame DEF Inv
<1>7. CallsSound'
  <2>1. ASSUME NEW t \in Stores
        PROVE  /\ \A i \in 1..Len(queue'[t]) : CallsAt(queue'[t][i], t)
               /\ \A i, j \in 1..Len(queue'[t]) : queue'[t][i] = queue'[t][j] => i = j
               /\ Busy(t) => /\ job[t] \in Callers /\ CallsAt(job[t], t)
                             /\ \A i \in 1..Len(queue'[t]) : queue'[t][i] # job[t]
    <3>1. /\ \A i \in 1..Len(queue[t]) : CallsAt(queue[t][i], t)
          /\ \A i, j \in 1..Len(queue[t]) : queue[t][i] = queue[t][j] => i = j
          /\ Busy(t) => /\ job[t] \in Callers /\ CallsAt(job[t], t)
                        /\ \A i \in 1..Len(queue[t]) : queue[t][i] # job[t]
      BY DEF Inv, CallsSound
    <3>2. CASE t = s
      <4> DEFINE a == Append(q, c)
      <4>1. queue'[t] = a
        BY <1>1, <1>2, <3>2 DEF Inv, TypeOK
      <4>2. CallsAt(c, s)
        BY <1>1 DEF CallsAt
      <4> HIDE DEF a
      <4>3. /\ Len(a) = Len(q) + 1 /\ a[Len(q) + 1] = c
            /\ \A i \in 1..Len(q) : a[i] = q[i]
        BY <1>3 DEF a
      <4>4. \A i \in 1..Len(a) : i \in 1..Len(q) \/ i = Len(q) + 1
        BY <1>2, <4>3
      <4>5. \A i \in 1..Len(a) : CallsAt(a[i], t)
        BY <3>1, <3>2, <4>2, <4>3, <4>4
      <4>6. ASSUME NEW i \in 1..Len(a), NEW j \in 1..Len(a), a[i] = a[j]
            PROVE  i = j
        <5>1. CASE i \in 1..Len(q) /\ j \in 1..Len(q)
          BY <3>1, <3>2, <4>3, <4>6, <5>1
        <5>2. CASE i = Len(q) + 1 \/ j = Len(q) + 1
          BY <1>4, <4>3, <4>4, <4>6, <5>2
        <5>3. QED
          BY <4>4, <5>1, <5>2
      <4>7. Busy(t) => \A i \in 1..Len(a) : a[i] # job[t]
        BY <1>4, <3>1, <3>2, <4>3, <4>4
      <4>8. QED
        BY <3>1, <4>1, <4>5, <4>6, <4>7
    <3>3. CASE t # s
      <4>1. queue'[t] = queue[t]
        BY <1>1, <1>2, <3>3 DEF Inv, TypeOK
      <4>2. QED
        BY <3>1, <4>1
    <3>4. QED
      BY <3>2, <3>3
  <2>2. \A d, t : (CallsAt(d, t)' <=> CallsAt(d, t)) /\ (Busy(t)' <=> Busy(t))
    BY <1>1 DEF CallsAt, Busy
  <2>3. job' = job
    BY <1>1
  <2>4. QED
    BY <2>1, <2>2, <2>3 DEF CallsSound
<1>8. WorkSound'
  BY <1>1 DEF Inv, WorkSound, WorkSoundAt, work, receipt
<1>9. QED
  BY <1>5, <1>6, <1>7, <1>8 DEF Inv

LEMMA RecvInv ==
  ASSUME Inv, NEW s \in Stores, Recv(s)
  PROVE  Inv'
<1> DEFINE q == queue[s]
<1>1. /\ q # <<>>
      /\ job' = [job EXCEPT ![s] = Head(q)]
      /\ queue' = [queue EXCEPT ![s] = Tail(q)]
      /\ phase' = [phase EXCEPT ![s] = "working"]
      /\ UNCHANGED <<revisions, receipts, head, snapshots, memory, failed, reply,
                     calls, acked, ambiguous>>
  BY DEF Recv, Goto, durable, history
<1>2. q \in Seq(Callers) /\ Len(q) \in Nat \ {0}
  BY <1>1 DEF Inv, TypeOK
<1>3. /\ Head(q) \in Callers /\ Head(q) = q[1]
      /\ Tail(q) \in Seq(Callers) /\ Len(Tail(q)) = Len(q) - 1
      /\ \A i \in 1..Len(Tail(q)) : Tail(q)[i] = q[i + 1]
  BY <1>1, <1>2, HeadTailProperties
<1>4. TypeOK'
  <2>1. Len(Tail(q)) <= Capacity
    <3>1. Len(q) <= Capacity
      BY DEF Inv, TypeOK, QueuesBounded
    <3>2. QED
      BY <1>2, <1>3, <3>1, StoreAssumption
  <2> DEFINE rest == Tail(q)
  <2> HIDE DEF rest
  <2>2. Len(rest) <= Capacity /\ queue' = [queue EXCEPT ![s] = rest]
    BY <1>1, <2>1 DEF rest
  <2>3. QueuesBounded' /\ MemoryCounts'
    BY <1>1, <2>2, QueuesStep, CountsFrame DEF Inv, TypeOK
  <2>4. QED
    BY <1>1, <1>2, <1>3, <2>3 DEF Inv, TypeOK, Phase
<1>5. LogSound' /\ SnapshotsReplay' /\ AcknowledgedIsDurable' /\ MemorySound'
  BY <1>1, LogFrame, SnapshotsFrame, AcknowledgedFrame, MemoryFrame DEF Inv
<1>6. CallsSound'
  <2>1. ASSUME NEW t \in Stores \ {s}
        PROVE  phase'[t] = phase[t] /\ queue'[t] = queue[t] /\ job'[t] = job[t]
    BY <1>1 DEF Inv, TypeOK
  <2>2. /\ \A i \in 1..Len(q) : CallsAt(q[i], s)
        /\ \A i, j \in 1..Len(q) : q[i] = q[j] => i = j
    BY DEF Inv, CallsSound
  <2> DEFINE tl == Tail(q)
  <2> HIDE DEF tl
  <2>3. /\ Len(tl) = Len(q) - 1
        /\ \A i \in 1..Len(tl) : tl[i] = q[i + 1] /\ i + 1 \in 1..Len(q) /\ i + 1 # 1
        /\ 1 \in 1..Len(q)
    BY <1>2, <1>3 DEF tl
  <2>4. \A i \in 1..Len(tl) : CallsAt(tl[i], s) /\ tl[i] # q[1]
    BY <2>2, <2>3
  <2>5. \A i, j \in 1..Len(tl) : tl[i] = tl[j] => i = j
    <3>1. SUFFICES ASSUME NEW i \in 1..Len(tl), NEW j \in 1..Len(tl), tl[i] = tl[j]
                   PROVE  i = j
      OBVIOUS
    <3>2. i + 1 = j + 1
      BY <2>2, <2>3, <3>1
    <3>3. QED
      BY <3>2
  <2>6. queue'[s] = tl /\ job'[s] = q[1] /\ q[1] \in Callers /\ CallsAt(q[1], s)
    BY <1>1, <1>3, <2>2, <2>3 DEF Inv, TypeOK, tl
  <2>7. ASSUME NEW t \in Stores
        PROVE  /\ \A i \in 1..Len(queue'[t]) : CallsAt(queue'[t][i], t)
               /\ \A i, j \in 1..Len(queue'[t]) : queue'[t][i] = queue'[t][j] => i = j
               /\ Busy(t)' =>
                    /\ job'[t] \in Callers /\ CallsAt(job'[t], t)
                    /\ \A i \in 1..Len(queue'[t]) : queue'[t][i] # job'[t]
    <3>1. CASE t = s
      <4>1. queue'[t] = tl /\ job'[t] = q[1]
        BY <2>6, <3>1
      <4>2. QED
        BY <2>4, <2>5, <2>6, <3>1, <4>1
    <3>2. CASE t # s
      BY <2>1, <3>2 DEF Inv, CallsSound, Busy
    <3>3. QED
      BY <3>1, <3>2
  <2>8. \A c, t : CallsAt(c, t)' <=> CallsAt(c, t)
    BY <1>1 DEF CallsAt
  <2>9. QED
    BY <2>7, <2>8 DEF CallsSound
<1>7. WorkSound'
  <2>1. ASSUME NEW t \in Stores \ {s} PROVE WorkSoundAt(t)'
    <3>1. phase'[t] = phase[t] /\ job'[t] = job[t]
      BY <1>1 DEF Inv, TypeOK
    <3>2. QED
      BY <1>1, <3>1 DEF Inv, WorkSound, WorkSoundAt, work, receipt
  <2>2. WorkSoundAt(s)'
    BY <1>1 DEF Inv, TypeOK, WorkSoundAt
  <2>3. QED
    BY <2>1, <2>2 DEF WorkSound
<1>8. QED
  BY <1>4, <1>5, <1>6, <1>7 DEF Inv

LEMMA RespondInv ==
  ASSUME Inv, NEW s \in Stores, Respond(s)
  PROVE  Inv'
<1> DEFINE c == job[s]
           r == reply[s].receipt
<1>1. /\ phase[s] = "replying" /\ Busy(s)
      /\ \E p \in {"snapshotting", "idle"} : phase' = [phase EXCEPT ![s] = p]
      /\ calls' = [calls EXCEPT ![c] = Absent]
      /\ job' = [job EXCEPT ![s] = Absent]
      /\ reply' = [reply EXCEPT ![s] = NoReply]
      /\ acked' = acked \cup Told(s)
      /\ UNCHANGED <<revisions, receipts, head, snapshots, memory, failed, queue>>
  BY DEF Respond, Goto, Busy, durable
<1>2. c \in Callers /\ CallsAt(c, s) /\ WorkSoundAt(s)
  BY <1>1 DEF Inv, CallsSound, WorkSound
<1>3. ASSUME reply[s].outcome = "Ambiguous"
      PROVE  /\ work(s).request \in RequestIds /\ receipts[work(s).request] # Absent
  BY <1>1, <1>2, <1>3, WorkType DEF WorkSoundAt
<1>4. /\ ambiguous' \subseteq RequestIds
      /\ \A q \in ambiguous' : receipts[q] # Absent
  BY <1>3 DEF Respond, Inv, TypeOK, AcknowledgedIsDurable
<1>5. ASSUME NEW a \in Told(s)
      PROVE  /\ a \in [receipt : CommitReceipt, command : Commands \cup {Absent}]
             /\ receipt(a.receipt.request) = a.receipt
             /\ HashAt(a.receipt.sequence) = a.receipt.hash
             /\ a.command # Absent =>
                  revisions[a.receipt.sequence].command = a.command
  <2>1. /\ r # Absent
        /\ a = [receipt |-> r,
                command |-> IF work(s).op = "Commit" THEN work(s).command ELSE Absent]
    BY DEF Told
  <2>2. r \in CommitReceipt /\ r.request \in RequestIds
    BY <2>1 DEF Inv, TypeOK, Reply, CommitReceipt
  <2>3. receipt(r.request) = r
    BY <1>1, <1>2, <2>1 DEF WorkSoundAt
  <2>4. receipts[r.request] # Absent
    BY <2>1, <2>3 DEF receipt
  <2>5. /\ HashAt(r.sequence) = r.hash
        /\ revisions[r.sequence].command = receipts[r.request].command
    BY <2>2, <2>3, <2>4, ReceiptNames
  <2>6. work(s).op = "Commit" =>
          /\ work(s).command \in Commands
          /\ receipts[r.request].command = work(s).command
    BY <1>1, <1>2, <2>1, WorkType DEF WorkSoundAt
  <2>7. a.receipt = r /\ a.command =
          IF work(s).op = "Commit" THEN work(s).command ELSE Absent
    BY <2>1
  <2> HIDE DEF r
  <2>8. QED
    BY <2>1, <2>2, <2>3, <2>5, <2>6, <2>7
<1>6. TypeOK'
  <2>1. phase' \in [Stores -> Phase]
    BY <1>1 DEF Inv, TypeOK, Phase
  <2>2. reply' \in [Stores -> Reply]
    BY <1>1 DEF Inv, TypeOK, NoReply, Reply, Outcome
  <2>3. acked' \subseteq [receipt : CommitReceipt, command : Commands \cup {Absent}]
    BY <1>1, <1>5 DEF Inv, TypeOK
  <2>4. QueuesBounded' /\ MemoryCounts'
    BY <1>1, QueuesFrame, CountsFrame DEF Inv, TypeOK
  <2>5. QED
    BY <1>1, <1>4, <2>1, <2>2, <2>3, <2>4 DEF Inv, TypeOK
<1>7. LogSound' /\ SnapshotsReplay' /\ MemorySound'
  BY <1>1, LogFrame, SnapshotsFrame, MemoryFrame DEF Inv
<1>8. AcknowledgedIsDurable'
  BY <1>1, <1>4, <1>5 DEF Inv, AcknowledgedIsDurable, receipt, HashAt
<1>9. ASSUME NEW d \in Callers, NEW t \in Stores, CallsAt(d, t), d # c
      PROVE  CallsAt(d, t)'
  BY <1>1, <1>9 DEF Inv, TypeOK, CallsAt
<1>10. ASSUME NEW t \in Stores \ {s}
       PROVE  /\ phase'[t] = phase[t] /\ job'[t] = job[t] /\ reply'[t] = reply[t]
              /\ Busy(t) => job[t] \in Callers /\ CallsAt(job[t], t)
                            /\ job[t] # c /\ work(t)' = work(t)
  <2>1. phase'[t] = phase[t] /\ job'[t] = job[t] /\ reply'[t] = reply[t]
    BY <1>1 DEF Inv, TypeOK
  <2>2. ASSUME Busy(t)
        PROVE  job[t] \in Callers /\ CallsAt(job[t], t) /\ job[t] # c
    BY <1>1, <2>2, JobsDiffer DEF Inv, CallsSound
  <2>3. ASSUME Busy(t) PROVE work(t)' = work(t)
    <3>1. calls'[job[t]] = calls[job[t]]
      BY <1>1, <2>2, <2>3 DEF Inv, TypeOK
    <3>2. QED
      BY <2>1, <3>1 DEF work
  <2>4. QED
    BY <2>1, <2>2, <2>3
<1>11. ~ Busy(s)'
  BY <1>1 DEF Inv, TypeOK, Busy
<1>12. CallsSound'
  <2>1. ASSUME NEW t \in Stores, NEW i \in 1..Len(queue[t])
        PROVE  CallsAt(queue[t][i], t)'
    <3>1. queue[t][i] \in Callers /\ CallsAt(queue[t][i], t)
      BY DEF Inv, TypeOK, CallsSound
    <3>2. queue[t][i] # c
      <4>1. CASE t = s
        BY <1>1, <4>1 DEF Inv, CallsSound
      <4>2. CASE t # s
        BY <1>2, <3>1, <4>2 DEF CallsAt
      <4>3. QED
        BY <4>1, <4>2
    <3>3. calls'[queue[t][i]] = calls[queue[t][i]]
      BY <1>1, <3>1, <3>2 DEF Inv, TypeOK
    <3>4. QED
      BY <1>1, <3>1, <3>3 DEF CallsAt
  <2>2. ASSUME NEW t \in Stores, Busy(t)'
        PROVE  /\ job'[t] \in Callers /\ CallsAt(job[t], t)'
               /\ \A i \in 1..Len(queue[t]) : queue[t][i] # job'[t]
    <3>1. t # s
      BY <1>11, <2>2
    <3>2. Busy(t)
      BY <1>10, <2>2, <3>1 DEF Busy
    <3>3. calls'[job[t]] = calls[job[t]]
      BY <1>1, <1>10, <3>1, <3>2 DEF Inv, TypeOK
    <3>4. QED
      BY <1>10, <3>1, <3>2, <3>3 DEF Inv, CallsSound, CallsAt
  <2>3. QED
    BY <1>1, <2>1, <2>2 DEF Inv, CallsSound, CallsAt
<1>13. WorkSound'
  <2>1. ASSUME NEW t \in Stores \ {s} PROVE WorkSoundAt(t)'
    BY <1>1, <1>10 DEF Inv, WorkSound, WorkSoundAt, Busy, receipt
  <2>2. WorkSoundAt(s)'
    BY <1>11 DEF WorkSoundAt, Busy
  <2>3. QED
    BY <2>1, <2>2 DEF WorkSound
<1>14. QED
  BY <1>6, <1>7, <1>8, <1>12, <1>13 DEF Inv

(* A handle that is closed takes the calls blocked in it with it. *)
LEMMA CloseInv ==
  ASSUME Inv, NEW s \in Stores, Close(s),
         calls' = [c \in Callers |->
                     IF calls[c] # Absent /\ calls[c].store = s THEN Absent
                     ELSE calls[c]]
  PROVE  Inv'
<1>1. /\ phase' = [phase EXCEPT ![s] = "closed"]
      /\ memory' = [memory EXCEPT ![s] = Fresh]
      /\ failed' = failed \ {s}
      /\ queue' = [queue EXCEPT ![s] = <<>>]
      /\ job' = [job EXCEPT ![s] = Absent]
      /\ reply' = [reply EXCEPT ![s] = NoReply]
      /\ UNCHANGED <<revisions, receipts, head, snapshots, acked, ambiguous>>
  BY DEF Close, durable, history
<1>2. Fresh \in State /\ NoReply \in Reply
  BY EmptyProjectType DEF Fresh, State, NoHash, RevisionHash, NoReply, Reply, Outcome
<1>3. TypeOK'
  <2>1. memory' \in [Stores -> State] /\ reply' \in [Stores -> Reply]
    BY <1>1, <1>2 DEF Inv, TypeOK
  <2>2. phase' \in [Stores -> Phase] /\ queue' \in [Stores -> Seq(Callers)]
        /\ job' \in [Stores -> Callers \cup {Absent}]
    BY <1>1 DEF Inv, TypeOK, Phase
  <2>3. calls' \in [Callers -> BlockedCall \cup {Absent}]
    BY DEF Inv, TypeOK
  <2>4. QueuesBounded'
    <3>1. Len(<<>>) <= Capacity
      BY StoreAssumption
    <3>2. QED
      BY <1>1, <3>1, QueuesStep DEF Inv, TypeOK
  <2>5. MemoryCounts'
    <3>1. Fresh.sequence = Len(Fresh.head)
      BY DEF Fresh, NoHash
    <3>2. QED
      BY <1>1, <3>1, CountsStep DEF Inv, TypeOK
  <2>6. QED
    BY <1>1, <2>1, <2>2, <2>3, <2>4, <2>5 DEF Inv, TypeOK
<1>4. LogSound' /\ SnapshotsReplay' /\ AcknowledgedIsDurable'
  BY <1>1, LogFrame, SnapshotsFrame, AcknowledgedFrame DEF Inv
<1>5. ASSUME NEW t \in Stores \ {s}
      PROVE  /\ phase'[t] = phase[t] /\ memory'[t] = memory[t]
             /\ queue'[t] = queue[t] /\ job'[t] = job[t] /\ reply'[t] = reply[t]
  BY <1>1 DEF Inv, TypeOK
<1>6. /\ phase'[s] = "closed" /\ memory'[s] = Fresh /\ queue'[s] = <<>>
      /\ ~ Busy(s)'
  BY <1>1 DEF Inv, TypeOK, Busy
<1>7. MemorySound'
  <2>1. /\ Fresh.sequence \in 0..Len(revisions)
        /\ Fresh.head = HashAt(Fresh.sequence)
        /\ Fresh.project = Replay(Fresh.head)
    <3>1. Len(revisions) \in Nat
      BY DEF Inv, TypeOK
    <3>2. QED
      BY <3>1, ReplayEmpty DEF Fresh, HashAt, HashIn, NoHash
  <2>2. ASSUME NEW t \in Stores
        PROVE  /\ memory'[t].sequence \in 0..Len(revisions)
               /\ memory'[t].head = HashAt(memory'[t].sequence)
               /\ memory'[t].project = Replay(memory'[t].head)
    BY <1>5, <1>6, <2>1 DEF Inv, MemorySound
  <2>3. QED
    BY <1>1, <2>2 DEF MemorySound, HashAt
<1>8. ASSUME NEW t \in Stores \ {s}, NEW d \in Callers, CallsAt(d, t)
      PROVE  calls'[d] = calls[d]
  BY <1>8 DEF CallsAt
<1>9. CallsSound'
  <2>1. ASSUME NEW t \in Stores \ {s}, NEW i \in 1..Len(queue[t])
        PROVE  CallsAt(queue[t][i], t)'
    <3>1. queue[t][i] \in Callers /\ CallsAt(queue[t][i], t)
      BY DEF Inv, TypeOK, CallsSound
    <3>2. queue'[t][i] = queue[t][i]
      BY <1>5
    <3>3. QED
      BY <1>8, <3>1, <3>2 DEF CallsAt
  <2>2. ASSUME NEW t \in Stores \ {s}, Busy(t)
        PROVE  job[t] \in Callers /\ CallsAt(job[t], t)'
    <3>1. job[t] \in Callers /\ CallsAt(job[t], t)
      BY <2>2 DEF Inv, CallsSound
    <3>2. QED
      BY <1>5, <1>8, <3>1 DEF CallsAt
  <2>3. QED
    BY <1>5, <1>6, <2>1, <2>2 DEF Inv, CallsSound, CallsAt, Busy
<1>10. WorkSound'
  <2>1. ASSUME NEW t \in Stores \ {s} PROVE WorkSoundAt(t)'
    <3>1. ASSUME Busy(t) PROVE work(t)' = work(t)
      <4>1. job[t] \in Callers /\ CallsAt(job[t], t)
        BY <3>1 DEF Inv, CallsSound
      <4>2. QED
        BY <1>5, <1>8, <4>1 DEF work
    <3>2. QED
      BY <1>1, <1>5, <3>1 DEF Inv, WorkSound, WorkSoundAt, Busy, receipt
  <2>2. WorkSoundAt(s)'
    BY <1>6 DEF WorkSoundAt
  <2>3. QED
    BY <2>1, <2>2 DEF WorkSound
<1>11. QED
  BY <1>3, <1>4, <1>7, <1>9, <1>10 DEF Inv

LEMMA EndInv ==
  ASSUME Inv, NEW s \in Stores, Shutdown(s) \/ Crash(s)
  PROVE  Inv'
<1>1. CASE Shutdown(s)
  <2>1. Close(s) /\ calls' = calls
        /\ \A c \in Callers : calls[c] # Absent => calls[c].store # s
    BY <1>1 DEF Shutdown
  <2>2. calls = [c \in Callers |-> calls[c]]
    BY DEF Inv, TypeOK
  <2>3. calls' = [c \in Callers |->
                    IF calls[c] # Absent /\ calls[c].store = s THEN Absent
                    ELSE calls[c]]
    BY <2>1, <2>2
  <2>4. QED
    BY <2>1, <2>3, CloseInv
<1>2. CASE Crash(s)
  BY <1>2, CloseInv DEF Crash
<1>3. QED
  BY <1>1, <1>2

-----------------------------------------------------------------------------

LEMMA StepInv == Inv /\ [Next]_vars => Inv'
<1> SUFFICES ASSUME Inv, [Next]_vars PROVE Inv'
  OBVIOUS
<1>1. ASSUME NEW s \in Stores, Open(s) PROVE Inv'
  BY <1>1, OpenInv
<1>2. ASSUME NEW s \in Stores, WorkerStep(s) PROVE Inv'
  BY <1>2, RecvInv, CommitInv, RespondInv, LocalSteps DEF WorkerStep
<1>3. ASSUME NEW s \in Stores, Shutdown(s) \/ Crash(s) PROVE Inv'
  BY <1>3, EndInv
<1>4. ASSUME NEW c \in Callers, Send(c) PROVE Inv'
  BY <1>4, SendInv
<1>5. ASSUME NEW c \in Callers, NEW s \in Stores, NEW w \in Work, Call(c, s, w)
      PROVE  Inv'
  BY <1>5, CallInv
<1>6. CASE UNCHANGED vars
  <2>1. /\ UNCHANGED durable /\ UNCHANGED history /\ UNCHANGED worker
        /\ UNCHANGED calls
    BY <1>6 DEF vars
  <2>2. LogSound' /\ AcknowledgedIsDurable' /\ MemorySound' /\ SnapshotsReplay'
    BY <2>1, LogFrame, AcknowledgedFrame, MemoryFrame, SnapshotsFrame
       DEF Inv, durable, history, worker
  <2>3. TypeOK'
    <3>1. QueuesBounded' /\ MemoryCounts'
      BY <2>1, QueuesFrame, CountsFrame DEF Inv, TypeOK, worker
    <3>2. QED
      BY <2>1, <3>1 DEF Inv, TypeOK, durable, history, worker
  <2>4. CallsSound'
    BY <2>1 DEF Inv, CallsSound, CallsAt, Busy, worker
  <2>5. WorkSound'
    BY <2>1 DEF Inv, WorkSound, WorkSoundAt, work, receipt, durable, worker
  <2>6. QED
    BY <2>2, <2>3, <2>4, <2>5 DEF Inv
<1>7. QED
  BY <1>1, <1>2, <1>3, <1>4, <1>5, <1>6 DEF Next

THEOREM InvHolds == Spec => []Inv
BY InitInv, StepInv, PTL DEF Spec

-----------------------------------------------------------------------------
(* What follows *)

(* Whatever crashes, retries and handles there are, the state is of the    *)
(* types that the file and the channels carry.                             *)
THEOREM StoreTypeOK == Spec => []TypeOK
<1>1. Inv => TypeOK
  BY DEF Inv
<1>2. QED
  BY <1>1, InvHolds, PTL

(* Requests and revisions are one to one: no retry, through whichever      *)
(* handle and however often, applies a request a second time.              *)
THEOREM StoreExactlyOnce == Spec => []ExactlyOnce
<1>1. Inv => ExactlyOnce
  BY DEF Inv, LogSound, ReceiptsSound, ExactlyOnce
<1>2. QED
  BY <1>1, InvHolds, PTL

(* What a caller was told stays what the file says.                        *)
THEOREM StoreAcknowledgedIsDurable == Spec => []AcknowledgedIsDurable
<1>1. Inv => AcknowledgedIsDurable
  BY DEF Inv
<1>2. QED
  BY <1>1, InvHolds, PTL

(* A handle that another one has overtaken is stale but never wrong.       *)
THEOREM StoreMemoryFollowsLog == Spec => []MemoryFollowsLog
<1>1. Inv => MemoryFollowsLog
  BY DEF Inv, MemorySound, MemoryFollowsLog
<1>2. QED
  BY <1>1, InvHolds, PTL

(* Every stored snapshot is the replay of its prefix of the log.           *)
THEOREM StoreSnapshotsReplay == Spec => []SnapshotsReplay
<1>1. Inv => SnapshotsReplay
  BY DEF Inv
<1>2. QED
  BY <1>1, InvHolds, PTL

(* The requests that have a receipt are as many as the revisions.          *)
LEMMA ReceiptsCount ==
  ASSUME Inv
  PROVE  Cardinality({r \in RequestIds : receipts[r] # Absent}) = Len(revisions)
<1> DEFINE n == Len(revisions)
           R == {r \in RequestIds : receipts[r] # Absent}
           f == [r \in R |-> receipts[r].sequence]
<1>1. n \in Nat
  BY DEF Inv, TypeOK
<1>2. \A r \in R : receipts[r].sequence \in 1..n
  BY DEF Inv, LogSound, ReceiptsSound
<1>3. \A q, r \in R : receipts[q].sequence = receipts[r].sequence => q = r
  BY DEF Inv, LogSound, ReceiptsSound
<1>4. \A i \in 1..n : \E r \in R : receipts[r].sequence = i
  BY DEF Inv, LogSound, ReceiptsSound
<1>5. f \in Bijection(R, 1..n)
  <2>1. f \in [R -> 1..n]
    BY <1>2
  <2>2. \A q, r \in R : f[q] = f[r] => q = r
    BY <1>3
  <2>3. \A i \in 1..n : \E r \in R : f[r] = i
    BY <1>4
  <2> HIDE DEF f, R, n
  <2>4. f \in Injection(R, 1..n)
    BY <2>1, <2>2, Fun_IsInj
  <2>5. f \in Surjection(R, 1..n)
    BY <2>1, <2>3, Fun_IsSurj
  <2>6. QED
    BY <2>4, <2>5 DEF Bijection
<1>6. ExistsBijection(1..n, R)
  <2> HIDE DEF f, R, n
  <2>1. ExistsBijection(R, 1..n)
    BY <1>5 DEF ExistsBijection
  <2>2. QED
    BY <2>1, Fun_ExistsBijSymmetric
<1>7. IsFiniteSet(1..n) /\ Cardinality(1..n) = n
  <2> HIDE DEF n
  <2>1. QED
    BY <1>1, FS_Interval
<1>8. QED
  <2> HIDE DEF R, n
  <2>1. Cardinality(R) = Cardinality(1..n)
    BY <1>6, <1>7, FS_Bijection
  <2>2. QED
    BY <1>7, <2>1 DEF R, n

(* Whatever happened before, the file passes the checks of open: no crash  *)
(* between two steps leaves a file that cannot be reopened.                *)
THEOREM StoreAlwaysRestorable == Spec => []AlwaysRestorable
<1>1. ASSUME Inv PROVE AlwaysRestorable
  <2>1. LogReplays /\ HeadMatches
    BY <1>1 DEF Inv, LogSound
  <2>2. ReceiptsMatch
    BY <1>1, ReceiptsCount DEF Inv, LogSound, ReceiptsSound, ReceiptsMatch
  <2>3. NewestSnapshotMatches
    <3>1. ASSUME NEW m \in snapshots
          PROVE  /\ m.sequence \in 1..Len(revisions)
                 /\ revisions[m.sequence].hash = m.hash
                 /\ WellFormed(m.project) /\ m.project = Replay(m.hash)
      <4>1. /\ m.sequence \in 1..Len(revisions)
            /\ m.hash = HashAt(m.sequence) /\ m.project = Replay(m.hash)
        BY <1>1 DEF Inv, SnapshotsReplay
      <4>2. m.sequence \in 0..Len(revisions) /\ m.sequence # 0
        BY <4>1
      <4>3. WellFormed(m.project)
        BY <1>1, <4>1, <4>2 DEF Inv, LogSound, ChainSound
      <4>4. revisions[m.sequence].hash = m.hash
        BY <4>1, <4>2 DEF HashAt, HashIn
      <4>5. QED
        BY <4>1, <4>3, <4>4
    <3>2. QED
      BY <3>1 DEF NewestSnapshotMatches
  <2>4. QED
    BY <2>1, <2>2, <2>3 DEF AlwaysRestorable, Restorable
<1>2. QED
  BY <1>1, InvHolds, PTL

-----------------------------------------------------------------------------
(* Steps *)

(* A failed handle is open and not about to commit. *)
FailedSound == \A s \in failed : phase[s] \notin {"closed", "committing"}

LEMMA FailedStep ==
  ASSUME Inv, FailedSound, [Next]_vars
  PROVE  /\ FailedSound'
         /\ \A s \in failed :
              \/ phase'[s] = "closed"
              \/ s \in failed' /\ memory'[s] = memory[s]
<1> USE DEF FailedSound, Goto, Settle
<1>1. /\ phase \in [Stores -> Phase] /\ memory \in [Stores -> State]
      /\ failed \subseteq Stores
  BY DEF Inv, TypeOK
<1>2. ASSUME NEW s \in Stores, Open(s) PROVE FailedSound' /\ failed' = failed
             /\ \A t \in failed : memory'[t] = memory[t]
  BY <1>1, <1>2 DEF Open
<1>3. ASSUME NEW s \in Stores, WorkerStep(s)
      PROVE  /\ FailedSound' /\ failed \subseteq failed'
             /\ \A t \in failed : memory'[t] = memory[t]
  <2>1. CASE Recv(s) \/ Refuse(s) \/ ReadReceipt(s) \/ QueryFails(s)
             \/ CommitRollback(s) \/ Checkpoint(s) \/ CompactPersist(s) \/ CompactDelete(s)
    BY <1>1, <2>1 DEF Recv, Refuse, ReadReceipt, QueryFails,
                      CommitRollback, Checkpoint,
                      CompactPersist, CompactDelete
  <2>2. CASE CommitLookup(s)
    BY <1>1, <2>2 DEF CommitLookup, AnswerFromReceipt, Available
  <2>3. CASE CommitTransaction(s)
    BY <1>1, <2>3 DEF CommitTransaction
  <2>4. CASE TakeSnapshot(s)
    BY <1>1, <2>4 DEF TakeSnapshot
  <2>5. CASE AutoSnapshot(s)
    BY <1>1, <2>5 DEF AutoSnapshot
  <2>6. CASE Respond(s)
    BY <1>1, <2>6 DEF Respond
  <2>7. QED
    BY <1>3, <2>1, <2>2, <2>3, <2>4, <2>5, <2>6 DEF WorkerStep
<1>4. ASSUME NEW s \in Stores, Close(s)
      PROVE  /\ FailedSound' /\ failed' = failed \ {s} /\ phase'[s] = "closed"
             /\ \A t \in failed \ {s} : memory'[t] = memory[t]
  BY <1>1, <1>4 DEF Close
<1>5. ASSUME UNCHANGED <<phase, memory, failed>>
      PROVE  FailedSound' /\ failed' = failed /\ memory' = memory
  BY <1>5
<1>6. QED
  BY <1>2, <1>3, <1>4, <1>5
     DEF Next, Shutdown, Crash, Send, Call, vars, worker

(* After a failed snapshot nothing more is committed until the reopening.  *)
THEOREM StoreFailedHandleIsReadOnly == Spec => FailedHandleIsReadOnly
<1> DEFINE Step == \A s \in failed :
                     \/ phase'[s] = "closed"
                     \/ s \in failed' /\ memory'[s] = memory[s]
<1>1. Init => FailedSound
  BY DEF Init, FailedSound
<1>2. Inv /\ FailedSound /\ [Next]_vars => FailedSound' /\ [Step]_vars
  BY FailedStep
<1>3. FailedHandleIsReadOnly <=> [][Step]_vars
  BY DEF FailedHandleIsReadOnly
<1>4. QED
  BY <1>1, <1>2, <1>3, InvHolds, PTL DEF Spec

(* Some snapshot is the newest. *)
LEMMA NewestExists ==
  ASSUME Inv, snapshots # {}
  PROVE  \E k \in Newest : \A m \in snapshots : m.sequence <= k.sequence
<1> DEFINE n == Len(revisions)
           T == {n - m.sequence : m \in snapshots}
<1>1. n \in Nat /\ \A m \in snapshots : m.sequence \in 1..n
  BY DEF Inv, TypeOK, SnapshotsReplay
<1> HIDE DEF n
<1>2. T \in SUBSET Nat /\ T # {}
  BY <1>1
<1>3. PICK d \in T : \A e \in T : d <= e
  <2> HIDE DEF T
  <2>1. QED
    BY <1>2, LeastNatural
<1>4. PICK k \in snapshots : d = n - k.sequence
  OBVIOUS
<1>5. \A m \in snapshots : m.sequence <= k.sequence
  <2>1. ASSUME NEW m \in snapshots PROVE m.sequence <= k.sequence
    <3>1. d <= n - m.sequence
      BY <1>3
    <3>2. QED
      BY <1>1, <1>4, <3>1
  <2>2. QED
    BY <2>1
<1>6. QED
  BY <1>4, <1>5 DEF Newest

(* No compaction, of whichever handle, loses the newest snapshot.          *)
THEOREM StoreNewestSnapshotKept == Spec => NewestSnapshotKept
<1> DEFINE Step == \A n \in snapshots : \E m \in snapshots' : m.sequence >= n.sequence
<1>1. ASSUME Inv, [Next]_vars PROVE Step
  <2>1. ASSUME snapshots \subseteq snapshots' PROVE Step
    <3>1. \A m \in snapshots : m.sequence \in Nat
      BY <1>1 DEF Inv, TypeOK, Snapshot
    <3>2. QED
      BY <2>1, <3>1
  <2>2. ASSUME NEW s \in Stores, CompactDelete(s) PROVE Step
    <3>1. CASE snapshots' = snapshots
      BY <2>1, <3>1
    <3>2. CASE snapshots' = Newest /\ snapshots # {}
      <4>1. \A m \in snapshots : m.sequence \in Nat
        BY <1>1 DEF Inv, TypeOK, Snapshot
      <4>2. PICK k \in Newest : \A m \in snapshots : m.sequence <= k.sequence
        BY <1>1, <3>2, NewestExists
      <4>3. k \in snapshots
        BY DEF Newest
      <4>4. QED
        BY <3>2, <4>1, <4>2, <4>3
    <3>3. QED
      BY <2>2, <3>1, <3>2 DEF CompactDelete
  <2>3. ASSUME NEW s \in Stores, NEW fault, NEW ok, PersistSnapshot(s, fault, ok)
        PROVE  snapshots \subseteq snapshots'
    BY <2>3 DEF PersistSnapshot
  <2>4. ASSUME NEW s \in Stores, WorkerStep(s), ~ CompactDelete(s)
        PROVE  snapshots \subseteq snapshots'
    <3>1. CASE TakeSnapshot(s)
      BY <2>3, <3>1 DEF TakeSnapshot
    <3>2. CASE AutoSnapshot(s)
      BY <2>3, <3>2 DEF AutoSnapshot
    <3>3. CASE CompactPersist(s)
      BY <2>3, <3>3 DEF CompactPersist
    <3>4. CASE Recv(s) \/ Refuse(s) \/ ReadReceipt(s) \/ QueryFails(s)
               \/ CommitLookup(s)
               \/ CommitTransaction(s) \/ CommitRollback(s) \/ Checkpoint(s)
               \/ Respond(s)
      BY <3>4 DEF Recv, Refuse, ReadReceipt, QueryFails, CommitLookup,
                  CommitTransaction,
                  CommitRollback, Checkpoint, Respond, durable
    <3>5. QED
      BY <2>4, <3>1, <3>2, <3>3, <3>4 DEF WorkerStep
  <2>5. CASE UNCHANGED snapshots
    BY <2>1, <2>5
  <2>6. ASSUME NEW s \in Stores, Open(s) \/ Shutdown(s) \/ Crash(s)
        PROVE  UNCHANGED snapshots
    BY <2>6 DEF Open, Shutdown, Crash, Close, durable
  <2>7. ASSUME NEW c \in Callers, Send(c) PROVE UNCHANGED snapshots
    BY <2>7 DEF Send, durable
  <2>8. ASSUME NEW c \in Callers, NEW s \in Stores, NEW w \in Work, Call(c, s, w)
        PROVE  UNCHANGED snapshots
    BY <2>8 DEF Call, durable
  <2>9. CASE UNCHANGED vars
    BY <2>5, <2>9 DEF vars, durable
  <2>10. QED
    BY <1>1, <2>1, <2>2, <2>4, <2>5, <2>6, <2>7, <2>8, <2>9 DEF Next
<1>2. Inv /\ [Next]_vars => [Step]_vars
  BY <1>1
<1>3. QED
  BY <1>2, InvHolds, PTL DEF Spec, NewestSnapshotKept

-----------------------------------------------------------------------------
(***************************************************************************)
(* ProjectStore implements DurableLog, for every value of the constants:   *)
(* every step of handles, callers and crashes is a commit of the abstract  *)
(* log, an answer from it, or no step of it at all.                        *)
(***************************************************************************)

(* The definitions of ProjectModel that reach DurableLog are these. *)
LEMMA SameModel ==
  /\ \A p, c : Abstract!Accepts(p, c) <=> Accepts(p, c)
  /\ \A log : Abstract!Replay(log) = Replay(log)
<1>1. \A p, c : Abstract!ReduceError(p, c) = ReduceError(p, c)
  BY DEF Abstract!ReduceError, ReduceError, Abstract!HasTrack, HasTrack,
         Abstract!HasClip, HasClip
<1>2. \A s, x : Abstract!Without(s, x) = Without(s, x)
  BY Zenon DEF Abstract!Without, Without
<1>3. \A p, c : Abstract!Reduce(p, c) = Reduce(p, c)
  <2> TAKE p, c
  <2> DEFINE listed == p.tracks[p.clips[c.clip].track]
  <2>1. Abstract!Without(listed, c.clip) = Without(listed, c.clip)
    BY <1>2
  <2>2. QED
    BY <2>1 DEF Abstract!Reduce, Reduce
<1>4. Abstract!EmptyProject = EmptyProject
  BY DEF Abstract!EmptyProject, EmptyProject
<1>5. \A log : Abstract!ReplayTo(log) = ReplayTo(log)
  BY <1>3, <1>4 DEF Abstract!ReplayTo, ReplayTo
<1>6. QED
  BY <1>1, <1>5 DEF Abstract!Accepts, Accepts, Abstract!Replay, Replay

-----------------------------------------------------------------------------
(* The abstract log and the answers, as functions of the state *)

TheLog == [i \in 1..Len(revisions) |-> LogEntry(i)]

Answers == {[request |-> a.receipt.request, sequence |-> a.receipt.sequence] :
              a \in acked}

Entry == [request : RequestIds, command : Commands]

LogIs ==
  /\ TheLog \in Seq(Entry) /\ Len(TheLog) = Len(revisions)
  /\ \A r \in RequestIds : receipts[r] # Absent =>
       TheLog[receipts[r].sequence] = [request |-> r, command |-> receipts[r].command]

(* The request of a place in the log is the one whose receipt names it. *)
LEMMA LogIsReceipts == Inv => LogIs
<1> SUFFICES ASSUME Inv PROVE LogIs
  OBVIOUS
<1> DEFINE n == Len(revisions)
<1>1. revisions \in Seq(Revision) /\ n \in Nat
  BY DEF Inv, TypeOK
<1>2. ReceiptsSound
  BY DEF Inv, LogSound
<1>3. ASSUME NEW r \in RequestIds, receipts[r] # Absent
      PROVE  /\ receipts[r].sequence \in 1..n
             /\ TheLog[receipts[r].sequence] =
                  [request |-> r, command |-> receipts[r].command]
  <2> DEFINE i == receipts[r].sequence
             P(q) == receipts[q] # Absent /\ receipts[q].sequence = i
  <2>1. i \in 1..n /\ revisions[i].command = receipts[r].command
    BY <1>2, <1>3 DEF ReceiptsSound
  <2>2. \A q \in RequestIds : P(q) => q = r
    BY <1>2, <1>3 DEF ReceiptsSound
  <2>3. P(r)
    BY <1>3
  <2>4. (CHOOSE q \in RequestIds : P(q)) = r
    BY <2>2, <2>3
  <2>5. LogEntry(i) = [request |-> CHOOSE q \in RequestIds : P(q),
                       command |-> revisions[i].command]
    BY DEF LogEntry
  <2>6. TheLog[i] = LogEntry(i)
    BY <2>1 DEF TheLog
  <2>7. QED
    BY <2>1, <2>4, <2>5, <2>6
<1>4. ASSUME NEW i \in 1..n PROVE TheLog[i] \in Entry
  <2>1. PICK r \in RequestIds : receipts[r] # Absent /\ receipts[r].sequence = i
    BY <1>2 DEF ReceiptsSound
  <2>2. receipts[r].command \in Commands
    BY <2>1 DEF Inv, TypeOK, Row
  <2>3. TheLog[i] = [request |-> r, command |-> receipts[r].command]
    BY <1>3, <2>1
  <2>4. QED
    BY <2>2, <2>3 DEF Entry
<1>5. TheLog \in [1..n -> Entry]
  BY <1>4 DEF TheLog
<1>6. TheLog \in Seq(Entry) /\ Len(TheLog) = n
  BY <1>1, <1>5
<1>7. QED
  BY <1>3, <1>6 DEF LogIs

LEMMA LogIsReceiptsNext == Inv' => LogIs'
BY LogIsReceipts, PTL

(* A step that changes neither table changes no entry. *)
LEMMA LogUnchanged ==
  ASSUME Inv, Inv', UNCHANGED <<revisions, receipts>>
  PROVE  TheLog' = TheLog
<1>1. LogIs /\ LogIs'
  BY LogIsReceipts, LogIsReceiptsNext
<1>2. ASSUME NEW i \in 1..Len(revisions) PROVE TheLog'[i] = TheLog[i]
  <2>1. PICK r \in RequestIds : receipts[r] # Absent /\ receipts[r].sequence = i
    BY DEF Inv, LogSound, ReceiptsSound
  <2>2. QED
    BY <1>1, <2>1 DEF LogIs
<1>3. /\ TheLog = [i \in 1..Len(revisions) |-> TheLog[i]]
      /\ TheLog' = [i \in 1..Len(revisions) |-> TheLog'[i]]
  BY DEF TheLog
<1>4. QED
  BY <1>2, <1>3

-----------------------------------------------------------------------------
(* The transaction is a commit of the abstract log. *)
LEMMA CommitRefines ==
  ASSUME Inv, Inv', NEW s \in Stores, CommitTransaction(s)
  PROVE  Abstract!Next
<1> DEFINE n == Len(revisions)
           r0 == work(s).request
           c0 == work(s).command
           e0 == [request |-> r0, command |-> c0]
<1>1. /\ phase[s] = "committing" /\ KeysFree(s) /\ Busy(s)
      /\ revisions' = Append(revisions, RevisionRow(s))
      /\ receipts' = [receipts EXCEPT ![r0] = ReceiptRow(s)]
      /\ acked' = acked
  BY DEF CommitTransaction, Busy, history
<1>2. /\ r0 \in RequestIds /\ c0 \in Commands
      /\ Accepts(memory[s].project, c0)
  BY <1>1, WorkType DEF Inv, WorkSound, WorkSoundAt
<1>3. /\ revisions \in Seq(Revision) /\ n \in Nat
      /\ receipts \in [RequestIds -> Row \cup {Absent}]
  BY DEF Inv, TypeOK
<1>4. memory[s].sequence = n /\ memory[s].project = Replay(HashAt(n))
  <2>1. memory[s].sequence \in 0..n /\ memory[s].sequence + 1 \notin 1..n
    BY <1>1 DEF KeysFree, Inv, MemorySound
  <2>2. memory[s].sequence = n
    BY <1>3, <2>1
  <2>3. QED
    BY <2>2 DEF Inv, MemorySound
<1>5. receipts[r0] = Absent
  BY <1>1 DEF KeysFree
<1>6. LogIs /\ LogIs'
  BY LogIsReceipts, LogIsReceiptsNext
<1>7. \A i \in 1..n : \E r \in RequestIds \ {r0} :
        /\ receipts[r] # Absent /\ receipts'[r] = receipts[r]
        /\ receipts[r].sequence = i
  <2>1. ReceiptsSound
    BY DEF Inv, LogSound
  <2>2. \A r \in RequestIds \ {r0} : receipts'[r] = receipts[r]
    BY <1>1, <1>3
  <2> HIDE DEF r0
  <2>3. QED
    BY <1>5, <2>1, <2>2 DEF ReceiptsSound
<1>8. /\ receipts'[r0] # Absent /\ receipts'[r0].sequence = n + 1
      /\ receipts'[r0].command = c0
  <2>1. receipts'[r0] = ReceiptRow(s)
    BY <1>1, <1>2, <1>3
  <2>2. ReceiptRow(s).sequence = n + 1 /\ ReceiptRow(s).command = c0
    BY <1>4 DEF ReceiptRow, NextSequence
  <2>3. ReceiptRow(s) # Absent
    <3>1. n + 1 \in 1..Len(revisions')
      BY <1>1, <1>3
    <3>2. PICK r \in RequestIds : receipts'[r] # Absent /\ receipts'[r].sequence = n + 1
      BY <3>1 DEF Inv, LogSound, ReceiptsSound
    <3>3. CASE r = r0
      BY <2>1, <3>2, <3>3
    <3>4. CASE r # r0
      <4>1. receipts'[r] = receipts[r]
        BY <1>1, <1>3, <3>4
      <4>2. receipts[r].sequence \in 1..n
        BY <3>2, <4>1 DEF Inv, LogSound, ReceiptsSound
      <4>3. QED
        BY <1>3, <3>2, <4>1, <4>2
    <3>5. QED
      BY <3>3, <3>4
  <2>4. QED
    BY <2>1, <2>2, <2>3
<1>9. Len(revisions') = n + 1
  BY <1>1, <1>3
<1> HIDE DEF r0, c0, n
<1>10. TheLog' = Append(TheLog, e0)
  <2>1. ASSUME NEW i \in 1..n PROVE TheLog'[i] = TheLog[i]
    <3>1. PICK r \in RequestIds : /\ receipts[r] # Absent /\ receipts'[r] = receipts[r]
                                 /\ receipts[r].sequence = i
      BY <1>7
    <3>2. TheLog[i] = [request |-> r, command |-> receipts[r].command]
      BY <1>6, <3>1 DEF LogIs
    <3>3. TheLog'[i] = [request |-> r, command |-> receipts'[r].command]
      BY <1>6, <3>1 DEF LogIs
    <3>4. QED
      BY <3>1, <3>2, <3>3
  <2>2. TheLog'[n + 1] = e0
    BY <1>2, <1>6, <1>8 DEF LogIs
  <2>3. TheLog \in Seq(Entry) /\ Len(TheLog) = n /\ e0 \in Entry
    BY <1>2, <1>6 DEF LogIs, Entry, n
  <2>4. TheLog' = [i \in 1..(n + 1) |-> TheLog'[i]]
    BY <1>9 DEF TheLog
  <2> HIDE DEF e0
  <2>5. Append(TheLog, e0) = [i \in 1..(n + 1) |-> IF i = n + 1 THEN e0 ELSE TheLog[i]]
    <3> DEFINE l == TheLog
               a == Append(l, e0)
    <3>1. l \in Seq(Entry) /\ Len(l) = n
      BY <2>3
    <3> HIDE DEF l
    <3>2. /\ a \in Seq(Entry) /\ Len(a) = n + 1
          /\ \A i \in 1..n : a[i] = l[i]
          /\ a[n + 1] = e0
      BY <2>3, <3>1, AppendProperties
    <3> HIDE DEF a
    <3>3. a = [i \in 1..(n + 1) |-> a[i]]
      BY <3>2
    <3>4. ASSUME NEW i \in 1..(n + 1)
          PROVE  a[i] = IF i = n + 1 THEN e0 ELSE l[i]
      BY <1>3, <3>2 DEF n
    <3>5. a = [i \in 1..(n + 1) |-> IF i = n + 1 THEN e0 ELSE l[i]]
      BY <3>3, <3>4
    <3>6. QED
      BY <3>5 DEF a, l
  <2>6. ASSUME NEW i \in 1..(n + 1)
        PROVE  TheLog'[i] = IF i = n + 1 THEN e0 ELSE TheLog[i]
    <3>1. i \in 1..n \/ i = n + 1
      BY <1>3 DEF n
    <3>2. QED
      BY <2>1, <2>2, <3>1
  <2>7. QED
    BY <2>4, <2>5, <2>6
<1>11. \A i \in 1..Len(TheLog) : TheLog[i].request # r0
  <2>1. ASSUME NEW i \in 1..n PROVE TheLog[i].request # r0
    <3>1. PICK r \in RequestIds \ {r0} : receipts[r] # Absent /\ receipts[r].sequence = i
      BY <1>7
    <3>2. TheLog[i] = [request |-> r, command |-> receipts[r].command]
      BY <1>6, <3>1 DEF LogIs
    <3>3. QED
      BY <3>2
  <2>2. QED
    BY <1>6, <2>1 DEF LogIs, n
<1>12. Abstract!CommandsOf(TheLog) = HashAt(n)
  <2>1. n \in 0..n
    BY <1>3 DEF n
  <2>2. /\ HashAt(n) \in Seq(Command) /\ Len(HashAt(n)) = n
        /\ \A j \in 1..n : HashAt(n)[j] = revisions[j].command
    BY <2>1 DEF Inv, LogSound, ChainSound, n
  <2>3. HashAt(n) = [j \in 1..n |-> HashAt(n)[j]]
    BY <2>2
  <2>4. ASSUME NEW j \in 1..n PROVE TheLog[j].command = revisions[j].command
    <3>1. PICK r \in RequestIds : receipts[r] # Absent /\ receipts[r].sequence = j
      BY <1>7
    <3>2. revisions[j].command = receipts[r].command
      BY <3>1 DEF Inv, LogSound, ReceiptsSound
    <3>3. TheLog[j] = [request |-> r, command |-> receipts[r].command]
      BY <1>6, <3>1 DEF LogIs
    <3>4. QED
      BY <3>2, <3>3
  <2>5. Abstract!CommandsOf(TheLog) = [j \in 1..n |-> TheLog[j].command]
    BY <1>6 DEF Abstract!CommandsOf, LogIs, n
  <2>6. QED
    BY <2>2, <2>3, <2>4, <2>5
<1>13. Abstract!Accepts(Abstract!Replay(Abstract!CommandsOf(TheLog)), c0)
  BY <1>2, <1>4, <1>12, SameModel
<1>14. Answers' = Answers
  BY <1>1 DEF Answers
<1>15. Abstract!Commit(r0, c0)
  BY <1>10, <1>11, <1>13, <1>14 DEF Abstract!Commit, TheLog, Answers
<1>16. QED
  BY <1>2, <1>15 DEF Abstract!Next

(* A response with a receipt is an answer from the abstract log. *)
LEMMA RespondRefines ==
  ASSUME Inv, Inv', NEW s \in Stores, Respond(s)
  PROVE  [Abstract!Next]_(Abstract!vars)
<1> DEFINE g == reply[s].receipt
<1>1. /\ UNCHANGED <<revisions, receipts>> /\ acked' = acked \cup Told(s)
      /\ phase[s] = "replying"
  BY DEF Respond, durable
<1>2. TheLog' = TheLog
  BY <1>1, LogUnchanged
<1>3. CASE g = Absent
  <2>1. Answers' = Answers
    BY <1>1, <1>3 DEF Told, Answers
  <2>2. QED
    BY <1>2, <2>1 DEF Abstract!vars, TheLog, Answers
<1>4. CASE g # Absent
  <2>1. g \in CommitReceipt /\ g.request \in RequestIds
    BY <1>4 DEF Inv, TypeOK, Reply, CommitReceipt
  <2>2. receipt(g.request) = g /\ receipts[g.request] # Absent
    BY <1>1, <1>4 DEF Inv, WorkSound, WorkSoundAt, receipt
  <2>3. g.sequence = receipts[g.request].sequence
    BY <2>2 DEF receipt
  <2>4. g.sequence \in 1..Len(revisions)
    BY <2>1, <2>2, <2>3 DEF Inv, LogSound, ReceiptsSound
  <2>5. /\ TheLog[g.sequence].request = g.request
        /\ Len(TheLog) = Len(revisions)
    <3>1. LogIs
      BY LogIsReceipts
    <3>2. TheLog[receipts[g.request].sequence] =
            [request |-> g.request, command |-> receipts[g.request].command]
      BY <2>1, <2>2, <3>1 DEF LogIs
    <3>3. QED
      BY <2>3, <3>1, <3>2 DEF LogIs
  <2>6. Answers' = Answers \cup
          {[request |-> TheLog[g.sequence].request, sequence |-> g.sequence]}
    <3>1. PICK told : Told(s) = {told} /\ told.receipt = g
      <4> DEFINE e == [receipt |-> g,
                       command |-> IF work(s).op = "Commit" THEN work(s).command
                                   ELSE Absent]
      <4>1. Told(s) = {e}
        BY <1>4 DEF Told
      <4>2. e.receipt = g
        OBVIOUS
      <4> HIDE DEF e, g
      <4>3. QED
        BY <4>1, <4>2
    <3>2. acked' = acked \cup {told}
      BY <1>1, <3>1
    <3>3. Answers' = Answers \cup
            {[request |-> told.receipt.request, sequence |-> told.receipt.sequence]}
      BY <3>2 DEF Answers
    <3>4. QED
      BY <2>5, <3>1, <3>3
  <2>7. PICK i \in 1..Len(TheLog) : i = g.sequence
    BY <2>4, <2>5
  <2>8. Abstract!Answer(i)
    BY <1>2, <2>6, <2>7 DEF Abstract!Answer, TheLog, Answers
  <2>9. QED
    BY <2>7, <2>8 DEF Abstract!Next, TheLog
<1>5. QED
  BY <1>3, <1>4

(* No other step of the store is visible in the log. *)
LEMMA OtherSteps ==
  ASSUME Inv, Inv', UNCHANGED <<revisions, receipts, acked>>
  PROVE  UNCHANGED Abstract!vars
<1>1. TheLog' = TheLog
  BY LogUnchanged
<1>2. Answers' = Answers
  BY DEF Answers
<1>3. QED
  BY <1>1, <1>2 DEF Abstract!vars, TheLog, Answers

LEMMA StepRefines ==
  Inv /\ Inv' /\ [Next]_vars => [Abstract!Next]_(Abstract!vars)
<1> SUFFICES ASSUME Inv, Inv', [Next]_vars
             PROVE  [Abstract!Next]_(Abstract!vars)
  OBVIOUS
<1>1. ASSUME NEW s \in Stores, WorkerStep(s)
      PROVE  [Abstract!Next]_(Abstract!vars)
  <2>1. CASE CommitTransaction(s)
    BY <2>1, CommitRefines
  <2>2. CASE Respond(s)
    BY <2>2, RespondRefines
  <2>3. CASE Recv(s) \/ Refuse(s) \/ ReadReceipt(s) \/ QueryFails(s)
             \/ CommitLookup(s)
             \/ CommitRollback(s) \/ TakeSnapshot(s) \/ AutoSnapshot(s)
             \/ Checkpoint(s) \/ CompactPersist(s) \/ CompactDelete(s)
    <3>1. UNCHANGED <<revisions, receipts, acked>>
      BY <2>3 DEF Recv, Refuse, ReadReceipt, QueryFails, CommitLookup,
                  CommitRollback,
                  TakeSnapshot, AutoSnapshot, Checkpoint, CompactPersist,
                  CompactDelete, durable, history
    <3>2. QED
      BY <3>1, OtherSteps
  <2>4. QED
    BY <1>1, <2>1, <2>2, <2>3 DEF WorkerStep
<1>2. CASE UNCHANGED <<revisions, receipts, acked>>
  BY <1>2, OtherSteps
<1>3. ASSUME NEW s \in Stores, Open(s) \/ Shutdown(s) \/ Crash(s)
      PROVE  UNCHANGED <<revisions, receipts, acked>>
  BY <1>3 DEF Open, Shutdown, Crash, Close, durable, history
<1>4. ASSUME NEW c \in Callers, Send(c)
      PROVE  UNCHANGED <<revisions, receipts, acked>>
  BY <1>4 DEF Send, durable, history
<1>5. ASSUME NEW c \in Callers, NEW s \in Stores, NEW w \in Work, Call(c, s, w)
      PROVE  UNCHANGED <<revisions, receipts, acked>>
  BY <1>5 DEF Call, durable, history
<1>6. CASE UNCHANGED vars
  BY <1>2, <1>6 DEF vars, durable, history
<1>7. QED
  BY <1>1, <1>2, <1>3, <1>4, <1>5, <1>6 DEF Next

(* Whatever handles, callers, faults and crashes do, callers see one       *)
(* append-only log in which each request stands at most once.              *)
THEOREM StoreImplementsDurableLog == Spec => ImplementsDurableLog
<1>1. Init => Abstract!Init
  BY DEF Init, Abstract!Init
<1>2. QED
  BY <1>1, StepRefines, InvHolds, PTL DEF Spec, ImplementsDurableLog, Abstract!Spec
=============================================================================
