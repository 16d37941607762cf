---------------------------- MODULE ProjectStore ----------------------------
(***************************************************************************)
(* crates/project-store: a SQLite file and the store handles opened on it. *)
(* Each handle owns one worker thread, the only user of its connection,    *)
(* which serves a bounded channel of work.  Callers block on the channel   *)
(* and then on the response.  Nothing stops two handles (of two processes, *)
(* or of one) from opening the same file, so Stores may have several.      *)
(*                                                                         *)
(* A SQLite transaction is one step: the connections of other handles see  *)
(* all of it or nothing.  Steps of different handles and callers, crashes  *)
(* and reopenings interleave between transactions.                         *)
(***************************************************************************)
EXTENDS ProjectModel, FiniteSets

CONSTANTS
  Stores,      \* handles opened on the one database file
  Callers,     \* threads (or retrying clients) that call a handle
  RequestIds,
  Commands,    \* the commands callers submit
  Ops,         \* the kinds of work they submit
  Faults,      \* the fault points the tests inject, "NoFault" included
  Capacity,    \* CHANNEL_CAPACITY
  Interval     \* SNAPSHOT_INTERVAL

FaultPoint ==
  {"BeforeCommit", "AfterCommitBeforeResponse",
   "BeforeSnapshot", "DuringSnapshot", "AfterSnapshot",
   "BeforeCheckpoint", "DuringCheckpoint", "AfterCheckpoint",
   "BeforeCompaction", "DuringCompaction", "AfterCompaction"}

VARIABLES
  (* the database file *)
  revisions,  \* table revisions, by sequence: [hash, parent, command]
  receipts,   \* table receipts, by request id
  head,       \* the row 'main' of table heads
  snapshots,  \* table snapshots
  (* the handles *)
  phase,      \* where the worker of a handle is
  memory,     \* State: [project, head, sequence]
  failed,     \* the handles whose maintenance_failure is set
  queue,      \* the channel: the callers whose work is queued
  job,        \* the caller whose work the worker has taken
  reply,      \* the result it will send
  (* the callers *)
  calls,      \* the call a caller is blocked in: [store, work]
  (* history *)
  acked,      \* the receipts callers were given
  ambiguous   \* the requests answered Ambiguous

durable == <<revisions, receipts, head, snapshots>>
worker == <<phase, memory, failed, queue, job, reply>>
history == <<acked, ambiguous>>
vars == <<durable, worker, calls, history>>

-----------------------------------------------------------------------------
(* Types *)

FaultOf(points) == Faults \cap (points \cup {"NoFault"})

Work ==
       [op : {"Commit"}, request : RequestIds, command : Commands,
        fault : FaultOf({"BeforeCommit", "AfterCommitBeforeResponse"})]
  \cup [op : {"Receipt"}, request : RequestIds]
  \cup [op : {"Snapshot"},
        fault : FaultOf({"BeforeSnapshot", "DuringSnapshot", "AfterSnapshot"})]
  \cup [op : {"Checkpoint"},
        fault : FaultOf({"BeforeCheckpoint", "DuringCheckpoint",
                         "AfterCheckpoint"})]
  \cup [op : {"Compact"},
        fault : FaultOf({"BeforeCompaction", "DuringCompaction",
                         "AfterCompaction"})]

Revision == [hash : RevisionHash, parent : RevisionHash, command : Commands]
Row == [hash : RevisionHash, sequence : Nat, command : Commands]
HeadRow == [hash : RevisionHash, sequence : Nat]
Snapshot == [sequence : Nat, hash : RevisionHash, project : Project]
CommitReceipt == [request : RequestIds, hash : RevisionHash, sequence : Nat]
State == [project : Project, head : RevisionHash, sequence : Nat]
BlockedCall == [store : Stores, work : Work]

ASSUME StoreAssumption ==
  /\ Commands \subseteq Command
  /\ Faults \subseteq FaultPoint \cup {"NoFault"}
  /\ Capacity \in Nat \ {0}
  /\ Interval \in Nat \ {0}
  /\ Absent \notin Callers
  /\ Absent \notin Row
  /\ Absent \notin CommitReceipt
  /\ Absent \notin BlockedCall

Phase == {"closed", "idle", "working", "committing", "compacting", "replying",
          "snapshotting"}

Outcome == {"Ok", "NoReceipt", "Ambiguous", "RequestConflict", "Injected",
            "Model", "Sql", "Maintenance"}

Reply == [outcome : Outcome, receipt : CommitReceipt \cup {Absent}]

NoReply == [outcome |-> "Ok", receipt |-> Absent]

Fresh == [project |-> EmptyProject, head |-> NoHash, sequence |-> 0]

Init ==
  /\ revisions = <<>>
  /\ receipts = [r \in RequestIds |-> Absent]
  /\ head = Absent
  /\ snapshots = {}
  /\ phase = [s \in Stores |-> "closed"]
  /\ memory = [s \in Stores |-> Fresh]
  /\ failed = {}
  /\ queue = [s \in Stores |-> <<>>]
  /\ job = [s \in Stores |-> Absent]
  /\ reply = [s \in Stores |-> NoReply]
  /\ calls = [c \in Callers |-> Absent]
  /\ acked = {}
  /\ ambiguous = {}

-----------------------------------------------------------------------------
(* restore: what open checks of the file before a handle exists.           *)

HashIn(rows, i) == IF i = 0 THEN NoHash ELSE rows[i].hash

HashAt(i) == HashIn(revisions, i)

(* Rows are consecutive from 1; each has the hash of its predecessor as    *)
(* parent, its own hash recomputed, and a command that reduce accepts.     *)
LogReplays ==
  \A i \in 1..Len(revisions) :
    /\ revisions[i].parent = HashAt(i - 1)
    /\ revisions[i].hash = revision_hash(HashAt(i - 1), revisions[i].command)
    /\ Accepts(Replay(HashAt(i - 1)), revisions[i].command)

(* The newest snapshot decodes, names a revision, and is its replay. *)
NewestSnapshotMatches ==
  \A n \in snapshots :
    (\A m \in snapshots : m.sequence <= n.sequence) =>
      /\ n.sequence \in 1..Len(revisions)
      /\ revisions[n.sequence].hash = n.hash
      /\ WellFormed(n.project)
      /\ n.project = Replay(n.hash)

(* validate_receipts *)
ReceiptsMatch ==
  /\ Cardinality({r \in RequestIds : receipts[r] # Absent}) = Len(revisions)
  /\ \A r \in RequestIds :
       receipts[r] # Absent =>
         /\ receipts[r].sequence \in 1..Len(revisions)
         /\ revisions[receipts[r].sequence].hash = receipts[r].hash
         /\ revisions[receipts[r].sequence].command = receipts[r].command

HeadMatches ==
  IF revisions = <<>> THEN head = Absent
  ELSE head = [hash |-> HashAt(Len(revisions)), sequence |-> Len(revisions)]

Restorable ==
  LogReplays /\ NewestSnapshotMatches /\ ReceiptsMatch /\ HeadMatches

(* ProjectStore::open; an open that fails leaves no handle. *)
Open(s) ==
  /\ phase[s] = "closed"
  /\ Restorable
  /\ phase' = [phase EXCEPT ![s] = "idle"]
  /\ memory' = [memory EXCEPT ![s] =
       [project |-> Replay(HashAt(Len(revisions))),
        head |-> HashAt(Len(revisions)),
        sequence |-> Len(revisions)]]
  /\ UNCHANGED <<durable, failed, queue, job, reply, calls, history>>

-----------------------------------------------------------------------------
(* Callers *)

Pending(c) ==
  \E s \in Stores :
    \/ job[s] = c
    \/ \E i \in 1..Len(queue[s]) : queue[s][i] = c

Call(c, s, w) ==
  /\ calls[c] = Absent
  /\ phase[s] # "closed"
  /\ w.op \in Ops
  /\ calls' = [calls EXCEPT ![c] = [store |-> s, work |-> w]]
  /\ UNCHANGED <<durable, worker, history>>

HasRoom(s) == Len(queue[s]) < Capacity

(* SyncSender::send: blocks while the channel is full. *)
Send(c) ==
  /\ calls[c] # Absent
  /\ ~ Pending(c)
  /\ HasRoom(calls[c].store)
  /\ queue' = [queue EXCEPT ![calls[c].store] = Append(@, c)]
  /\ UNCHANGED <<durable, phase, memory, failed, job, reply, calls, history>>

-----------------------------------------------------------------------------
(* The worker: receive, process, respond *)

work(s) == calls[job[s]].work

Goto(s, p) == phase' = [phase EXCEPT ![s] = p]

Recv(s) ==
  /\ phase[s] = "idle"
  /\ queue[s] # <<>>
  /\ job' = [job EXCEPT ![s] = Head(queue[s])]
  /\ queue' = [queue EXCEPT ![s] = Tail(@)]
  /\ Goto(s, "working")
  /\ UNCHANGED <<durable, memory, failed, reply, calls, history>>

Working(s, op) == phase[s] = "working" /\ work(s).op = op

(* The result is settled; the worker will send it. *)
Settle(s, outcome, receipt) ==
  /\ Goto(s, "replying")
  /\ reply' = [reply EXCEPT ![s] = [outcome |-> outcome, receipt |-> receipt]]

(* After a failed maintenance step every kind of work but Receipt is       *)
(* refused, until the handle is reopened.                                  *)
MutAlwaysAvailable(s) == TRUE

Available(s) == s \notin failed

Refuse(s) ==
  /\ phase[s] = "working"
  /\ work(s).op # "Receipt"
  /\ ~ Available(s)
  /\ Settle(s, "Maintenance", Absent)
  /\ UNCHANGED <<durable, memory, failed, queue, job, calls, history>>

receipt(r) ==
  IF receipts[r] = Absent THEN Absent
  ELSE [request |-> r, hash |-> receipts[r].hash,
        sequence |-> receipts[r].sequence]

ReadReceipt(s) ==
  /\ Working(s, "Receipt")
  /\ Settle(s, IF receipt(work(s).request) = Absent THEN "NoReceipt" ELSE "Ok",
            receipt(work(s).request))
  /\ UNCHANGED <<durable, memory, failed, queue, job, calls, history>>

(* The SELECT on receipts fails, or finds a malformed row. *)
QueryFails(s) ==
  /\ \/ Working(s, "Receipt")
     \/ Working(s, "Commit") /\ Available(s)
  /\ Settle(s, "Sql", Absent)
  /\ UNCHANGED <<durable, memory, failed, queue, job, calls, history>>

(* The answer to a request that has a receipt already. *)
MutAnswerAnyCommand(s) == Settle(s, "Ok", receipt(work(s).request))

AnswerFromReceipt(s) ==
  IF receipts[work(s).request].command = work(s).command
  THEN Settle(s, "Ok", receipt(work(s).request))
  ELSE Settle(s, "RequestConflict", Absent)

(* commit, up to the transaction: a request that has a receipt is answered *)
(* from it; a command the in-memory project rejects is refused.            *)
CommitLookup(s) ==
  /\ Working(s, "Commit")
  /\ Available(s)
  /\ IF receipts[work(s).request] # Absent THEN AnswerFromReceipt(s)
     ELSE IF ~ Accepts(memory[s].project, work(s).command)
     THEN Settle(s, "Model", Absent)
     ELSE Goto(s, "committing") /\ UNCHANGED reply
  /\ UNCHANGED <<durable, memory, failed, queue, job, calls, history>>

(* The primary keys of revisions and receipts. *)
MutReceiptKeyOnly(s) == receipts[work(s).request] = Absent

KeysFree(s) ==
  /\ memory[s].sequence + 1 \notin 1..Len(revisions)
  /\ receipts[work(s).request] = Absent

(* The rows of the transaction and the state after it. *)
NextSequence(s) == memory[s].sequence + 1

NextHash(s) == revision_hash(memory[s].head, work(s).command)

RevisionRow(s) == [hash |-> NextHash(s), parent |-> memory[s].head,
                   command |-> work(s).command]

ReceiptRow(s) == [hash |-> NextHash(s), sequence |-> NextSequence(s),
                  command |-> work(s).command]

NewHeadRow(s) == [hash |-> NextHash(s), sequence |-> NextSequence(s)]

(* Mutant: a head row that exists is kept (insert without the update). *)
MutHeadAfter(s) == IF head = Absent THEN NewHeadRow(s) ELSE head

HeadAfter(s) == NewHeadRow(s)

(* Mutant: the in-memory project is not advanced. *)
MutStateAfter(s) == [project |-> memory[s].project, head |-> NextHash(s),
                     sequence |-> NextSequence(s)]

(* Mutant: the in-memory head is not advanced. *)
MutHeadKept(s) == [project |-> Reduce(memory[s].project, work(s).command),
                   head |-> memory[s].head, sequence |-> NextSequence(s)]

StateAfter(s) == [project |-> Reduce(memory[s].project, work(s).command),
                  head |-> NextHash(s), sequence |-> NextSequence(s)]

(* Insert the revision, its receipt and the head in one transaction, then  *)
(* advance the in-memory state.                                            *)
CommitTransaction(s) ==
  /\ phase[s] = "committing"
  /\ KeysFree(s)
  /\ work(s).fault # "BeforeCommit"
  /\ revisions' = Append(revisions, RevisionRow(s))
  /\ receipts' = [receipts EXCEPT ![work(s).request] = ReceiptRow(s)]
  /\ head' = HeadAfter(s)
  /\ memory' = [memory EXCEPT ![s] = StateAfter(s)]
  /\ IF work(s).fault = "AfterCommitBeforeResponse"
     THEN Settle(s, "Ambiguous", Absent)
     ELSE Settle(s, "Ok", [request |-> work(s).request, hash |-> NextHash(s),
                           sequence |-> NextSequence(s)])
  /\ UNCHANGED <<snapshots, failed, queue, job, calls, history>>

(* Mutant: the revision was inserted outside the transaction and stays. *)
MutCommitRollback(s) ==
  /\ phase[s] = "committing"
  /\ KeysFree(s)
  /\ revisions' = Append(revisions, RevisionRow(s))
  /\ Settle(s, "Sql", Absent)
  /\ UNCHANGED <<receipts, head, snapshots, memory, failed, queue, job, calls,
                 history>>

(* The transaction is rolled back: a key collides, the file is busy, an    *)
(* I/O operation fails, or the fault before the commit is injected.        *)
CommitRollback(s) ==
  /\ phase[s] = "committing"
  /\ Settle(s, IF KeysFree(s) /\ work(s).fault = "BeforeCommit"
               THEN "Injected" ELSE "Sql", Absent)
  /\ UNCHANGED <<durable, memory, failed, queue, job, calls, history>>

-----------------------------------------------------------------------------
(* Maintenance *)

Recorded(s) ==
  \E n \in snapshots :
    n.sequence = memory[s].sequence /\ n.hash = memory[s].head

(* Mutant: the snapshot is labelled with the head row of the file. *)
MutMemorySnapshot(s) == [sequence |-> head.sequence, hash |-> head.hash,
                         project |-> memory[s].project]

MemorySnapshot(s) == [sequence |-> memory[s].sequence, hash |-> memory[s].head,
                      project |-> memory[s].project]

(* persist_snapshot under a fault, ending well or with a Maintenance error.*)
(* A failing query or transaction of SQLite leaves snapshots as they were. *)
(* The query whether the snapshot is recorded and the insertion are two    *)
(* statements in the code, one step here: another handle can only put the  *)
(* very row of this primary key in between, and the insertion then fails   *)
(* on the key, which is the step that is not ok.                           *)
PersistSnapshot(s, fault, ok) ==
  \/ /\ memory[s].sequence = 0
     /\ ok /\ UNCHANGED snapshots
  \/ /\ memory[s].sequence # 0
     /\ \/ ~ ok /\ UNCHANGED snapshots
        \/ /\ fault # "BeforeSnapshot" /\ Recorded(s)
           /\ ok /\ UNCHANGED snapshots
        \/ /\ fault \notin {"BeforeSnapshot", "DuringSnapshot"} /\ ~ Recorded(s)
           /\ ok = (fault # "AfterSnapshot")
           /\ snapshots' = snapshots \cup {MemorySnapshot(s)}

(* Work::Snapshot: a failure is sticky. *)
TakeSnapshot(s) ==
  /\ Working(s, "Snapshot")
  /\ Available(s)
  /\ \E ok \in BOOLEAN :
       /\ PersistSnapshot(s, work(s).fault, ok)
       /\ Settle(s, IF ok THEN "Ok" ELSE "Maintenance", Absent)
       /\ failed' = IF ok THEN failed ELSE failed \cup {s}
  /\ UNCHANGED <<revisions, receipts, head, memory, queue, job, calls, history>>

(* Mutant: the worker sends itself the work of the snapshot, and waits     *)
(* while its own channel is full.                                          *)
MutAutoSnapshot(s) ==
  /\ phase[s] = "snapshotting"
  /\ HasRoom(s)
  /\ \E ok \in BOOLEAN :
       /\ PersistSnapshot(s, "NoFault", ok)
       /\ failed' = IF ok THEN failed ELSE failed \cup {s}
  /\ Goto(s, "idle")
  /\ UNCHANGED <<revisions, receipts, head, memory, queue, job, reply, calls,
                 history>>

(* The snapshot due after a response; its failure is sticky, too. *)
AutoSnapshot(s) ==
  /\ phase[s] = "snapshotting"
  /\ \E ok \in BOOLEAN :
       /\ PersistSnapshot(s, "NoFault", ok)
       /\ failed' = IF ok THEN failed ELSE failed \cup {s}
  /\ Goto(s, "idle")
  /\ UNCHANGED <<revisions, receipts, head, memory, queue, job, reply, calls,
                 history>>

(* checkpoint moves pages from the WAL into the database: no row changes,  *)
(* and it may fail because readers are busy.                               *)
Checkpoint(s) ==
  /\ Working(s, "Checkpoint")
  /\ Available(s)
  /\ \E outcome \in {"Ok", "Maintenance"} :
       /\ outcome = "Ok" => work(s).fault = "NoFault"
       /\ Settle(s, outcome, Absent)
  /\ UNCHANGED <<durable, memory, failed, queue, job, calls, history>>

(* compact: a snapshot of the head in one transaction; its failure is      *)
(* reported but not sticky.                                                *)
CompactPersist(s) ==
  /\ Working(s, "Compact")
  /\ Available(s)
  /\ \/ /\ \/ work(s).fault = "BeforeCompaction" /\ UNCHANGED snapshots
           \/ PersistSnapshot(s, "NoFault", FALSE)
        /\ Settle(s, "Maintenance", Absent)
     \/ /\ work(s).fault # "BeforeCompaction"
        /\ PersistSnapshot(s, "NoFault", TRUE)
        /\ Goto(s, "compacting")
        /\ UNCHANGED reply
  /\ UNCHANGED <<revisions, receipts, head, memory, failed, queue, job, calls,
                 history>>

MutOldest == {n \in snapshots : \A m \in snapshots : n.sequence <= m.sequence}

Newest == {n \in snapshots : \A m \in snapshots : m.sequence <= n.sequence}

(* Then, in another transaction, the older snapshots are deleted.  What    *)
(* follows it (checkpoint, VACUUM) changes no row and may fail.            *)
CompactDelete(s) ==
  /\ phase[s] = "compacting"
  /\ \E outcome \in {"Ok", "Maintenance"} :
       /\ \/ snapshots' = Newest
          \/ outcome = "Maintenance" /\ UNCHANGED snapshots
       /\ outcome = "Ok" => work(s).fault = "NoFault"
       /\ Settle(s, outcome, Absent)
  /\ UNCHANGED <<revisions, receipts, head, memory, failed, queue, job, calls,
                 history>>

-----------------------------------------------------------------------------
(* Respond: a commit that ended well at a multiple of the interval makes a *)
(* snapshot due, taken after the response is sent.                         *)

SnapshotDue(s) ==
  /\ work(s).op = "Commit"
  /\ reply[s].outcome = "Ok"
  /\ memory[s].sequence % Interval = 0

(* What the caller learns: a receipt, and for a commit of which command. *)
Told(s) ==
  IF reply[s].receipt = Absent THEN {}
  ELSE {[receipt |-> reply[s].receipt,
         command |-> IF work(s).op = "Commit" THEN work(s).command ELSE Absent]}

Respond(s) ==
  /\ phase[s] = "replying"
  /\ Goto(s, IF SnapshotDue(s) THEN "snapshotting" ELSE "idle")
  /\ calls' = [calls EXCEPT ![job[s]] = Absent]
  /\ job' = [job EXCEPT ![s] = Absent]
  /\ reply' = [reply EXCEPT ![s] = NoReply]
  /\ acked' = acked \cup Told(s)
  /\ ambiguous' = IF reply[s].outcome = "Ambiguous"
                  THEN ambiguous \cup {work(s).request} ELSE ambiguous
  /\ UNCHANGED <<durable, memory, failed, queue>>

-----------------------------------------------------------------------------
(* The end of a handle *)

Close(s) ==
  /\ phase' = [phase EXCEPT ![s] = "closed"]
  /\ memory' = [memory EXCEPT ![s] = Fresh]
  /\ failed' = failed \ {s}
  /\ queue' = [queue EXCEPT ![s] = <<>>]
  /\ job' = [job EXCEPT ![s] = Absent]
  /\ reply' = [reply EXCEPT ![s] = NoReply]
  /\ UNCHANGED <<durable, history>>

(* shutdown and Drop: the handle is not shared with a caller any more. *)
Shutdown(s) ==
  /\ phase[s] = "idle"
  /\ \A c \in Callers : calls[c] # Absent => calls[c].store # s
  /\ Close(s)
  /\ UNCHANGED calls

(* The process dies, or the worker thread does: its callers are gone or    *)
(* are told WorkerStopped, not knowing what became of their work.          *)
Crash(s) ==
  /\ phase[s] # "closed"
  /\ Close(s)
  /\ calls' = [c \in Callers |->
                 IF calls[c] # Absent /\ calls[c].store = s THEN Absent
                 ELSE calls[c]]

-----------------------------------------------------------------------------

WorkerStep(s) ==
  \/ Recv(s) \/ Refuse(s) \/ ReadReceipt(s) \/ QueryFails(s)
  \/ CommitLookup(s) \/ CommitTransaction(s) \/ CommitRollback(s)
  \/ TakeSnapshot(s) \/ AutoSnapshot(s) \/ Checkpoint(s)
  \/ CompactPersist(s) \/ CompactDelete(s)
  \/ Respond(s)

Next ==
  \/ \E s \in Stores : Open(s) \/ WorkerStep(s) \/ Shutdown(s) \/ Crash(s)
  \/ \E c \in Callers : Send(c)
  \/ \E c \in Callers, s \in Stores, w \in Work : Call(c, s, w)

Spec == Init /\ [][Next]_vars

(* The worker thread runs while it has something to do, and a caller in    *)
(* send goes on while the channel has room.  Which of several blocked      *)
(* callers gets the room is up to the scheduler, so it is not strong.      *)
(* Callers need not call and nobody need open, close or crash.             *)
Fairness ==
  /\ \A s \in Stores : WF_vars(WorkerStep(s))
  /\ \A c \in Callers : WF_vars(Send(c))

FairSpec == Spec /\ Fairness

-----------------------------------------------------------------------------
(* Properties *)

(* Types; a channel holds no more than its capacity, and the sequence of a *)
(* handle counts the revisions that its head hash commits to.              *)
QueuesBounded == \A s \in Stores : Len(queue[s]) <= Capacity

MemoryCounts == \A s \in Stores : memory[s].sequence = Len(memory[s].head)

TypeOK ==
  /\ revisions \in Seq(Revision)
  /\ receipts \in [RequestIds -> Row \cup {Absent}]
  /\ head \in HeadRow \cup {Absent}
  /\ snapshots \subseteq Snapshot
  /\ phase \in [Stores -> Phase]
  /\ memory \in [Stores -> State]
  /\ failed \subseteq Stores
  /\ queue \in [Stores -> Seq(Callers)]
  /\ job \in [Stores -> Callers \cup {Absent}]
  /\ reply \in [Stores -> Reply]
  /\ calls \in [Callers -> BlockedCall \cup {Absent}]
  /\ acked \subseteq [receipt : CommitReceipt, command : Commands \cup {Absent}]
  /\ ambiguous \subseteq RequestIds
  /\ QueuesBounded
  /\ MemoryCounts

(* A request is applied at most once and no revision is without a request: *)
(* receipts and revisions are one to one, however often callers retry      *)
(* through whichever handle, and whenever a worker dies.                   *)
ExactlyOnce ==
  /\ \A r \in RequestIds : receipts[r] # Absent =>
       /\ receipts[r].sequence \in 1..Len(revisions)
       /\ revisions[receipts[r].sequence].command = receipts[r].command
       /\ \A q \in RequestIds \ {r} : receipts[q] # Absent =>
            receipts[q].sequence # receipts[r].sequence
  /\ \A i \in 1..Len(revisions) :
       \E r \in RequestIds : receipts[r] # Absent /\ receipts[r].sequence = i

(* No returned receipt is lost or altered, and a request answered          *)
(* Ambiguous has committed: what a caller was told stays what the file     *)
(* says, across crashes and reopenings.                                    *)
AcknowledgedIsDurable ==
  /\ \A a \in acked :
       /\ receipt(a.receipt.request) = a.receipt
       /\ HashAt(a.receipt.sequence) = a.receipt.hash
       /\ a.command # Absent =>
            revisions[a.receipt.sequence].command = a.command
  /\ \A r \in ambiguous : receipts[r] # Absent

(* The in-memory state of an open handle is a prefix of the durable log    *)
(* and its project is the replay of that prefix: a handle that another     *)
(* one has overtaken is stale but never wrong.                             *)
MemoryFollowsLog ==
  \A s \in Stores : phase[s] # "closed" =>
    /\ memory[s].sequence \in 0..Len(revisions)
    /\ memory[s].head = HashAt(memory[s].sequence)
    /\ memory[s].project = Replay(memory[s].head)

(* Whatever crashed, open succeeds: the log replays, the newest snapshot   *)
(* is its own prefix's replay, receipts and head agree with the log.       *)
AlwaysRestorable == Restorable

(* Not only the newest: every stored snapshot is the replay of its prefix, *)
(* so that deleting the newer ones would do no harm.                       *)
SnapshotsReplay ==
  \A n \in snapshots :
    /\ n.sequence \in 1..Len(revisions)
    /\ n.hash = HashAt(n.sequence)
    /\ n.project = Replay(n.hash)

(* Compaction of one handle against the snapshots of another: the newest   *)
(* snapshot in the file never gets older.                                  *)
NewestSnapshotKept ==
  [][ \A n \in snapshots : \E m \in snapshots' : m.sequence >= n.sequence ]_vars

(* A handle whose snapshot failed commits nothing more until it is         *)
(* reopened, even work that was queued before the failure.                 *)
FailedHandleIsReadOnly ==
  [][ \A s \in failed :
        \/ phase'[s] = "closed"
        \/ s \in failed' /\ memory'[s] = memory[s]
    ]_vars

(* Whoever calls a handle gets an answer or learns that the worker died:   *)
(* the worker gets to whatever is in the channel, also after a failed      *)
(* snapshot, and a caller that is blocked in send because the channel is   *)
(* full waits for ever only if another caller's calls keep getting in      *)
(* before it and keep returning.                                           *)
CallsReturn ==
  \A c \in Callers :
    /\ Pending(c) ~> calls[c] = Absent
    /\ \/ []<>(calls[c] = Absent \/ Pending(c))
       \/ \E d \in Callers \ {c} : []<>Pending(d) /\ []<>(~ Pending(d))

(* The durable log that callers observe. *)
LogEntry(i) ==
  [request |-> CHOOSE r \in RequestIds :
                 receipts[r] # Absent /\ receipts[r].sequence = i,
   command |-> revisions[i].command]

Abstract == INSTANCE DurableLog WITH
  log <- [i \in 1..Len(revisions) |-> LogEntry(i)],
  answered <- {[request |-> a.receipt.request, sequence |-> a.receipt.sequence] :
                 a \in acked}

ImplementsDurableLog == Abstract!Spec

(* Documented (.superplan/changes/open-video-editor/specs/vertical-slice.md*)
(* line 73): after an ambiguous commit, retrying the same request returns  *)
(* its receipt (unless SQLite fails).  Refuted.                            *)
RetryReturnsReceipt ==
  \A s \in Stores :
    (/\ phase[s] = "replying"
     /\ work(s).op = "Commit"
     /\ work(s).request \in ambiguous
     /\ receipts[work(s).request].command = work(s).command)
      => reply[s].outcome \in {"Ok", "Sql"}
=============================================================================
