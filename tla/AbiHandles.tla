------------------------------ MODULE AbiHandles ------------------------------
(***************************************************************************)
(* native/c-abi: the handles of the C interface and the locks behind them. *)
(*                                                                         *)
(* One counter numbers cores, snapshots and diffs.  CORES maps a number to *)
(* an Arc of a locked core; SNAPSHOTS and DIFFS map one to immutable       *)
(* metadata and a 32-bit reference count.  Each table has a lock of its    *)
(* own.  stitch_core_snapshot numbers and inserts while it holds the       *)
(* core's lock; stitch_core_submit drops that lock before it numbers the   *)
(* diff, inserts it, and calls back; stitch_core_destroy waits for the     *)
(* core's lock while it holds that of CORES.  What a batch does to the     *)
(* project, and a lease call to its lease, is LeaseAbi's: here a batch is  *)
(* accepted, and the revision is the next one, or refused, and of a lease  *)
(* call only its locks and the number of a new lease are modelled.  A call *)
(* refused on entry is a stutter.                                          *)
(***************************************************************************)
EXTENDS Integers, FiniteSets

CONSTANTS
  Threads,
  Absent,        \* no entry, no call, no lock holder
  MaxHandle,     \* bounds NEXT_HANDLE, a u64
  MaxCore,       \* bounds the numbers of cores: cores are made first
  MaxRefs,       \* stands for u32::MAX
  MaxRevision,   \* bounds the batches a core accepts
  MaxEpoch       \* bounds the u64 cancellation epoch

ASSUME HandlesAssumption ==
  /\ IsFiniteSet(Threads)
  /\ Absent \notin Threads
  /\ MaxHandle \in Nat
  /\ MaxCore \in Nat
  /\ MaxRefs \in Nat \ {0}
  /\ MaxRevision \in Nat
  /\ MaxEpoch \in Nat

Handles == 1..MaxHandle
Revisions == 0..MaxRevision
Epochs == 0..MaxEpoch

VARIABLES
  next,        \* NEXT_HANDLE
  cores,       \* the numbers in CORES
  state,       \* the CoreState of every core ever made: its Arc may outlive
               \* its entry in CORES
  coresLock,   \* the thread that waits for a core with CORES locked
  coreLock,    \* the thread that holds the core's lock between two steps
  snapshots,   \* SNAPSHOTS
  diffs,       \* DIFFS
  call,        \* the call a thread is in, and where in it
  callback,    \* IN_CALLBACK, a thread local
  owned        \* history: the references a thread was given and still has

locks == <<coresLock, coreLock>>
tables == <<snapshots, diffs, owned>>
vars == <<next, cores, state, locks, tables, call, callback>>

-----------------------------------------------------------------------------
(* Types *)

CoreState == [owner : Threads, revision : Revisions, epoch : Epochs]

\* The metadata does not say which core it is of; the properties need it.
Snapshot == [core : Handles, revision : Revisions, epoch : Epochs]

Diff == [core : Handles, previous : Revisions, revision : Revisions,
         epoch : Epochs]

RefHandle(Value) == [value : Value, refs : 1..MaxRefs]

\* The lease calls by their critical sections: register, which numbers the
\* lease in its one section; those with one section (left), metadata_get,
\* discard and complete; those that look the core up again, acquire, submit
\* and retire.
LeaseCall == {"register", "lease", "lease_twice"}

\* Where a call is: before CORES is locked ("lookup") or the core is
\* ("core"), before the object is numbered ("number") or inserted ("insert").
Call ==
       [op : {"create"}, at : {"insert"}, handle : Handles, epoch : Epochs]
  \cup [op : {"destroy", "snapshot", "submit"} \cup LeaseCall,
        at : {"lookup", "core"}, core : Handles]
  \cup [op : {"set_epoch"}, at : {"lookup", "core"}, core : Handles,
        epoch : Epochs]
  \cup [op : {"snapshot"}, at : {"insert"}, core : Handles, handle : Handles]
  \cup [op : {"submit"}, at : {"number"}, diff : Diff]
  \cup [op : {"submit"}, at : {"insert"}, diff : Diff, handle : Handles]

\* Absent stands for None: it is no core, entry or call.
ASSUME AbsentIsNoValue ==
  /\ Absent \notin CoreState
  /\ Absent \notin RefHandle(Snapshot)
  /\ Absent \notin RefHandle(Diff)
  /\ Absent \notin Call

\* Values are of the code's types.
TypeOK ==
  /\ next \in 1..(MaxHandle + 1)
  /\ cores \subseteq Handles
  /\ state \in [Handles -> CoreState \cup {Absent}]
  /\ coresLock \in Threads \cup {Absent}
  /\ coreLock \in [Handles -> Threads \cup {Absent}]
  /\ snapshots \in [Handles -> RefHandle(Snapshot) \cup {Absent}]
  /\ diffs \in [Handles -> RefHandle(Diff) \cup {Absent}]
  /\ call \in [Threads -> Call \cup {Absent}]
  /\ callback \in [Threads -> BOOLEAN]
  /\ owned \in [Threads -> [Handles -> 0..MaxRefs]]

Init ==
  /\ next = 1
  /\ cores = {}
  /\ state = [h \in Handles |-> Absent]
  /\ coresLock = Absent
  /\ coreLock = [h \in Handles |-> Absent]
  /\ snapshots = [h \in Handles |-> Absent]
  /\ diffs = [h \in Handles |-> Absent]
  /\ call = [t \in Threads |-> Absent]
  /\ callback = [t \in Threads |-> FALSE]
  /\ owned = [t \in Threads |-> [h \in Handles |-> 0]]

-----------------------------------------------------------------------------
(* Calls, locks and numbers. *)

At(t, op, at) == call[t] # Absent /\ call[t].op = op /\ call[t].at = at

Begin(t, c) == call[t] = Absent /\ call' = [call EXCEPT ![t] = c]

GoTo(t, at) == call' = [call EXCEPT ![t].at = at]

Return(t) == call' = [call EXCEPT ![t] = Absent]

CoresFree == coresLock = Absent

\* Mutant: nobody takes the core's lock.
MutCoreFree(c) == TRUE

CoreFree(c) == coreLock[c] = Absent

\* The number next_handle returns; none once the bound is reached.
Fresh == {next} \cap Handles

Numbered == next' = next + 1

-----------------------------------------------------------------------------
(* Cores. *)

\* stitch_core_create, which a callback may call, too: the core has its
\* number before it is in CORES.
Create(t) ==
  /\ next <= MaxCore
  /\ \E h \in Fresh, e \in Epochs :
       Begin(t, [op |-> "create", at |-> "insert", handle |-> h, epoch |-> e])
  /\ Numbered
  /\ UNCHANGED <<cores, state, locks, tables, callback>>

Insert(t) ==
  /\ At(t, "create", "insert")
  /\ CoresFree
  /\ cores' = cores \cup {call[t].handle}
  /\ state' = [state EXCEPT ![call[t].handle] =
                 [owner |-> t, revision |-> 0, epoch |-> call[t].epoch]]
  /\ Return(t)
  /\ UNCHANGED <<next, locks, tables, callback>>

\* A call on a core: a callback may make a snapshot and read the metadata of
\* a lease (one section); the other calls are refused in it.
Enter(t) ==
  /\ \E c \in cores :
       \/ \E op \in {"snapshot", "lease"} :
            Begin(t, [op |-> op, at |-> "lookup", core |-> c])
       \/ /\ ~ callback[t]
          /\ \/ \E op \in {"destroy", "submit", "register", "lease_twice"} :
                  Begin(t, [op |-> op, at |-> "lookup", core |-> c])
             \/ \E e \in Epochs :
                  Begin(t, [op |-> "set_epoch", at |-> "lookup", core |-> c,
                            epoch |-> e])
  /\ UNCHANGED <<next, cores, state, locks, tables, callback>>

\* core() clones the Arc and unlocks CORES; destroy keeps CORES locked.
Lookup(t) ==
  /\ call[t] # Absent
  /\ call[t].at = "lookup"
  /\ CoresFree
  /\ IF call[t].core \notin cores
       THEN Return(t) /\ UNCHANGED coresLock
       ELSE /\ GoTo(t, "core")
            /\ coresLock' = IF call[t].op = "destroy" THEN t ELSE Absent
  /\ UNCHANGED <<next, cores, state, coreLock, tables, callback>>

\* stitch_core_destroy with both locks: the owner destroys a core without
\* leases; whether there are any is LeaseAbi's.
Destroy(t) ==
  /\ At(t, "destroy", "core")
  /\ CoreFree(call[t].core)
  /\ \/ UNCHANGED cores
     \/ /\ state[call[t].core].owner = t
        /\ cores' = cores \ {call[t].core}
  /\ coresLock' = Absent
  /\ Return(t)
  /\ UNCHANGED <<next, state, coreLock, tables, callback>>

\* stitch_core_set_epoch with the core locked.
SetEpoch(t) ==
  LET c == call[t].core IN
  /\ At(t, "set_epoch", "core")
  /\ CoreFree(c)
  /\ IF state[c].owner = t /\ call[t].epoch >= state[c].epoch
       THEN state' = [state EXCEPT ![c].epoch = call[t].epoch]
       ELSE UNCHANGED state
  /\ Return(t)
  /\ UNCHANGED <<next, cores, locks, tables, callback>>

-----------------------------------------------------------------------------
(* Leases. *)

\* stitch_frame_lease_register numbers the lease with the core locked, if the
\* context is current.
RegisterLease(t) ==
  /\ At(t, "register", "core")
  /\ CoreFree(call[t].core)
  /\ Fresh # {}
  /\ Numbered
  /\ Return(t)
  /\ UNCHANGED <<cores, state, locks, tables, callback>>

\* The critical section of a lease call: the call ends in it, refused or not,
\* or looks the core up for its last one.
LeaseSection(t) ==
  /\ \E op \in LeaseCall : At(t, op, "core")
  /\ CoreFree(call[t].core)
  /\ \/ Return(t)
     \/ /\ call[t].op = "lease_twice"
        /\ call' = [call EXCEPT ![t].op = "lease", ![t].at = "lookup"]
  /\ UNCHANGED <<next, cores, state, locks, tables, callback>>

-----------------------------------------------------------------------------
(* Snapshots and diffs. *)

\* A new entry holds one reference, the caller's.
Given(t, h) == owned' = [owned EXCEPT ![t][h] = @ + 1]

\* stitch_core_snapshot locks the core and numbers the snapshot ...
NumberSnapshot(t) ==
  LET c == call[t].core IN
  /\ At(t, "snapshot", "core")
  /\ CoreFree(c)
  /\ \E h \in Fresh :
       call' = [call EXCEPT ![t] = [op |-> "snapshot", at |-> "insert",
                                    core |-> c, handle |-> h]]
  /\ coreLock' = [coreLock EXCEPT ![c] = t]
  /\ Numbered
  /\ UNCHANGED <<cores, state, coresLock, tables, callback>>

\* ... and inserts the core's metadata before it unlocks the core.
InsertSnapshot(t) ==
  LET c == call[t].core
      h == call[t].handle
  IN
  /\ At(t, "snapshot", "insert")
  /\ snapshots' = [snapshots EXCEPT ![h] =
                     [value |-> [core |-> c, revision |-> state[c].revision,
                                 epoch |-> state[c].epoch],
                      refs |-> 1]]
  /\ Given(t, h)
  /\ coreLock' = [coreLock EXCEPT ![c] = Absent]
  /\ Return(t)
  /\ UNCHANGED <<next, cores, state, coresLock, diffs, callback>>

\* Mutant: the core stays locked until submit returns.
MutAfterBatch(t) == t

\* Who holds the core's lock once the batch is applied.
AfterBatch(t) == Absent

\* stitch_core_submit with the core locked.  A batch is refused for its owner,
\* epoch, expected revision or commands; else the diff says what it did.
ApplyBatch(t) ==
  LET c == call[t].core IN
  /\ At(t, "submit", "core")
  /\ CoreFree(c)
  /\ \/ Return(t) /\ UNCHANGED <<state, coreLock>>
     \/ /\ state[c].owner = t
        /\ state[c].revision < MaxRevision
        /\ state' = [state EXCEPT ![c].revision = @ + 1]
        /\ coreLock' = [coreLock EXCEPT ![c] = AfterBatch(t)]
        /\ call' = [call EXCEPT ![t] =
             [op |-> "submit", at |-> "number",
              diff |-> [core |-> c, previous |-> state[c].revision,
                        revision |-> state[c].revision + 1,
                        epoch |-> state[c].epoch]]]
  /\ UNCHANGED <<next, cores, coresLock, tables, callback>>

NumberDiff(t) ==
  /\ At(t, "submit", "number")
  /\ \E h \in Fresh :
       call' = [call EXCEPT ![t] = [op |-> "submit", at |-> "insert",
                                    diff |-> call[t].diff, handle |-> h]]
  /\ Numbered
  /\ UNCHANGED <<cores, state, locks, tables, callback>>

\* The diff is in its table and its number in *out_diff before the caller is
\* called back, if it is: the callback may use the caller's reference.
InsertDiff(t) ==
  /\ At(t, "submit", "insert")
  /\ diffs' = [diffs EXCEPT ![call[t].handle] =
                 [value |-> call[t].diff, refs |-> 1]]
  /\ Given(t, call[t].handle)
  /\ Return(t)
  /\ callback' \in {callback, [callback EXCEPT ![t] = TRUE]}
  /\ UNCHANGED <<next, cores, state, locks, snapshots>>

\* The callback returns, and CallbackGuard is dropped.
EndCallback(t) ==
  /\ callback[t]
  /\ call[t] = Absent
  /\ callback' = [callback EXCEPT ![t] = FALSE]
  /\ UNCHANGED <<next, cores, state, locks, tables, call>>

-----------------------------------------------------------------------------
(* References.  A thread retains and releases what it has references to; it *)
(* may hand one to another thread.                                          *)

\* Mutant: wrapping_add.
MutCheckedAdd(refs) == {(refs + 1) % (MaxRefs + 1)}

CheckedAdd(refs) == {refs + 1} \cap (1..MaxRefs)

\* retain: refused (InvalidArgument) when the count is at its limit.
Retained(entries, h) ==
  {[entries EXCEPT ![h].refs = refs] : refs \in CheckedAdd(entries[h].refs)}

\* release: the last reference removes the entry.
Released(entries, h) ==
  IF entries[h].refs = 1
    THEN [entries EXCEPT ![h] = Absent]
    ELSE [entries EXCEPT ![h].refs = @ - 1]

\* Another thread's call may change the table, not the entry, between a
\* thread's own two calls.
Has(t, entries, h) == call[t] = Absent /\ owned[t][h] > 0 /\ entries[h] # Absent

Retain(t) ==
  /\ \E h \in Handles :
       /\ owned' = [owned EXCEPT ![t][h] = @ + 1]
       /\ \/ /\ Has(t, snapshots, h)
             /\ snapshots' \in Retained(snapshots, h)
             /\ UNCHANGED diffs
          \/ /\ Has(t, diffs, h)
             /\ diffs' \in Retained(diffs, h)
             /\ UNCHANGED snapshots
  /\ UNCHANGED <<next, cores, state, locks, call, callback>>

Release(t) ==
  /\ \E h \in Handles :
       /\ owned' = [owned EXCEPT ![t][h] = @ - 1]
       /\ \/ /\ Has(t, snapshots, h)
             /\ snapshots' = Released(snapshots, h)
             /\ UNCHANGED diffs
          \/ /\ Has(t, diffs, h)
             /\ diffs' = Released(diffs, h)
             /\ UNCHANGED snapshots
  /\ UNCHANGED <<next, cores, state, locks, call, callback>>

\* The host passes a reference from one of its threads to another.
HandOver(t) ==
  /\ \E h \in Handles, u \in Threads \ {t} :
       /\ owned[t][h] > 0
       /\ owned' = [owned EXCEPT ![t][h] = @ - 1, ![u][h] = @ + 1]
  /\ UNCHANGED <<next, cores, state, locks, snapshots, diffs, call, callback>>

Next ==
  \E t \in Threads :
    \/ Create(t) \/ Insert(t) \/ Enter(t) \/ Lookup(t) \/ Destroy(t)
    \/ SetEpoch(t) \/ RegisterLease(t) \/ LeaseSection(t)
    \/ NumberSnapshot(t) \/ InsertSnapshot(t)
    \/ ApplyBatch(t) \/ NumberDiff(t) \/ InsertDiff(t) \/ EndCallback(t)
    \/ Retain(t) \/ Release(t) \/ HandOver(t)

Spec == Init /\ [][Next]_vars

-----------------------------------------------------------------------------
(* Properties *)

\* The references to h, one by one, when threads have as many as held says.
References(held, h) == UNION {{t} \X (1..held[t][h]) : t \in Threads}

Total(h) == Cardinality(References(owned, h))

\* While anyone has a reference to a snapshot or a diff its entry is there,
\* and counts exactly the references the program's threads have; when nobody
\* has one there is no entry.  So no thread's handle dies under it, however
\* many calls of others to retain and release (lib.rs:647-674) come between,
\* and nothing is left behind.
RefsMatchOwners ==
  \A h \in Handles :
    LET entries == {e \in {snapshots[h], diffs[h]} : e # Absent}
    IN  IF Total(h) = 0
          THEN entries = {}
          ELSE /\ snapshots[h] = Absent \/ diffs[h] = Absent
               /\ \A e \in entries : e.refs = Total(h)
               /\ entries # {}

\* A handle with a larger number shows a later state of its core: of two
\* snapshots, or of two diffs, the one numbered later is of no earlier
\* revision and epoch, and a snapshot numbered after a diff includes that
\* batch.  It rests on the snapshot being numbered and read with the core
\* locked (lib.rs:560-568) and on numbers never being used again.  A diff is
\* numbered after the core is unlocked (lib.rs:625-626), so a snapshot with
\* a smaller number may include its batch already.
LaterHandlesSeeLater ==
  \A g, h \in Handles : g < h =>
    /\ snapshots[g] # Absent /\ snapshots[h] # Absent
         /\ snapshots[g].value.core = snapshots[h].value.core =>
       /\ snapshots[g].value.revision <= snapshots[h].value.revision
       /\ snapshots[g].value.epoch <= snapshots[h].value.epoch
    /\ diffs[g] # Absent /\ diffs[h] # Absent
         /\ diffs[g].value.core = diffs[h].value.core =>
       /\ diffs[g].value.revision <= diffs[h].value.previous
       /\ diffs[g].value.epoch <= diffs[h].value.epoch
    /\ diffs[g] # Absent /\ snapshots[h] # Absent
         /\ diffs[g].value.core = snapshots[h].value.core =>
       /\ diffs[g].value.revision <= snapshots[h].value.revision
       /\ diffs[g].value.epoch <= snapshots[h].value.epoch

\* The threads that hold what thread t is waiting for.
Blockers(t) ==
  IF call[t] = Absent THEN {}
  ELSE CASE call[t].at = "lookup" \/ call[t].op = "create" ->
              {coresLock} \ {Absent}
         [] call[t].at = "core" -> {coreLock[call[t].core]} \ {Absent}
         [] OTHER -> {}

\* No set of threads waits only for each other's locks, a thread that calls
\* from its own callback included: destroy waits for a core with the table
\* locked, while a snapshot holds the core and never waits for the table.
NobodyDeadlocked ==
  \A waiting \in (SUBSET Threads) \ {{}} :
    \E t \in waiting : Blockers(t) \cap waiting = {}
=============================================================================
