-------------------------- MODULE AbiHandlesProofs --------------------------
(***************************************************************************)
(* Theorems about AbiHandles, for every value of its constants: any finite *)
(* number of threads, any number of cores, snapshots and diffs, and any    *)
(* limit of the reference counts.                                          *)
(***************************************************************************)
EXTENDS AbiHandles, FiniteSetTheorems, TLAPS

-----------------------------------------------------------------------------
(* The inductive invariant. *)

\* The thread has a number and is about to insert the object.
Inserting(t) == call[t] # Absent /\ call[t].at = "insert"

\* The thread numbers a snapshot with the core locked.
Snapshotting(t) == At(t, "snapshot", "insert")

\* The thread has applied a batch and has not inserted its diff.
Publishing(t) ==
  call[t] # Absent /\ call[t].op = "submit" /\ call[t].at \in {"number", "insert"}

\* Nothing has the number h yet.
Unused(h) ==
  /\ state[h] = Absent
  /\ snapshots[h] = Absent
  /\ diffs[h] = Absent
  /\ \A t \in Threads : owned[t][h] = 0

\* Numbers that were not returned, and those that calls have and have not
\* inserted, are unused; no two calls have the same one.
NumbersUnused ==
  /\ \A h \in Handles : h >= next => Unused(h)
  /\ \A t \in Threads :
       Inserting(t) => call[t].handle < next /\ Unused(call[t].handle)
  /\ \A t, u \in Threads :
       Inserting(t) /\ Inserting(u) /\ call[t].handle = call[u].handle => t = u

\* A core that is in the table, or that a call works on, has a state.
CoresMade ==
  /\ \A c \in cores : state[c] # Absent
  /\ \A t \in Threads :
       call[t] # Absent /\ (call[t].at \in {"lookup", "core"} \/ Snapshotting(t)) =>
         state[call[t].core] # Absent

\* CORES is locked by a destroy that waits for its core, a core by a snapshot
\* that has its number.
LockHolders ==
  /\ \A t \in Threads : coresLock = t => At(t, "destroy", "core")
  /\ \A t \in Threads, c \in Handles :
       coreLock[c] = t <=> Snapshotting(t) /\ call[t].core = c

\* What an entry shows of a core is not ahead of it.
Behind(value) ==
  /\ state[value.core] # Absent
  /\ value.revision <= state[value.core].revision
  /\ value.epoch <= state[value.core].epoch

EntriesBehind ==
  \A h \in Handles :
    /\ snapshots[h] # Absent => Behind(snapshots[h].value)
    /\ diffs[h] # Absent => Behind(diffs[h].value)

\* A diff that is not inserted is its core's last one: the owner makes one at
\* a time.  Snapshots numbered after it, if any, show its batch.
DiffsPending ==
  \A t \in Threads : Publishing(t) =>
    LET d == call[t].diff IN
    /\ Behind(d)
    /\ state[d.core].owner = t
    /\ \A h \in Handles :
         diffs[h] # Absent /\ diffs[h].value.core = d.core =>
           /\ diffs[h].value.revision <= d.previous
           /\ diffs[h].value.epoch <= d.epoch
           /\ call[t].at = "insert" => h < call[t].handle
    /\ call[t].at = "insert" =>
         \A h \in Handles :
           snapshots[h] # Absent /\ snapshots[h].value.core = d.core
             /\ call[t].handle < h =>
             /\ d.revision <= snapshots[h].value.revision
             /\ d.epoch <= snapshots[h].value.epoch

\* A snapshot that is not inserted has the last number of its core's: the
\* core is locked.
SnapshotsPending ==
  \A t \in Threads, h \in Handles :
    Snapshotting(t) /\ snapshots[h] # Absent
      /\ snapshots[h].value.core = call[t].core => h < call[t].handle

Inv ==
  /\ TypeOK /\ NumbersUnused /\ CoresMade /\ LockHolders
  /\ EntriesBehind /\ DiffsPending /\ SnapshotsPending
  /\ RefsMatchOwners /\ LaterHandlesSeeLater

-----------------------------------------------------------------------------
(* Calls *)

(* What a call carries depends on the operation and on where it is. *)
LEMMA CallFields ==
  ASSUME NEW c \in Call
  PROVE  /\ c.op \in {"create", "destroy", "snapshot", "submit", "set_epoch"}
                    \cup LeaseCall
         /\ c.at \in {"lookup", "core", "number", "insert"}
         /\ c.op = "create" <=> c.at = "insert" /\ c.op \notin {"snapshot", "submit"}
         /\ c.op = "create" => c.epoch \in Epochs
         /\ c.op = "set_epoch" => c.epoch \in Epochs
         /\ c.at \in {"lookup", "core"} => c.core \in Handles
         /\ c.op = "snapshot" => c.core \in Handles
         /\ c.op = "snapshot" => c.at # "number"
         /\ c.at = "number" => c.op = "submit"
         /\ c.at = "insert" => c.handle \in Handles
         /\ c.op = "submit" /\ c.at \in {"number", "insert"} => c.diff \in Diff
  BY DEF Call, LeaseCall

(* A call that found its core goes on to wait for it. *)
LEMMA CallGoesOn ==
  ASSUME NEW c \in Call, c.at = "lookup"
  PROVE  [c EXCEPT !.at = "core"] \in Call
  BY DEF Call

(* A lease call looks its core up for its last section. *)
LEMMA LastSection ==
  ASSUME NEW c \in Call, c.op \in LeaseCall
  PROVE  [c EXCEPT !.op = "lease", !.at = "lookup"] \in Call
  BY DEF Call, LeaseCall

-----------------------------------------------------------------------------
(* Counting references *)

Held == [Threads -> [Handles -> Nat]]

LEMMA ReferencesFinite ==
  ASSUME NEW held \in Held, NEW h \in Handles
  PROVE  /\ IsFiniteSet(References(held, h))
         /\ Cardinality(References(held, h)) \in Nat
<1> DEFINE Counted(t) == {t} \X (1..held[t][h])
<1>1. \A S \in {Counted(t) : t \in Threads} : IsFiniteSet(S)
  <2>1. SUFFICES ASSUME NEW t \in Threads
                 PROVE  IsFiniteSet({t} \X (1..held[t][h]))
    OBVIOUS
  <2>2. held[t][h] \in Nat
    BY DEF Held
  <2>3. IsFiniteSet(1..held[t][h])
    BY <2>2, FS_Interval
  <2>4. QED
    BY <2>3, FS_Singleton, FS_Product
<1>2. IsFiniteSet({Counted(t) : t \in Threads})
  <2> DEFINE counted == [t \in Threads |-> Counted(t)]
  <2>1. counted \in Surjection(Threads, {Counted(t) : t \in Threads})
    BY DEF Surjection
  <2> HIDE DEF counted
  <2>2. QED
    BY <2>1, FS_Surjection, HandlesAssumption DEF HandlesAssumption
<1>3. IsFiniteSet(UNION {Counted(t) : t \in Threads})
  BY <1>1, <1>2, FS_UNION
<1>4. QED
  BY <1>3, FS_CardinalityType DEF References

(* Nobody has a reference exactly when there are none. *)
LEMMA NoReferences ==
  ASSUME NEW held \in Held, NEW h \in Handles
  PROVE  Cardinality(References(held, h)) = 0 <=> \A t \in Threads : held[t][h] = 0
<1>1. References(held, h) = {} <=> \A t \in Threads : held[t][h] = 0
  <2>1. ASSUME NEW t \in Threads, held[t][h] # 0
        PROVE  References(held, h) # {}
    <3>1. held[t][h] \in Nat /\ 1 \in 1..held[t][h]
      BY <2>1 DEF Held
    <3>2. <<t, 1>> \in {t} \X (1..held[t][h])
      BY <3>1
    <3>3. QED
      BY <3>2 DEF References
  <2>2. ASSUME NEW r \in References(held, h)
        PROVE  \E t \in Threads : held[t][h] # 0
    <3>1. PICK t \in Threads : r \in {t} \X (1..held[t][h])
      BY <2>2 DEF References
    <3>2. held[t][h] \in Nat /\ 1..held[t][h] # {}
      BY <3>1 DEF Held
    <3>3. QED
      BY <3>2
  <2>3. QED
    BY <2>1, <2>2
<1>2. QED
  BY <1>1, ReferencesFinite, FS_EmptySet

(* One more reference of one thread is one more reference. *)
LEMMA OneMore ==
  ASSUME NEW held \in Held, NEW h \in Handles, NEW t \in Threads
  PROVE  Cardinality(References([held EXCEPT ![t][h] = @ + 1], h))
           = Cardinality(References(held, h)) + 1
<1> DEFINE more == [held EXCEPT ![t][h] = @ + 1]
           r    == <<t, held[t][h] + 1>>
<1>1. /\ held[t][h] \in Nat
      /\ more[t][h] = held[t][h] + 1
      /\ \A u \in Threads \ {t} : more[u][h] = held[u][h]
  BY DEF Held
<1> HIDE DEF more
<1>2. References(more, h) = References(held, h) \cup {r}
  <2>1. ASSUME NEW u \in Threads \ {t}
        PROVE  {u} \X (1..more[u][h]) = {u} \X (1..held[u][h])
    BY <1>1
  <2>2. {t} \X (1..more[t][h]) = ({t} \X (1..held[t][h])) \cup {r}
    <3>1. 1..more[t][h] = (1..held[t][h]) \cup {held[t][h] + 1}
      BY <1>1
    <3>2. QED
      BY <3>1
  <2>3. QED
    BY <2>1, <2>2 DEF References
<1>3. r \notin References(held, h)
  <2>1. SUFFICES ASSUME NEW u \in Threads, r \in {u} \X (1..held[u][h])
                 PROVE  FALSE
    BY DEF References
  <2>2. u = t /\ held[t][h] + 1 \in 1..held[t][h]
    BY <2>1
  <2>3. QED
    BY <1>1, <2>2
<1>4. QED
  BY <1>2, <1>3, ReferencesFinite, FS_AddElement DEF more

(* The references to other numbers are not affected. *)
LEMMA OthersSame ==
  ASSUME NEW held \in Held, NEW more \in Held, NEW h \in Handles,
         \A t \in Threads : more[t][h] = held[t][h]
  PROVE  References(more, h) = References(held, h)
<1>1. {{t} \X (1..more[t][h]) : t \in Threads}
        = {{t} \X (1..held[t][h]) : t \in Threads}
  OBVIOUS
<1>2. QED
  BY <1>1 DEF References

(* One reference less of one thread is one reference less. *)
LEMMA OneLess ==
  ASSUME NEW held \in Held, NEW h \in Handles, NEW t \in Threads, held[t][h] > 0
  PROVE  /\ [held EXCEPT ![t][h] = @ - 1] \in Held
         /\ Cardinality(References([held EXCEPT ![t][h] = @ - 1], h))
              = Cardinality(References(held, h)) - 1
<1> DEFINE less == [held EXCEPT ![t][h] = @ - 1]
<1>1. less \in Held
  BY DEF Held
<1>2. [less EXCEPT ![t][h] = @ + 1] = held
  <2> DEFINE again == [less EXCEPT ![t][h] = @ + 1]
  <2>1. again \in Held
    BY <1>1 DEF Held
  <2>2. ASSUME NEW u \in Threads, NEW g \in Handles
        PROVE  again[u][g] = held[u][g]
    BY DEF Held
  <2> HIDE DEF again
  <2>3. \A u \in Threads : again[u] = held[u]
    BY <2>1, <2>2 DEF Held
  <2>4. again = held
    BY <2>1, <2>3 DEF Held
  <2>5. QED
    BY <2>4 DEF again
<1>3. Cardinality(References(held, h)) = Cardinality(References(less, h)) + 1
  BY <1>1, <1>2, OneMore
<1>4. QED
  BY <1>1, <1>3, ReferencesFinite

(* No thread has more references than there are. *)
LEMMA PartOfTotal ==
  ASSUME NEW held \in Held, NEW h \in Handles, NEW t \in Threads
  PROVE  held[t][h] <= Cardinality(References(held, h))
<1>1. held[t][h] \in Nat
  BY DEF Held
<1>2. {t} \X (1..held[t][h]) \subseteq References(held, h)
  BY DEF References
<1>3. Cardinality({t} \X (1..held[t][h])) = held[t][h]
  <2> PICK n \in Nat : n = held[t][h]
    BY <1>1
  <2>1. IsFiniteSet(1..n) /\ Cardinality(1..n) = n
    <3>1. 1 \in Int /\ n \in Int
      OBVIOUS
    <3>2. IsFiniteSet(1..n) /\ Cardinality(1..n) = IF 1 > n THEN 0 ELSE n - 1 + 1
      BY <3>1, FS_Interval, Zenon
    <3>3. QED
      BY <3>2
  <2>2. IsFiniteSet({t}) /\ Cardinality({t}) = 1
    BY FS_Singleton
  <2>3. Cardinality({t} \X (1..n)) = Cardinality({t}) * Cardinality(1..n)
    BY <2>1, <2>2, FS_Product
  <2>4. Cardinality({t} \X (1..n)) = n
    BY <2>1, <2>2, <2>3
  <2>5. QED
    BY <2>4
<1>4. QED
  BY <1>2, <1>3, ReferencesFinite, FS_Subset

-----------------------------------------------------------------------------
(* Entries and counts *)

\* RefsMatchOwners of one number, without the set of its entries.
CountIs(h, total) ==
  /\ snapshots[h] # Absent => diffs[h] = Absent /\ snapshots[h].refs = total
  /\ diffs[h] # Absent => diffs[h].refs = total
  /\ total # 0 => snapshots[h] # Absent \/ diffs[h] # Absent

LEMMA RefsMatchOneByOne ==
  ASSUME TypeOK
  PROVE  RefsMatchOwners <=> \A h \in Handles : CountIs(h, Total(h))
<1> DEFINE Entries(h) == {e \in {snapshots[h], diffs[h]} : e # Absent}
           Match(h) == IF Total(h) = 0
                         THEN Entries(h) = {}
                         ELSE /\ snapshots[h] = Absent \/ diffs[h] = Absent
                              /\ \A e \in Entries(h) : e.refs = Total(h)
                              /\ Entries(h) # {}
<1>1. ASSUME NEW h \in Handles PROVE Match(h) <=> CountIs(h, Total(h))
  <2>1. /\ snapshots[h] # Absent => snapshots[h].refs \in 1..MaxRefs
        /\ diffs[h] # Absent => diffs[h].refs \in 1..MaxRefs
    BY DEF TypeOK, RefHandle
  <2>2. CASE Total(h) = 0
    BY <2>1, <2>2 DEF CountIs
  <2>3. CASE Total(h) # 0
    BY <2>1, <2>3 DEF CountIs
  <2>4. QED
    BY <2>2, <2>3
<1>2. QED
  BY <1>1 DEF RefsMatchOwners

LEMMA RefsMatchOneByOneNext ==
  ASSUME TypeOK', \A h \in Handles : CountIs(h, Total(h))'
  PROVE  RefsMatchOwners'
<1>1. SUFFICES ASSUME NEW h \in Handles
               PROVE  LET entries == {e \in {snapshots'[h], diffs'[h]} : e # Absent}
                      IN  IF Total(h)' = 0
                            THEN entries = {}
                            ELSE /\ snapshots'[h] = Absent \/ diffs'[h] = Absent
                                 /\ \A e \in entries : e.refs = Total(h)'
                                 /\ entries # {}
  BY DEF RefsMatchOwners
<1>2. /\ snapshots'[h] # Absent => snapshots'[h].refs \in 1..MaxRefs
      /\ diffs'[h] # Absent => diffs'[h].refs \in 1..MaxRefs
  BY DEF TypeOK, RefHandle
<1>3. /\ snapshots'[h] # Absent => diffs'[h] = Absent /\ snapshots'[h].refs = Total(h)'
      /\ diffs'[h] # Absent => diffs'[h].refs = Total(h)'
      /\ Total(h)' # 0 => snapshots'[h] # Absent \/ diffs'[h] # Absent
  BY DEF CountIs
<1>4. CASE Total(h)' = 0
  BY <1>2, <1>3, <1>4
<1>5. CASE Total(h)' # 0
  BY <1>3, <1>5
<1>6. QED
  BY <1>4, <1>5

(* A count is what the threads have, and at most the limit. *)
LEMMA Counts ==
  ASSUME TypeOK, RefsMatchOwners, NEW h \in Handles
  PROVE  /\ owned \in Held
         /\ Total(h) \in 0..MaxRefs
         /\ CountIs(h, Total(h))
         /\ \A t \in Threads : owned[t][h] \in Nat /\ owned[t][h] <= Total(h)
         /\ Total(h) = 0 <=> \A t \in Threads : owned[t][h] = 0
<1>1. owned \in Held
  BY DEF TypeOK, Held
<1>2. Total(h) \in Nat
  BY <1>1, ReferencesFinite DEF Total
<1>3. CountIs(h, Total(h))
  BY RefsMatchOneByOne
<1>4. Total(h) <= MaxRefs
  <2>1. /\ snapshots[h] # Absent => snapshots[h].refs \in 1..MaxRefs
        /\ diffs[h] # Absent => diffs[h].refs \in 1..MaxRefs
    BY DEF TypeOK, RefHandle
  <2>2. MaxRefs \in Nat
    BY HandlesAssumption DEF HandlesAssumption
  <2>3. QED
    BY <1>2, <1>3, <2>1, <2>2 DEF CountIs
<1>5. \A t \in Threads : owned[t][h] \in Nat /\ owned[t][h] <= Total(h)
  BY <1>1, PartOfTotal DEF Total, Held
<1>6. Total(h) = 0 <=> \A t \in Threads : owned[t][h] = 0
  BY <1>1, NoReferences DEF Total
<1>7. QED
  BY <1>1, <1>2, <1>3, <1>4, <1>5, <1>6, HandlesAssumption DEF HandlesAssumption

-----------------------------------------------------------------------------
(* Types *)

\* The disjuncts of Next.
Steps(t) ==
  \/ Create(t) \/ Insert(t) \/ Enter(t) \/ Lookup(t) \/ Destroy(t)
  \/ SetEpoch(t) \/ RegisterLease(t) \/ LeaseSection(t)
  \/ NumberSnapshot(t) \/ InsertSnapshot(t)
  \/ ApplyBatch(t) \/ NumberDiff(t) \/ InsertDiff(t) \/ EndCallback(t)
  \/ Retain(t) \/ Release(t) \/ HandOver(t)

(* What a waiting call finds: a core, of which the state is there. *)
LEMMA CallsCore ==
  ASSUME TypeOK, CoresMade, NEW t \in Threads, call[t] # Absent,
         call[t].at \in {"lookup", "core"} \/ Snapshotting(t)
  PROVE  /\ call[t] \in Call
         /\ call[t].core \in Handles
         /\ state[call[t].core] \in CoreState
<1>1. call[t] \in Call
  BY DEF TypeOK
<1>2. call[t].core \in Handles
  BY <1>1, CallFields DEF Snapshotting, At
<1>3. QED
  BY <1>1, <1>2 DEF TypeOK, CoresMade

(* A reference more or less is within the limit. *)
LEMMA OwnedType ==
  ASSUME TypeOK, NEW t \in Threads, NEW h \in Handles, NEW n \in 0..MaxRefs
  PROVE  [owned EXCEPT ![t][h] = n] \in [Threads -> [Handles -> 0..MaxRefs]]
  BY DEF TypeOK

(* An entry whose count changed within its limit. *)
LEMMA EntryChanged ==
  ASSUME NEW Value, Absent \notin RefHandle(Value),
         NEW entries \in [Handles -> RefHandle(Value) \cup {Absent}],
         NEW h \in Handles, entries[h] # Absent,
         NEW refs \in 1..MaxRefs, NEW new, new = [entries EXCEPT ![h].refs = refs]
  PROVE  /\ new \in [Handles -> RefHandle(Value) \cup {Absent}]
         /\ new[h] # Absent
         /\ new[h].refs = refs
         /\ new[h].value = entries[h].value
         /\ \A g \in Handles \ {h} : new[g] = entries[g]
<1> DEFINE entry == [entries[h] EXCEPT !.refs = refs]
<1>1. entry \in RefHandle(Value) /\ entry.refs = refs /\ entry.value = entries[h].value
  BY DEF RefHandle
<1>2. entry # Absent
  BY <1>1
<1>3. new = [entries EXCEPT ![h] = entry]
  OBVIOUS
<1> HIDE DEF entry
<1>4. QED
  BY <1>1, <1>2, <1>3

LEMMA EntryRetained ==
  ASSUME NEW Value, Absent \notin RefHandle(Value),
         NEW entries \in [Handles -> RefHandle(Value) \cup {Absent}],
         NEW h \in Handles, entries[h] # Absent,
         NEW new \in Retained(entries, h)
  PROVE  /\ new \in [Handles -> RefHandle(Value) \cup {Absent}]
         /\ new[h] # Absent
         /\ new[h].refs = entries[h].refs + 1
         /\ new[h].refs <= MaxRefs
         /\ new[h].value = entries[h].value
         /\ \A g \in Handles \ {h} : new[g] = entries[g]
<1>1. PICK refs \in 1..MaxRefs :
        refs = entries[h].refs + 1 /\ new = [entries EXCEPT ![h].refs = refs]
  BY DEF Retained, CheckedAdd
<1>2. MaxRefs \in Nat
  BY HandlesAssumption DEF HandlesAssumption
<1>3. QED
  BY <1>1, <1>2, EntryChanged

LEMMA EntryReleased ==
  ASSUME NEW Value, Absent \notin RefHandle(Value),
         NEW entries \in [Handles -> RefHandle(Value) \cup {Absent}],
         NEW h \in Handles, entries[h] # Absent,
         NEW new, new = Released(entries, h)
  PROVE  /\ new \in [Handles -> RefHandle(Value) \cup {Absent}]
         /\ IF entries[h].refs = 1
              THEN new[h] = Absent
              ELSE /\ new[h] # Absent
                   /\ new[h].refs = entries[h].refs - 1
                   /\ new[h].value = entries[h].value
         /\ \A g \in Handles \ {h} : new[g] = entries[g]
<1>1. entries[h] \in RefHandle(Value) /\ entries[h].refs \in 1..MaxRefs
  BY DEF RefHandle
<1>2. CASE entries[h].refs = 1
  BY <1>2 DEF Released
<1>3. CASE entries[h].refs # 1
  <2>1. PICK refs \in 1..MaxRefs : refs = entries[h].refs - 1
    BY <1>1, <1>3, HandlesAssumption DEF HandlesAssumption
  <2>2. new = [entries EXCEPT ![h].refs = refs]
    BY <1>3, <2>1 DEF Released
  <2>3. QED
    BY <1>3, <2>1, <2>2, EntryChanged
<1>4. QED
  BY <1>2, <1>3

(* stitch_core_snapshot inserts an entry, with one reference, under a number *)
(* that nothing has.                                                         *)
LEMMA SnapshotInserted ==
  ASSUME TypeOK, NumbersUnused, CoresMade, NEW t \in Threads, InsertSnapshot(t)
  PROVE  \E h \in Handles, c \in Handles, entry \in RefHandle(Snapshot) :
           /\ Snapshotting(t) /\ call[t].handle = h /\ call[t].core = c
           /\ Unused(h) /\ h < next
           /\ entry # Absent
           /\ entry.refs = 1
           /\ entry.value = [core |-> c, revision |-> state[c].revision,
                             epoch |-> state[c].epoch]
           /\ state[c] \in CoreState /\ state[c] # Absent
           /\ snapshots' = [snapshots EXCEPT ![h] = entry]
           /\ owned' = [owned EXCEPT ![t][h] = @ + 1]
           /\ diffs' = diffs
<1> DEFINE c == call[t].core
           h == call[t].handle
           entry == [value |-> [core |-> c, revision |-> state[c].revision,
                                epoch |-> state[c].epoch],
                     refs |-> 1]
<1>1. call[t] # Absent /\ call[t].at = "insert" /\ Snapshotting(t)
  BY DEF InsertSnapshot, At, Snapshotting
<1>2. call[t] \in Call /\ c \in Handles /\ state[c] \in CoreState
  BY <1>1, CallsCore
<1>3. h \in Handles
  BY <1>1, <1>2, CallFields
<1>4. Unused(h) /\ h < next
  BY <1>1 DEF NumbersUnused, Inserting
<1>5. entry \in RefHandle(Snapshot)
  BY <1>2, HandlesAssumption DEF RefHandle, Snapshot, CoreState, HandlesAssumption
<1>6. entry # Absent /\ state[c] # Absent
  BY <1>2, <1>5, AbsentIsNoValue DEF AbsentIsNoValue
<1>7. /\ snapshots' = [snapshots EXCEPT ![h] = entry]
      /\ owned' = [owned EXCEPT ![t][h] = @ + 1]
      /\ diffs' = diffs
  BY DEF InsertSnapshot, Given
<1>8. QED
  BY <1>1, <1>2, <1>3, <1>4, <1>5, <1>6, <1>7

(* stitch_core_submit does the same for the diff of its batch. *)
LEMMA DiffInserted ==
  ASSUME TypeOK, NumbersUnused, NEW t \in Threads, InsertDiff(t)
  PROVE  \E h \in Handles, entry \in RefHandle(Diff) :
           /\ Publishing(t) /\ call[t].at = "insert" /\ call[t].handle = h
           /\ Unused(h) /\ h < next
           /\ entry # Absent
           /\ entry.refs = 1
           /\ entry.value = call[t].diff
           /\ call[t].diff \in Diff
           /\ diffs' = [diffs EXCEPT ![h] = entry]
           /\ owned' = [owned EXCEPT ![t][h] = @ + 1]
           /\ snapshots' = snapshots
<1> DEFINE h == call[t].handle
           entry == [value |-> call[t].diff, refs |-> 1]
<1>1. /\ call[t] # Absent /\ call[t].op = "submit" /\ call[t].at = "insert"
      /\ call[t] \in Call
  BY DEF InsertDiff, At, TypeOK
<1>2. h \in Handles /\ call[t].diff \in Diff
  BY <1>1, CallFields
<1>3. Unused(h) /\ h < next
  BY <1>1 DEF NumbersUnused, Inserting
<1>4. entry \in RefHandle(Diff)
  BY <1>2, HandlesAssumption DEF RefHandle, HandlesAssumption
<1>5. entry # Absent
  BY <1>4, AbsentIsNoValue DEF AbsentIsNoValue
<1>6. /\ diffs' = [diffs EXCEPT ![h] = entry]
      /\ owned' = [owned EXCEPT ![t][h] = @ + 1]
      /\ snapshots' = snapshots
  BY DEF InsertDiff, Given
<1>7. QED
  BY <1>1, <1>2, <1>3, <1>4, <1>5, <1>6 DEF Publishing

(* A lease call leaves its last section, or goes on to look its core up. *)
LEMMA LeaseEffect ==
  ASSUME TypeOK, NEW t \in Threads, RegisterLease(t) \/ LeaseSection(t)
  PROVE  /\ call[t] \in Call /\ call[t] # Absent
         /\ call[t].op \in LeaseCall /\ call[t].at = "core"
         /\ \A u \in Threads \ {t} : call'[u] = call[u]
         /\ \/ call'[t] = Absent
            \/ /\ next' = next
               /\ call'[t] \in Call /\ call'[t].op = "lease"
               /\ call'[t].at = "lookup" /\ call'[t].core = call[t].core
<1>1. CASE RegisterLease(t)
  BY <1>1 DEF RegisterLease, At, Return, LeaseCall, TypeOK
<1>2. CASE LeaseSection(t)
  <2>1. PICK op \in LeaseCall : At(t, op, "core")
    BY <1>2 DEF LeaseSection
  <2>2. /\ call[t] \in Call /\ call[t] # Absent
        /\ call[t].op \in LeaseCall /\ call[t].at = "core"
    BY <2>1 DEF At, TypeOK
  <2> DEFINE c == [call[t] EXCEPT !.op = "lease", !.at = "lookup"]
  <2>3. c \in Call /\ c.op = "lease" /\ c.at = "lookup" /\ c.core = call[t].core
    BY <2>2, LastSection DEF Call, LeaseCall
  <2> HIDE DEF c
  <2>4. \/ call' = [call EXCEPT ![t] = Absent]
        \/ call' = [call EXCEPT ![t] = c]
    BY <1>2 DEF LeaseSection, Return, TypeOK, c
  <2>5. next' = next
    BY <1>2 DEF LeaseSection
  <2>6. QED
    BY <2>2, <2>3, <2>4, <2>5 DEF TypeOK
<1>3. QED
  BY <1>1, <1>2

LEMMA TypeStep ==
  ASSUME TypeOK, NumbersUnused, CoresMade, RefsMatchOwners,
         NEW t \in Threads, Steps(t)
  PROVE  TypeOK'
<1> USE HandlesAssumption DEF HandlesAssumption
<1>1. CASE Create(t)
  <2>1. PICK h \in Fresh, e \in Epochs :
          call' = [call EXCEPT ![t] = [op |-> "create", at |-> "insert",
                                       handle |-> h, epoch |-> e]]
    BY <1>1 DEF Create, Begin
  <2>2. [op |-> "create", at |-> "insert", handle |-> h, epoch |-> e] \in Call
    BY DEF Call, Fresh
  <2>3. next' \in 1..(MaxHandle + 1)
    BY <1>1 DEF Create, Numbered, Fresh, Handles, TypeOK
  <2>4. QED
    BY <1>1, <2>1, <2>2, <2>3 DEF Create, TypeOK, locks, tables
<1>2. CASE Insert(t)
  <2>1. call[t] \in Call /\ call[t].op = "create"
    BY <1>2 DEF Insert, At, TypeOK
  <2>2. call[t].handle \in Handles /\ call[t].epoch \in Epochs
    BY <2>1, CallFields
  <2>3. [owner |-> t, revision |-> 0, epoch |-> call[t].epoch] \in CoreState
    BY <2>2 DEF CoreState, Revisions
  <2>4. QED
    BY <1>2, <2>2, <2>3 DEF Insert, Return, TypeOK, locks, tables
<1>3. CASE Enter(t)
  <2>1. call' \in [Threads -> Call \cup {Absent}]
    BY <1>3 DEF Enter, Begin, Call, LeaseCall, TypeOK
  <2>2. QED
    BY <1>3, <2>1 DEF Enter, TypeOK, locks, tables
<1>4. CASE Lookup(t)
  <2>1. call[t] \in Call /\ call[t].at = "lookup"
    BY <1>4 DEF Lookup, TypeOK
  <2>2. [call[t] EXCEPT !.at = "core"] \in Call
    BY <2>1, CallGoesOn
  <2>3. call' \in [Threads -> Call \cup {Absent}]
    BY <1>4, <2>2 DEF Lookup, GoTo, Return, TypeOK
  <2>4. coresLock' \in Threads \cup {Absent}
    BY <1>4 DEF Lookup, TypeOK
  <2>5. QED
    BY <1>4, <2>3, <2>4 DEF Lookup, TypeOK, tables
<1>5. CASE Destroy(t)
  BY <1>5 DEF Destroy, Return, TypeOK, tables
<1>6. CASE SetEpoch(t)
  <2>1. call[t] # Absent /\ call[t].at = "core" /\ call[t].op = "set_epoch"
    BY <1>6 DEF SetEpoch, At
  <2>2. /\ call[t] \in Call /\ call[t].core \in Handles
        /\ state[call[t].core] \in CoreState
    BY <2>1, CallsCore
  <2>3. call[t].epoch \in Epochs
    BY <2>1, <2>2, CallFields
  <2>4. state' \in [Handles -> CoreState \cup {Absent}]
    <3>1. \/ state' = state
          \/ state' = [state EXCEPT ![call[t].core].epoch = call[t].epoch]
      BY <1>6 DEF SetEpoch
    <3>2. [state EXCEPT ![call[t].core].epoch = call[t].epoch]
            \in [Handles -> CoreState \cup {Absent}]
      BY <2>2, <2>3 DEF TypeOK, CoreState
    <3>3. QED
      BY <3>1, <3>2 DEF TypeOK
  <2>5. QED
    BY <1>6, <2>4 DEF SetEpoch, Return, TypeOK, locks, tables
<1>7. CASE NumberSnapshot(t)
  <2>1. call[t] # Absent /\ call[t].at = "core"
    BY <1>7 DEF NumberSnapshot, At
  <2>2. call[t].core \in Handles
    BY <2>1, CallsCore
  <2>3. PICK h \in Fresh :
          call' = [call EXCEPT ![t] = [op |-> "snapshot", at |-> "insert",
                                       core |-> call[t].core, handle |-> h]]
    BY <1>7 DEF NumberSnapshot
  <2>4. [op |-> "snapshot", at |-> "insert", core |-> call[t].core,
         handle |-> h] \in Call
    BY <2>2 DEF Call, Fresh
  <2>5. next' \in 1..(MaxHandle + 1)
    BY <1>7, <2>3 DEF NumberSnapshot, Numbered, Fresh, Handles, TypeOK
  <2>6. QED
    BY <1>7, <2>3, <2>4, <2>5 DEF NumberSnapshot, TypeOK, tables
<1>8. CASE InsertSnapshot(t)
  <2>1. PICK h \in Handles, entry \in RefHandle(Snapshot) :
          /\ Unused(h)
          /\ snapshots' = [snapshots EXCEPT ![h] = entry]
          /\ owned' = [owned EXCEPT ![t][h] = @ + 1]
    BY <1>8, SnapshotInserted
  <2>2. owned' \in [Threads -> [Handles -> 0..MaxRefs]]
    BY <2>1, OwnedType DEF Unused
  <2>3. snapshots' \in [Handles -> RefHandle(Snapshot) \cup {Absent}]
    BY <2>1 DEF TypeOK
  <2>4. QED
    BY <1>8, <2>2, <2>3 DEF InsertSnapshot, Return, TypeOK
<1>9. CASE ApplyBatch(t)
  <2> DEFINE c == call[t].core
  <2>1. call[t] # Absent /\ call[t].at = "core"
    BY <1>9 DEF ApplyBatch, At
  <2>2. c \in Handles /\ state[c] \in CoreState
    BY <2>1, CallsCore
  <2>3. CASE Return(t) /\ UNCHANGED <<state, coreLock>>
    BY <1>9, <2>3 DEF ApplyBatch, Return, TypeOK, tables
  <2>4. CASE ~ (Return(t) /\ UNCHANGED <<state, coreLock>>)
    <3>1. /\ state[c].revision < MaxRevision
          /\ state' = [state EXCEPT ![c].revision = @ + 1]
          /\ coreLock' = [coreLock EXCEPT ![c] = Absent]
          /\ call' = [call EXCEPT ![t] =
               [op |-> "submit", at |-> "number",
                diff |-> [core |-> c, previous |-> state[c].revision,
                          revision |-> state[c].revision + 1,
                          epoch |-> state[c].epoch]]]
      BY <1>9, <2>4 DEF ApplyBatch, AfterBatch
    <3>2. state[c].revision + 1 \in Revisions
      BY <2>2, <3>1 DEF CoreState, Revisions
    <3>3. state' \in [Handles -> CoreState \cup {Absent}]
      BY <2>2, <3>1, <3>2 DEF TypeOK, CoreState
    <3>4. [core |-> c, previous |-> state[c].revision,
           revision |-> state[c].revision + 1, epoch |-> state[c].epoch] \in Diff
      BY <2>2, <3>2 DEF Diff, CoreState
    <3>5. call'[t] \in Call
      BY <3>1, <3>4 DEF Call, TypeOK
    <3>6. QED
      BY <1>9, <3>1, <3>3, <3>5 DEF ApplyBatch, TypeOK, tables
  <2>5. QED
    BY <2>3, <2>4
<1>10. CASE NumberDiff(t)
  <2>1. call[t] \in Call /\ call[t].op = "submit" /\ call[t].at = "number"
    BY <1>10 DEF NumberDiff, At, TypeOK
  <2>2. PICK h \in Fresh :
          call' = [call EXCEPT ![t] = [op |-> "submit", at |-> "insert",
                                       diff |-> call[t].diff, handle |-> h]]
    BY <1>10 DEF NumberDiff
  <2>3. [op |-> "submit", at |-> "insert", diff |-> call[t].diff,
         handle |-> h] \in Call
    BY <2>1, CallFields DEF Call, Fresh
  <2>4. next' \in 1..(MaxHandle + 1)
    BY <1>10, <2>2 DEF NumberDiff, Numbered, Fresh, Handles, TypeOK
  <2>5. QED
    BY <1>10, <2>2, <2>3, <2>4 DEF NumberDiff, TypeOK, locks, tables
<1>11. CASE InsertDiff(t)
  <2>1. PICK h \in Handles, entry \in RefHandle(Diff) :
          /\ Unused(h)
          /\ diffs' = [diffs EXCEPT ![h] = entry]
          /\ owned' = [owned EXCEPT ![t][h] = @ + 1]
    BY <1>11, DiffInserted
  <2>2. owned' \in [Threads -> [Handles -> 0..MaxRefs]]
    BY <2>1, OwnedType DEF Unused
  <2>3. diffs' \in [Handles -> RefHandle(Diff) \cup {Absent}]
    BY <2>1 DEF TypeOK
  <2>4. callback' \in [Threads -> BOOLEAN]
    BY <1>11 DEF InsertDiff, TypeOK
  <2>5. QED
    BY <1>11, <2>2, <2>3, <2>4 DEF InsertDiff, Return, TypeOK, locks
<1>12. CASE EndCallback(t)
  BY <1>12 DEF EndCallback, TypeOK, locks, tables
<1>13. CASE Retain(t)
  <2>1. PICK h \in Handles :
          /\ owned' = [owned EXCEPT ![t][h] = @ + 1]
          /\ \/ /\ Has(t, snapshots, h)
                /\ snapshots' \in Retained(snapshots, h)
                /\ UNCHANGED diffs
             \/ /\ Has(t, diffs, h)
                /\ diffs' \in Retained(diffs, h)
                /\ UNCHANGED snapshots
    BY <1>13 DEF Retain
  <2>2. /\ Total(h) \in 0..MaxRefs /\ CountIs(h, Total(h))
        /\ owned[t][h] \in Nat /\ owned[t][h] <= Total(h)
    BY Counts
  <2>3. owned[t][h] + 1 \in 0..MaxRefs
    BY <2>1, <2>2 DEF Has, Retained, CheckedAdd, CountIs
  <2>4. owned' \in [Threads -> [Handles -> 0..MaxRefs]]
    BY <2>1, <2>3, OwnedType
  <2>5. snapshots' \in [Handles -> RefHandle(Snapshot) \cup {Absent}]
    <3>1. CASE snapshots' = snapshots
      BY <3>1 DEF TypeOK
    <3>2. CASE snapshots' # snapshots
      <4>1. snapshots[h] # Absent /\ snapshots' \in Retained(snapshots, h)
        BY <2>1, <3>2 DEF Has
      <4>2. snapshots \in [Handles -> RefHandle(Snapshot) \cup {Absent}]
        BY DEF TypeOK
      <4>3. QED
        BY <4>1, <4>2, EntryRetained, AbsentIsNoValue DEF AbsentIsNoValue
    <3>3. QED
      BY <3>1, <3>2
  <2>6. diffs' \in [Handles -> RefHandle(Diff) \cup {Absent}]
    <3>1. CASE diffs' = diffs
      BY <3>1 DEF TypeOK
    <3>2. CASE diffs' # diffs
      <4>1. diffs[h] # Absent /\ diffs' \in Retained(diffs, h)
        BY <2>1, <3>2 DEF Has
      <4>2. diffs \in [Handles -> RefHandle(Diff) \cup {Absent}]
        BY DEF TypeOK
      <4>3. QED
        BY <4>1, <4>2, EntryRetained, AbsentIsNoValue DEF AbsentIsNoValue
    <3>3. QED
      BY <3>1, <3>2
  <2>7. QED
    BY <1>13, <2>4, <2>5, <2>6 DEF Retain, TypeOK, locks
<1>14. CASE Release(t)
  <2>1. PICK h \in Handles :
          /\ owned' = [owned EXCEPT ![t][h] = @ - 1]
          /\ \/ /\ Has(t, snapshots, h)
                /\ snapshots' = Released(snapshots, h)
                /\ UNCHANGED diffs
             \/ /\ Has(t, diffs, h)
                /\ diffs' = Released(diffs, h)
                /\ UNCHANGED snapshots
    BY <1>14 DEF Release
  <2>2. owned[t][h] \in 0..MaxRefs /\ owned[t][h] > 0
    BY <2>1 DEF TypeOK, Has
  <2>3. owned[t][h] - 1 \in 0..MaxRefs
    BY <2>2
  <2>4. owned' \in [Threads -> [Handles -> 0..MaxRefs]]
    BY <2>1, <2>3, OwnedType
  <2>5. snapshots' \in [Handles -> RefHandle(Snapshot) \cup {Absent}]
    <3>1. CASE snapshots' = snapshots
      BY <3>1 DEF TypeOK
    <3>2. CASE snapshots' # snapshots
      <4>1. snapshots[h] # Absent /\ snapshots' = Released(snapshots, h)
        BY <2>1, <3>2 DEF Has
      <4>2. snapshots \in [Handles -> RefHandle(Snapshot) \cup {Absent}]
        BY DEF TypeOK
      <4>3. QED
        BY <4>1, <4>2, EntryReleased, AbsentIsNoValue DEF AbsentIsNoValue
    <3>3. QED
      BY <3>1, <3>2
  <2>6. diffs' \in [Handles -> RefHandle(Diff) \cup {Absent}]
    <3>1. CASE diffs' = diffs
      BY <3>1 DEF TypeOK
    <3>2. CASE diffs' # diffs
      <4>1. diffs[h] # Absent /\ diffs' = Released(diffs, h)
        BY <2>1, <3>2 DEF Has
      <4>2. diffs \in [Handles -> RefHandle(Diff) \cup {Absent}]
        BY DEF TypeOK
      <4>3. QED
        BY <4>1, <4>2, EntryReleased, AbsentIsNoValue DEF AbsentIsNoValue
    <3>3. QED
      BY <3>1, <3>2
  <2>7. QED
    BY <1>14, <2>4, <2>5, <2>6 DEF Release, TypeOK, locks
<1>15. CASE HandOver(t)
  <2>1. PICK h \in Handles, u \in Threads \ {t} :
          /\ owned[t][h] > 0
          /\ owned' = [owned EXCEPT ![t][h] = @ - 1, ![u][h] = @ + 1]
    BY <1>15 DEF HandOver
  <2> DEFINE less == [owned EXCEPT ![t][h] = @ - 1]
  <2>2. owned \in Held /\ Total(h) \in 0..MaxRefs
    BY Counts
  <2>3. less \in Held /\ Cardinality(References(less, h)) = Total(h) - 1
    BY <2>1, <2>2, OneLess DEF Total
  <2>4. less[u][h] = owned[u][h] /\ less[u][h] \in Nat
    BY <2>1, <2>2, <2>3 DEF Held
  <2>5. owned[u][h] <= Total(h) - 1
    BY <2>3, <2>4, PartOfTotal
  <2>6. owned[u][h] + 1 \in 0..MaxRefs /\ owned[t][h] - 1 \in 0..MaxRefs
    BY <2>1, <2>2, <2>4, <2>5 DEF TypeOK
  <2>7. owned' = [[owned EXCEPT ![t][h] = owned[t][h] - 1]
                    EXCEPT ![u][h] = owned[u][h] + 1]
    BY <2>1 DEF TypeOK
  <2>8. owned' \in [Threads -> [Handles -> 0..MaxRefs]]
    BY <2>6, <2>7 DEF TypeOK
  <2>9. QED
    BY <1>15, <2>8 DEF HandOver, TypeOK, locks
<1>16. CASE RegisterLease(t)
  <2>1. next' \in 1..(MaxHandle + 1)
    BY <1>16 DEF RegisterLease, Numbered, Fresh, Handles, TypeOK
  <2>2. QED
    BY <1>16, <2>1 DEF RegisterLease, Return, TypeOK, locks, tables
<1>17. CASE LeaseSection(t)
  <2>1. PICK op \in LeaseCall : At(t, op, "core")
    BY <1>17 DEF LeaseSection
  <2>2. call[t] \in Call /\ call[t] # Absent /\ call[t].op \in LeaseCall
        /\ call[t].at = "core"
    BY <2>1 DEF At, TypeOK
  <2>3. [call[t] EXCEPT !.op = "lease", !.at = "lookup"] \in Call
    BY <2>2, LastSection
  <2>4. call' \in [Threads -> Call \cup {Absent}]
    <3>1. \/ call' = [call EXCEPT ![t] = Absent]
          \/ call' = [call EXCEPT ![t] =
                        [call[t] EXCEPT !.op = "lease", !.at = "lookup"]]
      BY <1>17 DEF LeaseSection, Return, TypeOK
    <3>2. QED
      BY <2>3, <3>1 DEF TypeOK
  <2>5. QED
    BY <1>17, <2>4 DEF LeaseSection, TypeOK, locks, tables
<1>18. QED
  BY <1>1, <1>2, <1>3, <1>4, <1>5, <1>6, <1>7, <1>8, <1>9, <1>10, <1>11,
     <1>12, <1>13, <1>14, <1>15, <1>16, <1>17 DEF Steps

-----------------------------------------------------------------------------
(* References *)

(* A step that changes what the threads have of h, and h's entries, alone. *)
LEMMA CountsElsewhere ==
  ASSUME TypeOK, TypeOK', RefsMatchOwners, NEW h \in Handles,
         \A g \in Handles \ {h}, u \in Threads : owned'[u][g] = owned[u][g],
         \A g \in Handles \ {h} : snapshots'[g] = snapshots[g] /\ diffs'[g] = diffs[g],
         CountIs(h, Total(h))'
  PROVE  RefsMatchOwners'
<1>1. owned \in Held /\ owned' \in Held
  BY DEF TypeOK, Held
<1>2. ASSUME NEW g \in Handles \ {h}
      PROVE  CountIs(g, Total(g))'
  <2>1. References(owned', g) = References(owned, g)
    BY <1>1, OthersSame
  <2>2. Total(g)' = Total(g)
    BY <2>1 DEF Total
  <2>3. CountIs(g, Total(g))
    BY Counts
  <2>4. QED
    BY <2>2, <2>3 DEF CountIs
<1>3. QED
  BY <1>2, RefsMatchOneByOneNext

LEMMA RefsStep ==
  ASSUME TypeOK, TypeOK', NumbersUnused, CoresMade, RefsMatchOwners,
         NEW t \in Threads, Steps(t)
  PROVE  RefsMatchOwners'
<1> USE HandlesAssumption DEF HandlesAssumption
<1>1. CASE UNCHANGED tables
  BY <1>1 DEF tables, RefsMatchOwners, Total
<1>2. CASE InsertSnapshot(t)
  <2>1. PICK h \in Handles, entry \in RefHandle(Snapshot) :
          /\ Unused(h) /\ entry # Absent /\ entry.refs = 1
          /\ snapshots' = [snapshots EXCEPT ![h] = entry]
          /\ owned' = [owned EXCEPT ![t][h] = @ + 1]
          /\ diffs' = diffs
    BY <1>2, SnapshotInserted
  <2>2. Total(h) = 0 /\ owned \in Held
    BY <2>1, Counts DEF Unused
  <2>3. Total(h)' = Total(h) + 1
    BY <2>1, <2>2, OneMore DEF Total
  <2>4. CountIs(h, Total(h))'
    BY <2>1, <2>2, <2>3 DEF CountIs, Unused, TypeOK
  <2>5. /\ \A g \in Handles \ {h}, u \in Threads : owned'[u][g] = owned[u][g]
        /\ \A g \in Handles \ {h} : snapshots'[g] = snapshots[g] /\ diffs'[g] = diffs[g]
    BY <2>1 DEF TypeOK
  <2>6. QED
    BY <2>4, <2>5, CountsElsewhere
<1>3. CASE InsertDiff(t)
  <2>1. PICK h \in Handles, entry \in RefHandle(Diff) :
          /\ Unused(h) /\ entry # Absent /\ entry.refs = 1
          /\ diffs' = [diffs EXCEPT ![h] = entry]
          /\ owned' = [owned EXCEPT ![t][h] = @ + 1]
          /\ snapshots' = snapshots
    BY <1>3, DiffInserted
  <2>2. Total(h) = 0 /\ owned \in Held
    BY <2>1, Counts DEF Unused
  <2>3. Total(h)' = Total(h) + 1
    BY <2>1, <2>2, OneMore DEF Total
  <2>4. CountIs(h, Total(h))'
    BY <2>1, <2>2, <2>3 DEF CountIs, Unused, TypeOK
  <2>5. /\ \A g \in Handles \ {h}, u \in Threads : owned'[u][g] = owned[u][g]
        /\ \A g \in Handles \ {h} : snapshots'[g] = snapshots[g] /\ diffs'[g] = diffs[g]
    BY <2>1 DEF TypeOK
  <2>6. QED
    BY <2>4, <2>5, CountsElsewhere
<1>4. CASE Retain(t)
  <2>1. PICK h \in Handles :
          /\ owned' = [owned EXCEPT ![t][h] = @ + 1]
          /\ \/ /\ Has(t, snapshots, h)
                /\ snapshots' \in Retained(snapshots, h)
                /\ UNCHANGED diffs
             \/ /\ Has(t, diffs, h)
                /\ diffs' \in Retained(diffs, h)
                /\ UNCHANGED snapshots
    BY <1>4 DEF Retain
  <2>2. owned \in Held /\ CountIs(h, Total(h)) /\ Total(h) \in Nat
    BY Counts
  <2>3. Total(h)' = Total(h) + 1
    BY <2>1, <2>2, OneMore DEF Total
  <2>4. CountIs(h, Total(h))'
    <3>1. CASE snapshots[h] # Absent
      <4>1. diffs[h] = Absent /\ diffs' = diffs /\ snapshots' \in Retained(snapshots, h)
        BY <2>1, <2>2, <3>1 DEF CountIs, Has
      <4>2. snapshots'[h] # Absent /\ snapshots'[h].refs = snapshots[h].refs + 1
        <5>1. snapshots \in [Handles -> RefHandle(Snapshot) \cup {Absent}]
          BY DEF TypeOK
        <5>2. QED
          BY <3>1, <4>1, <5>1, EntryRetained, AbsentIsNoValue DEF AbsentIsNoValue
      <4>3. QED
        BY <2>2, <2>3, <3>1, <4>1, <4>2 DEF CountIs
    <3>2. CASE snapshots[h] = Absent
      <4>1. diffs[h] # Absent /\ snapshots' = snapshots /\ diffs' \in Retained(diffs, h)
        BY <2>1, <3>2 DEF Has
      <4>2. diffs'[h] # Absent /\ diffs'[h].refs = diffs[h].refs + 1
        <5>1. diffs \in [Handles -> RefHandle(Diff) \cup {Absent}]
          BY DEF TypeOK
        <5>2. QED
          BY <4>1, <5>1, EntryRetained, AbsentIsNoValue DEF AbsentIsNoValue
      <4>3. QED
        BY <2>2, <2>3, <3>2, <4>1, <4>2 DEF CountIs
    <3>3. QED
      BY <3>1, <3>2
  <2>5. /\ \A g \in Handles \ {h}, u \in Threads : owned'[u][g] = owned[u][g]
        /\ \A g \in Handles \ {h} : snapshots'[g] = snapshots[g] /\ diffs'[g] = diffs[g]
    BY <2>1 DEF TypeOK, Retained
  <2>6. QED
    BY <2>4, <2>5, CountsElsewhere
<1>5. CASE Release(t)
  <2>1. PICK h \in Handles :
          /\ owned' = [owned EXCEPT ![t][h] = @ - 1]
          /\ \/ /\ Has(t, snapshots, h)
                /\ snapshots' = Released(snapshots, h)
                /\ UNCHANGED diffs
             \/ /\ Has(t, diffs, h)
                /\ diffs' = Released(diffs, h)
                /\ UNCHANGED snapshots
    BY <1>5 DEF Release
  <2>2. owned \in Held /\ CountIs(h, Total(h)) /\ Total(h) \in Nat
    BY Counts
  <2>3. Total(h)' = Total(h) - 1
    BY <2>1, <2>2, OneLess DEF Total, Has
  <2>4. CountIs(h, Total(h))'
    <3>1. CASE snapshots[h] # Absent
      <4>1. diffs[h] = Absent /\ diffs' = diffs /\ snapshots' = Released(snapshots, h)
        BY <2>1, <2>2, <3>1 DEF CountIs, Has
      <4>2. IF snapshots[h].refs = 1
              THEN snapshots'[h] = Absent
              ELSE snapshots'[h] # Absent /\ snapshots'[h].refs = snapshots[h].refs - 1
        <5>1. snapshots \in [Handles -> RefHandle(Snapshot) \cup {Absent}]
          BY DEF TypeOK
        <5>2. QED
          BY <3>1, <4>1, <5>1, EntryReleased, AbsentIsNoValue DEF AbsentIsNoValue
      <4>3. QED
        BY <2>2, <2>3, <3>1, <4>1, <4>2 DEF CountIs
    <3>2. CASE snapshots[h] = Absent
      <4>1. diffs[h] # Absent /\ snapshots' = snapshots /\ diffs' = Released(diffs, h)
        BY <2>1, <3>2 DEF Has
      <4>2. IF diffs[h].refs = 1
              THEN diffs'[h] = Absent
              ELSE diffs'[h] # Absent /\ diffs'[h].refs = diffs[h].refs - 1
        <5>1. diffs \in [Handles -> RefHandle(Diff) \cup {Absent}]
          BY DEF TypeOK
        <5>2. QED
          BY <4>1, <5>1, EntryReleased, AbsentIsNoValue DEF AbsentIsNoValue
      <4>3. QED
        BY <2>2, <2>3, <3>2, <4>1, <4>2 DEF CountIs
    <3>3. QED
      BY <3>1, <3>2
  <2>5. /\ \A g \in Handles \ {h}, u \in Threads : owned'[u][g] = owned[u][g]
        /\ \A g \in Handles \ {h} : snapshots'[g] = snapshots[g] /\ diffs'[g] = diffs[g]
    BY <2>1 DEF TypeOK, Released
  <2>6. QED
    BY <2>4, <2>5, CountsElsewhere
<1>6. CASE HandOver(t)
  <2>1. PICK h \in Handles, u \in Threads \ {t} :
          /\ owned[t][h] > 0
          /\ owned' = [owned EXCEPT ![t][h] = @ - 1, ![u][h] = @ + 1]
    BY <1>6 DEF HandOver
  <2> DEFINE less == [owned EXCEPT ![t][h] = @ - 1]
  <2>2. owned \in Held /\ CountIs(h, Total(h)) /\ Total(h) \in Nat
    BY Counts
  <2>3. less \in Held /\ Cardinality(References(less, h)) = Total(h) - 1
    BY <2>1, <2>2, OneLess DEF Total
  <2>4. owned' = [less EXCEPT ![u][h] = @ + 1]
    BY <2>1 DEF TypeOK
  <2>5. Total(h)' = Total(h)
    <3>1. PICK l \in Held : l = less
      BY <2>3
    <3>2. Cardinality(References([l EXCEPT ![u][h] = @ + 1], h))
            = Cardinality(References(l, h)) + 1
      BY OneMore
    <3>3. owned' = [l EXCEPT ![u][h] = @ + 1] /\ Cardinality(References(l, h)) = Total(h) - 1
      BY <2>3, <2>4, <3>1
    <3>4. QED
      BY <2>2, <3>2, <3>3 DEF Total
  <2>6. snapshots' = snapshots /\ diffs' = diffs
    BY <1>6 DEF HandOver
  <2>7. CountIs(h, Total(h))'
    BY <2>2, <2>5, <2>6 DEF CountIs
  <2>8. \A g \in Handles \ {h}, v \in Threads : owned'[v][g] = owned[v][g]
    BY <2>1 DEF TypeOK
  <2>9. QED
    BY <2>6, <2>7, <2>8, CountsElsewhere
<1>7. QED
  <2>1. UNCHANGED tables \/ InsertSnapshot(t) \/ InsertDiff(t) \/ Retain(t)
          \/ Release(t) \/ HandOver(t)
    BY DEF Steps, RegisterLease, LeaseSection, Create, Insert, Enter, Lookup,
       Destroy, SetEpoch, NumberSnapshot, ApplyBatch, NumberDiff, EndCallback
  <2>2. QED
    BY <2>1, <1>1, <1>2, <1>3, <1>4, <1>5, <1>6

-----------------------------------------------------------------------------
(* Numbers *)

(* A step takes a number, inserts the object that has one, or neither. *)
LEMMA NumberEffect ==
  ASSUME TypeOK, NEW t \in Threads, Steps(t)
  PROVE  /\ \A u \in Threads \ {t} : call'[u] = call[u]
         /\ \/ /\ next \in Handles /\ next' = next + 1
               /\ ~ Inserting(t) /\ (call'[t] # Absent => call'[t].handle = next)
            \/ /\ Inserting(t) /\ call'[t] = Absent /\ next' = next
            \/ next' = next /\ call' = call
            \/ /\ next' = next /\ ~ Inserting(t)
               /\ call'[t] # Absent => call'[t].at # "insert"
<1>1. CASE Create(t) \/ NumberSnapshot(t) \/ NumberDiff(t)
  BY <1>1 DEF Create, NumberSnapshot, NumberDiff, Begin, At, Numbered, Fresh,
              Inserting, TypeOK
<1>2. CASE Insert(t) \/ InsertSnapshot(t) \/ InsertDiff(t)
  BY <1>2 DEF Insert, InsertSnapshot, InsertDiff, At, Return, Inserting, TypeOK
<1>3. CASE Enter(t) \/ Destroy(t) \/ SetEpoch(t)
  BY <1>3 DEF Enter, Begin, Destroy, SetEpoch, At, Return, Inserting, TypeOK
<1>4. CASE Lookup(t)
  <2>1. /\ call[t] \in Call /\ call[t].at = "lookup" /\ next' = next
        /\ \/ call' = [call EXCEPT ![t] = Absent]
           \/ call' = [call EXCEPT ![t] = [call[t] EXCEPT !.at = "core"]]
    BY <1>4 DEF Lookup, GoTo, Return, TypeOK
  <2>2. [call[t] EXCEPT !.at = "core"].at = "core"
    BY <2>1 DEF Call
  <2>3. QED
    BY <2>1, <2>2 DEF Inserting, TypeOK
<1>5. CASE ApplyBatch(t)
  BY <1>5 DEF ApplyBatch, At, Return, Inserting, TypeOK
<1>6. CASE EndCallback(t) \/ Retain(t) \/ Release(t) \/ HandOver(t)
  BY <1>6 DEF EndCallback, Retain, Release, HandOver
<1>7. CASE LeaseSection(t)
  BY <1>7, LeaseEffect DEF LeaseSection, LeaseCall, Inserting
<1>8. CASE RegisterLease(t)
  <2>1. next \in Handles /\ next' = next + 1
    BY <1>8 DEF RegisterLease, Fresh, Numbered
  <2>2. call'[t] = Absent
    BY <1>8 DEF RegisterLease, Return, TypeOK
  <2>3. QED
    BY <1>8, <2>1, <2>2, LeaseEffect DEF Inserting
<1>9. QED
  BY <1>1, <1>2, <1>3, <1>4, <1>5, <1>6, <1>7, <1>8 DEF Steps

(* A number stays unused until its call inserts the object. *)
LEMMA UnusedStays ==
  ASSUME TypeOK, NumbersUnused, CoresMade, NEW t \in Threads, Steps(t),
         NEW g \in Handles, Unused(g), Inserting(t) => call[t].handle # g
  PROVE  Unused(g)'
<1>1. state'[g] = Absent
  <2>1. CASE Insert(t)
    BY <2>1 DEF Insert, At, Inserting, Unused, TypeOK
  <2>2. CASE SetEpoch(t) \/ ApplyBatch(t)
    <3>1. call[t] # Absent /\ call[t].at = "core"
      BY <2>2 DEF SetEpoch, ApplyBatch, At
    <3>2. call[t].core # g
      BY <3>1 DEF CoresMade, Unused
    <3>3. \/ state' = state
          \/ \E s : state' = [state EXCEPT ![call[t].core] = s]
      BY <2>2 DEF SetEpoch, ApplyBatch
    <3>4. QED
      BY <3>2, <3>3 DEF Unused, TypeOK
  <2>3. CASE UNCHANGED state
    BY <2>3 DEF Unused
  <2>4. QED
    BY <2>1, <2>2, <2>3 DEF Steps, RegisterLease, LeaseSection, Create, Enter,
       Lookup, Destroy, NumberSnapshot, InsertSnapshot, NumberDiff, InsertDiff,
       EndCallback, Retain, Release, HandOver
<1>2. snapshots'[g] = Absent /\ diffs'[g] = Absent
      /\ \A u \in Threads : owned'[u][g] = 0
  <2>1. CASE UNCHANGED tables
    BY <2>1 DEF tables, Unused
  <2>2. CASE InsertSnapshot(t)
    <3>1. PICK h \in Handles, entry \in RefHandle(Snapshot) :
            /\ Snapshotting(t) /\ call[t].handle = h
            /\ snapshots' = [snapshots EXCEPT ![h] = entry]
            /\ owned' = [owned EXCEPT ![t][h] = @ + 1]
            /\ diffs' = diffs
      BY <2>2, SnapshotInserted
    <3>2. h # g
      BY <3>1 DEF Snapshotting, At, Inserting
    <3>3. QED
      BY <3>1, <3>2 DEF Unused, TypeOK
  <2>3. CASE InsertDiff(t)
    <3>1. PICK h \in Handles, entry \in RefHandle(Diff) :
            /\ Publishing(t) /\ call[t].at = "insert" /\ call[t].handle = h
            /\ diffs' = [diffs EXCEPT ![h] = entry]
            /\ owned' = [owned EXCEPT ![t][h] = @ + 1]
            /\ snapshots' = snapshots
      BY <2>3, DiffInserted
    <3>2. h # g
      BY <3>1 DEF Publishing, Inserting
    <3>3. QED
      BY <3>1, <3>2 DEF Unused, TypeOK
  <2>4. CASE Retain(t) \/ Release(t)
    <3>1. PICK h \in Handles :
            /\ owned[t][h] > 0
            /\ \/ owned' = [owned EXCEPT ![t][h] = @ + 1]
               \/ owned' = [owned EXCEPT ![t][h] = @ - 1]
            /\ \/ snapshots' = snapshots
               \/ \E e : snapshots' = [snapshots EXCEPT ![h] = e]
            /\ \/ diffs' = diffs
               \/ \E e : diffs' = [diffs EXCEPT ![h] = e]
      BY <2>4 DEF Retain, Release, Has, Retained, Released
    <3>2. h # g
      BY <3>1 DEF Unused
    <3>3. QED
      BY <3>1, <3>2 DEF Unused, TypeOK
  <2>5. CASE HandOver(t)
    <3>1. PICK h \in Handles, u \in Threads \ {t} :
            /\ owned[t][h] > 0
            /\ owned' = [owned EXCEPT ![t][h] = @ - 1, ![u][h] = @ + 1]
            /\ UNCHANGED <<snapshots, diffs>>
      BY <2>5 DEF HandOver
    <3>2. h # g
      BY <3>1 DEF Unused
    <3>3. QED
      BY <3>1, <3>2 DEF Unused, TypeOK
  <2>6. QED
    BY <2>1, <2>2, <2>3, <2>4, <2>5 DEF Steps, RegisterLease, LeaseSection,
       Create, Insert, Enter, Lookup, Destroy, SetEpoch, NumberSnapshot,
       ApplyBatch, NumberDiff, EndCallback
<1>3. QED
  BY <1>1, <1>2 DEF Unused

LEMMA NumbersStep ==
  ASSUME TypeOK, NumbersUnused, CoresMade, NEW t \in Threads, Steps(t)
  PROVE  NumbersUnused'
<1> USE HandlesAssumption DEF HandlesAssumption
<1> DEFINE Next1 == next \in Handles /\ next' = next + 1
                      /\ ~ Inserting(t) /\ call'[t].handle = next
<1>1. next \in Nat /\ next' \in {next, next + 1}
  BY NumberEffect DEF TypeOK
<1>2. \A u \in Threads : Inserting(u) => call[u].handle \in Handles
  BY CallFields DEF TypeOK, Inserting
<1>3. \A u \in Threads : Inserting(u)' =>
        \/ Inserting(u) /\ call'[u] = call[u] /\ (u = t => call' = call)
        \/ u = t /\ Next1
  BY NumberEffect DEF Inserting
<1>4. ASSUME NEW h \in Handles, h >= next'
      PROVE  Unused(h)'
  <2>1. h >= next /\ Unused(h)
    BY <1>1, <1>4 DEF NumbersUnused, Handles
  <2>2. Inserting(t) => call[t].handle # h
    BY <1>1, <1>2, <2>1 DEF NumbersUnused, Handles
  <2>3. QED
    BY <2>1, <2>2, UnusedStays
<1>5. ASSUME NEW u \in Threads, Inserting(u)'
      PROVE  (call[u].handle < next /\ Unused(call[u].handle))'
  <2>1. CASE Inserting(u) /\ call'[u] = call[u] /\ (u = t => call' = call)
    <3>1. PICK h \in Handles : h = call[u].handle
      BY <1>2, <2>1
    <3>2. h < next /\ Unused(h)
      BY <2>1, <3>1 DEF NumbersUnused
    <3>3. CASE u # t \/ ~ Inserting(t)
      <4>1. Inserting(t) => call[t].handle # h
        BY <2>1, <3>1, <3>3 DEF NumbersUnused
      <4>2. Unused(h)'
        BY <3>2, <4>1, UnusedStays
      <4>3. QED
        BY <1>1, <2>1, <3>1, <3>2, <4>2 DEF Handles, Unused
    <3>4. CASE u = t /\ Inserting(t)
      <4>1. HandOver(t)
        BY <2>1, <3>4 DEF Steps, RegisterLease, LeaseSection, Create, Begin,
           Insert, Enter, Lookup, Destroy, SetEpoch, NumberSnapshot,
           InsertSnapshot, ApplyBatch, NumberDiff, InsertDiff, EndCallback,
           Retain, Release, Has, At, Return, Inserting, TypeOK
      <4>2. PICK k \in Handles, v \in Threads \ {t} :
              /\ owned[t][k] > 0
              /\ owned' = [owned EXCEPT ![t][k] = @ - 1, ![v][k] = @ + 1]
              /\ UNCHANGED <<next, state, snapshots, diffs>>
        BY <4>1 DEF HandOver
      <4>3. k # h
        BY <3>2, <4>2 DEF Unused
      <4>4. Unused(h)'
        BY <3>2, <4>2, <4>3 DEF Unused, TypeOK
      <4>5. QED
        BY <1>1, <2>1, <3>1, <3>2, <4>2, <4>4 DEF Handles, Unused
    <3>5. QED
      BY <3>3, <3>4
  <2>2. CASE u = t /\ Next1
    <3>1. PICK h \in Handles : h = next
      BY <2>2
    <3>2. Unused(h)
      BY <3>1 DEF NumbersUnused, Handles
    <3>3. Unused(h)'
      BY <2>2, <3>2, UnusedStays
    <3>4. QED
      BY <1>1, <2>2, <3>1, <3>3 DEF Unused
  <2>3. QED
    BY <1>3, <1>5, <2>1, <2>2
<1>6. ASSUME NEW u \in Threads, NEW v \in Threads, Inserting(u)', Inserting(v)',
             call'[u].handle = call'[v].handle
      PROVE  u = v
  <2>1. ASSUME NEW w \in Threads, Inserting(w)
        PROVE  call[w].handle < next /\ call[w].handle \in Handles
    BY <1>2, <2>1 DEF NumbersUnused
  <2>2. CASE Inserting(u) /\ call'[u] = call[u] /\ Inserting(v) /\ call'[v] = call[v]
    BY <1>6, <2>2 DEF NumbersUnused
  <2>3. QED
    BY <1>1, <1>3, <1>6, <2>1, <2>2 DEF Handles
<1>7. QED
  BY <1>4, <1>5, <1>6 DEF NumbersUnused

-----------------------------------------------------------------------------
(* Cores and locks *)

(* The state of a core is never lost, and never goes back. *)
LEMMA StateGrows ==
  ASSUME TypeOK, TypeOK', NumbersUnused, CoresMade, NEW t \in Threads, Steps(t),
         NEW c \in Handles, state[c] # Absent
  PROVE  /\ state'[c] # Absent
         /\ state'[c].owner = state[c].owner
         /\ state[c].revision \in Nat /\ state'[c].revision \in Nat
         /\ state[c].epoch \in Nat /\ state'[c].epoch \in Nat
         /\ state[c].revision <= state'[c].revision
         /\ state[c].epoch <= state'[c].epoch
<1>1. state[c] \in CoreState /\ state[c].revision \in Nat /\ state[c].epoch \in Nat
  BY DEF TypeOK, CoreState, Revisions, Epochs
<1>2. CASE state'[c] = state[c]
  BY <1>1, <1>2
<1>3. CASE Insert(t)
  <2>1. call[t].handle # c
    BY <1>3 DEF Insert, At, NumbersUnused, Inserting, Unused
  <2>2. state'[c] = state[c]
    BY <1>3, <2>1 DEF Insert, TypeOK
  <2>3. QED
    BY <1>2, <2>2
<1>4. CASE SetEpoch(t) /\ state'[c] # state[c]
  <2>1. call[t] \in Call /\ call[t].op = "set_epoch"
    BY <1>4 DEF SetEpoch, At, TypeOK
  <2>2. call[t].epoch \in Nat
    BY <2>1, CallFields DEF Epochs
  <2>3. /\ state' = [state EXCEPT ![c] = [state[c] EXCEPT !.epoch = call[t].epoch]]
        /\ call[t].epoch >= state[c].epoch
    BY <1>4 DEF SetEpoch, TypeOK
  <2>4. state'[c] = [state[c] EXCEPT !.epoch = call[t].epoch]
    BY <2>3 DEF TypeOK
  <2>5. state'[c] \in CoreState /\ state'[c].owner = state[c].owner
        /\ state'[c].revision = state[c].revision /\ state'[c].epoch = call[t].epoch
    BY <1>1, <2>1, <2>4, CallFields DEF CoreState
  <2>6. QED
    BY <1>1, <2>2, <2>3, <2>5, AbsentIsNoValue DEF AbsentIsNoValue
<1>5. CASE ApplyBatch(t) /\ state'[c] # state[c]
  <2>1. state' = [state EXCEPT ![c] = [state[c] EXCEPT !.revision = @ + 1]]
        /\ state[c].revision < MaxRevision
    BY <1>5 DEF ApplyBatch, TypeOK
  <2>2. state'[c] = [state[c] EXCEPT !.revision = state[c].revision + 1]
    BY <2>1 DEF TypeOK
  <2>3. state[c].revision + 1 \in Revisions
    BY <1>1, <2>1, HandlesAssumption DEF Revisions, HandlesAssumption
  <2>4. state'[c] \in CoreState /\ state'[c].owner = state[c].owner
        /\ state'[c].revision = state[c].revision + 1 /\ state'[c].epoch = state[c].epoch
    BY <1>1, <2>2, <2>3 DEF CoreState
  <2>5. QED
    BY <1>1, <2>4, AbsentIsNoValue DEF AbsentIsNoValue
<1>6. QED
  BY <1>2, <1>3, <1>4, <1>5 DEF Steps, RegisterLease, LeaseSection, Create,
     Enter, Lookup, Destroy, NumberSnapshot, InsertSnapshot, NumberDiff,
     InsertDiff, EndCallback, Retain, Release, HandOver

(* The core that a call has found, or is about to look up. *)
OnCore(t, c) ==
  /\ call[t] # Absent
  /\ call[t].at \in {"lookup", "core"} \/ Snapshotting(t)
  /\ call[t].core = c

LEMMA OnCoreNext ==
  ASSUME TypeOK, NEW t \in Threads, Steps(t), NEW u \in Threads, NEW c \in Handles,
         OnCore(u, c)'
  PROVE  OnCore(u, c) \/ c \in cores
<1>1. CASE call'[u] = call[u]
  BY <1>1 DEF OnCore, Snapshotting, At
<1>2. CASE call'[u] # call[u]
  <2>1. u = t
    BY <1>2, NumberEffect
  <2>2. CASE Enter(t)
    BY <2>1, <2>2 DEF Enter, Begin, OnCore, TypeOK
  <2>3. CASE Lookup(t)
    <3>1. /\ call[t] # Absent /\ call[t].at = "lookup" /\ call[t] \in Call
          /\ \/ call' = [call EXCEPT ![t] = Absent]
             \/ call' = [call EXCEPT ![t] = [call[t] EXCEPT !.at = "core"]]
      BY <2>3 DEF Lookup, GoTo, Return, TypeOK
    <3>2. [call[t] EXCEPT !.at = "core"].core = call[t].core
      BY <3>1 DEF Call
    <3>3. QED
      BY <2>1, <3>1, <3>2 DEF OnCore, TypeOK
  <2>4. CASE NumberSnapshot(t)
    BY <2>1, <2>4 DEF NumberSnapshot, At, OnCore, TypeOK
  <2>5. CASE Create(t)
    BY <2>1, <2>5 DEF Create, Begin, OnCore, Snapshotting, At, TypeOK
  <2>6. CASE ApplyBatch(t) \/ NumberDiff(t)
    BY <2>1, <2>6 DEF ApplyBatch, NumberDiff, Return, OnCore, Snapshotting, At, TypeOK
  <2>7. CASE Return(t)
    BY <2>1, <2>7 DEF Return, OnCore, TypeOK
  <2>8. CASE RegisterLease(t) \/ LeaseSection(t)
    BY <2>1, <2>8, LeaseEffect DEF OnCore, LeaseCall, Snapshotting, At
  <2>9. QED
    BY <1>2, <2>2, <2>3, <2>4, <2>5, <2>6, <2>7, <2>8 DEF Steps, Insert, Destroy,
       SetEpoch, InsertSnapshot, InsertDiff, EndCallback, Retain, Release,
       HandOver
<1>3. QED
  BY <1>1, <1>2

LEMMA CoresStep ==
  ASSUME TypeOK, TypeOK', NumbersUnused, CoresMade, NEW t \in Threads, Steps(t)
  PROVE  CoresMade'
<1>1. ASSUME NEW c \in Handles, state[c] # Absent
      PROVE  state'[c] # Absent
  BY <1>1, StateGrows
<1>2. ASSUME NEW c \in cores'
      PROVE  state'[c] # Absent
  <2>1. CASE c \in cores
    BY <1>1, <2>1 DEF CoresMade, TypeOK
  <2>2. CASE c \notin cores
    <3>1. Insert(t)
      BY <1>2, <2>2 DEF Steps, RegisterLease, LeaseSection, Create, Enter,
         Lookup, Destroy, SetEpoch, NumberSnapshot, InsertSnapshot, ApplyBatch,
         NumberDiff, InsertDiff, EndCallback, Retain, Release, HandOver
    <3>2. call[t] \in Call /\ call[t].op = "create" /\ c = call[t].handle
      BY <1>2, <2>2, <3>1 DEF Insert, At, TypeOK
    <3>3. [owner |-> t, revision |-> 0, epoch |-> call[t].epoch] \in CoreState
      BY <3>2, CallFields, HandlesAssumption DEF CoreState, Revisions, HandlesAssumption
    <3>4. state'[c] = [owner |-> t, revision |-> 0, epoch |-> call[t].epoch]
      BY <1>2, <3>1, <3>2 DEF Insert, TypeOK
    <3>5. QED
      BY <3>3, <3>4, AbsentIsNoValue DEF AbsentIsNoValue
  <2>3. QED
    BY <2>1, <2>2
<1>3. ASSUME NEW u \in Threads, NEW c, OnCore(u, c)'
      PROVE  state'[c] # Absent
  <2>1. c \in Handles
    BY <1>3, CallFields DEF OnCore, TypeOK, Snapshotting, At
  <2>2. OnCore(u, c) \/ c \in cores
    BY <1>3, <2>1, OnCoreNext
  <2>3. state[c] # Absent
    BY <2>2 DEF OnCore, CoresMade
  <2>4. QED
    BY <1>1, <2>1, <2>3
<1>4. QED
  BY <1>2, <1>3 DEF CoresMade, OnCore

(* A core's lock is held across steps by the snapshot that has its number. *)
LEMMA LocksStep ==
  ASSUME TypeOK, TypeOK', LockHolders, CoresMade, NEW t \in Threads, Steps(t)
  PROVE  LockHolders'
<1> USE HandlesAssumption DEF HandlesAssumption
<1>1. ASSUME NEW u \in Threads, coresLock' = u
      PROVE  At(u, "destroy", "core")'
  <2>1. CASE Lookup(t)
    <3>1. /\ call[t] # Absent /\ call[t].at = "lookup" /\ call[t] \in Call
          /\ u = t /\ call[t].op = "destroy"
          /\ call' = [call EXCEPT ![t] = [call[t] EXCEPT !.at = "core"]]
      BY <1>1, <2>1 DEF Lookup, GoTo, CoresFree, TypeOK
    <3>2. call'[t] \in Call /\ call'[t].op = "destroy" /\ call'[t].at = "core"
      BY <3>1, CallGoesOn DEF TypeOK, Call
    <3>3. QED
      BY <3>1, <3>2, AbsentIsNoValue DEF At, AbsentIsNoValue
  <2>2. CASE Destroy(t)
    BY <1>1, <2>2 DEF Destroy
  <2>3. CASE ~ Lookup(t) /\ ~ Destroy(t)
    <3>1. coresLock' = coresLock
      BY <2>3 DEF Steps, RegisterLease, LeaseSection, Create, Insert, Enter,
         SetEpoch, NumberSnapshot, InsertSnapshot, ApplyBatch, NumberDiff,
         InsertDiff, EndCallback, Retain, Release, HandOver, locks
    <3>2. At(u, "destroy", "core")
      BY <1>1, <3>1 DEF LockHolders
    <3>3. call'[u] = call[u]
      <4>1. CASE RegisterLease(t) \/ LeaseSection(t)
        BY <3>2, <4>1, LeaseEffect DEF At, LeaseCall
      <4>2. CASE ~ (RegisterLease(t) \/ LeaseSection(t))
        BY <2>3, <3>2, <4>2 DEF Steps, Create, Begin, Insert, Enter, SetEpoch,
         NumberSnapshot, InsertSnapshot, ApplyBatch, NumberDiff, InsertDiff, Return,
         EndCallback, Retain, Release, HandOver, At, TypeOK
      <4>3. QED
        BY <4>1, <4>2
    <3>4. QED
      BY <3>2, <3>3 DEF At
  <2>4. QED
    BY <2>1, <2>2, <2>3
<1>2. ASSUME NEW u \in Threads, NEW c \in Handles
      PROVE  (coreLock[c] = u <=> Snapshotting(u) /\ call[u].core = c)'
  <2>1. coreLock[c] = u <=> Snapshotting(u) /\ call[u].core = c
    BY DEF LockHolders
  <2>2. \A v \in Threads \ {t} : call'[v] = call[v]
    BY NumberEffect
  <2>3. CASE NumberSnapshot(t)
    <3>1. call[t] # Absent /\ call[t].at = "core"
      BY <2>3 DEF NumberSnapshot, At
    <3>2. PICK d \in Handles : d = call[t].core
      BY <3>1, CallsCore
    <3>3. /\ coreLock[d] = Absent
          /\ coreLock' = [coreLock EXCEPT ![d] = t]
          /\ Snapshotting(t)' /\ call'[t].core = d
      <4>1. PICK h \in Fresh :
              call' = [call EXCEPT ![t] = [op |-> "snapshot", at |-> "insert",
                                           core |-> d, handle |-> h]]
        BY <2>3, <3>2 DEF NumberSnapshot
      <4>2. [op |-> "snapshot", at |-> "insert", core |-> d, handle |-> h] \in Call
        BY DEF Call, Fresh
      <4>3. QED
        BY <2>3, <3>2, <4>1, <4>2, AbsentIsNoValue
           DEF NumberSnapshot, CoreFree, Snapshotting, At, TypeOK, AbsentIsNoValue
    <3>4. ~ Snapshotting(t)
      BY <3>1 DEF Snapshotting, At
    <3>5. CASE u = t
      BY <2>1, <3>3, <3>4, <3>5 DEF TypeOK
    <3>6. CASE u # t
      BY <2>1, <2>2, <3>3, <3>6 DEF TypeOK, Snapshotting, At
    <3>7. QED
      BY <3>5, <3>6
  <2>4. CASE InsertSnapshot(t)
    <3>1. Snapshotting(t) /\ call'[t] = Absent
      BY <2>4 DEF InsertSnapshot, Snapshotting, Return, TypeOK
    <3>2. PICK d \in Handles : d = call[t].core
      BY <3>1, CallsCore DEF Snapshotting, At
    <3>3. coreLock[d] = t /\ coreLock' = [coreLock EXCEPT ![d] = Absent]
      BY <2>4, <3>1, <3>2 DEF InsertSnapshot, LockHolders
    <3>4. CASE u = t
      BY <2>1, <3>1, <3>2, <3>3, <3>4 DEF TypeOK, Snapshotting, At
    <3>5. CASE u # t
      BY <2>1, <2>2, <3>3, <3>5 DEF TypeOK, Snapshotting, At
    <3>6. QED
      BY <3>4, <3>5
  <2>5. CASE ~ NumberSnapshot(t) /\ ~ InsertSnapshot(t)
    <3>1. coreLock' = coreLock
      <4>1. CASE ApplyBatch(t)
        <5>1. PICK d \in Handles : d = call[t].core /\ coreLock[d] = Absent
          BY <4>1, CallsCore DEF ApplyBatch, At, CoreFree
        <5>2. QED
          BY <4>1, <5>1 DEF ApplyBatch, AfterBatch, TypeOK
      <4>2. CASE ~ ApplyBatch(t)
        BY <2>5, <4>2 DEF Steps, RegisterLease, LeaseSection, Create, Insert,
           Enter, Lookup, Destroy, SetEpoch, NumberDiff, InsertDiff, EndCallback,
           Retain, Release, HandOver, locks
      <4>3. QED
        BY <4>1, <4>2
    <3>2. ~ Snapshotting(t) \/ call'[t] = call[t]
      BY <2>5 DEF Steps, RegisterLease, LeaseSection, Create, Begin, Insert,
         Enter, Lookup, Destroy, SetEpoch, ApplyBatch, NumberDiff, InsertDiff,
         EndCallback, Retain, Release, HandOver, Snapshotting, At
    <3>3. ~ Snapshotting(t)' \/ call'[t] = call[t]
      <4>1. CASE Lookup(t)
        <5>1. call[t] \in Call /\ call[t].at = "lookup" /\
              (call'[t] = Absent \/ call'[t] = [call[t] EXCEPT !.at = "core"])
          BY <4>1 DEF Lookup, GoTo, Return, TypeOK
        <5>2. [call[t] EXCEPT !.at = "core"].at = "core"
          BY <5>1 DEF Call
        <5>3. QED
          BY <5>1, <5>2 DEF Snapshotting, At
      <4>2. CASE RegisterLease(t) \/ LeaseSection(t)
        BY <4>2, LeaseEffect DEF Snapshotting, At
      <4>3. CASE ~ Lookup(t) /\ ~ RegisterLease(t) /\ ~ LeaseSection(t)
        BY <2>5, <4>3 DEF Steps, Create, Begin, Insert, Enter, Destroy, SetEpoch,
           ApplyBatch, NumberDiff, InsertDiff, Return, EndCallback, Retain, Release,
           HandOver, Snapshotting, At, TypeOK
      <4>4. QED
        BY <4>1, <4>2, <4>3
    <3>4. QED
      BY <2>1, <2>2, <3>1, <3>2, <3>3 DEF Snapshotting, At
  <2>6. QED
    BY <2>3, <2>4, <2>5
<1>3. QED
  BY <1>1, <1>2 DEF LockHolders

-----------------------------------------------------------------------------
(* What snapshots and diffs show *)

(* What an entry shows never changes; a new one shows its core as it is. *)
LEMMA SnapshotEffect ==
  ASSUME TypeOK, NumbersUnused, CoresMade, NEW t \in Threads, Steps(t),
         NEW h \in Handles, snapshots'[h] # Absent
  PROVE  \/ /\ snapshots[h] # Absent
            /\ snapshots'[h].value = snapshots[h].value
         \/ /\ InsertSnapshot(t) /\ Snapshotting(t) /\ call'[t] = Absent
            /\ call[t].handle = h /\ snapshots[h] = Absent
            /\ call[t].core \in Handles /\ snapshots'[h].value.core = call[t].core
            /\ \E c \in Handles :
                 /\ c = call[t].core /\ state[c] # Absent
                 /\ snapshots'[h].value =
                      [core |-> c, revision |-> state[c].revision,
                       epoch |-> state[c].epoch]
<1>1. CASE InsertSnapshot(t)
  <2>1. call'[t] = Absent
    BY <1>1 DEF InsertSnapshot, Return, TypeOK
  <2>2. PICK k \in Handles, c \in Handles, entry \in RefHandle(Snapshot) :
          /\ Snapshotting(t) /\ call[t].handle = k /\ call[t].core = c
          /\ Unused(k)
          /\ entry.value = [core |-> c, revision |-> state[c].revision,
                            epoch |-> state[c].epoch]
          /\ state[c] # Absent
          /\ snapshots' = [snapshots EXCEPT ![k] = entry]
    BY <1>1, SnapshotInserted
  <2>3. CASE h = k
    BY <1>1, <2>1, <2>2, <2>3 DEF TypeOK, Unused
  <2>4. CASE h # k
    BY <2>2, <2>4 DEF TypeOK
  <2>5. QED
    BY <2>3, <2>4
<1>2. CASE Retain(t) \/ Release(t)
  <2>1. PICK k \in Handles :
          \/ snapshots' = snapshots
          \/ snapshots[k] # Absent /\ snapshots' \in Retained(snapshots, k)
          \/ snapshots[k] # Absent /\ snapshots' = Released(snapshots, k)
    BY <1>2 DEF Retain, Release, Has
  <2>2. /\ snapshots \in [Handles -> RefHandle(Snapshot) \cup {Absent}]
        /\ Absent \notin RefHandle(Snapshot)
    BY AbsentIsNoValue DEF TypeOK, AbsentIsNoValue
  <2>3. CASE snapshots' = snapshots
    BY <2>3
  <2>4. CASE snapshots[k] # Absent /\ snapshots' \in Retained(snapshots, k)
    <3>1. snapshots'[k].value = snapshots[k].value
          /\ \A g \in Handles \ {k} : snapshots'[g] = snapshots[g]
      BY <2>2, <2>4, EntryRetained
    <3>2. QED
      BY <2>4, <3>1
  <2>5. CASE snapshots[k] # Absent /\ snapshots' = Released(snapshots, k)
    <3>1. (snapshots'[k] = Absent \/ snapshots'[k].value = snapshots[k].value)
          /\ \A g \in Handles \ {k} : snapshots'[g] = snapshots[g]
      BY <2>2, <2>5, EntryReleased
    <3>2. QED
      BY <2>5, <3>1
  <2>6. QED
    BY <2>1, <2>3, <2>4, <2>5
<1>3. CASE snapshots' = snapshots
  BY <1>3
<1>4. QED
  BY <1>1, <1>2, <1>3 DEF Steps, RegisterLease, LeaseSection, Create, Insert,
     Enter, Lookup, Destroy, SetEpoch, NumberSnapshot, ApplyBatch, NumberDiff,
     InsertDiff, EndCallback, HandOver, tables

LEMMA DiffEffect ==
  ASSUME TypeOK, NumbersUnused, CoresMade, NEW t \in Threads, Steps(t),
         NEW h \in Handles, diffs'[h] # Absent
  PROVE  \/ /\ diffs[h] # Absent
            /\ diffs'[h].value = diffs[h].value
         \/ /\ InsertDiff(t) /\ Publishing(t) /\ call[t].at = "insert"
            /\ call'[t] = Absent
            /\ call[t].handle = h /\ diffs[h] = Absent
            /\ diffs'[h].value = call[t].diff
<1>1. CASE InsertDiff(t)
  <2>1. call'[t] = Absent
    BY <1>1 DEF InsertDiff, Return, TypeOK
  <2>2. PICK k \in Handles, entry \in RefHandle(Diff) :
          /\ Publishing(t) /\ call[t].at = "insert" /\ call[t].handle = k
          /\ Unused(k)
          /\ entry.value = call[t].diff
          /\ diffs' = [diffs EXCEPT ![k] = entry]
    BY <1>1, DiffInserted
  <2>3. CASE h = k
    BY <1>1, <2>1, <2>2, <2>3 DEF TypeOK, Unused
  <2>4. CASE h # k
    BY <2>2, <2>4 DEF TypeOK
  <2>5. QED
    BY <2>3, <2>4
<1>2. CASE Retain(t) \/ Release(t)
  <2>1. PICK k \in Handles :
          \/ diffs' = diffs
          \/ diffs[k] # Absent /\ diffs' \in Retained(diffs, k)
          \/ diffs[k] # Absent /\ diffs' = Released(diffs, k)
    BY <1>2 DEF Retain, Release, Has
  <2>2. /\ diffs \in [Handles -> RefHandle(Diff) \cup {Absent}]
        /\ Absent \notin RefHandle(Diff)
    BY AbsentIsNoValue DEF TypeOK, AbsentIsNoValue
  <2>3. CASE diffs' = diffs
    BY <2>3
  <2>4. CASE diffs[k] # Absent /\ diffs' \in Retained(diffs, k)
    <3>1. diffs'[k].value = diffs[k].value
          /\ \A g \in Handles \ {k} : diffs'[g] = diffs[g]
      BY <2>2, <2>4, EntryRetained
    <3>2. QED
      BY <2>4, <3>1
  <2>5. CASE diffs[k] # Absent /\ diffs' = Released(diffs, k)
    <3>1. (diffs'[k] = Absent \/ diffs'[k].value = diffs[k].value)
          /\ \A g \in Handles \ {k} : diffs'[g] = diffs[g]
      BY <2>2, <2>5, EntryReleased
    <3>2. QED
      BY <2>5, <3>1
  <2>6. QED
    BY <2>1, <2>3, <2>4, <2>5
<1>3. CASE diffs' = diffs
  BY <1>3
<1>4. QED
  BY <1>1, <1>2, <1>3 DEF Steps, RegisterLease, LeaseSection, Create, Insert,
     Enter, Lookup, Destroy, SetEpoch, NumberSnapshot, ApplyBatch, NumberDiff,
     InsertSnapshot, EndCallback, HandOver, tables

(* A call that is about to insert a snapshot was, or has its number now. *)
LEMMA SnapshottingEffect ==
  ASSUME TypeOK, NEW t \in Threads, Steps(t), NEW u \in Threads, Snapshotting(u)'
  PROVE  \/ Snapshotting(u) /\ call'[u] = call[u]
         \/ /\ u = t /\ call'[t].handle = next
            /\ snapshots' = snapshots
<1>1. CASE call'[u] = call[u]
  BY <1>1 DEF Snapshotting, At
<1>2. CASE call'[u] # call[u]
  <2>1. u = t
    BY <1>2, NumberEffect
  <2>2. call'[t].handle = next
    BY <1>2, <2>1, NumberEffect DEF Snapshotting, At
  <2>3. ~ InsertSnapshot(t) /\ ~ Retain(t) /\ ~ Release(t)
    BY <1>2, <2>1 DEF InsertSnapshot, Return, Retain, Release, Snapshotting, At, TypeOK
  <2>4. snapshots' = snapshots
    BY <2>3 DEF Steps, RegisterLease, LeaseSection, Create, Insert, Enter,
       Lookup, Destroy, SetEpoch, NumberSnapshot, ApplyBatch, NumberDiff,
       InsertDiff, EndCallback, HandOver, tables
  <2>5. QED
    BY <2>1, <2>2, <2>4
<1>3. QED
  BY <1>1, <1>2

(* A call that has a diff to publish had it, or applies the batch now. *)
LEMMA PublishingEffect ==
  ASSUME TypeOK, CoresMade, NEW t \in Threads, Steps(t), NEW u \in Threads,
         Publishing(u)'
  PROVE  \/ /\ Publishing(u) /\ call'[u].diff = call[u].diff
            /\ call'[u].at = "insert" =>
                 \/ call[u].at = "insert" /\ call'[u].handle = call[u].handle
                 \/ /\ call'[u].handle = next
                    /\ UNCHANGED <<snapshots, diffs>>
         \/ /\ u = t /\ call'[t].at = "number"
            /\ UNCHANGED <<snapshots, diffs>>
            /\ \E c \in Handles :
                 /\ state[c] # Absent /\ state[c].owner = t
                 /\ state' = [state EXCEPT ![c].revision = @ + 1]
                 /\ call'[t].diff =
                      [core |-> c, previous |-> state[c].revision,
                       revision |-> state[c].revision + 1, epoch |-> state[c].epoch]
<1>1. CASE call'[u] = call[u]
  BY <1>1 DEF Publishing
<1>2. CASE call'[u] # call[u]
  <2>1. u = t
    BY <1>2, NumberEffect
  <2>2. CASE ApplyBatch(t)
    <3>1. call[t] # Absent /\ call[t].at = "core"
      BY <2>2 DEF ApplyBatch, At
    <3>2. PICK c \in Handles : c = call[t].core /\ state[c] \in CoreState
      BY <3>1, CallsCore
    <3>3. ~ Return(t)
      BY <2>1 DEF Return, Publishing, TypeOK
    <3>4. /\ state[c].owner = t
          /\ state' = [state EXCEPT ![c].revision = @ + 1]
          /\ call' = [call EXCEPT ![t] =
               [op |-> "submit", at |-> "number",
                diff |-> [core |-> c, previous |-> state[c].revision,
                          revision |-> state[c].revision + 1,
                          epoch |-> state[c].epoch]]]
          /\ UNCHANGED <<snapshots, diffs>>
      BY <2>2, <3>2, <3>3 DEF ApplyBatch, tables
    <3>5. QED
      BY <2>1, <3>2, <3>4, AbsentIsNoValue DEF TypeOK, AbsentIsNoValue
  <2>3. CASE NumberDiff(t)
    <3>1. /\ call[t] # Absent /\ call[t].op = "submit" /\ call[t].at = "number"
          /\ UNCHANGED <<snapshots, diffs>>
          /\ call' = [call EXCEPT ![t] = [op |-> "submit", at |-> "insert",
                                          diff |-> call[t].diff, handle |-> next]]
      BY <2>3 DEF NumberDiff, At, Fresh, tables
    <3>2. QED
      BY <2>1, <3>1 DEF Publishing, TypeOK
  <2>4. CASE Lookup(t)
    <3>1. call[t] \in Call /\ call[t].at = "lookup" /\
          (call'[t] = Absent \/ call'[t] = [call[t] EXCEPT !.at = "core"])
      BY <2>4 DEF Lookup, GoTo, Return, TypeOK
    <3>2. [call[t] EXCEPT !.at = "core"].at = "core"
      BY <3>1 DEF Call
    <3>3. QED
      BY <2>1, <3>1, <3>2 DEF Publishing
  <2>5. CASE Return(t)
    BY <2>1, <2>5 DEF Return, Publishing, TypeOK
  <2>6. CASE Create(t) \/ Enter(t) \/ NumberSnapshot(t)
    BY <2>1, <2>6 DEF Create, Enter, Begin, NumberSnapshot, Publishing, TypeOK
  <2>7. CASE RegisterLease(t) \/ LeaseSection(t)
    BY <2>1, <2>7, LeaseEffect DEF Publishing
  <2>8. QED
    BY <1>2, <2>2, <2>3, <2>4, <2>5, <2>6, <2>7 DEF Steps, Insert, Destroy,
       SetEpoch, InsertSnapshot, InsertDiff, EndCallback, Retain, Release,
       HandOver
<1>3. QED
  BY <1>1, <1>2

\* The types of what entries and diffs show.
ValueTypes ==
  /\ \A h \in Handles :
       /\ snapshots[h] # Absent => snapshots[h].value \in Snapshot
       /\ diffs[h] # Absent => diffs[h].value \in Diff
  /\ \A t \in Threads : Publishing(t) => call[t].diff \in Diff

LEMMA ValuesTyped ==
  ASSUME TypeOK
  PROVE  ValueTypes
  BY CallFields DEF TypeOK, ValueTypes, RefHandle, Publishing

(* What is not ahead of its core stays so. *)
LEMMA BehindStays ==
  ASSUME TypeOK, TypeOK', NumbersUnused, CoresMade, NEW t \in Threads, Steps(t),
         NEW value, value.core \in Handles, value.revision \in Nat,
         value.epoch \in Nat, Behind(value)
  PROVE  Behind(value)'
<1> PICK c \in Handles : c = value.core
  OBVIOUS
<1>1. state[c] # Absent
  BY DEF Behind
<1>2. /\ state'[c] # Absent
      /\ state[c].revision \in Nat /\ state'[c].revision \in Nat
      /\ state[c].epoch \in Nat /\ state'[c].epoch \in Nat
      /\ state[c].revision <= state'[c].revision
      /\ state[c].epoch <= state'[c].epoch
  BY <1>1, StateGrows
<1>3. QED
  BY <1>2 DEF Behind

(* A core's own state is not ahead of it. *)
LEMMA CoreBehind ==
  ASSUME TypeOK, TypeOK', NumbersUnused, CoresMade, NEW t \in Threads, Steps(t),
         NEW c \in Handles, state[c] # Absent, NEW value,
         value = [core |-> c, revision |-> state[c].revision,
                  epoch |-> state[c].epoch]
  PROVE  Behind(value)'
  BY StateGrows DEF Behind

LEMMA EntriesStep ==
  ASSUME TypeOK, TypeOK', NumbersUnused, CoresMade, EntriesBehind, DiffsPending,
         NEW t \in Threads, Steps(t)
  PROVE  EntriesBehind'
<1>1. ValueTypes
  BY ValuesTyped
<1>2. ASSUME NEW h \in Handles, snapshots'[h] # Absent
      PROVE  Behind(snapshots[h].value)'
  <2>1. CASE snapshots[h] # Absent /\ snapshots'[h].value = snapshots[h].value
    <3>1. PICK v \in Snapshot : v = snapshots[h].value
      BY <1>1, <2>1 DEF ValueTypes
    <3>2. Behind(v)
      BY <2>1, <3>1 DEF EntriesBehind
    <3>3. Behind(v)'
      BY <3>2, BehindStays DEF Snapshot, Revisions, Epochs
    <3>4. QED
      BY <2>1, <3>1, <3>3 DEF Behind
  <2>2. CASE \E c \in Handles :
               /\ state[c] # Absent
               /\ snapshots'[h].value = [core |-> c, revision |-> state[c].revision,
                                         epoch |-> state[c].epoch]
    <3>0. PICK c \in Handles :
            /\ state[c] # Absent
            /\ snapshots'[h].value = [core |-> c, revision |-> state[c].revision,
                                      epoch |-> state[c].epoch]
      BY <2>2
    <3>1. PICK v : /\ v = snapshots'[h].value
                   /\ v = [core |-> c, revision |-> state[c].revision,
                           epoch |-> state[c].epoch]
      BY <3>0
    <3>2. Behind(v)'
      BY <3>0, <3>1, CoreBehind
    <3>3. QED
      BY <3>1, <3>2 DEF Behind
  <2>3. QED
    BY <1>2, <2>1, <2>2, SnapshotEffect
<1>3. ASSUME NEW h \in Handles, diffs'[h] # Absent
      PROVE  Behind(diffs[h].value)'
  <2>1. PICK v \in Diff : v = diffs'[h].value /\ Behind(v)
    <3>1. CASE diffs[h] # Absent /\ diffs'[h].value = diffs[h].value
      BY <1>1, <3>1 DEF EntriesBehind, ValueTypes
    <3>2. CASE Publishing(t) /\ diffs'[h].value = call[t].diff
      BY <1>1, <3>2 DEF DiffsPending, ValueTypes
    <3>3. QED
      BY <1>3, <3>1, <3>2, DiffEffect
  <2>2. Behind(v)'
    BY <2>1, BehindStays DEF Diff, Revisions, Epochs
  <2>3. QED
    BY <2>1, <2>2 DEF Behind
<1>4. QED
  BY <1>2, <1>3 DEF EntriesBehind

LEMMA SnapshotsPendingStep ==
  ASSUME TypeOK, NumbersUnused, CoresMade, LockHolders, SnapshotsPending,
         NEW t \in Threads, Steps(t)
  PROVE  SnapshotsPending'
<1> USE HandlesAssumption DEF HandlesAssumption
<1>1. SUFFICES ASSUME NEW u \in Threads, NEW h \in Handles, Snapshotting(u)',
                      snapshots'[h] # Absent,
                      snapshots'[h].value.core = call'[u].core
               PROVE  h < call'[u].handle
  BY DEF SnapshotsPending
<1>2. CASE u = t /\ call'[t].handle = next /\ snapshots' = snapshots
  BY <1>1, <1>2 DEF NumbersUnused, Unused, Handles, TypeOK
<1>3. CASE Snapshotting(u) /\ call'[u] = call[u]
  <2>1. CASE snapshots[h] # Absent /\ snapshots'[h].value = snapshots[h].value
    BY <1>1, <1>3, <2>1 DEF SnapshotsPending
  <2>2. CASE ~ (snapshots[h] # Absent /\ snapshots'[h].value = snapshots[h].value)
    <3>1. /\ Snapshotting(t) /\ call'[t] = Absent
          /\ snapshots'[h].value.core = call[t].core
          /\ call[t].core \in Handles
      BY <1>1, <2>2, SnapshotEffect
    <3>2. u # t
      BY <1>3, <3>1 DEF Snapshotting, At
    <3>3. coreLock[call[t].core] = t /\ coreLock[call[t].core] = u
      BY <1>1, <1>3, <3>1 DEF LockHolders
    <3>4. QED
      BY <3>2, <3>3
  <2>3. QED
    BY <2>1, <2>2
<1>4. QED
  BY <1>1, <1>2, <1>3, SnapshottingEffect

LEMMA DiffsPendingStep ==
  ASSUME TypeOK, TypeOK', NumbersUnused, CoresMade, EntriesBehind, DiffsPending,
         NEW t \in Threads, Steps(t)
  PROVE  DiffsPending'
<1> USE HandlesAssumption DEF HandlesAssumption
<1>1. ValueTypes
  BY ValuesTyped
<1>2. SUFFICES
        ASSUME NEW u \in Threads, Publishing(u)', NEW d, d = call'[u].diff
        PROVE  /\ Behind(d)'
               /\ state'[d.core].owner = u
               /\ \A h \in Handles :
                    diffs'[h] # Absent /\ diffs'[h].value.core = d.core =>
                      /\ diffs'[h].value.revision <= d.previous
                      /\ diffs'[h].value.epoch <= d.epoch
                      /\ call'[u].at = "insert" => h < call'[u].handle
               /\ call'[u].at = "insert" =>
                    \A h \in Handles :
                      snapshots'[h] # Absent /\ snapshots'[h].value.core = d.core
                        /\ call'[u].handle < h =>
                        /\ d.revision <= snapshots'[h].value.revision
                        /\ d.epoch <= snapshots'[h].value.epoch
  BY DEF DiffsPending, Behind
<1>3. CASE /\ Publishing(u) /\ call'[u].diff = call[u].diff
           /\ call'[u].at = "insert" =>
                \/ call[u].at = "insert" /\ call'[u].handle = call[u].handle
                \/ /\ call'[u].handle = next
                   /\ UNCHANGED <<snapshots, diffs>>
  <2>1. d \in Diff /\ d = call[u].diff
    BY <1>1, <1>2, <1>3 DEF ValueTypes
  <2>2. Behind(d) /\ state[d.core].owner = u
    BY <1>3, <2>1 DEF DiffsPending
  <2>3. Behind(d)'
    BY <2>1, <2>2, BehindStays DEF Diff, Revisions, Epochs
  <2>4. state'[d.core].owner = u
    BY <2>1, <2>2, StateGrows DEF Diff, Behind
  <2>5. next \in Nat
    BY DEF TypeOK
  <2>6. ASSUME NEW h \in Handles, diffs'[h] # Absent, diffs'[h].value.core = d.core
        PROVE  /\ diffs'[h].value.revision <= d.previous
               /\ diffs'[h].value.epoch <= d.epoch
               /\ call'[u].at = "insert" => h < call'[u].handle
    <3>1. CASE diffs[h] # Absent /\ diffs'[h].value = diffs[h].value
      <4>1. /\ diffs[h].value.revision <= d.previous
            /\ diffs[h].value.epoch <= d.epoch
            /\ call[u].at = "insert" => h < call[u].handle
        BY <1>3, <2>1, <2>6, <3>1 DEF DiffsPending
      <4>2. h < next
        BY <2>5, <3>1 DEF NumbersUnused, Unused, Handles
      <4>3. QED
        BY <1>3, <3>1, <4>1, <4>2
    <3>2. CASE Publishing(t) /\ call'[t] = Absent /\ diffs'[h].value = call[t].diff
      <4>1. u # t
        BY <1>2, <3>2 DEF Publishing
      <4>2. state[call[t].diff.core].owner = t
        BY <3>2 DEF DiffsPending
      <4>3. QED
        BY <2>2, <2>6, <3>2, <4>1, <4>2
    <3>3. QED
      BY <2>6, <3>1, <3>2, DiffEffect
  <2>7. ASSUME call'[u].at = "insert", NEW h \in Handles, snapshots'[h] # Absent,
               snapshots'[h].value.core = d.core, call'[u].handle < h
        PROVE  /\ d.revision <= snapshots'[h].value.revision
               /\ d.epoch <= snapshots'[h].value.epoch
    <3>1. CASE snapshots[h] # Absent /\ snapshots'[h].value = snapshots[h].value
      <4>1. h < next
        BY <2>5, <3>1 DEF NumbersUnused, Unused, Handles
      <4>2. call[u].at = "insert" /\ call'[u].handle = call[u].handle
        BY <1>3, <2>5, <2>7, <4>1 DEF Handles
      <4>3. QED
        BY <1>3, <2>1, <2>7, <3>1, <4>2 DEF DiffsPending
    <3>2. CASE \E c \in Handles :
                 snapshots'[h].value = [core |-> c, revision |-> state[c].revision,
                                        epoch |-> state[c].epoch]
      BY <2>2, <2>7, <3>2 DEF Behind
    <3>3. QED
      BY <2>7, <3>1, <3>2, SnapshotEffect
  <2>8. QED
    BY <2>3, <2>4, <2>6, <2>7
<1>4. CASE /\ u = t /\ call'[t].at = "number"
           /\ UNCHANGED <<snapshots, diffs>>
           /\ \E c \in Handles :
                /\ state[c] # Absent /\ state[c].owner = t
                /\ state' = [state EXCEPT ![c].revision = @ + 1]
                /\ call'[t].diff =
                     [core |-> c, previous |-> state[c].revision,
                      revision |-> state[c].revision + 1, epoch |-> state[c].epoch]
  <2>1. PICK c \in Handles :
          /\ state[c] # Absent /\ state[c].owner = t
          /\ state' = [state EXCEPT ![c].revision = @ + 1]
          /\ d = [core |-> c, previous |-> state[c].revision,
                  revision |-> state[c].revision + 1, epoch |-> state[c].epoch]
    BY <1>2, <1>4
  <2>2. state[c] \in CoreState /\ state[c].revision \in Nat /\ state[c].epoch \in Nat
    BY <2>1 DEF TypeOK, CoreState, Revisions, Epochs
  <2>3. state'[c].owner = t /\ state'[c] # Absent
    BY <2>1, StateGrows
  <2>4. state'[c] = [state[c] EXCEPT !.revision = @ + 1]
    BY <2>1 DEF TypeOK
  <2>5. state'[c].revision = state[c].revision + 1 /\ state'[c].epoch = state[c].epoch
    BY <2>2, <2>4 DEF CoreState
  <2>6. Behind(d)'
    BY <2>1, <2>2, <2>3, <2>5 DEF Behind
  <2>7. ASSUME NEW h \in Handles, diffs'[h] # Absent, diffs'[h].value.core = d.core
        PROVE  /\ diffs'[h].value.revision <= d.previous
               /\ diffs'[h].value.epoch <= d.epoch
    BY <1>4, <2>1, <2>7 DEF EntriesBehind, Behind
  <2>8. QED
    BY <1>4, <2>1, <2>3, <2>6, <2>7
<1>5. QED
  BY <1>2, <1>3, <1>4, PublishingEffect

LEMMA LaterStep ==
  ASSUME TypeOK, NumbersUnused, CoresMade, EntriesBehind, DiffsPending,
         SnapshotsPending, LaterHandlesSeeLater, NEW t \in Threads, Steps(t)
  PROVE  LaterHandlesSeeLater'
<1> SUFFICES ASSUME NEW g \in Handles, NEW h \in Handles, g < h
             PROVE  /\ snapshots'[g] # Absent /\ snapshots'[h] # Absent
                         /\ snapshots'[g].value.core = snapshots'[h].value.core =>
                       /\ snapshots'[g].value.revision <= snapshots'[h].value.revision
                       /\ snapshots'[g].value.epoch <= snapshots'[h].value.epoch
                    /\ diffs'[g] # Absent /\ diffs'[h] # Absent
                         /\ diffs'[g].value.core = diffs'[h].value.core =>
                       /\ diffs'[g].value.revision <= diffs'[h].value.previous
                       /\ diffs'[g].value.epoch <= diffs'[h].value.epoch
                    /\ diffs'[g] # Absent /\ snapshots'[h] # Absent
                         /\ diffs'[g].value.core = snapshots'[h].value.core =>
                       /\ diffs'[g].value.revision <= snapshots'[h].value.revision
                       /\ diffs'[g].value.epoch <= snapshots'[h].value.epoch
  BY DEF LaterHandlesSeeLater
<1> DEFINE OldSnapshot(k) == /\ snapshots[k] # Absent
                             /\ snapshots'[k].value = snapshots[k].value
           OldDiff(k) == diffs[k] # Absent /\ diffs'[k].value = diffs[k].value
<1>1. g \in Nat /\ h \in Nat
  BY DEF Handles
<1>2. ASSUME snapshots'[g] # Absent, snapshots'[h] # Absent,
             snapshots'[g].value.core = snapshots'[h].value.core
      PROVE  /\ snapshots'[g].value.revision <= snapshots'[h].value.revision
             /\ snapshots'[g].value.epoch <= snapshots'[h].value.epoch
  <2>1. CASE OldSnapshot(g) /\ OldSnapshot(h)
    BY <1>2, <2>1 DEF LaterHandlesSeeLater
  <2>2. CASE OldSnapshot(g) /\ ~ OldSnapshot(h)
    <3>1. PICK c \in Handles :
            snapshots'[h].value = [core |-> c, revision |-> state[c].revision,
                                   epoch |-> state[c].epoch]
      BY <1>2, <2>2, SnapshotEffect
    <3>2. QED
      BY <1>2, <2>2, <3>1 DEF EntriesBehind, Behind
  <2>3. CASE ~ OldSnapshot(g) /\ OldSnapshot(h)
    <3>1. Snapshotting(t) /\ call[t].handle = g
            /\ snapshots'[g].value.core = call[t].core
      BY <1>2, <2>3, SnapshotEffect
    <3>2. h < g
      BY <1>2, <2>3, <3>1 DEF SnapshotsPending
    <3>3. QED
      BY <1>1, <3>2
  <2>4. CASE ~ OldSnapshot(g) /\ ~ OldSnapshot(h)
    <3>1. call[t].handle = g /\ call[t].handle = h
      BY <1>2, <2>4, SnapshotEffect
    <3>2. QED
      BY <1>1, <3>1
  <2>5. QED
    BY <2>1, <2>2, <2>3, <2>4
<1>3. ASSUME diffs'[g] # Absent, diffs'[h] # Absent,
             diffs'[g].value.core = diffs'[h].value.core
      PROVE  /\ diffs'[g].value.revision <= diffs'[h].value.previous
             /\ diffs'[g].value.epoch <= diffs'[h].value.epoch
  <2>1. CASE OldDiff(g) /\ OldDiff(h)
    BY <1>3, <2>1 DEF LaterHandlesSeeLater
  <2>2. CASE OldDiff(g) /\ ~ OldDiff(h)
    <3>1. Publishing(t) /\ diffs'[h].value = call[t].diff
      BY <1>3, <2>2, DiffEffect
    <3>2. QED
      BY <1>3, <2>2, <3>1 DEF DiffsPending
  <2>3. CASE ~ OldDiff(g) /\ OldDiff(h)
    <3>1. Publishing(t) /\ call[t].at = "insert" /\ call[t].handle = g
            /\ diffs'[g].value = call[t].diff
      BY <1>3, <2>3, DiffEffect
    <3>2. h < g
      BY <1>3, <2>3, <3>1 DEF DiffsPending
    <3>3. QED
      BY <1>1, <3>2
  <2>4. CASE ~ OldDiff(g) /\ ~ OldDiff(h)
    <3>1. call[t].handle = g /\ call[t].handle = h
      BY <1>3, <2>4, DiffEffect
    <3>2. QED
      BY <1>1, <3>1
  <2>5. QED
    BY <2>1, <2>2, <2>3, <2>4
<1>4. ASSUME diffs'[g] # Absent, snapshots'[h] # Absent,
             diffs'[g].value.core = snapshots'[h].value.core
      PROVE  /\ diffs'[g].value.revision <= snapshots'[h].value.revision
             /\ diffs'[g].value.epoch <= snapshots'[h].value.epoch
  <2>1. CASE OldDiff(g) /\ OldSnapshot(h)
    BY <1>4, <2>1 DEF LaterHandlesSeeLater
  <2>2. CASE OldDiff(g) /\ ~ OldSnapshot(h)
    <3>1. PICK c \in Handles :
            snapshots'[h].value = [core |-> c, revision |-> state[c].revision,
                                   epoch |-> state[c].epoch]
      BY <1>4, <2>2, SnapshotEffect
    <3>2. QED
      BY <1>4, <2>2, <3>1 DEF EntriesBehind, Behind
  <2>3. CASE ~ OldDiff(g) /\ OldSnapshot(h)
    <3>1. Publishing(t) /\ call[t].at = "insert" /\ call[t].handle = g
            /\ diffs'[g].value = call[t].diff
      BY <1>4, <2>3, DiffEffect
    <3>2. QED
      BY <1>4, <2>3, <3>1 DEF DiffsPending
  <2>4. CASE ~ OldDiff(g) /\ ~ OldSnapshot(h)
    <3>1. call[t] # Absent /\ call[t].op = "submit" /\ call[t].op = "snapshot"
      BY <1>4, <2>4, DiffEffect, SnapshotEffect DEF Publishing, Snapshotting, At
    <3>2. QED
      BY <3>1
  <2>5. QED
    BY <2>1, <2>2, <2>3, <2>4
<1>5. QED
  BY <1>2, <1>3, <1>4

-----------------------------------------------------------------------------
(* The theorems *)

LEMMA InitInv == Init => Inv
<1> SUFFICES ASSUME Init PROVE Inv
  OBVIOUS
<1> USE HandlesAssumption DEF HandlesAssumption
<1>1. TypeOK
  BY DEF Init, TypeOK
<1>2. NumbersUnused /\ CoresMade
  BY DEF Init, NumbersUnused, CoresMade, Unused, Inserting
<1>3. LockHolders
  BY DEF Init, LockHolders, Snapshotting, At
<1>4. EntriesBehind /\ DiffsPending /\ SnapshotsPending /\ LaterHandlesSeeLater
  BY DEF Init, EntriesBehind, DiffsPending, SnapshotsPending, LaterHandlesSeeLater,
         Publishing
<1>5. RefsMatchOwners
  <2>1. owned \in Held /\ \A h \in Handles : \A t \in Threads : owned[t][h] = 0
    BY DEF Init, Held
  <2>2. \A h \in Handles : Total(h) = 0
    BY <2>1, NoReferences DEF Total
  <2>3. \A h \in Handles : CountIs(h, Total(h))
    BY <2>2 DEF Init, CountIs
  <2>4. QED
    BY <1>1, <2>3, RefsMatchOneByOne
<1>6. QED
  BY <1>1, <1>2, <1>3, <1>4, <1>5 DEF Inv

LEMMA StepInv == Inv /\ [Next]_vars => Inv'
<1> SUFFICES ASSUME Inv, [Next]_vars PROVE Inv'
  OBVIOUS
<1>1. CASE UNCHANGED vars
  <2>1. UNCHANGED <<next, cores, state, coresLock, coreLock, snapshots, diffs, call,
                    callback, owned>>
    BY <1>1 DEF vars, locks, tables
  <2>2. TypeOK' /\ NumbersUnused' /\ CoresMade' /\ LockHolders'
    BY <2>1 DEF Inv, TypeOK, NumbersUnused, CoresMade, LockHolders, Unused,
                Inserting, Snapshotting, At
  <2>3. EntriesBehind' /\ DiffsPending' /\ SnapshotsPending' /\ LaterHandlesSeeLater'
    BY <2>1 DEF Inv, EntriesBehind, DiffsPending, SnapshotsPending, Behind,
                LaterHandlesSeeLater, Publishing, Snapshotting, At
  <2>4. RefsMatchOwners'
    BY <2>1 DEF Inv, RefsMatchOwners, Total
  <2>5. QED
    BY <2>2, <2>3, <2>4 DEF Inv
<1>2. ASSUME NEW t \in Threads, Steps(t)
      PROVE  Inv'
  <2>1. TypeOK'
    BY <1>2, TypeStep DEF Inv
  <2>2. NumbersUnused' /\ CoresMade' /\ LockHolders'
    BY <1>2, <2>1, NumbersStep, CoresStep, LocksStep DEF Inv
  <2>3. EntriesBehind' /\ DiffsPending' /\ SnapshotsPending'
    BY <1>2, <2>1, EntriesStep, DiffsPendingStep, SnapshotsPendingStep DEF Inv
  <2>4. RefsMatchOwners' /\ LaterHandlesSeeLater'
    BY <1>2, <2>1, RefsStep, LaterStep DEF Inv
  <2>5. QED
    BY <2>1, <2>2, <2>3, <2>4 DEF Inv
<1>3. QED
  BY <1>1, <1>2 DEF Next, Steps

LEMMA InvHolds == Spec => []Inv
  BY InitInv, StepInv, PTL DEF Spec

(* Values are of the code's types, and no counter exceeds its limit, for any *)
(* number of threads and handles.                                            *)
THEOREM HandlesTypeOK == Spec => []TypeOK
<1>1. Inv => TypeOK
  BY DEF Inv
<1>2. QED
  BY <1>1, InvHolds, PTL

(* Every entry counts exactly the references the threads have, through any   *)
(* interleaving of retain, release and hand-over (lib.rs:647-674).           *)
THEOREM HandlesRefsMatchOwners == Spec => []RefsMatchOwners
<1>1. Inv => RefsMatchOwners
  BY DEF Inv
<1>2. QED
  BY <1>1, InvHolds, PTL

(* A larger number shows a later state of its core, although diffs take      *)
(* theirs after the core is unlocked (lib.rs:560-568, 625-632).              *)
THEOREM HandlesLaterSeeLater == Spec => []LaterHandlesSeeLater
<1>1. Inv => LaterHandlesSeeLater
  BY DEF Inv
<1>2. QED
  BY <1>1, InvHolds, PTL

(* A thread that waits for CORES waits for a destroy, which waits for a core, *)
(* which a snapshot holds, which waits for nothing.                          *)
LEMMA NoCircularWait ==
  ASSUME TypeOK, LockHolders
  PROVE  NobodyDeadlocked
<1> USE HandlesAssumption DEF HandlesAssumption
<1>1. ASSUME NEW t \in Threads, Snapshotting(t)
      PROVE  Blockers(t) = {}
  BY <1>1 DEF Snapshotting, At, Blockers
<1>2. ASSUME NEW t \in Threads, call[t] # Absent, call[t].at = "core", NEW u \in Blockers(t)
      PROVE  u \in Threads /\ Snapshotting(u)
  <2>1. call[t] \in Call /\ call[t].core \in Handles /\ call[t].op # "create"
    BY <1>2, CallFields DEF TypeOK
  <2>2. u = coreLock[call[t].core] /\ u # Absent
    BY <1>2, <2>1 DEF Blockers
  <2>3. u \in Threads
    BY <2>1, <2>2 DEF TypeOK
  <2>4. QED
    BY <2>1, <2>2, <2>3 DEF LockHolders
<1>3. ASSUME NEW t \in Threads, call[t] # Absent,
             call[t].at = "lookup" \/ call[t].op = "create", NEW u \in Blockers(t)
      PROVE  u \in Threads /\ At(u, "destroy", "core")
  <2>1. call[t].at # "core"
    BY <1>3, CallFields DEF TypeOK
  <2>2. u = coresLock /\ u # Absent
    BY <1>3, <2>1 DEF Blockers
  <2>3. u \in Threads
    BY <2>2 DEF TypeOK
  <2>4. QED
    BY <2>2, <2>3 DEF LockHolders
<1>4. ASSUME NEW t \in Threads, NEW u \in Blockers(t)
      PROVE  /\ u \in Threads
             /\ \/ Snapshotting(u)
                \/ At(u, "destroy", "core")
  BY <1>2, <1>3, <1>4 DEF Blockers
<1>5. SUFFICES ASSUME NEW waiting \in (SUBSET Threads) \ {{}},
                      \A t \in waiting : Blockers(t) \cap waiting # {}
               PROVE  FALSE
  BY DEF NobodyDeadlocked
<1>6. PICK t \in waiting : TRUE
  BY <1>5
<1>7. PICK u \in waiting : u \in Blockers(t)
  BY <1>5
<1>8. PICK v \in waiting : v \in Blockers(u)
  BY <1>5
<1>9. ~ Snapshotting(u) /\ ~ Snapshotting(v)
  BY <1>1, <1>5
<1>10. At(u, "destroy", "core")
  BY <1>4, <1>5, <1>7, <1>9
<1>11. Snapshotting(v)
  BY <1>2, <1>5, <1>8, <1>10 DEF At
<1>12. QED
  BY <1>9, <1>11

(* No set of threads waits only for each other's locks, whatever the number  *)
(* of threads and cores.                                                     *)
THEOREM HandlesNobodyDeadlocked == Spec => []NobodyDeadlocked
<1>1. Inv => NobodyDeadlocked
  BY NoCircularWait DEF Inv
<1>2. QED
  BY <1>1, InvHolds, PTL
=============================================================================
