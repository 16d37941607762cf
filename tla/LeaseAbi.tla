------------------------------ MODULE LeaseAbi ------------------------------
(***************************************************************************)
(* native/c-abi: one editor core behind its opaque handle, and the threads *)
(* that call into it.                                                      *)
(*                                                                         *)
(* The handle table CORES maps a live handle to an Arc<Mutex<CoreState>>.  *)
(* A call clones the Arc under the table's lock, drops that lock, and then *)
(* takes the core's lock, once or several times.  Each critical section is *)
(* one step, so a call is a few steps, and a call that cloned the Arc goes *)
(* on with the state of a core destroyed in the meantime.  Calls that only *)
(* read (snapshot, metadata_get) change nothing: a caller may hold any     *)
(* epoch and revision that were ever current.  A call refused on entry     *)
(* (bad arguments, unknown handle, in a callback) is a stuttering step.    *)
(***************************************************************************)
EXTENDS ProjectModel, FiniteSets

CONSTANTS
  Threads,
  Devices,     \* device generations
  Commands,    \* the commands batches are made of
  Batches,     \* the batches callers submit
  MaxEpoch,    \* bounds the u64 cancellation epoch
  MaxLeases    \* bounds the lease ids handed out

Epochs == 0..MaxEpoch
LeaseIds == 1..MaxLeases

ASSUME AbiAssumption ==
  /\ Commands \subseteq Command
  /\ Batches \subseteq Seq(Commands) \ {<<>>}
  /\ MaxEpoch \in Nat
  /\ MaxLeases \in Nat
  /\ Absent \notin Threads
  /\ IsFiniteSet(Threads)

VARIABLES
  handle,      \* the entry of CORES: "none", "live" or "destroyed"
  owner,       \* CoreState.owner
  epoch,       \* CoreState.epoch
  revision,    \* CoreState.history.current_hash()
  leases,      \* CoreState.leases
  next,        \* NEXT_HANDLE, as far as leases use it
  diffs,       \* the entries of DIFFS, in the order they were published
  call,        \* the call a thread is in, and where in it
  inCallback,  \* IN_CALLBACK, a thread local
  contexts     \* history: every [epoch, revision] that was ever current

core == <<handle, owner, epoch, revision, leases>>
vars == <<core, next, diffs, call, inCallback, contexts>>

-----------------------------------------------------------------------------
(* Types *)

LeaseState == {"Registered", "Acquired", "Submitted", "Completed", "Retired"}

Context == [epoch : Epochs, revision : RevisionHash]

Lease == [state : LeaseState, owner : Threads, device : Devices,
          context : Context]

Diff == [previous : RevisionHash, revision : RevisionHash, epoch : Epochs]

\* Where a call is: before its first critical section on the core ("check"),
\* before lease_transition looks the handle up again ("lookup") and locks the
\* core ("transition"), before retire does so to remove the lease ("relookup",
\* "remove"), or before submit publishes its diff ("publish").
Call ==
       [op : {"set_epoch"}, at : {"check"}, epoch : Epochs]
  \cup [op : {"submit"}, at : {"check"}, batch : Batches, context : Context]
  \cup [op : {"submit"}, at : {"publish"}, diff : Diff]
  \cup [op : {"register"}, at : {"check"}, device : Devices, context : Context]
  \cup [op : {"acquire"}, at : {"check", "lookup", "transition"},
        lease : LeaseIds, device : Devices, context : Context]
  \cup [op : {"lease_submit"}, at : {"check", "lookup", "transition"},
        lease : LeaseIds, device : Devices, start : Context]
  \cup [op : {"discard"}, at : {"check"}, lease : LeaseIds, device : Devices]
  \cup [op : {"complete"}, at : {"transition"},
        lease : LeaseIds, device : Devices]
  \cup [op : {"retire"}, at : {"transition", "relookup", "remove"},
        lease : LeaseIds, device : Devices]

ASSUME AbsentIsNoValue == Absent \notin Lease /\ Absent \notin Call

\* Values are of the code's types, and a lease has an id that was handed out.
TypeOK ==
  /\ handle \in {"none", "live", "destroyed"}
  /\ owner \in Threads \cup {Absent}
  /\ epoch \in Epochs
  /\ revision \in RevisionHash
  /\ leases \in [LeaseIds -> Lease \cup {Absent}]
  /\ next \in 1..(MaxLeases + 1)
  /\ \A l \in LeaseIds : leases[l] # Absent => l < next
  /\ diffs \in Seq(Diff)
  /\ call \in [Threads -> Call \cup {Absent}]
  /\ inCallback \in [Threads -> BOOLEAN]
  /\ contexts \subseteq Context

Init ==
  /\ handle = "none"
  /\ owner = Absent
  /\ epoch = 0
  /\ revision = NoHash
  /\ leases = [l \in LeaseIds |-> Absent]
  /\ next = 1
  /\ diffs = <<>>
  /\ call = [t \in Threads |-> Absent]
  /\ inCallback = [t \in Threads |-> FALSE]
  /\ contexts = {}

-----------------------------------------------------------------------------
(* What the critical sections check. *)

Now == [epoch |-> epoch, revision |-> revision]

Live == handle = "live"

At(t, op, at) == call[t] # Absent /\ call[t].op = op /\ call[t].at = at

\* Mutant: the callback guard is not consulted.
MutNotReentrant(t) == TRUE

NotReentrant(t) == ~ inCallback[t]

\* Mutant: any thread may mutate the project.
MutOwnerThread(t) == TRUE

OwnerThread(t) == t = owner

\* Every command of the batch is accepted after those before it.
BatchApplies(batch) ==
  \A i \in 1..Len(batch) :
    Accepts(Replay(revision \o SubSeq(batch, 1, i - 1)), batch[i])

\* The lease exists, is of this device generation, and the caller's.
HoldsLease(t, l, device) ==
  /\ leases[l] # Absent
  /\ leases[l].device = device
  /\ leases[l].owner = t

Expected == [acquire |-> "Registered", lease_submit |-> "Acquired",
             complete |-> "Submitted", retire |-> "Completed"]

Following == [acquire |-> "Acquired", lease_submit |-> "Submitted",
              complete |-> "Completed", retire |-> "Retired"]

MayTransition(t) ==
  /\ HoldsLease(t, call[t].lease, call[t].device)
  /\ leases[call[t].lease].state = Expected[call[t].op]

\* Mutant: submitted work can be discarded.
MutDiscardable == {"Registered", "Acquired", "Submitted"}

Discardable == {"Registered", "Acquired"}

MayDiscard(t) ==
  /\ HoldsLease(t, call[t].lease, call[t].device)
  /\ leases[call[t].lease].state \in Discardable

\* Mutant: only the revision is compared.
MutLeaseIsCurrent(l) ==
  leases[l] # Absent /\ leases[l].context.revision = revision

LeaseIsCurrent(l) == leases[l] # Absent /\ leases[l].context = Now

MaySetEpoch(t) == OwnerThread(t) /\ call[t].epoch >= epoch

MaySubmit(t) ==
  OwnerThread(t) /\ call[t].context = Now /\ BatchApplies(call[t].batch)

\* What the first critical section of a call on the core requires; register
\* and acquire, that the caller's epoch and revision are the core's ...
MayBegin(t) ==
  CASE call[t].op = "set_epoch" -> MaySetEpoch(t)
    [] call[t].op = "submit" -> MaySubmit(t)
    [] call[t].op = "discard" -> MayDiscard(t)
    [] call[t].op = "lease_submit" -> LeaseIsCurrent(call[t].lease)
    [] OTHER -> call[t].context = Now

\* ... and what the one it is about to enter requires.
Permitted(t) ==
  CASE call[t].at = "check" -> MayBegin(t)
    [] call[t].at \in {"lookup", "relookup"} -> Live
    [] call[t].at = "transition" -> MayTransition(t)
    [] OTHER -> TRUE

-----------------------------------------------------------------------------
(* The core: creation, destruction, epochs and command batches. *)

Return(t) == call' = [call EXCEPT ![t] = Absent]

GoTo(t, at) == call' = [call EXCEPT ![t].at = at]

\* stitch_core_create, with any initial epoch.
Create(t) ==
  /\ handle = "none"
  /\ call[t] = Absent
  /\ handle' = "live"
  /\ owner' = t
  /\ epoch' \in Epochs
  /\ contexts' = {[epoch |-> epoch', revision |-> revision]}
  /\ UNCHANGED <<revision, leases, next, diffs, call, inCallback>>

\* Mutant: destruction does not look at the leases.
MutNoLeases == TRUE

NoLeases == \A l \in LeaseIds : leases[l] = Absent

\* stitch_core_destroy holds both locks: one step.
Destroy(t) ==
  /\ Live
  /\ call[t] = Absent
  /\ NotReentrant(t)
  /\ OwnerThread(t)
  /\ NoLeases
  /\ handle' = "destroyed"
  /\ UNCHANGED <<owner, epoch, revision, leases, next, diffs, call,
                 inCallback, contexts>>

\* A call passes the entry checks and clones the Arc.
Enter(t, c) ==
  /\ Live
  /\ call[t] = Absent
  /\ NotReentrant(t)
  /\ call' = [call EXCEPT ![t] = c]
  /\ UNCHANGED <<core, next, diffs, inCallback, contexts>>

\* A critical section refuses, and the call returns its error.
Refuse(t) ==
  /\ call[t] # Absent
  /\ ~ Permitted(t)
  /\ Return(t)
  /\ UNCHANGED <<core, next, diffs, inCallback, contexts>>

SetEpoch(t) ==
  /\ At(t, "set_epoch", "check")
  /\ Permitted(t)
  /\ epoch' = call[t].epoch
  /\ contexts' = contexts \cup {[epoch |-> epoch', revision |-> revision]}
  /\ Return(t)
  /\ UNCHANGED <<handle, owner, revision, leases, next, diffs, inCallback>>

\* stitch_core_submit, under the core's lock: the batch is applied to a clone
\* of the history, which replaces it, and the diff is prepared.
Submit(t) ==
  /\ At(t, "submit", "check")
  /\ Permitted(t)
  /\ revision' = revision \o call[t].batch
  /\ contexts' = contexts \cup {[epoch |-> epoch, revision |-> revision']}
  /\ call' = [call EXCEPT ![t] =
       [op |-> "submit", at |-> "publish",
        diff |-> [previous |-> revision, revision |-> revision',
                  epoch |-> epoch]]]
  /\ UNCHANGED <<handle, owner, epoch, leases, next, diffs, inCallback>>

\* With the lock released, the diff is published and the callback is entered,
\* if the caller gave one.
Publish(t) ==
  /\ At(t, "submit", "publish")
  /\ diffs' = Append(diffs, call[t].diff)
  /\ inCallback' \in {inCallback, [inCallback EXCEPT ![t] = TRUE]}
  /\ Return(t)
  /\ UNCHANGED <<core, next, contexts>>

\* The callback returns, and stitch_core_submit with it.
CallbackReturns(t) ==
  /\ inCallback[t]
  /\ call[t] = Absent
  /\ inCallback' = [inCallback EXCEPT ![t] = FALSE]
  /\ UNCHANGED <<core, next, diffs, call, contexts>>

-----------------------------------------------------------------------------
(* Frame leases. *)

\* Mutant: the handle counter does not move.
MutNextHandle == next

NextHandle == next + 1

Register(t) ==
  /\ At(t, "register", "check")
  /\ Permitted(t)
  /\ leases' = [leases EXCEPT ![next] =
       [state |-> "Registered", owner |-> t, device |-> call[t].device,
        context |-> call[t].context]]
  /\ next' = NextHandle
  /\ Return(t)
  /\ UNCHANGED <<handle, owner, epoch, revision, diffs, inCallback, contexts>>

\* acquire and lease_submit compare epoch and revision, then drop the lock.
Check(t) ==
  /\ At(t, "acquire", "check") \/ At(t, "lease_submit", "check")
  /\ Permitted(t)
  /\ GoTo(t, "lookup")
  /\ UNCHANGED <<core, next, diffs, inCallback, contexts>>

\* lease_transition clones the Arc again.
Lookup(t) ==
  /\ call[t] # Absent
  /\ call[t].at = "lookup"
  /\ Permitted(t)
  /\ GoTo(t, "transition")
  /\ UNCHANGED <<core, next, diffs, inCallback, contexts>>

\* lease_transition under the core's lock; retire has more to do.
Transition(t) ==
  /\ call[t] # Absent
  /\ call[t].at = "transition"
  /\ Permitted(t)
  /\ leases' = [leases EXCEPT ![call[t].lease].state = Following[call[t].op]]
  /\ IF call[t].op = "retire" THEN GoTo(t, "relookup") ELSE Return(t)
  /\ UNCHANGED <<handle, owner, epoch, revision, next, diffs, inCallback,
                 contexts>>

Relookup(t) ==
  /\ At(t, "retire", "relookup")
  /\ Permitted(t)
  /\ GoTo(t, "remove")
  /\ UNCHANGED <<core, next, diffs, inCallback, contexts>>

\* The last section of retire, and the only one of discard.
Remove(t) ==
  /\ At(t, "retire", "remove") \/ At(t, "discard", "check")
  /\ Permitted(t)
  /\ leases' = [leases EXCEPT ![call[t].lease] = Absent]
  /\ Return(t)
  /\ UNCHANGED <<handle, owner, epoch, revision, next, diffs, inCallback,
                 contexts>>

-----------------------------------------------------------------------------
(* The calls a host makes.  Lease ids come from registrations; MaxLeases   *)
(* bounds those.                                                           *)

Registering == {t \in Threads : call[t] # Absent /\ call[t].op = "register"}

MayRegister == next + Cardinality(Registering) <= MaxLeases

Requests ==
       [op : {"set_epoch"}, at : {"check"}, epoch : Epochs]
  \cup [op : {"submit"}, at : {"check"}, batch : Batches, context : contexts]
  \cup [op : {"register"}, at : {"check"}, device : Devices,
        context : {x \in contexts : MayRegister}]
  \cup [op : {"acquire"}, at : {"check"}, lease : 1..(next - 1),
        device : Devices, context : contexts]
  \cup [op : {"lease_submit"}, at : {"check"}, lease : 1..(next - 1),
        device : Devices, start : {Now}]
  \cup [op : {"discard"}, at : {"check"}, lease : 1..(next - 1),
        device : Devices]
  \cup [op : {"complete", "retire"}, at : {"transition"},
        lease : 1..(next - 1), device : Devices]

Step(t) ==
  \/ Refuse(t)
  \/ SetEpoch(t)
  \/ Submit(t)
  \/ Publish(t)
  \/ Register(t)
  \/ Check(t)
  \/ Lookup(t)
  \/ Transition(t)
  \/ Relookup(t)
  \/ Remove(t)

Next ==
  \E t \in Threads :
    \/ Create(t)
    \/ Destroy(t)
    \/ \E c \in Requests : Enter(t, c)
    \/ CallbackReturns(t)
    \/ Step(t)

Spec == Init /\ [][Next]_vars

\* A call that was entered is scheduled until it returns.
FairSpec == Spec /\ \A t \in Threads : WF_vars(Step(t))

-----------------------------------------------------------------------------
(* Properties *)

LastRevision == IF diffs = <<>> THEN NoHash ELSE diffs[Len(diffs)].revision

\* Published diffs form one chain from the genesis revision to the current
\* one, except for the diff of a submit that has not published it yet: a
\* reader of DIFFS never sees a gap or a fork, whatever threads call submit.
\* (stitch_core_submit publishes after it dropped the core's lock.)
DiffsChain ==
  /\ \A i \in 1..Len(diffs) :
       diffs[i].previous = IF i = 1 THEN NoHash ELSE diffs[i - 1].revision
  /\ \/ LastRevision = revision
     \/ \E t \in Threads :
          /\ At(t, "submit", "publish")
          /\ call[t].diff.previous = LastRevision
          /\ call[t].diff.revision = revision

\* While a diff callback runs, the core still is at the revision and the epoch
\* of that diff, although the core's lock is free: a snapshot the host takes
\* in or right after the callback agrees with the diff (the check that
\* EditorController::submitDemoBatch makes).
CallbackSeesItsRevision ==
  \A t \in Threads : inCallback[t] =>
    /\ diffs # <<>>
    /\ diffs[Len(diffs)].revision = revision
    /\ diffs[Len(diffs)].epoch = epoch

\* A destroyed core holds no lease that was ever acquired: whatever calls were
\* under way, stitch_core_destroy never strands a surface the GPU may use.  (It
\* may hold a Registered one: a registration that had cloned the core returns
\* Ok, with a lease no later call can reach.)
OrphansNeverAcquired ==
  handle = "destroyed" =>
    \A l \in LeaseIds : leases[l] # Absent => leases[l].state = "Registered"

\* stitch_frame_lease_submit never submits a lease that was already stale, by
\* epoch or by revision, when the call was made: after set_epoch has returned
\* no later submit gets the cancelled frame through.
CancelledIsNotSubmitted ==
  [][\A t \in Threads, l \in LeaseIds :
       /\ At(t, "lease_submit", "transition")
       /\ call[t].lease = l
       /\ leases'[l] # leases[l]
       => /\ leases[l].context.epoch >= call[t].start.epoch
          /\ Len(leases[l].context.revision) >= Len(call[t].start.revision)]_vars

\* The frame lease protocol of the header, whatever the interleaving.
Stage(l) ==
  IF leases[l] # Absent THEN leases[l].state
  ELSE IF l < next THEN "Gone" ELSE "Free"

Protocol == INSTANCE FrameLeases
  WITH core <- handle, stage <- [l \in LeaseIds |-> Stage(l)]

ImplementsFrameLeases == Protocol!Spec

\* A retire that reported its transition also removes the lease, although it
\* looks the core up a second time: no lease stays Retired.
RetiredIsRemoved ==
  \A l \in LeaseIds :
    (leases[l] # Absent /\ leases[l].state = "Retired") ~> leases[l] = Absent

\* The header's "submit rejects a stale revision/epoch", taken at its word: a
\* lease that becomes Submitted is current at that moment.  (Refuted.)
SubmittedIsCurrent ==
  [][\A l \in LeaseIds :
       (/\ leases[l] # Absent /\ leases[l].state = "Acquired"
        /\ leases'[l] # Absent /\ leases'[l].state = "Submitted")
       => leases[l].context = Now]_vars
=============================================================================
