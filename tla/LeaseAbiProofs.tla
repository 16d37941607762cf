--------------------------- MODULE LeaseAbiProofs ---------------------------
(***************************************************************************)
(* LeaseAbi for every number of threads, leases, epochs and batches: the   *)
(* published diffs form one chain, a callback sees the revision of its     *)
(* diff, destruction strands no acquired lease, a stale lease is not       *)
(* submitted, and every interleaving keeps the protocol of FrameLeases.    *)
(***************************************************************************)
EXTENDS LeaseAbi, FiniteSetTheorems, SequenceTheorems, TLAPS

USE AbiAssumption, AbsentIsNoValue

-----------------------------------------------------------------------------
(* Calls *)

LeaseOps == {"acquire", "lease_submit", "discard", "complete", "retire"}

\* What each kind of call carries, and where it can be.
LEMMA CallFields ==
  ASSUME NEW c \in Call
  PROVE  /\ c.op = "set_epoch" => c.at = "check" /\ c.epoch \in Epochs
         /\ c.op = "submit" /\ c.at = "check" =>
              c.batch \in Batches /\ c.context \in Context
         /\ c.op = "submit" /\ c.at = "publish" => c.diff \in Diff
         /\ c.op = "register" =>
              c.at = "check" /\ c.device \in Devices /\ c.context \in Context
         /\ c.op \in LeaseOps => c.lease \in LeaseIds /\ c.device \in Devices
         /\ c.op = "lease_submit" => c.start \in Context
         /\ c.op = "acquire" => c.context \in Context
         /\ c.op = "discard" => c.at = "check"
         /\ c.at = "lookup" => c.op \in {"acquire", "lease_submit"}
         /\ c.at = "transition" =>
              c.op \in {"acquire", "lease_submit", "complete", "retire"}
         /\ c.at \in {"relookup", "remove"} => c.op = "retire"
         /\ c.at = "publish" => c.op = "submit"
BY DEF Call, LeaseOps

\* A call that goes on is the same call elsewhere.
LEMMA CallMoves ==
  ASSUME NEW c \in Call, NEW at,
         \/ c.op \in {"acquire", "lease_submit"} /\ at \in {"lookup", "transition"}
         \/ c.op = "retire" /\ at \in {"relookup", "remove"}
  PROVE  LET m == [c EXCEPT !.at = at]
         IN  /\ m \in Call
             /\ m.op = c.op /\ m.at = at
             /\ m.lease = c.lease /\ m.device = c.device
             /\ c.op = "lease_submit" => m.start = c.start
<1>1. CASE c.op = "acquire"
  <2>1. c \in [op : {"acquire"}, at : {"check", "lookup", "transition"},
               lease : LeaseIds, device : Devices, context : Context]
    BY <1>1 DEF Call
  <2>2. [c EXCEPT !.at = at] \in
          [op : {"acquire"}, at : {"check", "lookup", "transition"},
           lease : LeaseIds, device : Devices, context : Context]
    BY <1>1, <2>1
  <2>3. QED
    BY <1>1, <2>1, <2>2 DEF Call
<1>2. CASE c.op = "lease_submit"
  <2>1. c \in [op : {"lease_submit"}, at : {"check", "lookup", "transition"},
               lease : LeaseIds, device : Devices, start : Context]
    BY <1>2 DEF Call
  <2>2. [c EXCEPT !.at = at] \in
          [op : {"lease_submit"}, at : {"check", "lookup", "transition"},
           lease : LeaseIds, device : Devices, start : Context]
    BY <1>2, <2>1
  <2>3. QED
    BY <1>2, <2>1, <2>2 DEF Call
<1>3. CASE c.op = "retire"
  <2>1. c \in [op : {"retire"}, at : {"transition", "relookup", "remove"},
               lease : LeaseIds, device : Devices]
    BY <1>3 DEF Call
  <2>2. [c EXCEPT !.at = at] \in
          [op : {"retire"}, at : {"transition", "relookup", "remove"},
           lease : LeaseIds, device : Devices]
    BY <1>3, <2>1
  <2>3. QED
    BY <1>3, <2>1, <2>2 DEF Call
<1>4. QED
  BY <1>1, <1>2, <1>3

\* What a host asks for is a call, about a lease that was registered.
LEMMA RequestsAreCalls ==
  ASSUME TypeOK, NEW c \in Requests
  PROVE  /\ c \in Call /\ c.at \in {"check", "transition"}
         /\ c.at = "transition" => c.op \in {"complete", "retire"}
         /\ c.op \in LeaseOps => c.lease < next
         /\ c.op = "lease_submit" => c.start = Now
         /\ c.op = "register" => MayRegister
<1>1. contexts \subseteq Context /\ 1..(next - 1) \subseteq LeaseIds
  BY DEF TypeOK, LeaseIds
<1>2. /\ next \in Nat /\ \A l \in 1..(next - 1) : l < next
  BY DEF TypeOK
<1>3. Now \in Context
  BY DEF TypeOK, Now, Context
<1>4. c \in Call
  BY <1>1, <1>3 DEF Requests, Call
<1>5. /\ c.at \in {"check", "transition"}
      /\ c.at = "transition" => c.op \in {"complete", "retire"}
  BY DEF Requests
<1>6. c.op \in LeaseOps => c.lease \in 1..(next - 1)
  BY DEF Requests, LeaseOps
<1>7. c.op = "lease_submit" => c.start = Now
  BY DEF Requests
<1>8. c.op = "register" => MayRegister
  BY DEF Requests
<1>9. QED
  BY <1>2, <1>4, <1>5, <1>6, <1>7, <1>8

\* A step of a thread leaves the calls of the others alone.
Alone(t) == \A u \in Threads \ {t} : call'[u] = call[u]

LEMMA Returned ==
  ASSUME TypeOK, NEW t \in Threads, Return(t)
  PROVE  /\ call'[t] = Absent /\ Alone(t)
         /\ call' \in [Threads -> Call \cup {Absent}]
BY DEF TypeOK, Return, Alone

LEMMA Moved ==
  ASSUME TypeOK, NEW t \in Threads, call[t] # Absent, NEW at, GoTo(t, at),
         \/ /\ call[t].op \in {"acquire", "lease_submit"}
            /\ at \in {"lookup", "transition"}
         \/ call[t].op = "retire" /\ at \in {"relookup", "remove"}
  PROVE  /\ call' \in [Threads -> Call \cup {Absent}] /\ Alone(t)
         /\ call'[t] \in Call /\ call'[t] # Absent
         /\ call'[t].op = call[t].op /\ call'[t].at = at
         /\ call'[t].lease = call[t].lease
         /\ call'[t].device = call[t].device
         /\ call[t].op = "lease_submit" => call'[t].start = call[t].start
<1>1. call[t] \in Call /\ call \in [Threads -> Call \cup {Absent}]
  BY DEF TypeOK
<1>2. call'[t] = [call[t] EXCEPT !.at = at]
  BY <1>1 DEF GoTo
<1>3. [call[t] EXCEPT !.at = at] \in Call
  BY <1>1, CallMoves
<1>4. call' \in [Threads -> Call \cup {Absent}] /\ Alone(t)
  BY <1>1, <1>3 DEF GoTo, Alone
<1>5. QED
  BY <1>1, <1>2, <1>3, <1>4, CallMoves

\* Where a call that checks or looks up is, and where it goes.
LEMMA CheckMoves ==
  ASSUME TypeOK, NEW t \in Threads, Check(t)
  PROVE  /\ call[t] # Absent /\ call[t].op \in {"acquire", "lease_submit"}
         /\ call[t].at = "check" /\ GoTo(t, "lookup")
BY DEF Check, At

LEMMA LookupMoves ==
  ASSUME TypeOK, NEW t \in Threads, Lookup(t)
  PROVE  /\ call[t] # Absent /\ call[t].op \in {"acquire", "lease_submit"}
         /\ call[t].at = "lookup" /\ GoTo(t, "transition")
<1>1. call[t] # Absent => call[t] \in Call
  BY DEF TypeOK
<1>2. QED
  BY <1>1, CallFields DEF Lookup

LEMMA RelookupMoves ==
  ASSUME TypeOK, NEW t \in Threads, Relookup(t)
  PROVE  /\ call[t] # Absent /\ call[t].op = "retire"
         /\ call[t].at = "relookup" /\ GoTo(t, "remove")
BY DEF Relookup, At

LEMMA TransitionMoves ==
  ASSUME TypeOK, NEW t \in Threads, Transition(t)
  PROVE  /\ call[t] # Absent /\ call[t] \in Call /\ call[t].at = "transition"
         /\ call[t].op \in {"acquire", "lease_submit", "complete", "retire"}
         /\ call[t].op \in LeaseOps
         /\ call[t].lease \in LeaseIds
         /\ MayTransition(t)
         /\ \/ call[t].op = "retire" /\ GoTo(t, "relookup")
            \/ call[t].op # "retire" /\ Return(t)
<1>1. call[t] # Absent /\ call[t] \in Call /\ call[t].at = "transition"
  BY DEF TypeOK, Transition
<1>2. call[t].op \in {"acquire", "lease_submit", "complete", "retire"}
  BY <1>1, CallFields
<1>3. MayTransition(t)
  BY <1>1 DEF Transition, Permitted
<1>4. call[t].op \in LeaseOps /\ call[t].lease \in LeaseIds
  BY <1>1, <1>2, CallFields DEF LeaseOps
<1>5. QED
  BY <1>1, <1>2, <1>3, <1>4 DEF Transition

LEMMA RemoveMoves ==
  ASSUME TypeOK, NEW t \in Threads, Remove(t)
  PROVE  /\ call[t] # Absent /\ call[t] \in Call
         /\ call[t].lease \in LeaseIds
         /\ \/ At(t, "retire", "remove")
            \/ At(t, "discard", "check") /\ MayDiscard(t)
         /\ Return(t)
<1>1. call[t] # Absent /\ call[t] \in Call
  BY DEF TypeOK, Remove, At
<1>2. call[t].op \in LeaseOps
  BY DEF Remove, At, LeaseOps
<1>3. At(t, "discard", "check") => MayDiscard(t)
  BY DEF Remove, At, Permitted, MayBegin, MaySetEpoch, MaySubmit
<1>4. QED
  BY <1>1, <1>2, <1>3, CallFields DEF Remove

-----------------------------------------------------------------------------
(* The inductive invariant *)

\* Registrations under way have an id left to take.
Registrations == next + Cardinality(Registering) <= MaxLeases + 1

\* A call is about a lease that was registered.
LeaseCalls ==
  \A t \in Threads :
    call[t] # Absent /\ call[t].op \in LeaseOps => call[t].lease < next

\* Before stitch_core_create nothing has happened.
Untouched ==
  handle = "none" =>
    /\ \A t \in Threads : call[t] = Absent /\ ~ inCallback[t]
    /\ \A l \in LeaseIds : leases[l] = Absent
    /\ diffs = <<>> /\ revision = NoHash

\* What a destroyed core holds was registered by a call that has returned.
Orphaned ==
  handle = "destroyed" =>
    \A l \in LeaseIds : leases[l] # Absent =>
      leases[l].state = "Registered" /\ call[leases[l].owner] = Absent

\* The diffs published so far are a chain ...
Chain ==
  \A i \in 1..Len(diffs) :
    diffs[i].previous = IF i = 1 THEN NoHash ELSE diffs[i - 1].revision

\* ... to the current revision, or to the one before the diff of the only
\* thread that can be about to publish.
Publishing ==
  \A t \in Threads : At(t, "submit", "publish") =>
    /\ t = owner
    /\ call[t].diff = [previous |-> LastRevision, revision |-> revision,
                       epoch |-> epoch]

Published ==
  \/ LastRevision = revision
  \/ \E t \in Threads : At(t, "submit", "publish")

\* The thread in a callback owns the core and is in no other call.
InCallbacks ==
  \A t \in Threads : inCallback[t] => t = owner /\ call[t] = Absent

\* A lease on its way out is still there: nobody else can touch it.
Retiring ==
  \A t \in Threads :
    At(t, "retire", "relookup") \/ At(t, "retire", "remove") =>
      /\ HoldsLease(t, call[t].lease, call[t].device)
      /\ leases[call[t].lease].state = "Retired"

\* context x is no older than context y.
NotBefore(x, y) == x.epoch >= y.epoch /\ Len(x.revision) >= Len(y.revision)

\* A lease that passed the check of lease_submit is not older than its call.
Starting ==
  \A t \in Threads :
    call[t] # Absent /\ call[t].op = "lease_submit" =>
      /\ NotBefore(Now, call[t].start)
      /\ call[t].at # "check" /\ leases[call[t].lease] # Absent =>
           NotBefore(leases[call[t].lease].context, call[t].start)

Inv ==
  /\ TypeOK /\ Registrations /\ LeaseCalls /\ Untouched /\ Orphaned
  /\ Chain /\ Publishing /\ Published /\ CallbackSeesItsRevision
  /\ InCallbacks /\ Retiring /\ Starting

-----------------------------------------------------------------------------
(* Types *)

LEMMA InitInv == Init => Inv
<1> SUFFICES ASSUME Init PROVE Inv
  OBVIOUS
<1>1. TypeOK
  <2>1. NoHash \in RevisionHash /\ <<>> \in Seq(Diff)
    BY DEF NoHash, RevisionHash
  <2>2. QED
    BY <2>1 DEF Init, TypeOK, Epochs, LeaseIds
<1>2. Registrations
  <2>1. Registering = {}
    BY DEF Init, Registering
  <2>2. QED
    BY <2>1, FS_EmptySet DEF Init, Registrations
<1>3. LeaseCalls /\ Untouched /\ Orphaned /\ Publishing
  BY DEF Init, LeaseCalls, Untouched, Orphaned, Publishing, At
<1>4. Chain /\ Published
  BY DEF Init, Chain, Published, LastRevision
<1>5. CallbackSeesItsRevision /\ InCallbacks
  BY DEF Init, CallbackSeesItsRevision, InCallbacks
<1>6. Retiring /\ Starting
  BY DEF Init, Retiring, Starting, At
<1>7. QED
  BY <1>1, <1>2, <1>3, <1>4, <1>5, <1>6 DEF Inv

\* A batch extends the revision by commands.
LEMMA BatchExtends ==
  ASSUME TypeOK, NEW batch \in Batches
  PROVE  /\ revision \o batch \in RevisionHash
         /\ Len(revision) \in Nat
         /\ Len(revision \o batch) >= Len(revision)
<1>1. batch \in Seq(Command)
  BY SeqMonotonic
<1>2. revision \in Seq(Command)
  BY DEF TypeOK, RevisionHash
<1>3. QED
  BY <1>1, <1>2, ConcatProperties, LenProperties DEF RevisionHash

\* What a registration stores.
LEMMA RegisteredLease ==
  ASSUME TypeOK, Registrations, NEW t \in Threads, Register(t)
  PROVE  /\ call[t] # Absent /\ call[t] \in Call /\ call[t].op = "register"
         /\ next \in LeaseIds /\ leases[next] = Absent
         /\ leases' \in [LeaseIds -> Lease \cup {Absent}]
         /\ leases'[next] \in Lease /\ leases'[next].state = "Registered"
         /\ leases'[next].owner = t
         /\ \A l \in LeaseIds \ {next} : leases'[l] = leases[l]
         /\ t \in Registering /\ IsFiniteSet(Registering)
         /\ next' = next + 1
<1>1. call[t] # Absent /\ call[t] \in Call /\ call[t].op = "register"
  BY DEF Register, At, TypeOK
<1>2. t \in Registering /\ Registering \in SUBSET Threads
  BY <1>1 DEF Registering
<1>3. IsFiniteSet(Registering) /\ Registering # {}
  BY <1>2, FS_Subset
<1>4. Cardinality(Registering) \in Nat /\ Cardinality(Registering) # 0
  BY <1>3, FS_EmptySet, FS_CardinalityType
<1>5. next \in LeaseIds
  BY <1>4 DEF TypeOK, Registrations, LeaseIds
<1>6. leases[next] = Absent
  BY <1>5 DEF TypeOK, LeaseIds
<1> DEFINE lease == [state |-> "Registered", owner |-> t,
                     device |-> call[t].device, context |-> call[t].context]
<1>7. lease \in Lease
  BY <1>1, CallFields DEF Lease, LeaseState
<1>8. leases' = [leases EXCEPT ![next] = lease] /\ next' = next + 1
  BY DEF Register, NextHandle
<1>9. lease.state = "Registered" /\ lease.owner = t
  OBVIOUS
<1>10. leases \in [LeaseIds -> Lease \cup {Absent}]
  BY DEF TypeOK
<1>11. QED
  <2> HIDE DEF lease
  <2> QED
    BY <1>1, <1>2, <1>3, <1>5, <1>6, <1>7, <1>8, <1>9, <1>10

\* What a transition changes, and for whom.
LEMMA TransitionedLease ==
  ASSUME TypeOK, NEW t \in Threads, Transition(t)
  PROVE  LET l == call[t].lease
         IN  /\ l \in LeaseIds /\ leases[l] \in Lease /\ leases[l] # Absent
             /\ leases[l].owner = t /\ leases[l].device = call[t].device
             /\ leases[l].state = Expected[call[t].op]
             /\ leases' \in [LeaseIds -> Lease \cup {Absent}]
             /\ leases'[l] \in Lease /\ leases'[l] # Absent
             /\ leases'[l].owner = t /\ leases'[l].device = leases[l].device
             /\ leases'[l].context = leases[l].context
             /\ leases'[l].state = Following[call[t].op]
             /\ \A k \in LeaseIds \ {l} : leases'[k] = leases[k]
<1> DEFINE l == call[t].lease
           to == Following[call[t].op]
<1>1. l \in LeaseIds /\ MayTransition(t)
      /\ call[t].op \in {"acquire", "lease_submit", "complete", "retire"}
  BY TransitionMoves
<1>2. leases \in [LeaseIds -> Lease \cup {Absent}]
  BY DEF TypeOK
<1>3. /\ leases[l] \in Lease /\ leases[l] # Absent /\ leases[l].owner = t
      /\ leases[l].device = call[t].device
      /\ leases[l].state = Expected[call[t].op]
  BY <1>1, <1>2 DEF MayTransition, HoldsLease
<1>4. to \in LeaseState
  BY <1>1 DEF Following, LeaseState
<1>5. leases' = [leases EXCEPT ![l].state = to]
  BY DEF Transition
<1> HIDE DEF l, to
<1>6. leases'[l] = [leases[l] EXCEPT !.state = to]
      /\ \A k \in LeaseIds \ {l} : leases'[k] = leases[k]
  BY <1>1, <1>2, <1>5
<1>7. /\ leases'[l] \in Lease /\ leases'[l].state = to
      /\ leases'[l].owner = leases[l].owner
      /\ leases'[l].device = leases[l].device
      /\ leases'[l].context = leases[l].context
  BY <1>3, <1>4, <1>6 DEF Lease
<1>8. leases' \in [LeaseIds -> Lease \cup {Absent}]
  BY <1>1, <1>2, <1>5, <1>6, <1>7
<1>9. QED
  BY <1>1, <1>3, <1>6, <1>7, <1>8 DEF l, to

\* What a removal changes.
LEMMA RemovedLease ==
  ASSUME TypeOK, NEW t \in Threads, Remove(t)
  PROVE  /\ leases' \in [LeaseIds -> Lease \cup {Absent}]
         /\ leases'[call[t].lease] = Absent
         /\ \A k \in LeaseIds \ {call[t].lease} : leases'[k] = leases[k]
BY RemoveMoves DEF TypeOK, Remove

\* What the calls that end or go on do to the calls.
LEMMA CallsStep ==
  ASSUME TypeOK, NEW t \in Threads,
         \/ Refuse(t) \/ SetEpoch(t) \/ Publish(t) \/ Register(t) \/ Check(t)
         \/ Lookup(t) \/ Transition(t) \/ Relookup(t) \/ Remove(t)
  PROVE  /\ call' \in [Threads -> Call \cup {Absent}] /\ Alone(t)
         /\ call[t] # Absent
         /\ \/ call'[t] = Absent
            \/ /\ call'[t] # Absent
               /\ call[t].op \in {"acquire", "lease_submit", "retire"}
               /\ call'[t].op = call[t].op
               /\ call'[t].at \in {"lookup", "transition", "relookup", "remove"}
               /\ call'[t].lease = call[t].lease
               /\ call'[t].device = call[t].device
               /\ call[t].op = "lease_submit" =>
                    /\ call'[t].start = call[t].start
                    /\ call'[t].at \in {"lookup", "transition"}
<1>1. CASE Refuse(t) \/ SetEpoch(t) \/ Publish(t) \/ Register(t) \/ Remove(t)
  BY <1>1, Returned DEF Refuse, SetEpoch, Publish, Register, Remove, At
<1>2. CASE Check(t)
  BY <1>2, CheckMoves, Moved
<1>3. CASE Lookup(t)
  BY <1>3, LookupMoves, Moved
<1>4. CASE Relookup(t)
  BY <1>4, RelookupMoves, Moved
<1>5. CASE Transition(t)
  BY <1>5, TransitionMoves, Moved, Returned
<1>6. QED
  BY <1>1, <1>2, <1>3, <1>4, <1>5

LEMMA SubmitStep ==
  ASSUME TypeOK, NEW t \in Threads, Submit(t)
  PROVE  /\ call' \in [Threads -> Call \cup {Absent}] /\ Alone(t)
         /\ call[t] # Absent /\ call[t].op = "submit" /\ call[t].at = "check"
         /\ t = owner
         /\ revision' \in RevisionHash /\ Len(revision') >= Len(revision)
         /\ call'[t] # Absent /\ call'[t].op = "submit"
         /\ call'[t].at = "publish"
         /\ call'[t].diff = [previous |-> revision, revision |-> revision',
                             epoch |-> epoch]
<1>1. call[t] # Absent /\ call[t] \in Call
      /\ call[t].op = "submit" /\ call[t].at = "check"
  BY DEF Submit, At, TypeOK
<1>2. t = owner
  BY <1>1 DEF Submit, Permitted, MayBegin, MaySetEpoch, MaySubmit, OwnerThread
<1>3. revision' \in RevisionHash /\ Len(revision') >= Len(revision)
  BY <1>1, CallFields, BatchExtends DEF Submit
<1> DEFINE d == [previous |-> revision, revision |-> revision', epoch |-> epoch]
           c == [op |-> "submit", at |-> "publish", diff |-> d]
<1>4. d \in Diff
  BY <1>3 DEF TypeOK, Diff
<1>5. c \in Call
  <2> HIDE DEF d
  <2> QED
    BY <1>4 DEF Call
<1>6. call' = [call EXCEPT ![t] = c] /\ call \in [Threads -> Call \cup {Absent}]
  BY DEF Submit, TypeOK
<1>7. c.op = "submit" /\ c.at = "publish" /\ c.diff = d
  OBVIOUS
<1> HIDE DEF c
<1>8. call'[t] = c /\ Alone(t) /\ call' \in [Threads -> Call \cup {Absent}]
  BY <1>5, <1>6 DEF Alone
<1>9. QED
  BY <1>1, <1>2, <1>3, <1>5, <1>7, <1>8

\* How a call is entered.
LEMMA EnterStep ==
  ASSUME TypeOK, NEW t \in Threads, NEW c \in Requests, Enter(t, c)
  PROVE  /\ call' \in [Threads -> Call \cup {Absent}] /\ Alone(t)
         /\ call[t] = Absent /\ call'[t] = c /\ c # Absent /\ ~ inCallback[t]
BY RequestsAreCalls DEF Enter, TypeOK, NotReentrant, Alone

LEMMA TypeStep ==
  ASSUME TypeOK, Registrations, [Next]_vars
  PROVE  TypeOK'
<1>1. ASSUME NEW t \in Threads, Create(t) \/ Destroy(t) \/ CallbackReturns(t)
      PROVE  TypeOK'
  <2>1. \A e \in Epochs : [epoch |-> e, revision |-> revision] \in Context
    BY DEF TypeOK, Context
  <2>2. CASE Create(t)
    <3>1. epoch' \in Epochs /\ contexts' \subseteq Context
      BY <2>1, <2>2 DEF Create
    <3>2. QED
      BY <2>2, <3>1 DEF TypeOK, Create
  <2>3. CASE Destroy(t)
    BY <2>3 DEF TypeOK, Destroy
  <2>4. CASE CallbackReturns(t)
    BY <2>4 DEF TypeOK, CallbackReturns, core
  <2>5. QED
    BY <1>1, <2>2, <2>3, <2>4
<1>2. ASSUME NEW t \in Threads, NEW c \in Requests, Enter(t, c)
      PROVE  TypeOK'
  <2>1. call' \in [Threads -> Call \cup {Absent}]
    BY <1>2, EnterStep
  <2>2. QED
    BY <1>2, <2>1 DEF TypeOK, Enter, core
<1>3. ASSUME NEW t \in Threads,
             Refuse(t) \/ Check(t) \/ Lookup(t) \/ Relookup(t)
      PROVE  TypeOK'
  <2>1. call' \in [Threads -> Call \cup {Absent}]
    BY <1>3, CallsStep
  <2>2. QED
    BY <1>3, <2>1 DEF TypeOK, Refuse, Check, Lookup, Relookup, core
<1>4. ASSUME NEW t \in Threads, SetEpoch(t)
      PROVE  TypeOK'
  <2>1. call' \in [Threads -> Call \cup {Absent}]
    BY <1>4, CallsStep
  <2>2. epoch' \in Epochs
    BY <1>4, CallFields DEF SetEpoch, At, TypeOK
  <2>3. contexts' \subseteq Context
    BY <1>4, <2>2 DEF SetEpoch, TypeOK, Context
  <2>4. QED
    BY <1>4, <2>1, <2>2, <2>3 DEF TypeOK, SetEpoch
<1>5. ASSUME NEW t \in Threads, Submit(t)
      PROVE  TypeOK'
  <2>1. call' \in [Threads -> Call \cup {Absent}] /\ revision' \in RevisionHash
    BY <1>5, SubmitStep
  <2>2. contexts' \subseteq Context
    <3>1. [epoch |-> epoch, revision |-> revision'] \in Context
      BY <2>1 DEF TypeOK, Context
    <3>2. contexts' = contexts \cup {[epoch |-> epoch, revision |-> revision']}
      BY <1>5 DEF Submit
    <3>3. QED
      BY <3>1, <3>2 DEF TypeOK
  <2>3. QED
    BY <1>5, <2>1, <2>2 DEF TypeOK, Submit
<1>6. ASSUME NEW t \in Threads, Publish(t)
      PROVE  TypeOK'
  <2>1. call' \in [Threads -> Call \cup {Absent}]
    BY <1>6, CallsStep
  <2>2. call[t].diff \in Diff
    BY <1>6, CallFields DEF Publish, At, TypeOK
  <2>3. diffs' \in Seq(Diff)
    BY <1>6, <2>2, AppendProperties DEF Publish, TypeOK
  <2>4. inCallback' \in [Threads -> BOOLEAN]
    BY <1>6 DEF Publish, TypeOK
  <2>5. QED
    BY <1>6, <2>1, <2>3, <2>4 DEF TypeOK, Publish, core
<1>7. ASSUME NEW t \in Threads, Register(t)
      PROVE  TypeOK'
  <2>1. call' \in [Threads -> Call \cup {Absent}]
    BY <1>7, CallsStep
  <2>2. next \in LeaseIds /\ next' = next + 1 /\ next' \in 1..(MaxLeases + 1)
    BY <1>7, RegisteredLease DEF LeaseIds
  <2>3. leases' \in [LeaseIds -> Lease \cup {Absent}]
    BY <1>7, RegisteredLease
  <2>4. \A l \in LeaseIds : leases'[l] # Absent => l < next'
    BY <1>7, <2>2, RegisteredLease DEF TypeOK, LeaseIds
  <2>5. QED
    BY <1>7, <2>1, <2>2, <2>3, <2>4 DEF TypeOK, Register
<1>8. ASSUME NEW t \in Threads, Transition(t) \/ Remove(t)
      PROVE  TypeOK'
  <2>1. call' \in [Threads -> Call \cup {Absent}]
    BY <1>8, CallsStep
  <2>2. leases' \in [LeaseIds -> Lease \cup {Absent}]
    BY <1>8, TransitionedLease, RemovedLease
  <2>3. \A l \in LeaseIds : leases'[l] # Absent => leases[l] # Absent
    BY <1>8, TransitionedLease, RemovedLease
  <2>4. QED
    BY <1>8, <2>1, <2>2, <2>3 DEF TypeOK, Transition, Remove
<1>9. CASE UNCHANGED vars
  BY <1>9 DEF TypeOK, vars, core
<1>10. QED
  BY <1>1, <1>2, <1>3, <1>4, <1>5, <1>6, <1>7, <1>8, <1>9 DEF Next, Step

\* A registration under way is counted before it is entered.
LEMMA RegistrationsStep ==
  ASSUME TypeOK, Registrations, [Next]_vars
  PROVE  Registrations'
<1>1. /\ Registering \in SUBSET Threads /\ IsFiniteSet(Registering)
      /\ Cardinality(Registering) \in Nat
      /\ Registering' \in SUBSET Threads
  <2>1. Registering \in SUBSET Threads /\ Registering' \in SUBSET Threads
    BY DEF Registering
  <2>2. QED
    BY <2>1, FS_Subset, FS_CardinalityType
<1>2. ASSUME Registering' \subseteq Registering, next' = next
      PROVE  Registrations'
  <2>1. /\ Cardinality(Registering') <= Cardinality(Registering)
        /\ Cardinality(Registering') \in Nat
    BY <1>1, <1>2, FS_Subset, FS_CardinalityType
  <2>2. QED
    BY <1>1, <1>2, <2>1 DEF Registrations, TypeOK
<1>3. ASSUME NEW t \in Threads, Create(t) \/ Destroy(t) \/ CallbackReturns(t)
      PROVE  Registrations'
  <2>1. UNCHANGED <<call, next>>
    BY <1>3 DEF Create, Destroy, CallbackReturns, core
  <2>2. QED
    BY <1>2, <2>1 DEF Registering
<1>4. ASSUME NEW t \in Threads, NEW c \in Requests, Enter(t, c)
      PROVE  Registrations'
  <2>1. next' = next
    BY <1>4 DEF Enter
  <2>2. CASE c.op # "register"
    <3>1. Registering' \subseteq Registering
      BY <1>4, <2>2, EnterStep DEF Registering, Alone
    <3>2. QED
      BY <1>2, <2>1, <3>1
  <2>3. CASE c.op = "register"
    <3>1. Registering' \in SUBSET (Registering \cup {t})
      BY <1>4, EnterStep DEF Registering, Alone
    <3>2. /\ IsFiniteSet(Registering \cup {t})
          /\ Cardinality(Registering \cup {t}) <= Cardinality(Registering) + 1
          /\ Cardinality(Registering \cup {t}) \in Nat
      <4>1. /\ IsFiniteSet(Registering \cup {t})
            /\ Cardinality(Registering \cup {t}) =
                 IF t \in Registering THEN Cardinality(Registering)
                                      ELSE Cardinality(Registering) + 1
        BY <1>1, FS_AddElement
      <4>2. QED
        BY <1>1, <4>1
    <3>3. /\ Cardinality(Registering') <= Cardinality(Registering \cup {t})
          /\ Cardinality(Registering') \in Nat
      BY <3>1, <3>2, FS_Subset, FS_CardinalityType
    <3>4. next + Cardinality(Registering) <= MaxLeases
      BY <2>3, RequestsAreCalls DEF MayRegister
    <3>5. QED
      BY <1>1, <2>1, <3>2, <3>3, <3>4 DEF Registrations, TypeOK
  <2>4. QED
    BY <2>2, <2>3
<1>5. ASSUME NEW t \in Threads, Submit(t)
      PROVE  Registrations'
  <2>1. Registering' \subseteq Registering
    BY <1>5, SubmitStep DEF Registering, Alone
  <2>2. next' = next
    BY <1>5 DEF Submit
  <2>3. QED
    BY <1>2, <2>1, <2>2
<1>6. ASSUME NEW t \in Threads, Register(t)
      PROVE  Registrations'
  <2>1. t \in Registering /\ next' = next + 1
    BY <1>6, RegisteredLease
  <2>2. Registering' \in SUBSET (Registering \ {t})
    <3>1. call'[t] = Absent /\ Alone(t)
      BY <1>6, Returned DEF Register
    <3>2. QED
      BY <3>1 DEF Registering, Alone
  <2>3. /\ IsFiniteSet(Registering \ {t})
        /\ Cardinality(Registering \ {t}) = Cardinality(Registering) - 1
    BY <1>1, <2>1, FS_RemoveElement
  <2>4. /\ Cardinality(Registering') <= Cardinality(Registering) - 1
        /\ Cardinality(Registering') \in Nat
    BY <2>2, <2>3, FS_Subset, FS_CardinalityType
  <2>5. QED
    BY <1>1, <2>1, <2>4 DEF Registrations, TypeOK
<1>7. ASSUME NEW t \in Threads,
             \/ Refuse(t) \/ SetEpoch(t) \/ Publish(t) \/ Check(t)
             \/ Lookup(t) \/ Transition(t) \/ Relookup(t) \/ Remove(t)
      PROVE  Registrations'
  <2>1. Registering' \subseteq Registering
    BY <1>7, CallsStep DEF Registering, Alone
  <2>2. next' = next
    BY <1>7 DEF Refuse, SetEpoch, Publish, Check, Lookup, Transition, Relookup,
                Remove
  <2>3. QED
    BY <1>2, <2>1, <2>2
<1>8. CASE UNCHANGED vars
  BY <1>2, <1>8 DEF vars, Registering
<1>9. QED
  BY <1>3, <1>4, <1>5, <1>6, <1>7, <1>8 DEF Next, Step

-----------------------------------------------------------------------------
(* Calls and the life of the core *)

LEMMA LeaseCallsStep ==
  ASSUME TypeOK, Registrations, LeaseCalls, [Next]_vars
  PROVE  LeaseCalls'
<1>1. next \in Nat
  BY DEF TypeOK
<1>2. ASSUME NEW t \in Threads, Create(t) \/ Destroy(t) \/ CallbackReturns(t)
      PROVE  LeaseCalls'
  BY <1>2 DEF LeaseCalls, Create, Destroy, CallbackReturns
<1>3. ASSUME NEW t \in Threads, NEW c \in Requests, Enter(t, c)
      PROVE  LeaseCalls'
  <2>1. next' = next
    BY <1>3 DEF Enter
  <2>2. QED
    BY <1>3, <2>1, EnterStep, RequestsAreCalls DEF LeaseCalls, Alone
<1>4. ASSUME NEW t \in Threads, Submit(t)
      PROVE  LeaseCalls'
  <2>1. next' = next
    BY <1>4 DEF Submit
  <2>2. QED
    BY <1>4, <2>1, SubmitStep DEF LeaseCalls, Alone, LeaseOps
<1>5. ASSUME NEW t \in Threads,
             \/ Refuse(t) \/ SetEpoch(t) \/ Publish(t) \/ Register(t) \/ Check(t)
             \/ Lookup(t) \/ Transition(t) \/ Relookup(t) \/ Remove(t)
      PROVE  LeaseCalls'
  <2>1. next' \in {next, next + 1}
    BY <1>5 DEF Refuse, SetEpoch, Publish, Register, NextHandle, Check, Lookup,
                Transition, Relookup, Remove
  <2>2. ASSUME NEW u \in Threads, call'[u] # Absent, call'[u].op \in LeaseOps
        PROVE  /\ call[u] # Absent /\ call[u].op \in LeaseOps
               /\ call'[u].lease = call[u].lease
    BY <1>5, <2>2, CallsStep DEF Alone, LeaseOps
  <2>3. ASSUME NEW u \in Threads, call'[u] # Absent, call'[u].op \in LeaseOps
        PROVE  call'[u].lease < next'
    <3>1. call[u].lease \in LeaseIds /\ call[u].lease < next
      BY <2>2, <2>3, CallFields DEF LeaseCalls, TypeOK
    <3>2. QED
      BY <1>1, <2>1, <2>2, <2>3, <3>1 DEF LeaseIds
  <2>4. QED
    BY <2>3 DEF LeaseCalls
<1>6. CASE UNCHANGED vars
  BY <1>6 DEF LeaseCalls, vars
<1>7. QED
  BY <1>2, <1>3, <1>4, <1>5, <1>6 DEF Next, Step

LEMMA UntouchedStep ==
  ASSUME TypeOK, Untouched, [Next]_vars
  PROVE  Untouched'
<1> SUFFICES ASSUME handle' = "none" PROVE Untouched'
  BY DEF Untouched
<1>1. ASSUME NEW t \in Threads, Create(t) \/ Destroy(t) \/ CallbackReturns(t)
      PROVE  Untouched'
  BY <1>1 DEF Untouched, Create, Destroy, CallbackReturns, core
<1>2. ASSUME NEW t \in Threads, NEW c \in Requests, Enter(t, c)
      PROVE  Untouched'
  BY <1>2 DEF Enter, Live, core
<1>3. ASSUME NEW t \in Threads, Step(t)
      PROVE  Untouched'
  <2>1. call[t] # Absent
    BY <1>3, CallsStep, SubmitStep DEF Step
  <2>2. handle = "none"
    BY <1>3 DEF Step, Refuse, SetEpoch, Submit, Publish, Register, Check,
                Lookup, Transition, Relookup, Remove, core
  <2>3. QED
    BY <2>1, <2>2 DEF Untouched
<1>4. CASE UNCHANGED vars
  BY <1>4 DEF Untouched, vars, core
<1>5. QED
  BY <1>1, <1>2, <1>3, <1>4 DEF Next

\* The thread in a call owns no lease of a destroyed core.
LEMMA OrphanedStep ==
  ASSUME TypeOK, Registrations, Orphaned, [Next]_vars
  PROVE  Orphaned'
<1> SUFFICES ASSUME handle' = "destroyed" PROVE Orphaned'
  BY DEF Orphaned
<1>1. ASSUME NEW t \in Threads, Create(t) \/ Destroy(t) \/ CallbackReturns(t)
      PROVE  Orphaned'
  BY <1>1 DEF Orphaned, Create, Destroy, NoLeases, CallbackReturns, core
<1>2. ASSUME NEW t \in Threads, NEW c \in Requests, Enter(t, c)
      PROVE  Orphaned'
  BY <1>2 DEF Enter, Live, core
<1>3. ASSUME NEW t \in Threads, Step(t)
      PROVE  Orphaned'
  <2>1. call[t] # Absent /\ Alone(t)
    BY <1>3, CallsStep, SubmitStep DEF Step
  <2>2. handle = "destroyed"
    BY <1>3 DEF Step, Refuse, SetEpoch, Submit, Publish, Register, Check,
                Lookup, Transition, Relookup, Remove, core
  <2>3. \A l \in LeaseIds : leases[l] # Absent =>
          /\ leases[l].state = "Registered" /\ leases[l].owner \in Threads
          /\ leases[l].owner # t /\ call'[leases[l].owner] = Absent
    <3>1. \A l \in LeaseIds : leases[l] # Absent => leases[l].owner \in Threads
      BY DEF TypeOK, Lease
    <3>2. QED
      BY <2>1, <2>2, <3>1 DEF Orphaned, Alone
  <2>4. ASSUME NEW l \in LeaseIds, leases'[l] # Absent
        PROVE  leases'[l].state = "Registered" /\ call'[leases'[l].owner] = Absent
    <3>1. CASE leases' = leases
      BY <2>3, <2>4, <3>1
    <3>2. CASE Register(t)
      <4>1. call'[t] = Absent
        BY <3>2, Returned DEF Register
      <4>2. QED
        BY <2>3, <2>4, <3>2, <4>1, RegisteredLease
    <3>3. CASE Transition(t)
      BY <2>3, <3>3, TransitionedLease
    <3>4. CASE Remove(t)
      BY <2>3, <2>4, <3>4, RemovedLease
    <3>5. leases' = leases \/ Register(t) \/ Transition(t) \/ Remove(t)
      BY <1>3 DEF Step, Refuse, SetEpoch, Submit, Publish, Check, Lookup,
                  Relookup, core
    <3>6. QED
      BY <3>1, <3>2, <3>3, <3>4, <3>5
  <2>5. QED
    BY <2>4 DEF Orphaned
<1>4. CASE UNCHANGED vars
  BY <1>4 DEF Orphaned, vars, core
<1>5. QED
  BY <1>1, <1>2, <1>3, <1>4 DEF Next

-----------------------------------------------------------------------------
(* Diffs and callbacks *)

\* What publishing does to the end of the chain.
LEMMA PublishStep ==
  ASSUME TypeOK, Publishing, NEW t \in Threads, Publish(t)
  PROVE  /\ At(t, "submit", "publish") /\ t = owner
         /\ call'[t] = Absent /\ Alone(t)
         /\ diffs' \in Seq(Diff) /\ Len(diffs) \in Nat
         /\ Len(diffs') = Len(diffs) + 1
         /\ \A i \in 1..Len(diffs) : diffs'[i] = diffs[i]
         /\ diffs'[Len(diffs')] = [previous |-> LastRevision,
                                   revision |-> revision, epoch |-> epoch]
         /\ diffs' # <<>> /\ LastRevision' = revision
         /\ UNCHANGED <<owner, epoch, revision>>
<1>1. At(t, "submit", "publish") /\ t = owner
  BY DEF Publish, Publishing
<1>2. call'[t] = Absent /\ Alone(t)
  BY Returned DEF Publish
<1> DEFINE d == [previous |-> LastRevision, revision |-> revision,
                 epoch |-> epoch]
<1>3. call[t].diff = d /\ d.revision = revision
  BY <1>1 DEF Publishing
<1>4. d \in Diff
  BY <1>1, <1>3, CallFields DEF At, TypeOK
<1> HIDE DEF d
<1>5. diffs' = Append(diffs, d) /\ diffs \in Seq(Diff)
  BY <1>3 DEF Publish, TypeOK
<1>6. /\ diffs' \in Seq(Diff) /\ Len(diffs) \in Nat
      /\ Len(diffs') = Len(diffs) + 1
      /\ \A i \in 1..Len(diffs) : diffs'[i] = diffs[i]
      /\ diffs'[Len(diffs')] = d /\ diffs' # <<>>
  BY <1>4, <1>5, AppendProperties
<1>7. LastRevision' = revision
  BY <1>3, <1>6 DEF LastRevision
<1>8. UNCHANGED <<owner, epoch, revision>>
  BY DEF Publish, core
<1>9. QED
  BY <1>1, <1>2, <1>6, <1>7, <1>8 DEF d

\* Only the owner changes what the diffs are about.
LEMMA OwnerSteps ==
  ASSUME TypeOK, NEW t \in Threads, SetEpoch(t)
  PROVE  /\ t = owner /\ call[t] # Absent /\ call[t].op = "set_epoch"
         /\ call'[t] = Absent /\ Alone(t)
         /\ epoch' \in Epochs /\ epoch' >= epoch
<1>1. call[t] # Absent /\ call[t] \in Call
      /\ call[t].op = "set_epoch" /\ call[t].at = "check"
  BY DEF SetEpoch, At, TypeOK
<1>2. t = owner /\ call[t].epoch >= epoch
  BY <1>1 DEF SetEpoch, Permitted, MayBegin, MaySetEpoch, MaySubmit, OwnerThread
<1>3. QED
  BY <1>1, <1>2, Returned, CallFields DEF SetEpoch

\* Steps that touch neither diffs nor what they are about.
Quiet(t) ==
  \/ Refuse(t) \/ Register(t) \/ Check(t) \/ Lookup(t) \/ Transition(t)
  \/ Relookup(t) \/ Remove(t)

LEMMA QuietStep ==
  ASSUME TypeOK, NEW t \in Threads, Quiet(t)
  PROVE  /\ UNCHANGED <<owner, epoch, revision, diffs, inCallback>>
         /\ call[t] # Absent /\ Alone(t)
         /\ call'[t] = Absent \/ call'[t].at # "publish"
<1>1. UNCHANGED <<owner, epoch, revision, diffs, inCallback>>
  BY DEF Quiet, Refuse, Register, Check, Lookup, Transition, Relookup, Remove,
         core
<1>2. QED
  BY <1>1, CallsStep DEF Quiet

LEMMA DiffsStep ==
  ASSUME TypeOK, Untouched, Chain, Publishing, Published, [Next]_vars
  PROVE  Chain' /\ Publishing' /\ Published'
<1>1. ASSUME NEW t \in Threads, Create(t)
      PROVE  Chain' /\ Publishing' /\ Published'
  <2>1. UNCHANGED <<diffs, revision, call>> /\ handle = "none"
    BY <1>1 DEF Create
  <2>2. \A u \in Threads : call[u] = Absent
    BY <2>1 DEF Untouched
  <2>3. QED
    BY <2>1, <2>2 DEF Chain, Publishing, Published, LastRevision, At
<1>2. ASSUME UNCHANGED <<owner, epoch, revision, diffs>>,
             \A u \in Threads : At(u, "submit", "publish")' =>
               At(u, "submit", "publish") /\ call'[u] = call[u],
             \A u \in Threads : At(u, "submit", "publish") =>
               At(u, "submit", "publish")'
      PROVE  Chain' /\ Publishing' /\ Published'
  BY <1>2 DEF Chain, Publishing, Published, LastRevision
<1>3. ASSUME NEW t \in Threads, Destroy(t) \/ CallbackReturns(t)
      PROVE  Chain' /\ Publishing' /\ Published'
  <2>1. UNCHANGED <<owner, epoch, revision, diffs, call>>
    BY <1>3 DEF Destroy, CallbackReturns, core
  <2>2. QED
    BY <1>2, <2>1 DEF At
<1>4. ASSUME NEW t \in Threads, NEW c \in Requests, Enter(t, c)
      PROVE  Chain' /\ Publishing' /\ Published'
  <2>1. UNCHANGED <<owner, epoch, revision, diffs>>
    BY <1>4 DEF Enter, core
  <2>2. QED
    BY <1>2, <1>4, <2>1, EnterStep, RequestsAreCalls DEF At, Alone
<1>5. ASSUME NEW t \in Threads, Quiet(t)
      PROVE  Chain' /\ Publishing' /\ Published'
  <2>1. /\ UNCHANGED <<owner, epoch, revision, diffs>> /\ Alone(t)
        /\ ~ At(t, "submit", "publish")'
    BY <1>5, QuietStep DEF At
  <2>2. CASE ~ At(t, "submit", "publish")
    BY <1>2, <2>1, <2>2 DEF At, Alone
  <2>3. CASE At(t, "submit", "publish")
    <3>1. Refuse(t)
      BY <1>5, <2>3, CheckMoves, LookupMoves, RelookupMoves, TransitionMoves,
         RemoveMoves DEF Quiet, At, Register
    <3>2. Permitted(t)
      BY <2>3 DEF Permitted, At
    <3>3. QED
      BY <3>1, <3>2 DEF Refuse
  <2>4. QED
    BY <2>2, <2>3
<1>6. ASSUME NEW t \in Threads, SetEpoch(t)
      PROVE  Chain' /\ Publishing' /\ Published'
  <2>1. UNCHANGED <<owner, revision, diffs>>
    BY <1>6 DEF SetEpoch
  <2>2. \A u \in Threads :
          ~ At(u, "submit", "publish") /\ ~ At(u, "submit", "publish")'
    BY <1>6, OwnerSteps DEF Publishing, At, Alone
  <2>3. QED
    BY <2>1, <2>2 DEF Chain, Publishing, Published, LastRevision
<1>7. ASSUME NEW t \in Threads, Submit(t)
      PROVE  Chain' /\ Publishing' /\ Published'
  <2>1. UNCHANGED <<owner, epoch, diffs>> /\ LastRevision' = LastRevision
    BY <1>7 DEF Submit, LastRevision
  <2>2. t = owner /\ Alone(t) /\ At(t, "submit", "publish")'
        /\ call'[t].diff = [previous |-> revision, revision |-> revision',
                            epoch |-> epoch]
    BY <1>7, SubmitStep DEF At
  <2>3. \A u \in Threads : ~ At(u, "submit", "publish")
    BY <1>7, <2>2, SubmitStep DEF Publishing, At
  <2>4. LastRevision = revision
    BY <2>3 DEF Published
  <2>5. \A u \in Threads : At(u, "submit", "publish")' => u = t
    BY <2>2, <2>3 DEF At, Alone
  <2>6. QED
    BY <2>1, <2>2, <2>4, <2>5 DEF Chain, Publishing, Published
<1>8. ASSUME NEW t \in Threads, Publish(t)
      PROVE  Chain' /\ Publishing' /\ Published'
  <2>1. \A u \in Threads : ~ At(u, "submit", "publish")'
    BY <1>8, PublishStep DEF Publishing, At, Alone
  <2>2. Published'
    BY <1>8, PublishStep DEF Published
  <2>3. ASSUME NEW i \in 1..Len(diffs')
        PROVE  diffs'[i].previous =
                 IF i = 1 THEN NoHash ELSE diffs'[i - 1].revision
    <3>1. CASE i \in 1..Len(diffs)
      <4>1. i # 1 => i - 1 \in 1..Len(diffs)
        BY <1>8, <3>1, PublishStep
      <4>2. QED
        BY <1>8, <3>1, <4>1, PublishStep DEF Chain
    <3>2. CASE i = Len(diffs) + 1
      <4>1. diffs'[i].previous = LastRevision
        BY <1>8, <3>2, PublishStep
      <4>2. CASE Len(diffs) = 0
        <5>1. diffs = <<>>
          BY <4>2, EmptySeq DEF TypeOK
        <5>2. QED
          BY <3>2, <4>1, <4>2, <5>1 DEF LastRevision
      <4>3. CASE Len(diffs) # 0
        <5>1. diffs # <<>> /\ Len(diffs) \in 1..Len(diffs) /\ i # 1
              /\ i - 1 = Len(diffs)
          BY <1>8, <3>2, <4>3, PublishStep
        <5>2. QED
          BY <1>8, <4>1, <5>1, PublishStep DEF LastRevision
      <4>4. QED
        BY <4>2, <4>3
    <3>3. QED
      BY <1>8, <2>3, <3>1, <3>2, PublishStep
  <2>4. QED
    BY <2>1, <2>2, <2>3 DEF Chain, Publishing
<1>9. CASE UNCHANGED vars
  BY <1>2, <1>9 DEF vars, core, At
<1>10. QED
  BY <1>1, <1>3, <1>4, <1>5, <1>6, <1>7, <1>8, <1>9 DEF Next, Step, Quiet

LEMMA CallbackStep ==
  ASSUME TypeOK, Untouched, Publishing, CallbackSeesItsRevision, InCallbacks,
         [Next]_vars
  PROVE  CallbackSeesItsRevision' /\ InCallbacks'
<1>1. ASSUME NEW t \in Threads, Create(t)
      PROVE  CallbackSeesItsRevision' /\ InCallbacks'
  BY <1>1 DEF Create, Untouched, CallbackSeesItsRevision, InCallbacks
<1>2. ASSUME UNCHANGED <<owner, epoch, revision, diffs>>,
             \A u \in Threads : inCallback'[u] =>
               inCallback[u] /\ call'[u] = call[u]
      PROVE  CallbackSeesItsRevision' /\ InCallbacks'
  BY <1>2 DEF CallbackSeesItsRevision, InCallbacks
<1>3. ASSUME NEW t \in Threads, Destroy(t) \/ CallbackReturns(t)
      PROVE  CallbackSeesItsRevision' /\ InCallbacks'
  <2>1. UNCHANGED <<owner, epoch, revision, diffs, call>>
    BY <1>3 DEF Destroy, CallbackReturns, core
  <2>2. \A u \in Threads : inCallback'[u] => inCallback[u]
    BY <1>3 DEF Destroy, CallbackReturns, TypeOK
  <2>3. QED
    BY <1>2, <2>1, <2>2
<1>4. ASSUME NEW t \in Threads, NEW c \in Requests, Enter(t, c)
      PROVE  CallbackSeesItsRevision' /\ InCallbacks'
  <2>1. UNCHANGED <<owner, epoch, revision, diffs, inCallback>>
    BY <1>4 DEF Enter, core
  <2>2. QED
    BY <1>2, <1>4, <2>1, EnterStep DEF Alone
<1>5. ASSUME NEW t \in Threads, Quiet(t)
      PROVE  CallbackSeesItsRevision' /\ InCallbacks'
  BY <1>2, <1>5, QuietStep DEF Alone, InCallbacks
<1>6. ASSUME NEW t \in Threads, SetEpoch(t) \/ Submit(t)
      PROVE  CallbackSeesItsRevision' /\ InCallbacks'
  <2>1. t = owner /\ call[t] # Absent
    BY <1>6, OwnerSteps, SubmitStep
  <2>2. inCallback' = inCallback
    BY <1>6 DEF SetEpoch, Submit
  <2>3. \A u \in Threads : ~ inCallback[u]
    BY <2>1 DEF InCallbacks
  <2>4. QED
    BY <2>2, <2>3 DEF CallbackSeesItsRevision, InCallbacks
<1>7. ASSUME NEW t \in Threads, Publish(t)
      PROVE  CallbackSeesItsRevision' /\ InCallbacks'
  <2>1. \A u \in Threads : inCallback'[u] => u = t \/ inCallback[u]
    BY <1>7 DEF Publish, TypeOK
  <2>2. \A u \in Threads : ~ inCallback[u]
    BY <1>7, PublishStep DEF InCallbacks, At
  <2>3. /\ owner' = t /\ call'[t] = Absent /\ diffs' # <<>>
        /\ diffs'[Len(diffs')].revision = revision'
        /\ diffs'[Len(diffs')].epoch = epoch'
    BY <1>7, PublishStep
  <2>4. QED
    BY <2>1, <2>2, <2>3 DEF CallbackSeesItsRevision, InCallbacks
<1>8. CASE UNCHANGED vars
  BY <1>2, <1>8 DEF vars, core
<1>9. QED
  BY <1>1, <1>3, <1>4, <1>5, <1>6, <1>7, <1>8 DEF Next, Step, Quiet

-----------------------------------------------------------------------------
(* Leases under way *)

\* A lease of another thread is not touched, and no id is used twice.
LEMMA ForeignLease ==
  ASSUME TypeOK, Registrations, Retiring, NEW t \in Threads, Step(t),
         NEW l \in LeaseIds, leases[l] # Absent, leases[l].owner # t
  PROVE  leases'[l] = leases[l]
<1>1. CASE leases' = leases
  BY <1>1
<1>2. CASE Register(t)
  BY <1>2, RegisteredLease
<1>3. CASE Transition(t)
  BY <1>3, TransitionedLease
<1>4. CASE Remove(t)
  <2>1. leases[call[t].lease].owner = t
    BY <1>4, RemoveMoves DEF Retiring, HoldsLease, MayDiscard
  <2>2. QED
    BY <1>4, <2>1, RemovedLease
<1>5. leases' = leases \/ Register(t) \/ Transition(t) \/ Remove(t)
  BY DEF Step, Refuse, SetEpoch, Submit, Publish, Check, Lookup, Relookup, core
<1>6. QED
  BY <1>1, <1>2, <1>3, <1>4, <1>5

\* Leaving is said of one thread, so that a step can be split by it.
LeavingAt(t) == At(t, "retire", "relookup") \/ At(t, "retire", "remove")

Leaving(t) ==
  /\ HoldsLease(t, call[t].lease, call[t].device)
  /\ leases[call[t].lease].state = "Retired"

LEMMA RetiringStep ==
  ASSUME TypeOK, Registrations, Retiring, [Next]_vars
  PROVE  Retiring'
<1>1. \A u \in Threads : LeavingAt(u) => Leaving(u)
  BY DEF Retiring, LeavingAt, Leaving
<1>2. SUFFICES ASSUME NEW u \in Threads, LeavingAt(u)' PROVE Leaving(u)'
  BY DEF Retiring, LeavingAt, Leaving
<1>3. CASE UNCHANGED <<call, leases>>
  BY <1>1, <1>2, <1>3 DEF LeavingAt, Leaving, At, HoldsLease
<1>4. ASSUME NEW t \in Threads, NEW c \in Requests, Enter(t, c)
      PROVE  Leaving(u)'
  <2>1. u # t /\ call'[u] = call[u] /\ leases' = leases
    BY <1>2, <1>4, EnterStep, RequestsAreCalls
       DEF Enter, core, Alone, LeavingAt, At
  <2>2. QED
    BY <1>1, <1>2, <2>1 DEF LeavingAt, Leaving, At, HoldsLease
<1>5. ASSUME NEW t \in Threads, Step(t), u # t
      PROVE  Leaving(u)'
  <2>1. call'[u] = call[u]
    BY <1>5, CallsStep, SubmitStep DEF Step, Alone
  <2>2. LeavingAt(u) /\ Leaving(u)
    BY <1>1, <1>2, <2>1 DEF LeavingAt, At
  <2>3. call[u].lease \in LeaseIds
    BY <2>2, CallFields DEF LeavingAt, At, TypeOK, LeaseOps
  <2>4. leases'[call[u].lease] = leases[call[u].lease]
    BY <1>5, <2>2, <2>3, ForeignLease DEF Leaving, HoldsLease
  <2>5. QED
    BY <2>1, <2>2, <2>4 DEF Leaving, HoldsLease
<1>6. ASSUME Step(u)
      PROVE  Leaving(u)'
  <2>1. CASE Relookup(u)
    <3>1. LeavingAt(u) /\ leases' = leases
      BY <2>1 DEF Relookup, LeavingAt, core
    <3>2. /\ call'[u].lease = call[u].lease
          /\ call'[u].device = call[u].device
      BY <2>1, RelookupMoves, Moved
    <3>3. QED
      BY <1>1, <3>1, <3>2 DEF Leaving, HoldsLease
  <2>2. CASE Transition(u)
    <3>1. call[u].op = "retire" /\ GoTo(u, "relookup") /\ call[u] # Absent
      BY <1>2, <2>2, TransitionMoves, Returned DEF LeavingAt, At
    <3>2. /\ call'[u].lease = call[u].lease
          /\ call'[u].device = call[u].device
      BY <3>1, Moved
    <3>3. QED
      BY <2>2, <3>1, <3>2, TransitionedLease DEF Leaving, HoldsLease, Following
  <2>3. CASE Submit(u)
    BY <1>2, <2>3, SubmitStep DEF LeavingAt, At
  <2>4. CASE Check(u)
    BY <1>2, <2>4, CheckMoves, Moved DEF LeavingAt, At
  <2>5. CASE Lookup(u)
    BY <1>2, <2>5, LookupMoves, Moved DEF LeavingAt, At
  <2>6. CASE Refuse(u) \/ SetEpoch(u) \/ Publish(u) \/ Register(u) \/ Remove(u)
    <3>1. call'[u] = Absent
      BY <2>6, Returned DEF Refuse, SetEpoch, Publish, Register, Remove
    <3>2. QED
      BY <1>2, <3>1 DEF LeavingAt, At
  <2>7. QED
    BY <1>6, <2>1, <2>2, <2>3, <2>4, <2>5, <2>6 DEF Step
<1>7. ASSUME NEW t \in Threads, Create(t) \/ Destroy(t) \/ CallbackReturns(t)
      PROVE  UNCHANGED <<call, leases>>
  BY <1>7 DEF Create, Destroy, CallbackReturns, core
<1>8. CASE UNCHANGED vars
  BY <1>3, <1>8 DEF vars, core
<1>9. QED
  BY <1>3, <1>4, <1>5, <1>6, <1>7, <1>8 DEF Next

\* Contexts are ordered.
LEMMA NotBeforeOrders ==
  /\ \A x \in Context : x.epoch \in Nat /\ Len(x.revision) \in Nat
  /\ \A x \in Context : NotBefore(x, x)
  /\ \A x, y, z \in Context : NotBefore(x, y) /\ NotBefore(y, z) => NotBefore(x, z)
<1>1. \A x \in Context : x.epoch \in Nat /\ Len(x.revision) \in Nat
  BY LenProperties DEF Context, Epochs, RevisionHash
<1>2. QED
  BY <1>1 DEF NotBefore

\* Time goes on: the current context is never older than it was, once there
\* is a core.
LEMMA NowAdvances ==
  ASSUME TypeOK, TypeOK', Untouched, [Next]_vars, handle # "none"
  PROVE  Now \in Context /\ Now' \in Context /\ NotBefore(Now', Now)
<1>1. Now \in Context /\ Now' \in Context
  BY DEF TypeOK, Now, Context
<1>2. CASE UNCHANGED <<epoch, revision>>
  BY <1>1, <1>2, NotBeforeOrders DEF Now
<1>3. ASSUME NEW t \in Threads, SetEpoch(t)
      PROVE  NotBefore(Now', Now)
  <2>1. epoch' >= epoch /\ revision' = revision
    BY <1>3, OwnerSteps DEF SetEpoch
  <2>2. QED
    BY <1>1, <2>1, NotBeforeOrders DEF Now, NotBefore
<1>4. ASSUME NEW t \in Threads, Submit(t)
      PROVE  NotBefore(Now', Now)
  <2>1. epoch' = epoch /\ Len(revision') >= Len(revision)
    BY <1>4, SubmitStep DEF Submit
  <2>2. QED
    BY <1>1, <2>1, NotBeforeOrders DEF Now, NotBefore
<1>5. ASSUME NEW t \in Threads, Create(t)
      PROVE  FALSE
  BY <1>5 DEF Create
<1>6. ASSUME NEW t \in Threads,
             \/ Destroy(t) \/ CallbackReturns(t) \/ Publish(t) \/ Quiet(t)
             \/ \E c \in Requests : Enter(t, c)
      PROVE  UNCHANGED <<epoch, revision>>
  BY <1>6, QuietStep DEF Destroy, CallbackReturns, Publish, Enter, core
<1>7. CASE UNCHANGED vars
  BY <1>2, <1>7 DEF vars, core
<1>8. QED
  BY <1>1, <1>2, <1>3, <1>4, <1>5, <1>6, <1>7 DEF Next, Step, Quiet

\* A lease keeps its context, and an id that was handed out is not used again.
LEMMA LeaseKeepsContext ==
  ASSUME TypeOK, Registrations, Retiring, [Next]_vars,
         NEW l \in LeaseIds, l < next, leases'[l] # Absent
  PROVE  leases[l] # Absent /\ leases'[l].context = leases[l].context
<1>1. CASE leases' = leases
  BY <1>1
<1>2. ASSUME NEW t \in Threads, Register(t)
      PROVE  leases'[l] = leases[l]
  <2>1. l # next
    BY DEF TypeOK, LeaseIds
  <2>2. QED
    BY <1>2, <2>1, RegisteredLease
<1>3. ASSUME NEW t \in Threads, Transition(t)
      PROVE  leases[l] # Absent /\ leases'[l].context = leases[l].context
  BY <1>3, TransitionedLease
<1>4. ASSUME NEW t \in Threads, Remove(t)
      PROVE  leases'[l] = leases[l]
  BY <1>4, RemovedLease
<1>5. \/ leases' = leases
      \/ \E t \in Threads : Register(t) \/ Transition(t) \/ Remove(t)
  BY DEF Next, Step, Create, Destroy, Enter, CallbackReturns, Refuse, SetEpoch,
         Submit, Publish, Check, Lookup, Relookup, vars, core
<1>6. QED
  BY <1>1, <1>2, <1>3, <1>4, <1>5

Begun(t) ==
  /\ NotBefore(Now, call[t].start)
  /\ call[t].at # "check" /\ leases[call[t].lease] # Absent =>
       NotBefore(leases[call[t].lease].context, call[t].start)

LEMMA StartingStep ==
  ASSUME TypeOK, TypeOK', Registrations, LeaseCalls, Untouched, Retiring,
         Starting, [Next]_vars
  PROVE  Starting'
<1>1. \A u \in Threads :
        call[u] # Absent /\ call[u].op = "lease_submit" => Begun(u)
  BY DEF Starting, Begun
<1>2. SUFFICES ASSUME NEW u \in Threads,
                      call'[u] # Absent, call'[u].op = "lease_submit"
               PROVE  Begun(u)'
  BY DEF Starting, Begun
\* A call that was already under way, and has not just passed its check.
<1>3. ASSUME call[u] # Absent, call[u].op = "lease_submit",
             call'[u].lease = call[u].lease, call'[u].start = call[u].start,
             call'[u].at # "check" => call[u].at # "check"
      PROVE  Begun(u)'
  <2>1. handle # "none"
    BY <1>3 DEF Untouched
  <2>2. /\ call[u].start \in Context /\ call[u].lease \in LeaseIds
        /\ call[u].lease < next
    BY <1>3, CallFields DEF TypeOK, LeaseCalls, LeaseOps
  <2>3. NotBefore(Now', call[u].start)
    BY <1>1, <1>3, <2>1, <2>2, NowAdvances, NotBeforeOrders DEF Begun
  <2>4. ASSUME call'[u].at # "check", leases'[call[u].lease] # Absent
        PROVE  NotBefore(leases'[call[u].lease].context, call[u].start)
    BY <1>1, <1>3, <2>2, <2>4, LeaseKeepsContext DEF Begun
  <2>5. QED
    BY <1>3, <2>3, <2>4 DEF Begun
<1>4. CASE call' = call
  BY <1>2, <1>3, <1>4
<1>5. ASSUME NEW t \in Threads, NEW c \in Requests, Enter(t, c)
      PROVE  Begun(u)'
  <2>1. CASE u # t
    BY <1>2, <1>3, <1>5, <2>1, EnterStep DEF Alone
  <2>2. CASE u = t
    <3>1. call'[u].start = Now /\ call'[u].at = "check" /\ Now' = Now
      BY <1>2, <1>5, <2>2, EnterStep, RequestsAreCalls DEF Enter, core, Now
    <3>2. Now \in Context
      BY DEF TypeOK, Now, Context
    <3>3. NotBefore(Now', call'[u].start)
      BY <3>1, <3>2, NotBeforeOrders
    <3>4. QED
      BY <3>1, <3>3 DEF Begun
  <2>3. QED
    BY <2>1, <2>2
<1>6. ASSUME NEW t \in Threads, Step(t), u # t
      PROVE  Begun(u)'
  <2>1. call'[u] = call[u]
    BY <1>6, CallsStep, SubmitStep DEF Step, Alone
  <2>2. QED
    BY <1>2, <1>3, <2>1
<1>7. ASSUME Step(u)
      PROVE  Begun(u)'
  <2>1. CASE Check(u)
    <3>1. call[u] # Absent /\ call[u].at = "check" /\ GoTo(u, "lookup")
      BY <2>1, CheckMoves
    <3>2. /\ call[u].op = "lease_submit" /\ call'[u].lease = call[u].lease
          /\ call'[u].start = call[u].start
      BY <1>2, <2>1, <3>1, CheckMoves, Moved
    <3>3. LeaseIsCurrent(call[u].lease)
      BY <2>1, <3>1, <3>2 DEF Check, Permitted, MayBegin, MaySetEpoch, MaySubmit
    <3>4. leases' = leases /\ Now' = Now
      BY <2>1 DEF Check, core, Now
    <3>5. NotBefore(Now, call[u].start)
      BY <1>1, <3>1, <3>2 DEF Begun
    <3>6. QED
      BY <3>2, <3>3, <3>4, <3>5 DEF Begun, LeaseIsCurrent
  <2>2. CASE Lookup(u)
    BY <1>2, <1>3, <2>2, LookupMoves, Moved
  <2>3. CASE Submit(u)
    BY <1>2, <2>3, SubmitStep
  <2>4. CASE Relookup(u)
    BY <1>2, <2>4, RelookupMoves, Moved
  <2>5. CASE Transition(u)
    BY <1>2, <2>5, TransitionMoves, Moved, Returned
  <2>6. CASE Refuse(u) \/ SetEpoch(u) \/ Publish(u) \/ Register(u) \/ Remove(u)
    BY <1>2, <2>6, Returned DEF Refuse, SetEpoch, Publish, Register, Remove
  <2>7. QED
    BY <1>7, <2>1, <2>2, <2>3, <2>4, <2>5, <2>6 DEF Step
<1>8. ASSUME NEW t \in Threads, Create(t) \/ Destroy(t) \/ CallbackReturns(t)
      PROVE  call' = call
  BY <1>8 DEF Create, Destroy, CallbackReturns
<1>9. CASE UNCHANGED vars
  BY <1>4, <1>9 DEF vars
<1>10. QED
  BY <1>4, <1>5, <1>6, <1>7, <1>8, <1>9 DEF Next

-----------------------------------------------------------------------------
(* The theorems *)

LEMMA InvStep == Inv /\ [Next]_vars => Inv'
<1> SUFFICES ASSUME Inv, [Next]_vars PROVE Inv'
  OBVIOUS
<1>1. TypeOK' /\ Registrations'
  BY TypeStep, RegistrationsStep DEF Inv
<1>2. LeaseCalls' /\ Untouched' /\ Orphaned'
  BY LeaseCallsStep, UntouchedStep, OrphanedStep DEF Inv
<1>3. Chain' /\ Publishing' /\ Published'
  BY DiffsStep DEF Inv
<1>4. CallbackSeesItsRevision' /\ InCallbacks'
  BY CallbackStep DEF Inv
<1>5. Retiring' /\ Starting'
  BY <1>1, RetiringStep, StartingStep DEF Inv
<1>6. QED
  BY <1>1, <1>2, <1>3, <1>4, <1>5 DEF Inv

LEMMA InvHolds == Spec => []Inv
BY InitInv, InvStep, PTL DEF Spec

\* Type correctness of the core, its leases and the calls under way.
THEOREM AbiTypeOK == Spec => []TypeOK
BY InvHolds, PTL DEF Inv

\* A reader of DIFFS never sees a gap or a fork (stitch_core_submit publishes
\* without the core's lock; only the owner thread can be about to).
THEOREM AbiDiffsChain == Spec => []DiffsChain
<1>1. Inv => DiffsChain
  BY DEF Inv, Chain, Published, Publishing, DiffsChain
<1>2. QED
  BY <1>1, InvHolds, PTL

\* In a callback the core is at the revision and epoch of the diff
\* (IN_CALLBACK and the owner check of stitch_core_set_epoch and submit).
THEOREM AbiCallbackSeesItsRevision == Spec => []CallbackSeesItsRevision
BY InvHolds, PTL DEF Inv

\* stitch_core_destroy strands no lease that was ever acquired, whatever calls
\* cloned the core before it.
THEOREM AbiOrphansNeverAcquired == Spec => []OrphansNeverAcquired
<1>1. Inv => OrphansNeverAcquired
  BY DEF Inv, Orphaned, OrphansNeverAcquired
<1>2. QED
  BY <1>1, InvHolds, PTL

\* stitch_frame_lease_submit gives the GPU no lease that was stale when the
\* call was made: cancellation by epoch holds for every later submission.
THEOREM AbiCancelledIsNotSubmitted == Spec => CancelledIsNotSubmitted
<1> DEFINE Submits(t, l) ==
             /\ At(t, "lease_submit", "transition")
             /\ call[t].lease = l
             /\ leases'[l] # leases[l]
           NotStale(t, l) ==
             /\ leases[l].context.epoch >= call[t].start.epoch
             /\ Len(leases[l].context.revision) >= Len(call[t].start.revision)
<1>1. Inv /\ [Next]_vars =>
        [\A t \in Threads, l \in LeaseIds : Submits(t, l) => NotStale(t, l)]_vars
  <2> SUFFICES ASSUME Inv, [Next]_vars, NEW t \in Threads, NEW l \in LeaseIds,
                      Submits(t, l)
               PROVE  NotStale(t, l)
    OBVIOUS
  <2>1. /\ call[t] # Absent /\ call[t].op = "lease_submit"
        /\ call[t].at = "transition" /\ call[t].lease = l
    BY DEF At
  <2>2. l < next
    BY <2>1 DEF Inv, LeaseCalls, LeaseOps
  <2>3. leases[l] # Absent
    BY <2>2, LeaseKeepsContext DEF Inv
  <2>4. NotBefore(leases[l].context, call[t].start)
    BY <2>1, <2>3 DEF Inv, Starting
  <2>5. QED
    BY <2>4 DEF NotBefore
<1>2. QED
  BY <1>1, InvHolds, PTL DEF Spec, CancelledIsNotSubmitted

-----------------------------------------------------------------------------
(* The protocol *)

Stages == [l \in LeaseIds |-> Stage(l)]

\* A step that leaves every lease where it is.
LEMMA StagesStay ==
  ASSUME UNCHANGED <<leases, next>>
  PROVE  Stages' = Stages
BY DEF Stages, Stage

\* A step that moves one lease.
LEMMA StagesMove ==
  ASSUME TypeOK, NEW l \in LeaseIds, NEW to,
         next' \in {next, next + 1}, next' # next => l = next,
         \A k \in LeaseIds \ {l} : leases'[k] = leases[k],
         Stage(l)' = to
  PROVE  Stages' = [Stages EXCEPT ![l] = to]
<1>1. ASSUME NEW k \in LeaseIds \ {l} PROVE Stage(k)' = Stage(k)
  BY <1>1 DEF Stage, TypeOK, LeaseIds
<1>2. QED
  BY <1>1 DEF Stages

LEMMA StepRefines ==
  ASSUME Inv, NEW t \in Threads, Step(t)
  PROVE  Protocol!Next \/ UNCHANGED <<handle, Stages>>
<1>1. handle' = handle /\ call[t] # Absent /\ handle # "none"
  <2>1. call[t] # Absent
    BY CallsStep, SubmitStep DEF Inv, Step
  <2>2. handle' = handle
    BY DEF Step, Refuse, SetEpoch, Submit, Publish, Register, Check, Lookup,
           Transition, Relookup, Remove, core
  <2>3. QED
    BY <2>1, <2>2 DEF Inv, Untouched
<1>2. ASSUME NEW l \in LeaseIds, leases[l] # Absent, leases[l].owner = t
      PROVE  handle = "live" /\ l < next
  BY <1>1, <1>2 DEF Inv, Orphaned, TypeOK
<1>3. CASE Register(t)
  <2>1. next \in LeaseIds /\ leases[next] = Absent /\ next' = next + 1
    BY <1>3, RegisteredLease DEF Inv
  <2>2. Stages[next] = "Free"
    BY <2>1 DEF Stages, Stage, LeaseIds
  <2>3. LET l == next IN
        /\ leases'[l] # Absent /\ leases'[l].state = "Registered"
        /\ \A k \in LeaseIds \ {l} : leases'[k] = leases[k]
    BY <1>3, RegisteredLease DEF Inv
  <2>5. PICK l \in LeaseIds : l = next
    BY <2>1
  <2>6. Stages' = [Stages EXCEPT ![l] = "Registered"]
    BY <2>1, <2>3, <2>5, StagesMove DEF Inv, Stage
  <2>7. Protocol!Register(l)
    BY <1>1, <2>2, <2>5, <2>6 DEF Protocol!Register, Protocol!Become, Stages
  <2>8. QED
    BY <2>7 DEF Protocol!Next
<1>4. CASE Transition(t)
  <2> DEFINE from == Expected[call[t].op]
             to == Following[call[t].op]
  <2>0. PICK l \in LeaseIds : l = call[t].lease
    BY <1>4, TransitionedLease DEF Inv
  <2>1. /\ l \in LeaseIds /\ leases[l] # Absent /\ leases[l].owner = t
        /\ leases[l].state = from
        /\ leases'[l] # Absent /\ leases'[l].state = to
        /\ \A k \in LeaseIds \ {l} : leases'[k] = leases[k]
    BY <1>4, <2>0, TransitionedLease DEF Inv
  <2>2. next' = next
    BY <1>4 DEF Transition
  <2>3. <<from, to>> \in {<<"Registered", "Acquired">>, <<"Acquired", "Submitted">>,
                          <<"Submitted", "Completed">>, <<"Completed", "Retired">>}
    BY <1>4, TransitionMoves DEF Inv, Expected, Following
  <2> HIDE DEF from, to
  <2>4. Stages[l] = from /\ Stage(l)' = to
    BY <2>1 DEF Stages, Stage
  <2>5. Stages' = [Stages EXCEPT ![l] = to]
    BY <2>1, <2>2, <2>4, StagesMove DEF Inv
  <2>6. Protocol!Advance(l, from, to)
    BY <1>1, <1>2, <2>1, <2>4, <2>5
       DEF Protocol!Advance, Protocol!Become, Stages
  <2>7. QED
    BY <2>1, <2>3, <2>6 DEF Protocol!Next
<1>5. CASE Remove(t)
  <2>0. PICK l \in LeaseIds : l = call[t].lease
    BY <1>5, RemoveMoves DEF Inv
  <2>1. /\ l \in LeaseIds /\ leases[l] # Absent /\ leases[l].owner = t
        /\ leases[l].state \in {"Registered", "Acquired", "Retired"}
    BY <1>5, <2>0, RemoveMoves
       DEF Inv, Retiring, HoldsLease, MayDiscard, Discardable
  <2>2. /\ leases'[l] = Absent
        /\ \A k \in LeaseIds \ {l} : leases'[k] = leases[k]
    BY <1>5, <2>0, RemovedLease DEF Inv
  <2>3. next' = next
    BY <1>5 DEF Remove
  <2>4. Stages[l] = leases[l].state /\ Stage(l)' = "Gone"
    BY <1>2, <2>1, <2>2, <2>3 DEF Stages, Stage
  <2>5. Stages' = [Stages EXCEPT ![l] = "Gone"]
    BY <2>1, <2>2, <2>3, <2>4, StagesMove DEF Inv
  <2>6. Protocol!Advance(l, leases[l].state, "Gone")
    BY <1>1, <1>2, <2>1, <2>4, <2>5
       DEF Protocol!Advance, Protocol!Become, Stages
  <2>7. QED
    BY <2>1, <2>6 DEF Protocol!Next
<1>6. CASE UNCHANGED <<leases, next>>
  BY <1>1, <1>6, StagesStay
<1>7. \/ UNCHANGED <<leases, next>>
      \/ Register(t) \/ Transition(t) \/ Remove(t)
  BY DEF Step, Refuse, SetEpoch, Submit, Publish, Check, Lookup, Relookup, core
<1>8. QED
  BY <1>3, <1>4, <1>5, <1>6, <1>7

\* Whatever the interleaving of calls, destruction included, every lease goes
\* through its life in the order of the header, and only a core without leases
\* is destroyed (lease_transition, stitch_core_destroy).
THEOREM AbiImplementsFrameLeases == Spec => ImplementsFrameLeases
<1>1. Init => Protocol!Init
  BY DEF Init, Protocol!Init, Stage, LeaseIds
<1>2. Inv /\ [Next]_vars => [Protocol!Next]_<<handle, [l \in LeaseIds |-> Stage(l)]>>
  <2> SUFFICES ASSUME Inv, [Next]_vars
               PROVE  Protocol!Next \/ UNCHANGED <<handle, Stages>>
    BY DEF Stages
  <2>1. ASSUME NEW t \in Threads, Create(t)
        PROVE  Protocol!Next
    <3>1. Stages' = Stages
      BY <2>1, StagesStay DEF Create
    <3>2. QED
      BY <2>1, <3>1 DEF Create, Protocol!Next, Protocol!Create, Stages
  <2>2. ASSUME NEW t \in Threads, Destroy(t)
        PROVE  Protocol!Next
    <3>1. Stages' = Stages
      BY <2>2, StagesStay DEF Destroy
    <3>2. \A l \in LeaseIds : Stages[l] \notin Protocol!Alive
      BY <2>2 DEF Destroy, NoLeases, Stages, Stage, Protocol!Alive
    <3>3. QED
      BY <2>2, <3>1, <3>2
         DEF Destroy, Live, Protocol!Next, Protocol!Destroy, Stages
  <2>3. ASSUME NEW t \in Threads,
               CallbackReturns(t) \/ \E c \in Requests : Enter(t, c)
        PROVE  UNCHANGED <<handle, Stages>>
    BY <2>3, StagesStay DEF CallbackReturns, Enter, core
  <2>4. CASE UNCHANGED vars
    BY <2>4, StagesStay DEF vars, core
  <2>5. QED
    BY <2>1, <2>2, <2>3, <2>4, StepRefines DEF Next
<1>3. QED
  BY <1>1, <1>2, InvHolds, PTL DEF Spec, ImplementsFrameLeases, Protocol!Spec
=============================================================================
