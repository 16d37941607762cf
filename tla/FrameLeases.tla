---------------------------- MODULE FrameLeases ----------------------------
(***************************************************************************)
(* What the C ABI promises of frame leases, without threads and locks: a   *)
(* lease goes through its life once and in order, work given to the GPU is *)
(* never dropped, and a core is destroyed only when it has no lease.       *)
(*                                                                         *)
(* A registration that was already under way may still land in a destroyed *)
(* core: such a lease stays Registered for ever.                           *)
(***************************************************************************)
EXTENDS Naturals

CONSTANTS LeaseIds

VARIABLES core,   \* "none", "live" or "destroyed"
          stage   \* the stage of the life of each lease

Alive == {"Registered", "Acquired", "Submitted", "Completed", "Retired"}

Init == core = "none" /\ stage = [l \in LeaseIds |-> "Free"]

Create == core = "none" /\ core' = "live" /\ UNCHANGED stage

Destroy ==
  /\ core = "live"
  /\ \A l \in LeaseIds : stage[l] \notin Alive
  /\ core' = "destroyed"
  /\ UNCHANGED stage

Become(l, to) == stage' = [stage EXCEPT ![l] = to] /\ UNCHANGED core

Register(l) == core # "none" /\ stage[l] = "Free" /\ Become(l, "Registered")

Advance(l, from, to) == core = "live" /\ stage[l] = from /\ Become(l, to)

Next ==
  \/ Create
  \/ Destroy
  \/ \E l \in LeaseIds :
       \/ Register(l)
       \/ Advance(l, "Registered", "Acquired")
       \/ Advance(l, "Acquired", "Submitted")
       \/ Advance(l, "Submitted", "Completed")
       \/ Advance(l, "Completed", "Retired")
       \/ Advance(l, "Retired", "Gone")
       \/ Advance(l, "Registered", "Gone")
       \/ Advance(l, "Acquired", "Gone")

Spec == Init /\ [][Next]_<<core, stage>>
=============================================================================
