------------------------ MODULE PreviewPipelineProofs ------------------------
(***************************************************************************)
(* PreviewPipeline for every number of contexts, leases, teardowns and     *)
(* frames in flight, and every Environment: completions reach their node,  *)
(* leases follow it, and its texture outlives the frame it observes.       *)
(***************************************************************************)
EXTENDS PreviewPipeline, WellFoundedInduction, TLAPS

USE PreviewAssumption

-----------------------------------------------------------------------------
(* Types, in three parts: the flags, the numbers, and the node and frames. *)

Flags ==
  /\ editing \in BOOLEAN /\ timer \in BOOLEAN /\ pump \in BOOLEAN
  /\ dirty \in BOOLEAN /\ synced \in BOOLEAN

Counts ==
  /\ project \in 1..MaxContexts /\ context \in 0..MaxContexts
  /\ mailbox \in Slot /\ last \in 0..MaxContexts
  /\ next \in 1..(MaxLeases + 1) /\ leases \subseteq 1..(next - 1)
  /\ teardowns \in 0..MaxInvalidations

Objects ==
  /\ node \in PreviewNode \cup {Absent}
  /\ gpu \in Seq(Frame) /\ Len(gpu) <= FramesInFlight

LEMMA TypeParts == TypeOK <=> Flags /\ Counts /\ Objects
BY DEF TypeOK, Flags, Counts, Objects

LEMMA InitType == Init => TypeOK
<1>1. Init => Flags
  BY DEF Init, Flags
<1>2. Init => Counts
  BY DEF Init, Counts, Slot
<1>3. Init => Objects
  BY DEF Init, Objects
<1>4. QED
  BY <1>1, <1>2, <1>3, TypeParts

(* A frame more at the end of the queue: the old ones keep their places.   *)
LEMMA AppendFrame ==
  ASSUME NEW q \in Seq(Frame), NEW f \in Frame
  PROVE  /\ Append(q, f) \in Seq(Frame)
         /\ Len(Append(q, f)) = Len(q) + 1
         /\ \A i \in 1..Len(q) : Append(q, f)[i] = q[i]
         /\ Append(q, f)[Len(q) + 1] = f
OBVIOUS

(* The oldest frame finished: every other one moves up by one.             *)
LEMMA TailFrame ==
  ASSUME NEW q \in Seq(Frame), q # <<>>
  PROVE  /\ Tail(q) \in Seq(Frame)
         /\ Head(q) \in Frame /\ Head(q) = q[1]
         /\ Len(q) \in Nat /\ Len(q) >= 1
         /\ Len(Tail(q)) = Len(q) - 1
         /\ \A i \in 1..Len(q) - 1 : Tail(q)[i] = q[i + 1]
OBVIOUS

LEMMA FlagsStep ==
  ASSUME Flags, Next
  PROVE  Flags'
<1> USE DEF Flags, gui, render
<1>1. CASE Edit \/ OpenSnapshot \/ Publish \/ Tick \/ Resize
  BY <1>1 DEF Edit, OpenSnapshot, Publish, Tick, Resize
<1>2. CASE SyncRetire \/ SyncFailed \/ SyncKeep
  BY <1>2 DEF SyncRetire, SyncFailed, SyncKeep, Syncing
<1>3. CASE SyncIdle \/ SyncCreate
  BY <1>3 DEF SyncIdle, SyncCreate, Syncing
<1>4. CASE RenderFrame \/ RenderAndAttach \/ RenderAndFail
  BY <1>4 DEF RenderFrame, RenderAndAttach, RenderAndFail, Submitted
<1>5. CASE GpuFinishes \/ Invalidate
  BY <1>5 DEF GpuFinishes, Invalidate
<1>6. QED
  BY <1>1, <1>2, <1>3, <1>4, <1>5 DEF Next

\* What arrives in the mailbox is a lease id or nothing.
LEMMA SlotsStep ==
  ASSUME TypeOK
  PROVE  /\ Slot \subseteq Nat /\ 0 \in Slot /\ LeaseIds \subseteq Slot
         /\ node # Absent => node \in PreviewNode /\ node.lease \in LeaseIds
         /\ node # Absent => node.context \in 1..MaxContexts
         /\ \A i \in 1..Len(gpu) : gpu[i].posts \in Slot /\ gpu[i].draws \in Slot
<1>1. Objects
  BY TypeParts
<1>2. \A i \in 1..Len(gpu) : gpu[i] \in Frame
  BY <1>1 DEF Objects
<1>3. QED
  BY <1>1, <1>2 DEF Objects, Slot, LeaseIds, PreviewNode, Frame

\* Some frame in flight posts if any does, and the first of them arrives.
LEMMA FirstPost ==
  ASSUME TypeOK, Posting # {}
  PROVE  \E i \in Posting : \A j \in Posting : i <= j
<1> DEFINE less == {ss \in Nat \X Nat : ss[1] < ss[2]}
<1>1. Posting \subseteq Nat /\ Posting # {}
  BY TypeParts DEF Posting, Objects
<1>2. IsWellFoundedOn(less, Nat)
  BY NatLessThanWellFounded DEF OpToRel
<1>3. PICK i \in Posting : \A j \in Posting : <<j, i>> \notin less
  <2> HIDE DEF less
  <2> QED
    BY <1>1, <1>2, WFMin
<1>4. ASSUME NEW j \in Posting PROVE i <= j
  <2>1. <<j, i>> \in Nat \X Nat /\ <<j, i>> \notin less
    BY <1>1, <1>3
  <2>2. QED
    BY <1>1, <2>1
<1>5. QED
  BY <1>4

LEMMA DrainedSlot ==
  ASSUME TypeOK
  PROVE  Drained \in Slot
<1>1. CASE mailbox # 0 \/ Posting = {}
  BY <1>1, TypeParts DEF Drained, Counts
<1>2. CASE mailbox = 0 /\ Posting # {}
  <2>1. PICK i \in Posting : Drained = gpu[i].posts
    BY <1>2, FirstPost DEF Drained
  <2>2. QED
    BY <2>1, SlotsStep DEF Posting
<1>3. QED
  BY <1>1, <1>2

LEMMA CountsStep ==
  ASSUME TypeOK, Next
  PROVE  Counts'
<1> USE DEF gui, render
<1>0. Counts
  BY TypeParts
<1>1. CASE Edit \/ OpenSnapshot \/ Publish \/ Tick \/ Resize
  <2>1. UNCHANGED <<leases, mailbox, last, next, teardowns>>
    BY <1>1 DEF Edit, OpenSnapshot, Publish, Tick, Resize
  <2>2. \/ project' = project + 1 /\ project < MaxContexts
        \/ project' = project
    BY <1>1 DEF Edit, OpenSnapshot, Publish, Tick, Resize
  <2>3. context' \in {context, project}
    BY <1>1 DEF Edit, OpenSnapshot, Publish, Published, Tick, Resize
  <2>4. QED
    BY <1>0, <2>1, <2>2, <2>3 DEF Counts
<1>2. CASE SyncRetire \/ SyncFailed \/ SyncKeep \/ SyncIdle
  <2>1. UNCHANGED <<project, context, next, teardowns>>
    BY <1>2 DEF SyncRetire, SyncFailed, SyncKeep, SyncIdle, Syncing
  <2>2. leases' \subseteq leases
    BY <1>2 DEF SyncRetire, SyncFailed, SyncKeep, SyncIdle, CompleteAndRetire
  <2>3. mailbox' \in {0, mailbox}
    BY <1>2 DEF SyncRetire, SyncFailed, SyncKeep, SyncIdle
  <2>4. last' \in 0..MaxContexts
    <3>1. node # Absent => node.context \in 1..MaxContexts
      BY SlotsStep
    <3>2. QED
      BY <1>0, <1>2, <3>1
         DEF Counts, SyncRetire, SyncFailed, SyncKeep, SyncIdle
  <2>5. QED
    BY <1>0, <2>1, <2>2, <2>3, <2>4 DEF Counts, Slot
<1>3. CASE SyncCreate
  <2>1. UNCHANGED <<project, context, mailbox, last, teardowns>>
    BY <1>3 DEF SyncCreate, Syncing
  <2>2. next <= MaxLeases /\ next' = next + 1
    BY <1>3 DEF SyncCreate, NextLease
  <2>3. leases' \subseteq leases \cup {next}
    BY <1>3 DEF SyncCreate
  <2>4. QED
    BY <1>0, <2>1, <2>2, <2>3 DEF Counts
<1>4. CASE RenderFrame \/ RenderAndAttach \/ RenderAndFail
  BY <1>0, <1>4
     DEF Counts, RenderFrame, RenderAndAttach, RenderAndFail, Submitted
<1>5. CASE GpuFinishes
  <2>1. Head(gpu).posts \in Slot
    <3>1. gpu \in Seq(Frame) /\ gpu # <<>>
      BY <1>5, TypeParts DEF Objects, GpuFinishes
    <3>2. QED
      BY <3>1, TailFrame DEF Frame
  <2>2. mailbox' \in Slot
    BY <1>0, <1>5, <2>1 DEF Counts, GpuFinishes, Enqueue
  <2>3. QED
    BY <1>0, <1>5, <2>2 DEF Counts, GpuFinishes
<1>6. CASE Invalidate
  <2>1. Drained \in Slot
    BY <1>0, DrainedSlot
  <2>2. mailbox' \in Slot
    BY <1>6, <2>1 DEF Invalidate, Discard, Slot
  <2>3. leases' \subseteq leases
    BY <1>6 DEF Invalidate, CompleteAndRetire
  <2>4. /\ UNCHANGED <<project, context, next>> /\ last' = 0
        /\ teardowns' = teardowns + 1 /\ teardowns < MaxInvalidations
    BY <1>6 DEF Invalidate
  <2>5. QED
    BY <1>0, <2>2, <2>3, <2>4 DEF Counts
<1>7. QED
  BY <1>1, <1>2, <1>3, <1>4, <1>5, <1>6 DEF Next

LEMMA ObjectsStep ==
  ASSUME TypeOK, Next
  PROVE  Objects'
<1>0. Objects
  BY TypeParts
<1>1. CASE Edit \/ OpenSnapshot \/ Publish \/ Tick \/ Resize
  BY <1>0, <1>1 DEF Objects, Edit, OpenSnapshot, Publish, Tick, Resize, render
<1>2. CASE SyncRetire \/ SyncFailed \/ SyncIdle
  BY <1>0, <1>2 DEF Objects, SyncRetire, SyncFailed, SyncIdle, Syncing
<1>3. CASE SyncKeep
  <2>1. node \in PreviewNode /\ gpu' = gpu
    BY <1>0, <1>3 DEF Objects, SyncKeep, Syncing
  <2>2. node' = [node EXCEPT !.visual = ~ node.attached]
    BY <1>3 DEF SyncKeep
  <2>3. node' \in PreviewNode
    BY <2>1, <2>2 DEF PreviewNode
  <2>4. QED
    BY <1>0, <2>1, <2>3 DEF Objects
<1>4. CASE SyncCreate
  <2> DEFINE created == [lease |-> next, context |-> context, visual |-> TRUE,
                         attached |-> FALSE, failed |-> FALSE]
  <2>1. gpu' = gpu /\ next \in LeaseIds /\ context \in 1..MaxContexts
    BY <1>4, TypeParts DEF SyncCreate, Syncing, Counts, LeaseIds
  <2>2. created \in PreviewNode
    BY <2>1 DEF PreviewNode
  <2>3. node' = node \/ node' = created
    BY <1>4 DEF SyncCreate
  <2>4. node' \in PreviewNode \cup {Absent}
    BY <1>0, <2>2, <2>3 DEF Objects
  <2>5. QED
    BY <1>0, <2>1, <2>4 DEF Objects
<1>5. CASE RenderFrame \/ RenderAndAttach \/ RenderAndFail
  <2>1. PICK posts \in Slot : Submitted(posts)
    BY <1>5, SlotsStep
       DEF RenderFrame, RenderAndAttach, RenderAndFail, MayAttach
  <2>2. [draws |-> Drawn, posts |-> posts] \in Frame
    BY SlotsStep DEF Drawn, Frame
  <2>3. gpu' = Append(gpu, [draws |-> Drawn, posts |-> posts])
        /\ Len(gpu) < FramesInFlight
    BY <2>1 DEF Submitted, MayRender
  <2>4. gpu' \in Seq(Frame) /\ Len(gpu') = Len(gpu) + 1 /\ Len(gpu) \in Nat
    BY <1>0, <2>2, <2>3, AppendFrame DEF Objects
  <2>5. node' \in PreviewNode \cup {Absent}
    BY <1>0, <1>5
       DEF Objects, RenderFrame, RenderAndAttach, RenderAndFail, MayAttach,
           PreviewNode
  <2>6. QED
    BY <1>0, <2>3, <2>4, <2>5 DEF Objects
<1>6. CASE GpuFinishes
  <2>1. gpu \in Seq(Frame) /\ gpu # <<>> /\ gpu' = Tail(gpu) /\ node' = node
    BY <1>0, <1>6 DEF Objects, GpuFinishes, render
  <2>2. QED
    BY <1>0, <2>1, TailFrame DEF Objects
<1>7. CASE Invalidate
  BY <1>0, <1>7 DEF Objects, Invalidate
<1>8. QED
  BY <1>1, <1>2, <1>3, <1>4, <1>5, <1>6, <1>7 DEF Next

LEMMA TypeStep ==
  ASSUME TypeOK, [Next]_vars
  PROVE  TypeOK'
<1>1. CASE Next
  BY <1>1, TypeParts, FlagsStep, CountsStep, ObjectsStep
     DEF TypeOK, Flags, Counts, Objects
<1>2. CASE UNCHANGED vars
  BY <1>2 DEF TypeOK, vars, gui, render
<1>3. QED
  BY <1>1, <1>2

(* Type correctness of the three threads' variables, for every bound.      *)
THEOREM PreviewTypeOK == Spec => []TypeOK
<1>1. Init => TypeOK
  BY InitType
<1>2. TypeOK /\ [Next]_vars => TypeOK'
  BY TypeStep
<1>3. QED
  BY <1>1, <1>2, PTL DEF Spec

-----------------------------------------------------------------------------
\* At most one frame in flight carries a handler; it is the node's, and then
\* nothing has arrived in the mailbox yet.
OnePost ==
  /\ \A i \in 1..Len(gpu) : gpu[i].posts # 0 =>
       /\ node # Absent /\ node.attached /\ node.lease = gpu[i].posts
       /\ mailbox = 0
  /\ \A i, j \in 1..Len(gpu) : gpu[i].posts # 0 /\ gpu[j].posts # 0 => i = j

\* A node that failed never had a handler.
FailedUnobserved == node # Absent => ~ (node.failed /\ node.attached)

NodeInv ==
  /\ CompletionReachesNode
  /\ LeaseFollowsNode
  /\ OnePost
  /\ FailedUnobserved

Inv == TypeOK /\ NodeInv

(* The cached context is the core's whenever the render thread reads it.   *)
THEOREM PreviewCachedContextIsCurrent == Spec => []CachedContextIsCurrent
<1>1. Init => CachedContextIsCurrent
  BY DEF Init, CachedContextIsCurrent
<1>2. CachedContextIsCurrent /\ [Next]_vars => CachedContextIsCurrent'
  <2> SUFFICES ASSUME CachedContextIsCurrent, [Next]_vars
               PROVE  CachedContextIsCurrent'
    OBVIOUS
  <2> USE DEF CachedContextIsCurrent, gui
  <2>1. CASE Edit \/ OpenSnapshot \/ Publish \/ Tick \/ Resize
    BY <2>1 DEF Edit, OpenSnapshot, Publish, Published, Tick, Resize
  <2>2. CASE SyncRetire \/ SyncFailed \/ SyncKeep \/ SyncIdle \/ SyncCreate
    BY <2>2 DEF SyncRetire, SyncFailed, SyncKeep, SyncIdle, SyncCreate, Syncing
  <2>3. CASE RenderFrame \/ RenderAndAttach \/ RenderAndFail
    BY <2>3 DEF RenderFrame, RenderAndAttach, RenderAndFail, Submitted
  <2>4. CASE GpuFinishes \/ Invalidate \/ UNCHANGED vars
    BY <2>4 DEF GpuFinishes, Invalidate, vars
  <2>5. QED
    BY <2>1, <2>2, <2>3, <2>4 DEF Next
<1>3. QED
  BY <1>1, <1>2, PTL DEF Spec

LEMMA InitInv == Init => Inv
<1>1. Init => NodeInv
  BY DEF Init, NodeInv, CompletionReachesNode, LeaseFollowsNode, OnePost,
         FailedUnobserved
<1>2. QED
  BY <1>1, InitType DEF Inv

-----------------------------------------------------------------------------
(* Synchronisation. *)

(* When the node is gone, had no handler, or its completion has arrived,   *)
(* no frame in flight carries a handler.                                   *)
LEMMA NoPostLeft ==
  ASSUME Inv, node = Absent \/ ~ node.attached \/ mailbox # 0
  PROVE  \A i \in 1..Len(gpu) : gpu[i].posts = 0
BY DEF Inv, NodeInv, OnePost

(* Without a node, and with nothing under way, the invariant is immediate. *)
LEMMA NoNode ==
  ASSUME node' = Absent, leases' = {}, mailbox' = 0,
         \A i \in 1..Len(gpu') : gpu'[i].posts = 0
  PROVE  NodeInv'
BY DEF NodeInv, CompletionReachesNode, LeaseFollowsNode, OnePost,
       FailedUnobserved

LEMMA SyncInv ==
  ASSUME Inv, Sync
  PROVE  NodeInv'
<1>1. gpu' = gpu
  BY DEF Sync, SyncRetire, SyncFailed, SyncKeep, SyncIdle, SyncCreate, Syncing
<1>2. CASE SyncRetire
  <2>1. mailbox # 0
    BY <1>2, SlotsStep DEF SyncRetire, Completed, LeaseIds, Inv
  <2>2. leases' = {} /\ node' = Absent /\ mailbox' = 0
    BY <1>2 DEF SyncRetire, CompleteAndRetire, Inv, NodeInv, LeaseFollowsNode
  <2>3. QED
    BY <1>1, <2>1, <2>2, NoPostLeft, NoNode
<1>3. CASE SyncFailed
  <2>1. ~ node.attached /\ node # Absent
    BY <1>3 DEF SyncFailed, Inv, NodeInv, FailedUnobserved
  <2>2. mailbox = 0
    BY <2>1 DEF Inv, NodeInv, CompletionReachesNode
  <2>3. leases' = {} /\ node' = Absent /\ mailbox' = 0
    BY <1>3, <2>2 DEF SyncFailed, CompleteAndRetire, Released, Inv, NodeInv,
                      LeaseFollowsNode
  <2>4. QED
    BY <1>1, <2>1, <2>3, NoPostLeft, NoNode
<1>4. CASE SyncKeep
  <2>1. /\ node \in PreviewNode /\ node # Absent
        /\ node' = [node EXCEPT !.visual = ~ node.attached]
        /\ UNCHANGED <<leases, mailbox>>
    BY <1>4, SlotsStep DEF SyncKeep, Inv
  <2>2. /\ node' # Absent
        /\ node'.lease = node.lease /\ node'.attached = node.attached
        /\ node'.failed = node.failed
    BY <2>1, AbsentAssumption DEF PreviewNode
  <2>3. QED
    BY <1>1, <2>1, <2>2
       DEF Inv, NodeInv, CompletionReachesNode, LeaseFollowsNode, OnePost,
           FailedUnobserved
<1>5. CASE SyncIdle
  BY <1>1, <1>5
     DEF SyncIdle, Inv, NodeInv, CompletionReachesNode, LeaseFollowsNode,
         OnePost, FailedUnobserved
<1>6. CASE SyncCreate
  <2>1. node = Absent /\ UNCHANGED mailbox
    BY <1>6 DEF SyncCreate
  <2>2. leases = {} /\ mailbox = 0 /\ \A i \in 1..Len(gpu) : gpu[i].posts = 0
    BY <2>1, NoPostLeft
       DEF Inv, NodeInv, LeaseFollowsNode, CompletionReachesNode
  <2>3. CASE LeaseGranted
    <3> DEFINE created == [lease |-> next, context |-> context,
                 visual |-> TRUE, attached |-> FALSE, failed |-> FALSE]
    <3>1. node' = created /\ leases' = {created.lease}
      BY <1>6, <2>2, <2>3 DEF SyncCreate
    <3>2. ~ created.attached /\ ~ created.failed
      OBVIOUS
    <3>3. created # Absent
      <4>1. next \in LeaseIds /\ context \in 1..MaxContexts
        BY <1>6, TypeParts DEF SyncCreate, Counts, LeaseIds, Inv
      <4>2. created \in PreviewNode
        BY <4>1 DEF PreviewNode
      <4>3. QED
        BY <4>2, AbsentAssumption
    <3> HIDE DEF created
    <3>4. QED
      BY <1>1, <2>1, <2>2, <3>1, <3>2, <3>3
         DEF NodeInv, CompletionReachesNode, LeaseFollowsNode, OnePost,
             FailedUnobserved
  <2>4. CASE ~ LeaseGranted
    <3>1. node' = Absent /\ leases' = {}
      BY <1>6, <2>1, <2>2, <2>4 DEF SyncCreate
    <3>2. QED
      BY <1>1, <2>1, <2>2, <3>1, NoNode
  <2>5. QED
    BY <2>3, <2>4
<1>7. QED
  BY <1>2, <1>3, <1>4, <1>5, <1>6 DEF Sync

-----------------------------------------------------------------------------
(* Rendering, completion and teardown. *)

LEMMA RenderInv ==
  ASSUME Inv, Render
  PROVE  NodeInv'
<1>1. gpu \in Seq(Frame) /\ Len(gpu) \in Nat
  BY TypeParts DEF Inv, Objects
<1>2. ASSUME NEW posts \in Slot, Submitted(posts)
      PROVE  /\ UNCHANGED <<leases, mailbox>>
             /\ Len(gpu') = Len(gpu) + 1
             /\ \A i \in 1..Len(gpu) : gpu'[i] = gpu[i]
             /\ gpu'[Len(gpu) + 1].posts = posts
  <2>1. [draws |-> Drawn, posts |-> posts] \in Frame
    BY SlotsStep DEF Inv, Drawn, Frame
  <2>2. QED
    BY <1>1, <1>2, <2>1, AppendFrame DEF Submitted
<1>3. CASE RenderFrame
  <2>1. Submitted(0) /\ node' = node /\ 0 \in Slot
    BY <1>3, SlotsStep DEF RenderFrame, Inv
  <2>2. QED
    BY <1>1, <1>2, <2>1, SMTT(20)
       DEF Inv, NodeInv, CompletionReachesNode, LeaseFollowsNode, OnePost,
           FailedUnobserved
<1>4. ASSUME MayAttach
      PROVE  /\ node \in PreviewNode /\ node # Absent
             /\ ~ node.attached /\ ~ node.failed
             /\ node.lease \in Slot /\ node.lease # 0 /\ mailbox = 0
             /\ \A i \in 1..Len(gpu) : gpu[i].posts = 0
  BY <1>4, SlotsStep, NoPostLeft
     DEF MayAttach, Inv, NodeInv, CompletionReachesNode, LeaseIds
<1>5. CASE RenderAndAttach
  <2>1. /\ MayAttach /\ Submitted(node.lease)
        /\ node' = [node EXCEPT !.attached = TRUE]
    BY <1>5 DEF RenderAndAttach
  <2>2. /\ node' # Absent /\ node'.lease = node.lease /\ node'.attached
        /\ ~ node'.failed
    BY <1>4, <2>1, AbsentAssumption DEF PreviewNode
  <2>3. /\ mailbox' = 0 /\ leases' = {node'.lease}
        /\ gpu'[Len(gpu')].posts = node'.lease
        /\ \A i \in 1..Len(gpu') : gpu'[i].posts # 0 => i = Len(gpu')
        /\ Len(gpu') \in 1..Len(gpu')
    BY <1>1, <1>2, <1>4, <2>1, <2>2 DEF Inv, NodeInv, LeaseFollowsNode
  <2>4. QED
    BY <2>2, <2>3
       DEF NodeInv, CompletionReachesNode, LeaseFollowsNode, OnePost,
           FailedUnobserved
<1>6. CASE RenderAndFail
  <2>1. /\ MayAttach /\ Submitted(0)
        /\ node' = [node EXCEPT !.failed = TRUE]
    BY <1>6 DEF RenderAndFail
  <2>2. /\ node' # Absent /\ node'.lease = node.lease /\ ~ node'.attached
    BY <1>4, <2>1, AbsentAssumption DEF PreviewNode
  <2>3. /\ mailbox' = 0 /\ leases' = {node'.lease}
        /\ \A i \in 1..Len(gpu') : gpu'[i].posts = 0
    <3>1. 0 \in Slot /\ MayAttach /\ Submitted(0)
      BY <2>1, SlotsStep DEF Inv
    <3>2. leases' = leases /\ mailbox' = mailbox /\ mailbox = 0
      BY <1>2, <1>4, <3>1
    <3>3. leases' = {node'.lease}
      BY <1>4, <2>2, <3>1, <3>2 DEF Inv, NodeInv, LeaseFollowsNode
    <3>4. \A i \in 1..Len(gpu') : gpu'[i].posts = 0
      BY <1>1, <1>2, <1>4, <3>1
    <3>5. QED
      BY <3>2, <3>3, <3>4
  <2>4. QED
    BY <2>2, <2>3
       DEF NodeInv, CompletionReachesNode, LeaseFollowsNode, OnePost,
           FailedUnobserved
<1>7. QED
  BY <1>3, <1>5, <1>6 DEF Render

LEMMA GpuInv ==
  ASSUME Inv, GpuFinishes
  PROVE  NodeInv'
<1>1. /\ gpu \in Seq(Frame) /\ gpu # <<>> /\ gpu' = Tail(gpu)
      /\ UNCHANGED <<node, leases>>
      /\ mailbox' = Enqueue(mailbox, Head(gpu).posts)
  BY TypeParts DEF Inv, Objects, GpuFinishes, render
<1>2. /\ Len(gpu) \in Nat /\ Len(gpu) >= 1 /\ Len(gpu') = Len(gpu) - 1
      /\ \A i \in 1..Len(gpu') : gpu'[i] = gpu[i + 1] /\ i + 1 \in 1..Len(gpu)
      /\ Head(gpu) = gpu[1] /\ 1 \in 1..Len(gpu)
  BY <1>1, TailFrame
<1>3. CASE gpu[1].posts = 0
  <2>1. mailbox' = mailbox
    BY <1>1, <1>2, <1>3 DEF Enqueue
  <2>2. \A i \in 1..Len(gpu) : gpu[i].posts # 0 =>
          i - 1 \in 1..Len(gpu') /\ gpu'[i - 1] = gpu[i]
    BY <1>2, <1>3
  <2>3. OnePost'
    BY <1>1, <1>2, <2>1 DEF Inv, NodeInv, OnePost
  <2>4. CompletionReachesNode'
    <3>1. node # Absent => node.lease # 0
      BY SlotsStep DEF Inv, LeaseIds
    <3>2. QED
      BY <1>1, <2>1, <2>2, <3>1 DEF Inv, NodeInv, CompletionReachesNode
  <2>5. QED
    BY <1>1, <2>3, <2>4
       DEF Inv, NodeInv, LeaseFollowsNode, FailedUnobserved
<1>4. CASE gpu[1].posts # 0
  <2>1. /\ node # Absent /\ node.attached /\ node.lease = gpu[1].posts
        /\ mailbox = 0
        /\ \A i \in 1..Len(gpu) : gpu[i].posts # 0 => i = 1
    BY <1>2, <1>4 DEF Inv, NodeInv, OnePost
  <2>2. mailbox' = node.lease
    BY <1>1, <1>2, <2>1 DEF Enqueue
  <2>3. \A i \in 1..Len(gpu') : gpu'[i].posts = 0
    BY <1>2, <2>1
  <2>4. QED
    BY <1>1, <2>1, <2>2, <2>3
       DEF Inv, NodeInv, CompletionReachesNode, OnePost, LeaseFollowsNode,
           FailedUnobserved
<1>5. QED
  BY <1>3, <1>4

LEMMA InvalidateInv ==
  ASSUME Inv, Invalidate
  PROVE  NodeInv'
<1>1. gpu' = <<>> /\ node' = Absent
  BY DEF Invalidate
<1>2. leases' = {}
  BY DEF Invalidate, CompleteAndRetire, Inv, NodeInv, LeaseFollowsNode
<1>3. mailbox' = 0
  <2>1. CASE node = Absent
    <3>1. mailbox = 0 /\ Posting = {}
      BY <2>1, NoPostLeft
         DEF Inv, NodeInv, CompletionReachesNode, Posting
    <3>2. QED
      BY <2>1, <3>1 DEF Invalidate, Drained
  <2>2. CASE node # Absent
    <3>1. Drained \in {0, node.lease}
      <4>1. CASE mailbox # 0 \/ Posting = {}
        BY <4>1 DEF Drained, Inv, NodeInv, CompletionReachesNode
      <4>2. CASE mailbox = 0 /\ Posting # {}
        <5>1. PICK i \in Posting : Drained = gpu[i].posts
          BY <4>2, FirstPost DEF Drained, Inv
        <5>2. QED
          BY <5>1 DEF Posting, Inv, NodeInv, OnePost
      <4>3. QED
        BY <4>1, <4>2
    <3>2. QED
      BY <2>2, <3>1 DEF Invalidate, Discard
  <2>3. QED
    BY <2>1, <2>2
<1>4. QED
  BY <1>1, <1>2, <1>3, NoNode

LEMMA StepInv ==
  ASSUME Inv, [Next]_vars
  PROVE  Inv'
<1>1. TypeOK'
  BY TypeStep DEF Inv
<1>2. CASE Edit \/ OpenSnapshot \/ Publish \/ Tick \/ Resize \/ UNCHANGED vars
  <2>1. UNCHANGED <<leases, mailbox, node, gpu>>
    BY <1>2 DEF Edit, OpenSnapshot, Publish, Tick, Resize, render, gui, vars
  <2>2. QED
    BY <1>1, <2>1 DEF Inv, NodeInv, CompletionReachesNode, LeaseFollowsNode,
                      OnePost, FailedUnobserved
<1>3. QED
  BY <1>1, <1>2, SyncInv, RenderInv, GpuInv, InvalidateInv
     DEF Inv, Next, Sync, Render

LEMMA Invariance == Spec => []Inv
<1>1. Inv /\ [Next]_vars => Inv'
  BY StepInv
<1>2. QED
  BY <1>1, InitInv, PTL DEF Spec

(* No completion is lost in the one-slot mailbox or left for a later node. *)
THEOREM PreviewCompletionReachesNode == Spec => []CompletionReachesNode
<1>1. Inv => CompletionReachesNode
  BY DEF Inv, NodeInv
<1>2. QED
  BY <1>1, Invariance, PTL

(* The core holds exactly the lease of the paint node.                     *)
THEOREM PreviewLeaseFollowsNode == Spec => []LeaseFollowsNode
<1>1. Inv => LeaseFollowsNode
  BY DEF Inv, NodeInv
<1>2. QED
  BY <1>1, Invariance, PTL

(* A node outlives the frame that carries its completion handler.          *)
THEOREM PreviewObservedFrameHoldsTexture == Spec => []ObservedFrameHoldsTexture
<1>1. Inv => ObservedFrameHoldsTexture
  BY DEF Inv, NodeInv, OnePost, ObservedFrameHoldsTexture
<1>2. QED
  BY <1>1, Invariance, PTL

-----------------------------------------------------------------------------
(* The pump.  While there is a node the pump's flag is up.                 *)

PumpInv == node # Absent => pump

LEMMA PumpStep ==
  ASSUME PumpInv, [Next]_vars
  PROVE  PumpInv'
<1>1. CASE UNCHANGED vars
  BY <1>1 DEF PumpInv, vars, render
<1>2. CASE Edit \/ OpenSnapshot \/ Publish \/ Tick \/ Resize
  BY <1>2 DEF Edit, OpenSnapshot, Publish, Tick, Resize, PumpInv, render
<1>3. CASE SyncRetire \/ SyncFailed \/ SyncKeep \/ SyncIdle \/ SyncCreate
  BY <1>3 DEF SyncRetire, SyncFailed, SyncKeep, SyncIdle, SyncCreate, PumpInv
<1>4. CASE RenderFrame \/ RenderAndAttach \/ RenderAndFail
  BY <1>4 DEF RenderFrame, RenderAndAttach, RenderAndFail, Submitted, MayAttach,
              PumpInv
<1>5. CASE GpuFinishes \/ Invalidate
  BY <1>5 DEF GpuFinishes, Invalidate, PumpInv, render
<1>6. QED
  BY <1>1, <1>2, <1>3, <1>4, <1>5 DEF Next

(* The safety half of PolledLeaseRetires: once the pump's timer runs under *)
(* a lease it runs until the core holds no lease any more.  What refutes   *)
(* LeaseRetires is therefore a node made while the timer stands still.     *)
THEOREM PreviewTimerOutlivesLease ==
  Spec => [][ leases # {} /\ timer => leases' = {} \/ timer' ]_vars
<1>1. Init => PumpInv
  BY DEF Init, PumpInv
<1>2. PumpInv /\ [Next]_vars => PumpInv'
  BY PumpStep
<1>3. Inv /\ PumpInv /\ [Next]_vars
        => [ leases # {} /\ timer => leases' = {} \/ timer' ]_vars
  <2>1. SUFFICES ASSUME Inv, PumpInv, Next, leases # {}, timer
                 PROVE  timer'
    OBVIOUS
  <2>2. pump
    BY <2>1 DEF Inv, NodeInv, LeaseFollowsNode, PumpInv
  <2>3. CASE Tick
    BY <2>2, <2>3 DEF Tick
  <2>4. CASE ~ Tick
    BY <2>1, <2>4 DEF Next, Edit, OpenSnapshot, Publish, Resize, SyncRetire,
       SyncFailed, SyncKeep, SyncIdle, SyncCreate, Syncing, RenderFrame,
       RenderAndAttach, RenderAndFail, Submitted, GpuFinishes, Invalidate, gui
  <2>5. QED
    BY <2>3, <2>4
<1>4. QED
  BY <1>1, <1>2, <1>3, Invariance, PTL DEF Spec
=============================================================================
