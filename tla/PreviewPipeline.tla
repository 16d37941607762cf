-------------------------- MODULE PreviewPipeline --------------------------
(***************************************************************************)
(* desktop/qt: the preview item of the macOS shell.  The GUI thread edits  *)
(* the core and publishes frame contexts (EditorController); the render    *)
(* thread of Qt's threaded render loop synchronises the item               *)
(* (updatePaintNode), records frames and attaches a Metal completion       *)
(* handler to one of them (onAfterRendering); the GPU finishes frames in   *)
(* order and runs the handlers, which post a lease id to a one-slot        *)
(* mailbox; a GUI timer keeps asking for updates while a lease is out.     *)
(*                                                                         *)
(* External, modelled from how src/ uses it: Qt blocks the GUI thread in   *)
(* its event loop while the render thread synchronises or tears down, and  *)
(* calls updatePaintNode only for an item marked dirty; rendering a frame  *)
(* needs no synchronisation of this item.  When waitUntilCompleted returns *)
(* the completion handlers have run: the node's destructor discards their  *)
(* post right after it.  Calls of the ABI fail for the reasons modelled    *)
(* only: after a core call the snapshot is read, and the lease of a node   *)
(* is completed and retired, by the thread, epoch and device it belongs to.*)
(*                                                                         *)
(* A frame context (revision, epoch) is a version number: versions never   *)
(* recur, since revisions and epochs only advance; 0 is the invalid one.   *)
(* Lease ids are numbers from 1; 0 in the mailbox is the empty slot.       *)
(***************************************************************************)
EXTENDS Naturals, Sequences

CONSTANTS
  Absent,
  MaxContexts,       \* bounds the edits and cancellations
  MaxLeases,         \* bounds the lease ids
  MaxInvalidations,  \* bounds the scene-graph teardowns
  FramesInFlight,    \* frames the render loop lets the GPU lag behind
  Environment        \* what else may happen: see below

\* "resize": the item is marked dirty for another reason than a context;
\* "repaint": the window is rendered for another item's sake only;
\* "noCommandList": Qt does not hand out its command buffer.
ASSUME PreviewAssumption ==
  /\ MaxContexts \in Nat \ {0}
  /\ MaxLeases \in Nat
  /\ MaxInvalidations \in Nat
  /\ FramesInFlight \in Nat \ {0}
  /\ Environment \subseteq {"resize", "repaint", "noCommandList"}

VARIABLES
  (* GUI thread *)
  editing,     \* EditorController is between its core call and the publication
  project,     \* the version of the core's revision and epoch
  context,     \* frame_context_
  timer,       \* pump_timer_ is active
  (* shared *)
  pump,        \* pump_active_
  dirty,       \* an update of the item is pending
  leases,      \* the leases the core holds, all Submitted
  mailbox,     \* CompletionMailbox::completed_
  (* render thread *)
  last,        \* last_context_
  node,        \* the paint node, which render_node_ points to
  next,        \* the next lease id
  synced,      \* the item was synchronised since the last frame
  teardowns,   \* how many scene-graph teardowns there were
  (* GPU *)
  gpu          \* the frames not finished, oldest first

gui == <<editing, project, context, timer>>
render == <<last, node, next, synced, teardowns>>
vars == <<gui, pump, dirty, leases, mailbox, render, gpu>>

-----------------------------------------------------------------------------
LeaseIds == 1..MaxLeases
Slot == 0..MaxLeases

\* The lease a node holds, the context it previews, whether its visual child
\* is still there, whether a completion handler was installed, and whether it
\* failed after its submission.
PreviewNode == [lease : LeaseIds, context : 1..MaxContexts, visual : BOOLEAN,
                attached : BOOLEAN, failed : BOOLEAN]

ASSUME AbsentAssumption == Absent \notin PreviewNode

\* The lease whose texture a frame samples and the one its handler posts.
Frame == [draws : Slot, posts : Slot]

\* Values are of the code's types, and the GPU lags by FramesInFlight at most.
TypeOK ==
  /\ editing \in BOOLEAN
  /\ project \in 1..MaxContexts
  /\ context \in 0..MaxContexts
  /\ timer \in BOOLEAN /\ pump \in BOOLEAN /\ dirty \in BOOLEAN
  /\ leases \subseteq 1..(next - 1)
  /\ mailbox \in Slot
  /\ last \in 0..MaxContexts
  /\ node \in PreviewNode \cup {Absent}
  /\ next \in 1..(MaxLeases + 1)
  /\ synced \in BOOLEAN
  /\ teardowns \in 0..MaxInvalidations
  /\ gpu \in Seq(Frame) /\ Len(gpu) <= FramesInFlight

\* After setController, before the first snapshot is opened.
Init ==
  /\ editing = FALSE /\ project = 1 /\ context = 0
  /\ timer = TRUE /\ pump = TRUE /\ dirty = TRUE
  /\ leases = {} /\ mailbox = 0
  /\ last = 0 /\ node = Absent /\ next = 1 /\ synced = FALSE
  /\ teardowns = 0
  /\ gpu = <<>>

-----------------------------------------------------------------------------
(* GUI thread: EditorController and the pump. *)

\* submitDemoBatch or cancelEpoch changes the core ...
Edit ==
  /\ ~ editing
  /\ context # 0
  /\ project < MaxContexts
  /\ project' = project + 1
  /\ editing' = TRUE
  /\ UNCHANGED <<context, timer, pump, dirty, leases, mailbox, render, gpu>>

\* ... and openSnapshot, like they, reads it back through refreshSnapshot.
OpenSnapshot ==
  /\ ~ editing
  /\ editing' = TRUE
  /\ context = 0
  /\ UNCHANGED <<project, context, timer, pump, dirty, leases, mailbox,
                 render, gpu>>

\* Mutant: a cancellation or edit during a preview is not published.
MutPublished == IF node = Absent THEN project ELSE context

Published == project

\* publishFrameContext, and the item's slot: start pumping.  The error returns
\* between the core's change and this call are for a core that is gone.
Publish ==
  /\ editing
  /\ context' = Published
  /\ editing' = FALSE
  /\ pump' = TRUE /\ timer' = TRUE /\ dirty' = TRUE
  /\ UNCHANGED <<project, leases, mailbox, render, gpu>>

Tick ==
  /\ ~ editing
  /\ timer
  /\ timer' = pump
  /\ dirty' = (dirty \/ pump)
  /\ UNCHANGED <<editing, project, context, pump, leases, mailbox, render, gpu>>

\* geometryChange.
Resize ==
  /\ "resize" \in Environment
  /\ ~ editing
  /\ ~ dirty
  /\ dirty' = TRUE
  /\ UNCHANGED <<gui, pump, leases, mailbox, render, gpu>>

-----------------------------------------------------------------------------
(* Render thread: updatePaintNode, with the GUI thread blocked.  A visual    *)
(* child is detached first if the handler was installed or the node failed.  *)

Syncing ==
  /\ dirty
  /\ ~ editing
  /\ dirty' = FALSE
  /\ synced' = TRUE
  /\ UNCHANGED <<gui, teardowns, gpu>>

\* Mutant: the mailbox is not consulted.
MutCompleted == node.attached

\* drainCompletedLease: the visual is detached and the lease id has arrived.
Completed == node.attached /\ mailbox = node.lease

\* completeAndRetireFrame: the lease of a node that is going away, if any.  It
\* is Submitted, of this device, and this thread registered it.
CompleteAndRetire(held) == leases' = leases \ held

SyncRetire ==
  /\ Syncing
  /\ node # Absent
  /\ Completed
  /\ mailbox' = 0
  /\ CompleteAndRetire({node.lease})
  /\ last' = node.context
  /\ node' = Absent
  /\ pump' = FALSE
  /\ UNCHANGED next

\* Mutant: a failed node forgets its lease.
MutReleased == {}

Released == {node.lease}

\* A node that failed after its submission is deleted.  It has no command
\* buffer to wait for; its destructor completes and retires the lease.
SyncFailed ==
  /\ Syncing
  /\ node # Absent
  /\ node.failed
  /\ CompleteAndRetire(Released)
  /\ mailbox' = IF mailbox = node.lease THEN 0 ELSE mailbox
  /\ node' = Absent
  /\ pump' = FALSE
  /\ UNCHANGED <<last, next>>

SyncKeep ==
  /\ Syncing
  /\ node # Absent
  /\ ~ Completed
  /\ ~ node.failed
  /\ node' = [node EXCEPT !.visual = ~ node.attached]
  /\ UNCHANGED <<pump, leases, mailbox, last, next>>

\* Mutant: any earlier preview counts.
MutAlreadyPreviewed == last # 0

AlreadyPreviewed == context = last

SyncIdle ==
  /\ Syncing
  /\ node = Absent
  /\ \/ context = 0 /\ UNCHANGED pump
     \/ context # 0 /\ AlreadyPreviewed /\ pump' = FALSE
  /\ UNCHANGED <<leases, mailbox, last, node, next>>

\* Mutant: the core's handle counter does not move.
MutNextLease == next

NextLease == next + 1

\* registerAcquireFrame and submitFrame use the cached context; the core
\* refuses a stale one.
LeaseGranted == context = project

\* A new context: register, acquire and submit a lease.  If that is refused,
\* there is no node.
SyncCreate ==
  /\ Syncing
  /\ node = Absent
  /\ context # 0 /\ ~ AlreadyPreviewed
  /\ next <= MaxLeases
  /\ next' = NextLease
  /\ IF LeaseGranted
     THEN /\ node' = [lease |-> next, context |-> context, visual |-> TRUE,
                      attached |-> FALSE, failed |-> FALSE]
          /\ leases' = leases \cup {next}
          /\ pump' = TRUE
     ELSE pump' = FALSE /\ UNCHANGED <<node, leases>>
  /\ UNCHANGED <<mailbox, last>>

Sync == SyncRetire \/ SyncFailed \/ SyncKeep \/ SyncIdle \/ SyncCreate

-----------------------------------------------------------------------------
(* Render thread: frames and teardown; GPU. *)

MayRender ==
  /\ Len(gpu) < FramesInFlight
  /\ synced \/ "repaint" \in Environment

Drawn == IF node # Absent /\ node.visual THEN node.lease ELSE 0

MayAttach == node # Absent /\ ~ node.attached /\ ~ node.failed

Submitted(posts) ==
  /\ MayRender
  /\ synced' = FALSE
  /\ gpu' = Append(gpu, [draws |-> Drawn, posts |-> posts])
  /\ UNCHANGED <<gui, pump, dirty, leases, mailbox, last, next, teardowns>>

\* A frame for which onAfterRendering has nothing to do.
RenderFrame ==
  /\ ~ MayAttach
  /\ Submitted(0)
  /\ UNCHANGED node

\* onAfterRendering installs the handler on the frame's command buffer.
RenderAndAttach ==
  /\ MayAttach
  /\ Submitted(node.lease)
  /\ node' = [node EXCEPT !.attached = TRUE]

\* onAfterRendering gets no command buffer: failAfterSubmit.
RenderAndFail ==
  /\ "noCommandList" \in Environment
  /\ MayAttach
  /\ Submitted(0)
  /\ node' = [node EXCEPT !.failed = TRUE]

\* Mutant: the exchange expects a full slot.
MutEnqueue(slot, lease) == IF slot = 0 THEN slot ELSE lease

\* enqueue: compare-and-exchange from the empty slot.
Enqueue(slot, lease) == IF slot = 0 THEN lease ELSE slot

GpuFinishes ==
  /\ gpu # <<>>
  /\ gpu' = Tail(gpu)
  /\ mailbox' = Enqueue(mailbox, Head(gpu).posts)
  /\ UNCHANGED <<gui, pump, dirty, leases, render>>

\* Mutant: teardown does not discard a completion that has arrived.
MutDiscard(slot, lease) == slot

Discard(slot, lease) == IF slot = lease THEN 0 ELSE slot

\* The mailbox once every frame has finished: the first post to find it empty.
Posting == {i \in 1..Len(gpu) : gpu[i].posts # 0}

Drained ==
  IF mailbox # 0 \/ Posting = {} THEN mailbox
  ELSE gpu[CHOOSE i \in Posting : \A j \in Posting : i <= j].posts

\* Scene-graph teardown: Qt finishes the frames and deletes the node, whose
\* destructor waits for its command buffer, retires the lease and discards the
\* completion; sceneGraphInvalidated re-arms the preview.  Qt marks the item
\* dirty for the next scene graph.
Invalidate ==
  /\ ~ editing
  /\ teardowns < MaxInvalidations
  /\ teardowns' = teardowns + 1
  /\ gpu' = <<>>
  /\ IF node = Absent
     THEN CompleteAndRetire({}) /\ mailbox' = Drained
     ELSE /\ CompleteAndRetire({node.lease})
          /\ mailbox' = Discard(Drained, node.lease)
  /\ node' = Absent
  /\ last' = 0
  /\ pump' = TRUE
  /\ dirty' = TRUE
  /\ synced' = FALSE
  /\ UNCHANGED <<gui, next>>

Render == RenderFrame \/ RenderAndAttach \/ RenderAndFail

Next ==
  \/ Edit \/ OpenSnapshot \/ Publish \/ Tick \/ Resize
  \/ SyncRetire \/ SyncFailed \/ SyncKeep \/ SyncIdle \/ SyncCreate
  \/ RenderFrame \/ RenderAndAttach \/ RenderAndFail
  \/ GpuFinishes \/ Invalidate

Spec == Init /\ [][Next]_vars

\* The GUI event loop runs, the render loop serves a pending update and then
\* renders the frame, and the GPU makes progress.  Nothing obliges the user to
\* edit or resize, or another item to repaint.
FairSpec ==
  /\ Spec
  /\ WF_vars(Publish)
  /\ WF_vars(Tick)
  /\ WF_vars(Sync)
  /\ WF_vars(synced /\ Render)
  /\ WF_vars(GpuFinishes)

-----------------------------------------------------------------------------
(* Properties *)

\* The frame context the render thread reads while the GUI thread is blocked is
\* the core's current one, so updatePaintNode's register, acquire and submit
\* are never refused as stale (there is no retry after such a failure).
CachedContextIsCurrent == ~ editing /\ context # 0 => context = project

\* The completion of an attached frame is neither lost in the one-slot mailbox
\* nor left over for a later node: it is under way, or waiting in the mailbox
\* for the node that owns it.
CompletionReachesNode ==
  /\ mailbox # 0 => node # Absent /\ node.attached /\ mailbox = node.lease
  /\ (node # Absent /\ node.attached) =>
       \/ mailbox = node.lease
       \/ \E i \in 1..Len(gpu) : gpu[i].posts = node.lease

\* A node, its native texture and its lease stay until the frame that carries
\* the completion handler has finished on the GPU.
ObservedFrameHoldsTexture ==
  \A i \in 1..Len(gpu) :
    gpu[i].posts # 0 => node # Absent /\ node.lease = gpu[i].posts

\* The core holds exactly the lease of the paint node: retirement, failure and
\* teardown release it, so stitch_core_destroy is not refused at shutdown.
LeaseFollowsNode == leases = IF node = Absent THEN {} ELSE {node.lease}

\* Documented (c_api.h:166): retire "requires all native GPU use to have
\* completed first", so no frame in flight samples a texture whose lease is
\* gone.  Refuted by a repaint for another item's sake between the frame that
\* carries the handler and the next synchronisation.
TextureOutlivesFrames ==
  \A i \in 1..Len(gpu) : gpu[i].draws # 0 => gpu[i].draws \in leases

\* Documented (preview_item.mm:145): "Normal operation retires through the
\* mailbox on a later render pass".  Refuted: a scene-graph teardown after the
\* pump's timer has stopped re-arms the preview but not the timer, and nothing
\* asks for the pass that would find the completion.
LeaseRetires ==
  \A l \in LeaseIds : l \in leases ~> l \notin leases

\* A lease that is out while the pump's timer runs is retired, by a later pass
\* or by a teardown, whatever is edited, resized, repainted or torn down
\* meanwhile: the timer never stops under a lease, and the completion is found.
PolledLeaseRetires ==
  \A l \in LeaseIds : (l \in leases /\ timer) ~> l \notin leases

\* A frame context that is published while no preview is out is previewed,
\* unless a newer one is published before.  (A context published while an
\* older preview is out may never be: retiring the older node stops the pump.
\* A preview that fails again and again uses up the model's lease ids.)
PublishedIsPreviewed ==
  \A c \in 1..MaxContexts :
    (dirty /\ node = Absent /\ context = c /\ next <= MaxLeases) ~>
      \/ context # c
      \/ last = c
      \/ node # Absent /\ node.context = c
=============================================================================
