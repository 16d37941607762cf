-------------------------- MODULE EditorHistoryProofs --------------------------
(***************************************************************************)
(* EditorHistory for every set of identities and every bound: the type     *)
(* invariant, the meaning of a revision hash, the structural checks, and   *)
(* the refinement of UndoStack.                                            *)
(***************************************************************************)
EXTENDS EditorHistory, ProjectModelProofs

Entry == [project : Project, hash : RevisionHash]

(* What holds of every revision: HashNamesProject and ProjectsWellFormed,  *)
(* strengthened to say that its chain extends every earlier one.           *)
RevisionSound(rs, i) ==
  /\ Len(rs[i].hash) = i
  /\ Replayable(rs[i].hash)
  /\ rs[i].project = Replay(rs[i].hash)
  /\ WellFormed(rs[i].project)
  /\ \A j \in 1..i : rs[j].hash = SubSeq(rs[i].hash, 1, j)

Inv ==
  /\ TypeOK
  /\ \A i \in 1..Len(revisions) : RevisionSound(revisions, i)

-----------------------------------------------------------------------------

(* What the code reads at the cursor, whether or not it is at genesis. *)
LEMMA AtCursor ==
  ASSUME Inv
  PROVE  /\ project \in Project /\ WellFormed(project)
         /\ current_hash \in Seq(Command) /\ Len(current_hash) = cursor
         /\ Replayable(current_hash) /\ project = Replay(current_hash)
         /\ \A j \in 1..cursor : revisions[j].hash = SubSeq(current_hash, 1, j)
<1>1. CASE cursor = 0
  BY <1>1, EmptyProjectType, EmptyProjectWellFormed, ReplayEmpty
     DEF project, current_hash, NoHash
<1>2. CASE cursor # 0
  <2>1. cursor \in 1..Len(revisions) /\ revisions[cursor] \in Entry
    <3>1. revisions \in Seq(Entry) /\ cursor \in 0..Len(revisions)
      BY DEF Inv, TypeOK, Entry
    <3>2. QED
      BY <1>2, <3>1
  <2>2. RevisionSound(revisions, cursor)
    BY <2>1 DEF Inv
  <2>3. QED
    BY <1>2, <2>1, <2>2 DEF project, current_hash, RevisionSound, Entry, RevisionHash
<1>3. QED
  BY <1>1, <1>2

LEMMA InitInv == Init => Inv
BY DEF Init, Inv, TypeOK

LEMMA ApplyInv ==
  ASSUME Inv, NEW c \in Command, Apply(c)
  PROVE  Inv'
<1> DEFINE kept == SubSeq(revisions, 1, cursor)
           next == [project |-> Reduce(project, c),
                    hash |-> revision_hash(current_hash, c)]
<1>1. /\ project \in Project /\ WellFormed(project)
      /\ current_hash \in Seq(Command) /\ Len(current_hash) = cursor
      /\ Replayable(current_hash) /\ project = Replay(current_hash)
      /\ \A j \in 1..cursor : revisions[j].hash = SubSeq(current_hash, 1, j)
  BY AtCursor
<1>2. /\ revisions \in Seq(Entry) /\ cursor \in 0..Len(revisions)
      /\ cursor \in Nat /\ Len(revisions) \in Nat
  BY DEF Inv, TypeOK, Entry
<1>3. Accepts(project, c) /\ revisions' = Append(kept, next) /\ cursor' = cursor + 1
  BY DEF Apply
<1>4. /\ kept \in Seq(Entry) /\ Len(kept) = cursor
      /\ \A i \in 1..cursor : kept[i] = revisions[i]
  BY <1>2, SubSeqProperties
<1>5. /\ next.hash = Append(current_hash, c)
      /\ next.hash \in Seq(Command) /\ Len(next.hash) = cursor + 1
      /\ next.project = Reduce(project, c)
  BY <1>1 DEF revision_hash
<1>6. next \in Entry
  <2>1. Reduce(project, c) \in Project
    BY <1>1, <1>3, ReduceType
  <2>2. QED
    BY <1>1, <2>1 DEF Entry, RevisionHash, revision_hash
<1> HIDE DEF kept, next
<1>7. /\ revisions' \in Seq(Entry) /\ Len(revisions') = cursor + 1
      /\ \A i \in 1..cursor : revisions'[i] = revisions[i]
      /\ revisions'[cursor + 1] = next
  BY <1>2, <1>3, <1>4, <1>6, AppendProperties
<1>8. ASSUME NEW i \in 1..cursor PROVE RevisionSound(revisions', i)
  <2>1. RevisionSound(revisions, i)
    BY <1>2 DEF Inv
  <2>2. \A j \in 1..i : revisions'[j] = revisions[j]
    BY <1>2, <1>7
  <2>3. i \in 1..i
    BY <1>2
  <2>4. QED
    BY <2>1, <2>2, <2>3 DEF RevisionSound
<1>9. RevisionSound(revisions', cursor + 1)
  <2>1. /\ Replayable(next.hash)
        /\ next.project = Replay(next.hash)
        /\ WellFormed(next.project)
    BY <1>1, <1>3, <1>5, ReplayAppend, ReduceWellFormed
  <2>2. ASSUME NEW j \in 1..cursor
        PROVE  revisions'[j].hash = SubSeq(next.hash, 1, j)
    <3>1. revisions'[j].hash = SubSeq(current_hash, 1, j)
      BY <1>1, <1>7
    <3>2. SubSeq(Append(current_hash, c), 1, j) = SubSeq(current_hash, 1, j)
      BY <1>1, <1>2
    <3>3. QED
      BY <1>5, <3>1, <3>2
  <2>3. SubSeq(next.hash, 1, cursor + 1) = next.hash
    BY <1>2, <1>5
  <2>4. revisions'[cursor + 1].hash = next.hash
    BY <1>7
  <2>5. ASSUME NEW j \in 1..(cursor + 1)
        PROVE  revisions'[j].hash = SubSeq(revisions'[cursor + 1].hash, 1, j)
    <3>1. j \in 1..cursor \/ j = cursor + 1
      BY <1>2
    <3>2. QED
      BY <2>2, <2>3, <2>4, <3>1
  <2>6. QED
    BY <1>5, <1>7, <2>1, <2>5 DEF RevisionSound
<1>10. cursor' \in 0..Len(revisions')
  BY <1>2, <1>3, <1>7
<1>11. 1..Len(revisions') = (1..cursor) \cup {cursor + 1}
  BY <1>2, <1>7
<1>12. QED
  BY <1>7, <1>8, <1>9, <1>10, <1>11 DEF Inv, TypeOK, Entry

LEMMA StepInv == Inv /\ [Next]_vars => Inv'
<1> SUFFICES ASSUME Inv, [Next]_vars PROVE Inv'
  OBVIOUS
<1>1. ASSUME NEW c \in Command, Apply(c) PROVE Inv'
  BY <1>1, ApplyInv
<1>2. CASE Undo
  <2>1. TypeOK'
    BY <1>2 DEF Undo, Inv, TypeOK
  <2>2. QED
    BY <1>2, <2>1 DEF Undo, Inv, RevisionSound
<1>3. CASE Redo
  <2>1. TypeOK'
    BY <1>3 DEF Redo, Inv, TypeOK
  <2>2. QED
    BY <1>3, <2>1 DEF Redo, Inv, RevisionSound
<1>4. CASE UNCHANGED vars
  BY <1>4 DEF vars, Inv, TypeOK, RevisionSound
<1>5. QED
  BY <1>1, <1>2, <1>3, <1>4 DEF Next

THEOREM InvHolds == Spec => []Inv
BY InitInv, StepInv, PTL DEF Spec

(* The cursor never leaves the vector, whatever is applied, undone, redone.*)
THEOREM EditorTypeOK == Spec => []TypeOK
<1>1. Inv => TypeOK
  BY DEF Inv
<1>2. QED
  BY <1>1, InvHolds, PTL

(* The project stored with a revision is the replay of the chain its hash  *)
(* stands for, also on a redo branch, and chains extend each other.        *)
THEOREM EditorHashNamesProject == Spec => []HashNamesProject
<1>1. ASSUME Inv PROVE HashNamesProject
  <2>1. ASSUME NEW i \in 1..Len(revisions), i > 1
        PROVE  revisions[i - 1].hash = SubSeq(revisions[i].hash, 1, i - 1)
    <3>1. RevisionSound(revisions, i)
      BY <1>1 DEF Inv
    <3>2. i - 1 \in 1..i
      BY <2>1
    <3>3. QED
      BY <3>1, <3>2 DEF RevisionSound
  <2>2. QED
    BY <1>1, <2>1 DEF Inv, RevisionSound, HashNamesProject
<1>2. QED
  BY <1>1, InvHolds, PTL

(* No sequence of edits, undos and redos reaches a corrupt project. *)
THEOREM EditorProjectsWellFormed == Spec => []ProjectsWellFormed
<1>1. Inv => ProjectsWellFormed
  BY DEF Inv, RevisionSound, ProjectsWellFormed
<1>2. QED
  BY <1>1, InvHolds, PTL

-----------------------------------------------------------------------------
(* Refinement of UndoStack *)

top == revisions[Len(revisions)].hash

TopIsWhole ==
  /\ top \in Seq(Command) /\ Len(top) = Len(revisions)
  /\ Len(revisions) \in Nat \ {0} /\ cursor \in 0..Len(revisions)
  /\ current_hash = SubSeq(top, 1, cursor)

(* The hash of the last revision is the whole history: what precedes the   *)
(* cursor is done, what follows it undone.                                 *)
LEMMA TopIsHistory == Inv /\ revisions # <<>> => TopIsWhole
<1> SUFFICES ASSUME Inv, revisions # <<>> PROVE TopIsWhole
  OBVIOUS
<1> DEFINE n == Len(revisions)
<1>1. revisions \in Seq(Entry) /\ cursor \in 0..n
  BY DEF Inv, TypeOK, Entry
<1>2. n \in Nat \ {0}
  BY <1>1
<1>3. n \in 1..n /\ revisions[n] \in Entry
  BY <1>1, <1>2
<1>4. RevisionSound(revisions, n)
  BY <1>3 DEF Inv
<1>5. top \in Seq(Command) /\ Len(top) = n
  BY <1>3, <1>4 DEF top, RevisionSound, Entry, RevisionHash
<1>6. CASE cursor = 0
  BY <1>1, <1>2, <1>5, <1>6 DEF current_hash, NoHash, TopIsWhole
<1>7. CASE cursor # 0
  <2>1. cursor \in 1..n
    BY <1>1, <1>7
  <2>2. QED
    BY <1>1, <1>2, <1>4, <1>5, <1>7, <2>1
       DEF current_hash, top, RevisionSound, TopIsWhole
<1>8. QED
  BY <1>6, <1>7

LEMMA TopIsHistoryNext == (Inv /\ revisions # <<>>)' => TopIsWhole'
BY TopIsHistory, PTL

(* The definitions of ProjectModel that reach UndoStack are these. *)
LEMMA SameModel ==
  /\ Abstract!Command = Command
  /\ \A p, c : Abstract!Accepts(p, c) <=> Accepts(p, c)
  /\ \A log : Abstract!Replay(log) = Replay(log)
<1>1. Abstract!Command = Command
  BY DEF Abstract!Command, Command
<1>2. \A p, c : Abstract!ReduceError(p, c) = ReduceError(p, c)
  BY DEF Abstract!ReduceError, ReduceError, Abstract!HasTrack, HasTrack,
         Abstract!HasClip, HasClip
<1>3. \A s, x : Abstract!Without(s, x) = Without(s, x)
  BY Zenon DEF Abstract!Without, Without
<1>4. \A p, c : Abstract!Reduce(p, c) = Reduce(p, c)
  <2> TAKE p, c
  <2> DEFINE listed == p.tracks[p.clips[c.clip].track]
  <2>1. Abstract!Without(listed, c.clip) = Without(listed, c.clip)
    BY <1>3
  <2>2. QED
    BY <2>1 DEF Abstract!Reduce, Reduce
<1>5. Abstract!EmptyProject = EmptyProject
  BY DEF Abstract!EmptyProject, EmptyProject
<1>6. \A log : Abstract!ReplayTo(log) = ReplayTo(log)
  BY <1>4, <1>5 DEF Abstract!ReplayTo, ReplayTo
<1>7. QED
  BY <1>1, <1>2, <1>6 DEF Abstract!Accepts, Accepts, Abstract!Replay, Replay

Undone == IF revisions = <<>> THEN <<>>
          ELSE SubSeq(top, cursor + 1, Len(revisions))

LEMMA ApplyRefines ==
  ASSUME Inv, Inv', NEW c \in Command, Apply(c)
  PROVE  Abstract!Do(c)
<1>1. /\ current_hash \in Seq(Command) /\ Len(current_hash) = cursor
      /\ project = Replay(current_hash)
  BY AtCursor
<1>2. /\ revisions \in Seq(Entry) /\ cursor \in 0..Len(revisions)
      /\ cursor \in Nat /\ Len(revisions) \in Nat
  BY DEF Inv, TypeOK, Entry
<1> DEFINE kept == SubSeq(revisions, 1, cursor)
           next == [project |-> Reduce(project, c),
                    hash |-> revision_hash(current_hash, c)]
<1>3. /\ kept \in Seq(Entry) /\ Len(kept) = cursor
  BY <1>2, SubSeqProperties
<1>4. revisions' = Append(kept, next) /\ cursor' = cursor + 1
  BY DEF Apply
<1>5. next.hash = Append(current_hash, c)
  BY DEF revision_hash
<1> HIDE DEF kept, next
<1>6. Len(revisions') = cursor + 1 /\ revisions'[cursor + 1] = next
  BY <1>2, <1>3, <1>4
<1>7. revisions' # <<>>
  BY <1>2, <1>6
<1>8. (current_hash)' = Append(current_hash, c)
  BY <1>2, <1>4, <1>5, <1>6 DEF current_hash
<1>9. Undone' = <<>>
  <2>1. top' = Append(current_hash, c)
    BY <1>5, <1>6 DEF top
  <2>2. SubSeq(Append(current_hash, c), (cursor + 1) + 1, cursor + 1) = <<>>
    BY <1>2, SubSeqEmpty
  <2>3. QED
    BY <1>4, <1>6, <1>7, <2>1, <2>2 DEF Undone
<1>10. Len(current_hash) < MaxRevisions /\ Accepts(Replay(current_hash), c)
  BY <1>1 DEF Apply
<1>11. QED
  BY <1>8, <1>9, <1>10, SameModel DEF Abstract!Do, Undone, top

LEMMA UndoRefines ==
  ASSUME Inv, Inv', Undo
  PROVE  Abstract!Undo
<1> DEFINE n == Len(revisions)
<1>1. cursor # 0 /\ cursor' = cursor - 1 /\ revisions' = revisions
  BY DEF Undo
<1>2. cursor \in 1..n /\ n \in Nat
  BY <1>1 DEF Inv, TypeOK
<1>3. revisions # <<>>
  BY <1>2
<1>4. /\ top \in Seq(Command) /\ Len(top) = n
      /\ current_hash = SubSeq(top, 1, cursor)
  BY <1>3, TopIsHistory DEF TopIsWhole
<1>5. current_hash' = SubSeq(top, 1, cursor - 1)
  <2>1. top' = top
    BY <1>1 DEF top
  <2>2. revisions' # <<>>
    BY <1>1, <1>3
  <2>3. current_hash' = SubSeq(top', 1, cursor')
    <3>1. TopIsWhole'
      BY <2>2, TopIsHistoryNext
    <3>2. QED
      BY <3>1 DEF TopIsWhole
  <2>4. QED
    BY <1>1, <2>1, <2>3
<1> DEFINE h == top
<1> HIDE DEF h
<1>6. /\ Len(SubSeq(h, 1, cursor)) = cursor
      /\ SubSeq(h, 1, cursor)[cursor] = h[cursor]
      /\ SubSeq(SubSeq(h, 1, cursor), 1, cursor - 1) = SubSeq(h, 1, cursor - 1)
      /\ SubSeq(h, 1, cursor) # <<>>
  BY <1>2, <1>4 DEF h
<1>7. SubSeq(h, cursor, n) = <<h[cursor]>> \o SubSeq(h, cursor + 1, n)
  BY <1>2, <1>4, SubSeqRecursiveFirst DEF h
<1>8. Undone = SubSeq(h, cursor + 1, n) /\ Undone' = SubSeq(h, cursor, n)
  BY <1>1, <1>2, <1>3 DEF Undone, top, h
<1>9. QED
  BY <1>4, <1>5, <1>6, <1>7, <1>8 DEF Abstract!Undo, Undone, top, h

LEMMA RedoRefines ==
  ASSUME Inv, Inv', Redo
  PROVE  Abstract!Redo
<1> DEFINE n == Len(revisions)
<1>1. cursor # n /\ cursor' = cursor + 1 /\ revisions' = revisions
  BY DEF Redo
<1>2. cursor \in 0..(n - 1) /\ n \in Nat
  BY <1>1 DEF Inv, TypeOK
<1>3. revisions # <<>>
  BY <1>2
<1>4. /\ top \in Seq(Command) /\ Len(top) = n
      /\ current_hash = SubSeq(top, 1, cursor)
  BY <1>3, TopIsHistory DEF TopIsWhole
<1>5. current_hash' = SubSeq(top, 1, cursor + 1)
  <2>1. top' = top
    BY <1>1 DEF top
  <2>2. revisions' # <<>>
    BY <1>1, <1>3
  <2>3. current_hash' = SubSeq(top', 1, cursor')
    <3>1. TopIsWhole'
      BY <2>2, TopIsHistoryNext
    <3>2. QED
      BY <3>1 DEF TopIsWhole
  <2>4. QED
    BY <1>1, <2>1, <2>3
<1> DEFINE h == top
<1> HIDE DEF h
<1>6. /\ Head(SubSeq(h, cursor + 1, n)) = h[cursor + 1]
      /\ Tail(SubSeq(h, cursor + 1, n)) = SubSeq(h, (cursor + 1) + 1, n)
      /\ Len(SubSeq(h, cursor + 1, n)) = n - cursor
  BY <1>2, <1>4, HeadTailOfSubSeq DEF h
<1>7. SubSeq(h, 1, cursor + 1) = Append(SubSeq(h, 1, cursor), h[cursor + 1])
  BY <1>2, <1>4 DEF h
<1>8. /\ Undone = SubSeq(h, cursor + 1, n) /\ Undone # <<>>
      /\ Undone' = SubSeq(h, (cursor + 1) + 1, n)
  <2>1. Undone = SubSeq(h, cursor + 1, n)
    BY <1>3 DEF Undone, top, h
  <2>2. Undone' = SubSeq(h, (cursor + 1) + 1, n)
    BY <1>1, <1>3 DEF Undone, top, h
  <2>3. Undone # <<>>
    <3>1. Len(Undone) = n - cursor
      BY <1>6, <2>1
    <3>2. n - cursor # 0
      BY <1>2
    <3>3. QED
      BY <3>1, <3>2
  <2>4. QED
    BY <2>1, <2>2, <2>3
<1>9. QED
  BY <1>4, <1>5, <1>6, <1>7, <1>8 DEF Abstract!Redo, Undone, top, h

(* The vector and its cursor are an undo/redo stack: every apply, undo and *)
(* redo of the code is the one that UndoStack describes.                   *)
THEOREM EditorImplementsUndoStack == Spec => ImplementsUndoStack
<1>1. Init => Abstract!Init
  BY DEF Init, Abstract!Init, current_hash, NoHash
<1>2. Inv /\ Inv' /\ [Next]_vars => [Abstract!Next]_(Abstract!vars)
  <2> SUFFICES ASSUME Inv, Inv', [Next]_vars
               PROVE  [Abstract!Next]_(Abstract!vars)
    OBVIOUS
  <2>1. ASSUME NEW c \in Command, Apply(c) PROVE Abstract!Next
    BY <2>1, ApplyRefines, SameModel DEF Abstract!Next
  <2>2. CASE Undo
    BY <2>2, UndoRefines DEF Abstract!Next
  <2>3. CASE Redo
    BY <2>3, RedoRefines DEF Abstract!Next
  <2>4. CASE UNCHANGED vars
    BY <2>4 DEF vars, Abstract!vars, current_hash
  <2>5. QED
    BY <2>1, <2>2, <2>3, <2>4 DEF Next
<1>3. QED
  BY <1>1, <1>2, InvHolds, PTL DEF Spec, ImplementsUndoStack, Abstract!Spec
=============================================================================
