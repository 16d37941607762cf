---------------------------- MODULE EditorHistory ----------------------------
(***************************************************************************)
(* The immutable revision history of crates/editor-core: a vector of       *)
(* revisions and a cursor that undo and redo move.  A revision holds the   *)
(* project after its command and its chain hash; the history never replays.*)
(***************************************************************************)
EXTENDS ProjectModel

CONSTANT MaxRevisions  \* bound on the length of the revision vector

VARIABLES
  revisions,  \* Vec<HistoryRevision>: [project, hash]
  cursor      \* how many of them are applied

vars == <<revisions, cursor>>

-----------------------------------------------------------------------------

project == IF cursor = 0 THEN EmptyProject ELSE revisions[cursor].project

\* Mutant: the hash of the newest revision, whatever the cursor.
MutCurrentHash == IF revisions = <<>> THEN NoHash ELSE revisions[Len(revisions)].hash

current_hash == IF cursor = 0 THEN NoHash ELSE revisions[cursor].hash

Init == revisions = <<>> /\ cursor = 0

(* apply: reduce against the cursor's project, hash against the cursor's   *)
(* hash, drop the redo branch, push.  A command that reduce rejects leaves *)
(* the history as it was.                                                  *)
Apply(c) ==
  /\ cursor < MaxRevisions
  /\ Accepts(project, c)
  /\ revisions' = Append(SubSeq(revisions, 1, cursor),
                         [project |-> Reduce(project, c),
                          hash |-> revision_hash(current_hash, c)])
  /\ cursor' = cursor + 1

(* Mutant: undo forgets the revision. *)
MutUndo ==
  /\ cursor # 0
  /\ cursor' = cursor - 1
  /\ revisions' = SubSeq(revisions, 1, cursor - 1)

Undo ==
  /\ cursor # 0
  /\ cursor' = cursor - 1
  /\ UNCHANGED revisions

(* Mutant: nothing to redo is not noticed. *)
MutRedo ==
  /\ cursor < MaxRevisions
  /\ cursor' = cursor + 1
  /\ UNCHANGED revisions

Redo ==
  /\ cursor # Len(revisions)
  /\ cursor' = cursor + 1
  /\ UNCHANGED revisions

Next == (\E c \in Command : Apply(c)) \/ Undo \/ Redo

Spec == Init /\ [][Next]_vars

-----------------------------------------------------------------------------
(* Properties *)

(* The cursor stays inside the vector and every revision is a project with *)
(* the hash of a command chain.                                            *)
TypeOK ==
  /\ revisions \in Seq([project : Project, hash : RevisionHash])
  /\ cursor \in 0..Len(revisions)

(* A revision hash names its project for good: whatever branches undo and  *)
(* apply have cut off, the stored project of every revision (the redo      *)
(* branch included) is what replaying the chain its hash stands for        *)
(* produces, and each chain extends the one before it by one command.      *)
HashNamesProject ==
  \A i \in 1..Len(revisions) :
    /\ Len(revisions[i].hash) = i
    /\ Replayable(revisions[i].hash)
    /\ revisions[i].project = Replay(revisions[i].hash)
    /\ i > 1 => revisions[i - 1].hash = SubSeq(revisions[i].hash, 1, i - 1)

(* No sequence of edits, undos and redos reaches a project the decoder's   *)
(* `validate` would call corrupt: every clip is on exactly one track, the  *)
(* one it names, and its asset exists.                                     *)
ProjectsWellFormed ==
  \A i \in 1..Len(revisions) : WellFormed(revisions[i].project)

(* The vector and its cursor implement the undo/redo stack. *)
Abstract == INSTANCE UndoStack WITH
  MaxCommands <- MaxRevisions,
  done <- current_hash,
  undone <- IF revisions = <<>> THEN <<>>
            ELSE SubSeq(revisions[Len(revisions)].hash,
                        cursor + 1, Len(revisions))

ImplementsUndoStack == Abstract!Spec
=============================================================================
