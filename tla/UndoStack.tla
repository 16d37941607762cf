------------------------------ MODULE UndoStack ------------------------------
(***************************************************************************)
(* What an editor promises of undo and redo: the project is the replay of  *)
(* the commands that are done; undo and redo move one command between the  *)
(* done commands and the undone ones; a new edit forgets what was undone.  *)
(***************************************************************************)
EXTENDS ProjectModel

CONSTANT MaxCommands  \* bound on the commands kept in the history

VARIABLES done, undone

vars == <<done, undone>>

Init == done = <<>> /\ undone = <<>>

Do(c) ==
  /\ Len(done) < MaxCommands
  /\ Accepts(Replay(done), c)
  /\ done' = Append(done, c)
  /\ undone' = <<>>

Undo ==
  /\ done # <<>>
  /\ undone' = <<done[Len(done)]>> \o undone
  /\ done' = SubSeq(done, 1, Len(done) - 1)

Redo ==
  /\ undone # <<>>
  /\ done' = Append(done, Head(undone))
  /\ undone' = Tail(undone)

Next == (\E c \in Command : Do(c)) \/ Undo \/ Redo

Spec == Init /\ [][Next]_vars
=============================================================================
