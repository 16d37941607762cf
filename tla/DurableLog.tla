----------------------------- MODULE DurableLog -----------------------------
(***************************************************************************)
(* What the project store promises its callers, whatever crashes, retries  *)
(* and maintenance happen: one append-only log in which a request occurs   *)
(* at most once, only commands the project accepts where they stand, and   *)
(* an answer names the place in the log its request has for good.          *)
(***************************************************************************)
EXTENDS ProjectModel

CONSTANTS RequestIds, Commands

VARIABLES
  log,      \* Seq of [request, command]
  answered  \* set of [request, sequence]: the receipts callers were given

vars == <<log, answered>>

Init == log = <<>> /\ answered = {}

CommandsOf(entries) == [i \in 1..Len(entries) |-> entries[i].command]

Commit(r, c) ==
  /\ \A i \in 1..Len(log) : log[i].request # r
  /\ Accepts(Replay(CommandsOf(log)), c)
  /\ log' = Append(log, [request |-> r, command |-> c])
  /\ UNCHANGED answered

Answer(i) ==
  /\ answered' = answered \cup {[request |-> log[i].request, sequence |-> i]}
  /\ UNCHANGED log

Next ==
  \/ \E r \in RequestIds, c \in Commands : Commit(r, c)
  \/ \E i \in 1..Len(log) : Answer(i)

Spec == Init /\ [][Next]_vars
=============================================================================
