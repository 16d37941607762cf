---------------------------- MODULE ProjectModel ----------------------------
(***************************************************************************)
(* The pure project model of crates/contracts: the typed edit commands,    *)
(* `reduce`, the structural checks of `Project::validate`, the replay of a *)
(* command log and the revision hash chain.                                *)
(*                                                                         *)
(* Identities are model values.  A clip keeps the references the reducer   *)
(* reads and writes (asset, track, timeline range); asset identities and   *)
(* source ranges, which no command ever changes, are left out.  A time     *)
(* range is one member of the set Ranges.  An ordered map of the code is a *)
(* function that is Absent where the map has no entry.                     *)
(***************************************************************************)
EXTENDS Sequences, Naturals

CONSTANTS AssetIds, TrackIds, ClipIds, Ranges, Absent

Clip == [asset : AssetIds, track : TrackIds, range : Ranges]

ASSUME AbsentAssumption == Absent \notin Seq(ClipIds) /\ Absent \notin Clip

-----------------------------------------------------------------------------
(* Types *)

Command ==
       [op : {"AddAsset"}, asset : AssetIds]
  \cup [op : {"AddTrack"}, track : TrackIds]
  \cup [op : {"AddClip"}, clip : ClipIds, asset : AssetIds, track : TrackIds,
        range : Ranges]
  \cup [op : {"MoveClip"}, clip : ClipIds, range : Ranges]
  \cup [op : {"RemoveClip"}, clip : ClipIds]

Project == [assets : SUBSET AssetIds,
            tracks : [TrackIds -> Seq(ClipIds) \cup {Absent}],
            clips  : [ClipIds -> Clip \cup {Absent}]]

EmptyProject == [assets |-> {},
                 tracks |-> [t \in TrackIds |-> Absent],
                 clips |-> [k \in ClipIds |-> Absent]]

HasTrack(p, t) == p.tracks[t] # Absent
HasClip(p, k) == p.clips[k] # Absent

-----------------------------------------------------------------------------
(* Project::validate: every listed clip exists and names the track that    *)
(* lists it, no track lists a clip twice, every clip is listed, and every  *)
(* reference resolves.                                                     *)

ListsOnce(p, t) ==
  \A i, j \in DOMAIN p.tracks[t] : p.tracks[t][i] = p.tracks[t][j] => i = j

ListedClipsPlaced(p, t) ==
  \A i \in DOMAIN p.tracks[t] :
    /\ HasClip(p, p.tracks[t][i])
    /\ p.clips[p.tracks[t][i]].track = t

ReferencesResolve(p, k) ==
  /\ p.clips[k].asset \in p.assets
  /\ HasTrack(p, p.clips[k].track)
  /\ \E i \in DOMAIN p.tracks[p.clips[k].track] :
       p.tracks[p.clips[k].track][i] = k

WellFormed(p) ==
  /\ \A t \in TrackIds :
       HasTrack(p, t) => ListsOnce(p, t) /\ ListedClipsPlaced(p, t)
  /\ \A k \in ClipIds : HasClip(p, k) => ReferencesResolve(p, k)

-----------------------------------------------------------------------------
(* reduce: the first precondition that fails, in the order of the code ... *)

ReduceError(p, c) ==
  CASE c.op = "AddAsset" ->
         IF c.asset \in p.assets THEN "DuplicateAsset" ELSE "None"
    [] c.op = "AddTrack" ->
         IF HasTrack(p, c.track) THEN "DuplicateTrack" ELSE "None"
    [] c.op = "AddClip" ->
         IF HasClip(p, c.clip) THEN "DuplicateClip"
         ELSE IF c.asset \notin p.assets THEN "MissingAsset"
         ELSE IF ~ HasTrack(p, c.track) THEN "MissingTrack"
         ELSE "None"
    [] c.op = "MoveClip" ->
         IF ~ HasClip(p, c.clip) THEN "MissingClip" ELSE "None"
    [] OTHER ->
         IF ~ HasClip(p, c.clip) THEN "MissingClip"
         ELSE IF ~ HasTrack(p, p.clips[c.clip].track) THEN "CorruptProject"
         ELSE "None"

Accepts(p, c) == ReduceError(p, c) = "None"

(* ... and the project that an accepted command produces. *)

\* Mutant: the removed clip stays listed on its track.
MutWithout(s, x) == s

\* The entries of s other than x, in order.
Without(s, x) ==
  LET kept[i \in 0..Len(s)] ==
        IF i = 0 THEN <<>>
        ELSE IF s[i] = x THEN kept[i - 1] ELSE Append(kept[i - 1], s[i])
  IN  kept[Len(s)]

Reduce(p, c) ==
  CASE c.op = "AddAsset" ->
         [p EXCEPT !.assets = p.assets \cup {c.asset}]
    [] c.op = "AddTrack" ->
         [p EXCEPT !.tracks[c.track] = <<>>]
    [] c.op = "AddClip" ->
         [p EXCEPT !.tracks[c.track] = Append(p.tracks[c.track], c.clip),
                   !.clips[c.clip] = [asset |-> c.asset, track |-> c.track,
                                      range |-> c.range]]
    [] c.op = "MoveClip" ->
         [p EXCEPT !.clips[c.clip].range = c.range]
    [] OTHER ->
         LET t == p.clips[c.clip].track
         IN  [p EXCEPT !.tracks[t] = Without(p.tracks[t], c.clip),
                       !.clips[c.clip] = Absent]

-----------------------------------------------------------------------------
(* revision_hash: SHA-256 over the parent hash and the command.  The chain *)
(* hash of a revision identifies the commands from genesis to it, so it is *)
(* that command sequence; the hash of no revision (None) is the empty one. *)

RevisionHash == Seq(Command)

NoHash == <<>>

revision_hash(parent, c) == Append(parent, c)

(* The project after the first i commands of a chain, from genesis. *)
ReplayTo(log) ==
  LET after[i \in 0..Len(log)] ==
        IF i = 0 THEN EmptyProject ELSE Reduce(after[i - 1], log[i])
  IN  after

Replay(log) == ReplayTo(log)[Len(log)]

(* Every command of the chain was accepted where it stands. *)
Replayable(log) ==
  \A i \in 1..Len(log) : Accepts(ReplayTo(log)[i - 1], log[i])
=============================================================================
