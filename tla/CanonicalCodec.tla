--------------------------- MODULE CanonicalCodec ---------------------------
(***************************************************************************)
(* The canonical encoding of projects and commands and its decoder (the    *)
(* Reader of crates/contracts).  A stream is a sequence of words: every    *)
(* fixed-width field (an identity, a count, a tag, a version, half a       *)
(* rational, a magic string) is one word, so a stream shows its structure  *)
(* only through its counts and tags, as the bytes do.  An identity is its  *)
(* word; an i64 is a word in two's complement.                             *)
(*                                                                         *)
(* As in ProjectModel, the content identity of an asset (three fixed-width *)
(* fields) and the source range of a clip (a second time range, read and   *)
(* written like the first) are left out.                                   *)
(***************************************************************************)
EXTENDS ProjectModel, RationalTime, FiniteSets

Seqs == INSTANCE SequencesExt

Word == u64

ASSUME WordAssumption ==
  /\ AssetIds = Word /\ TrackIds = Word /\ ClipIds = Word
  /\ Ranges = TimeRange

ProjectMagic == MaxInt
CommandMagic == MaxInt - 1
CONTRACT_SCHEMA_VERSION == 1

\* Mutant: the sign of a field is lost.
MutSigned(word) == word

Signed(word) == IF word <= MaxInt THEN word ELSE word - 2 * (MaxInt + 1)
Unsigned(n) == n % (2 * (MaxInt + 1))

\* ModelError::CorruptProject, the only error a decoder gives.
Corrupt == Err("CorruptProject")

-----------------------------------------------------------------------------
(* Encoding.  The ordered maps list their entries by identity.             *)

Counted(entries) == <<Len(entries)>> \o Seqs!FlattenSeq(entries)

Ascending(ids) ==
  CHOOSE list \in [1..Cardinality(ids) -> ids] :
    \A i, j \in DOMAIN list : i < j => list[i] < list[j]

RationalWords(r) == <<Unsigned(r.num), Unsigned(r.den)>>
RangeWords(range) == RationalWords(range.start) \o RationalWords(range.end)

AssetWords(a) == <<a>>
TrackWords(p, t) == <<t, Len(p.tracks[t])>> \o p.tracks[t]
ClipWords(p, k) ==
  <<k, p.clips[k].asset, p.clips[k].track>> \o RangeWords(p.clips[k].range)

Tracks(p) == {t \in TrackIds : HasTrack(p, t)}
Clips(p) == {k \in ClipIds : HasClip(p, k)}

\* The three maps with their keys listed in the orders given.
EncodeIn(p, assets, tracks, clips) ==
  <<ProjectMagic, CONTRACT_SCHEMA_VERSION>>
    \o Counted([i \in DOMAIN assets |-> AssetWords(assets[i])])
    \o Counted([i \in DOMAIN tracks |-> TrackWords(p, tracks[i])])
    \o Counted([i \in DOMAIN clips |-> ClipWords(p, clips[i])])

EncodeProject(p) ==
  EncodeIn(p, Ascending(p.assets), Ascending(Tracks(p)), Ascending(Clips(p)))

EncodeCommand(c) ==
  <<CommandMagic, CONTRACT_SCHEMA_VERSION>> \o
    CASE c.op = "AddAsset" -> <<1>> \o AssetWords(c.asset)
      [] c.op = "AddTrack" -> <<2, c.track>>
      [] c.op = "AddClip" ->
           <<3, c.clip, c.asset, c.track>> \o RangeWords(c.range)
      [] c.op = "MoveClip" -> <<4, c.clip>> \o RangeWords(c.range)
      [] OTHER -> <<5, c.clip>>

-----------------------------------------------------------------------------
(* Reader: a read from a position gives the value and the position after   *)
(* it, or the position Failed when the input is too short or invalid.      *)

Failed == 0
Read(at, value) == [at |-> at, value |-> value]
Fail == Read(Failed, <<>>)

\* take: n more words from a position that has not failed.
Takes(words, at, n) == at # Failed /\ at + n - 1 <= Len(words)

ReadWord(words, at) ==
  IF Takes(words, at, 1) THEN Read(at + 1, words[at]) ELSE Fail

ReadRange(words, at) ==
  IF ~ Takes(words, at, 4) THEN Fail
  ELSE LET start == New(Signed(words[at]), Signed(words[at + 1]))
           end == New(Signed(words[at + 2]), Signed(words[at + 3]))
           range == NewRange(start.value, end.value)
       IN  IF IsOk(start) /\ IsOk(end) /\ IsOk(range)
           THEN Read(at + 4, range.value) ELSE Fail

\* A count and that many entries, each read from where the last one ended;
\* entries says what is read from a position.
ReadList(entries, words, at) ==
  LET count == words[at]
      upTo[n \in 0..count] ==
        IF n = 0 THEN Read(at + 1, <<>>)
        ELSE LET before == upTo[n - 1]
                 entry == entries[before.at]
             IN  IF entry.at = Failed THEN Fail
                 ELSE Read(entry.at, Append(before.value, entry.value))
  IN  IF Takes(words, at, 1) THEN upTo[count] ELSE Fail

\* The positions in a stream, the one after its end and the failed one.
Positions(words) == 0..Len(words) + 1

ReadIds(words, at) ==
  ReadList([i \in Positions(words) |-> ReadWord(words, i)], words, at)

ReadTrack(words, at) ==
  LET clips == ReadIds(words, at + 1)
  IN  IF Takes(words, at, 1) /\ clips.at # Failed
      THEN Read(clips.at, [id |-> words[at], clips |-> clips.value]) ELSE Fail

ReadClip(words, at) ==
  LET range == ReadRange(words, at + 3)
  IN  IF Takes(words, at, 3) /\ range.at # Failed
      THEN Read(range.at, [id |-> words[at],
                           clip |-> [asset |-> words[at + 1],
                                     track |-> words[at + 2],
                                     range |-> range.value]])
      ELSE Fail

\* Mutant: the last of two entries for one identity wins.
MutDistinct(ids) == TRUE

\* OrdMap::insert found no entry for any identity of the list.
Distinct(ids) == \A i, j \in DOMAIN ids : ids[i] = ids[j] => i = j

Ids(entries) == [i \in DOMAIN entries |-> entries[i].id]

\* The map that inserting the entries in order leaves.
MapOf(ids, values, keys) ==
  [key \in keys |->
     IF \E i \in DOMAIN ids : ids[i] = key
     THEN values[CHOOSE i \in DOMAIN ids :
                   ids[i] = key /\ \A j \in DOMAIN ids : ids[j] = key => j <= i]
     ELSE Absent]

Assembled(assets, tracks, clips) ==
  [assets |-> {assets[i] : i \in DOMAIN assets},
   tracks |-> MapOf(Ids(tracks), [i \in DOMAIN tracks |-> tracks[i].clips],
                    TrackIds),
   clips |-> MapOf(Ids(clips), [i \in DOMAIN clips |-> clips[i].clip], ClipIds)]

HeaderIs(words, magic) ==
  /\ Takes(words, 1, 2)
  /\ words[1] = magic
  /\ words[2] = CONTRACT_SCHEMA_VERSION

\* Reader::finish.
Finished(words, at) == at = Len(words) + 1

DecodeProject(words) ==
  LET assets == ReadIds(words, 3)
      tracks == ReadList([i \in Positions(words) |-> ReadTrack(words, i)],
                         words, assets.at)
      clips == ReadList([i \in Positions(words) |-> ReadClip(words, i)],
                        words, tracks.at)
      project == Assembled(assets.value, tracks.value, clips.value)
  IN  IF /\ HeaderIs(words, ProjectMagic)
         /\ Finished(words, clips.at)
         /\ Distinct(assets.value)
         /\ Distinct(Ids(tracks.value))
         /\ Distinct(Ids(clips.value))
         /\ WellFormed(project)
      THEN Ok(project) ELSE Corrupt

\* The command of a tag, with the words and the range that follow it.
CommandOf(tag, words, range) ==
  CASE tag = 1 -> [op |-> "AddAsset", asset |-> words[4]]
    [] tag = 2 -> [op |-> "AddTrack", track |-> words[4]]
    [] tag = 3 -> [op |-> "AddClip", clip |-> words[4], asset |-> words[5],
                   track |-> words[6], range |-> range.value]
    [] tag = 4 -> [op |-> "MoveClip", clip |-> words[4],
                   range |-> range.value]
    [] OTHER -> [op |-> "RemoveClip", clip |-> words[4]]

\* How many identities follow the tag, and whether a time range follows them.
IdsAfter(tag) == IF tag = 3 THEN 3 ELSE 1
HasRange(tag) == tag \in {3, 4}

DecodeCommand(words) ==
  LET tag == words[3]
      range == ReadRange(words, 4 + IdsAfter(tag))
      end == IF HasRange(tag) THEN range.at ELSE 4 + IdsAfter(tag)
  IN  IF /\ HeaderIs(words, CommandMagic)
         /\ Takes(words, 3, 1) /\ tag \in 1..5
         /\ Takes(words, 4, IdsAfter(tag))
         /\ Finished(words, end)
      THEN Ok(CommandOf(tag, words, range)) ELSE Corrupt
=============================================================================
