----------------------------- MODULE AbiCommand -----------------------------
(***************************************************************************)
(* How the C ABI turns a plain stitch_command into a typed Command.        *)
(* Every command kind shares one struct; the fields a kind does not use    *)
(* must be zero.  An id is a word and 0 is the zero id; the content digest,*)
(* the byte length and the provider id are Booleans: not zero.  A range is *)
(* given by four i64, and the zero range is all zero, denominators too.    *)
(***************************************************************************)
EXTENDS ProjectModel, RationalTime

CONSTANTS RawRanges   \* the stitch_time_ranges a caller writes

ZeroRange == <<0, 0, 0, 0>>

ASSUME RawRangeAssumption ==
  RawRanges \subseteq i64 \X i64 \X i64 \X i64 /\ ZeroRange \in RawRanges

\* stitch_command.  The header is "valid" or what valid_header answers.
RawCommand ==
  [header : {"valid", "UnsupportedVersion", "MalformedStruct"},
   reserved : BOOLEAN, kind : Nat,
   primary : Nat, secondary : Nat, tertiary : Nat,
   content : BOOLEAN, length : BOOLEAN, provider : BOOLEAN,
   timeline : RawRanges, source : RawRanges]

\* range(): both ends normalise and the range is not empty.
RangeOf(raw) ==
  LET start == New(raw[1], raw[2])
      end == New(raw[3], raw[4])
  IN  IF IsOk(start) /\ IsOk(end) /\ IsOk(NewRange(start.value, end.value))
      THEN NewRange(start.value, end.value) ELSE Err("BadRational")

NoSecondaries(raw) == raw.secondary = 0 /\ raw.tertiary = 0
NoIdentity(raw) == ~ raw.content /\ ~ raw.length /\ ~ raw.provider
NoTimeline(raw) == raw.timeline = ZeroRange
NoSource(raw) == raw.source = ZeroRange

\* Mutant: the source range of a move is not looked at.
MutUnusedAreZero(raw) ==
  CASE raw.kind = 1 -> NoSecondaries(raw) /\ NoTimeline(raw) /\ NoSource(raw)
    [] raw.kind = 3 -> NoIdentity(raw)
    [] raw.kind = 4 -> NoSecondaries(raw) /\ NoIdentity(raw)
    [] OTHER -> /\ NoSecondaries(raw) /\ NoIdentity(raw)
                /\ NoTimeline(raw) /\ NoSource(raw)

UnusedAreZero(raw) ==
  CASE raw.kind = 1 -> NoSecondaries(raw) /\ NoTimeline(raw) /\ NoSource(raw)
    [] raw.kind = 3 -> NoIdentity(raw)
    [] raw.kind = 4 -> NoSecondaries(raw) /\ NoIdentity(raw) /\ NoSource(raw)
    [] OTHER -> /\ NoSecondaries(raw) /\ NoIdentity(raw)
                /\ NoTimeline(raw) /\ NoSource(raw)

\* The command of the fields a kind uses; the source range of a clip is
\* checked and, as in ProjectModel, not kept.
Converted(raw) ==
  CASE raw.kind = 1 -> Ok([op |-> "AddAsset", asset |-> raw.primary])
    [] raw.kind = 2 -> Ok([op |-> "AddTrack", track |-> raw.primary])
    [] raw.kind = 3 ->
         IF ~ IsOk(RangeOf(raw.timeline)) \/ ~ IsOk(RangeOf(raw.source))
         THEN Err("BadRational")
         ELSE Ok([op |-> "AddClip", clip |-> raw.primary,
                  asset |-> raw.secondary, track |-> raw.tertiary,
                  range |-> RangeOf(raw.timeline).value])
    [] raw.kind = 4 ->
         IF ~ IsOk(RangeOf(raw.timeline)) THEN Err("BadRational")
         ELSE Ok([op |-> "MoveClip", clip |-> raw.primary,
                  range |-> RangeOf(raw.timeline).value])
    [] OTHER -> Ok([op |-> "RemoveClip", clip |-> raw.primary])

\* command(), with its checks in their order.
ConvertCommand(raw) ==
  IF raw.header # "valid" THEN Err(raw.header)
  ELSE IF raw.reserved THEN Err("InvalidArgument")
  ELSE IF raw.kind \notin 1..5 THEN Err("BadEnum")
  ELSE IF ~ UnusedAreZero(raw) THEN Err("InvalidArgument")
  ELSE Converted(raw)
=============================================================================
