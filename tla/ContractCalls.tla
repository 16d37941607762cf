---------------------------- MODULE ContractCalls ----------------------------
(***************************************************************************)
(* A client of crates/contracts.  The crate keeps no state, so the         *)
(* variables are what the client holds: the last result of its time        *)
(* arithmetic or of the C ABI's command conversion, a run of the adapter   *)
(* over an increasing vector of times, and a project with the stream it    *)
(* was written to, which may come from a writer that ordered the maps in   *)
(* another way or may have one word damaged.                               *)
(*                                                                         *)
(* These activities share nothing, so a client has one at a time.          *)
(***************************************************************************)
EXTENDS CanonicalCodec, AbiCommand

CONSTANTS
  Rates,     \* the tick rates of adapter units, as u64
  Times,     \* the times an adapter is given
  MaxTimes,  \* bounds the vector of times
  Raws,      \* the stitch_commands the C ABI is given
  Edits      \* the commands a project is made from

ASSUME ContractAssumption ==
  /\ Rates \subseteq u64 /\ Times \subseteq Rational
  /\ MaxTimes \in Nat /\ Raws \subseteq RawCommand /\ Edits \subseteq Command

VARIABLES
  last,      \* the last call of the arithmetic or the conversion
  session,   \* adapt_absolute_sequence: unit, policy, entries, error
  project,   \* a project, made by commands
  words,     \* the stream it, or a command, was written to
  writer     \* who wrote the stream: "none", "encoder", "foreign", "damaged"

vars == <<last, session, project, words, writer>>

NoCall == [call |-> "None"]
NoSession == [rate |-> 0, policy |-> "Floor", adapted |-> <<>>,
              error |-> "None", open |-> FALSE]

Init ==
  /\ last = NoCall
  /\ session = NoSession
  /\ project = EmptyProject
  /\ words = <<>> /\ writer = "none"

NotCalling == last = NoCall
NotAdapting == session = NoSession
NotWriting == project = EmptyProject /\ writer = "none"
Idle == NotCalling /\ NotAdapting /\ NotWriting

-----------------------------------------------------------------------------
(* Arithmetic on the values that Rational::new makes.                      *)

Called(call, left, right, result) ==
  /\ last' = [call |-> call, left |-> left, right |-> right,
              result |-> result]
  /\ UNCHANGED <<session, project, words, writer>>

CallNew ==
  Idle /\ \E n, d \in i64 : Called("New", n, d, New(n, d))

CallBinary ==
  /\ Idle
  /\ \E a, b \in Rationals :
       \/ Called("Add", a, b, Add(a, b))
       \/ Called("Subtract", a, b, Subtract(a, b))
       \/ Called("Multiply", a, b, Multiply(a, b))

CallReciprocal ==
  Idle /\ \E a \in Rationals : Called("Reciprocal", a, a, Reciprocal(a))

\* command() of the C ABI.
CallConvert ==
  Idle /\ \E raw \in Raws : Called("Convert", raw, raw, ConvertCommand(raw))

Return ==
  /\ ~ NotCalling
  /\ last' = NoCall
  /\ UNCHANGED <<session, project, words, writer>>

-----------------------------------------------------------------------------
(* adapt_absolute_sequence: one step per time of the vector.               *)

BeginAdapting ==
  /\ Idle
  /\ \E rate \in Rates, policy \in Policy :
       session' = [NoSession EXCEPT !.rate = rate, !.policy = policy,
                                    !.open = TRUE]
  /\ UNCHANGED <<last, project, words, writer>>

AdaptOne ==
  /\ session.open /\ session.error = "None"
  /\ Len(session.adapted) < MaxTimes
  /\ \E time \in Times :
       LET next == AdaptNext(session.adapted, time, session.rate,
                             session.policy)
       IN  session' = IF IsOk(next)
                      THEN [session EXCEPT !.adapted = Append(@, next.value)]
                      ELSE [session EXCEPT !.error = next.error]
  /\ UNCHANGED <<last, project, words, writer>>

EndAdapting ==
  /\ session.open
  /\ session' = NoSession
  /\ UNCHANGED <<last, project, words, writer>>

-----------------------------------------------------------------------------
(* A project, its stream, and what may have become of the stream.          *)

Edit ==
  /\ NotCalling /\ NotAdapting /\ writer = "none"
  /\ \E c \in Edits :
       Accepts(project, c) /\ project' = Reduce(project, c)
  /\ UNCHANGED <<last, session, words, writer>>

Descending(ids) == [i \in 1..Cardinality(ids) |->
                      Ascending(ids)[Cardinality(ids) + 1 - i]]

Write ==
  /\ NotCalling /\ NotAdapting /\ writer = "none"
  /\ \/ words' = EncodeProject(project) /\ writer' = "encoder"
     \/ /\ words' = EncodeIn(project, Descending(project.assets),
                            Descending(Tracks(project)),
                            Descending(Clips(project)))
        /\ writer' = "foreign"
     \/ /\ project = EmptyProject
        /\ \E c \in Edits : words' = EncodeCommand(c)
        /\ writer' = "encoder"
  /\ words' \in Seq(Word)   \* a length is a usize and fits its word
  /\ UNCHANGED <<last, session, project>>

\* One word changed, the end cut off, or a word too many.
Damage ==
  /\ writer = "encoder"
  /\ \/ \E i \in DOMAIN words, w \in Word : words' = [words EXCEPT ![i] = w]
     \/ \E i \in 0..Len(words) - 1 : words' = SubSeq(words, 1, i)
     \/ \E w \in Word : words' = Append(words, w)
  /\ writer' = "damaged"
  /\ UNCHANGED <<last, session, project>>

Discard ==
  /\ writer # "none"
  /\ words' = <<>> /\ writer' = "none" /\ project' = EmptyProject
  /\ UNCHANGED <<last, session>>

Next ==
  \/ CallNew \/ CallBinary \/ CallReciprocal \/ CallConvert \/ Return
  \/ BeginAdapting \/ AdaptOne \/ EndAdapting
  \/ Edit \/ Write \/ Damage \/ Discard

Spec == Init /\ [][Next]_vars

-----------------------------------------------------------------------------
(* Properties of the arithmetic.                                           *)

\* The exact value of a call as an unbounded fraction.
ExactValue ==
  LET a == last.left
      b == last.right
  IN  CASE last.call = "New" -> <<a, b>>
        [] last.call = "Add" -> WideSum(a, b)
        [] last.call = "Subtract" -> WideDifference(a, b)
        [] last.call = "Multiply" -> WideProduct(a, b)
        [] OTHER -> <<a.den, a.num>>

Computed == last.call \in {"New", "Add", "Subtract", "Multiply", "Reciprocal"}

SameValue(r, fraction) == r.num * fraction[2] = fraction[1] * r.den

\* Arithmetic never rounds and never refuses without need (the doc comments
\* of Rational): a result is the exact value, in the one form in which equal
\* values have equal fields, and Overflow is answered exactly when no pair of
\* 64-bit fields has that value.
ExactOrRefused ==
  Computed =>
    IF ExactValue[2] = 0 THEN last.result = Err("ZeroDenominator")
    ELSE IF \E n \in i64, d \in 1..MaxInt :
              SameValue([num |-> n, den |-> d], ExactValue)
    THEN /\ IsOk(last.result) /\ last.result.value \in Rational
         /\ SameValue(last.result.value, ExactValue)
         /\ \A r \in Rationals :
              SameValue(r, ExactValue) => r = last.result.value
    ELSE last.result = Err("Overflow")

\* However long a vector is, each entry is its own time rounded once under
\* the policy, with the exact error beside it, and the ticks increase strictly
\* (adapt_absolute, adapt_absolute_sequence): rounding never accumulates.
AdaptedTicksSound ==
  LET rate == session.rate
      entry(i) == session.adapted[i]
  IN  /\ \A i \in DOMAIN session.adapted :
           /\ entry(i) \in AdaptedTime
           /\ WithinPolicy(session.policy, entry(i).ticks,
                           entry(i).time.num * rate, entry(i).time.den)
           /\ entry(i).error.num * entry(i).time.den * rate =
                (entry(i).time.num * rate - entry(i).ticks * entry(i).time.den)
                  * entry(i).error.den
      /\ \A i, j \in DOMAIN session.adapted :
           i < j => /\ Less(entry(i).time, entry(j).time)
                    /\ entry(i).ticks < entry(j).ticks

-----------------------------------------------------------------------------
(* Properties of the codec and the conversion.                             *)

\* What the encoder writes decodes to what was written, and no part of a
\* written stream, in whatever order its maps are, decodes at all
\* (canonical_bytes, from_canonical_bytes): a cut is never taken for the whole.
DecodeInvertsEncode ==
  /\ writer = "encoder" =>
       \/ DecodeProject(words) = Ok(project)
       \/ /\ project = EmptyProject
          /\ \E c \in Edits :
               words = EncodeCommand(c) /\ DecodeCommand(words) = Ok(c)
  /\ writer \in {"encoder", "foreign"} =>
       \A i \in 1..Len(words) - 1 :
         /\ ~ IsOk(DecodeProject(SubSeq(words, 1, i)))
         /\ ~ IsOk(DecodeCommand(SubSeq(words, 1, i)))

\* Whatever stream a reader accepts, it has used all of it and lost nothing:
\* the result is a well-formed value whose own encoding is as long and decodes
\* to the same value.  No duplicate, dangling reference or trailing word is
\* swallowed (from_canonical_bytes and Project::validate).
AcceptedIsWhole ==
  /\ IsOk(DecodeProject(words)) =>
       LET value == DecodeProject(words).value
       IN  /\ WellFormed(value)
           /\ Len(EncodeProject(value)) = Len(words)
           /\ DecodeProject(EncodeProject(value)) = Ok(value)
  /\ IsOk(DecodeCommand(words)) =>
       LET value == DecodeCommand(words).value
       IN  /\ Len(EncodeCommand(value)) = Len(words)
           /\ DecodeCommand(EncodeCommand(value)) = Ok(value)

\* Decoding accepts only the canonical form: "Decodes only the exact
\* version-one canonical representation" (crates/contracts/src/lib.rs:564 and
\* 753).
AcceptsOnlyCanonical ==
  /\ IsOk(DecodeProject(words)) =>
       EncodeProject(DecodeProject(words).value) = words
  /\ IsOk(DecodeCommand(words)) =>
       EncodeCommand(DecodeCommand(words).value) = words

\* The struct a C caller fills for a command, every field its kind does not
\* use being zero.
Filled(kind, primary, secondary, tertiary) ==
  [kind |-> kind, primary |-> primary, secondary |-> secondary,
   tertiary |-> tertiary]

RawOf(c) ==
  CASE c.op = "AddAsset" -> Filled(1, c.asset, 0, 0)
    [] c.op = "AddTrack" -> Filled(2, c.track, 0, 0)
    [] c.op = "AddClip" -> Filled(3, c.clip, c.asset, c.track)
    [] c.op = "MoveClip" -> Filled(4, c.clip, 0, 0)
    [] OTHER -> Filled(5, c.clip, 0, 0)

SameRange(raw, range) ==
  /\ SameValue(range.start, <<raw[1], raw[2]>>)
  /\ SameValue(range.end, <<raw[3], raw[4]>>)

\* The C ABI ignores no field that a caller filled in: an accepted
\* stitch_command is, field by field, the one that a caller who means the
\* resulting command fills in, so a field the kind does not use is never
\* swallowed (command() in native/c-abi, lib.rs:338-412).  Of times the values
\* count: a ratio that is not in lowest terms makes the same command.  The
\* identity and the source range of an accepted command are read, but are not
\* part of the model's commands.
EveryFieldCounts ==
  last.call = "Convert" /\ IsOk(last.result) =>
    LET raw == last.left
        c == last.result.value
    IN  /\ Filled(raw.kind, raw.primary, raw.secondary, raw.tertiary) = RawOf(c)
        /\ raw.header = "valid" /\ ~ raw.reserved
        /\ raw.kind # 1 => NoIdentity(raw)
        /\ IF raw.kind \in {3, 4} THEN SameRange(raw.timeline, c.range)
                                  ELSE NoTimeline(raw)
        /\ IF raw.kind = 3 THEN IsOk(RangeOf(raw.source)) ELSE NoSource(raw)
=============================================================================
