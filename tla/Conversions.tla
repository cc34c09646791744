----------------------------- MODULE Conversions ----------------------------
(***************************************************************************)
(* What the program exchanges with others: every text, row and document    *)
(* it writes for the database, for a peer or for a configuration, and      *)
(* every one it reads.  A call is one step, which says what was asked and  *)
(* answered; decoding a document takes several (Documents).                *)
(***************************************************************************)
EXTENDS Documents, RangeText, Rows, Times

CONSTANTS
  Lists,          \* lists of ranges that are written
  OldLists,       \* some that are read into again
  Texts,          \* texts that are read as such
  RowsOf,         \* for a name in RowTypes, rows that are written
  RowTexts,       \* and texts that are read
  Durations,      \* durations, texts of them
  DurationTexts,
  Instants,       \* times, texts of them
  TimeTexts,
  Sets,           \* sets of recurrences
  OldSets         \* some that are scanned into again

\* The numbers of ranges that are written fit an int64 and have no sign; those
\* of a text may be too large to be read.
ASSUME RangesAssumption ==
  /\ MaxInt \in Nat
  /\ Lists \subseteq Seq({r \in RangeType :
                            /\ 0 <= r.start /\ r.start <= MaxInt /\ r.end <= MaxInt
                            /\ r.end = -1 \/ r.start <= r.end})
  /\ OldLists \subseteq Seq(RangeType)
  /\ Texts \subseteq Seq(PieceType)

ASSUME TimesAssumption ==
  /\ Durations \subseteq Nat
  /\ DurationTexts \subseteq Seq(Nat \X STRING)
  /\ Instants \subseteq TimeType
  /\ Sets \cup OldSets \subseteq SetType

VARIABLES
  call,    \* the function that was called last, "none" when it has returned
  args,    \* its arguments
  answer   \* what it returned, and left in its receiver

convVars == <<call, args, answer>>

RowTypes == [Name |-> NameKinds, HLSComponentIdentifierType |-> HLSKinds,
             DASHComponentIdentifierType |-> DASHKinds,
             PresentationManifestLocator |-> LocatorKinds, BitRateType |-> BitRateKinds,
             MulticastEndpointAddressType |-> EndpointKinds, FECParamType |-> FECKinds]

\* What a row holds that was scanned into before.
OldField(kind) ==
  CASE kind \in {"text", "quoted"} -> <<"o">>
    [] kind = "tsi" -> <<"7">>
    [] kind = "endpoints" -> <<<<<<"192.0.2.1", "239.0.0.1", "7", <<"7">>>>>>>>
    [] OTHER -> "7"

OldRow(kinds) == [k \in DOMAIN kinds |-> OldField(kinds[k])]

ScanRow(ty, old, text) ==
  LET kinds == RowTypes[ty]
      fields == Fields(text, Len(kinds))
  IN  ReadRow(old, [k \in DOMAIN fields |-> ReadFECField(kinds[k], old[k], fields[k])])

ValueRow(ty, row) == IF ty = "FECParamType" THEN WriteFEC(row) ELSE WriteRow(RowTypes[ty], row)

-----------------------------------------------------------------------------

ConversionsInit ==
  /\ DocInit
  /\ call = "none" /\ args = <<>> /\ answer = <<>>

Calls(name, arguments, result) ==
  /\ call' = name /\ args' = arguments /\ answer' = result
  /\ UNCHANGED docVars

WriteRanges == \E rl \in Lists :
  \/ Calls("RangeList.String", <<rl>>, WriteList(rl))
  \/ Calls("RangeList.StringHTTP", <<rl>>, WriteListHTTP(rl))

ReadRanges == \E text \in Texts :
  \/ \E old \in OldLists :
        Calls("RangeList.UnmarshalText", <<old, text>>, ReadList(old, text))
  \/ Calls("ParseContentRange", <<text>>, ParseContentRange(text))

WriteRows == \E ty \in DOMAIN RowTypes : \E row \in RowsOf[ty] :
  Calls("Value", <<ty, row>>, ValueRow(ty, row))

ReadRows == \E ty \in DOMAIN RowTypes : \E text \in RowTexts[ty] :
  LET old == OldRow(RowTypes[ty])
  IN  Calls("Scan", <<ty, old, text>>, ScanRow(ty, old, text))

Keys == \E endpoint \in RowsOf["MulticastEndpointAddressType"], withTsi \in BOOLEAN :
  Calls("Key", <<endpoint, withTsi>>, Key(endpoint, withTsi))

WriteDuration == \E d \in Durations :
  \/ Calls("Duration.Value", <<d>>, DurationText(d))
  \/ Calls("Duration.MarshalJSON", <<d>>, MarshalDuration(d))

ReadDuration == \E text \in DurationTexts :
  \/ Calls("Duration.Scan", <<text>>, IF ScanPanics(text) THEN Panic ELSE ScanDuration(text))
  \/ \E quotes \in 0..2 :
        LET json == [quotes |-> quotes, text |-> text]
        IN  Calls("Duration.UnmarshalJSON", <<json>>,
                  IF ScanPanics(text) THEN Panic ELSE UnmarshalDuration(json))

WriteTime == \E at \in Instants :
  \/ Calls("TimeZ.String", <<at>>, TimeText(at))
  \/ Calls("TimeZ.MarshalJSON", <<at>>, MarshalTime(at))
  \/ Calls("TimeZ.Value", <<at>>, TimeValue(at))

ReadTime == \E old \in Instants, text \in TimeTexts :
  Calls("TimeZ.UnmarshalJSON", <<old, text>>, UnmarshalTime(old, text))

WriteRecurrence == \E a \in Sets :
  \/ Calls("RRuleSet.Value", <<a>>, WriteSet(a))
  \/ \E result \in Expand(a) : Calls("RRuleSet", <<a>>, result)

ReadRecurrence == \E old \in OldSets \cup {ZeroSet}, a \in Sets :
  Calls("RRuleSet.Scan", <<old, a>>, ReadSet(old, WriteSet(a)))

Return ==
  /\ call # "none"
  /\ call' = "none" /\ args' = <<>> /\ answer' = <<>>
  /\ UNCHANGED docVars

Document == call = "none" /\ DocNext /\ UNCHANGED convVars

Convert ==
  /\ call = "none" /\ DocIdle
  /\ \/ WriteRanges \/ ReadRanges \/ WriteRows \/ ReadRows \/ Keys
     \/ WriteDuration \/ ReadDuration \/ WriteTime \/ ReadTime
     \/ WriteRecurrence \/ ReadRecurrence

ConversionsNext == Convert \/ Return \/ Document

ConversionsSpec == ConversionsInit /\ [][ConversionsNext]_<<docVars, convVars>>

-----------------------------------------------------------------------------
(* Ranges *)

\* A peer that reads a list of ranges finds the same offsets, and closed
\* ranges in normal form, unless one that another lies in touches a third; an
\* open range is found if it is behind the others and does not touch them.
WrittenListKept(rl, text) ==
  LET back == ReadList(<<>>, text).value
      open == {k \in DOMAIN rl : rl[k].end = -1}
      nested == \E j, k, l \in DOMAIN rl :
                   /\ j # k /\ k # l /\ j # l
                   /\ Encloses(rl[j], rl[k]) /\ OverlapsFront(rl[j], rl[l])
  IN  /\ open = {} => Offsets(back) = Offsets(rl) /\ (nested \/ Normal(back))
      /\ \A m \in open :
           (\A k \in DOMAIN rl \ {m} : rl[k].end # -1 /\ rl[k].end + 1 < rl[m].start) =>
             Last(back) = rl[m] /\ Offsets(Front(back)) = Offsets(rl)

\* A header gives back the list that was written to it, if its ranges are in
\* order and do not overlap and only the last is open; but for the first byte
\* alone and for everything, which the header leaves out.
WrittenHeaderKept(rl, text) ==
  rl # <<>> /\ (\A k, l \in DOMAIN rl : k < l => rl[k].end # -1 /\ rl[k].end < rl[l].start) =>
    ParseContentRange(text) =
      Ok([ranges |-> IF rl[1] \in {Interval(0, 0), Interval(0, -1)} THEN Tail(rl) ELSE rl,
          length |-> Absent])

\* The ranges of a header are some of those in its text, each behind the one
\* before, and only the last may be open; its length is the first that is there.
HeaderInOrder(text, read) ==
  LET header == read.value
      found == {Interval(IF text[k].star THEN 0 ELSE text[k].first, text[k].last) : k \in DOMAIN text}
      first == SelectInSeq(text, LAMBDA p : p.length # Absent)
  IN  read.ok =>
        /\ \A k \in DOMAIN header.ranges : header.ranges[k] \in found
        /\ \A k \in 1..(Len(header.ranges) - 1) :
              header.ranges[k].end # -1 /\ header.ranges[k].end < header.ranges[k + 1].start
        /\ header.length = IF first = 0 THEN Absent ELSE text[first].length

\* Ranges that are written for the feedback and for HTTP are read as what they
\* were; a text with a faulty range leaves what was there before it.
RangeTextExact ==
  CASE call = "RangeList.String" -> WrittenListKept(args[1], answer)
    [] call = "RangeList.StringHTTP" -> WrittenHeaderKept(args[1], answer)
    [] call = "RangeList.UnmarshalText" ->
         \A r \in Range(args[1]) : \E q \in Range(answer.value) : Encloses(q, r)
    [] call = "ParseContentRange" -> HeaderInOrder(args[1], answer)
    [] OTHER -> TRUE

-----------------------------------------------------------------------------
(* Rows *)

Special == {Comma, Quote, Backslash, " ", "(", ")"}

\* What a field must not hold to be found again: a plain text nothing that
\* splits it or that only the database puts in quotes or takes out of them.
PlainField(ty, k, v) ==
  LET kind == RowTypes[ty][k]
  IN  CASE kind = "text" -> Range(v) \cap (Special \ {" "}) = {}
        [] kind = "quoted" -> Backslash \notin Range(v) /\ (k < 3 => Comma \notin Range(v))
        [] kind \in {"source", "group"} -> v # NoAddress
        [] kind = "tsi" -> v # <<>>
        [] kind = "endpoints" ->
             /\ v # <<>> /\ Len(v[1]) <= 1
             /\ \A e \in Range(v[1]) : e[1] # NoAddress /\ e[2] # NoAddress /\ e[4] # <<>>
        [] OTHER -> TRUE

PlainRow(ty, row) == \A k \in DOMAIN row : PlainField(ty, k, row[k])

\* What the database gives back of a row, as Scan reads it.
ReadBack(ty, text) ==
  LET kept == IF ty = "FECParamType" THEN StoredFEC(text) ELSE StoredRow(text, Len(RowTypes[ty]))
  IN  IF kept.ok THEN ScanRow(ty, OldRow(RowTypes[ty]), kept.value) ELSE Error(<<>>)

\* Two endpoints without a difference that a channel's name shows.
SameChannel(e, f) ==
  LET none(a) == IF a \in {NoAddress, "0.0.0.0"} THEN NoAddress ELSE a
      tsi(p) == IF p = <<>> THEN Zero0 ELSE p[1]
  IN  none(e[1]) = none(f[1]) /\ none(e[2]) = none(f[2]) /\ e[3] = f[3] /\ tsi(e[4]) = tsi(f[4])

\* What comes back of a row that was stored: a plain row as it was; of a row of
\* endpoints or FEC parameters only if it is plain; a locator without a
\* backslash always, but as another one unless it is plain.
CameBack(ty, row, back) ==
  /\ PlainRow(ty, row) => back = Ok(row)
  /\ ty \in {"MulticastEndpointAddressType", "FECParamType"} => (back.ok <=> PlainRow(ty, row))
  /\ ty = "PresentationManifestLocator" /\ (\A k \in DOMAIN row : Backslash \notin Range(row[k])) =>
       back.ok /\ (back.value = row <=> PlainRow(ty, row))

\* A plain row that is stored is read back as it was, and so is one that was
\* scanned, also if the scan left a field as it was before.  An endpoint with
\* an address or a session id missing, and FEC parameters with such an
\* endpoint, with two, or with a nil slice of them, never come back; a locator
\* with a comma in its location or its manifest id comes back as another one.
\* The names of two channels differ if the channels do.
RowsExact ==
  CASE call = "Value" -> CameBack(args[1], args[2], ReadBack(args[1], answer))
    [] call = "Scan" ->
         answer.ok /\ PlainRow(args[1], answer.value) =>
           ReadBack(args[1], ValueRow(args[1], answer.value)) = answer
    [] call = "Key" /\ args[2] ->
         \A e \in RowsOf["MulticastEndpointAddressType"] :
            Key(e, TRUE) = answer <=> SameChannel(e, args[1])
    [] OTHER -> TRUE

-----------------------------------------------------------------------------
(* Durations and times *)

\* hh:mm:ss, as the database has it.
Clock(text) == [k \in DOMAIN text |-> text[k][2]] = <<":", ":", "">>

\* A duration is read back from the database and from JSON, in one or two
\* pairs of quotes or none, and the database's hh:mm:ss is read for what it
\* is; only a text that ends in minutes or hours is read as another one or
\* refused.  A time is read back in its zone, to the second, from all that is
\* written for it but JSON texts that were unquoted by others.
TimesExact ==
  CASE call = "Duration.Value" -> ScanDuration(answer) = Ok(args[1])
    [] call = "Duration.MarshalJSON" ->
         \A quotes \in 0..2 : UnmarshalDuration([answer EXCEPT !.quotes = quotes]) = Ok(args[1])
    [] call = "Duration.Scan" ->
         LET text == args[1]
         IN  /\ answer = Panic <=> text = <<>>
             /\ text # <<>> /\ Clock(text) =>
                  answer = Ok(3600 * text[1][1] + 60 * text[2][1] + text[3][1])
             /\ ParseDuration(text).ok /\ answer # ParseDuration(text) =>
                  Last(text)[2] \in {"m", "h"}
    [] call = "TimeZ.String" -> UnmarshalTime(ZeroTime, answer) = Ok(InSeconds(args[1]))
    [] call = "TimeZ.MarshalJSON" -> UnmarshalTime(ZeroTime, answer) = Ok(InSeconds(args[1]))
    [] call = "TimeZ.UnmarshalJSON" ->
         answer.ok \/ answer.value \in {args[1], ZeroTime}
    [] OTHER -> TRUE

-----------------------------------------------------------------------------
(* Recurrences *)

ToSeconds(a) ==
  [a EXCEPT !.dtstart = InSeconds(@), !.dtend = InSeconds(@), !.rdate = AllInSeconds(@),
            !.exdate = AllInSeconds(@),
            !.rrule = [k \in DOMAIN @ |-> RuleInSeconds(@[k])]]

\* A recurrence that is scanned into a fresh set is the one that was stored,
\* to the second.  One that was scanned into before keeps the lists and the
\* parts of the rule that the stored one lacks, never its own start, end,
\* frequency or interval.  The dates of the expansion, if there is one, are
\* those of the set: no date that it excludes takes their place.
RecurrenceExact ==
  CASE call = "RRuleSet.Value" -> ReadSet(ZeroSet, answer) = ToSeconds(args[1])
    [] call = "RRuleSet.Scan" ->
         LET old == args[1]
             new == ToSeconds(args[2])
         IN  /\ answer.dtstart = new.dtstart /\ answer.dtend = new.dtend
             /\ \A f \in {"rdate", "exdate"} :
                   answer[f] = IF new[f] = <<>> THEN old[f] ELSE new[f]
             /\ new.rrule = <<>> => answer.rrule = old.rrule
             /\ new.rrule # <<>> =>
                  \A f \in DOMAIN ZeroRule :
                     answer.rrule[1][f] =
                       IF f \in {"freq", "interval"} \/ new.rrule[1][f] # <<>>
                       THEN new.rrule[1][f] ELSE Pointee(old.rrule, ZeroRule)[f]
    [] call = "RRuleSet" -> answer.ok => answer.value.rdates = args[1].rdate
    [] OTHER -> TRUE

=============================================================================
