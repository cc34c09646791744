---------------------------- MODULE MCConversions ---------------------------
EXTENDS Conversions

AllNames == DOMAIN Types

-----------------------------------------------------------------------------
(* Ranges of the offsets 0..4, and open ones; 9 is too large to be read. *)

RangesUsed == {Interval(a, b) : a \in 0..4, b \in 0..4} \cup {Interval(a, -1) : a \in 0..4}

Proper == {r \in RangesUsed : r.end = -1 \/ r.start <= r.end}

SomeLists == UNION {[1..n -> Proper] : n \in 0..3}

SomeOldLists == {<<>>, <<Interval(2, 2)>>, <<Interval(3, 4), Interval(0, 3)>>}

Pieces ==
  {Piece(a, TRUE, b) : a \in {0, 1, 3, 9}, b \in {Absent, 0, 2, 9}}
    \cup {Piece(a, FALSE, Absent) : a \in {0, 4, 9}}
    \cup {[Piece(1, TRUE, 2) EXCEPT !.length = n] : n \in {5, 9}}
    \cup {Blank, NoDigits, Star, [Star EXCEPT !.length = 6], [Star EXCEPT !.dash = TRUE, !.last = 4]}

SomeTexts == UNION {[1..n -> Pieces] : n \in 0..3}

-----------------------------------------------------------------------------
(* Rows *)

Field == {<<>>, <<"a">>, <<Quote>>, <<Comma>>, <<"a", " ", "a">>, <<"a", Quote, Comma>>,
          <<Quote, "a", Quote>>, <<Backslash, "a">>}

Endpoints == {NoAddress, "0.0.0.0", "192.0.2.1"} \X {NoAddress, "239.0.0.1"} \X {"0", "5"}
               \X {<<>>, <<"0">>, <<"5">>}

SomeRows ==
  [Name |-> Field \X Field, HLSComponentIdentifierType |-> Field \X Field,
   DASHComponentIdentifierType |-> Field \X {"0", "5"} \X Field \X Field,
   PresentationManifestLocator |-> Field \X Field \X Field,
   BitRateType |-> {"0", "5"} \X {"0", "5"},
   MulticastEndpointAddressType |-> Endpoints,
   FECParamType |-> {<<"6", "1", "5", "0", "7", "0", l>> :
                        l \in {<<>>} \cup {<<list>> : list \in UNION {[1..n -> Endpoints] : n \in 0..2}}}]

Raw == {<<>>, <<"5">>, <<"192.0.2.1">>, <<Quote, "5", Quote>>, <<" ", "a">>}

RawRows(n) == {InParens(parts) : parts \in UNION {[1..k -> Raw] : k \in {1, n}}}

RawFEC ==
  {InParens(<<a, <<"1">>, b, <<"0">>, <<"7">>, <<"0">>>> \o last) :
     a \in Raw, b \in Raw, last \in {<<>>, <<<<>>>>, <<<<"{", "}">>>>, <<<<"5">>>>}}

SomeRowTexts ==
  [ty \in DOMAIN RowTypes |-> IF ty = "FECParamType" THEN RawFEC ELSE RawRows(Len(RowTypes[ty]))]

-----------------------------------------------------------------------------
(* Durations and times *)

SomeDurations == {0, 5, 1000, 1500, 59000, 60000, 61250, 3600000, 3605001, 90000000}

SomeDurationTexts ==
  LET parts == {1000, 5000, 2500} \X {"h", "m", "s", "ms", ":", ""}
  IN  UNION {[1..n -> parts] : n \in 0..3}

SomeInstants == {TimeOf(s, ms, o) : s \in {0, 100}, ms \in {0, 7}, o \in {0, 2}}

SomeTimeTexts ==
  [form : {"T", "space", "clock", "null", "other"}, quoted : BOOLEAN, time : SomeInstants]

Rules ==
  [freq : {"", "WEEKLY"}, interval : {<<>>, <<0>>, <<2>>}, count : {<<>>, <<3>>},
   until : {<<>>, <<TimeOf(9, 5, 2)>>}, byday : {<<>>, <<"SU", "none">>}, by : {<<>>, <<4>>},
   wkst : {<<>>, <<"SU">>}]

OneRule ==
  [freq |-> "DAILY", interval |-> <<2>>, count |-> <<3>>, until |-> <<TimeOf(9, 5, 2)>>,
   byday |-> <<"MO">>, by |-> <<4>>, wkst |-> <<"TU">>]

SomeOldSets ==
  [dtstart : {ZeroTime, TimeOf(1, 5, 2)}, dtend : {ZeroTime}, rrule : {<<>>, <<OneRule>>},
   rdate : {<<>>, <<TimeOf(2, 5, 0)>>}, exdate : {<<>>, <<TimeOf(3, 0, 0), TimeOf(4, 5, 2)>>}]

SomeSets == SomeOldSets \cup {[ZeroSet EXCEPT !.rrule = <<r>>] : r \in Rules}

=============================================================================
