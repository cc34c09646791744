-------------------------------- MODULE Times -------------------------------
(***************************************************************************)
(* Durations, times and recurrences (time.go), as they are written to and  *)
(* read from text, JSON, XML attributes and the database.                  *)
(***************************************************************************)
EXTENDS Integers, Sequences, SequencesExt, Results

-----------------------------------------------------------------------------
(* Faulty variants *)

WithSecondsTwice(text) == [text EXCEPT ![Len(text)] = <<@[1], @[2] \o "s">>]

SetDatesOverwritten(a) ==
  [rdates |-> IF a.exdate = <<>> THEN a.rdate ELSE <<a.exdate[Len(a.exdate)]>>, exdates |-> <<>>]

-----------------------------------------------------------------------------
(* Duration: a number of milliseconds.  A text is a sequence of numbers,   *)
(* counted in thousandths, each with what follows it: a unit, a colon, or  *)
(* "" at the end.                                                          *)

Units == [h |-> 3600000, m |-> 60000, s |-> 1000, ms |-> 1]

\* A part is whole units and a fraction.
AddPart(d, part) ==
  LET unit == Units[part[2]]
  IN  d + (part[1] \div 1000) * unit + ((part[1] % 1000) * unit) \div 1000

\* time.ParseDuration; "" is an error, and so is a number without a unit.
ParseDuration(text) ==
  IF text = <<>> \/ \E k \in DOMAIN text : text[k][2] \notin DOMAIN Units THEN Error(0)
  ELSE Ok(FoldLeft(AddPart, 0, text))

\* time.Duration.String
DurationText(d) ==
  LET h == d \div Units.h
      m == (d % Units.h) \div Units.m
      s == <<d % Units.m, "s">>
  IN  IF d > 0 /\ d < Units.s THEN <<<<1000 * d, "ms">>>>
      ELSE IF h > 0 THEN <<<<1000 * h, "h">>, <<1000 * m, "m">>, s>>
      ELSE IF m > 0 THEN <<<<1000 * m, "m">>, s>>
      ELSE <<s>>

\* strings.Replace(s, ":", unit, 1)
ReplaceColon(text, unit) ==
  LET k == SelectInSeq(text, LAMBDA part : part[2] = ":")
  IN  IF k = 0 THEN text ELSE [text EXCEPT ![k] = <<text[k][1], unit>>]

EndsInSeconds(text) == text[Len(text)][2] \in {"s", "ms"}

\* An "s" behind a number makes a unit of nothing and another one of minutes,
\* and none of anything else.
AppendS(unit) == CASE unit = "" -> "s" [] unit = "m" -> "ms" [] OTHER -> "unknown"

\* An "s" is appended to what does not end in one, whatever it ends in.
WithSeconds(text) ==
  IF EndsInSeconds(text) THEN text
  ELSE [text EXCEPT ![Len(text)] = <<@[1], AppendS(@[2])>>]

\* Duration.Scan: the last character of an empty text is asked for.
ScanPanics(text) == text = <<>>

Panic == [ok |-> FALSE]

ScanDuration(text) == ParseDuration(WithSeconds(ReplaceColon(ReplaceColon(text, "h"), "m")))

\* Duration.UnmarshalJSON takes off any number of pairs of quotes, plain or
\* escaped, and scans the rest.
UnmarshalDuration(json) == ScanDuration(json.text)

MarshalDuration(d) == [quotes |-> 1, text |-> DurationText(d)]

-----------------------------------------------------------------------------
(* TimeZ: seconds and milliseconds of UTC, and the offset of a zone.  A    *)
(* text shows these in one of the forms "T" (2006-01-02T15:04:05-07:00),   *)
(* "space" (a space for the T), "clock" (15:04:05) or "null".              *)

TimeOf(sec, ms, offset) == [sec |-> sec, ms |-> ms, offset |-> offset]

TimeType == [sec : Int, ms : Int, offset : Int]

ZeroTime == TimeOf(0, 0, 0)

InSeconds(t) == [t EXCEPT !.ms = 0]

TimeText(t) == [form |-> "T", quoted |-> FALSE, time |-> InSeconds(t)]

MarshalTime(t) == [TimeText(t) EXCEPT !.quoted = TRUE]

\* TimeZ.UnmarshalJSON: the layouts are tried with the quotes on, if there
\* are any; only time.Time.UnmarshalJSON, the last resort, takes them off.
\* A clock is that of the first day of the calendar.
UnmarshalTime(old, text) ==
  IF ~text.quoted /\ text.form \in {"T", "space"} THEN Ok(text.time)
  ELSE IF ~text.quoted /\ text.form = "clock" THEN Ok(TimeOf(text.time.sec, text.time.ms, 0))
  ELSE IF text.quoted /\ text.form = "T" THEN Ok(text.time)
  ELSE IF ~text.quoted /\ text.form = "null" THEN Ok(old)
  ELSE Error(IF text.quoted THEN ZeroTime ELSE old)

\* TimeZ.Value gives the database the time in UTC, and Scan takes it back.
TimeValue(t) == [t EXCEPT !.offset = 0]

-----------------------------------------------------------------------------
(* Recurrences.  A pointer is a sequence of at most one, and so is wkst, a *)
(* text that is not written when empty; `by` stands for each of the lists  *)
(* of numbers (Bysecond to Bysetpos).                                      *)

Freqs == {"YEARLY", "MONTHLY", "WEEKLY", "DAILY"}

Weekdays == {"MO", "TU", "WE", "TH", "FR", "SA", "SU"}

FreqVal(f) == IF f \in Freqs THEN f ELSE "DAILY"

WeekdayVal(d) == IF d \in Weekdays THEN d ELSE "MO"

ZeroRule == [freq |-> "", interval |-> <<>>, count |-> <<>>, until |-> <<>>, byday |-> <<>>,
             by |-> <<>>, wkst |-> <<>>]

ZeroSet == [dtstart |-> ZeroTime, dtend |-> ZeroTime, rrule |-> <<>>, rdate |-> <<>>,
            exdate |-> <<>>]

RuleType ==
  [freq : STRING, interval : Seq(Int), count : Seq(Int), until : Seq(TimeType),
   byday : Seq(STRING), by : Seq(Int), wkst : Seq(STRING)]

SetType ==
  [dtstart : TimeType, dtend : TimeType, rrule : {p \in Seq(RuleType) : Len(p) <= 1},
   rdate : Seq(TimeType), exdate : Seq(TimeType)]

Pointee(p, zero) == IF p = <<>> THEN zero ELSE p[1]

\* RRule.RRule: the options for the library that expands the rule.
RuleOptions(rule, dtstart) ==
  [freq |-> FreqVal(rule.freq), dtstart |-> dtstart,
   interval |-> IF Pointee(rule.interval, 0) > 0 THEN rule.interval[1] ELSE 0,
   count |-> Pointee(rule.count, 0), until |-> Pointee(rule.until, ZeroTime),
   wkst |-> WeekdayVal(Pointee(rule.wkst, "")), by |-> rule.by,
   byday |-> [k \in DOMAIN rule.byday |-> WeekdayVal(rule.byday[k])]]

\* The dates of RRuleSet.RRuleSet: each excluded date is appended to the
\* dates, when these are set already, and none to the excluded dates.
SetDates(a) == [rdates |-> a.rdate, exdates |-> <<>>]

\* What rrule-go is handed, which may refuse the options of a rule; without
\* one it is handed nil, and takes it for no rule or panics.
Expand(a) ==
  LET set(rules) == Ok([rules |-> rules, dtstart |-> a.dtstart,
                        rdates |-> SetDates(a).rdates, exdates |-> SetDates(a).exdates])
  IN  IF a.rrule = <<>> THEN {set(<<>>), Panic}
      ELSE {set(<<RuleOptions(a.rrule[1], a.dtstart)>>), Error(<<>>)}

\* What json.Marshal writes of a record: what is not to be omitted when empty.
Present(record, kept) ==
  [f \in {g \in DOMAIN record : g \in kept \/ record[g] # <<>>} |-> record[f]]

AllInSeconds(times) == [k \in DOMAIN times |-> InSeconds(times[k])]

RuleInSeconds(rule) == [rule EXCEPT !.until = AllInSeconds(@)]

WriteRule(rule) == Present(RuleInSeconds(rule), {"freq", "interval"})

\* RRuleSet.Value
WriteSet(a) ==
  Present([a EXCEPT !.dtstart = InSeconds(@), !.dtend = InSeconds(@),
                    !.rdate = AllInSeconds(@), !.exdate = AllInSeconds(@),
                    !.rrule = [k \in DOMAIN @ |-> WriteRule(@[k])]],
          {"dtstart", "dtend"})

\* json.Unmarshal into a struct: what is not written stays as it was.
ReadInto(old, json) ==
  [f \in DOMAIN old |-> IF f \in DOMAIN json THEN json[f] ELSE old[f]]

\* RRuleSet.Scan, into the set and into the rule it points to.
ReadSet(old, json) ==
  [ReadInto(old, json) EXCEPT !.rrule =
     IF "rrule" \in DOMAIN json
     THEN <<ReadInto(Pointee(old.rrule, ZeroRule), json.rrule[1])>> ELSE @]

=============================================================================
