-------------------------- MODULE ConversionsProofs --------------------------
(***************************************************************************)
(* For all durations, times, recurrences and texts of durations: what is   *)
(* written of one is read back, to the second.  A call is one step, so the *)
(* invariants are inductive as they stand, and each proof is about what is *)
(* written and read: a record that leaves out its empty fields, and a text *)
(* that is parsed part by part.  And for all documents, of any length and  *)
(* of any types: decoding leaves in each field what the items before had   *)
(* for it, which is the invariant, and what is encoded decodes to it.  And *)
(* for all lists of ranges and their texts: what flatten makes of a list   *)
(* that was read, in whatever order it is, and what a header keeps.        *)
(***************************************************************************)
EXTENDS Conversions, ListLemmas

-----------------------------------------------------------------------------
(* Recurrences: what is written and what is read of it *)

LEMMA SetIs ==
  ASSUME NEW a \in SetType
  PROVE  /\ a = [dtstart |-> a.dtstart, dtend |-> a.dtend, rrule |-> a.rrule,
                 rdate |-> a.rdate, exdate |-> a.exdate]
         /\ a.dtstart \in TimeType /\ a.dtend \in TimeType
         /\ a.rdate \in Seq(TimeType) /\ a.exdate \in Seq(TimeType)
         /\ a.rrule = <<>> \/ \E r \in RuleType : a.rrule = <<r>>
<1>1. /\ a.rrule \in Seq(RuleType) /\ Len(a.rrule) <= 1
      /\ a = [dtstart |-> a.dtstart, dtend |-> a.dtend, rrule |-> a.rrule,
                 rdate |-> a.rdate, exdate |-> a.exdate]
      /\ a.dtstart \in TimeType /\ a.dtend \in TimeType
      /\ a.rdate \in Seq(TimeType) /\ a.exdate \in Seq(TimeType)
  BY DEF SetType
<1>2. a.rrule = <<>> \/ \E r \in RuleType : a.rrule = <<r>>
  <2> PICK p \in Seq(RuleType) : p = a.rrule
    BY <1>1
  <2>1. CASE Len(p) = 0
    BY <2>1
  <2>2. CASE Len(p) = 1
    <3>1. p[1] \in RuleType /\ p = <<p[1]>>
      BY <2>2
    <3> QED BY <3>1
  <2>3. Len(p) = 0 \/ Len(p) = 1
    <3>1. Len(p) \in Nat /\ Len(p) <= 1
      BY <1>1
    <3> PICK n : n = Len(p)
      OBVIOUS
    <3>2. n = 0 \/ n = 1
      BY ONLY <3>1, n = Len(p)
    <3> QED BY ONLY <3>2, n = Len(p)
  <2> QED BY <2>1, <2>2, <2>3
<1> QED BY <1>1, <1>2

LEMMA RuleIs ==
  ASSUME NEW r \in RuleType
  PROVE  /\ r = [freq |-> r.freq, interval |-> r.interval, count |-> r.count,
                 until |-> r.until, byday |-> r.byday, by |-> r.by, wkst |-> r.wkst]
         /\ r.until \in Seq(TimeType)
BY DEF RuleType

LEMMA InSecondsTyped ==
  ASSUME NEW at \in TimeType
  PROVE  InSeconds(at) \in TimeType
BY DEF TimeType, InSeconds

\* The same number of times, each without its milliseconds.
LEMMA SecondsOf ==
  ASSUME NEW times \in Seq(TimeType)
  PROVE  /\ AllInSeconds(times) = <<>> <=> times = <<>>
         /\ AllInSeconds(times) \in Seq(TimeType)
<1>1. \A k \in 1..Len(times) : times[k] \in TimeType
  OBVIOUS
<1>2. DOMAIN times = 1..Len(times) /\ Len(times) \in Nat
  OBVIOUS
<1>3. AllInSeconds(times) = [k \in 1..Len(times) |-> InSeconds(times[k])]
  BY ONLY <1>2 DEF AllInSeconds
<1>4. \A k \in 1..Len(times) : InSeconds(times[k]) \in TimeType
  BY ONLY <1>1, InSecondsTyped
<1>5. AllInSeconds(times) \in Seq(TimeType) /\ Len(AllInSeconds(times)) = Len(times)
  BY ONLY <1>2, <1>3, <1>4
<1> QED BY <1>5

RuleFields == {"freq", "interval", "count", "until", "byday", "by", "wkst"}

LEMMA RuleDomain ==
  /\ DOMAIN ZeroRule = RuleFields
  /\ \A r \in RuleType : DOMAIN r = RuleFields
  /\ \A f \in RuleFields \ {"freq"} : ZeroRule[f] = <<>>
  /\ {"freq", "interval", "until"} \subseteq RuleFields
<1>1. DOMAIN ZeroRule = RuleFields
  BY DEF ZeroRule, RuleFields
<1>2. \A r \in RuleType : DOMAIN r = RuleFields
  BY DEF RuleType, RuleFields
<1>3. \A f \in RuleFields \ {"freq"} : ZeroRule[f] = <<>>
  <2>1. /\ ZeroRule["interval"] = <<>> /\ ZeroRule["count"] = <<>> /\ ZeroRule["until"] = <<>>
        /\ ZeroRule["byday"] = <<>> /\ ZeroRule["by"] = <<>> /\ ZeroRule["wkst"] = <<>>
    BY DEF ZeroRule
  <2> QED BY <2>1 DEF RuleFields
<1>5. {"freq", "interval", "until"} \subseteq RuleFields
  BY DEF RuleFields
<1> QED BY ONLY <1>1, <1>2, <1>3, <1>5

LEMMA RuleInSecondsIs ==
  ASSUME NEW r \in RuleType
  PROVE  /\ DOMAIN RuleInSeconds(r) = RuleFields
         /\ RuleInSeconds(r)["until"] = AllInSeconds(r.until)
         /\ \A f \in RuleFields \ {"until"} : RuleInSeconds(r)[f] = r[f]
         /\ RuleInSeconds(r) = [f \in RuleFields |-> RuleInSeconds(r)[f]]
<1> PICK u : u = AllInSeconds(r.until)
  OBVIOUS
<1>1. RuleInSeconds(r) = [r EXCEPT !.until = u]
  BY DEF RuleInSeconds
<1>2. DOMAIN r = RuleFields /\ "until" \in RuleFields
  BY RuleDomain
<1>3. [r EXCEPT !.until = u] = [f \in RuleFields |-> IF f = "until" THEN u ELSE r[f]]
  BY ONLY <1>2
<1> QED BY ONLY <1>1, <1>2, <1>3, u = AllInSeconds(r.until)

\* A rule that is read into another one.
LEMMA RuleReadBack ==
  ASSUME NEW r \in RuleType, NEW old, DOMAIN old = RuleFields
  PROVE  ReadInto(old, WriteRule(r))
           = [f \in RuleFields |->
                    IF f \in {"freq", "interval"} \/ RuleInSeconds(r)[f] # <<>>
                    THEN RuleInSeconds(r)[f] ELSE old[f]]
<1> PICK q : q = RuleInSeconds(r)
  OBVIOUS
<1>1. WriteRule(r) = Present(q, {"freq", "interval"})
  BY DEF WriteRule
<1> PICK json : json = WriteRule(r)
  OBVIOUS
<1>2. DOMAIN q = RuleFields
  BY RuleInSecondsIs
<1>3. json = [f \in {g \in RuleFields : g \in {"freq", "interval"} \/ q[g] # <<>>} |-> q[f]]
  BY ONLY <1>1, <1>2, json = WriteRule(r) DEF Present
<1>4. ReadInto(old, json) = [f \in RuleFields |-> IF f \in DOMAIN json THEN json[f] ELSE old[f]]
  BY DEF ReadInto
<1> QED BY ONLY <1>3, <1>4, json = WriteRule(r), q = RuleInSeconds(r)

SetFields == {"dtstart", "dtend", "rrule", "rdate", "exdate"}

\* A set without the milliseconds, field by field.
LEMMA ToSecondsIs ==
  ASSUME NEW a \in SetType
  PROVE  LET new == ToSeconds(a)
         IN  /\ new = [dtstart |-> InSeconds(a.dtstart), dtend |-> InSeconds(a.dtend),
                       rrule |-> new.rrule, rdate |-> AllInSeconds(a.rdate),
                       exdate |-> AllInSeconds(a.exdate)]
             /\ a.rrule = <<>> => new.rrule = <<>>
             /\ \A r \in RuleType : a.rrule = <<r>> => new.rrule = <<RuleInSeconds(r)>>
<1> PICK d, e, p, x : d = InSeconds(a.dtstart) /\ e = InSeconds(a.dtend)
                      /\ p = AllInSeconds(a.rdate) /\ x = AllInSeconds(a.exdate)
  OBVIOUS
<1> PICK q : q = [k \in DOMAIN a.rrule |-> RuleInSeconds(a.rrule[k])]
  OBVIOUS
<1>1. ToSeconds(a) = [a EXCEPT !.dtstart = d, !.dtend = e, !.rdate = p, !.exdate = x, !.rrule = q]
  BY DEF ToSeconds
<1>2. PICK b, c, m, n, h :
         a = [dtstart |-> b, dtend |-> c, rrule |-> m, rdate |-> n, exdate |-> h]
  BY SetIs
<1>3. ToSeconds(a) = [dtstart |-> d, dtend |-> e, rrule |-> q, rdate |-> p, exdate |-> x]
  BY ONLY <1>1, <1>2
<1>4. a.rrule = <<>> => q = <<>>
  OBVIOUS
<1>5. \A r \in RuleType : a.rrule = <<r>> => q = <<RuleInSeconds(r)>>
  OBVIOUS
<1> QED BY ONLY <1>3, <1>4, <1>5, d = InSeconds(a.dtstart), e = InSeconds(a.dtend),
             p = AllInSeconds(a.rdate), x = AllInSeconds(a.exdate)

\* What is written of a set.
LEMMA WriteSetIs ==
  ASSUME NEW a \in SetType
  PROVE  LET new == ToSeconds(a)
             json == WriteSet(a)
         IN  /\ DOMAIN json = {f \in SetFields : f \in {"dtstart", "dtend"} \/ new[f] # <<>>}
             /\ \A f \in DOMAIN json \ {"rrule"} : json[f] = new[f]
             /\ \A r \in RuleType : a.rrule = <<r>> => json["rrule"] = <<WriteRule(r)>>
<1> PICK d, e, p, x : d = InSeconds(a.dtstart) /\ e = InSeconds(a.dtend)
                      /\ p = AllInSeconds(a.rdate) /\ x = AllInSeconds(a.exdate)
  OBVIOUS
<1> PICK q : q = [k \in DOMAIN a.rrule |-> WriteRule(a.rrule[k])]
  OBVIOUS
<1> PICK w : w = [a EXCEPT !.dtstart = d, !.dtend = e, !.rdate = p, !.exdate = x, !.rrule = q]
  BY ZenonT(30)
<1>1. WriteSet(a) = Present(w, {"dtstart", "dtend"})
  BY DEF WriteSet
<1>2. PICK b, c, m, n, h :
         a = [dtstart |-> b, dtend |-> c, rrule |-> m, rdate |-> n, exdate |-> h]
  BY SetIs
<1>3. w = [dtstart |-> d, dtend |-> e, rrule |-> q, rdate |-> p, exdate |-> x]
  BY ONLY <1>2, w = [a EXCEPT !.dtstart = d, !.dtend = e, !.rdate = p, !.exdate = x, !.rrule = q]
<1> PICK new : new = ToSeconds(a)
  OBVIOUS
<1>4. /\ new = [dtstart |-> d, dtend |-> e, rrule |-> new.rrule, rdate |-> p, exdate |-> x]
      /\ a.rrule = <<>> => new.rrule = <<>>
      /\ \A r \in RuleType : a.rrule = <<r>> => new.rrule = <<RuleInSeconds(r)>>
  BY ToSecondsIs
<1>5. a.rrule = <<>> => q = <<>>
  OBVIOUS
<1>6. \A r \in RuleType : a.rrule = <<r>> => q = <<WriteRule(r)>>
  OBVIOUS
<1>7. a.rrule = <<>> \/ \E r \in RuleType : a.rrule = <<r>>
  BY SetIs
<1>8. q = <<>> <=> new.rrule = <<>>
  BY ONLY <1>4, <1>5, <1>6, <1>7
<1>9. DOMAIN w = SetFields /\ \A f \in SetFields \ {"rrule"} : w[f] = new[f]
  BY ONLY <1>3, <1>4 DEF SetFields
<1>10. w["rrule"] = q
  BY ONLY <1>3
<1>11. \A f \in SetFields : w[f] # <<>> <=> new[f] # <<>>
  BY ONLY <1>8, <1>9, <1>10
<1>12. Present(w, {"dtstart", "dtend"}) =
         [f \in {g \in SetFields : g \in {"dtstart", "dtend"} \/ new[g] # <<>>} |-> w[f]]
  BY ONLY <1>9, <1>11 DEF Present
<1>13. \A r \in RuleType : a.rrule = <<r>> => new.rrule # <<>>
  BY ONLY <1>4
<1>14. "rrule" \in SetFields
  BY DEF SetFields
<1> QED BY ONLY <1>1, <1>6, <1>9, <1>10, <1>12, <1>13, <1>14, new = ToSeconds(a)

\* A set that is read into another one.
LEMMA ReadSetIs ==
  ASSUME NEW a \in SetType, NEW old, DOMAIN old = SetFields,
         old.rrule = <<>> \/ \E r \in RuleType : old.rrule = <<r>>
  PROVE  LET new == ToSeconds(a)
             read == ReadSet(old, WriteSet(a))
         IN  /\ read = [f \in SetFields |-> read[f]]
             /\ read["dtstart"] = new.dtstart /\ read["dtend"] = new.dtend
             /\ \A f \in {"rdate", "exdate"} : read[f] = IF new[f] = <<>> THEN old[f] ELSE new[f]
             /\ a.rrule = <<>> => read["rrule"] = old.rrule
             /\ \A r \in RuleType : a.rrule = <<r>> =>
                   read["rrule"] = <<[f \in RuleFields |->
                                       IF f \in {"freq", "interval"} \/ RuleInSeconds(r)[f] # <<>>
                                       THEN RuleInSeconds(r)[f]
                                       ELSE Pointee(old.rrule, ZeroRule)[f]]>>
<1> PICK new : new = ToSeconds(a)
  OBVIOUS
<1> PICK json : json = WriteSet(a)
  OBVIOUS
<1> PICK to : to = Pointee(old.rrule, ZeroRule)
  OBVIOUS
<1>1. DOMAIN to = RuleFields
  <2>1. CASE old.rrule = <<>>
    BY <2>1, RuleDomain DEF Pointee
  <2>2. CASE old.rrule # <<>>
    BY <2>2, RuleDomain DEF Pointee
  <2> QED BY <2>1, <2>2
<1>2. /\ DOMAIN json = {f \in SetFields : f \in {"dtstart", "dtend"} \/ new[f] # <<>>}
      /\ \A f \in DOMAIN json \ {"rrule"} : json[f] = new[f]
      /\ \A r \in RuleType : a.rrule = <<r>> => json["rrule"] = <<WriteRule(r)>>
  BY WriteSetIs
<1>3. /\ a.rrule = <<>> => new.rrule = <<>>
      /\ \A r \in RuleType : a.rrule = <<r>> => new.rrule # <<>>
  BY ToSecondsIs
<1> PICK read : read = ReadSet(old, json)
  OBVIOUS
<1> PICK into : into = ReadInto(old, json)
  OBVIOUS
<1>4. into = [f \in SetFields |-> IF f \in DOMAIN json THEN json[f] ELSE old[f]]
  BY DEF ReadInto
<1>5. read = [into EXCEPT !.rrule = IF "rrule" \in DOMAIN json
                                    THEN <<ReadInto(to, json.rrule[1])>> ELSE @]
  BY DEF ReadSet
<1>6. "rrule" \in SetFields /\ "dtstart" \in SetFields /\ "dtend" \in SetFields
      /\ "rdate" \in SetFields /\ "exdate" \in SetFields
  BY DEF SetFields
<1>7. read = [f \in SetFields |-> IF f = "rrule"
                THEN IF "rrule" \in DOMAIN json THEN <<ReadInto(to, json["rrule"][1])>>
                     ELSE into["rrule"]
                ELSE into[f]]
  BY ONLY <1>4, <1>5
<1>8. read["dtstart"] = new.dtstart /\ read["dtend"] = new.dtend
  BY ONLY <1>2, <1>4, <1>6, <1>7
<1>9. \A f \in {"rdate", "exdate"} : read[f] = IF new[f] = <<>> THEN old[f] ELSE new[f]
  BY ONLY <1>2, <1>4, <1>6, <1>7
<1>10. a.rrule = <<>> => read["rrule"] = old.rrule
  BY ONLY <1>2, <1>3, <1>4, <1>6, <1>7
<1>11. ASSUME NEW r \in RuleType, a.rrule = <<r>>
       PROVE  read["rrule"] = <<[f \in RuleFields |->
                                       IF f \in {"freq", "interval"} \/ RuleInSeconds(r)[f] # <<>>
                                       THEN RuleInSeconds(r)[f] ELSE to[f]]>>
  <2>1. "rrule" \in DOMAIN json /\ json["rrule"] = <<WriteRule(r)>>
    BY ONLY <1>2, <1>3, <1>6, <1>11
  <2>2. json["rrule"][1] = WriteRule(r)
    BY ONLY <2>1
  <2>3. read["rrule"] = <<ReadInto(to, WriteRule(r))>>
    BY ONLY <1>6, <1>7, <2>1, <2>2
  <2> QED BY ONLY <1>1, <2>3, RuleReadBack, r \in RuleType
<1>12. read = [f \in SetFields |-> read[f]]
  BY ONLY <1>7
<1> QED BY ONLY <1>8, <1>9, <1>10, <1>11, <1>12, new = ToSeconds(a), json = WriteSet(a),
             to = Pointee(old.rrule, ZeroRule), read = ReadSet(old, json)

LEMMA ReadFresh ==
  ASSUME NEW a \in SetType
  PROVE  ReadSet(ZeroSet, WriteSet(a)) = ToSeconds(a)
<1> PICK new : new = ToSeconds(a)
  OBVIOUS
<1> PICK read : read = ReadSet(ZeroSet, WriteSet(a))
  OBVIOUS
<1> PICK old : old = ZeroSet
  OBVIOUS
<1>1. DOMAIN old = SetFields /\ old.rrule = <<>> /\ old["rdate"] = <<>> /\ old["exdate"] = <<>>
  BY DEF ZeroSet, SetFields
<1>2. /\ read = [f \in SetFields |-> read[f]]
      /\ read["dtstart"] = new.dtstart /\ read["dtend"] = new.dtend
      /\ \A f \in {"rdate", "exdate"} : read[f] = IF new[f] = <<>> THEN old[f] ELSE new[f]
      /\ a.rrule = <<>> => read["rrule"] = old.rrule
      /\ \A r \in RuleType : a.rrule = <<r>> =>
            read["rrule"] = <<[f \in RuleFields |->
                                IF f \in {"freq", "interval"} \/ RuleInSeconds(r)[f] # <<>>
                                THEN RuleInSeconds(r)[f] ELSE Pointee(old.rrule, ZeroRule)[f]]>>
  BY ONLY <1>1, a \in SetType, new = ToSeconds(a), old = ZeroSet,
          read = ReadSet(ZeroSet, WriteSet(a)), ReadSetIs
<1>3. /\ new = [dtstart |-> new.dtstart, dtend |-> new.dtend, rrule |-> new.rrule,
                rdate |-> new.rdate, exdate |-> new.exdate]
      /\ a.rrule = <<>> => new.rrule = <<>>
      /\ \A r \in RuleType : a.rrule = <<r>> => new.rrule = <<RuleInSeconds(r)>>
  <2>1. PICK d, e, q, p, x : new = [dtstart |-> d, dtend |-> e, rrule |-> q, rdate |-> p, exdate |-> x]
    BY ToSecondsIs
  <2> QED BY <2>1, ToSecondsIs
<1>4. a.rrule = <<>> \/ \E r \in RuleType : a.rrule = <<r>>
  BY SetIs
<1>5. read["rrule"] = new.rrule
  <2>1. CASE a.rrule = <<>>
    BY ONLY <1>1, <1>2, <1>3, <2>1
  <2>2. ASSUME NEW r \in RuleType, a.rrule = <<r>>
        PROVE  read["rrule"] = new.rrule
    <3> PICK q : q = RuleInSeconds(r)
      OBVIOUS
    <3>1. q = [f \in RuleFields |-> q[f]]
      BY RuleInSecondsIs
    <3>2. Pointee(old.rrule, ZeroRule) = ZeroRule
      BY <1>1 DEF Pointee
    <3>3. read["rrule"] = <<[f \in RuleFields |->
                                IF f \in {"freq", "interval"} \/ q[f] # <<>>
                                THEN q[f] ELSE ZeroRule[f]]>>
      BY ONLY <1>2, <2>2, <3>2, q = RuleInSeconds(r)
    <3>4. \A f \in RuleFields \ {"freq"} : ZeroRule[f] = <<>>
      BY RuleDomain
    <3>5. q = [f \in RuleFields |-> IF f \in {"freq", "interval"} \/ q[f] # <<>>
                                     THEN q[f] ELSE ZeroRule[f]]
      BY ONLY <3>1, <3>4
    <3>6. new.rrule = <<q>>
      BY ONLY <1>3, <2>2, q = RuleInSeconds(r)
    <3> QED BY ONLY <3>3, <3>5, <3>6
  <2> QED BY <1>4, <2>1, <2>2
<1>6. \A f \in SetFields : read[f] = new[f]
  BY ONLY <1>1, <1>2, <1>3, <1>5 DEF SetFields
<1>7. new = [f \in SetFields |-> new[f]]
  <2>1. DOMAIN new = SetFields
    BY ONLY <1>3 DEF SetFields
  <2>2. new = [f \in DOMAIN new |-> new[f]]
    BY ONLY <1>3
  <2> QED BY ONLY <2>1, <2>2
<1>8. read = new
  BY ONLY <1>2, <1>6, <1>7
<1> QED BY ONLY <1>8, new = ToSeconds(a), read = ReadSet(ZeroSet, WriteSet(a))

LEMMA ZeroSetIs ==
  DOMAIN ZeroSet = SetFields /\ ZeroSet.rrule = <<>>
BY DEF ZeroSet, SetFields

LEMMA SetDomain ==
  ASSUME NEW a \in SetType
  PROVE  /\ DOMAIN a = SetFields
         /\ a.rrule = <<>> \/ \E r \in RuleType : a.rrule = <<r>>
<1>1. DOMAIN a = SetFields
  BY DEF SetType, SetFields
<1> QED BY <1>1, SetIs

\* Scan, as RecurrenceExact has it.
LEMMA ScanExact ==
  ASSUME NEW a \in SetType, NEW old, DOMAIN old = SetFields,
         old.rrule = <<>> \/ \E r \in RuleType : old.rrule = <<r>>
  PROVE  LET new == ToSeconds(a)
             read == ReadSet(old, WriteSet(a))
         IN  /\ read.dtstart = new.dtstart /\ read.dtend = new.dtend
             /\ \A f \in {"rdate", "exdate"} :
                   read[f] = IF new[f] = <<>> THEN old[f] ELSE new[f]
             /\ new.rrule = <<>> => read.rrule = old.rrule
             /\ new.rrule # <<>> =>
                  \A f \in DOMAIN ZeroRule :
                     read.rrule[1][f] =
                       IF f \in {"freq", "interval"} \/ new.rrule[1][f] # <<>>
                       THEN new.rrule[1][f] ELSE Pointee(old.rrule, ZeroRule)[f]
<1> PICK new : new = ToSeconds(a)
  OBVIOUS
<1> PICK read : read = ReadSet(old, WriteSet(a))
  OBVIOUS
<1>1. /\ read["dtstart"] = new.dtstart /\ read["dtend"] = new.dtend
      /\ \A f \in {"rdate", "exdate"} : read[f] = IF new[f] = <<>> THEN old[f] ELSE new[f]
      /\ a.rrule = <<>> => read["rrule"] = old.rrule
      /\ \A r \in RuleType : a.rrule = <<r>> =>
            read["rrule"] = <<[f \in RuleFields |->
                                IF f \in {"freq", "interval"} \/ RuleInSeconds(r)[f] # <<>>
                                THEN RuleInSeconds(r)[f] ELSE Pointee(old.rrule, ZeroRule)[f]]>>
  BY ReadSetIs
<1>2. /\ a.rrule = <<>> => new.rrule = <<>>
      /\ \A r \in RuleType : a.rrule = <<r>> => new.rrule = <<RuleInSeconds(r)>>
  BY ToSecondsIs
<1>3. a.rrule = <<>> \/ \E r \in RuleType : a.rrule = <<r>>
  BY SetIs
<1>4. new.rrule = <<>> => read["rrule"] = old.rrule
  BY ONLY <1>1, <1>2, <1>3
<1>5. ASSUME new.rrule # <<>>, NEW f \in DOMAIN ZeroRule
      PROVE  read["rrule"][1][f] =
               IF f \in {"freq", "interval"} \/ new.rrule[1][f] # <<>>
               THEN new.rrule[1][f] ELSE Pointee(old.rrule, ZeroRule)[f]
  <2> PICK r \in RuleType : a.rrule = <<r>>
    BY ONLY <1>2, <1>3, <1>5
  <2> PICK q : q = RuleInSeconds(r)
    OBVIOUS
  <2>1. new.rrule[1] = q
    BY ONLY <1>2, a.rrule = <<r>>, r \in RuleType, q = RuleInSeconds(r)
  <2> PICK s : s = [g \in RuleFields |->
                      IF g \in {"freq", "interval"} \/ q[g] # <<>>
                      THEN q[g] ELSE Pointee(old.rrule, ZeroRule)[g]]
    OBVIOUS
  <2>2. read["rrule"] = <<s>>
    BY <1>1
  <2>3. read["rrule"][1] = s
    BY ONLY <2>2
  <2>4. f \in RuleFields
    BY <1>5, RuleDomain
  <2> QED BY ONLY <2>1, <2>3, <2>4,
                  s = [g \in RuleFields |->
                      IF g \in {"freq", "interval"} \/ q[g] # <<>>
                      THEN q[g] ELSE Pointee(old.rrule, ZeroRule)[g]]
<1> QED BY ONLY <1>1, <1>4, <1>5, new = ToSeconds(a), read = ReadSet(old, WriteSet(a))

-----------------------------------------------------------------------------
(* The calls *)

\* What a step does to the calls: none, one that neither a duration nor a time
\* nor a recurrence is asked for, or one of these.
Others == {"none", "Value", "Scan", "Key"}

RangeCalls ==
  \/ \E rl \in Lists :
       \/ call' = "RangeList.String" /\ args' = <<rl>> /\ answer' = WriteList(rl)
       \/ call' = "RangeList.StringHTTP" /\ args' = <<rl>> /\ answer' = WriteListHTTP(rl)
  \/ \E text \in Texts :
       \/ \E old \in OldLists :
             /\ call' = "RangeList.UnmarshalText" /\ args' = <<old, text>>
             /\ answer' = ReadList(old, text)
       \/ /\ call' = "ParseContentRange" /\ args' = <<text>>
          /\ answer' = ParseContentRange(text)

DurationCalls ==
  \/ \E d \in Durations :
       \/ call' = "Duration.Value" /\ args' = <<d>> /\ answer' = DurationText(d)
       \/ call' = "Duration.MarshalJSON" /\ args' = <<d>> /\ answer' = MarshalDuration(d)
  \/ \E text \in DurationTexts :
       \/ /\ call' = "Duration.Scan" /\ args' = <<text>>
          /\ answer' = IF ScanPanics(text) THEN Panic ELSE ScanDuration(text)
       \/ call' = "Duration.UnmarshalJSON"

TimeCalls ==
  \/ \E at \in Instants :
       \/ call' = "TimeZ.String" /\ args' = <<at>> /\ answer' = TimeText(at)
       \/ call' = "TimeZ.MarshalJSON" /\ args' = <<at>> /\ answer' = MarshalTime(at)
       \/ call' = "TimeZ.Value"
  \/ \E old \in Instants, text \in TimeTexts :
       call' = "TimeZ.UnmarshalJSON" /\ args' = <<old, text>> /\ answer' = UnmarshalTime(old, text)

RecurrenceCalls ==
  \/ \E a \in Sets :
       \/ call' = "RRuleSet.Value" /\ args' = <<a>> /\ answer' = WriteSet(a)
       \/ call' = "RRuleSet" /\ args' = <<a>> /\ answer' \in Expand(a)
  \/ \E old \in OldSets \cup {ZeroSet}, a \in Sets :
       call' = "RRuleSet.Scan" /\ args' = <<old, a>> /\ answer' = ReadSet(old, WriteSet(a))

LEMMA StepCases ==
  ASSUME ConversionsNext
  PROVE  \/ UNCHANGED convVars \/ call' \in Others
         \/ RangeCalls \/ DurationCalls \/ TimeCalls \/ RecurrenceCalls
<1>1. CASE Document
  BY <1>1 DEF Document
<1>2. CASE Return
  BY <1>2 DEF Return, Others
<1>3. CASE WriteRanges
  BY <1>3 DEF WriteRanges, Calls, RangeCalls
<1>4. CASE ReadRanges
  BY <1>4 DEF ReadRanges, Calls, RangeCalls
<1>5. CASE WriteRows
  BY <1>5 DEF WriteRows, Calls, Others
<1>6. CASE ReadRows
  BY <1>6 DEF ReadRows, Calls, Others
<1>7. CASE Keys
  BY <1>7 DEF Keys, Calls, Others
<1>8. CASE WriteDuration
  BY <1>8 DEF WriteDuration, Calls, DurationCalls
<1>9. CASE ReadDuration
  BY <1>9 DEF ReadDuration, Calls, DurationCalls
<1>10. CASE WriteTime
  BY <1>10 DEF WriteTime, Calls, TimeCalls
<1>11. CASE ReadTime
  BY <1>11 DEF ReadTime, Calls, TimeCalls
<1>12. CASE WriteRecurrence
  BY <1>12 DEF WriteRecurrence, Calls, RecurrenceCalls
<1>13. CASE ReadRecurrence
  BY <1>13 DEF ReadRecurrence, Calls, RecurrenceCalls
<1> QED BY <1>1, <1>2, <1>3, <1>4, <1>5, <1>6, <1>7, <1>8, <1>9, <1>10, <1>11, <1>12, <1>13
        DEF ConversionsNext, Convert

LEMMA RecurrenceStep ==
  ASSUME RecurrenceExact, ConversionsNext
  PROVE  RecurrenceExact'
<1>1. CASE UNCHANGED convVars
  BY <1>1 DEF RecurrenceExact, convVars
<1>2. CASE call' \in Others
  BY <1>2 DEF RecurrenceExact, Others
<1>3. CASE DurationCalls
  <2>1. call' \in {"Duration.Value", "Duration.MarshalJSON", "Duration.Scan", "Duration.UnmarshalJSON"}
    BY <1>3 DEF DurationCalls
  <2> QED BY <2>1 DEF RecurrenceExact
<1>4. CASE TimeCalls
  <2>1. call' \in {"TimeZ.String", "TimeZ.MarshalJSON", "TimeZ.Value", "TimeZ.UnmarshalJSON"}
    BY <1>4 DEF TimeCalls
  <2> QED BY <2>1 DEF RecurrenceExact
<1>5. ASSUME NEW a \in Sets, call' = "RRuleSet.Value", args' = <<a>>, answer' = WriteSet(a)
      PROVE  RecurrenceExact'
  <2>1. a \in SetType
    BY TimesAssumption DEF TimesAssumption
  <2>2. ReadSet(ZeroSet, answer') = ToSeconds(args'[1])
    BY <1>5, <2>1, ReadFresh
  <2> QED BY <1>5, <2>2 DEF RecurrenceExact
<1>6. ASSUME NEW a \in Sets, call' = "RRuleSet", args' = <<a>>, answer' \in Expand(a)
      PROVE  RecurrenceExact'
  <2> DEFINE set(rules) == Ok([rules |-> rules, dtstart |-> a.dtstart,
                               rdates |-> SetDates(a).rdates, exdates |-> SetDates(a).exdates])
  <2>0. args'[1] = a
    BY <1>6
  <2>2. \A rules : set(rules).value.rdates = a.rdate
    BY DEF Ok, SetDates
  <2>3. Panic.ok = FALSE /\ Error(<<>>).ok = FALSE
    BY DEF Panic, Error
  <2>4. \/ \E rules : answer' = set(rules)
        \/ answer' \in {Panic, Error(<<>>)}
    <3> HIDE DEF set
    <3>1. Expand(a) = IF a.rrule = <<>> THEN {set(<<>>), Panic}
                      ELSE {set(<<RuleOptions(a.rrule[1], a.dtstart)>>), Error(<<>>)}
      BY DEF Expand, set
    <3> QED BY ONLY <1>6, <3>1
  <2>1. answer'.ok => answer'.value.rdates = args'[1].rdate
    <3> HIDE DEF set
    <3> QED BY ONLY <2>0, <2>2, <2>3, <2>4
  <2> QED BY <1>6, <2>1 DEF RecurrenceExact
<1>7. ASSUME NEW old \in OldSets \cup {ZeroSet}, NEW a \in Sets,
             call' = "RRuleSet.Scan", args' = <<old, a>>, answer' = ReadSet(old, WriteSet(a))
      PROVE  RecurrenceExact'
  <2>1. a \in SetType
    BY TimesAssumption DEF TimesAssumption
  <2>2. DOMAIN old = SetFields /\ (old.rrule = <<>> \/ \E r \in RuleType : old.rrule = <<r>>)
    <3>1. CASE old \in OldSets
      <4>1. old \in SetType
        BY <3>1, TimesAssumption DEF TimesAssumption
      <4> QED BY <4>1, SetDomain
    <3>2. CASE old = ZeroSet
      BY <3>2, ZeroSetIs
    <3> QED BY <3>1, <3>2
  <2>3. args'[1] = old /\ args'[2] = a
    BY <1>7
  <2> PICK new : new = ToSeconds(a)
    OBVIOUS
  <2> PICK read : read = answer'
    OBVIOUS
  <2>4. /\ read.dtstart = new.dtstart /\ read.dtend = new.dtend
        /\ \A f \in {"rdate", "exdate"} :
              read[f] = IF new[f] = <<>> THEN old[f] ELSE new[f]
        /\ new.rrule = <<>> => read.rrule = old.rrule
        /\ new.rrule # <<>> =>
             \A f \in DOMAIN ZeroRule :
                read.rrule[1][f] =
                  IF f \in {"freq", "interval"} \/ new.rrule[1][f] # <<>>
                  THEN new.rrule[1][f] ELSE Pointee(old.rrule, ZeroRule)[f]
    BY <1>7, <2>1, <2>2, ScanExact
  <2> QED BY ONLY <1>7, <2>3, <2>4, new = ToSeconds(a), read = answer' DEF RecurrenceExact
<1>8. CASE RecurrenceCalls
  BY <1>5, <1>6, <1>7, <1>8 DEF RecurrenceCalls
<1>9. CASE RangeCalls
  <2>1. call' \in {"RangeList.String", "RangeList.StringHTTP", "RangeList.UnmarshalText",
                   "ParseContentRange"}
    BY <1>9 DEF RangeCalls
  <2> QED BY <2>1 DEF RecurrenceExact
<1> QED BY <1>1, <1>2, <1>3, <1>4, <1>8, <1>9, StepCases

\* Every recurrence that RRuleSet.Value writes is scanned back to the second,
\* one that was scanned into before keeps only what the stored one lacks, and
\* RRuleSet expands to the dates of the set, for any recurrences.
THEOREM RecurrenceIsExact == ConversionsSpec => []RecurrenceExact
<1>1. ConversionsInit => RecurrenceExact
  BY DEF ConversionsInit, RecurrenceExact
<1>2. RecurrenceExact /\ [ConversionsNext]_<<docVars, convVars>> => RecurrenceExact'
  <2> SUFFICES ASSUME RecurrenceExact, [ConversionsNext]_<<docVars, convVars>>
               PROVE  RecurrenceExact'
    OBVIOUS
  <2>1. CASE ConversionsNext
    BY <2>1, RecurrenceStep
  <2>2. CASE UNCHANGED <<docVars, convVars>>
    BY <2>2 DEF RecurrenceExact, convVars
  <2> QED BY <2>1, <2>2
<1> QED BY <1>1, <1>2, PTL DEF ConversionsSpec

-----------------------------------------------------------------------------
(* Durations *)

\* The units by name.
UnitNames == {"h", "m", "s", "ms"}

LEMMA UnitsAre ==
  /\ DOMAIN Units = UnitNames
  /\ Units["h"] = 3600000 /\ Units["m"] = 60000 /\ Units["s"] = 1000 /\ Units["ms"] = 1
  /\ \A u \in UnitNames : Units[u] \in Nat
<1>1. /\ DOMAIN Units = UnitNames
      /\ Units["h"] = 3600000 /\ Units["m"] = 60000 /\ Units["s"] = 1000 /\ Units["ms"] = 1
  BY SMT DEF Units, UnitNames
<1> QED BY ONLY <1>1, SMT DEF UnitNames

LEMMA AddPartTyped ==
  ASSUME NEW d \in Nat, NEW a \in Nat, NEW u \in UnitNames
  PROVE  AddPart(d, <<a, u>>) \in Nat
<1> PICK w \in Nat : w = Units[u]
  BY UnitsAre
<1>1. AddPart(d, <<a, u>>) = d + (a \div 1000) * w + ((a % 1000) * w) \div 1000
  BY SMT DEF AddPart
<1>2. a \div 1000 \in Nat /\ a % 1000 \in Nat
  OBVIOUS
<1>3. (a \div 1000) * w \in Nat /\ (a % 1000) * w \in Nat
  BY <1>2, ProductsOrder
<1>4. ((a % 1000) * w) \div 1000 \in Nat
  BY <1>3
<1> QED BY <1>1, <1>3, <1>4

\* A part that time.ParseDuration accepts.
UnitParts == Nat \X UnitNames

\* h has what has been added up behind each of the n parts.
Parsing(h, n, text) ==
  /\ h[0] = 0
  /\ \A k \in 0..n : h[k] \in Nat
  /\ \A k \in 1..n : k - 1 \in 0..n /\ h[k] = AddPart(h[k - 1], text[k])

LEMMA ParseSteps ==
  ASSUME NEW text \in Seq(UnitParts), NEW n, n = Len(text)
  PROVE  \E h : Parsing(h, n, text) /\ FoldLeft(AddPart, 0, text) = h[n]
<1> DEFINE Joins(f) == f = [s \in SUBSET DOMAIN text |->
                              IF s = {} THEN 0
                              ELSE AddPart(f[s \ {Max(s)}], text[Max(s)])]
<1> PICK it : it = CHOOSE f : Joins(f)
  OBVIOUS
<1>1. FoldLeft(AddPart, 0, text) = it[DOMAIN text]
  BY DEF FoldLeft, MapThenFoldSet
<1>2. DOMAIN text = 1..n /\ n \in Nat /\ \A k \in 1..n : text[k] \in UnitParts
  OBVIOUS
<1>3. \A f : Joins(f) <=> f = [s \in SUBSET (1..n) |->
                              IF s = {} THEN 0
                              ELSE AddPart(f[s \ {Max(s)}], text[Max(s)])]
  BY <1>2
<1> HIDE DEF Joins
<1>6. ASSUME NEW k \in 1..n, NEW a \in Nat
      PROVE  AddPart(a, text[k]) \in Nat
  <2>1. PICK x \in Nat, u \in UnitNames : text[k] = <<x, u>>
    BY ONLY <1>2, k \in 1..n, SMT DEF UnitParts
  <2> QED BY <2>1, AddPartTyped
<1>7. \E f : Joins(f)
  <2> PICK A : A = Nat
    OBVIOUS
  <2> PICK Step : Step = [p \in (1..n) \X A |-> AddPart(p[2], text[p[1]])]
    OBVIOUS
  <2>1. \A k \in 1..n, a \in A :
           Step[<<k, a>>] = AddPart(a, text[k]) /\ Step[<<k, a>>] \in A
    BY <1>6
  <2>2. 0 \in A
    OBVIOUS
  <2>3. PICK f \in [SUBSET (1..n) -> A] : FoldsLeft(f, n, 0, Step)
    BY ONLY <1>2, <2>1, <2>2, LeftSolves
  <2>4. ASSUME NEW s \in SUBSET (1..n)
        PROVE  f[s] = IF s = {} THEN 0 ELSE AddPart(f[s \ {Max(s)}], text[Max(s)])
    BY ONLY <2>1, <2>3, <2>4 DEF FoldsLeft
  <2>5. f = [s \in SUBSET (1..n) |-> IF s = {} THEN 0
                      ELSE AddPart(f[s \ {Max(s)}], text[Max(s)])]
    BY ONLY <2>3, <2>4
  <2> QED BY <1>3, <2>5
<1>8. it = [s \in SUBSET (1..n) |-> IF s = {} THEN 0
                      ELSE AddPart(it[s \ {Max(s)}], text[Max(s)])]
  BY <1>3, <1>7
<1> PICK h : h = [k \in 0..n |-> it[1..k]]
  OBVIOUS
<1>9. h[0] = 0
  <2>1. 1..0 = {} /\ {} \in SUBSET (1..n) /\ 0 \in 0..n
    BY <1>2
  <2> QED BY ONLY <1>8, <2>1, h = [k \in 0..n |-> it[1..k]]
<1>10. ASSUME NEW k \in 1..n
       PROVE  k \in 0..n /\ k - 1 \in 0..n /\ h[k] = AddPart(h[k - 1], text[k])
  <2>1. k \in 0..n /\ k - 1 \in 0..n /\ 1..k \in SUBSET (1..n)
    BY <1>2
  <2>2. Max(1..k) = k /\ (1..k) \ {k} = 1..(k - 1) /\ 1..k # {}
    BY ONLY <1>2, k \in 1..n, MaxPosition
  <2>3. it[1..k] = AddPart(it[1..(k - 1)], text[k])
    BY ONLY <1>8, <2>1, <2>2
  <2> QED BY ONLY <2>1, <2>3, h = [j \in 0..n |-> it[1..j]]
<1>11. \A k \in 0..n : h[k] \in Nat
  <2> PICK P : P = {k \in 0..n : h[k] \in Nat}
    OBVIOUS
  <2>1. 0 \in P
    BY ONLY <1>2, <1>9, P = {k \in 0..n : h[k] \in Nat}
  <2>2. \A k \in 1..n : k - 1 \in P => k \in P
    BY ONLY <1>6, <1>10, P = {k \in 0..n : h[k] \in Nat}
  <2>3. \A k \in 0..n : k \in P
    BY ONLY <1>2, <2>1, <2>2, Upwards
  <2> QED BY ONLY <2>3, P = {k \in 0..n : h[k] \in Nat}
<1>12. FoldLeft(AddPart, 0, text) = h[n]
  BY ONLY <1>1, <1>2, h = [k \in 0..n |-> it[1..k]]
<1>13. Parsing(h, n, text)
  BY ONLY <1>9, <1>10, <1>11 DEF Parsing
<1> QED BY ONLY <1>12, <1>13

\* A text of one, two or three parts.
LEMMA ParseOne ==
  ASSUME NEW p \in UnitParts
  PROVE  ParseDuration(<<p>>) = Ok(AddPart(0, p))
<1> PICK text : text = <<p>>
  OBVIOUS
<1>1. text \in Seq(UnitParts) /\ 1 = Len(text) /\ text[1] = p /\ text # <<>> /\ DOMAIN text = {1}
  OBVIOUS
<1>2. PICK h : Parsing(h, 1, text) /\ FoldLeft(AddPart, 0, text) = h[1]
  BY ONLY <1>1, ParseSteps
<1>3. 1 \in 1..1 /\ 1 - 1 = 0
  OBVIOUS
<1>4. h[1] = AddPart(0, p)
  BY ONLY <1>1, <1>2, <1>3 DEF Parsing
<1>5. \A k \in DOMAIN text : text[k][2] \in DOMAIN Units
  BY <1>1, UnitsAre DEF UnitParts
<1> QED BY ONLY <1>1, <1>2, <1>4, <1>5, text = <<p>> DEF ParseDuration

LEMMA ParseTwo ==
  ASSUME NEW p \in UnitParts, NEW q \in UnitParts
  PROVE  ParseDuration(<<p, q>>) = Ok(AddPart(AddPart(0, p), q))
<1> PICK text : text = <<p, q>>
  OBVIOUS
<1>1. /\ text \in Seq(UnitParts) /\ 2 = Len(text) /\ text[1] = p /\ text[2] = q
      /\ text # <<>> /\ DOMAIN text = {1, 2}
  OBVIOUS
<1>2. PICK h : Parsing(h, 2, text) /\ FoldLeft(AddPart, 0, text) = h[2]
  BY ONLY <1>1, ParseSteps
<1>3. 1 \in 1..2 /\ 1 - 1 = 0 /\ 2 \in 1..2 /\ 2 - 1 = 1
  OBVIOUS
<1>4. h[2] = AddPart(AddPart(0, p), q)
  BY ONLY <1>1, <1>2, <1>3 DEF Parsing
<1>5. \A k \in DOMAIN text : text[k][2] \in DOMAIN Units
  BY <1>1, UnitsAre DEF UnitParts
<1> QED BY ONLY <1>1, <1>2, <1>4, <1>5, text = <<p, q>> DEF ParseDuration

LEMMA ParseThree ==
  ASSUME NEW p \in UnitParts, NEW q \in UnitParts, NEW r \in UnitParts
  PROVE  ParseDuration(<<p, q, r>>) = Ok(AddPart(AddPart(AddPart(0, p), q), r))
<1> PICK text : text = <<p, q, r>>
  OBVIOUS
<1>1. /\ text \in Seq(UnitParts) /\ 3 = Len(text) /\ text[1] = p /\ text[2] = q /\ text[3] = r
      /\ text # <<>> /\ DOMAIN text = {1, 2, 3}
  OBVIOUS
<1>2. PICK h : Parsing(h, 3, text) /\ FoldLeft(AddPart, 0, text) = h[3]
  BY ONLY <1>1, ParseSteps
<1>3. 1 \in 1..3 /\ 1 - 1 = 0 /\ 2 \in 1..3 /\ 2 - 1 = 1 /\ 3 \in 1..3 /\ 3 - 1 = 2
  OBVIOUS
<1>4. h[3] = AddPart(AddPart(AddPart(0, p), q), r)
  BY ONLY <1>1, <1>2, <1>3 DEF Parsing
<1>5. \A k \in DOMAIN text : text[k][2] \in DOMAIN Units
  BY <1>1, UnitsAre DEF UnitParts
<1> QED BY ONLY <1>1, <1>2, <1>4, <1>5, text = <<p, q, r>> DEF ParseDuration

\* A text without colons is scanned as it is, if it ends in seconds.
LEMMA NoColon ==
  ASSUME NEW text, NEW unit, \A k \in 1..Len(text) : text[k][2] # ":"
  PROVE  ReplaceColon(text, unit) = text
<1> PICK I : I = {k \in 1..Len(text) : text[k][2] = ":"}
  BY ONLY Zenon
<1>1. I = {}
  OBVIOUS
<1>2. SelectInSeq(text, LAMBDA part : part[2] = ":") = 0
  BY <1>1 DEF SelectInSeq
<1> QED BY <1>2 DEF ReplaceColon

LEMMA ScannedAsIs ==
  ASSUME NEW text, EndsInSeconds(text), \A k \in 1..Len(text) : text[k][2] # ":"
  PROVE  ScanDuration(text) = ParseDuration(text)
<1>1. \A unit : ReplaceColon(text, unit) = text
  BY NoColon
<1>2. WithSeconds(text) = text
  BY DEF WithSeconds
<1> QED BY ONLY <1>1, <1>2 DEF ScanDuration

\* A part of a unit that AddPart knows.
PartIs(p, a, unit) == p \in UnitParts /\ p[1] = a /\ p[2] = unit

LEMMA PartOf ==
  ASSUME NEW a \in Nat
  PROVE  /\ PartIs(<<a, "h">>, a, "h") /\ PartIs(<<a, "m">>, a, "m")
         /\ PartIs(<<a, "s">>, a, "s") /\ PartIs(<<a, "ms">>, a, "ms")
<1>1. ASSUME NEW u \in UnitNames
      PROVE  PartIs(<<a, u>>, a, u)
  BY DEF PartIs, UnitParts
<1>2. "h" \in UnitNames /\ "m" \in UnitNames /\ "s" \in UnitNames /\ "ms" \in UnitNames
  BY DEF UnitNames
<1> QED BY ONLY <1>1, <1>2

LEMMA AddHours ==
  ASSUME NEW d \in Nat, NEW a \in Nat, NEW x \in Nat, 3600 * a = x, NEW p, PartIs(p, a, "h")
  PROVE  AddPart(d, p) = d + x
<1> PICK q, r \in Nat : a = 1000 * q + r /\ r < 1000 /\ q = a \div 1000 /\ r = a % 1000
  BY ONLY Quotients, a \in Nat, SMT
<1>1. p[1] = a /\ p[2] = "h" /\ Units["h"] = 3600000
  BY UnitsAre, SMT DEF PartIs
<1>2. AddPart(d, p) = d + q * 3600000 + (r * 3600000) \div 1000
  BY ONLY <1>1, q = a \div 1000, r = a % 1000, SMT DEF AddPart
<1>3. (r * 3600000) \div 1000 = 3600 * r
  BY ONLY r \in Nat, SMT
<1> QED BY ONLY <1>2, <1>3, SMT, q \in Nat, r \in Nat, d \in Nat, a = 1000 * q + r, 3600 * a = x

LEMMA AddMinutes ==
  ASSUME NEW d \in Nat, NEW a \in Nat, NEW x \in Nat, 60 * a = x, NEW p, PartIs(p, a, "m")
  PROVE  AddPart(d, p) = d + x
<1> PICK q, r \in Nat : a = 1000 * q + r /\ r < 1000 /\ q = a \div 1000 /\ r = a % 1000
  BY ONLY Quotients, a \in Nat, SMT
<1>1. p[1] = a /\ p[2] = "m" /\ Units["m"] = 60000
  BY UnitsAre, SMT DEF PartIs
<1>2. AddPart(d, p) = d + q * 60000 + (r * 60000) \div 1000
  BY ONLY <1>1, q = a \div 1000, r = a % 1000, SMT DEF AddPart
<1>3. (r * 60000) \div 1000 = 60 * r
  BY ONLY r \in Nat, SMT
<1> QED BY ONLY <1>2, <1>3, SMT, q \in Nat, r \in Nat, d \in Nat, a = 1000 * q + r, 60 * a = x

LEMMA AddSeconds ==
  ASSUME NEW d \in Nat, NEW a \in Nat, NEW p, PartIs(p, a, "s")
  PROVE  AddPart(d, p) = d + a
<1> PICK q, r \in Nat : a = 1000 * q + r /\ r < 1000 /\ q = a \div 1000 /\ r = a % 1000
  BY ONLY Quotients, a \in Nat, SMT
<1>1. p[1] = a /\ p[2] = "s" /\ Units["s"] = 1000
  BY UnitsAre, SMT DEF PartIs
<1>2. AddPart(d, p) = d + q * 1000 + (r * 1000) \div 1000
  BY ONLY <1>1, q = a \div 1000, r = a % 1000, SMT DEF AddPart
<1>3. (r * 1000) \div 1000 = r
  BY ONLY r \in Nat, SMT
<1> QED BY ONLY <1>2, <1>3, SMT, q \in Nat, r \in Nat, d \in Nat, a = 1000 * q + r

LEMMA AddMilliseconds ==
  ASSUME NEW d \in Nat, NEW a \in Nat, NEW x \in Nat, 1000 * a = x, NEW p, PartIs(p, x, "ms")
  PROVE  AddPart(d, p) = d + a
<1>1. p[1] = x /\ p[2] = "ms" /\ Units["ms"] = 1
  BY UnitsAre, SMT DEF PartIs
<1>2. AddPart(d, p) = d + (x \div 1000) * 1 + ((x % 1000) * 1) \div 1000
  BY ONLY <1>1, SMT DEF AddPart
<1>3. x \div 1000 = a /\ x % 1000 = 0
  BY ONLY 1000 * a = x, a \in Nat, SMT
<1> QED BY ONLY <1>2, <1>3, d \in Nat, a \in Nat, SMT

\* What DurationText divides d into, and what it shows of each part.
Shown(d, h, m, r, x, y, a, b, c) ==
  /\ d \in Nat /\ h \in Nat /\ m \in Nat /\ r \in Nat /\ x \in Nat /\ y \in Nat
  /\ a \in Nat /\ b \in Nat /\ c \in Nat
  /\ d = x + y + r
  /\ ~(h > 0) => x = 0
  /\ ~(m > 0) => y = 0
  /\ 3600 * a = x /\ 60 * b = y /\ 1000 * d = c

PartsAre(a, b, c, r, H, M, S, X) ==
  PartIs(H, a, "h") /\ PartIs(M, b, "m") /\ PartIs(S, r, "s") /\ PartIs(X, c, "ms")

\* Any of the texts that DurationText may write is scanned back.
LEMMA ScanTexts ==
  ASSUME NEW d, NEW h, NEW m, NEW r, NEW x, NEW y, NEW a, NEW b, NEW c,
         Shown(d, h, m, r, x, y, a, b, c),
         NEW H, NEW M, NEW S, NEW X, PartsAre(a, b, c, r, H, M, S, X)
  PROVE  ScanDuration(IF d > 0 /\ d < 1000 THEN <<X>>
                      ELSE IF h > 0 THEN <<H, M, S>> ELSE IF m > 0 THEN <<M, S>> ELSE <<S>>)
           = Ok(d)
<1> /\ d \in Nat /\ h \in Nat /\ m \in Nat /\ r \in Nat /\ x \in Nat /\ y \in Nat
    /\ a \in Nat /\ b \in Nat /\ c \in Nat
    /\ d = x + y + r
    /\ ~(h > 0) => x = 0
    /\ ~(m > 0) => y = 0
    /\ 3600 * a = x /\ 60 * b = y /\ 1000 * d = c
  BY SMT DEF Shown
<1> PartIs(H, a, "h") /\ PartIs(M, b, "m") /\ PartIs(S, r, "s") /\ PartIs(X, c, "ms")
  BY ONLY PartsAre(a, b, c, r, H, M, S, X), Zenon DEF PartsAre
<1>1. H \in UnitParts /\ M \in UnitParts /\ S \in UnitParts /\ X \in UnitParts
  BY DEF PartIs
<1>2. H[2] # ":" /\ M[2] # ":" /\ S[2] # ":" /\ X[2] # ":" /\ S[2] = "s" /\ X[2] = "ms"
  BY DEF PartIs
<1>3. AddPart(0, X) = d
  <2>1. AddPart(0, X) = 0 + d
    BY ONLY AddMilliseconds, d \in Nat, c \in Nat, 1000 * d = c, PartIs(X, c, "ms"), SMT
  <2> QED BY <2>1
<1>4. \A n \in Nat : AddPart(n, S) = n + r /\ AddPart(n, M) = n + y /\ AddPart(n, H) = n + x
  <2>1. \A n \in Nat : AddPart(n, S) = n + r
    BY ONLY AddSeconds, r \in Nat, PartIs(S, r, "s"), SMT
  <2>2. \A n \in Nat : AddPart(n, M) = n + y
    BY ONLY AddMinutes, b \in Nat, y \in Nat, 60 * b = y, PartIs(M, b, "m"), SMT
  <2>3. \A n \in Nat : AddPart(n, H) = n + x
    BY ONLY AddHours, a \in Nat, x \in Nat, 3600 * a = x, PartIs(H, a, "h"), SMT
  <2> QED BY ONLY <2>1, <2>2, <2>3
<1>7. AddPart(AddPart(AddPart(0, H), M), S) = d
  <2>1. AddPart(0, H) = x /\ AddPart(x, M) = x + y /\ x + y \in Nat
    BY <1>4
  <2> QED BY <1>4, <2>1
<1>8. x = 0 => AddPart(AddPart(0, M), S) = d
  BY <1>4
<1>9. x = 0 /\ y = 0 => AddPart(0, S) = d
  BY <1>4
<1>11. ScanDuration(<<X>>) = Ok(d)
  <2>1. Len(<<X>>) = 1 /\ \A k \in 1..1 : <<X>>[k] = X
    OBVIOUS
  <2>2. EndsInSeconds(<<X>>) /\ \A k \in 1..Len(<<X>>) : <<X>>[k][2] # ":"
    BY ONLY <1>2, <2>1 DEF EndsInSeconds
  <2>3. ParseDuration(<<X>>) = Ok(d)
    BY ONLY <1>1, <1>3, ParseOne
  <2> QED BY ONLY <2>2, <2>3, ScannedAsIs
<1>12. ScanDuration(<<H, M, S>>) = Ok(d)
  <2>1. Len(<<H, M, S>>) = 3 /\ <<H, M, S>>[1] = H /\ <<H, M, S>>[2] = M /\ <<H, M, S>>[3] = S
    OBVIOUS
  <2>2. EndsInSeconds(<<H, M, S>>) /\ \A k \in 1..Len(<<H, M, S>>) : <<H, M, S>>[k][2] # ":"
    BY ONLY <1>2, <2>1 DEF EndsInSeconds
  <2>3. ParseDuration(<<H, M, S>>) = Ok(d)
    BY ONLY <1>1, <1>7, ParseThree
  <2> QED BY ONLY <2>2, <2>3, ScannedAsIs
<1>13. x = 0 => ScanDuration(<<M, S>>) = Ok(d)
  <2>1. Len(<<M, S>>) = 2 /\ <<M, S>>[1] = M /\ <<M, S>>[2] = S
    OBVIOUS
  <2>2. EndsInSeconds(<<M, S>>) /\ \A k \in 1..Len(<<M, S>>) : <<M, S>>[k][2] # ":"
    BY ONLY <1>2, <2>1 DEF EndsInSeconds
  <2>3. x = 0 => ParseDuration(<<M, S>>) = Ok(d)
    BY ONLY <1>1, <1>8, ParseTwo
  <2> QED BY ONLY <2>2, <2>3, ScannedAsIs
<1>14. x = 0 /\ y = 0 => ScanDuration(<<S>>) = Ok(d)
  <2>1. Len(<<S>>) = 1 /\ <<S>>[1] = S
    OBVIOUS
  <2>2. EndsInSeconds(<<S>>) /\ \A k \in 1..Len(<<S>>) : <<S>>[k][2] # ":"
    BY ONLY <1>2, <2>1 DEF EndsInSeconds
  <2>3. x = 0 /\ y = 0 => ParseDuration(<<S>>) = Ok(d)
    BY ONLY <1>1, <1>9, ParseOne
  <2> QED BY ONLY <2>2, <2>3, ScannedAsIs
<1> QED BY ONLY <1>11, <1>12, <1>13, <1>14, ~(h > 0) => x = 0, ~(m > 0) => y = 0

LEMMA ScanDurationText ==
  ASSUME NEW d \in Nat
  PROVE  ScanDuration(DurationText(d)) = Ok(d)
<1> PICK h : h = d \div 3600000
  BY SMT
<1> PICK m : m = (d % 3600000) \div 60000
  BY SMT
<1> PICK r : r = d % 60000
  BY SMT
<1>1. h \in Nat /\ m \in Nat /\ r \in Nat
  BY SMT
<1> PICK x, y \in Nat : x = 3600000 * h /\ y = 60000 * m
  BY ONLY <1>1, SMT
<1> PICK a, b, c \in Nat : a = 1000 * h /\ b = 1000 * m /\ c = 1000 * d
  BY ONLY <1>1, d \in Nat, SMT
<1>2. /\ d = x + y + r
      /\ ~(h > 0) => x = 0
      /\ ~(m > 0) => y = 0
  BY SMT
<1>3. 3600 * a = x /\ 60 * b = y /\ 1000 * d = c
  BY ONLY <1>1, x = 3600000 * h, y = 60000 * m, a = 1000 * h, b = 1000 * m, c = 1000 * d, SMT
<1>4. Units.h = 3600000 /\ Units.m = 60000 /\ Units.s = 1000
  BY SMT DEF Units
<1>5. DurationText(d) = IF d > 0 /\ d < 1000 THEN <<<<c, "ms">>>>
                        ELSE IF h > 0 THEN <<<<a, "h">>, <<b, "m">>, <<r, "s">>>>
                        ELSE IF m > 0 THEN <<<<b, "m">>, <<r, "s">>>> ELSE <<<<r, "s">>>>
  BY ONLY <1>4, h = d \div 3600000, m = (d % 3600000) \div 60000, r = d % 60000,
          a = 1000 * h, b = 1000 * m, c = 1000 * d, SMT DEF DurationText
<1>6. Shown(d, h, m, r, x, y, a, b, c)
  BY ONLY <1>1, <1>2, <1>3, d \in Nat, x \in Nat, y \in Nat, a \in Nat, b \in Nat, c \in Nat
     DEF Shown
<1> PICK H : H = <<a, "h">>
  BY ONLY Zenon
<1> PICK M : M = <<b, "m">>
  BY ONLY Zenon
<1> PICK S : S = <<r, "s">>
  BY ONLY Zenon
<1> PICK X : X = <<c, "ms">>
  BY ONLY Zenon
<1>7. PartsAre(a, b, c, r, H, M, S, X)
  <2>1. PartIs(<<a, "h">>, a, "h") /\ PartIs(<<b, "m">>, b, "m") /\ PartIs(<<r, "s">>, r, "s")
        /\ PartIs(<<c, "ms">>, c, "ms")
    BY ONLY <1>1, a \in Nat, b \in Nat, c \in Nat, PartOf, Zenon
  <2> QED BY ONLY <2>1, H = <<a, "h">>, M = <<b, "m">>, S = <<r, "s">>, X = <<c, "ms">>, Zenon
     DEF PartsAre
<1>8. ScanDuration(IF d > 0 /\ d < 1000 THEN <<X>>
                   ELSE IF h > 0 THEN <<H, M, S>> ELSE IF m > 0 THEN <<M, S>> ELSE <<S>>) = Ok(d)
  BY ONLY <1>6, <1>7, ScanTexts, ZenonT(30)
<1> QED BY ONLY <1>5, <1>8, H = <<a, "h">>, M = <<b, "m">>, S = <<r, "s">>, X = <<c, "ms">>

\* The first colon is replaced.
Colons(text) == {j \in 1..Len(text) : text[j][2] = ":"}

LEMMA FirstColon ==
  ASSUME NEW text, NEW unit, NEW k \in Nat \ {0}, Colons(text) # {}, Min(Colons(text)) = k
  PROVE  ReplaceColon(text, unit) = [text EXCEPT ![k] = <<text[k][1], unit>>]
<1>1. SelectInSeq(text, LAMBDA part : part[2] = ":") = k
  BY DEF SelectInSeq, Colons
<1> QED BY <1>1 DEF ReplaceColon

\* The colons of hh:mm:ss become units one by one.
LEMMA ScanThree ==
  ASSUME NEW P, NEW Q, NEW R, P[2] = ":", Q[2] = ":", R[2] = ""
  PROVE  ScanDuration(<<P, Q, R>>)
           = ParseDuration(<<<<P[1], "h">>, <<Q[1], "m">>, <<R[1], "s">>>>)
<1> PICK H : H = <<P[1], "h">>
  BY ONLY Zenon
<1> PICK M : M = <<Q[1], "m">>
  BY ONLY Zenon
<1> PICK S : S = <<R[1], "s">>
  BY ONLY Zenon
<1>0. H[2] # ":" /\ M[2] # ":"
  <2>1. H[2] = "h"
    BY ONLY H = <<P[1], "h">>
  <2>2. M[2] = "m"
    BY ONLY M = <<Q[1], "m">>
  <2> QED BY ONLY <2>1, <2>2
<1>1. ASSUME NEW A, NEW B, NEW C
      PROVE  /\ Len(<<A, B, C>>) = 3
             /\ <<A, B, C>>[1] = A /\ <<A, B, C>>[2] = B /\ <<A, B, C>>[3] = C
             /\ \A D : [<<A, B, C>> EXCEPT ![1] = D] = <<D, B, C>>
             /\ \A D : [<<A, B, C>> EXCEPT ![2] = D] = <<A, D, C>>
             /\ \A D : [<<A, B, C>> EXCEPT ![3] = D] = <<A, B, D>>
  BY ONLY SMT
<1>2. Min({1, 2}) = 1 /\ Min({2}) = 2
  <2>1. {1, 2} \in SUBSET Nat /\ {2} \in SUBSET Nat
    BY ONLY SMT
  <2> QED BY ONLY <2>1 DEF Min
<1>3. "" # ":" /\ "" \notin {"s", "ms"}
  BY ZenonT(30)
<1>5. ReplaceColon(<<P, Q, R>>, "h") = <<H, Q, R>>
  <2>1. Colons(<<P, Q, R>>) = {1, 2}
    <3>1. <<P, Q, R>>[1][2] = ":" /\ <<P, Q, R>>[2][2] = ":" /\ <<P, Q, R>>[3][2] # ":"
      BY ZenonT(30), <1>1, <1>3
    <3>2. 1..3 = {1, 2, 3}
      BY ONLY SMT
    <3> QED BY ONLY <1>1, <3>1, <3>2 DEF Colons
  <2>3. Colons(<<P, Q, R>>) # {} /\ Min(Colons(<<P, Q, R>>)) = 1 /\ 1 \in Nat \ {0}
    BY ONLY <1>2, <2>1
  <2>2. ReplaceColon(<<P, Q, R>>, "h") = [<<P, Q, R>> EXCEPT ![1] = <<<<P, Q, R>>[1][1], "h">>]
    BY ONLY <2>3, FirstColon, Zenon
  <2> QED BY ONLY <1>1, <2>2, H = <<P[1], "h">>
<1>6. ReplaceColon(<<H, Q, R>>, "m") = <<H, M, R>>
  <2>1. Colons(<<H, Q, R>>) = {2}
    <3>1. <<H, Q, R>>[1][2] # ":" /\ <<H, Q, R>>[2][2] = ":" /\ <<H, Q, R>>[3][2] # ":"
      BY ZenonT(30), <1>0, <1>1, <1>3
    <3>2. 1..3 = {1, 2, 3}
      BY ONLY SMT
    <3> QED BY ONLY <1>1, <3>1, <3>2 DEF Colons
  <2>3. Colons(<<H, Q, R>>) # {} /\ Min(Colons(<<H, Q, R>>)) = 2 /\ 2 \in Nat \ {0}
    BY ONLY <1>2, <2>1
  <2>2. ReplaceColon(<<H, Q, R>>, "m") = [<<H, Q, R>> EXCEPT ![2] = <<<<H, Q, R>>[2][1], "m">>]
    BY ONLY <2>3, FirstColon, Zenon
  <2> QED BY ONLY <1>1, <2>2, M = <<Q[1], "m">>
<1>7. WithSeconds(<<H, M, R>>) = <<H, M, S>>
  <2>1. Len(<<H, M, R>>) = 3 /\ <<H, M, R>>[3] = R
    BY ZenonT(30), <1>1
  <2>2. ~EndsInSeconds(<<H, M, R>>)
    BY ZenonT(30), <1>3, <2>1 DEF EndsInSeconds
  <2>3. AppendS("") = "s"
    BY ZenonT(30) DEF AppendS
  <2>4. WithSeconds(<<H, M, R>>) = [<<H, M, R>> EXCEPT ![3] = <<R[1], AppendS(R[2])>>]
    BY ONLY <2>1, <2>2 DEF WithSeconds
  <2>5. S = <<R[1], AppendS(R[2])>>
    BY ONLY ZenonT(30), <2>3, R[2] = "", S = <<R[1], "s">>
  <2>6. [<<H, M, R>> EXCEPT ![3] = S] = <<H, M, S>>
    BY ONLY <1>1
  <2> QED BY ONLY <2>4, <2>5, <2>6
<1>8. ScanDuration(<<P, Q, R>>) = ParseDuration(<<H, M, S>>)
  BY ONLY <1>5, <1>6, <1>7 DEF ScanDuration
<1> QED BY ONLY <1>8, H = <<P[1], "h">>, M = <<Q[1], "m">>, S = <<R[1], "s">>

\* hh:mm:ss
LEMMA ScanClock ==
  ASSUME NEW text, text \in Seq(Nat \X STRING), Clock(text)
  PROVE  ScanDuration(text) = Ok(3600 * text[1][1] + 60 * text[2][1] + text[3][1])
<1> PICK n \in Nat : n = Len(text)
  OBVIOUS
<1>0. DOMAIN text = 1..n
  OBVIOUS
<1>1. n = 3 /\ text[1][2] = ":" /\ text[2][2] = ":" /\ text[3][2] = ""
  <2>1. [k \in 1..n |-> text[k][2]] = <<":", ":", "">>
    BY ZenonT(30), <1>0 DEF Clock
  <2>2. 1..n = 1..3
    <3>1. DOMAIN [k \in 1..n |-> text[k][2]] = 1..n
      OBVIOUS
    <3>2. DOMAIN <<":", ":", "">> = 1..3
      OBVIOUS
    <3> QED BY ONLY ZenonT(30), <2>1, <3>1, <3>2
  <2>3. n = 3
    BY ONLY <2>2, n \in Nat
  <2>4. \A k \in 1..3 : text[k][2] = <<":", ":", "">>[k]
    BY ONLY ZenonT(30), <2>1, <2>3
  <2>5. 1 \in 1..3 /\ 2 \in 1..3 /\ 3 \in 1..3
    BY ONLY SMT
  <2>6. <<":", ":", "">>[1] = ":" /\ <<":", ":", "">>[2] = ":" /\ <<":", ":", "">>[3] = ""
    BY ONLY SMT
  <2> QED BY ONLY ZenonT(30), <2>3, <2>4, <2>5, <2>6
<1> PICK T : T = Nat \X STRING
  BY ONLY Zenon
<1>2. text \in Seq(T) /\ Len(text) = 3
  BY ZenonT(30), <1>1
<1>12. text[1] \in T /\ text[2] \in T /\ text[3] \in T
  BY ONLY SMTT(30), <1>2
<1> PICK a \in Nat : a = text[1][1]
  BY ONLY <1>12, T = Nat \X STRING
<1> PICK b \in Nat : b = text[2][1]
  BY ONLY <1>12, T = Nat \X STRING
<1> PICK c \in Nat : c = text[3][1]
  BY ONLY <1>12, T = Nat \X STRING
<1> PICK H : H = <<a, "h">>
  BY ONLY Zenon
<1> PICK M : M = <<b, "m">>
  BY ONLY Zenon
<1> PICK S : S = <<c, "s">>
  BY ONLY Zenon
<1>3. PartIs(H, a, "h") /\ PartIs(M, b, "m") /\ PartIs(S, c, "s")
  <2>1. PartIs(<<a, "h">>, a, "h") /\ PartIs(<<b, "m">>, b, "m") /\ PartIs(<<c, "s">>, c, "s")
    BY PartOf
  <2> QED BY <2>1
<1> PICK P : P = text[1]
  BY ONLY Zenon
<1> PICK Q : Q = text[2]
  BY ONLY Zenon
<1> PICK R : R = text[3]
  BY ONLY Zenon
<1>4. P[2] = ":" /\ Q[2] = ":" /\ R[2] = "" /\ P[1] = a /\ Q[1] = b /\ R[1] = c
  BY ONLY ZenonT(30), <1>1, P = text[1], Q = text[2], R = text[3], a = text[1][1], b = text[2][1],
          c = text[3][1]
<1>5. text = <<P, Q, R>>
  BY ONLY <1>2, P = text[1], Q = text[2], R = text[3]
<1>6. H = <<P[1], "h">> /\ M = <<Q[1], "m">> /\ S = <<R[1], "s">>
  BY ONLY ZenonT(30), <1>4, H = <<a, "h">>, M = <<b, "m">>, S = <<c, "s">>
<1>8. ScanDuration(<<P, Q, R>>) = ParseDuration(<<H, M, S>>)
  <2>1. ScanDuration(<<P, Q, R>>)
           = ParseDuration(<<<<P[1], "h">>, <<Q[1], "m">>, <<R[1], "s">>>>)
    BY ONLY ZenonT(30), <1>4, ScanThree
  <2> QED BY ONLY <2>1, <1>6
<1>9. ParseDuration(<<H, M, S>>) = Ok(AddPart(AddPart(AddPart(0, H), M), S))
  BY ONLY <1>3, ParseThree DEF PartIs
<1>10. AddPart(AddPart(AddPart(0, H), M), S) = 3600 * a + 60 * b + c
  <2> PICK x, y \in Nat : x = 3600 * a /\ y = 60 * b
    BY SMTT(30)
  <2>1. \A z \in Nat : AddPart(z, H) = z + x /\ AddPart(z, M) = z + y /\ AddPart(z, S) = z + c
    <3>1. \A z \in Nat : AddPart(z, S) = z + c
      BY ONLY AddSeconds, <1>3, c \in Nat, SMT
    <3>2. \A z \in Nat : AddPart(z, M) = z + y
      BY ONLY AddMinutes, <1>3, b \in Nat, y \in Nat, y = 60 * b, SMT
    <3>3. \A z \in Nat : AddPart(z, H) = z + x
      BY ONLY AddHours, <1>3, a \in Nat, x \in Nat, x = 3600 * a, SMT
    <3> QED BY ONLY <3>1, <3>2, <3>3
  <2>2. AddPart(0, H) = x /\ x + y \in Nat
    BY ONLY <2>1, x \in Nat, y \in Nat
  <2>3. AddPart(AddPart(AddPart(0, H), M), S) = x + y + c
    BY ONLY <2>1, <2>2, x \in Nat, y \in Nat
  <2> QED BY <2>3
<1> QED BY ONLY <1>5, <1>8, <1>9, <1>10, a = text[1][1], b = text[2][1], c = text[3][1]

\* What is a duration already is scanned as another one only if it ends in
\* minutes or hours.
LEMMA ScanParsed ==
  ASSUME NEW text \in Seq(Nat \X STRING), ParseDuration(text).ok,
         ScanDuration(text) # ParseDuration(text)
  PROVE  Last(text)[2] \in {"m", "h"}
<1>1. text # <<>> /\ \A k \in DOMAIN text : text[k][2] \in UnitNames
  BY UnitsAre DEF ParseDuration, Ok, Error
<1>2. Len(text) \in 1..Len(text) /\ DOMAIN text = 1..Len(text)
  BY <1>1
<1>3. \A k \in 1..Len(text) : text[k][2] # ":"
  BY ONLY <1>1, <1>2 DEF UnitNames
<1>4. ~EndsInSeconds(text)
  BY <1>3, ScannedAsIs
<1>5. text[Len(text)][2] \in UnitNames
  BY ONLY <1>1, <1>2
<1> QED BY ONLY <1>4, <1>5 DEF EndsInSeconds, UnitNames, Last

LEMMA ScanNoPanic ==
  ASSUME NEW text
  PROVE  ScanDuration(text) # Panic
<1>1. \A x : DOMAIN ParseDuration(x) = {"ok", "value"}
  BY DEF ParseDuration, Ok, Error
<1>2. DOMAIN Panic = {"ok"}
  BY DEF Panic
<1> QED BY <1>1, <1>2 DEF ScanDuration

LEMMA RecordUnmarshalled ==
  ASSUME NEW d \in Nat, NEW quotes, NEW json, json = [MarshalDuration(d) EXCEPT !.quotes = quotes]
  PROVE  UnmarshalDuration(json) = Ok(d)
<1>1. json.text = DurationText(d)
  BY DEF MarshalDuration
<1> QED BY <1>1, ScanDurationText DEF UnmarshalDuration

LEMMA TimeKept ==
  ASSUME NEW at \in TimeType
  PROVE  /\ UnmarshalTime(ZeroTime, TimeText(at)) = Ok(InSeconds(at))
         /\ UnmarshalTime(ZeroTime, MarshalTime(at)) = Ok(InSeconds(at))
<1> PICK z : z = InSeconds(at)
  OBVIOUS
<1> PICK p : p = TimeText(at)
  OBVIOUS
<1> PICK q : q = MarshalTime(at)
  OBVIOUS
<1>1. p = [form |-> "T", quoted |-> FALSE, time |-> z]
  BY DEF TimeText
<1>2. q = [p EXCEPT !.quoted = TRUE]
  BY DEF MarshalTime
<1>3. p.form = "T" /\ ~p.quoted /\ p.time = z
  BY ONLY <1>1
<1>4. q.form = "T" /\ q.quoted /\ q.time = z
  BY ONLY <1>1, <1>2
<1>5. UnmarshalTime(ZeroTime, p) = Ok(z)
  BY ONLY <1>3 DEF UnmarshalTime
<1>6. UnmarshalTime(ZeroTime, q) = Ok(z)
  BY ONLY <1>4 DEF UnmarshalTime
<1> QED BY ONLY <1>5, <1>6, z = InSeconds(at), p = TimeText(at), q = MarshalTime(at)

LEMMA RefusedKept ==
  ASSUME NEW old, NEW text, NEW read, read = UnmarshalTime(old, text)
  PROVE  read.ok \/ read.value \in {old, ZeroTime}
<1>1. \A x : Ok(x).ok /\ Error(x).value = x
  BY DEF Ok, Error
<1>2. (\E x : read = Ok(x)) \/ read = Error(ZeroTime) \/ read = Error(old)
  BY Zenon DEF UnmarshalTime
<1> QED BY <1>1, <1>2

LEMMA ScanExactly ==
  ASSUME NEW text, text \in Seq(Nat \X STRING), NEW got,
         got = IF ScanPanics(text) THEN Panic ELSE ScanDuration(text)
  PROVE  /\ got = Panic <=> text = <<>>
         /\ text # <<>> /\ Clock(text) =>
              got = Ok(3600 * text[1][1] + 60 * text[2][1] + text[3][1])
         /\ ParseDuration(text).ok /\ got # ParseDuration(text) => Last(text)[2] \in {"m", "h"}
<1>1. got = Panic <=> text = <<>>
  BY ONLY ScanNoPanic, got = IF ScanPanics(text) THEN Panic ELSE ScanDuration(text)
     DEF ScanPanics
<1>2. text # <<>> => got = ScanDuration(text)
  BY ONLY got = IF ScanPanics(text) THEN Panic ELSE ScanDuration(text) DEF ScanPanics
<1>3. text # <<>> /\ Clock(text) => got = Ok(3600 * text[1][1] + 60 * text[2][1] + text[3][1])
  BY ONLY <1>2, ScanClock, text \in Seq(Nat \X STRING)
<1>4. text = <<>> => ~ParseDuration(text).ok
  BY ONLY SMT DEF ParseDuration, Error
<1>5. ParseDuration(text).ok /\ got # ParseDuration(text) => Last(text)[2] \in {"m", "h"}
  BY ONLY <1>2, <1>4, ScanParsed, text \in Seq(Nat \X STRING)
<1> QED BY ONLY <1>1, <1>3, <1>5

LEMMA TimesStep ==
  ASSUME TimesExact, ConversionsNext
  PROVE  TimesExact'
<1>1. CASE UNCHANGED convVars
  BY <1>1 DEF TimesExact, convVars
<1>2. CASE call' \in Others
  BY <1>2 DEF TimesExact, Others
<1>3. ASSUME NEW d \in Durations, call' = "Duration.Value", args' = <<d>>, answer' = DurationText(d)
      PROVE  TimesExact'
  <2>1. d \in Nat
    BY TimesAssumption DEF TimesAssumption
  <2>2. ScanDuration(answer') = Ok(args'[1])
    BY ONLY <1>3, <2>1, ScanDurationText
  <2> QED BY ONLY <1>3, <2>2 DEF TimesExact
<1>4. ASSUME NEW d \in Durations, call' = "Duration.MarshalJSON", args' = <<d>>,
             answer' = MarshalDuration(d)
      PROVE  TimesExact'
  <2>1. d \in Nat
    BY TimesAssumption DEF TimesAssumption
  <2>2. \A quotes : UnmarshalDuration([answer' EXCEPT !.quotes = quotes]) = Ok(args'[1])
    BY ONLY <1>4, <2>1, RecordUnmarshalled
  <2> QED BY ONLY <1>4, <2>2 DEF TimesExact
<1>5. ASSUME NEW text \in DurationTexts, call' = "Duration.Scan", args' = <<text>>,
             answer' = IF ScanPanics(text) THEN Panic ELSE ScanDuration(text)
      PROVE  TimesExact'
  <2>1. text \in Seq(Nat \X STRING)
    BY TimesAssumption DEF TimesAssumption
  <2> PICK got : got = answer'
    BY ONLY Zenon
  <2>2. args'[1] = text
    BY ONLY <1>5
  <2>3. /\ got = Panic <=> text = <<>>
        /\ text # <<>> /\ Clock(text) =>
             got = Ok(3600 * text[1][1] + 60 * text[2][1] + text[3][1])
        /\ ParseDuration(text).ok /\ got # ParseDuration(text) => Last(text)[2] \in {"m", "h"}
    BY ONLY <1>5, <2>1, ScanExactly, got = answer'
  <2> QED BY ONLY <1>5, <2>2, <2>3, got = answer' DEF TimesExact
<1>6. CASE DurationCalls
  <2>1. CASE call' = "Duration.UnmarshalJSON"
    BY <2>1 DEF TimesExact
  <2> QED BY <1>3, <1>4, <1>5, <1>6, <2>1 DEF DurationCalls
<1>7. ASSUME NEW at \in Instants, args' = <<at>>,
             \/ call' = "TimeZ.String" /\ answer' = TimeText(at)
             \/ call' = "TimeZ.MarshalJSON" /\ answer' = MarshalTime(at)
      PROVE  TimesExact'
  <2>1. at \in TimeType
    BY TimesAssumption DEF TimesAssumption
  <2>2. UnmarshalTime(ZeroTime, answer') = Ok(InSeconds(args'[1]))
    BY ONLY <1>7, <2>1, TimeKept
  <2> QED BY ONLY <1>7, <2>2 DEF TimesExact
<1>8. ASSUME NEW old \in Instants, NEW text \in TimeTexts, call' = "TimeZ.UnmarshalJSON",
             args' = <<old, text>>, answer' = UnmarshalTime(old, text)
      PROVE  TimesExact'
  <2>1. answer'.ok \/ answer'.value \in {args'[1], ZeroTime}
    BY ONLY <1>8, RefusedKept
  <2> QED BY ONLY <1>8, <2>1 DEF TimesExact
<1>9. CASE TimeCalls
  <2>1. CASE call' = "TimeZ.Value"
    BY <2>1 DEF TimesExact
  <2> QED BY <1>7, <1>8, <1>9, <2>1 DEF TimeCalls
<1>10. CASE RecurrenceCalls
  <2>1. call' \in {"RRuleSet.Value", "RRuleSet", "RRuleSet.Scan"}
    BY <1>10 DEF RecurrenceCalls
  <2> QED BY <2>1 DEF TimesExact
<1>11. CASE RangeCalls
  <2>1. call' \in {"RangeList.String", "RangeList.StringHTTP", "RangeList.UnmarshalText",
                   "ParseContentRange"}
    BY <1>11 DEF RangeCalls
  <2> QED BY <2>1 DEF TimesExact
<1> QED BY <1>1, <1>2, <1>6, <1>9, <1>10, <1>11, StepCases

\* Every duration that is written for the database or as JSON is scanned back,
\* hh:mm:ss is scanned for what it is and other texts for what
\* time.ParseDuration reads unless they end in minutes or hours, and every time
\* is read back in its zone to the second, for any durations, texts and times.
THEOREM TimesIsExact == ConversionsSpec => []TimesExact
<1>1. ConversionsInit => TimesExact
  BY DEF ConversionsInit, TimesExact
<1>2. TimesExact /\ [ConversionsNext]_<<docVars, convVars>> => TimesExact'
  <2> SUFFICES ASSUME TimesExact, [ConversionsNext]_<<docVars, convVars>>
               PROVE  TimesExact'
    OBVIOUS
  <2>1. CASE ConversionsNext
    BY <2>1, TimesStep
  <2>2. CASE UNCHANGED <<docVars, convVars>>
    BY <2>2 DEF TimesExact, convVars
  <2> QED BY <2>1, <2>2
<1> QED BY <1>1, <1>2, PTL DEF ConversionsSpec

-----------------------------------------------------------------------------
(* Documents: the values of a field in a list of items *)

\* Lists of n items whatever their fields.
ItemsList(items, n) == DOMAIN items = 1..n /\ \A k \in 1..n : items[k].value \in Nat

Added(ty, f, vs, item) == IF Fills(ty, f, item) THEN Append(vs, item.value) ELSE vs

\* h has the values of the first k items.
Collecting(ty, f, h, n, items) ==
  /\ h[0] = <<>>
  /\ \A k \in 0..n : h[k] \in Seq(Nat)
  /\ \A k \in 1..n : k - 1 \in 0..n /\ h[k] = Added(ty, f, h[k - 1], items[k])

LEMMA ValuesSteps ==
  ASSUME NEW ty, NEW f, NEW items, NEW n \in Nat, ItemsList(items, n)
  PROVE  \E h : Collecting(ty, f, h, n, items) /\ Values(ty, f, items) = h[n]
<1>2. DOMAIN items = 1..n /\ \A k \in 1..n : items[k].value \in Nat
  BY DEF ItemsList
<1> DEFINE Joins(g) == g = [s \in SUBSET DOMAIN items |->
                              IF s = {} THEN <<>>
                              ELSE Added(ty, f, g[s \ {Max(s)}], items[Max(s)])]
<1> PICK it : it = CHOOSE g : Joins(g)
  OBVIOUS
<1>1. Values(ty, f, items) = it[DOMAIN items]
  BY DEF Values, FoldLeft, MapThenFoldSet, Added
<1>3. \A g : Joins(g) <=> g = [s \in SUBSET (1..n) |->
                              IF s = {} THEN <<>>
                              ELSE Added(ty, f, g[s \ {Max(s)}], items[Max(s)])]
  BY <1>2
<1> HIDE DEF Joins
<1>6. ASSUME NEW k \in 1..n, NEW a \in Seq(Nat)
      PROVE  Added(ty, f, a, items[k]) \in Seq(Nat)
  BY <1>2 DEF Added
<1>7. \E g : Joins(g)
  <2> PICK A : A = Seq(Nat)
    OBVIOUS
  <2> PICK Step : Step = [p \in (1..n) \X A |-> Added(ty, f, p[2], items[p[1]])]
    OBVIOUS
  <2>1. \A k \in 1..n, a \in A :
           Step[<<k, a>>] = Added(ty, f, a, items[k]) /\ Step[<<k, a>>] \in A
    BY <1>6
  <2>2. <<>> \in A
    OBVIOUS
  <2>3. PICK g \in [SUBSET (1..n) -> A] : FoldsLeft(g, n, <<>>, Step)
    BY ONLY n \in Nat, <2>1, <2>2, LeftSolves
  <2>4. ASSUME NEW s \in SUBSET (1..n)
        PROVE  g[s] = IF s = {} THEN <<>> ELSE Added(ty, f, g[s \ {Max(s)}], items[Max(s)])
    BY ONLY <2>1, <2>3, <2>4 DEF FoldsLeft
  <2>5. g = [s \in SUBSET (1..n) |-> IF s = {} THEN <<>>
                      ELSE Added(ty, f, g[s \ {Max(s)}], items[Max(s)])]
    BY ONLY <2>3, <2>4
  <2> QED BY <1>3, <2>5
<1>8. it = [s \in SUBSET (1..n) |-> IF s = {} THEN <<>>
                      ELSE Added(ty, f, it[s \ {Max(s)}], items[Max(s)])]
  BY <1>3, <1>7
<1> PICK h : h = [k \in 0..n |-> it[1..k]]
  OBVIOUS
<1>9. h[0] = <<>>
  <2>1. 1..0 = {} /\ {} \in SUBSET (1..n) /\ 0 \in 0..n
    OBVIOUS
  <2> QED BY ONLY <1>8, <2>1, h = [k \in 0..n |-> it[1..k]]
<1>10. ASSUME NEW k \in 1..n
       PROVE  k \in 0..n /\ k - 1 \in 0..n /\ h[k] = Added(ty, f, h[k - 1], items[k])
  <2>1. k \in 0..n /\ k - 1 \in 0..n /\ 1..k \in SUBSET (1..n)
    OBVIOUS
  <2>2. Max(1..k) = k /\ (1..k) \ {k} = 1..(k - 1) /\ 1..k # {}
    BY ONLY n \in Nat, k \in 1..n, MaxPosition
  <2>3. it[1..k] = Added(ty, f, it[1..(k - 1)], items[k])
    BY ONLY <1>8, <2>1, <2>2
  <2> QED BY ONLY <2>1, <2>3, h = [j \in 0..n |-> it[1..j]]
<1>11. \A k \in 0..n : h[k] \in Seq(Nat)
  <2> PICK P : P = {k \in 0..n : h[k] \in Seq(Nat)}
    OBVIOUS
  <2>1. 0 \in P
    <3>1. 0 \in 0..n /\ <<>> \in Seq(Nat)
      OBVIOUS
    <3> QED BY ONLY <1>9, <3>1, P = {k \in 0..n : h[k] \in Seq(Nat)}
  <2>2. \A k \in 1..n : k - 1 \in P => k \in P
    BY ONLY <1>6, <1>10, P = {k \in 0..n : h[k] \in Seq(Nat)}
  <2>3. \A k \in 0..n : k \in P
    BY ONLY n \in Nat, <2>1, <2>2, Upwards
  <2> QED BY ONLY <2>3, P = {k \in 0..n : h[k] \in Seq(Nat)}
<1>12. Values(ty, f, items) = h[n]
  BY ONLY <1>1, <1>2, n \in Nat, h = [k \in 0..n |-> it[1..k]]
<1>13. Collecting(ty, f, h, n, items)
  BY ONLY <1>9, <1>10, <1>11 DEF Collecting
<1> QED BY ONLY <1>12, <1>13

LEMMA ValuesTyped ==
  ASSUME NEW ty, NEW f, NEW T, NEW items \in Seq(T), \A i \in T : i.value \in Nat
  PROVE  Values(ty, f, items) \in Seq(Nat)
<1> PICK n \in Nat : n = Len(items)
  OBVIOUS
<1>1. ItemsList(items, n)
  BY DEF ItemsList
<1>2. PICK h : Collecting(ty, f, h, n, items) /\ Values(ty, f, items) = h[n]
  BY ONLY <1>1, n \in Nat, ValuesSteps
<1> QED BY ONLY <1>2, n \in Nat DEF Collecting

LEMMA ValuesEmpty ==
  ASSUME NEW ty, NEW f
  PROVE  Values(ty, f, <<>>) = <<>>
<1>0. ItemsList(<<>>, 0)
  BY DEF ItemsList
<1>1. PICK h : Collecting(ty, f, h, 0, <<>>) /\ Values(ty, f, <<>>) = h[0]
  BY <1>0, ValuesSteps
<1> QED BY ONLY <1>1 DEF Collecting

LEMMA ValuesAppend ==
  ASSUME NEW ty, NEW f, NEW T, NEW items \in Seq(T), NEW item \in T,
         \A i \in T : i.value \in Nat
  PROVE  /\ Values(ty, f, items) \in Seq(Nat)
         /\ Values(ty, f, Append(items, item)) = Added(ty, f, Values(ty, f, items), item)
<1> PICK n \in Nat : n = Len(items)
  OBVIOUS
<1> PICK more : more = Append(items, item)
  OBVIOUS
<1>1. ItemsList(items, n)
  BY DEF ItemsList
<1> PICK m \in Nat : m = n + 1
  OBVIOUS
<1>2. /\ DOMAIN more = 1..m
      /\ \A k \in 1..n : more[k] = items[k]
      /\ more[m] = item
  OBVIOUS
<1>3. ItemsList(more, m)
  BY <1>1, <1>2 DEF ItemsList
<1>4. PICK h : Collecting(ty, f, h, n, items) /\ Values(ty, f, items) = h[n]
  BY ONLY <1>1, n \in Nat, ValuesSteps
<1>5. PICK g : Collecting(ty, f, g, m, more) /\ Values(ty, f, more) = g[m]
  BY ONLY <1>2, <1>3, m \in Nat, ValuesSteps
<1>6. \A k \in 0..n : g[k] = h[k]
  <2> PICK P : P = {k \in 0..n : g[k] = h[k]}
    OBVIOUS
  <2>1. 0 \in P
    BY ONLY n \in Nat, <1>4, <1>5, P = {k \in 0..n : g[k] = h[k]} DEF Collecting
  <2>2. ASSUME NEW k \in 1..n, k - 1 \in P
        PROVE  k \in P
    <3>1. k \in 0..n /\ k \in 1..m /\ g[k - 1] = h[k - 1] /\ more[k] = items[k]
      BY <1>2, <2>2
    <3> QED BY ONLY <1>4, <1>5, <3>1, k \in 1..n, P = {j \in 0..n : g[j] = h[j]} DEF Collecting
  <2>3. \A k \in 0..n : k \in P
    BY ONLY n \in Nat, <2>1, <2>2, Upwards
  <2> QED BY ONLY <2>3, P = {k \in 0..n : g[k] = h[k]}
<1>7. g[m] = Added(ty, f, h[n], item)
  <2>1. m \in 1..m /\ m - 1 = n /\ n \in 0..n
    OBVIOUS
  <2> QED BY ONLY <1>2, <1>5, <1>6, <2>1 DEF Collecting
<1>8. h[n] \in Seq(Nat)
  BY ONLY <1>4, n \in Nat DEF Collecting
<1> QED BY ONLY <1>4, <1>5, <1>7, <1>8, more = Append(items, item)

-----------------------------------------------------------------------------
(* The states of decoding, and what reading an item changes in them *)

ItemType(ty) ==
  [field : Bound(ty) \cup ty.text \cup ty.hidden \cup {Unknown}, value : Nat, good : BOOLEAN]

ValueType(ty) == [FieldsOf(ty) -> Seq(Nat)]

OverType(ty) == [ty.aliased \cup ty.copied -> [shared : BOOLEAN, own : Seq(Nat)]]

StateType(ty) ==
  [val : ValueType(ty), over : OverType(ty), text : Seq(ItemType(ty)), ok : BOOLEAN]

LEMMA ItemValues ==
  ASSUME NEW ty
  PROVE  \A i \in ItemType(ty) : i.value \in Nat /\ i.good \in BOOLEAN
BY DEF ItemType

LEMMA AppendJoined ==
  ASSUME NEW T, NEW a \in Seq(T), NEW b \in Seq(T), NEW v \in T
  PROVE  a \o Append(b, v) = Append(a \o b, v)
<1> PICK c : c = <<v>>
  OBVIOUS
<1> PICK ab : ab = a \o b
  OBVIOUS
<1>1. c \in Seq(T) /\ ab \in Seq(T)
  OBVIOUS
<1>2. Append(b, v) = b \o c
  BY ONLY b \in Seq(T), v \in T, c = <<v>>, AppendIsConcat
<1>3. Append(ab, v) = ab \o c
  BY ONLY <1>1, v \in T, c = <<v>>, AppendIsConcat
<1>4. (a \o b) \o c = a \o (b \o c)
  BY ONLY SMTT(30), <1>1, a \in Seq(T), b \in Seq(T), ConcatAssociative
<1> QED BY ONLY <1>2, <1>3, <1>4, ab = a \o b

LEMMA NumbersJoined ==
  \A a, b \in Seq(Nat), v \in Nat : a \o Append(b, v) = Append(a \o b, v)
BY AppendJoined

\* One more item for the field, or for another one.
LEMMA ContentAppend ==
  ASSUME NEW ty, NEW f, NEW items \in Seq(ItemType(ty)), NEW item \in ItemType(ty),
         NEW old \in Seq(Nat)
  PROVE  /\ Values(ty, f, items) \in Seq(Nat)
         /\ ~Fills(ty, f, item) =>
              Values(ty, f, Append(items, item)) = Values(ty, f, items)
         /\ ~Fills(ty, f, item) =>
              Content(ty, f, Append(items, item), old) = Content(ty, f, items, old)
         /\ Fills(ty, f, item) /\ f \in ty.lists =>
              Content(ty, f, Append(items, item), old)
                = Append(Content(ty, f, items, old), item.value)
         /\ Fills(ty, f, item) /\ f \notin ty.lists =>
              Content(ty, f, Append(items, item), old) = <<item.value>>
         /\ Fills(ty, f, item) =>
              /\ Values(ty, f, Append(items, item)) # <<>>
              /\ Last(Values(ty, f, Append(items, item))) = item.value
<1> PICK T : T = ItemType(ty)
  OBVIOUS
<1>0. \A i \in T : i.value \in Nat
  BY ItemValues
<1>1. /\ Values(ty, f, items) \in Seq(Nat)
      /\ Values(ty, f, Append(items, item)) = Added(ty, f, Values(ty, f, items), item)
  BY ONLY <1>0, items \in Seq(ItemType(ty)), item \in ItemType(ty), T = ItemType(ty), ValuesAppend
<1> PICK vs \in Seq(Nat) : vs = Values(ty, f, items)
  BY <1>1
<1> PICK ws : ws = Values(ty, f, Append(items, item))
  OBVIOUS
<1> PICK v \in Nat : v = item.value
  BY <1>0
<1>2. ws = IF Fills(ty, f, item) THEN Append(vs, v) ELSE vs
  BY <1>1 DEF Added
<1>3. /\ Append(vs, v) # <<>> /\ Last(Append(vs, v)) = v
      /\ old \o Append(vs, v) = Append(old \o vs, v)
  <2>1. Append(vs, v) # <<>> /\ Last(Append(vs, v)) = v
    <3>1. Append(vs, v) # <<>>
      BY ONLY SMTT(30), vs \in Seq(Nat), v \in Nat
    <3>2. Last(Append(vs, v)) = v
      BY ONLY vs \in Seq(Nat), v \in Nat DEF Last
    <3> QED BY ONLY <3>1, <3>2
  <2>2. old \o Append(vs, v) = Append(old \o vs, v)
    BY ONLY old \in Seq(Nat), vs \in Seq(Nat), v \in Nat, NumbersJoined
  <2> QED BY ONLY <2>1, <2>2
<1>4. /\ Content(ty, f, items, old) = IF f \in ty.lists THEN old \o vs
                                     ELSE IF vs # <<>> THEN <<Last(vs)>>
                                     ELSE IF f \in ty.text THEN <<0>> ELSE old
      /\ Content(ty, f, Append(items, item), old) = IF f \in ty.lists THEN old \o ws
                                     ELSE IF ws # <<>> THEN <<Last(ws)>>
                                     ELSE IF f \in ty.text THEN <<0>> ELSE old
  BY ONLY vs = Values(ty, f, items), ws = Values(ty, f, Append(items, item)) DEF Content
<1>5. CASE Fills(ty, f, item)
  <2>1. ws = Append(vs, v)
    BY ONLY <1>2, <1>5
  <2> QED BY ONLY <1>1, <1>3, <1>4, <1>5, <2>1, vs = Values(ty, f, items), v = item.value,
                  ws = Values(ty, f, Append(items, item))
<1>6. CASE ~Fills(ty, f, item)
  <2>1. ws = vs
    BY ONLY <1>2, <1>6
  <2>2. Content(ty, f, Append(items, item), old) = Content(ty, f, items, old)
    BY ONLY <1>4, <2>1
  <2> QED BY ONLY ZenonT(30), <1>1, <1>6, <2>1, <2>2, vs = Values(ty, f, items), v = item.value,
                  ws = Values(ty, f, Append(items, item))
<1> QED BY ONLY <1>5, <1>6

LEMMA StoredTyped ==
  ASSUME NEW ty, NEW cur \in Seq(Nat), NEW item \in ItemType(ty)
  PROVE  Stored(ty, cur, item) \in Seq(Nat)
<1>1. item.value \in Nat /\ Cut \in Nat /\ 0 \in Nat
  BY ItemValues, DocumentsAssumption DEF Cut, DocumentsAssumption
<1> PICK v, c \in Nat : v = item.value /\ c = Cut
  BY <1>1
<1>2. <<v>> \in Seq(Nat) /\ <<c>> \in Seq(Nat) /\ <<0>> \in Seq(Nat) /\ Append(cur, v) \in Seq(Nat)
  OBVIOUS
<1>3. \/ Stored(ty, cur, item) = Append(cur, v) \/ Stored(ty, cur, item) = <<v>>
      \/ Stored(ty, cur, item) = <<0>> \/ Stored(ty, cur, item) = <<c>>
      \/ Stored(ty, cur, item) = cur
  BY ONLY v = item.value, c = Cut DEF Stored
<1> QED BY ONLY <1>2, <1>3, cur \in Seq(Nat)

LEMMA StateIs ==
  ASSUME NEW ty, NEW s \in StateType(ty)
  PROVE  /\ s = [val |-> s.val, over |-> s.over, text |-> s.text, ok |-> s.ok]
         /\ s.val \in ValueType(ty) /\ s.over \in OverType(ty)
         /\ s.text \in Seq(ItemType(ty)) /\ s.ok \in BOOLEAN
BY DEF StateType

\* The items that are read into a field of the value, or of the overlay.
LEMMA ReadBoundIs ==
  ASSUME NEW ty, NEW s \in StateType(ty), NEW item \in ItemType(ty),
         item.field \in FieldsOf(ty), NEW f, f = item.field, NEW r, r = ReadBound(ty, s, item)
  PROVE  /\ r \in StateType(ty) /\ r.text = s.text /\ r.ok = item.good
         /\ \A g \in ty.aliased \cup ty.copied : r.over[g].shared = s.over[g].shared
         /\ f \in ty.aliased \cup ty.copied /\ ~s.over[f].shared => r.val = s.val
         /\ ~(f \in ty.aliased \cup ty.copied /\ ~s.over[f].shared) =>
              r.val = [s.val EXCEPT ![f] = Stored(ty, s.val[f], item)]
<1> PICK good \in BOOLEAN : good = item.good
  BY ItemValues
<1> PICK val \in ValueType(ty) : val = s.val
  BY StateIs
<1> PICK over \in OverType(ty) : over = s.over
  BY StateIs
<1> PICK text \in Seq(ItemType(ty)) : text = s.text
  BY StateIs
<1> PICK D : D = ty.aliased \cup ty.copied
  OBVIOUS
<1> PICK ok : ok = s.ok
  OBVIOUS
<1>1. s = [val |-> val, over |-> over, text |-> text, ok |-> ok]
  BY StateIs
<1>2. DOMAIN over = D /\ \A g \in D : over[g] \in [shared : BOOLEAN, own : Seq(Nat)]
  BY DEF OverType
<1>3. CASE f \in D /\ ~over[f].shared
  <2> PICK own \in Seq(Nat) : own = Stored(ty, over[f].own, item)
    BY <1>2, <1>3, StoredTyped
  <2> PICK p : p = [shared |-> over[f].shared, own |-> own]
    OBVIOUS
  <2> PICK o : o = [over EXCEPT ![f] = p]
    OBVIOUS
  <2>5. /\ over[f] = [shared |-> over[f].shared, own |-> over[f].own]
        /\ p \in [shared : BOOLEAN, own : Seq(Nat)]
    BY <1>2, <1>3
  <2>1. /\ o \in OverType(ty)
        /\ \A g \in D : o[g].shared = over[g].shared
    BY ONLY over \in OverType(ty), <1>3, <2>5, p = [shared |-> over[f].shared, own |-> own],
            o = [over EXCEPT ![f] = p], D = ty.aliased \cup ty.copied DEF OverType
  <2>6. r = [s EXCEPT !.over[f].own = own, !.ok = good]
    BY ONLY <1>2, <1>3, over = s.over, r = ReadBound(ty, s, item), f = item.field, good = item.good,
            own = Stored(ty, over[f].own, item) DEF ReadBound
  <2>7. [over[f] EXCEPT !.own = own] = p
    <3> PICK a : a = over[f].shared
      OBVIOUS
    <3> PICK b : b = over[f].own
      OBVIOUS
    <3>1. over[f] = [shared |-> a, own |-> b]
      BY ONLY <2>5, a = over[f].shared, b = over[f].own
    <3> QED BY ONLY <3>1, a = over[f].shared, p = [shared |-> over[f].shared, own |-> own]
  <2> PICK q : q = [s EXCEPT !.over = o]
    OBVIOUS
  <2>8. r = [q EXCEPT !.ok = good]
    BY ONLY <1>1, <2>6, <2>7, q = [s EXCEPT !.over = o], o = [over EXCEPT ![f] = p]
  <2>9. q = [val |-> val, over |-> o, text |-> text, ok |-> ok]
    BY ONLY <1>1, q = [s EXCEPT !.over = o]
  <2>2. r = [val |-> val, over |-> o, text |-> text, ok |-> good]
    BY ONLY <2>8, <2>9
  <2>3. r \in StateType(ty)
    BY <2>1, <2>2 DEF StateType
  <2> QED BY ONLY <1>3, <2>1, <2>2, <2>3, val = s.val, over = s.over, text = s.text,
                  good = item.good, D = ty.aliased \cup ty.copied
<1>4. CASE ~(f \in D /\ ~over[f].shared)
  <2> PICK new \in Seq(Nat) : new = Stored(ty, val[f], item)
    <3>1. val[f] \in Seq(Nat)
      BY DEF ValueType
    <3> QED BY <3>1, StoredTyped
  <2> PICK v : v = [val EXCEPT ![f] = new]
    OBVIOUS
  <2>1. v \in ValueType(ty)
    BY DEF ValueType
  <2>4. r = [s EXCEPT !.val[f] = new, !.ok = good]
    BY ONLY <1>2, <1>4, over = s.over, val = s.val, r = ReadBound(ty, s, item), f = item.field,
            good = item.good, new = Stored(ty, val[f], item) DEF ReadBound
  <2>2. r = [val |-> v, over |-> over, text |-> text, ok |-> good]
    <3> PICK q : q = [s EXCEPT !.val = v]
      OBVIOUS
    <3>1. r = [q EXCEPT !.ok = good]
      BY ONLY <1>1, <2>4, q = [s EXCEPT !.val = v], v = [val EXCEPT ![f] = new]
    <3>2. q = [val |-> v, over |-> over, text |-> text, ok |-> ok]
      BY ONLY <1>1, q = [s EXCEPT !.val = v]
    <3> QED BY ONLY <3>1, <3>2
  <2>3. r \in StateType(ty)
    BY <2>1, <2>2 DEF StateType
  <2> QED BY ONLY <1>4, <2>2, <2>3, val = s.val, over = s.over, text = s.text,
                  good = item.good, D = ty.aliased \cup ty.copied, new = Stored(ty, val[f], item),
                  v = [val EXCEPT ![f] = new]
<1> QED BY ONLY <1>3, <1>4

LEMMA ReadTextIs ==
  ASSUME NEW ty, NEW s \in StateType(ty), NEW item \in ItemType(ty), NEW r,
         r = [s EXCEPT !.text = <<item>>]
  PROVE  /\ r \in StateType(ty) /\ r.text = <<item>> /\ r.ok = s.ok
         /\ r.over = s.over /\ r.val = s.val
<1>1. s = [val |-> s.val, over |-> s.over, text |-> s.text, ok |-> s.ok]
  BY StateIs
<1>2. r = [val |-> s.val, over |-> s.over, text |-> <<item>>, ok |-> s.ok]
  BY ONLY <1>1, r = [s EXCEPT !.text = <<item>>]
<1>3. <<item>> \in Seq(ItemType(ty))
  OBVIOUS
<1>4. r \in StateType(ty)
  BY StateIs, <1>2, <1>3 DEF StateType
<1> QED BY ONLY <1>2, <1>4

LEMMA ReadUnknownIs ==
  ASSUME NEW ty, WellFormed(ty), NEW s \in StateType(ty), NEW item \in ItemType(ty), NEW r,
         r = ReadUnknown(ty, s, item)
  PROVE  /\ r \in StateType(ty) /\ r.text = s.text /\ r.ok = s.ok /\ r.over = s.over
         /\ "Items" \notin ty.lists => r = s
         /\ "Items" \in ty.lists => r.val = [s.val EXCEPT !["Items"] = Append(@, item.value)]
<1>1. s = [val |-> s.val, over |-> s.over, text |-> s.text, ok |-> s.ok]
  BY StateIs
<1>2. CASE "Items" \notin ty.lists
  BY <1>2 DEF ReadUnknown
<1>3. CASE "Items" \in ty.lists
  <2> PICK v : v = [s.val EXCEPT !["Items"] = Append(@, item.value)]
    OBVIOUS
  <2>1. r = [val |-> v, over |-> s.over, text |-> s.text, ok |-> s.ok]
    BY ONLY <1>1, <1>3, r = ReadUnknown(ty, s, item), v = [s.val EXCEPT !["Items"] = Append(@, item.value)]
       DEF ReadUnknown
  <2>2. "Items" \in FieldsOf(ty) /\ item.value \in Nat
    BY <1>3, ItemValues DEF FieldsOf
  <2>3. v \in ValueType(ty)
    BY StateIs, <2>2 DEF ValueType
  <2>4. r \in StateType(ty)
    BY StateIs, <2>1, <2>3 DEF StateType
  <2> QED BY ONLY <1>3, <2>1, <2>4, v = [s.val EXCEPT !["Items"] = Append(@, item.value)]
<1> QED BY ONLY <1>2, <1>3

LEMMA ReadItemTyped ==
  ASSUME NEW ty, WellFormed(ty), NEW s \in StateType(ty), NEW item \in ItemType(ty)
  PROVE  ReadItem(ty, s, item) \in StateType(ty)
<1>1. CASE item.field \in Bound(ty)
  <2>1. item.field \in FieldsOf(ty)
    BY <1>1 DEF Bound
  <2>2. ReadBound(ty, s, item) \in StateType(ty)
    BY <2>1, ReadBoundIs
  <2> QED BY <1>1, <2>2 DEF ReadItem
<1>2. CASE item.field \notin Bound(ty) /\ item.field \in ty.text
  <2>1. [s EXCEPT !.text = <<item>>] \in StateType(ty)
    BY ReadTextIs
  <2> QED BY <1>2, <2>1 DEF ReadItem
<1>3. CASE item.field \notin Bound(ty) /\ item.field \notin ty.text
  <2>1. ReadUnknown(ty, s, item) \in StateType(ty)
    BY ReadUnknownIs
  <2> QED BY <1>3, <2>1 DEF ReadItem
<1> QED BY <1>1, <1>2, <1>3

-----------------------------------------------------------------------------
(* What has been read *)

\* How the fields of a type are apart.
LEMMA FieldsApart ==
  ASSUME NEW ty, WellFormed(ty)
  PROVE  /\ \A f \in ty.text : /\ f \in FieldsOf(ty) /\ f \notin ty.hidden /\ f \notin ty.lists
                               /\ f \notin ty.copied /\ f # "Items" /\ f # Unknown
                               /\ f \notin Bound(ty)
         /\ \A f \in ty.hidden : /\ f \in FieldsOf(ty) /\ f \notin ty.lists /\ f \notin ty.copied
                                 /\ f # "Items" /\ f # Unknown
         /\ \A f \in Bound(ty) : /\ f \in FieldsOf(ty) /\ f \notin ty.text /\ f \notin ty.hidden
                                 /\ f # "Items" /\ f # Unknown
         /\ "Items" \in FieldsOf(ty) <=> "Items" \in ty.lists
         /\ "Items" \in ty.lists => "Items" \notin ty.copied
         /\ Unknown \notin FieldsOf(ty)
         /\ \A f, g \in ty.text : f = g
<1>1. /\ Unknown \notin FieldsOf(ty)
      /\ Plain(ty) \cap ty.pointers = {} /\ ty.lists \cap (Plain(ty) \cup ty.pointers \cup ty.times) = {}
      /\ "Items" \in FieldsOf(ty) => "Items" \in ty.lists
      /\ ty.text \cup ty.hidden \subseteq Plain(ty) /\ ty.text \cap ty.hidden = {}
      /\ \A f, g \in ty.text : f = g
      /\ ty.copied \subseteq ty.pointers
  BY DEF WellFormed
<1>2. /\ Plain(ty) \subseteq FieldsOf(ty) /\ ty.lists \subseteq FieldsOf(ty)
      /\ ty.pointers \subseteq FieldsOf(ty)
  BY DEF FieldsOf
<1>3. /\ \A f \in Bound(ty) : f \in FieldsOf(ty) /\ f \notin ty.text /\ f \notin ty.hidden
      /\ "Items" \notin Bound(ty)
  BY DEF Bound
<1> QED BY ONLY <1>1, <1>2, <1>3

\* The items reach these fields of a value that was `old`.
Kept(ty, old, f) == f \notin ty.hidden /\ (f \in ty.copied => old[f] # <<>>)

SoFar(ty, old, items, f) ==
  IF Kept(ty, old, f) THEN Content(ty, f, items, old[f]) ELSE old[f]

\* The items were read into s.
HasRead(ty, old, items, s) ==
  /\ items \in Seq(ItemType(ty)) /\ s \in StateType(ty)
  /\ \A f \in ty.aliased \cup ty.copied :
        s.over[f].shared <=> (f \in ty.copied => old[f] # <<>>)
  /\ \A f \in FieldsOf(ty) \ ty.text : s.val[f] = SoFar(ty, old, items, f)
  /\ \A f \in ty.text :
        IF s.text = <<>> THEN Values(ty, f, items) = <<>>
        ELSE Values(ty, f, items) # <<>> /\ s.text[1].value = Last(Values(ty, f, items))

LEMMA SoFarAppend ==
  ASSUME NEW ty, NEW old \in ValueType(ty), NEW items \in Seq(ItemType(ty)),
         NEW item \in ItemType(ty), NEW f \in FieldsOf(ty), ~Fills(ty, f, item)
  PROVE  SoFar(ty, old, Append(items, item), f) = SoFar(ty, old, items, f)
<1>1. old[f] \in Seq(Nat)
  BY DEF ValueType
<1>2. Content(ty, f, Append(items, item), old[f]) = Content(ty, f, items, old[f])
  BY <1>1, ContentAppend
<1> QED BY ONLY <1>2 DEF SoFar

LEMMA StartReads ==
  ASSUME NEW ty, WellFormed(ty), NEW old \in ValueType(ty)
  PROVE  HasRead(ty, old, <<>>, Start(ty, old)) /\ Start(ty, old).ok
<1> PICK s : s = Start(ty, old)
  OBVIOUS
<1> PICK over : over = Overlay(ty, old)
  OBVIOUS
<1>1. s = [val |-> old, over |-> over, text |-> <<>>, ok |-> TRUE]
  BY DEF Start
<1>2. /\ over \in OverType(ty)
      /\ \A f \in ty.aliased \cup ty.copied :
            over[f].shared <=> (f \in ty.copied => old[f] # <<>>)
  <2> PICK shared : shared = [g \in ty.aliased \cup ty.copied |-> (g \in ty.copied => old[g] # <<>>)]
    OBVIOUS
  <2>1. \A g \in ty.aliased \cup ty.copied :
           /\ shared[g] \in BOOLEAN
           /\ shared[g] <=> (g \in ty.copied => old[g] # <<>>)
    BY ONLY shared = [g \in ty.aliased \cup ty.copied |-> (g \in ty.copied => old[g] # <<>>)], Zenon
  <2>2. over = [g \in ty.aliased \cup ty.copied |-> [shared |-> shared[g], own |-> <<>>]]
    BY ONLY over = Overlay(ty, old),
            shared = [g \in ty.aliased \cup ty.copied |-> (g \in ty.copied => old[g] # <<>>)]
       DEF Overlay
  <2>3. \A g \in ty.aliased \cup ty.copied : over[g].shared = shared[g]
    BY ONLY <2>2
  <2>4. over \in OverType(ty)
    BY ONLY <2>1, <2>2 DEF OverType
  <2> QED BY ONLY <2>1, <2>3, <2>4, Zenon
<1>3. <<>> \in Seq(ItemType(ty))
  OBVIOUS
<1>4. s \in StateType(ty)
  BY ONLY <1>1, <1>2, <1>3, old \in ValueType(ty) DEF StateType
<1>5. \A f \in FieldsOf(ty) \ ty.text : old[f] = SoFar(ty, old, <<>>, f)
  <2> SUFFICES ASSUME NEW f \in FieldsOf(ty), f \notin ty.text
               PROVE  Content(ty, f, <<>>, old[f]) = old[f]
    BY DEF SoFar
  <2>1. old[f] \in Seq(Nat) /\ old[f] \o <<>> = old[f]
    BY DEF ValueType
  <2> QED BY ONLY <2>1, ValuesEmpty, f \notin ty.text DEF Content
<1>6. s.val = old /\ s.over = over /\ s.text = <<>> /\ s.ok = TRUE
  BY ONLY <1>1
<1>7. \A f \in ty.text : Values(ty, f, <<>>) = <<>>
  BY ONLY ValuesEmpty
<1> QED BY ONLY <1>2, <1>3, <1>4, <1>5, <1>6, <1>7, s = Start(ty, old) DEF HasRead

\* An item for a field by its name; the other fields have what they had even
\* if it is refused.
LEMMA BoundReads ==
  ASSUME NEW ty, WellFormed(ty), NEW old \in ValueType(ty), NEW items, NEW s,
         HasRead(ty, old, items, s), NEW item \in ItemType(ty), item.field \in Bound(ty),
         NEW r, r = ReadItem(ty, s, item)
  PROVE  /\ r \in StateType(ty) /\ r.text = s.text /\ r.ok = item.good
         /\ \A f \in FieldsOf(ty) \ (ty.text \cup {item.field}) :
               r.val[f] = SoFar(ty, old, Append(items, item), f)
         /\ item.good => HasRead(ty, old, Append(items, item), r)
<1> PICK f : f = item.field
  OBVIOUS
<1> PICK more : more = Append(items, item)
  OBVIOUS
<1>0. /\ items \in Seq(ItemType(ty)) /\ s \in StateType(ty) /\ s.val \in ValueType(ty)
      /\ more \in Seq(ItemType(ty))
  BY StateIs DEF HasRead
<1>1. f \in FieldsOf(ty) /\ f \notin ty.text /\ f \notin ty.hidden /\ f # "Items" /\ f # Unknown
  BY FieldsApart
<1>2. r = ReadBound(ty, s, item)
  BY DEF ReadItem
<1>3. /\ r \in StateType(ty) /\ r.text = s.text /\ r.ok = item.good
      /\ \A g \in ty.aliased \cup ty.copied : r.over[g].shared = s.over[g].shared
      /\ f \in ty.aliased \cup ty.copied /\ ~s.over[f].shared => r.val = s.val
      /\ ~(f \in ty.aliased \cup ty.copied /\ ~s.over[f].shared) =>
           r.val = [s.val EXCEPT ![f] = Stored(ty, s.val[f], item)]
  BY <1>0, <1>1, <1>2, ReadBoundIs
<1>4. \A g : g # f => ~Fills(ty, g, item)
  BY <1>1 DEF Fills
<1>5. ASSUME NEW g \in FieldsOf(ty), g # f
      PROVE  /\ r.val[g] = s.val[g]
             /\ SoFar(ty, old, more, g) = SoFar(ty, old, items, g)
  <2>1. SoFar(ty, old, more, g) = SoFar(ty, old, items, g)
    BY <1>0, <1>4, <1>5, SoFarAppend
  <2>2. r.val[g] = s.val[g]
    BY ONLY <1>0, <1>3, <1>5 DEF ValueType
  <2> QED BY ONLY <2>1, <2>2
<1>6. \A g \in FieldsOf(ty) \ ty.text : s.val[g] = SoFar(ty, old, items, g)
  BY DEF HasRead
<1>7. \A g \in FieldsOf(ty) \ (ty.text \cup {f}) : r.val[g] = SoFar(ty, old, more, g)
  BY ONLY <1>5, <1>6
<1>8. ASSUME item.good
      PROVE  r.val[f] = SoFar(ty, old, more, f)
  <2>1. s.val[f] = SoFar(ty, old, items, f)
    BY ONLY <1>1, <1>6
  <2>2. f \in ty.aliased \cup ty.copied => (s.over[f].shared <=> (f \in ty.copied => old[f] # <<>>))
    BY DEF HasRead
  <2>3. CASE f \in ty.aliased \cup ty.copied /\ ~s.over[f].shared
    <3>1. ~Kept(ty, old, f)
      BY ONLY <2>2, <2>3 DEF Kept
    <3> QED BY ONLY <1>3, <2>1, <2>3, <3>1 DEF SoFar
  <2>4. CASE ~(f \in ty.aliased \cup ty.copied /\ ~s.over[f].shared)
    <3>1. Kept(ty, old, f)
      BY ONLY <1>1, <2>2, <2>4 DEF Kept
    <3>2. r.val[f] = Stored(ty, s.val[f], item)
      BY ONLY <1>0, <1>1, <1>3, <2>4 DEF ValueType
    <3>3. Stored(ty, s.val[f], item)
            = IF f \in ty.lists THEN Append(s.val[f], item.value) ELSE <<item.value>>
      BY ONLY <1>8, f = item.field DEF Stored
    <3>4. old[f] \in Seq(Nat) /\ Fills(ty, f, item)
      BY <1>1 DEF ValueType, Fills
    <3>5. Content(ty, f, more, old[f])
            = IF f \in ty.lists THEN Append(Content(ty, f, items, old[f]), item.value)
              ELSE <<item.value>>
      BY ONLY ZenonT(30), <1>0, <3>4, item \in ItemType(ty), more = Append(items, item), ContentAppend
    <3> QED BY ONLY <2>1, <3>1, <3>2, <3>3, <3>5 DEF SoFar
  <2> QED BY ONLY <2>3, <2>4
<1>9. ASSUME item.good
      PROVE  HasRead(ty, old, more, r)
  <2>1. \A g \in FieldsOf(ty) \ ty.text : r.val[g] = SoFar(ty, old, more, g)
    BY ONLY <1>7, <1>8, <1>9
  <2>2. \A g \in ty.aliased \cup ty.copied : r.over[g].shared <=> (g \in ty.copied => old[g] # <<>>)
    BY <1>3 DEF HasRead
  <2>3. ASSUME NEW g \in ty.text
        PROVE  IF r.text = <<>> THEN Values(ty, g, more) = <<>>
               ELSE Values(ty, g, more) # <<>> /\ r.text[1].value = Last(Values(ty, g, more))
    <3>1. ~Fills(ty, g, item)
      BY ONLY <1>1, <1>4, g \in ty.text
    <3>2. <<>> \in Seq(Nat)
      OBVIOUS
    <3>3. Values(ty, g, more) = Values(ty, g, items)
      BY ONLY ZenonT(30),
         <1>0, <3>1, <3>2, item \in ItemType(ty), more = Append(items, item), ContentAppend
    <3> QED BY <1>3, <3>3 DEF HasRead
  <2> QED BY ONLY <1>0, <1>3, <2>1, <2>2, <2>3 DEF HasRead
<1> QED BY ONLY <1>3, <1>7, <1>9, f = item.field, more = Append(items, item)
LEMMA TextReads ==
  ASSUME NEW ty, WellFormed(ty), NEW old \in ValueType(ty), NEW items, NEW s,
         HasRead(ty, old, items, s), NEW item \in ItemType(ty), item.field \in ty.text,
         NEW r, r = ReadItem(ty, s, item)
  PROVE  /\ HasRead(ty, old, Append(items, item), r)
         /\ r.ok = s.ok /\ r.text = <<item>>
<1> PICK more : more = Append(items, item)
  OBVIOUS
<1>0. /\ items \in Seq(ItemType(ty)) /\ s \in StateType(ty) /\ more \in Seq(ItemType(ty))
  BY DEF HasRead
<1>1. /\ item.field \notin ty.hidden /\ item.field # Unknown /\ item.field \notin Bound(ty)
      /\ \A f, g \in ty.text : f = g
  BY FieldsApart
<1>2. r = [s EXCEPT !.text = <<item>>]
  BY <1>1 DEF ReadItem
<1>3. /\ r \in StateType(ty) /\ r.text = <<item>> /\ r.ok = s.ok
      /\ r.over = s.over /\ r.val = s.val
  BY <1>0, <1>2, ReadTextIs
<1>4. ASSUME NEW g \in FieldsOf(ty), g \notin ty.text
      PROVE  r.val[g] = SoFar(ty, old, more, g)
  <2>1. ~Fills(ty, g, item)
    BY <1>1, <1>4 DEF Fills
  <2>2. SoFar(ty, old, more, g) = SoFar(ty, old, items, g)
    BY <1>0, <2>1, SoFarAppend
  <2>3. s.val[g] = SoFar(ty, old, items, g)
    BY <1>4 DEF HasRead
  <2> QED BY ONLY <1>3, <2>2, <2>3
<1>5. ASSUME NEW g \in ty.text
      PROVE  Values(ty, g, more) # <<>> /\ r.text[1].value = Last(Values(ty, g, more))
  <2>1. Fills(ty, g, item)
    BY <1>1 DEF Fills
  <2>2. <<>> \in Seq(Nat)
    OBVIOUS
  <2>3. Values(ty, g, more) # <<>> /\ Last(Values(ty, g, more)) = item.value
    <3>1. /\ Values(ty, g, Append(items, item)) # <<>>
          /\ Last(Values(ty, g, Append(items, item))) = item.value
      BY ZenonT(30), <1>0, <2>1, <2>2, ContentAppend
    <3> QED BY ONLY <3>1, more = Append(items, item)
  <2>4. r.text[1] = item
    BY ONLY <1>3
  <2> QED BY ONLY <2>3, <2>4
<1>6. \A g \in ty.aliased \cup ty.copied : r.over[g].shared <=> (g \in ty.copied => old[g] # <<>>)
  BY <1>3 DEF HasRead
<1>7. r.text # <<>>
  BY ONLY <1>3
<1>8. HasRead(ty, old, more, r)
  BY ONLY <1>0, <1>3, <1>4, <1>5, <1>6, <1>7 DEF HasRead
<1> QED BY ONLY <1>3, <1>8, more = Append(items, item)

LEMMA UnknownReads ==
  ASSUME NEW ty, WellFormed(ty), NEW old \in ValueType(ty), NEW items, NEW s,
         HasRead(ty, old, items, s), NEW item \in ItemType(ty),
         item.field \in ty.hidden \cup {Unknown}, NEW r, r = ReadItem(ty, s, item)
  PROVE  /\ HasRead(ty, old, Append(items, item), r)
         /\ r.ok = s.ok /\ r.text = s.text
<1> PICK more : more = Append(items, item)
  OBVIOUS
<1>0. /\ items \in Seq(ItemType(ty)) /\ s \in StateType(ty) /\ more \in Seq(ItemType(ty))
      /\ s.val \in ValueType(ty) /\ old \in ValueType(ty)
  BY StateIs DEF HasRead
<1> PICK v \in Nat : v = item.value
  BY ItemValues
<1>1. item.field \notin ty.text /\ item.field \notin Bound(ty) /\ item.field # "Items"
  <2>1. "Items" # Unknown
    BY DEF Unknown
  <2> QED BY <2>1, FieldsApart
<1>2. r = ReadUnknown(ty, s, item)
  BY <1>1 DEF ReadItem
<1>3. /\ r \in StateType(ty) /\ r.text = s.text /\ r.ok = s.ok /\ r.over = s.over
      /\ "Items" \notin ty.lists => r = s
      /\ "Items" \in ty.lists => r.val = [s.val EXCEPT !["Items"] = Append(@, v)]
  BY <1>0, <1>2, ReadUnknownIs
<1>4. ASSUME NEW g \in FieldsOf(ty), g # "Items"
      PROVE  r.val[g] = s.val[g] /\ SoFar(ty, old, more, g) = SoFar(ty, old, items, g)
  <2>1. r.val[g] = s.val[g]
    BY ONLY <1>0, <1>3, <1>4 DEF ValueType
  <2>2. CASE g = item.field
    <3>1. g \in ty.hidden
      BY <2>2, FieldsApart
    <3> QED BY ONLY <2>1, <3>1 DEF SoFar, Kept
  <2>3. CASE g # item.field
    <3>1. ~Fills(ty, g, item)
      BY ONLY <1>4, <2>3 DEF Fills
    <3>2. SoFar(ty, old, more, g) = SoFar(ty, old, items, g)
      BY <1>0, <3>1, SoFarAppend
    <3> QED BY ONLY <2>1, <3>2
  <2> QED BY ONLY <2>2, <2>3
<1>5. \A g \in FieldsOf(ty) \ ty.text : s.val[g] = SoFar(ty, old, items, g)
  BY DEF HasRead
<1>6. ASSUME "Items" \in FieldsOf(ty)
      PROVE  r.val["Items"] = SoFar(ty, old, more, "Items")
  <2>1. /\ "Items" \in ty.lists /\ "Items" \notin ty.copied /\ "Items" \notin ty.hidden
        /\ "Items" \notin ty.text
    BY <1>6, FieldsApart
  <2>2. r.val["Items"] = Append(s.val["Items"], v)
    BY ONLY <1>0, <1>3, <1>6, <2>1 DEF ValueType
  <2>3. s.val["Items"] = SoFar(ty, old, items, "Items")
    BY ONLY <1>5, <1>6, <2>1
  <2>4. Fills(ty, "Items", item) /\ old["Items"] \in Seq(Nat)
    BY <1>6 DEF Fills, ValueType
  <2>5. Content(ty, "Items", more, old["Items"]) = Append(Content(ty, "Items", items, old["Items"]), v)
    <3> PICK f : f = "Items"
      OBVIOUS
    <3>1. Fills(ty, f, item) /\ old[f] \in Seq(Nat) /\ f \in ty.lists
      BY <2>1, <2>4
    <3>2. Content(ty, f, Append(items, item), old[f]) = Append(Content(ty, f, items, old[f]), item.value)
      <4> PICK o \in Seq(Nat) : o = old[f]
        BY <3>1
      <4>1. Content(ty, f, Append(items, item), o) = Append(Content(ty, f, items, o), item.value)
        BY ONLY ZenonT(30), <1>0, <3>1, item \in ItemType(ty), ContentAppend
      <4> QED BY ONLY <4>1, o = old[f]
    <3> QED BY ONLY <3>2, f = "Items", v = item.value, more = Append(items, item)
  <2> QED BY ONLY <2>1, <2>2, <2>3, <2>5 DEF SoFar, Kept
<1>7. \A g \in FieldsOf(ty) \ ty.text : r.val[g] = SoFar(ty, old, more, g)
  BY ONLY <1>4, <1>5, <1>6
<1>8. ASSUME NEW g \in ty.text
      PROVE  IF r.text = <<>> THEN Values(ty, g, more) = <<>>
             ELSE Values(ty, g, more) # <<>> /\ r.text[1].value = Last(Values(ty, g, more))
  <2>1. g # "Items"
    BY FieldsApart
  <2>2. ~Fills(ty, g, item)
    BY <1>1, <2>1 DEF Fills
  <2>3. <<>> \in Seq(Nat)
    OBVIOUS
  <2>4. Values(ty, g, more) = Values(ty, g, items)
    BY ONLY <1>0, <2>2, <2>3, item \in ItemType(ty), more = Append(items, item), ContentAppend
  <2> QED BY <1>3, <2>4 DEF HasRead
<1>9. \A g \in ty.aliased \cup ty.copied : r.over[g].shared <=> (g \in ty.copied => old[g] # <<>>)
  BY <1>3 DEF HasRead
<1>10. HasRead(ty, old, more, r)
  BY ONLY <1>0, <1>3, <1>7, <1>8, <1>9 DEF HasRead
<1> QED BY ONLY <1>3, <1>10, more = Append(items, item)

\* The value when all was read.
LEMMA EndReads ==
  ASSUME NEW ty, WellFormed(ty), NEW old \in ValueType(ty), NEW items, NEW s,
         HasRead(ty, old, items, s), NEW r, r = ReadEnd(ty, s)
  PROVE  /\ s.text # <<>> /\ ~s.text[1].good => ~r.ok /\ r.val = s.val
         /\ ~(s.text # <<>> /\ ~s.text[1].good) =>
              r.ok = s.ok /\ \A f \in FieldsOf(ty) : r.val[f] = SoFar(ty, old, items, f)
<1>0. s \in StateType(ty) /\ s = [val |-> s.val, over |-> s.over, text |-> s.text, ok |-> s.ok]
  BY StateIs DEF HasRead
<1>1. CASE s.text # <<>> /\ ~s.text[1].good
  <2>1. r = [s EXCEPT !.ok = FALSE]
    BY <1>1 DEF ReadEnd
  <2>2. r.ok = FALSE /\ r.val = s.val
    BY ONLY <1>0, <2>1
  <2> QED BY ONLY <1>1, <2>2
<1>2. CASE ~(s.text # <<>> /\ ~s.text[1].good)
  <2> PICK v : v = [f \in FieldsOf(ty) |-> IF f \notin ty.text THEN s.val[f]
                       ELSE IF s.text = <<>> THEN <<0>> ELSE <<s.text[1].value>>]
    OBVIOUS
  <2>1. r = [s EXCEPT !.val = v]
    BY <1>2 DEF ReadEnd
  <2>2. r.ok = s.ok /\ r.val = v
    BY ONLY <1>0, <2>1
  <2>3. ASSUME NEW f \in FieldsOf(ty)
        PROVE  v[f] = SoFar(ty, old, items, f)
    <3>1. CASE f \notin ty.text
      BY <3>1 DEF HasRead
    <3>2. CASE f \in ty.text
      <4>1. f \notin ty.lists /\ Kept(ty, old, f)
        BY <3>2, FieldsApart DEF Kept
      <4>2. v[f] = IF s.text = <<>> THEN <<0>> ELSE <<s.text[1].value>>
        BY <3>2
      <4>3. IF s.text = <<>> THEN Values(ty, f, items) = <<>>
            ELSE Values(ty, f, items) # <<>> /\ s.text[1].value = Last(Values(ty, f, items))
        BY <3>2 DEF HasRead
      <4> QED BY ONLY <3>2, <4>1, <4>2, <4>3 DEF SoFar, Content
    <3> QED BY ONLY <3>1, <3>2
  <2> QED BY ONLY <1>2, <2>2, <2>3
<1> QED BY ONLY <1>1, <1>2

-----------------------------------------------------------------------------
(* Decoding into a fresh value *)

GoodType(ty) == {i \in ItemType(ty) : i.good /\ i.field \in Bound(ty) \cup ty.text \cup {Unknown}}

\* The states of reading the items, one after the other.
Decoding(ty, h, n, items) ==
  /\ h[0] = Start(ty, Fresh(ty))
  /\ \A k \in 1..n : k - 1 \in 0..n /\ h[k] = ReadItem(ty, h[k - 1], items[k])

LEMMA FreshTyped ==
  ASSUME NEW ty
  PROVE  Fresh(ty) \in ValueType(ty)
<1>1. <<0>> \in Seq(Nat) /\ <<>> \in Seq(Nat)
  OBVIOUS
<1> QED BY ONLY <1>1 DEF Fresh, ValueType

LEMMA DecodeSteps ==
  ASSUME NEW ty, WellFormed(ty), NEW n \in Nat, NEW items, DOMAIN items = 1..n,
         \A k \in 1..n : items[k] \in ItemType(ty)
  PROVE  \E h : Decoding(ty, h, n, items) /\ DecodedFresh(ty, items) = ReadEnd(ty, h[n]).val
<1> PICK start : start = Start(ty, Fresh(ty))
  OBVIOUS
<1>1. start \in StateType(ty)
  BY FreshTyped, StartReads DEF HasRead
<1>2. ASSUME NEW k \in 1..n, NEW s \in StateType(ty)
      PROVE  ReadItem(ty, s, items[k]) \in StateType(ty)
  BY ReadItemTyped
<1> DEFINE Joins(g) == g = [s \in SUBSET DOMAIN items |->
                              IF s = {} THEN start ELSE ReadItem(ty, g[s \ {Max(s)}], items[Max(s)])]
<1> PICK it : it = CHOOSE g : Joins(g)
  OBVIOUS
<1>3. DecodedFresh(ty, items) = ReadEnd(ty, it[DOMAIN items]).val
  BY DEF DecodedFresh, FoldLeft, MapThenFoldSet
<1>4. \A g : Joins(g) <=> g = [s \in SUBSET (1..n) |->
                              IF s = {} THEN start ELSE ReadItem(ty, g[s \ {Max(s)}], items[Max(s)])]
  OBVIOUS
<1> HIDE DEF Joins
<1>5. \E g : Joins(g)
  <2> PICK A : A = StateType(ty)
    OBVIOUS
  <2> PICK Step : Step = [p \in (1..n) \X A |-> ReadItem(ty, p[2], items[p[1]])]
    OBVIOUS
  <2>1. \A k \in 1..n, a \in A :
           Step[<<k, a>>] = ReadItem(ty, a, items[k]) /\ Step[<<k, a>>] \in A
    BY ONLY <1>2, A = StateType(ty), Step = [p \in (1..n) \X A |-> ReadItem(ty, p[2], items[p[1]])]
  <2>2. start \in A
    BY ONLY <1>1, A = StateType(ty)
  <2>3. PICK g \in [SUBSET (1..n) -> A] : FoldsLeft(g, n, start, Step)
    BY ONLY n \in Nat, <2>1, <2>2, LeftSolves
  <2>4. ASSUME NEW s \in SUBSET (1..n)
        PROVE  g[s] = IF s = {} THEN start ELSE ReadItem(ty, g[s \ {Max(s)}], items[Max(s)])
    BY ONLY <2>1, <2>3, <2>4 DEF FoldsLeft
  <2>5. g = [s \in SUBSET (1..n) |->
                IF s = {} THEN start ELSE ReadItem(ty, g[s \ {Max(s)}], items[Max(s)])]
    BY ONLY <2>3, <2>4
  <2> QED BY ONLY <1>4, <2>5
<1>6. it = [s \in SUBSET (1..n) |->
              IF s = {} THEN start ELSE ReadItem(ty, it[s \ {Max(s)}], items[Max(s)])]
  BY ONLY <1>4, <1>5, it = CHOOSE g : Joins(g)
<1> PICK h : h = [k \in 0..n |-> it[1..k]]
  OBVIOUS
<1>7. h[0] = start
  <2>1. 1..0 = {} /\ {} \in SUBSET (1..n) /\ 0 \in 0..n
    OBVIOUS
  <2> QED BY ONLY <1>6, <2>1, h = [k \in 0..n |-> it[1..k]]
<1>8. ASSUME NEW k \in 1..n
      PROVE  k - 1 \in 0..n /\ h[k] = ReadItem(ty, h[k - 1], items[k])
  <2>1. k \in 0..n /\ k - 1 \in 0..n /\ 1..k \in SUBSET (1..n)
    OBVIOUS
  <2>2. Max(1..k) = k /\ (1..k) \ {k} = 1..(k - 1) /\ 1..k # {}
    BY ONLY n \in Nat, k \in 1..n, MaxPosition
  <2>3. it[1..k] = ReadItem(ty, it[1..(k - 1)], items[k])
    BY ONLY <1>6, <2>1, <2>2
  <2> QED BY ONLY <2>1, <2>3, h = [j \in 0..n |-> it[1..j]]
<1>9. DecodedFresh(ty, items) = ReadEnd(ty, h[n]).val
  <2>1. n \in 0..n
    OBVIOUS
  <2> QED BY ONLY <1>3, <2>1, DOMAIN items = 1..n, h = [k \in 0..n |-> it[1..k]]
<1>10. Decoding(ty, h, n, items)
  BY ONLY <1>7, <1>8, start = Start(ty, Fresh(ty)) DEF Decoding
<1> QED BY ONLY <1>9, <1>10

LEMMA GoodReads ==
  ASSUME NEW ty, WellFormed(ty), NEW old \in ValueType(ty), NEW items, NEW s,
         HasRead(ty, old, items, s), s.text # <<>> => s.text[1].good,
         NEW item \in GoodType(ty), NEW r, r = ReadItem(ty, s, item)
  PROVE  /\ HasRead(ty, old, Append(items, item), r)
         /\ r.text # <<>> => r.text[1].good
<1>1. item \in ItemType(ty) /\ item.good /\ item.field \in Bound(ty) \cup ty.text \cup {Unknown}
  BY DEF GoodType
<1>2. CASE item.field \in Bound(ty)
  BY <1>1, <1>2, BoundReads
<1>3. CASE item.field \in ty.text
  <2>1. HasRead(ty, old, Append(items, item), r) /\ r.text = <<item>>
    BY <1>1, <1>3, TextReads
  <2> QED BY ONLY <1>1, <2>1
<1>4. CASE item.field \in {Unknown}
  BY <1>1, <1>4, UnknownReads
<1> QED BY ONLY <1>1, <1>2, <1>3, <1>4

\* A document without faults is read into a fresh value.
LEMMA DecodedIs ==
  ASSUME NEW ty, WellFormed(ty), NEW items \in Seq(GoodType(ty)), NEW f \in FieldsOf(ty)
  PROVE  DecodedFresh(ty, items)[f] = SoFar(ty, Fresh(ty), items, f)
<1> PICK n \in Nat : n = Len(items)
  OBVIOUS
<1>1. DOMAIN items = 1..n /\ \A k \in 1..n : items[k] \in GoodType(ty) /\ items[k] \in ItemType(ty)
  BY DEF GoodType
<1>2. PICK h : Decoding(ty, h, n, items) /\ DecodedFresh(ty, items) = ReadEnd(ty, h[n]).val
  BY <1>1, DecodeSteps
<1> PICK old \in ValueType(ty) : old = Fresh(ty)
  BY FreshTyped
<1> PICK part : part = [k \in 0..n |-> SubSeq(items, 1, k)]
  OBVIOUS
<1>3. /\ part[0] = <<>> /\ part[n] = items
      /\ \A k \in 1..n : part[k] = Append(part[k - 1], items[k])
  <2> PICK T : T = GoodType(ty)
    OBVIOUS
  <2>0. items \in Seq(T) /\ n = Len(items) /\ n \in Nat
    OBVIOUS
  <2>1. SubSeq(items, 1, 0) = <<>> /\ SubSeq(items, 1, n) = items
    BY ONLY <2>0
  <2>2. ASSUME NEW k \in 1..n
        PROVE  SubSeq(items, 1, k) = Append(SubSeq(items, 1, k - 1), items[k])
    BY ONLY <2>0, <2>2
  <2>3. \A k \in 0..n : part[k] = SubSeq(items, 1, k)
    OBVIOUS
  <2>4. 0 \in 0..n /\ n \in 0..n /\ \A k \in 1..n : k \in 0..n /\ k - 1 \in 0..n
    BY ONLY n \in Nat
  <2> QED BY ONLY <2>1, <2>2, <2>3, <2>4
<1> PICK P : P = {k \in 0..n : /\ HasRead(ty, old, part[k], h[k])
                               /\ h[k].text # <<>> => h[k].text[1].good}
  OBVIOUS
<1>4. 0 \in P
  <2>1. 0 \in 0..n
    OBVIOUS
  <2>2. HasRead(ty, old, <<>>, Start(ty, old)) /\ Start(ty, old).text = <<>>
    BY StartReads DEF Start
  <2> QED BY ONLY <1>2, <1>3, <2>1, <2>2, old = Fresh(ty),
              P = {k \in 0..n : /\ HasRead(ty, old, part[k], h[k])
                                /\ h[k].text # <<>> => h[k].text[1].good} DEF Decoding
<1>5. ASSUME NEW k \in 1..n, k - 1 \in P PROVE k \in P
  <2>1. HasRead(ty, old, part[k - 1], h[k - 1]) /\ (h[k - 1].text # <<>> => h[k - 1].text[1].good)
    BY ONLY <1>5, P = {j \in 0..n : /\ HasRead(ty, old, part[j], h[j])
                                    /\ h[j].text # <<>> => h[j].text[1].good}
  <2>2. h[k] = ReadItem(ty, h[k - 1], items[k])
    BY ONLY <1>2, k \in 1..n DEF Decoding
  <2>3. /\ HasRead(ty, old, Append(part[k - 1], items[k]), h[k])
        /\ h[k].text # <<>> => h[k].text[1].good
    BY ONLY <1>1, <2>1, <2>2, WellFormed(ty), old \in ValueType(ty), k \in 1..n, GoodReads
  <2>4. k \in 0..n
    OBVIOUS
  <2> QED BY ONLY <1>3, <2>3, <2>4, k \in 1..n,
              P = {j \in 0..n : /\ HasRead(ty, old, part[j], h[j])
                                /\ h[j].text # <<>> => h[j].text[1].good}
<1>6. \A k \in 0..n : k \in P
  BY ONLY n \in Nat, <1>4, <1>5, Upwards
<1>7. HasRead(ty, old, items, h[n]) /\ (h[n].text # <<>> => h[n].text[1].good)
  <2>1. n \in P
    BY <1>6
  <2> QED BY ONLY <1>3, <2>1, P = {k \in 0..n : /\ HasRead(ty, old, part[k], h[k])
                                                /\ h[k].text # <<>> => h[k].text[1].good}
<1>8. ReadEnd(ty, h[n]).val[f] = SoFar(ty, old, items, f)
  BY <1>7, EndReads
<1> QED BY ONLY <1>2, <1>8, old = Fresh(ty)

-----------------------------------------------------------------------------
(* Encoding a value *)

Skipped(ty, f, values) ==
  f \in ty.hidden \/ (values = <<0>> /\ f \in (ty.omitted \cup ty.times) \ ty.pointers)

\* What is written for a field is found for it and for no other one.
LEMMA WrittenIs ==
  ASSUME NEW ty, WellFormed(ty), NEW f \in FieldsOf(ty), NEW values \in Seq(Nat)
  PROVE  /\ Written(ty, f, values) \in Seq(GoodType(ty))
         /\ \A items \in Seq(GoodType(ty)), g \in FieldsOf(ty) \ ty.hidden :
               Values(ty, g, items \o Written(ty, f, values))
                 = IF g = f /\ ~Skipped(ty, f, values) THEN Values(ty, g, items) \o values
                   ELSE Values(ty, g, items)
<1> PICK T : T = GoodType(ty)
  OBVIOUS
<1> PICK new : new = Written(ty, f, values)
  OBVIOUS
<1>0. \A i \in T : i.value \in Nat /\ i \in ItemType(ty)
  BY ItemValues DEF GoodType
<1>1. CASE Skipped(ty, f, values)
  <2>1. new = <<>>
    BY ONLY <1>1, new = Written(ty, f, values) DEF Skipped, Written
  <2>2. ASSUME NEW items \in Seq(T) PROVE items \o <<>> = items
    OBVIOUS
  <2>3. new \in Seq(T)
    BY ONLY <2>1
  <2> QED BY ONLY <1>1, <2>1, <2>2, <2>3, T = GoodType(ty), new = Written(ty, f, values)
<1>2. CASE ~Skipped(ty, f, values)
  <2> PICK name : name = IF f = "Items" THEN Unknown ELSE f
    OBVIOUS
  <2> PICK n \in Nat : n = Len(values)
    OBVIOUS
  <2>1. name \in Bound(ty) \cup ty.text \cup {Unknown} /\ f \notin ty.hidden
    BY <1>2 DEF Skipped, Bound
  <2>2. /\ DOMAIN values = 1..n /\ \A k \in 1..n : values[k] \in Nat
    OBVIOUS
  <2>3. new = [k \in 1..n |-> Item(name, values[k], TRUE)]
    BY ONLY <1>2, <2>2, name = IF f = "Items" THEN Unknown ELSE f, new = Written(ty, f, values)
       DEF Skipped, Written
  <2>4. \A k \in 1..n : new[k].field = name /\ new[k].value = values[k] /\ new[k] \in T
    BY <2>1, <2>2, <2>3 DEF Item, GoodType, ItemType
  <2>5. new \in Seq(T) /\ Len(new) = n
    <3>1. new \in [1..n -> T]
      BY ONLY <2>3, <2>4
    <3> QED BY ONLY <3>1, n \in Nat
  <2>8. 0 \in 0..n /\ n \in 0..n /\ \A k \in 1..n : k \in 0..n /\ k - 1 \in 0..n
    BY ONLY n \in Nat
  <2>6. ASSUME NEW g \in FieldsOf(ty) \ ty.hidden, NEW i, i.field = name
        PROVE  Fills(ty, g, i) <=> g = f
    <3>1. "Items" # Unknown
      BY DEF Unknown
    <3> QED BY <2>1, <2>6, <3>1, FieldsApart DEF Fills
  <2>7. ASSUME NEW items \in Seq(T), NEW g \in FieldsOf(ty) \ ty.hidden
        PROVE  Values(ty, g, items \o new)
                 = IF g = f THEN Values(ty, g, items) \o values ELSE Values(ty, g, items)
    <3> PICK had \in Seq(Nat) : had = Values(ty, g, items)
      <4>1. Values(ty, g, items) \in Seq(Nat)
        BY ONLY <1>0, items \in Seq(T), ValuesTyped
      <4> QED BY ONLY <4>1
    <3> PICK now : now = [k \in 0..n |-> items \o SubSeq(new, 1, k)]
      OBVIOUS
    <3> PICK want : want = [k \in 0..n |-> IF g = f THEN had \o SubSeq(values, 1, k) ELSE had]
      OBVIOUS
    <3>1. /\ now[0] = items /\ now[n] = items \o new
          /\ \A k \in 1..n : now[k] = Append(now[k - 1], new[k]) /\ now[k - 1] \in Seq(T)
      <4>1. SubSeq(new, 1, 0) = <<>> /\ SubSeq(new, 1, n) = new /\ items \o <<>> = items
        BY ONLY <2>5, items \in Seq(T), n \in Nat
      <4>2. ASSUME NEW k \in 1..n
            PROVE  /\ items \o SubSeq(new, 1, k) = Append(items \o SubSeq(new, 1, k - 1), new[k])
                   /\ items \o SubSeq(new, 1, k - 1) \in Seq(T)
        BY ONLY SMTT(30), <2>5, <4>2, items \in Seq(T), n \in Nat
      <4>3. \A k \in 0..n : now[k] = items \o SubSeq(new, 1, k)
        BY ONLY now = [k \in 0..n |-> items \o SubSeq(new, 1, k)]
      <4> QED BY ONLY <2>8, <4>1, <4>2, <4>3
    <3>2. /\ want[0] = had /\ want[n] = IF g = f THEN had \o values ELSE had
          /\ \A k \in 1..n : want[k] = IF g = f THEN Append(want[k - 1], values[k]) ELSE want[k - 1]
      <4>1. had \o SubSeq(values, 1, 0) = had /\ SubSeq(values, 1, n) = values
        BY ONLY values \in Seq(Nat), n = Len(values), n \in Nat, had \in Seq(Nat)
      <4>2. ASSUME NEW k \in 1..n
            PROVE  had \o SubSeq(values, 1, k) = Append(had \o SubSeq(values, 1, k - 1), values[k])
        <5> PICK v \in Nat : v = values[k]
          BY <2>2
        <5> PICK a \in Seq(Nat) : a = SubSeq(values, 1, k - 1)
          <6>1. SubSeq(values, 1, k - 1) \in Seq(Nat)
            BY ONLY k \in 1..n, values \in Seq(Nat), n = Len(values), n \in Nat
          <6> QED BY ONLY <6>1
        <5>1. SubSeq(values, 1, k) = Append(a, v)
          BY ONLY k \in 1..n, values \in Seq(Nat), n = Len(values), n \in Nat, v = values[k],
                  a = SubSeq(values, 1, k - 1)
        <5>2. had \o Append(a, v) = Append(had \o a, v)
          BY ONLY v \in Nat, had \in Seq(Nat), a \in Seq(Nat), NumbersJoined
        <5> QED BY ONLY <5>1, <5>2, v = values[k], a = SubSeq(values, 1, k - 1)
      <4>3. \A k \in 0..n : want[k] = IF g = f THEN had \o SubSeq(values, 1, k) ELSE had
        BY ONLY want = [k \in 0..n |-> IF g = f THEN had \o SubSeq(values, 1, k) ELSE had]
      <4> QED BY ONLY <2>8, <4>1, <4>2, <4>3
    <3> PICK P : P = {k \in 0..n : Values(ty, g, now[k]) = want[k]}
      OBVIOUS
    <3>3. 0 \in P
      BY ONLY <3>1, <3>2, n \in Nat, had = Values(ty, g, items),
              P = {k \in 0..n : Values(ty, g, now[k]) = want[k]}
    <3>4. ASSUME NEW k \in 1..n, k - 1 \in P PROVE k \in P
      <4>1. Values(ty, g, now[k - 1]) = want[k - 1] /\ k \in 0..n
        BY ONLY <3>4, n \in Nat, P = {j \in 0..n : Values(ty, g, now[j]) = want[j]}
      <4>2. Values(ty, g, Append(now[k - 1], new[k])) = Added(ty, g, Values(ty, g, now[k - 1]), new[k])
        BY ONLY <1>0, <2>4, <3>1, k \in 1..n, ValuesAppend
      <4>3. Fills(ty, g, new[k]) <=> g = f
        BY ONLY <2>4, <2>6, k \in 1..n, g \in FieldsOf(ty) \ ty.hidden
      <4>4. Values(ty, g, now[k]) = want[k]
        BY ONLY <2>4, <3>1, <3>2, <4>1, <4>2, <4>3, k \in 1..n DEF Added
      <4> QED BY ONLY <4>1, <4>4, P = {j \in 0..n : Values(ty, g, now[j]) = want[j]}
    <3>5. \A k \in 0..n : k \in P
      BY ONLY n \in Nat, <3>3, <3>4, Upwards
    <3>6. n \in P
      BY ONLY <3>5, n \in Nat
    <3> QED BY ONLY <3>1, <3>2, <3>6, had = Values(ty, g, items),
                    P = {k \in 0..n : Values(ty, g, now[k]) = want[k]}
  <2> QED BY ONLY <1>2, <2>5, <2>7, T = GoodType(ty), new = Written(ty, f, values)
<1> QED BY ONLY <1>1, <1>2
\* All fields were written that are in the set.
AllWritten(ty, val, it, s) ==
  /\ it[s] \in Seq(GoodType(ty))
  /\ \A g \in FieldsOf(ty) \ ty.hidden :
        Values(ty, g, it[s]) = IF g \in s /\ ~Skipped(ty, g, val[g]) THEN val[g] ELSE <<>>

LEMMA EncodedIs ==
  ASSUME NEW ty, WellFormed(ty), NEW val, \A f \in FieldsOf(ty) : val[f] \in Seq(Nat)
  PROVE  /\ Encoded(ty, val) \in Seq(GoodType(ty))
         /\ \A g \in FieldsOf(ty) \ ty.hidden :
               Values(ty, g, Encoded(ty, val))
                 = IF Skipped(ty, g, val[g]) THEN <<>> ELSE val[g]
<1> PICK F : F = FieldsOf(ty)
  OBVIOUS
<1> PICK A : A = Seq(GoodType(ty))
  OBVIOUS
<1>0. IsFiniteSet(F) /\ \A f \in F : val[f] \in Seq(Nat)
  BY DEF WellFormed
<1> PICK written : written = [f \in F |-> Written(ty, f, val[f])]
  OBVIOUS
<1>1. ASSUME NEW f \in F
      PROVE  /\ written[f] \in A
             /\ \A items \in A, g \in F \ ty.hidden :
                  Values(ty, g, items \o written[f])
                    = IF g = f /\ ~Skipped(ty, f, val[f]) THEN Values(ty, g, items) \o val[f]
                      ELSE Values(ty, g, items)
  <2>1. written[f] = Written(ty, f, val[f])
    OBVIOUS
  <2> PICK values \in Seq(Nat) : values = val[f]
    BY <1>0
  <2>2. /\ Written(ty, f, values) \in A
        /\ \A items \in A, g \in F \ ty.hidden :
              Values(ty, g, items \o Written(ty, f, values))
                = IF g = f /\ ~Skipped(ty, f, values) THEN Values(ty, g, items) \o values
                  ELSE Values(ty, g, items)
    BY ONLY F = FieldsOf(ty), f \in F, A = Seq(GoodType(ty)), WellFormed(ty), values \in Seq(Nat), WrittenIs
  <2> QED BY ONLY <2>1, <2>2, values = val[f]
<1> PICK Choose : Choose = [s \in SUBSET F |-> CHOOSE x \in s : TRUE]
  OBVIOUS
<1>2. \A s \in SUBSET F : s # {} =>
         Choose[s] = (CHOOSE x \in s : TRUE) /\ Choose[s] \in s /\ Choose[s] \in F
  BY ONLY Choose = [s \in SUBSET F |-> CHOOSE x \in s : TRUE]
<1> DEFINE Joins(it) == it = [s \in SUBSET F |->
             IF s = {} THEN <<>>
             ELSE it[s \ {CHOOSE x \in s : TRUE}]
                    \o Written(ty, CHOOSE x \in s : TRUE, val[CHOOSE x \in s : TRUE])]
<1> PICK it : it = CHOOSE g : Joins(g)
  OBVIOUS
<1>3. Encoded(ty, val) = it[F]
  BY DEF Encoded, FoldSet, MapThenFoldSet
<1>4. ASSUME NEW g
      PROVE  Joins(g) <=> g = [s \in SUBSET F |-> IF s = {} THEN <<>>
                                 ELSE g[s \ {Choose[s]}] \o written[Choose[s]]]
  <2>1. ASSUME NEW s \in SUBSET F, s # {}
        PROVE  g[s \ {CHOOSE x \in s : TRUE}]
                    \o Written(ty, CHOOSE x \in s : TRUE, val[CHOOSE x \in s : TRUE])
                 = g[s \ {Choose[s]}] \o written[Choose[s]]
    <3> PICK m : m = CHOOSE x \in s : TRUE
      OBVIOUS
    <3>1. Choose[s] = m /\ m \in F
      BY ONLY <1>2, <2>1, m = CHOOSE x \in s : TRUE
    <3>2. written[m] = Written(ty, m, val[m])
      BY ONLY <3>1, written = [f \in F |-> Written(ty, f, val[f])]
    <3> QED BY ONLY <3>1, <3>2, m = CHOOSE x \in s : TRUE, Zenon
  <2>2. [s \in SUBSET F |->
             IF s = {} THEN <<>>
             ELSE g[s \ {CHOOSE x \in s : TRUE}]
                    \o Written(ty, CHOOSE x \in s : TRUE, val[CHOOSE x \in s : TRUE])]
        = [s \in SUBSET F |-> IF s = {} THEN <<>> ELSE g[s \ {Choose[s]}] \o written[Choose[s]]]
    BY ONLY <2>1
  <2> QED BY ONLY <2>2, Zenon
<1> HIDE DEF Joins
<1>5. \E g : Joins(g)
  <2> PICK Step : Step = [p \in F \X A |-> p[2] \o written[p[1]]]
    OBVIOUS
  <2>1. ASSUME NEW x \in F, NEW a \in A
        PROVE  Step[<<x, a>>] = a \o written[x] /\ Step[<<x, a>>] \in A
    <3>1. Step[<<x, a>>] = a \o written[x]
      BY ONLY x \in F, a \in A, Step = [p \in F \X A |-> p[2] \o written[p[1]]]
    <3>2. a \o written[x] \in A
      BY ONLY <1>1, x \in F, a \in A, A = Seq(GoodType(ty))
    <3> QED BY ONLY <3>1, <3>2
  <2>2. Folding(F, A, Choose, Step) /\ <<>> \in A
    <3>1. <<>> \in A
      BY ONLY A = Seq(GoodType(ty))
    <3> QED BY ONLY <1>2, <2>1, <3>1 DEF Folding
  <2>3. PICK g \in [SUBSET F -> A] : Folded(g, F, <<>>, Choose, Step)
    BY ONLY <1>0, <2>2, FoldSolves
  <2>4. ASSUME NEW s \in SUBSET F
        PROVE  g[s] = IF s = {} THEN <<>> ELSE g[s \ {Choose[s]}] \o written[Choose[s]]
    <3>1. CASE s = {}
      BY ONLY <2>3, <3>1 DEF Folded
    <3>2. CASE s # {}
      <4>1. g[s] = Step[<<Choose[s], g[s \ {Choose[s]}]>>]
        BY ONLY <2>3, <3>2, s \in SUBSET F DEF Folded
      <4>2. Choose[s] \in F /\ g[s \ {Choose[s]}] \in A
        BY ONLY <1>2, <2>3, <3>2, s \in SUBSET F
      <4> QED BY ONLY <2>1, <3>2, <4>1, <4>2
    <3> QED BY ONLY <3>1, <3>2
  <2>5. g = [s \in SUBSET F |-> IF s = {} THEN <<>> ELSE g[s \ {Choose[s]}] \o written[Choose[s]]]
    BY ONLY <2>3, <2>4
  <2> QED BY ONLY <1>4, <2>5
<1>6. it = [s \in SUBSET F |-> IF s = {} THEN <<>> ELSE it[s \ {Choose[s]}] \o written[Choose[s]]]
  BY ONLY <1>4, <1>5, it = CHOOSE g : Joins(g)
<1>7. AllWritten(ty, val, it, {})
  <2>1. it[{}] = <<>>
    BY ONLY <1>6
  <2>2. <<>> \in Seq(GoodType(ty))
    OBVIOUS
  <2> QED BY ONLY <2>1, <2>2, ValuesEmpty DEF AllWritten
<1>8. ASSUME NEW s \in SUBSET F, s # {}, AllWritten(ty, val, it, s \ {Choose[s]})
      PROVE  AllWritten(ty, val, it, s)
  <2> PICK m \in F : m = Choose[s]
    BY ONLY <1>2, <1>8
  <2> PICK r : r = s \ {m}
    OBVIOUS
  <2>1. it[s] = it[r] \o written[m]
    BY ONLY ZenonT(30), <1>6, <1>8, m = Choose[s], r = s \ {m}
  <2>2. /\ it[r] \in A
        /\ \A g \in F \ ty.hidden :
              Values(ty, g, it[r]) = IF g \in r /\ ~Skipped(ty, g, val[g]) THEN val[g] ELSE <<>>
    BY ONLY <1>8, m = Choose[s], r = s \ {m}, F = FieldsOf(ty), A = Seq(GoodType(ty)) DEF AllWritten
  <2>3. it[s] \in Seq(GoodType(ty))
    BY ONLY <1>1, <2>1, <2>2, m \in F, A = Seq(GoodType(ty))
  <2>4. ASSUME NEW g \in F \ ty.hidden
        PROVE  Values(ty, g, it[s]) = IF g \in s /\ ~Skipped(ty, g, val[g]) THEN val[g] ELSE <<>>
    <3> PICK vs : vs = Values(ty, g, it[r])
      OBVIOUS
    <3>1. Values(ty, g, it[s]) = IF g = m /\ ~Skipped(ty, m, val[m]) THEN vs \o val[m] ELSE vs
      BY ONLY <1>1, <2>1, <2>2, m \in F, g \in F \ ty.hidden, vs = Values(ty, g, it[r])
    <3>2. vs = IF g \in r /\ ~Skipped(ty, g, val[g]) THEN val[g] ELSE <<>>
      BY ONLY <2>2, g \in F \ ty.hidden, vs = Values(ty, g, it[r])
    <3>3. <<>> \o val[m] = val[m]
      BY ONLY <1>0, m \in F
    <3>4. m \in s
      BY ONLY <1>2, <1>8, m = Choose[s]
    <3> QED BY ONLY <3>1, <3>2, <3>3, <3>4, r = s \ {m}
  <2> QED BY ONLY <2>3, <2>4, F = FieldsOf(ty) DEF AllWritten
<1>9. AllWritten(ty, val, it, F)
  <2> PICK n \in Nat : n = Cardinality(F)
    BY ONLY <1>0, FS_CardinalityType
  <2> PICK P : P = {k \in 0..n : \A s \in SUBSET F : Cardinality(s) = k => AllWritten(ty, val, it, s)}
    OBVIOUS
  <2>1. \A s \in SUBSET F : IsFiniteSet(s) /\ (Cardinality(s) = 0 => s = {})
    <3>1. ASSUME NEW s \in SUBSET F PROVE IsFiniteSet(s)
      BY ONLY <1>0, s \in SUBSET F, FS_Subset
    <3> QED BY ONLY <3>1, FS_EmptySet
  <2>2. 0 \in P
    <3>1. 0 \in 0..n
      BY ONLY n \in Nat
    <3> QED BY ONLY <1>7, <2>1, <3>1,
                P = {k \in 0..n : \A s \in SUBSET F : Cardinality(s) = k => AllWritten(ty, val, it, s)}
  <2>3. ASSUME NEW k \in 1..n, k - 1 \in P PROVE k \in P
    <3>1. ASSUME NEW s \in SUBSET F, Cardinality(s) = k PROVE AllWritten(ty, val, it, s)
      <4>1. IsFiniteSet(s) /\ s # {} /\ k \in Nat /\ k >= 1
        <5>1. k \in Nat /\ k # 0 /\ k >= 1
          BY ONLY k \in 1..n, n \in Nat
        <5> QED BY ONLY <2>1, <3>1, <5>1, FS_EmptySet
      <4>2. Choose[s] \in s
        BY ONLY <1>2, <4>1, s \in SUBSET F
      <4>3. Cardinality(s \ {Choose[s]}) = k - 1
        BY ONLY <3>1, <4>1, <4>2, FS_RemoveElement
      <4>4. s \ {Choose[s]} \in SUBSET F
        BY ONLY s \in SUBSET F
      <4>5. AllWritten(ty, val, it, s \ {Choose[s]})
        BY ONLY <2>3, <4>3, <4>4,
                P = {j \in 0..n : \A w \in SUBSET F : Cardinality(w) = j => AllWritten(ty, val, it, w)}
      <4> QED BY ONLY <1>8, <4>1, <4>5, s \in SUBSET F
    <3>2. k \in 0..n
      BY ONLY k \in 1..n, n \in Nat
    <3> QED BY ONLY <3>1, <3>2,
                P = {j \in 0..n : \A w \in SUBSET F : Cardinality(w) = j => AllWritten(ty, val, it, w)}
  <2>4. \A k \in 0..n : k \in P
    BY ONLY n \in Nat, <2>2, <2>3, Upwards
  <2>5. n \in P
    BY ONLY <2>4, n \in Nat
  <2> QED BY ONLY <2>5, n = Cardinality(F),
              P = {k \in 0..n : \A s \in SUBSET F : Cardinality(s) = k => AllWritten(ty, val, it, s)}
<1> QED BY ONLY <1>3, <1>9, F = FieldsOf(ty) DEF AllWritten

-----------------------------------------------------------------------------
(* What is encoded decodes to it *)

\* What a plain field and a pointer hold.
LEMMA OldIs ==
  ASSUME NEW ty, WellFormed(ty), NEW old \in {Fresh(ty), Filled(ty)}
  PROVE  /\ old \in ValueType(ty)
         /\ \A f \in Plain(ty) : \E x \in Nat : old[f] = <<x>>
         /\ \A f \in ty.pointers : old[f] = <<>> \/ \E x \in Nat : old[f] = <<x>>
<1> PICK m \in Nat : m = MaxItems + 1
  BY DocumentsAssumption DEF DocumentsAssumption
<1>1. Filled(ty) = [f \in FieldsOf(ty) |-> <<m>>]
  BY ONLY m = MaxItems + 1 DEF Filled
<1>2. <<m>> \in Seq(Nat) /\ <<0>> \in Seq(Nat)
  OBVIOUS
<1>3. Plain(ty) \subseteq FieldsOf(ty) /\ ty.pointers \subseteq FieldsOf(ty)
      /\ Plain(ty) \cap ty.pointers = {}
  BY DEF FieldsOf, WellFormed
<1>4. CASE old = Fresh(ty)
  <2>1. old \in ValueType(ty)
    BY <1>4, FreshTyped
  <2>2. \A f \in FieldsOf(ty) : old[f] = IF f \in Plain(ty) THEN <<0>> ELSE <<>>
    BY ONLY <1>4 DEF Fresh
  <2>3. 0 \in Nat
    OBVIOUS
  <2> QED BY ONLY <1>3, <2>1, <2>2, <2>3
<1>5. CASE old = Filled(ty)
  <2>1. old \in ValueType(ty)
    BY ONLY <1>1, <1>2, <1>5 DEF ValueType
  <2>2. \A f \in FieldsOf(ty) : old[f] = <<m>>
    BY ONLY <1>1, <1>5
  <2> QED BY ONLY <1>3, <2>1, <2>2, m \in Nat
<1> QED BY <1>4, <1>5

LEMMA SoFarIs ==
  ASSUME NEW ty, WellFormed(ty), NEW old \in {Fresh(ty), Filled(ty)},
         NEW items \in Seq(ItemType(ty)), NEW f \in FieldsOf(ty)
  PROVE  /\ SoFar(ty, old, items, f) \in Seq(Nat)
         /\ f \in Plain(ty) => \E x \in Nat : SoFar(ty, old, items, f) = <<x>>
         /\ f \in ty.pointers => \/ SoFar(ty, old, items, f) = <<>>
                                 \/ \E x \in Nat : SoFar(ty, old, items, f) = <<x>>
<1> PICK o \in Seq(Nat) : o = old[f]
  BY OldIs DEF ValueType
<1> PICK vs \in Seq(Nat) : vs = Values(ty, f, items)
  <2>1. \A i \in ItemType(ty) : i.value \in Nat
    BY ItemValues
  <2>2. Values(ty, f, items) \in Seq(Nat)
    BY ONLY <2>1, items \in Seq(ItemType(ty)), ValuesTyped
  <2> QED BY ONLY <2>2
<1>1. /\ f \in Plain(ty) => \E x \in Nat : o = <<x>>
      /\ f \in ty.pointers => o = <<>> \/ \E x \in Nat : o = <<x>>
  BY OldIs
<1>2. f \in Plain(ty) \cup ty.pointers => f \notin ty.lists
  BY DEF WellFormed
<1>3. ty.text \subseteq Plain(ty)
  BY DEF WellFormed
<1>4. o \o vs \in Seq(Nat) /\ <<0>> \in Seq(Nat) /\ 0 \in Nat
      /\ (vs # <<>> => Last(vs) \in Nat /\ <<Last(vs)>> \in Seq(Nat))
  <2>1. o \o vs \in Seq(Nat) /\ <<0>> \in Seq(Nat) /\ 0 \in Nat
    OBVIOUS
  <2>2. ASSUME vs # <<>> PROVE Last(vs) \in Nat /\ <<Last(vs)>> \in Seq(Nat)
    <3>1. Last(vs) \in Nat
      BY ONLY <2>2, vs \in Seq(Nat) DEF Last
    <3> QED BY ONLY <3>1
  <2> QED BY ONLY <2>1, <2>2
<1>5. SoFar(ty, old, items, f)
        = IF ~Kept(ty, old, f) THEN o
          ELSE IF f \in ty.lists THEN o \o vs
          ELSE IF vs # <<>> THEN <<Last(vs)>>
          ELSE IF f \in ty.text THEN <<0>> ELSE o
  BY ONLY o = old[f], vs = Values(ty, f, items) DEF SoFar, Content
<1> QED BY ONLY <1>1, <1>2, <1>3, <1>4, <1>5, o \in Seq(Nat)

\* What is written of a decoded value decodes to it.
LEMMA EncodedAgain ==
  ASSUME NEW ty, WellFormed(ty), NEW old \in {Fresh(ty), Filled(ty)},
         NEW items \in Seq(ItemType(ty)), NEW val,
         \A f \in FieldsOf(ty) : val[f] = SoFar(ty, old, items, f),
         NEW f \in FieldsOf(ty) \ (ty.hidden \cup ty.copied)
  PROVE  DecodedFresh(ty, Encoded(ty, val))[f] = val[f]
<1> PICK enc : enc = Encoded(ty, val)
  OBVIOUS
<1>1. \A g \in FieldsOf(ty) : val[g] \in Seq(Nat)
  BY SoFarIs
<1> PICK v \in Seq(Nat) : v = val[f]
  BY <1>1
<1>2. enc \in Seq(GoodType(ty)) /\ Values(ty, f, enc) = IF Skipped(ty, f, v) THEN <<>> ELSE v
  BY <1>1, EncodedIs
<1>3. DecodedFresh(ty, enc)[f] = SoFar(ty, Fresh(ty), enc, f)
  BY <1>2, DecodedIs
<1> PICK vs : vs = Values(ty, f, enc)
  OBVIOUS
<1> PICK z : z = Fresh(ty)[f]
  OBVIOUS
<1>4. /\ f \in FieldsOf(ty) /\ f \notin ty.hidden /\ f \notin ty.copied
      /\ z = IF f \in Plain(ty) THEN <<0>> ELSE <<>>
  BY ONLY f \in FieldsOf(ty) \ (ty.hidden \cup ty.copied), z = Fresh(ty)[f] DEF Fresh
<1>5. SoFar(ty, Fresh(ty), enc, f)
        = IF f \in ty.lists THEN z \o vs
          ELSE IF vs # <<>> THEN <<Last(vs)>>
          ELSE IF f \in ty.text THEN <<0>> ELSE z
  BY ONLY <1>4, vs = Values(ty, f, enc), z = Fresh(ty)[f] DEF SoFar, Kept, Content
<1>6. /\ f \in Plain(ty) => \E x \in Nat : v = <<x>>
      /\ f \in ty.pointers => v = <<>> \/ \E x \in Nat : v = <<x>>
  BY SoFarIs
<1>7. /\ f \in ty.lists \/ f \in Plain(ty) \/ f \in ty.pointers
      /\ f \in ty.lists => f \notin Plain(ty) /\ f \notin ty.pointers /\ f \notin ty.times
      /\ f \in Plain(ty) => f \notin ty.pointers
      /\ ty.text \subseteq Plain(ty) /\ ty.omitted \subseteq Plain(ty)
  BY DEF FieldsOf, WellFormed, Plain
<1>8. \A x \in Nat : <<x>> # <<>> /\ Last(<<x>>) = x
  BY DEF Last
<1>9. CASE f \in ty.lists
  <2>1. ~Skipped(ty, f, v)
    BY ONLY <1>4, <1>7, <1>9 DEF Skipped
  <2>2. <<>> \o v = v
    OBVIOUS
  <2> QED BY ONLY <1>2, <1>3, <1>4, <1>5, <1>7, <1>9, <2>1, <2>2, enc = Encoded(ty, val), v = val[f],
                  vs = Values(ty, f, enc)
<1>10. CASE f \in Plain(ty)
  <2> PICK x \in Nat : v = <<x>>
    BY ONLY <1>6, <1>10
  <2>1. CASE Skipped(ty, f, v)
    <3>1. v = <<0>> /\ vs = <<>>
      BY ONLY <1>2, <1>4, <2>1, vs = Values(ty, f, enc) DEF Skipped
    <3> QED BY ONLY <1>3, <1>4, <1>5, <1>7, <1>10, <3>1, enc = Encoded(ty, val), v = val[f]
  <2>2. CASE ~Skipped(ty, f, v)
    <3>1. vs = v /\ v # <<>> /\ <<Last(v)>> = v
      BY ONLY <1>2, <1>8, <2>2, vs = Values(ty, f, enc), x \in Nat, v = <<x>>
    <3> QED BY ONLY <1>3, <1>5, <1>7, <1>10, <3>1, enc = Encoded(ty, val), v = val[f]
  <2> QED BY ONLY <2>1, <2>2
<1>11. CASE f \in ty.pointers
  <2>1. vs = v
    BY ONLY <1>2, <1>4, <1>11, vs = Values(ty, f, enc) DEF Skipped
  <2>2. v = <<>> \/ (v # <<>> /\ <<Last(v)>> = v)
    BY ONLY <1>6, <1>8, <1>11
  <2> QED BY ONLY <1>3, <1>4, <1>5, <1>7, <1>11, <2>1, <2>2, enc = Encoded(ty, val), v = val[f]
<1> QED BY ONLY <1>7, <1>9, <1>10, <1>11

-----------------------------------------------------------------------------
(* Decoding and encoding *)

\* A decoded value, and one of which an item was refused.
Complete(ty, old, items, val) ==
  items \in Seq(ItemType(ty)) /\ \A f \in FieldsOf(ty) : val[f] = SoFar(ty, old, items, f)

Refused(items) == {items[k].field : k \in {l \in DOMAIN items : ~items[l].good}}

Broken(ty, old, items, val) ==
  \A f \in FieldsOf(ty) \ (ty.text \cup Refused(items)) : val[f] = SoFar(ty, old, items, f)

\* The value and its overlay hold the items that were read, until one is refused
\* or the document ends.
DocInv ==
  /\ status \in {"idle", "reading", "failed", "done", "encoded"}
  /\ status = "idle" <=> type = "none"
  /\ status = "idle" => doc = <<>>
  /\ status # "idle" =>
       type \in Names /\ WellFormed(t) /\ before \in {Fresh(t), Filled(t)}
  /\ status = "reading" => HasRead(t, before, doc, state) /\ state.ok
  /\ status \in {"done", "encoded"} => Complete(t, before, doc, state.val)
  /\ status = "failed" => Broken(t, before, doc, state.val)
  /\ status = "encoded" =>
       \A f \in FieldsOf(t) \ (t.hidden \cup t.copied) : again[f] = state.val[f]

\* The next item, refused or not.
LEMMA NextItemReads ==
  ASSUME NEW ty, WellFormed(ty), NEW old \in ValueType(ty), NEW items, NEW s,
         HasRead(ty, old, items, s), s.ok, NEW item \in ItemType(ty),
         item.field \notin Bound(ty) \cup ty.text => item.good,
         NEW r, r = ReadItem(ty, s, item)
  PROVE  /\ r.ok => HasRead(ty, old, Append(items, item), r)
         /\ ~r.ok => Broken(ty, old, Append(items, item), r.val)
<1>1. CASE item.field \in Bound(ty)
  <2>1. /\ r.ok = item.good
        /\ \A f \in FieldsOf(ty) \ (ty.text \cup {item.field}) :
              r.val[f] = SoFar(ty, old, Append(items, item), f)
        /\ item.good => HasRead(ty, old, Append(items, item), r)
    BY <1>1, BoundReads
  <2>2. ASSUME ~item.good
        PROVE  item.field \in Refused(Append(items, item))
    <3> PICK n \in Nat : n = Len(items) + 1
      BY DEF HasRead
    <3>1. n \in DOMAIN Append(items, item) /\ Append(items, item)[n] = item
      BY DEF HasRead
    <3> QED BY ONLY <2>2, <3>1, Zenon DEF Refused
  <2> QED BY ONLY <2>1, <2>2 DEF Broken
<1>2. CASE item.field \in ty.text
  BY <1>2, TextReads
<1>3. CASE item.field \in ty.hidden \cup {Unknown}
  BY <1>3, UnknownReads
<1> QED BY ONLY <1>1, <1>2, <1>3, item \in ItemType(ty) DEF ItemType

LEMMA DocInvInit ==
  ASSUME DocInit
  PROVE  DocInv
BY DEF DocInit, DocInv

LEMMA DocInvStep ==
  ASSUME DocInv, DocNext
  PROVE  DocInv'
<1>1. CASE Decode
  <2>1. status = "idle" /\ doc = <<>> /\ doc' = <<>> /\ status' = "reading"
    BY <1>1 DEF Decode, DocIdle, DocInv
  <2>2. PICK n \in Names : /\ type' = n
                           /\ before' \in {Fresh(Types[n]), Filled(Types[n])}
                           /\ state' = Start(Types[n], before')
    BY <1>1 DEF Decode
  <2> PICK ty : ty = Types[n]
    OBVIOUS
  <2>3. WellFormed(ty) /\ t' = ty /\ type' \in Names
    BY <2>2, TypesAssumption DEF t
  <2>4. before' \in {Fresh(ty), Filled(ty)} /\ before' \in ValueType(ty)
    BY <2>2, <2>3, OldIs
  <2>5. HasRead(ty, before', doc', state') /\ state'.ok
    BY <2>1, <2>2, <2>3, <2>4, StartReads
  <2>6. type' # "none"
    BY <2>2, DocumentsAssumption DEF DocumentsAssumption
  <2> QED BY ONLY <2>1, <2>3, <2>4, <2>5, <2>6 DEF DocInv
<1>2. CASE ReadNext
  <2>1. /\ status = "reading" /\ type' = type /\ before' = before /\ again' = again
        /\ status' = IF state'.ok THEN "reading" ELSE "failed"
    BY <1>2 DEF ReadNext
  <2> PICK ty : ty = t
    OBVIOUS
  <2>2. /\ t' = ty /\ WellFormed(ty) /\ type \in Names /\ type # "none"
        /\ before \in {Fresh(ty), Filled(ty)} /\ HasRead(ty, before, doc, state) /\ state.ok
    BY <2>1 DEF DocInv, t
  <2>3. PICK f \in Bound(ty) \cup ty.text \cup ty.hidden \cup {Unknown}, good \in BOOLEAN :
           /\ f \notin Bound(ty) \cup ty.text => good
           /\ doc' = Append(doc, Item(f, Len(doc) + 1, good))
           /\ state' = ReadItem(ty, state, Item(f, Len(doc) + 1, good))
    BY <1>2 DEF ReadNext
  <2> PICK item : item = Item(f, Len(doc) + 1, good)
    OBVIOUS
  <2>4. item \in ItemType(ty) /\ item.field = f /\ item.good = good
    <3>1. Len(doc) + 1 \in Nat
      BY <2>2 DEF HasRead
    <3> QED BY ONLY <3>1, item = Item(f, Len(doc) + 1, good), good \in BOOLEAN,
                    f \in Bound(ty) \cup ty.text \cup ty.hidden \cup {Unknown} DEF Item, ItemType
  <2>5. before \in ValueType(ty)
    BY <2>2, OldIs
  <2>6. /\ state'.ok => HasRead(ty, before, doc', state')
        /\ ~state'.ok => Broken(ty, before, doc', state'.val)
    BY ONLY <2>2, <2>3, <2>4, <2>5, item = Item(f, Len(doc) + 1, good), NextItemReads
  <2> QED BY ONLY <2>1, <2>2, <2>6 DEF DocInv
<1>3. CASE Finish
  <2>1. /\ status = "reading" /\ type' = type /\ before' = before /\ again' = again /\ doc' = doc
        /\ state' = ReadEnd(t, state)
        /\ status' = IF state'.ok THEN "done" ELSE "failed"
    BY <1>3 DEF Finish
  <2> PICK ty : ty = t
    OBVIOUS
  <2>2. /\ t' = ty /\ WellFormed(ty) /\ type \in Names /\ type # "none"
        /\ before \in {Fresh(ty), Filled(ty)} /\ HasRead(ty, before, doc, state) /\ state.ok
    BY <2>1 DEF DocInv, t
  <2>3. before \in ValueType(ty) /\ doc \in Seq(ItemType(ty))
    BY <2>2, OldIs DEF HasRead
  <2>4. /\ state.text # <<>> /\ ~state.text[1].good => ~state'.ok /\ state'.val = state.val
        /\ ~(state.text # <<>> /\ ~state.text[1].good) =>
              state'.ok = state.ok /\ \A f \in FieldsOf(ty) : state'.val[f] = SoFar(ty, before, doc, f)
    <3>1. state' = ReadEnd(ty, state)
      BY <2>1
    <3> PICK old \in ValueType(ty) : old = before
      BY <2>3
    <3> PICK r : r = state'
      OBVIOUS
    <3> PICK s : s = state
      OBVIOUS
    <3> PICK items : items = doc
      OBVIOUS
    <3>2. HasRead(ty, old, items, s) /\ WellFormed(ty) /\ r = ReadEnd(ty, s)
      BY ONLY <2>2, <3>1, old = before, r = state', s = state, items = doc
    <3>3. /\ s.text # <<>> /\ ~s.text[1].good => ~r.ok /\ r.val = s.val
          /\ ~(s.text # <<>> /\ ~s.text[1].good) =>
                r.ok = s.ok /\ \A f \in FieldsOf(ty) : r.val[f] = SoFar(ty, old, items, f)
      BY ONLY <3>2, old \in ValueType(ty), EndReads
    <3> QED BY ONLY <3>3, old = before, r = state', s = state, items = doc
  <2>5. \A f \in FieldsOf(ty) \ ty.text : state.val[f] = SoFar(ty, before, doc, f)
    BY ONLY <2>2 DEF HasRead
  <2>6. /\ state'.ok => Complete(ty, before, doc, state'.val)
        /\ ~state'.ok => Broken(ty, before, doc, state'.val)
    BY ONLY <2>2, <2>3, <2>4, <2>5 DEF Complete, Broken
  <2> QED BY ONLY <2>1, <2>2, <2>6 DEF DocInv
<1>4. CASE EncodeAgain
  <2>1. /\ status = "done" /\ type' = type /\ before' = before /\ doc' = doc /\ state' = state
        /\ again' = DecodedFresh(t, Encoded(t, state.val)) /\ status' = "encoded"
    BY <1>4 DEF EncodeAgain
  <2> PICK ty : ty = t
    OBVIOUS
  <2>2. /\ t' = ty /\ WellFormed(ty) /\ type \in Names /\ type # "none"
        /\ before \in {Fresh(ty), Filled(ty)} /\ Complete(ty, before, doc, state.val)
    BY <2>1 DEF DocInv, t
  <2>3. \A f \in FieldsOf(ty) \ (ty.hidden \cup ty.copied) : again'[f] = state.val[f]
    BY <2>1, <2>2, EncodedAgain DEF Complete
  <2> QED BY ONLY <2>1, <2>2, <2>3 DEF DocInv
<1>5. CASE DocReturn
  BY <1>5 DEF DocReturn, DocInv
<1> QED BY ONLY <1>1, <1>2, <1>3, <1>4, <1>5, DocNext DEF DocNext

LEMMA DocInvExact ==
  ASSUME DocInv
  PROVE  DocumentsExact
<1>1. \A f \in FieldsOf(t) \ (t.hidden \cup Detached) : Kept(t, before, f)
  BY DEF Detached, Kept
<1>2. \A f \in FieldsOf(t) : f \notin FieldsOf(t) \ (t.hidden \cup Detached) => ~Kept(t, before, f)
  BY DEF Detached, Kept
<1>3. /\ status \in {"done", "encoded"} =>
           \A f \in FieldsOf(t) : state.val[f] = SoFar(t, before, doc, f)
      /\ status = "failed" =>
           \A f \in FieldsOf(t) \ (t.text \cup Refused(doc)) : state.val[f] = SoFar(t, before, doc, f)
      /\ status = "encoded" =>
           \A f \in FieldsOf(t) \ (t.hidden \cup t.copied) : again[f] = state.val[f]
  BY DEF DocInv, Complete, Broken
<1> QED BY ONLY <1>1, <1>2, <1>3, Zenon DEF DocumentsExact, SoFar, Refused

\* For all documents and types: a value decoded by an UnmarshalXML with an
\* overlay holds the items of the document, all but the fields that the code
\* copies while nil or hides; one whose decoding failed holds what was there
\* before the faulty item, all but the text; and what MarshalXML writes of it decodes to the same value.
THEOREM DocumentsIsExact == ConversionsSpec => []DocumentsExact
<1>1. ConversionsInit => DocInv
  BY DocInvInit DEF ConversionsInit
<1>2. DocInv /\ [ConversionsNext]_<<docVars, convVars>> => DocInv'
  <2> SUFFICES ASSUME DocInv, [ConversionsNext]_<<docVars, convVars>> PROVE DocInv'
    OBVIOUS
  <2>1. CASE DocNext
    BY <2>1, DocInvStep
  <2>2. CASE UNCHANGED docVars
    BY <2>2 DEF DocInv, docVars, t
  <2>3. DocNext \/ UNCHANGED docVars
    BY DEF ConversionsNext, Convert, Return, Document, WriteRanges, ReadRanges, WriteRows, ReadRows,
           Keys, WriteDuration, ReadDuration, WriteTime, ReadTime, WriteRecurrence, ReadRecurrence,
           Calls
  <2> QED BY ONLY <2>1, <2>2, <2>3
<1>3. DocInv => DocumentsExact
  BY DocInvExact
<1> QED BY <1>1, <1>2, <1>3, PTL DEF ConversionsSpec


-----------------------------------------------------------------------------
(* Ranges that are read *)

Writable ==
  {r \in RangeType : /\ 0 <= r.start /\ r.start <= MaxInt /\ r.end <= MaxInt
                     /\ r.end = -1 \/ r.start <= r.end}

LEMMA ReadRangeTyped ==
  ASSUME NEW p \in PieceType
  PROVE  ReadRange(p).value \in RangeType
<1>1. MaxInt \in Int
  BY RangesAssumption DEF RangesAssumption
<1>2. Interval(0, 0) \in RangeType /\ \A x, y \in Int : Interval(x, y) \in RangeType
  BY DEF Interval, RangeType
<1>3. \A x : Ok(x).value = x /\ Error(x).value = x
  BY DEF Ok, Error
<1>4. ASSUME NEW q, q.first \in Int, q.last \in Int
      PROVE  Limits(q).value \in RangeType
  <2> PICK a, b \in Int : q.first = a /\ q.last = b
    BY <1>4
  <2>1. ParseInt(b) \in Int
    BY <1>1 DEF ParseInt, Least
  <2> PICK e \in Int : e = IF b # Absent THEN ParseInt(b) ELSE IF q.dash THEN -1 ELSE a
    BY <2>1
  <2>2. Limits(q) = IF ~Fits(a) THEN Error(Interval(0, 0)) ELSE Ok(Interval(a, e))
    BY DEF Limits
  <2> QED BY ONLY <1>2, <1>3, <2>2, a \in Int, e \in Int
<1>5. p.first \in Int /\ p.last \in Int /\ p.length \in Int
  BY DEF PieceType, Absent
<1> PICK n \in Int : n = Leftmost(p)
  BY <1>5 DEF Leftmost
<1> PICK q : q = Piece(n, FALSE, Absent)
  OBVIOUS
<1>6. q.first \in Int /\ q.last \in Int
  BY DEF Piece, Absent
<1>7. Limits(p).value \in RangeType /\ Limits(q).value \in RangeType
  BY ONLY <1>4, <1>5, <1>6
<1>8. ReadRange(p) \in {Limits(p), Limits(q), Ok(Interval(0, 0))}
  BY DEF ReadRange
<1> QED BY ONLY <1>2, <1>3, <1>7, <1>8

\* What is written of a range is read as the range.
LEMMA ReadWritten ==
  ASSUME NEW r \in Writable
  PROVE  /\ ReadRange(WriteRange(r)) = Ok(r) /\ WriteRange(r) # Blank
         /\ WriteRange(r) \in PieceType
<1> PICK a, b \in Int : /\ r = Interval(a, b) /\ r.start = a /\ r.end = b
                        /\ 0 <= a /\ a <= MaxInt /\ b <= MaxInt /\ (b = -1 \/ a <= b)
  BY DEF Writable, RangeType, Interval
<1>1. MaxInt \in Nat
  BY RangesAssumption DEF RangesAssumption
<1>2. a \in Nat /\ a # Absent /\ Fits(a)
  BY DEF Absent, Fits
<1>3. b # Absent => b \in Nat /\ ParseInt(b) = b
  BY <1>1 DEF Absent, ParseInt, Least
<1> PICK p : p = WriteRange(r)
  OBVIOUS
<1>4. CASE a = b
  <2>1. p = Piece(a, FALSE, Absent)
    BY <1>4 DEF WriteRange
  <2>2. p.first = a /\ p.dash = FALSE /\ p.last = Absent
    BY <2>1 DEF Piece
  <2>3. ReadRange(p) = Ok(r)
    BY <1>2, <1>4, <2>2 DEF ReadRange, Limits
  <2>4. p \in PieceType /\ p # Blank
    BY <1>2, <2>1 DEF PieceType, Piece, Blank
  <2> QED BY <2>3, <2>4
<1>5. CASE a # b
  <2> PICK e : e = IF b = -1 THEN Absent ELSE b
    OBVIOUS
  <2>1. p = Piece(a, TRUE, e)
    BY <1>5 DEF WriteRange
  <2>2. p.first = a /\ p.dash = TRUE /\ p.last = e
    BY <2>1 DEF Piece
  <2>3. e = b /\ e \in Nat \cup {Absent}
    BY <1>3 DEF Absent
  <2>4. ReadRange(p) = Ok(Interval(a, IF e # Absent THEN ParseInt(e) ELSE -1))
    BY <1>2, <2>2 DEF ReadRange, Limits
  <2>5. (IF e # Absent THEN ParseInt(e) ELSE -1) = b
    BY <1>3, <2>3 DEF Absent
  <2>6. p \in PieceType /\ p # Blank
    BY <1>2, <2>1, <2>3 DEF PieceType, Piece, Blank
  <2> QED BY <2>4, <2>5, <2>6
<1> QED BY <1>4, <1>5

\* h has the list with the ranges of the first k pieces.
Reading(h, n, old, text) ==
  /\ h[0] = old
  /\ \A k \in 0..n : h[k] \in Seq(RangeType)
  /\ \A k \in 1..n : k - 1 \in 0..n /\ h[k] = Append(h[k - 1], ReadRange(text[k]).value)

LEMMA ReadAllSteps ==
  ASSUME NEW old \in Seq(RangeType), NEW n \in Nat, NEW text, DOMAIN text = 1..n,
         \A k \in 1..n : ReadRange(text[k]).value \in RangeType
  PROVE  \E h : Reading(h, n, old, text) /\ ReadAll(old, text) = h[n]
<1> DEFINE Adds(l, k) == Append(l, ReadRange(text[k]).value)
<1>1. ASSUME NEW k \in 1..n, NEW l \in Seq(RangeType)
      PROVE  Adds(l, k) \in Seq(RangeType)
  <2> PICK r \in RangeType : r = ReadRange(text[k]).value
    OBVIOUS
  <2>1. Append(l, r) \in Seq(RangeType)
    OBVIOUS
  <2> QED BY <2>1
<1> DEFINE Joins(g) == g = [s \in SUBSET DOMAIN text |->
                              IF s = {} THEN old ELSE Adds(g[s \ {Max(s)}], Max(s))]
<1> PICK it : it = CHOOSE g : Joins(g)
  OBVIOUS
<1>2. ReadAll(old, text) = it[DOMAIN text]
  BY DEF ReadAll, FoldLeft, MapThenFoldSet
<1>3. \A g : Joins(g) <=> g = [s \in SUBSET (1..n) |->
                              IF s = {} THEN old ELSE Adds(g[s \ {Max(s)}], Max(s))]
  OBVIOUS
<1> HIDE DEF Joins, Adds
<1>4. \E g : Joins(g)
  <2> PICK A : A = Seq(RangeType)
    OBVIOUS
  <2> PICK Step : Step = [p \in (1..n) \X A |-> Adds(p[2], p[1])]
    OBVIOUS
  <2>1. \A k \in 1..n, a \in A : Step[<<k, a>>] = Adds(a, k) /\ Step[<<k, a>>] \in A
    BY ONLY <1>1, A = Seq(RangeType), Step = [p \in (1..n) \X A |-> Adds(p[2], p[1])]
  <2>2. old \in A
    OBVIOUS
  <2>3. PICK g \in [SUBSET (1..n) -> A] : FoldsLeft(g, n, old, Step)
    BY ONLY n \in Nat, <2>1, <2>2, LeftSolves
  <2>4. ASSUME NEW s \in SUBSET (1..n)
        PROVE  g[s] = IF s = {} THEN old ELSE Adds(g[s \ {Max(s)}], Max(s))
    BY ONLY <2>1, <2>3, <2>4 DEF FoldsLeft
  <2>5. g = [s \in SUBSET (1..n) |-> IF s = {} THEN old ELSE Adds(g[s \ {Max(s)}], Max(s))]
    BY ONLY <2>3, <2>4
  <2> QED BY ONLY <1>3, <2>5
<1>5. it = [s \in SUBSET (1..n) |-> IF s = {} THEN old ELSE Adds(it[s \ {Max(s)}], Max(s))]
  BY ONLY <1>3, <1>4, it = CHOOSE g : Joins(g)
<1> PICK h : h = [k \in 0..n |-> it[1..k]]
  OBVIOUS
<1>6. h[0] = old
  <2>1. 1..0 = {} /\ {} \in SUBSET (1..n) /\ 0 \in 0..n
    OBVIOUS
  <2> QED BY ONLY <1>5, <2>1, h = [k \in 0..n |-> it[1..k]]
<1>7. ASSUME NEW k \in 1..n
      PROVE  k \in 0..n /\ k - 1 \in 0..n /\ h[k] = Adds(h[k - 1], k)
  <2>1. k \in 0..n /\ k - 1 \in 0..n /\ 1..k \in SUBSET (1..n)
    OBVIOUS
  <2>2. Max(1..k) = k /\ (1..k) \ {k} = 1..(k - 1) /\ 1..k # {}
    BY ONLY n \in Nat, k \in 1..n, MaxPosition
  <2>3. it[1..k] = Adds(it[1..(k - 1)], k)
    BY ONLY <1>5, <2>1, <2>2
  <2> QED BY ONLY <2>1, <2>3, h = [j \in 0..n |-> it[1..j]]
<1>8. \A k \in 0..n : h[k] \in Seq(RangeType)
  <2> PICK P : P = {k \in 0..n : h[k] \in Seq(RangeType)}
    OBVIOUS
  <2>1. 0 \in P
    BY <1>6
  <2>2. \A k \in 1..n : k - 1 \in P => k \in P
    BY ONLY <1>1, <1>7, P = {k \in 0..n : h[k] \in Seq(RangeType)}
  <2>3. \A k \in 0..n : k \in P
    BY ONLY n \in Nat, <2>1, <2>2, Upwards
  <2> QED BY ONLY <2>3, P = {k \in 0..n : h[k] \in Seq(RangeType)}
<1>9. ReadAll(old, text) = h[n]
  <2>1. n \in 0..n
    OBVIOUS
  <2> QED BY ONLY <1>2, <2>1, DOMAIN text = 1..n, h = [k \in 0..n |-> it[1..k]]
<1>10. Reading(h, n, old, text)
  BY ONLY <1>6, <1>7, <1>8 DEF Reading, Adds
<1> QED BY ONLY <1>9, <1>10

\* Each of n pieces is read as a range.
RangesRead(n, text) == DOMAIN text = 1..n /\ \A k \in 1..n : ReadRange(text[k]).value \in RangeType

\* l has the ranges of n pieces behind those of old.
ReadBehind(l, old, n, text) ==
  /\ l \in Seq(RangeType) /\ Len(l) = Len(old) + n
  /\ \A k \in 1..Len(old) : l[k] = old[k]
  /\ \A k \in 1..n : l[Len(old) + k] = ReadRange(text[k]).value

\* The ranges of a text go behind those that are there.
LEMMA ReadAllIs ==
  ASSUME NEW old \in Seq(RangeType), NEW n \in Nat, NEW text, RangesRead(n, text)
  PROVE  ReadBehind(ReadAll(old, text), old, n, text)
<1>0. DOMAIN text = 1..n /\ \A k \in 1..n : ReadRange(text[k]).value \in RangeType
  BY DEF RangesRead
<1> PICK h : Reading(h, n, old, text) /\ ReadAll(old, text) = h[n]
  BY <1>0, ReadAllSteps
<1> PICK o \in Nat : o = Len(old)
  OBVIOUS
<1> DEFINE Good(k) == /\ Len(h[k]) = o + k
                      /\ \A j \in 1..o : h[k][j] = old[j]
                      /\ \A j \in 1..k : h[k][o + j] = ReadRange(text[j]).value
<1> PICK P : P = {k \in 0..n : Good(k)}
  OBVIOUS
<1>1. 0 \in P
  <2>1. h[0] = old /\ 0 \in 0..n
    BY DEF Reading
  <2>2. Good(0)
    BY ONLY <2>1, o = Len(old), o \in Nat
  <2> QED BY ONLY <2>1, <2>2, P = {k \in 0..n : Good(k)}
<1>2. ASSUME NEW k \in 1..n, k - 1 \in P
      PROVE  k \in P
  <2> PICK g \in Seq(RangeType) : g = h[k - 1]
    BY DEF Reading
  <2> PICK r \in RangeType : r = ReadRange(text[k]).value
    BY <1>0
  <2> PICK l : l = h[k]
    OBVIOUS
  <2>1. l = Append(g, r)
    BY ONLY k \in 1..n, Reading(h, n, old, text), g = h[k - 1], l = h[k],
            r = ReadRange(text[k]).value DEF Reading
  <2>2. /\ Len(g) = o + (k - 1)
        /\ \A j \in 1..o : g[j] = old[j]
        /\ \A j \in 1..(k - 1) : g[o + j] = ReadRange(text[j]).value
    BY ONLY <1>2, g = h[k - 1], P = {j \in 0..n : Good(j)}
  <2>3. Len(l) = Len(g) + 1 /\ (\A j \in 1..Len(g) : l[j] = g[j]) /\ l[Len(g) + 1] = r
    BY ONLY <2>1, g \in Seq(RangeType), r \in RangeType, Appended
  <2>4. Len(l) = o + k /\ Len(g) + 1 = o + k
    BY ONLY <2>2, <2>3, k \in 1..n, o \in Nat, n \in Nat
  <2>5. \A j \in 1..o : j \in 1..Len(g)
    BY ONLY <2>2, k \in 1..n, o \in Nat, n \in Nat
  <2>6. \A j \in 1..k : j = k \/ (j \in 1..(k - 1) /\ o + j \in 1..Len(g))
    BY ONLY SMTT(30), <2>2, k \in 1..n, o \in Nat, n \in Nat
  <2>7. Good(k)
    BY ONLY <2>2, <2>3, <2>4, <2>5, <2>6, l = h[k], r = ReadRange(text[k]).value
  <2>8. k \in 0..n
    OBVIOUS
  <2> QED BY ONLY <2>7, <2>8, P = {j \in 0..n : Good(j)}
<1>3. n \in P
  <2>1. \A k \in 0..n : k \in P
    BY ONLY <1>1, <1>2, n \in Nat, Upwards
  <2> QED BY ONLY <2>1, n \in Nat
<1>4. Good(n)
  BY ONLY <1>3, P = {k \in 0..n : Good(k)}
<1>5. h[n] \in Seq(RangeType)
  BY ONLY n \in Nat, Reading(h, n, old, text) DEF Reading
<1> QED BY ONLY <1>4, <1>5, ReadAll(old, text) = h[n], o = Len(old) DEF ReadBehind

LEMMA TokensTyped ==
  ASSUME NEW text \in Seq(PieceType)
  PROVE  Tokens(text) \in Seq(PieceType)
<1>1. CASE text = <<>>
  BY <1>1 DEF Tokens
<1>2. CASE text # <<>>
  <2> PICK n \in Nat : Len(text) = n + 1
    BY <1>2
  <2>1. SubSeq(text, 1, n) \in Seq(PieceType)
    OBVIOUS
  <2>2. Len(text) - 1 = n
    OBVIOUS
  <2> QED BY <2>1, <2>2 DEF Tokens
<1> QED BY <1>1, <1>2

\* A list that was written is read as what flatten makes of it.
LEMMA ReadListWritten ==
  ASSUME NEW rl \in Seq(Writable)
  PROVE  ReadList(<<>>, WriteList(rl)) = Ok(Flatten(rl))
<1> PICK n \in Nat : n = Len(rl) /\ DOMAIN rl = 1..n
  OBVIOUS
<1> PICK text : text = WriteList(rl)
  OBVIOUS
<1>1. \A k \in 1..n : rl[k] \in Writable /\ rl[k] \in RangeType
  BY DEF Writable
<1>2. text = [k \in 1..n |-> WriteRange(rl[k])]
  BY DEF WriteList
<1>3. \A k \in 1..n : ReadRange(text[k]) = Ok(rl[k]) /\ text[k] # Blank /\ text[k] \in PieceType
  BY ONLY <1>1, <1>2, ReadWritten
<1>4. text \in Seq(PieceType) /\ Len(text) = n /\ DOMAIN text = 1..n
  <2>1. text \in [1..n -> PieceType]
    BY ONLY <1>2, <1>3
  <2> QED BY ONLY <2>1, n \in Nat
<1>5. Tokens(text) = text
  <2>1. text # <<>> => Len(text) \in 1..n
    BY ONLY <1>4, n \in Nat
  <2> QED BY ONLY <1>3, <2>1 DEF Tokens
<1>6. \A k \in 1..n : ReadRange(text[k]).ok /\ ReadRange(text[k]).value = rl[k]
  <2>1. \A x : Ok(x).ok = TRUE /\ Ok(x).value = x
    BY DEF Ok
  <2> QED BY ONLY <1>3, <2>1
<1> PICK bad : bad = SelectInSeq(text, LAMBDA p : ~ReadRange(p).ok)
  OBVIOUS
<1>7. bad = 0
  <2>1. {k \in 1..Len(text) : ~ReadRange(text[k]).ok} = {}
    BY ONLY <1>4, <1>6
  <2> QED BY ONLY <2>1, bad = SelectInSeq(text, LAMBDA p : ~ReadRange(p).ok) DEF SelectInSeq
<1> PICK all : all = ReadAll(<<>>, text)
  OBVIOUS
<1>8. all = rl
  <2>1. \A k \in 1..n : ReadRange(text[k]).value \in RangeType
    BY ONLY <1>1, <1>6
  <2> PICK none \in Seq(RangeType) : none = <<>> /\ Len(none) = 0
    BY EmptyList
  <2>2. all = ReadAll(none, text)
    OBVIOUS
  <2>3. /\ all \in Seq(RangeType) /\ Len(all) = Len(none) + n
        /\ \A k \in 1..n : all[Len(none) + k] = ReadRange(text[k]).value
    <3>1. RangesRead(n, text)
      BY ONLY <1>4, <2>1 DEF RangesRead
    <3>2. ReadBehind(ReadAll(none, text), none, n, text)
      BY ONLY <3>1, n \in Nat, none \in Seq(RangeType), ReadAllIs
    <3> QED BY ONLY <2>2, <3>2 DEF ReadBehind
  <2>4. Len(all) = n /\ \A k \in 1..n : all[k] = rl[k]
    BY ONLY <1>6, <2>3, n \in Nat, Len(none) = 0
  <2>5. rl \in Seq(RangeType) /\ Len(rl) = n
    BY <1>1
  <2> QED BY ONLY <2>3, <2>4, <2>5
<1>9. ReadList(<<>>, text) = Ok(Flatten(all))
  BY ONLY <1>5, <1>7, bad = SelectInSeq(text, LAMBDA p : ~ReadRange(p).ok),
          all = ReadAll(<<>>, text) DEF ReadList
<1> QED BY ONLY <1>8, <1>9, text = WriteList(rl)

\* Whatever is read, the ranges that were there before stay within those that
\* are there then.
LEMMA ReadListKeeps ==
  ASSUME NEW old \in Seq(RangeType), NEW text \in Seq(PieceType)
  PROVE  \E l \in Seq(RangeType) :
            /\ ReadList(old, text).value = l
            /\ \A k \in 1..Len(old) : \E m \in 1..Len(l) : Encloses(l[m], old[k])
<1> PICK tokens \in Seq(PieceType) : tokens = Tokens(text)
  BY TokensTyped
<1> PICK n \in Nat : n = Len(tokens) /\ DOMAIN tokens = 1..n
  OBVIOUS
<1> PICK o \in Nat : o = Len(old)
  OBVIOUS
<1>1. \A k \in 1..n : tokens[k] \in PieceType
  OBVIOUS
<1>2. \A k \in 1..n : ReadRange(tokens[k]).value \in RangeType
  BY ONLY <1>1, ReadRangeTyped
<1> PICK bad : bad = SelectInSeq(tokens, LAMBDA p : ~ReadRange(p).ok)
  OBVIOUS
<1>3. CASE bad = 0
  <2> PICK all : all = ReadAll(old, tokens)
    OBVIOUS
  <2>1. all \in Seq(RangeType) /\ Len(all) = o + n /\ \A k \in 1..o : all[k] = old[k]
    <3>1. RangesRead(n, tokens)
      BY ONLY <1>2, DOMAIN tokens = 1..n DEF RangesRead
    <3>2. ReadBehind(all, old, n, tokens)
      BY ONLY <3>1, n \in Nat, all = ReadAll(old, tokens), old \in Seq(RangeType), ReadAllIs
    <3> QED BY ONLY <3>2, o = Len(old) DEF ReadBehind
  <2> PICK l : l = Flatten(all)
    OBVIOUS
  <2>2. l \in Seq(RangeType)
    BY ONLY <2>1, l = Flatten(all), FlattenOffsets
  <2>3. \A k \in 1..Len(all) : \E m \in 1..Len(l) : Encloses(l[m], all[k])
    BY ONLY <2>1, l = Flatten(all), FlattenEncloses
  <2>4. \A k \in 1..o : k \in 1..Len(all)
    BY ONLY <2>1, o \in Nat, n \in Nat
  <2>5. ReadList(old, text) = Ok(l)
    BY ONLY <1>3, bad = SelectInSeq(tokens, LAMBDA p : ~ReadRange(p).ok),
            tokens = Tokens(text), all = ReadAll(old, tokens), l = Flatten(all) DEF ReadList
  <2>6. ReadList(old, text).value = l
    BY ONLY <2>5 DEF Ok
  <2> QED BY ONLY <2>1, <2>2, <2>3, <2>4, <2>6, o = Len(old)
<1>4. CASE bad # 0
  <2>1. bad \in 1..n
    <3> DEFINE I == {k \in 1..n : ~ReadRange(tokens[k]).ok}
    <3>1. bad = IF I # {} THEN Min(I) ELSE 0
      BY ONLY bad = SelectInSeq(tokens, LAMBDA p : ~ReadRange(p).ok), n = Len(tokens)
         DEF SelectInSeq
    <3>2. I # {} /\ bad = Min(I) /\ I \in SUBSET Nat
      BY <1>4, <3>1
    <3> HIDE DEF I
    <3>3. PICK m \in I : \A k \in I : m <= k
      BY ONLY <3>2, LeastElement
    <3>4. \E x \in I : \A y \in I : x <= y
      BY ONLY <3>3
    <3>5. Min(I) \in I
      BY ONLY <3>4 DEF Min
    <3> QED BY ONLY <3>2, <3>5 DEF I
  <2> PICK b \in Nat : bad = b + 1 /\ b - 0 = b /\ bad - 1 = b
    <3>1. bad - 1 \in Nat /\ bad = (bad - 1) + 1
      BY ONLY <2>1, n \in Nat
    <3> QED BY ONLY <3>1
  <2> PICK part : part = SubSeq(tokens, 1, b)
    OBVIOUS
  <2>2. part \in Seq(PieceType) /\ DOMAIN part = 1..b
    BY ONLY <2>1, n = Len(tokens), n \in Nat, b \in Nat, bad = b + 1, tokens \in Seq(PieceType),
            part = SubSeq(tokens, 1, b)
  <2>3. \A k \in 1..b : part[k] \in PieceType
    BY ONLY <2>2, b \in Nat
  <2>4. \A k \in 1..b : ReadRange(part[k]).value \in RangeType
    BY ONLY <2>3, ReadRangeTyped
  <2> PICK l : l = ReadAll(old, part)
    OBVIOUS
  <2>5. l \in Seq(RangeType) /\ Len(l) = o + b /\ \A k \in 1..o : l[k] = old[k]
    <3>1. RangesRead(b, part)
      BY ONLY <2>2, <2>4 DEF RangesRead
    <3>2. ReadBehind(l, old, b, part)
      BY ONLY <3>1, b \in Nat, l = ReadAll(old, part), old \in Seq(RangeType), ReadAllIs
    <3> QED BY ONLY <3>2, o = Len(old) DEF ReadBehind
  <2>6. \A k \in 1..o : k \in 1..Len(l) /\ Encloses(l[k], old[k])
    <3>1. \A k \in 1..o : old[k].start \in Int /\ old[k].end \in Int
      BY ElementTyped
    <3> QED BY ONLY <2>5, <3>1, o \in Nat, b \in Nat DEF Encloses
  <2>7. ReadList(old, text) = Error(l)
    BY ONLY <1>4, bad = SelectInSeq(tokens, LAMBDA p : ~ReadRange(p).ok), bad - 1 = b,
            tokens = Tokens(text), part = SubSeq(tokens, 1, b), l = ReadAll(old, part) DEF ReadList
  <2>8. ReadList(old, text).value = l
    BY ONLY <2>7 DEF Error
  <2> QED BY ONLY <2>5, <2>6, <2>8, o = Len(old)
<1> QED BY ONLY <1>3, <1>4

-----------------------------------------------------------------------------
(* Headers *)

HeaderType == [ranges : Seq(RangeType), length : Nat \cup {Absent}]

NoHeader == [ranges |-> <<>>, length |-> Absent]

LEMMA PieceLimits ==
  ASSUME NEW p \in PieceType
  PROVE  ContentLimits(p) \in RangeType /\ p.length \in Nat \cup {Absent}
BY DEF PieceType, ContentLimits, Interval, RangeType, Absent

\* A piece more: its range is appended or left out.
LEMMA WithPieceIs ==
  ASSUME NEW header \in HeaderType, NEW p \in PieceType, NEW r, r = ContentLimits(p),
         NEW more, more = WithPiece(header, p)
  PROVE  /\ more \in HeaderType
         /\ more.ranges = IF Stands(r) /\ Keeps(header.ranges, r) THEN Append(header.ranges, r)
                          ELSE header.ranges
         /\ more.length = IF header.length = Absent THEN p.length ELSE header.length
<1> PICK l, n : l = header.ranges /\ n = header.length
  OBVIOUS
<1>1. l \in Seq(RangeType) /\ n \in Nat \cup {Absent}
  BY DEF HeaderType
<1>2. r \in RangeType /\ p.length \in Nat \cup {Absent}
  BY PieceLimits
<1> PICK l1 : l1 = IF Stands(r) /\ Keeps(l, r) THEN Append(l, r) ELSE l
  OBVIOUS
<1> PICK n1 : n1 = IF n = Absent THEN p.length ELSE n
  OBVIOUS
<1>3. l1 \in Seq(RangeType)
  <2>1. Append(l, r) \in Seq(RangeType)
    BY ONLY <1>1, <1>2
  <2> QED BY ONLY <1>1, <2>1, l1 = IF Stands(r) /\ Keeps(l, r) THEN Append(l, r) ELSE l
<1>4. n1 \in Nat \cup {Absent}
  BY ONLY <1>1, <1>2, n1 = IF n = Absent THEN p.length ELSE n
<1>5. more = [ranges |-> l1, length |-> n1]
  BY DEF WithPiece
<1>6. more.ranges = l1 /\ more.length = n1
  BY ONLY <1>5
<1>7. more \in HeaderType
  BY ONLY <1>3, <1>4, <1>5 DEF HeaderType
<1> QED BY <1>6, <1>7

\* h has the header of the first k pieces.
Heading(h, n, text) ==
  /\ h[0] = NoHeader
  /\ \A k \in 0..n : h[k] \in HeaderType
  /\ \A k \in 1..n : k - 1 \in 0..n /\ h[k] = WithPiece(h[k - 1], text[k])

LEMMA HeaderSteps ==
  ASSUME NEW text \in Seq(PieceType), NEW n \in Nat, n = Len(text)
  PROVE  \E h : Heading(h, n, text) /\ Header(text) = h[n]
<1>0. DOMAIN text = 1..n /\ NoHeader \in HeaderType
  BY EmptyList DEF NoHeader, HeaderType
<1>1. ASSUME NEW k \in 1..n, NEW a \in HeaderType
      PROVE  WithPiece(a, text[k]) \in HeaderType
  <2>1. text[k] \in PieceType
    OBVIOUS
  <2> QED BY ONLY <2>1, a \in HeaderType, WithPieceIs
<1> PICK start : start = NoHeader
  OBVIOUS
<1> DEFINE Joins(g) == g = [s \in SUBSET DOMAIN text |->
                              IF s = {} THEN start ELSE WithPiece(g[s \ {Max(s)}], text[Max(s)])]
<1> PICK it : it = CHOOSE g : Joins(g)
  OBVIOUS
<1>2. Header(text) = it[DOMAIN text]
  BY DEF Header, FoldLeft, MapThenFoldSet, NoHeader
<1>3. \A g : Joins(g) <=> g = [s \in SUBSET (1..n) |->
                              IF s = {} THEN start ELSE WithPiece(g[s \ {Max(s)}], text[Max(s)])]
  BY <1>0
<1> HIDE DEF Joins
<1>4. \E g : Joins(g)
  <2> PICK A : A = HeaderType
    OBVIOUS
  <2> PICK Step : Step = [p \in (1..n) \X A |-> WithPiece(p[2], text[p[1]])]
    OBVIOUS
  <2>1. \A k \in 1..n, a \in A : Step[<<k, a>>] = WithPiece(a, text[k]) /\ Step[<<k, a>>] \in A
    BY ONLY <1>1, A = HeaderType, Step = [p \in (1..n) \X A |-> WithPiece(p[2], text[p[1]])]
  <2>2. start \in A
    BY ONLY <1>0, start = NoHeader, A = HeaderType
  <2>3. PICK g \in [SUBSET (1..n) -> A] : FoldsLeft(g, n, start, Step)
    BY ONLY n \in Nat, <2>1, <2>2, LeftSolves
  <2>4. ASSUME NEW s \in SUBSET (1..n)
        PROVE  g[s] = IF s = {} THEN start ELSE WithPiece(g[s \ {Max(s)}], text[Max(s)])
    BY ONLY <2>1, <2>3, <2>4 DEF FoldsLeft
  <2>5. g = [s \in SUBSET (1..n) |->
                IF s = {} THEN start ELSE WithPiece(g[s \ {Max(s)}], text[Max(s)])]
    BY ONLY <2>3, <2>4
  <2> QED BY ONLY <1>3, <2>5
<1>5. it = [s \in SUBSET (1..n) |->
              IF s = {} THEN start ELSE WithPiece(it[s \ {Max(s)}], text[Max(s)])]
  BY ONLY <1>3, <1>4, it = CHOOSE g : Joins(g)
<1> PICK h : h = [k \in 0..n |-> it[1..k]]
  OBVIOUS
<1>6. h[0] = start
  <2>1. 1..0 = {} /\ {} \in SUBSET (1..n) /\ 0 \in 0..n
    OBVIOUS
  <2> QED BY ONLY <1>5, <2>1, h = [k \in 0..n |-> it[1..k]]
<1>7. ASSUME NEW k \in 1..n
      PROVE  k \in 0..n /\ k - 1 \in 0..n /\ h[k] = WithPiece(h[k - 1], text[k])
  <2>1. k \in 0..n /\ k - 1 \in 0..n /\ 1..k \in SUBSET (1..n)
    OBVIOUS
  <2>2. Max(1..k) = k /\ (1..k) \ {k} = 1..(k - 1) /\ 1..k # {}
    BY ONLY n \in Nat, k \in 1..n, MaxPosition
  <2>3. it[1..k] = WithPiece(it[1..(k - 1)], text[k])
    BY ONLY <1>5, <2>1, <2>2
  <2> QED BY ONLY <2>1, <2>3, h = [j \in 0..n |-> it[1..j]]
<1>8. \A k \in 0..n : h[k] \in HeaderType
  <2> PICK P : P = {k \in 0..n : h[k] \in HeaderType}
    OBVIOUS
  <2>1. 0 \in P
    BY ONLY <1>0, <1>6, n \in Nat, start = NoHeader, P = {k \in 0..n : h[k] \in HeaderType}
  <2>2. \A k \in 1..n : k - 1 \in P => k \in P
    BY ONLY <1>1, <1>7, P = {k \in 0..n : h[k] \in HeaderType}
  <2>3. \A k \in 0..n : k \in P
    BY ONLY n \in Nat, <2>1, <2>2, Upwards
  <2> QED BY ONLY <2>3, P = {k \in 0..n : h[k] \in HeaderType}
<1>9. Header(text) = h[n]
  <2>1. n \in 0..n
    OBVIOUS
  <2> QED BY ONLY <1>0, <1>2, <2>1, h = [k \in 0..n |-> it[1..k]]
<1>10. Heading(h, n, text)
  BY ONLY <1>6, <1>7, <1>8, start = NoHeader DEF Heading
<1> QED BY ONLY <1>9, <1>10

\* Ranges in the order of a header, and those that pieces stand for.
Ascending(l) ==
  \A k \in 1..(Len(l) - 1) : l[k].end # -1 /\ l[k].end < l[k + 1].start

Found(text) ==
  {Interval(IF text[k].star THEN 0 ELSE text[k].first, text[k].last) : k \in DOMAIN text}

\* n is the first length of the first k pieces.
FirstLength(n, text, k) ==
  \/ n = Absent /\ \A j \in 1..k : text[j].length = Absent
  \/ n # Absent /\ \E j \in 1..k : /\ text[j].length = n
                                   /\ \A q \in 1..(j - 1) : text[q].length = Absent

LEMMA AscendingAppend ==
  ASSUME NEW l \in Seq(RangeType), NEW r \in RangeType, Ascending(l), Keeps(l, r)
  PROVE  Ascending(Append(l, r))
<1> PICK n \in Nat : n = Len(l)
  OBVIOUS
<1> PICK more : more = Append(l, r)
  OBVIOUS
<1>1. Len(more) = n + 1 /\ (\A k \in 1..n : more[k] = l[k]) /\ more[n + 1] = r
  BY Appended
<1>2. ASSUME NEW k \in 1..n
      PROVE  more[k].end # -1 /\ more[k].end < more[k + 1].start
  <2>1. CASE k = n
    <3>1. l # <<>>
      BY <2>1
    <3>2. l[n].end < r.start /\ l[n].end # -1
      BY <3>1 DEF Keeps
    <3> QED BY ONLY <1>1, <2>1, <3>2, k \in 1..n
  <2>2. CASE k # n
    <3>1. k \in 1..(n - 1) /\ k + 1 \in 1..n
      BY <2>2
    <3> QED BY ONLY <1>1, <3>1, Ascending(l), n = Len(l), k \in 1..n DEF Ascending
  <2> QED BY <2>1, <2>2
<1>3. (n + 1) - 1 = n
  OBVIOUS
<1> QED BY ONLY <1>1, <1>2, <1>3, more = Append(l, r) DEF Ascending

\* The ranges of a header are in order, and its length is the first of the text.
LEMMA HeaderIs ==
  ASSUME NEW text \in Seq(PieceType)
  PROVE  /\ Header(text) \in HeaderType
         /\ \A k \in 1..Len(Header(text).ranges) : Header(text).ranges[k] \in Found(text)
         /\ Ascending(Header(text).ranges)
         /\ FirstLength(Header(text).length, text, Len(text))
<1> PICK n \in Nat : n = Len(text) /\ DOMAIN text = 1..n
  OBVIOUS
<1> PICK h : Heading(h, n, text) /\ Header(text) = h[n]
  BY HeaderSteps
<1>1. /\ h[0] = NoHeader
      /\ \A k \in 0..n : h[k] \in HeaderType
      /\ \A k \in 1..n : k - 1 \in 0..n /\ h[k] = WithPiece(h[k - 1], text[k])
  BY DEF Heading
<1> DEFINE Good(k) == /\ \A q \in 1..Len(h[k].ranges) : h[k].ranges[q] \in Found(text)
                      /\ Ascending(h[k].ranges)
                      /\ FirstLength(h[k].length, text, k)
<1> PICK P : P = {k \in 0..n : Good(k)}
  OBVIOUS
<1>2. 0 \in P
  <2>1. h[0].ranges = <<>> /\ h[0].length = Absent
    BY <1>1 DEF NoHeader
  <2>2. Len(<<>>) = 0 /\ (\A q \in 1..0 : FALSE) /\ (\A q \in 1..(0 - 1) : FALSE)
    OBVIOUS
  <2>3. Ascending(<<>>)
    BY ONLY <2>2 DEF Ascending
  <2>4. FirstLength(Absent, text, 0)
    BY ONLY <2>2 DEF FirstLength
  <2>5. 0 \in 0..n
    OBVIOUS
  <2> QED BY ONLY <2>1, <2>2, <2>3, <2>4, <2>5, P = {k \in 0..n : Good(k)}
<1>3. ASSUME NEW k \in 1..n, k - 1 \in P
      PROVE  k \in P
  <2> PICK a \in HeaderType : a = h[k - 1]
    BY <1>1
  <2> PICK p \in PieceType : p = text[k]
    OBVIOUS
  <2> PICK r : r = ContentLimits(p)
    OBVIOUS
  <2> PICK more : more = h[k]
    OBVIOUS
  <2>1. /\ \A q \in 1..Len(a.ranges) : a.ranges[q] \in Found(text)
        /\ Ascending(a.ranges)
        /\ FirstLength(a.length, text, k - 1)
    BY ONLY <1>3, a = h[k - 1], P = {j \in 0..n : Good(j)}
  <2>2. more = WithPiece(a, p)
    BY ONLY <1>1, k \in 1..n, a = h[k - 1], p = text[k], more = h[k]
  <2> PICK l, m, l1, m1 : l = a.ranges /\ m = a.length /\ l1 = more.ranges /\ m1 = more.length
    OBVIOUS
  <2>3. l \in Seq(RangeType) /\ m \in Nat \cup {Absent}
    BY DEF HeaderType
  <2>4. /\ l1 = IF Stands(r) /\ Keeps(l, r) THEN Append(l, r) ELSE l
        /\ m1 = IF m = Absent THEN p.length ELSE m
    BY ONLY <2>2, a \in HeaderType, p \in PieceType, r = ContentLimits(p), l = a.ranges,
            m = a.length, l1 = more.ranges, m1 = more.length, WithPieceIs
  <2>5. r \in RangeType /\ p.length \in Nat \cup {Absent}
    BY ONLY p \in PieceType, r = ContentLimits(p), PieceLimits
  <2>6. r \in Found(text)
    BY ONLY k \in 1..n, DOMAIN text = 1..n, p = text[k], r = ContentLimits(p)
       DEF Found, ContentLimits
  <2>7. (\A q \in 1..Len(l1) : l1[q] \in Found(text)) /\ Ascending(l1)
    <3>1. CASE Stands(r) /\ Keeps(l, r)
      <4>1. l1 = Append(l, r)
        BY <2>4, <3>1
      <4>2. Ascending(l1)
        BY ONLY <2>1, <2>3, <2>5, <3>1, <4>1, l = a.ranges, AscendingAppend
      <4>3. /\ Len(l1) = Len(l) + 1 /\ Len(l) \in Nat
            /\ \A q \in 1..Len(l) : l1[q] = l[q]
            /\ l1[Len(l) + 1] = r
        BY ONLY <2>3, <2>5, <4>1, Appended
      <4>4. \A q \in 1..Len(l1) : q \in 1..Len(l) \/ q = Len(l) + 1
        BY ONLY <4>3
      <4> QED BY ONLY <2>1, <2>6, <4>2, <4>3, <4>4, l = a.ranges
    <3>2. CASE ~(Stands(r) /\ Keeps(l, r))
      BY ONLY <2>1, <2>4, <3>2, l = a.ranges
    <3> QED BY <3>1, <3>2
  <2>8. FirstLength(m1, text, k)
    <3>1. FirstLength(m, text, k - 1)
      BY ONLY <2>1, m = a.length
    <3>2. \A j \in 1..(k - 1) : j \in 1..k
      BY ONLY k \in 1..n, n \in Nat
    <3>3. \A j \in 1..k : j = k \/ j \in 1..(k - 1)
      BY ONLY k \in 1..n, n \in Nat
    <3>4. k \in 1..k
      BY ONLY k \in 1..n, n \in Nat
    <3>5. CASE m # Absent
      <4>1. m1 = m
        BY ONLY <2>4, <3>5
      <4> QED BY ONLY <3>1, <3>2, <3>5, <4>1 DEF FirstLength
    <3>6. CASE m = Absent
      <4>1. m1 = text[k].length
        BY ONLY <2>4, <3>6, p = text[k]
      <4>2. \A j \in 1..(k - 1) : text[j].length = Absent
        BY ONLY <3>1, <3>6 DEF FirstLength
      <4> QED BY ONLY <3>3, <3>4, <4>1, <4>2 DEF FirstLength
    <3> QED BY <3>5, <3>6
  <2>9. k \in 0..n
    OBVIOUS
  <2> QED BY ONLY <2>7, <2>8, <2>9, l1 = more.ranges, m1 = more.length, more = h[k],
                  P = {j \in 0..n : Good(j)}
<1>4. n \in P
  <2>1. \A k \in 0..n : k \in P
    BY ONLY <1>2, <1>3, n \in Nat, Upwards
  <2> QED BY ONLY <2>1, n \in Nat
<1>5. h[n] \in HeaderType
  <2>1. n \in 0..n
    OBVIOUS
  <2> QED BY ONLY <1>1, <2>1
<1>6. Good(n)
  BY ONLY <1>4, P = {k \in 0..n : Good(k)}
<1> QED BY ONLY <1>5, <1>6, Header(text) = h[n], n = Len(text)

\* A piece that is written of a range stands for it.
LEMMA PieceWritten ==
  ASSUME NEW r \in Writable, NEW p, p = WriteHTTP(r)
  PROVE  /\ p \in PieceType /\ ContentLimits(p) = r /\ p.length = Absent
         /\ (p.star \/ p.first # Absent) /\ Fits(p.first) /\ Fits(p.last) /\ Fits(p.length)
<1> PICK a, b \in Int : /\ r = Interval(a, b) /\ r.start = a /\ r.end = b
                        /\ 0 <= a /\ a <= MaxInt /\ b <= MaxInt /\ (b = -1 \/ a <= b)
  BY DEF Writable, RangeType, Interval
<1>1. MaxInt \in Nat
  BY RangesAssumption DEF RangesAssumption
<1> PICK e : e = IF b = -1 THEN Absent ELSE b
  OBVIOUS
<1>2. e = b /\ b \in Nat \cup {Absent} /\ a \in Nat /\ a # Absent
  BY DEF Absent
<1>3. p = Piece(a, TRUE, e)
  BY DEF WriteHTTP
<1>4. p = [first |-> a, dash |-> TRUE, last |-> b, length |-> Absent, star |-> FALSE, blank |-> FALSE]
  BY ONLY <1>2, <1>3 DEF Piece
<1>5. p \in PieceType
  BY ONLY <1>2, <1>4 DEF PieceType
<1>6. p.first = a /\ p.last = b /\ p.length = Absent /\ p.star = FALSE
  BY ONLY <1>4
<1>7. ContentLimits(p) = r
  BY ONLY <1>6, r = Interval(a, b) DEF ContentLimits
<1>8. Fits(a) /\ Fits(b) /\ Fits(Absent)
  BY <1>1 DEF Fits, Absent
<1> QED BY ONLY <1>2, <1>5, <1>6, <1>7, <1>8

\* A range that a header leaves out, as what it is for is nothing or everything.
ForNothing(r) == r \in {Interval(0, 0), Interval(0, -1)}

LEMMA StandsIs ==
  ASSUME NEW r \in Writable
  PROVE  (Stands(r) <=> ~ForNothing(r)) /\ (0 < r.start => Stands(r))
<1> PICK a, b \in Int : /\ r = Interval(a, b) /\ r.start = a /\ r.end = b
                        /\ 0 <= a /\ (b = -1 \/ a <= b)
  BY DEF Writable, RangeType, Interval
<1>1. Stands(r) <=> a > 0 \/ b > 0
  BY DEF Stands
<1>2. ForNothing(r) <=> a = 0 /\ (b = 0 \/ b = -1)
  BY DEF ForNothing, Interval
<1>3. a > 0 \/ b > 0 <=> ~(a = 0 /\ (b = 0 \/ b = -1))
  BY ONLY a \in Int, b \in Int, 0 <= a, b = -1 \/ a <= b
<1> QED BY ONLY <1>1, <1>2, <1>3, r.start = a, a \in Int

InSuccession(rl) ==
  \A k, l \in 1..Len(rl) : k < l => rl[k].end # -1 /\ rl[k].end < rl[l].start

\* A list in order is read back from the header that is written of it.
LEMMA HeaderWritten ==
  ASSUME NEW rl \in Seq(Writable), rl # <<>>, InSuccession(rl)
  PROVE  ParseContentRange(WriteListHTTP(rl)) =
           Ok([ranges |-> IF ForNothing(rl[1]) THEN Tail(rl) ELSE rl, length |-> Absent])
<1> PICK n \in Nat : n = Len(rl) /\ DOMAIN rl = 1..n
  OBVIOUS
<1>0. n # 0 /\ 1 \in 1..n
  OBVIOUS
<1> PICK text : text = WriteListHTTP(rl)
  OBVIOUS
<1>1. \A k \in 1..n : rl[k] \in Writable /\ rl[k] \in RangeType
                      /\ rl[k].start \in Int /\ rl[k].end \in Int /\ 0 <= rl[k].start
                      /\ (rl[k].end = -1 \/ rl[k].start <= rl[k].end)
  BY DEF Writable, RangeType
<1>2. text = [k \in 1..n |-> WriteHTTP(rl[k])]
  BY DEF WriteListHTTP
<1>3. ASSUME NEW k \in 1..n
      PROVE  /\ text[k] \in PieceType /\ ContentLimits(text[k]) = rl[k]
             /\ text[k].length = Absent
             /\ text[k].star \/ text[k].first # Absent
             /\ Fits(text[k].first) /\ Fits(text[k].last) /\ Fits(text[k].length)
  <2>1. rl[k] \in Writable /\ text[k] = WriteHTTP(rl[k])
    BY ONLY <1>1, <1>2, k \in 1..n
  <2> QED BY ONLY <2>1, PieceWritten
<1>4. text \in Seq(PieceType) /\ Len(text) = n /\ DOMAIN text = 1..n /\ text # <<>>
  <2>1. text \in [1..n -> PieceType]
    BY ONLY <1>2, <1>3
  <2>2. text \in Seq(PieceType) /\ Len(text) = n /\ DOMAIN text = 1..n
    BY ONLY <2>1, n \in Nat
  <2> QED BY <2>2, <1>0
<1>5. \A k \in DOMAIN text : Readable(text, k)
  BY ONLY <1>3, <1>4 DEF Readable
<1>6. ParseContentRange(text) = Ok(Header(text))
  BY ONLY <1>4, <1>5 DEF ParseContentRange
<1> PICK h : Heading(h, n, text) /\ Header(text) = h[n]
  BY ONLY <1>4, n \in Nat, HeaderSteps
<1>7. /\ h[0] = NoHeader
      /\ \A k \in 0..n : h[k] \in HeaderType
      /\ \A k \in 1..n : k - 1 \in 0..n /\ h[k] = WithPiece(h[k - 1], text[k])
  BY ONLY Heading(h, n, text) DEF Heading
<1> PICK d \in {0, 1} : d = IF ForNothing(rl[1]) THEN 1 ELSE 0
  OBVIOUS
<1> DEFINE Good(k) == /\ h[k].length = Absent
                      /\ k = 0 => h[k].ranges = <<>>
                      /\ k # 0 => /\ Len(h[k].ranges) = k - d
                                  /\ \A q \in 1..(k - d) : h[k].ranges[q] = rl[q + d]
<1> PICK P : P = {k \in 0..n : Good(k)}
  OBVIOUS
<1>8. 0 \in P
  <2>1. h[0].ranges = <<>> /\ h[0].length = Absent
    BY ONLY <1>7 DEF NoHeader
  <2>2. 0 \in 0..n
    OBVIOUS
  <2> QED BY ONLY <2>1, <2>2, P = {k \in 0..n : Good(k)}
<1>9. ASSUME NEW k \in 1..n, k - 1 \in P
      PROVE  k \in P
  <2>0. k - 1 \in 0..n
    OBVIOUS
  <2> PICK a \in HeaderType : a = h[k - 1]
    BY ONLY <1>7, <2>0
  <2> PICK p \in PieceType : p = text[k]
    BY ONLY <1>3, k \in 1..n
  <2> PICK more : more = h[k]
    OBVIOUS
  <2> PICK r : r = rl[k]
    OBVIOUS
  <2>1. /\ a.length = Absent
        /\ k - 1 = 0 => a.ranges = <<>>
        /\ k - 1 # 0 => /\ Len(a.ranges) = (k - 1) - d
                        /\ \A q \in 1..((k - 1) - d) : a.ranges[q] = rl[q + d]
    BY ONLY <1>9, a = h[k - 1], P = {j \in 0..n : Good(j)}
  <2>2. more = WithPiece(a, p)
    BY ONLY <1>7, k \in 1..n, a = h[k - 1], p = text[k], more = h[k]
  <2>3. r = ContentLimits(p) /\ p.length = Absent
    BY ONLY <1>3, k \in 1..n, p = text[k], r = rl[k]
  <2>4. r \in RangeType /\ r.start \in Int /\ r.end \in Int
    BY ONLY <1>1, k \in 1..n, r = rl[k]
  <2> PICK l, l1 : l = a.ranges /\ l1 = more.ranges
    OBVIOUS
  <2>5. l \in Seq(RangeType) /\ Len(l) \in Nat
    BY DEF HeaderType
  <2>6. /\ l1 = IF Stands(r) /\ Keeps(l, r) THEN Append(l, r) ELSE l
        /\ more.length = IF a.length = Absent THEN p.length ELSE a.length
    BY ONLY <2>2, <2>3, a \in HeaderType, p \in PieceType, l = a.ranges, l1 = more.ranges,
            WithPieceIs
  <2>7. more.length = Absent
    BY ONLY <2>1, <2>3, <2>6
  <2>8. Len(l1) = k - d /\ \A q \in 1..(k - d) : l1[q] = rl[q + d]
    <3>1. CASE k = 1
      <4>1. l = <<>> /\ Keeps(l, r) /\ Len(<<>>) = 0
        <5>1. k - 1 = 0
          BY ONLY <3>1
        <5>2. l = <<>>
          BY ONLY <2>1, <5>1, l = a.ranges
        <5>3. Len(<<>>) = 0
          OBVIOUS
        <5> QED BY ONLY <5>2, <5>3 DEF Keeps
      <4>2. Stands(r) <=> ~ForNothing(r)
        BY ONLY <1>1, k \in 1..n, r = rl[k], StandsIs
      <4>3. r = rl[1]
        BY ONLY <3>1, r = rl[k]
      <4>4. CASE ForNothing(r)
        <5>1. d = 1 /\ l1 = <<>>
          BY ONLY <2>6, <4>1, <4>2, <4>3, <4>4, d = IF ForNothing(rl[1]) THEN 1 ELSE 0
        <5>2. k - d = 0 /\ \A q \in 1..0 : FALSE
          BY ONLY <3>1, <5>1
        <5> QED BY ONLY <4>1, <5>1, <5>2
      <4>5. CASE ~ForNothing(r)
        <5>1. d = 0 /\ l1 = Append(<<>>, r)
          BY ONLY <2>6, <4>1, <4>2, <4>3, <4>5, d = IF ForNothing(rl[1]) THEN 1 ELSE 0
        <5>2. Len(l1) = 1 /\ l1[1] = r
          BY <5>1
        <5>3. k - d = 1 /\ \A q \in 1..1 : q = 1 /\ q + d = 1
          BY ONLY <3>1, <5>1
        <5> QED BY ONLY <4>3, <5>2, <5>3
      <4> QED BY <4>4, <4>5
    <3>2. CASE k # 1
      <4> PICK m \in 1..n : m = k - 1 /\ k = m + 1 /\ m < k /\ k - 1 # 0
        BY ONLY <3>2, k \in 1..n, n \in Nat
      <4>1. rl[m].end # -1 /\ rl[m].end < r.start
        BY ONLY InSuccession(rl), n = Len(rl), m \in 1..n, k \in 1..n, m < k, r = rl[k]
           DEF InSuccession
      <4>2. 0 < r.start
        <5> PICK x, y, z \in Int : rl[m].start = x /\ rl[m].end = y /\ r.start = z
          BY ONLY <1>1, <2>4, m \in 1..n
        <5>1. y # -1 /\ y < z /\ 0 <= x /\ (y = -1 \/ x <= y)
          BY ONLY <1>1, <4>1, m \in 1..n, rl[m].start = x, rl[m].end = y, r.start = z
        <5>2. 0 < z
          BY ONLY <5>1, x \in Int, y \in Int, z \in Int
        <5> QED BY ONLY <5>2, r.start = z
      <4>3. Stands(r)
        BY ONLY <1>1, <4>2, k \in 1..n, r = rl[k], StandsIs
      <4>4. Len(l) = m - d /\ \A q \in 1..(m - d) : l[q] = rl[q + d]
        BY ONLY <2>1, m = k - 1, k - 1 # 0, l = a.ranges
      <4>5. Keeps(l, r)
        <5>1. CASE l = <<>>
          BY ONLY <5>1 DEF Keeps
        <5>2. CASE l # <<>>
          <6>1. Len(l) # 0
            BY ONLY <2>5, <5>2
          <6>2. m - d \in 1..(m - d) /\ (m - d) + d = m
            BY ONLY <2>5, <4>4, <6>1, m \in 1..n, n \in Nat, d \in {0, 1}
          <6>3. l[Len(l)] = rl[m]
            BY ONLY <4>4, <6>2
          <6> QED BY ONLY <4>1, <6>3 DEF Keeps
        <5> QED BY ONLY <5>1, <5>2
      <4>6. l1 = Append(l, r)
        BY ONLY <2>6, <4>3, <4>5
      <4>7. Len(l1) = Len(l) + 1 /\ (\A q \in 1..Len(l) : l1[q] = l[q]) /\ l1[Len(l) + 1] = r
        BY ONLY <2>4, <2>5, <4>6, Appended
      <4>8. Len(l) + 1 = k - d
        BY ONLY <4>4, k = m + 1, m \in 1..n, n \in Nat, d \in {0, 1}
      <4>9. ASSUME NEW q \in 1..(k - d)
            PROVE  l1[q] = rl[q + d]
        <5>1. CASE q = k - d
          <6>1. q + d = k
            BY ONLY <5>1, k \in 1..n, n \in Nat, d \in {0, 1}
          <6> QED BY ONLY <4>7, <4>8, <5>1, <6>1, r = rl[k]
        <5>2. CASE q # k - d
          <6>1. q \in 1..(m - d)
            BY ONLY <5>2, q \in 1..(k - d), k = m + 1, m \in 1..n, n \in Nat, d \in {0, 1}
          <6> QED BY ONLY <4>4, <4>7, <6>1
        <5> QED BY ONLY <5>1, <5>2
      <4> QED BY ONLY <4>7, <4>8, <4>9
    <3> QED BY ONLY <3>1, <3>2
  <2>9. k \in 0..n /\ k # 0
    BY ONLY k \in 1..n, n \in Nat
  <2> QED BY ONLY <2>7, <2>8, <2>9, l1 = more.ranges, more = h[k], P = {j \in 0..n : Good(j)}
<1>10. n \in P
  <2>1. \A k \in 0..n : k \in P
    BY ONLY <1>8, <1>9, n \in Nat, Upwards
  <2> QED BY ONLY <2>1, n \in Nat
<1>11. Good(n)
  BY ONLY <1>10, P = {k \in 0..n : Good(k)}
<1> PICK last \in HeaderType : last = h[n]
  BY ONLY <1>7, n \in Nat
<1> PICK l, e : l = last.ranges /\ e = last.length
  OBVIOUS
<1>12. l \in Seq(RangeType) /\ last = [ranges |-> l, length |-> e]
  BY DEF HeaderType
<1>13. e = Absent /\ Len(l) = n - d /\ \A q \in 1..(n - d) : l[q] = rl[q + d]
  BY ONLY <1>0, <1>11, l = last.ranges, e = last.length, last = h[n]
<1>14. rl \in Seq(RangeType)
  BY <1>1
<1>15. l = IF ForNothing(rl[1]) THEN Tail(rl) ELSE rl
  <2>1. CASE ForNothing(rl[1])
    <3>1. d = 1
      BY <2>1
    <3> PICK tail : tail = Tail(rl)
      OBVIOUS
    <3>2. /\ tail \in Seq(RangeType) /\ Len(tail) = n - 1
          /\ \A k \in 1..Len(tail) : tail[k] = rl[k + 1]
      BY <1>14, TailRanges
    <3>3. Len(tail) = Len(l) /\ \A k \in 1..Len(tail) : tail[k] = l[k]
      BY ONLY <1>13, <3>1, <3>2
    <3>4. tail = l
      BY ONLY <1>12, <3>2, <3>3
    <3> QED BY <2>1, <3>4
  <2>2. CASE ~ForNothing(rl[1])
    <3>1. d = 0 /\ n - 0 = n /\ \A q \in 1..n : q + 0 = q
      BY <2>2
    <3>2. Len(l) = Len(rl) /\ \A k \in 1..Len(rl) : l[k] = rl[k]
      BY ONLY <1>13, <3>1, n = Len(rl)
    <3>3. l = rl
      BY ONLY <1>12, <1>14, <3>2
    <3> QED BY <2>2, <3>3
  <2> QED BY <2>1, <2>2
<1> QED BY ONLY <1>6, <1>12, <1>13, <1>15, Header(text) = h[n], last = h[n],
                text = WriteListHTTP(rl)

-----------------------------------------------------------------------------
(* What is written and read of ranges is exact *)

LEMMA ListKept ==
  ASSUME NEW rl \in Seq(Writable)
  PROVE  WrittenListKept(rl, WriteList(rl))
<1> PICK n \in Nat : n = Len(rl) /\ DOMAIN rl = 1..n
  OBVIOUS
<1>1. \A k \in 1..n : rl[k] \in RangeType /\ 0 <= rl[k].start /\ rl[k].start \in Int
                      /\ rl[k].end \in Int /\ (rl[k].end = -1 \/ rl[k].start <= rl[k].end)
  BY DEF Writable, RangeType
<1>2. rl \in Seq(RangeType)
  BY <1>1
<1> PICK back : back = ReadList(<<>>, WriteList(rl)).value
  OBVIOUS
<1>3. back = Flatten(rl)
  <2>1. Ok(Flatten(rl)).value = Flatten(rl)
    BY DEF Ok
  <2> QED BY ONLY <2>1, rl \in Seq(Writable), ReadListWritten,
                  back = ReadList(<<>>, WriteList(rl)).value
<1>4. Offsets(back) = Offsets(rl)
  BY ONLY <1>2, <1>3, FlattenOffsets
<1> PICK open : open = {k \in DOMAIN rl : rl[k].end = -1}
  OBVIOUS
<1> PICK nested : nested = \E j, k, l \in DOMAIN rl :
                              /\ j # k /\ k # l /\ j # l
                              /\ Encloses(rl[j], rl[k]) /\ OverlapsFront(rl[j], rl[l])
  OBVIOUS
<1>5. ASSUME open = {}
      PROVE  nested \/ Normal(back)
  <2>1. \A k \in 1..n : rl[k].start <= rl[k].end
    BY ONLY <1>1, <1>5, open = {k \in DOMAIN rl : rl[k].end = -1}, DOMAIN rl = 1..n
  <2>2. CASE NestedIn(rl)
    <3>1. PICK a, b, c \in DOMAIN rl : /\ a # b /\ b # c /\ a # c
                                       /\ Encloses(rl[a], rl[b]) /\ OverlapsFront(rl[a], rl[c])
      BY ONLY <2>2, n = Len(rl), DOMAIN rl = 1..n DEF NestedIn
    <3> QED BY ONLY <3>1, nested = \E j, k, l \in DOMAIN rl :
                              /\ j # k /\ k # l /\ j # l
                              /\ Encloses(rl[j], rl[k]) /\ OverlapsFront(rl[j], rl[l])
  <2>3. CASE ~NestedIn(rl)
    BY ONLY <1>2, <1>3, <2>1, <2>3, n = Len(rl), FlattenNested
  <2> QED BY ONLY <2>2, <2>3
<1>6. ASSUME NEW m \in open,
             \A k \in DOMAIN rl \ {m} : rl[k].end # -1 /\ rl[k].end + 1 < rl[m].start
      PROVE  Last(back) = rl[m] /\ Offsets(Front(back)) = Offsets(rl)
  <2>1. m \in 1..n /\ rl[m].end = -1
    BY ONLY <1>6, open = {k \in DOMAIN rl : rl[k].end = -1}, DOMAIN rl = 1..n
  <2>2. OpenBehind(rl, m)
    BY ONLY <1>1, <1>6, <2>1, n = Len(rl), DOMAIN rl = 1..n DEF OpenBehind
  <2> QED BY ONLY <1>2, <1>3, <2>2, FlattenOpen
<1> QED BY ONLY <1>4, <1>5, <1>6, back = ReadList(<<>>, WriteList(rl)).value,
                open = {k \in DOMAIN rl : rl[k].end = -1},
                nested = \E j, k, l \in DOMAIN rl :
                           /\ j # k /\ k # l /\ j # l
                           /\ Encloses(rl[j], rl[k]) /\ OverlapsFront(rl[j], rl[l])
           DEF WrittenListKept

LEMMA HeaderKept ==
  ASSUME NEW rl \in Seq(Writable)
  PROVE  WrittenHeaderKept(rl, WriteListHTTP(rl))
<1>1. SUFFICES ASSUME rl # <<>>,
                      \A k, l \in DOMAIN rl : k < l => rl[k].end # -1 /\ rl[k].end < rl[l].start
               PROVE  ParseContentRange(WriteListHTTP(rl)) =
                        Ok([ranges |-> IF rl[1] \in {Interval(0, 0), Interval(0, -1)}
                                       THEN Tail(rl) ELSE rl,
                            length |-> Absent])
  BY DEF WrittenHeaderKept
<1>2. DOMAIN rl = 1..Len(rl)
  OBVIOUS
<1>3. InSuccession(rl)
  BY ONLY <1>1, <1>2 DEF InSuccession
<1> QED BY ONLY <1>1, <1>3, rl \in Seq(Writable), HeaderWritten DEF ForNothing

LEMMA HeaderRead ==
  ASSUME NEW text \in Seq(PieceType)
  PROVE  HeaderInOrder(text, ParseContentRange(text))
<1> PICK read : read = ParseContentRange(text)
  OBVIOUS
<1> PICK found : found = Found(text)
  OBVIOUS
<1> PICK first : first = SelectInSeq(text, LAMBDA p : p.length # Absent)
  OBVIOUS
<1> PICK n \in Nat : n = Len(text)
  OBVIOUS
<1>1. ASSUME read.ok
      PROVE  read.value = Header(text)
  <2>1. Error(NoContent).ok = FALSE /\ Ok(Header(text)).value = Header(text)
    BY DEF Ok, Error
  <2>2. read = Error(NoContent) \/ read = Ok(Header(text))
    BY ONLY read = ParseContentRange(text) DEF ParseContentRange
  <2> QED BY ONLY <1>1, <2>1, <2>2
<1> PICK header \in HeaderType : header = Header(text)
  BY HeaderIs
<1>2. DOMAIN header.ranges = 1..Len(header.ranges)
  BY DEF HeaderType
<1>3. /\ \A k \in 1..Len(header.ranges) : header.ranges[k] \in found
      /\ Ascending(header.ranges)
      /\ FirstLength(header.length, text, n)
  BY ONLY text \in Seq(PieceType), header = Header(text), found = Found(text), n = Len(text),
          HeaderIs
<1>4. header.length = IF first = 0 THEN Absent ELSE text[first].length
  <2> DEFINE I == {k \in 1..n : text[k].length # Absent}
  <2>1. first = IF I # {} THEN Min(I) ELSE 0
    BY ONLY first = SelectInSeq(text, LAMBDA p : p.length # Absent), n = Len(text)
       DEF SelectInSeq
  <2>2. CASE header.length = Absent /\ \A j \in 1..n : text[j].length = Absent
    BY ONLY <2>1, <2>2
  <2>3. ASSUME NEW j \in 1..n, header.length # Absent, text[j].length = header.length,
               \A q \in 1..(j - 1) : text[q].length = Absent
        PROVE  header.length = IF first = 0 THEN Absent ELSE text[first].length
    <3>1. j \in I
      BY ONLY <2>3
    <3>2. ASSUME NEW k \in I PROVE j <= k
      <4>1. k \in 1..n /\ text[k].length # Absent
        OBVIOUS
      <4>2. ~(k < j)
        BY ONLY <2>3, <4>1, n \in Nat
      <4> QED BY ONLY <4>1, <4>2, j \in 1..n, n \in Nat
    <3>3. \A k \in I : (\A y \in I : k <= y) => k = j
      <4>1. I \subseteq 1..n
        OBVIOUS
      <4> HIDE DEF I
      <4> QED BY ONLY <3>1, <3>2, <4>1, n \in Nat
    <3> HIDE DEF I
    <3>4. Min(I) = j
      BY ONLY <3>1, <3>2, <3>3 DEF Min
    <3>5. first = j /\ j # 0
      BY ONLY <2>1, <3>1, <3>4, j \in 1..n
    <3> QED BY ONLY <2>3, <3>5
  <2> HIDE DEF I
  <2> QED BY ONLY <1>3, <2>2, <2>3 DEF FirstLength
<1>5. read.ok => read.value = header
  BY ONLY <1>1, header = Header(text)
<1> QED BY ONLY <1>2, <1>3, <1>4, <1>5, read = ParseContentRange(text), found = Found(text),
                first = SelectInSeq(text, LAMBDA p : p.length # Absent)
           DEF HeaderInOrder, Ascending, Found

LEMMA RangeTextStep ==
  ASSUME RangeTextExact, ConversionsNext
  PROVE  RangeTextExact'
<1>1. CASE UNCHANGED convVars
  BY <1>1 DEF RangeTextExact, convVars
<1>2. CASE call' \in Others
  BY <1>2 DEF RangeTextExact, Others
<1>3. CASE DurationCalls
  <2>1. call' \in {"Duration.Value", "Duration.MarshalJSON", "Duration.Scan", "Duration.UnmarshalJSON"}
    BY <1>3 DEF DurationCalls
  <2> QED BY <2>1 DEF RangeTextExact
<1>4. CASE TimeCalls
  <2>1. call' \in {"TimeZ.String", "TimeZ.MarshalJSON", "TimeZ.Value", "TimeZ.UnmarshalJSON"}
    BY <1>4 DEF TimeCalls
  <2> QED BY <2>1 DEF RangeTextExact
<1>5. CASE RecurrenceCalls
  <2>1. call' \in {"RRuleSet.Value", "RRuleSet", "RRuleSet.Scan"}
    BY <1>5 DEF RecurrenceCalls
  <2> QED BY <2>1 DEF RangeTextExact
<1>6. ASSUME NEW rl \in Lists, call' = "RangeList.String", args' = <<rl>>,
             answer' = WriteList(rl)
      PROVE  RangeTextExact'
  <2>1. rl \in Seq(Writable)
    BY RangesAssumption DEF RangesAssumption, Writable
  <2>2. WrittenListKept(rl, answer')
    BY ONLY <1>6, <2>1, ListKept
  <2>3. args'[1] = rl
    BY ONLY <1>6
  <2> QED BY ONLY <1>6, <2>2, <2>3 DEF RangeTextExact
<1>7. ASSUME NEW rl \in Lists, call' = "RangeList.StringHTTP", args' = <<rl>>,
             answer' = WriteListHTTP(rl)
      PROVE  RangeTextExact'
  <2>1. rl \in Seq(Writable)
    BY RangesAssumption DEF RangesAssumption, Writable
  <2>2. WrittenHeaderKept(rl, answer')
    BY ONLY <1>7, <2>1, HeaderKept
  <2>3. args'[1] = rl
    BY ONLY <1>7
  <2> QED BY ONLY <1>7, <2>2, <2>3 DEF RangeTextExact
<1>8. ASSUME NEW old \in OldLists, NEW text \in Texts, call' = "RangeList.UnmarshalText",
             args' = <<old, text>>, answer' = ReadList(old, text)
      PROVE  RangeTextExact'
  <2>1. old \in Seq(RangeType) /\ text \in Seq(PieceType)
    BY RangesAssumption DEF RangesAssumption
  <2>2. args'[1] = old
    BY ONLY <1>8
  <2> PICK l \in Seq(RangeType) :
         /\ answer'.value = l
         /\ \A k \in 1..Len(old) : \E m \in 1..Len(l) : Encloses(l[m], old[k])
    BY ONLY <1>8, <2>1, ReadListKeeps
  <2>3. Range(old) = {old[k] : k \in 1..Len(old)} /\ Range(l) = {l[m] : m \in 1..Len(l)}
    BY <2>1 DEF Range
  <2>4. \A r \in Range(old) : \E q \in Range(l) : Encloses(q, r)
    BY ONLY <2>3, \A k \in 1..Len(old) : \E m \in 1..Len(l) : Encloses(l[m], old[k])
  <2> QED BY ONLY <1>8, <2>2, <2>4, answer'.value = l DEF RangeTextExact
<1>9. ASSUME NEW text \in Texts, call' = "ParseContentRange", args' = <<text>>,
             answer' = ParseContentRange(text)
      PROVE  RangeTextExact'
  <2>1. text \in Seq(PieceType)
    BY RangesAssumption DEF RangesAssumption
  <2>2. HeaderInOrder(text, answer')
    BY ONLY <1>9, <2>1, HeaderRead
  <2>3. args'[1] = text
    BY ONLY <1>9
  <2> QED BY ONLY <1>9, <2>2, <2>3 DEF RangeTextExact
<1>10. CASE RangeCalls
  BY ONLY <1>6, <1>7, <1>8, <1>9, <1>10 DEF RangeCalls
<1> QED BY <1>1, <1>2, <1>3, <1>4, <1>5, <1>10, StepCases

\* What is written of ranges for the feedback of a receiver and for HTTP is
\* read as what they were, a text that is read leaves the ranges that were
\* there before within those that are there then, and a header has the ranges
\* of its text in order and its first length, for any lists and texts.
THEOREM RangeTextIsExact == ConversionsSpec => []RangeTextExact
<1>1. ConversionsInit => RangeTextExact
  BY DEF ConversionsInit, RangeTextExact
<1>2. RangeTextExact /\ [ConversionsNext]_<<docVars, convVars>> => RangeTextExact'
  <2> SUFFICES ASSUME RangeTextExact, [ConversionsNext]_<<docVars, convVars>>
               PROVE  RangeTextExact'
    OBVIOUS
  <2>1. CASE ConversionsNext
    BY <2>1, RangeTextStep
  <2>2. CASE UNCHANGED <<docVars, convVars>>
    BY <2>2 DEF RangeTextExact, convVars
  <2> QED BY <2>1, <2>2
<1> QED BY <1>1, <1>2, PTL DEF ConversionsSpec

=============================================================================
