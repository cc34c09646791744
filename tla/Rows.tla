-------------------------------- MODULE Rows --------------------------------
(***************************************************************************)
(* The columns of composite types in the database: what Value writes and   *)
(* Scan reads of names, components, locators, endpoints, bitrates and FEC  *)
(* parameters (delivery.go, 3gpp/models/db.go, dvb/models), and what the   *)
(* database does to it in between.  A text is a sequence of characters, of *)
(* which a number or an address counts as one.                             *)
(***************************************************************************)
EXTENDS Integers, Sequences, SequencesExt, Results

CONSTANTS Numbers, Addresses  \* sets of strings

Comma == ","
Quote == "\""
Backslash == "\\"

\* The zero netip.Addr, and what is printed for it.
NoAddress == ""
InvalidIP == "invalid IP"

-----------------------------------------------------------------------------
(* Faulty variants *)

QuoteIfNeededUndoubled(s) ==
  IF \E k \in DOMAIN s : s[k] \in {Comma, " ", "(", ")", Quote, Backslash}
  THEN <<Quote>> \o s \o <<Quote>> ELSE s

-----------------------------------------------------------------------------
(* Texts *)

\* strings.SplitN(text, ",", n)
SplitN(text, n) ==
  FoldLeft(LAMBDA parts, c : IF c = Comma /\ Len(parts) < n THEN Append(parts, <<>>)
                             ELSE [parts EXCEPT ![Len(parts)] = Append(@, c)],
           <<<<>>>>, text)

InParens(parts) ==
  <<"(">> \o Tail(FlattenSeq([k \in DOMAIN parts |-> <<Comma>> \o parts[k]])) \o <<")">>

\* Without n characters at either end.
Inside(text, n) == SubSeq(text, n + 1, Len(text) - n)

InQuotes(s) == Len(s) > 1 /\ s[1] = Quote /\ s[Len(s)] = Quote

\* Every character of some put twice, or behind a backslash.
Doubled(s, some) ==
  FlattenSeq([k \in DOMAIN s |-> IF s[k] \in some THEN <<s[k], s[k]>> ELSE <<s[k]>>])

Escaped(s, some) ==
  FlattenSeq([k \in DOMAIN s |-> IF s[k] \in some THEN <<Backslash, s[k]>> ELSE <<s[k]>>])

\* strings.ReplaceAll(s, "\"\"", "\"")
Undoubled(s) ==
  LET take(acc, c) == IF c = Quote /\ acc.second THEN [acc EXCEPT !.second = FALSE]
                      ELSE [text |-> Append(acc.text, c), second |-> c = Quote]
  IN  FoldLeft(take, [text |-> <<>>, second |-> FALSE], s).text

\* strings.TrimSpace
TrimSpace(s) ==
  LET kept == {k \in DOMAIN s : s[k] # " "}
  IN  IF kept = {} THEN <<>> ELSE SubSeq(s, Min(kept), Max(kept))

-----------------------------------------------------------------------------
(* The fields of the types                                                 *)

\* "text" is written as it is; "quoted" knows of quotes; an empty number is
\* 0, a "strict" one is not, an "index" may be in quotes; tsi is a pointer, a
\* sequence of at most one, and endpoints is a slice: <<>> for nil, or <<list>>.
NameKinds == <<"text", "text">>
HLSKinds == <<"text", "text">>
DASHKinds == <<"text", "index", "text", "text">>
LocatorKinds == <<"quoted", "quoted", "quoted">>
BitRateKinds == <<"strict", "strict">>
EndpointKinds == <<"source", "group", "number", "tsi">>
FECKinds == <<"number", "number", "float", "number", "number", "number", "endpoints">>

Zero0 == "0"

QuoteIfNeeded(s) ==
  IF \E k \in DOMAIN s : s[k] \in {Comma, " ", "(", ")", Quote, Backslash}
  THEN <<Quote>> \o Doubled(s, {Quote}) \o <<Quote>> ELSE s

UnquoteIfNeeded(s) ==
  LET t == TrimSpace(s)
  IN  IF InQuotes(t) THEN Undoubled(Inside(t, 1)) ELSE t

WriteField(kind, v) ==
  CASE kind = "text" -> v
    [] kind = "quoted" -> QuoteIfNeeded(v)
    [] kind \in {"source", "group"} -> <<IF v = NoAddress THEN InvalidIP ELSE v>>
    [] kind = "tsi" -> IF v = <<>> THEN <<"null">> ELSE v
    [] OTHER -> <<v>>

Only(t, some) == Len(t) = 1 /\ t[1] \in some

Unquoted(t) == IF InQuotes(t) THEN Inside(t, 1) ELSE t

\* With an error goes what is stored all the same: <<>> for nothing.
ReadField(kind, t) ==
  CASE kind = "text" -> Ok(Unquoted(t))
    [] kind = "quoted" -> Ok(UnquoteIfNeeded(t))
    [] kind = "index" /\ InQuotes(t) ->
         IF Only(Inside(t, 1), Numbers) THEN Ok(t[2]) ELSE Error(<<>>)
    [] kind \in {"source", "group"} ->
         IF Only(t, Addresses) THEN Ok(t[1])
         ELSE IF kind = "source" /\ t = <<>> THEN Ok(NoAddress) ELSE Error(<<NoAddress>>)
    [] OTHER ->
         IF Only(t, Numbers) THEN Ok(IF kind = "tsi" THEN t ELSE t[1])
         ELSE IF kind # "strict" /\ t = <<>> THEN Ok(IF kind = "tsi" THEN <<Zero0>> ELSE Zero0)
         ELSE Error(IF kind \in {"strict", "float"} THEN <<Zero0>> ELSE <<>>)

\* The outer parentheses are taken off unseen.
Fields(text, n) == SplitN(Inside(text, 1), n)

\* Scan: the fields are stored one by one up to the first that cannot be read.
ReadRow(old, read) ==
  LET bad == SelectInSeq(read, LAMBDA r : ~r.ok)
  IN  IF Len(read) # Len(old) THEN Error(old)
      ELSE IF bad = 0 THEN Ok([k \in DOMAIN old |-> read[k].value])
      ELSE Error([k \in DOMAIN old |->
             IF k < bad THEN read[k].value
             ELSE IF k = bad /\ read[k].value # <<>> THEN read[k].value[1] ELSE old[k]])

WriteRow(kinds, row) == InParens([k \in DOMAIN kinds |-> WriteField(kinds[k], row[k])])

-----------------------------------------------------------------------------
(* Arrays and FEC parameters                                               *)

\* An array of texts as the database and pq write it: each in quotes.
ArrayOut(elems) ==
  LET quoted(e) == <<Comma, Quote>> \o Escaped(e, {Quote, Backslash}) \o <<Quote>>
      list == FlattenSeq([k \in DOMAIN elems |-> quoted(elems[k])])
  IN  <<"{">> \o (IF list = <<>> THEN <<>> ELSE Tail(list)) \o <<"}">>

\* And as both read it, if its elements are in quotes.
ArrayStep(s, c) ==
  LET to(at) == [s EXCEPT !.at = at]
      add == [s EXCEPT !.cur = Append(@, c), !.at = "in"]
  IN  CASE s.at = "in" /\ c = Backslash -> to("escape")
        [] s.at = "in" /\ c = Quote ->
             [at |-> "behind", cur |-> <<>>, elems |-> Append(s.elems, s.cur)]
        [] s.at = "escape" \/ (s.at = "in" /\ c \notin {Backslash, Quote}) -> add
        [] s.at \in {"first", "next"} /\ c = Quote -> to("in")
        [] s.at \in {"first", "behind"} /\ c = "}" -> to("end")
        [] s.at = "behind" /\ c = Comma -> to("next")
        [] OTHER -> to("bad")

ArrayIn(text) ==
  LET s == FoldLeft(ArrayStep, [at |-> "first", cur |-> <<>>, elems |-> <<>>], Tail(text))
  IN  IF text # <<>> /\ text[1] = "{" /\ s.at = "end" THEN Ok(s.elems) ELSE Error(<<>>)

\* Of the last column three characters are taken off at either end: the
\* quotes of the row, the braces, and one of the two quotes of an element.
EndpointsText(t) == IF Len(t) > 6 THEN <<"{">> \o Inside(t, 3) \o <<"}">> ELSE t

ReadEndpoint(text) ==
  LET fields == Fields(text, 4)
  IN  ReadRow(<<NoAddress, NoAddress, Zero0, <<>>>>,
              [k \in DOMAIN fields |-> ReadField(EndpointKinds[k], fields[k])])

\* pq.GenericArray.Scan into a slice, which is replaced if there is no error.
ReadEndpoints(t) ==
  LET list == ArrayIn(EndpointsText(t))
      rows == [k \in DOMAIN list.value |-> ReadEndpoint(list.value[k])]
  IN  IF list.ok /\ \A k \in DOMAIN rows : rows[k].ok
      THEN Ok(<<[k \in DOMAIN rows |-> rows[k].value]>>) ELSE Error(<<>>)

\* The error of an empty list of endpoints is passed over, and the slice stays
\* as it was.
ReadFECField(kind, old, t) ==
  IF kind # "endpoints" THEN ReadField(kind, t)
  ELSE IF t = <<>> THEN Ok(old) ELSE ReadEndpoints(t)

\* fmt.Sprint of the nil that pq.GenericArray.Value gives for a nil slice.
PrintedNil == <<"<", "n", "i", "l", ">">>

\* FECParamType.Value: the array, escaped once more, in quotes.
WriteFEC(row) ==
  LET list == row[7][1]
      text == IF row[7] = <<>> THEN PrintedNil
              ELSE ArrayOut([k \in DOMAIN list |-> WriteRow(EndpointKinds, list[k])])
  IN  InParens([k \in 1..6 |-> <<row[k]>>]
                 \o <<<<Quote>> \o Escaped(text, {Quote}) \o <<Quote>>>>)

-----------------------------------------------------------------------------
(* The database: a composite type of n columns reads a row and writes it.  *)

RecordStep(s, c) ==
  LET last == Len(s.fields)
      add == [s EXCEPT !.fields[last] = [null |-> FALSE, chars |-> Append(@.chars, c)],
                       !.at = IF s.at \in {"in", "escapeIn"} THEN "in" ELSE "out"]
      open(at) == [s EXCEPT !.fields[last].null = FALSE, !.at = at]
  IN  CASE s.at \in {"end", "bad"} -> [s EXCEPT !.at = "bad"]
        [] s.at \in {"escape", "escapeIn"} -> add
        [] s.at = "in" ->
             IF c = Backslash THEN open("escapeIn") ELSE IF c = Quote THEN open("closed") ELSE add
        [] s.at = "closed" /\ c = Quote -> [add EXCEPT !.at = "in"]
        [] s.at = "out" /\ c = Quote -> open("in")
        [] s.at \in {"out", "closed"} /\ c = Backslash -> open("escape")
        [] s.at \in {"out", "closed"} /\ c = Comma ->
             [s EXCEPT !.fields = Append(@, [null |-> TRUE, chars |-> <<>>]), !.at = "out"]
        [] s.at \in {"out", "closed"} /\ c = ")" -> [s EXCEPT !.at = "end"]
        [] OTHER -> add

RecordIn(text, n) ==
  LET s == FoldLeft(RecordStep,
                    [at |-> "out", fields |-> <<[null |-> TRUE, chars |-> <<>>]>>], Tail(text))
  IN  IF s.at = "end" /\ Len(s.fields) = n THEN Ok(s.fields) ELSE Error(<<>>)

RecordOut(fields) ==
  LET special == {Quote, Backslash, "(", ")", Comma, " ", InvalidIP}
      out(f) == IF f.null THEN <<>>
                ELSE IF f.chars = <<>> \/ \E k \in DOMAIN f.chars : f.chars[k] \in special
                THEN <<Quote>> \o Doubled(f.chars, {Quote, Backslash}) \o <<Quote>>
                ELSE f.chars
  IN  InParens([k \in DOMAIN fields |-> out(fields[k])])

\* What the database gives back of a row it was given.
StoredRow(text, n) ==
  LET row == RecordIn(text, n) IN IF row.ok THEN Ok(RecordOut(row.value)) ELSE row

\* Its last column is an array of endpoints.
StoredFEC(text) ==
  LET row == RecordIn(text, 7)
      list == IF row.ok THEN ArrayIn(row.value[7].chars) ELSE row
      endpoints == [k \in DOMAIN list.value |-> StoredRow(list.value[k], 4)]
  IN  IF list.ok /\ \A k \in DOMAIN endpoints : endpoints[k].ok
      THEN Ok(RecordOut([row.value EXCEPT ![7].chars =
                ArrayOut([k \in DOMAIN endpoints |-> endpoints[k].value])]))
      ELSE Error(<<>>)

-----------------------------------------------------------------------------
(* The name of the channel of an endpoint, as a sequence of its parts      *)

ChannelDesc(src, group, port, tsi) ==
  LET part(name, v, none) == IF v \in none THEN <<>> ELSE <<<<name, v>>>>
  IN  part("dIpAddr", group, {NoAddress, InvalidIP, "0.0.0.0"}) \o part("dPort", port, {"", "0"})
        \o part("sIpAddr", src, {NoAddress, InvalidIP, "0.0.0.0"}) \o part("tsi", tsi, {""})

Key(endpoint, withTsi) ==
  ChannelDesc(endpoint[1], endpoint[2], endpoint[3],
              IF ~withTsi THEN "" ELSE IF endpoint[4] = <<>> THEN Zero0 ELSE endpoint[4][1])

=============================================================================
