------------------------------ MODULE Documents -----------------------------
(***************************************************************************)
(* Decoding and encoding of the XML types that bring their own             *)
(* UnmarshalXML and MarshalXML (3gpp/models, dvb/models).  UnmarshalXML    *)
(* decodes into an overlay: a struct that embeds the value and shadows     *)
(* some of its fields by pointers.  The document is chosen an item         *)
(* (attribute, element or text) at a time, and any may be refused as       *)
(* malformed; the value of an item is its place in the document, 0 is the  *)
(* zero value.  A field is the sequence of its values: one if it is plain, *)
(* at most one if it is a pointer.                                         *)
(***************************************************************************)
EXTENDS DocumentTypes, Integers, Sequences, FiniteSets, SequencesExt

CONSTANTS
  Names,     \* the names of the types
  MaxItems   \* bound on the items of a document

ASSUME DocumentsAssumption == Names \subseteq DOMAIN Types \ {"none"} /\ MaxItems \in Nat

VARIABLES
  type,     \* the type of the value, "none" between the calls
  status,   \* how far the call is
  before,   \* the value when decoding began
  doc,      \* the items that were read
  state,    \* the value and its overlay
  again     \* what encoding and decoding once more gives

docVars == <<type, status, before, doc, state, again>>

t == Types[type]

Unknown == "unknown"

Item(f, v, good) == [field |-> f, value |-> v, good |-> good]

-----------------------------------------------------------------------------
(* Values *)

Plain(ty) == ty.required \cup ty.omitted

FieldsOf(ty) == Plain(ty) \cup ty.pointers \cup ty.lists

\* The fields that items are read into by name.
Bound(ty) == FieldsOf(ty) \ (ty.text \cup ty.hidden \cup {"Items"})

\* How the fields may be bound: each in one way, the text to at most one field,
\* and `Items` to none.
WellFormed(ty) ==
  /\ IsFiniteSet(FieldsOf(ty)) /\ Unknown \notin FieldsOf(ty)
  /\ Plain(ty) \cap ty.pointers = {} /\ ty.lists \cap (Plain(ty) \cup ty.pointers \cup ty.times) = {}
  /\ "Items" \in FieldsOf(ty) => "Items" \in ty.lists
  /\ ty.text \cup ty.hidden \subseteq Plain(ty) /\ ty.text \cap ty.hidden = {}
  /\ \A f, g \in ty.text : f = g
  /\ ty.copied \subseteq ty.pointers

ASSUME TypesAssumption == \A n \in Names : WellFormed(Types[n])

Fresh(ty) == [f \in FieldsOf(ty) |-> IF f \in Plain(ty) THEN <<0>> ELSE <<>>]

\* A value that was decoded into before.
Filled(ty) == [f \in FieldsOf(ty) |-> <<MaxItems + 1>>]

\* What a []byte holds after base64 or hexadecimal digits went wrong.
Cut == MaxItems + 2

-----------------------------------------------------------------------------
(* Faulty variants *)

OverlayUnaliased(ty, val) ==
  [f \in ty.aliased \cup ty.copied |->
     [shared |-> f \in ty.copied /\ val[f] # <<>>, own |-> <<>>]]

-----------------------------------------------------------------------------
(* Decoding *)

\* The pointers of the overlay: to where the value has the field, or of its
\* own, nil at first.
Overlay(ty, val) ==
  [f \in ty.aliased \cup ty.copied |->
     [shared |-> f \in ty.copied => val[f] # <<>>, own |-> <<>>]]

Start(ty, val) == [val |-> val, over |-> Overlay(ty, val), text |-> <<>>, ok |-> TRUE]

\* A field that held cur, after an item was read into it.
Stored(ty, cur, item) ==
  LET f == item.field
  IN  IF item.good THEN IF f \in ty.lists THEN Append(cur, item.value) ELSE <<item.value>>
      ELSE IF f \in ty.times THEN <<0>>
      ELSE IF f \in ty.binaries THEN <<Cut>>
      ELSE IF f \in ty.pointers /\ cur = <<>> THEN <<0>> ELSE cur

\* xml.Decoder: a shadowed field is that of the overlay.
ReadBound(ty, s, item) ==
  LET f == item.field
  IN  IF f \in DOMAIN s.over /\ ~s.over[f].shared
      THEN [s EXCEPT !.over[f].own = Stored(ty, @, item), !.ok = item.good]
      ELSE [s EXCEPT !.val[f] = Stored(ty, @, item), !.ok = item.good]

\* An element without a field goes to Items or nowhere; its text is not
\* looked at further.
ReadUnknown(ty, s, item) ==
  IF "Items" \in ty.lists THEN [s EXCEPT !.val["Items"] = Append(@, item.value)] ELSE s

ReadItem(ty, s, item) ==
  IF item.field \in Bound(ty) THEN ReadBound(ty, s, item)
  ELSE IF item.field \in ty.text THEN [s EXCEPT !.text = <<item>>]
  ELSE ReadUnknown(ty, s, item)

\* The text is stored at the end tag, and if there is none it is empty.
ReadEnd(ty, s) ==
  IF s.text # <<>> /\ ~s.text[1].good THEN [s EXCEPT !.ok = FALSE]
  ELSE [s EXCEPT !.val = [f \in FieldsOf(ty) |->
          IF f \notin ty.text THEN @[f] ELSE IF s.text = <<>> THEN <<0>> ELSE <<s.text[1].value>>]]

-----------------------------------------------------------------------------
(* Encoding *)

Written(ty, f, values) ==
  IF f \in ty.hidden \/ (values = <<0>> /\ f \in (ty.omitted \cup ty.times) \ ty.pointers)
  THEN <<>>
  ELSE [k \in DOMAIN values |-> Item(IF f = "Items" THEN Unknown ELSE f, values[k], TRUE)]

Encoded(ty, val) ==
  FoldSet(LAMBDA f, items : items \o Written(ty, f, val[f]), <<>>, FieldsOf(ty))

DecodedFresh(ty, items) ==
  ReadEnd(ty, FoldLeft(LAMBDA s, item : ReadItem(ty, s, item), Start(ty, Fresh(ty)), items)).val

-----------------------------------------------------------------------------
(* Calls *)

DocIdle == type = "none"

Nothing == [val |-> <<>>, over |-> <<>>, text |-> <<>>, ok |-> TRUE]

DocInit ==
  /\ type = "none" /\ status = "idle"
  /\ before = <<>> /\ doc = <<>> /\ state = Nothing /\ again = <<>>

Decode ==
  /\ DocIdle
  /\ \E n \in Names :
        /\ type' = n
        /\ before' \in {Fresh(Types[n]), Filled(Types[n])}
        /\ state' = Start(Types[n], before')
  /\ status' = "reading"
  /\ UNCHANGED <<doc, again>>

ReadNext ==
  /\ status = "reading" /\ Len(doc) < MaxItems
  /\ \E f \in Bound(t) \cup t.text \cup t.hidden \cup {Unknown}, good \in BOOLEAN :
       LET item == Item(f, Len(doc) + 1, good)
       IN  /\ f \notin Bound(t) \cup t.text => good
           /\ f \in t.text => state.text = <<>>
           /\ doc' = Append(doc, item)
           /\ state' = ReadItem(t, state, item)
           /\ status' = IF state'.ok THEN "reading" ELSE "failed"
  /\ UNCHANGED <<type, before, again>>

Finish ==
  /\ status = "reading"
  /\ state' = ReadEnd(t, state)
  /\ status' = IF state'.ok THEN "done" ELSE "failed"
  /\ UNCHANGED <<type, before, doc, again>>

EncodeAgain ==
  /\ status = "done"
  /\ again' = DecodedFresh(t, Encoded(t, state.val))
  /\ status' = "encoded"
  /\ UNCHANGED <<type, before, doc, state>>

DocReturn ==
  /\ status \in {"failed", "encoded"}
  /\ type' = "none" /\ status' = "idle"
  /\ before' = <<>> /\ doc' = <<>> /\ state' = Nothing /\ again' = <<>>

DocNext == Decode \/ ReadNext \/ Finish \/ EncodeAgain \/ DocReturn

DocSpec == DocInit /\ [][DocNext]_docVars

-----------------------------------------------------------------------------
(* Properties *)

\* The values that the items have for a field.
Fills(ty, f, item) ==
  item.field = f \/ (f = "Items" /\ item.field \in ty.hidden \cup {Unknown})

Values(ty, f, items) ==
  FoldLeft(LAMBDA vs, i : IF Fills(ty, f, i) THEN Append(vs, i.value) ELSE vs, <<>>, items)

\* What a document of these items leaves in a field that held `old`.
Content(ty, f, items, old) ==
  LET values == Values(ty, f, items)
  IN  IF f \in ty.lists THEN old \o values
      ELSE IF values # <<>> THEN <<Last(values)>>
      ELSE IF f \in ty.text THEN <<0>> ELSE old

\* The overlay has a pointer of its own for these.
Detached == {f \in t.copied : before[f] = <<>>}

\* A decoded value holds the document: the last item of a field, all items of
\* a list behind those it had, and what it held where the document has none;
\* only a pointer that the overlay copied while it was nil, and the field that
\* a promoted UnmarshalXML does not know, stay as they were.  If an item is
\* refused, the items before it are stored all the same, except the text.
\* What encoding writes of a decoded value decodes to it again, in all fields
\* but those.
DocumentsExact ==
  LET kept == FieldsOf(t) \ (t.hidden \cup Detached)
      refused == {doc[k].field : k \in {l \in DOMAIN doc : ~doc[l].good}}
  IN  /\ status \in {"done", "encoded"} =>
           \A f \in FieldsOf(t) :
              state.val[f] = IF f \in kept THEN Content(t, f, doc, before[f]) ELSE before[f]
      /\ status = "failed" =>
           \A f \in kept \ (t.text \cup refused) :
              state.val[f] = Content(t, f, doc, before[f])
      /\ status = "encoded" =>
           \A f \in FieldsOf(t) \ (t.hidden \cup t.copied) : again[f] = state.val[f]

\* Every element and attribute that the type has a field for is in the field
\* after a successful decoding, if no other one took its place.
XmlKept ==
  status = "done" =>
     \A k \in DOMAIN doc :
        LET f == doc[k].field
        IN  f \in FieldsOf(t) /\ (\A l \in DOMAIN doc : doc[l].field = f => l <= k) =>
               \E m \in DOMAIN state.val[f] : state.val[f][m] = doc[k].value

=============================================================================
