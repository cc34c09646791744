# Verification of multicast-api

TLA+ models, TLC runs and TLAPS proofs for the Go code of this repository: the
types and helpers that Blockcast's multicast sender and receiver share. Its
algorithms are in three files; the rest is data, with the code that writes the
data and reads it back. The models are of both:

| file | logic |
|---|---|
| `src/util.go` | `FeedOf[T]`, a one-to-many event feed over Go channels, used from any number of goroutines |
| `src/fec/blocking.go` | `BlockingStructure`: how an object is cut into source blocks (RFC 5052), read by queries while its length is updated |
| `src/fec/util.go` | `RangeList` and `ESIRange`: which bytes or symbols of an object a receiver has, lacks and must ask for; their texts |
| `src/delivery.go`, `src/time.go` | what goes into the database and comes back: endpoints, FEC parameters, times, durations, recurrences |
| `src/3gpp/models`, `src/dvb/models` | types of XML schemas, 74 of them with an `UnmarshalXML` or `MarshalXML` of their own |

## 1. Inventory

### The event feed (`util.go`)

*State.* `sendLock` (a channel that holds one token while free), `sendCases` (the
select cases, the first one that of `removeSub`), `mu` with the `inbox` of cases
that have not reached `sendCases`, and a `once` that makes all of it. A
subscription has its channel, an error channel and an `errOnce`. A running `Send`
has a prefix `cases` of the array of `sendCases`, and a count.

*Operations.* `Subscribe`, `Unsubscribe` (`remove`), `Send`, `Size`.

*Interaction.* Goroutines meet on both locks, on `removeSub`, by which an
`Unsubscribe` gets through to a `Send` that waits in `reflect.Select`, and on the
subscribers' channels.

*Hard.* A case moves from the inbox to `sendCases` while an `Unsubscribe` that
has looked for it in the inbox waits; `cases` and `sendCases` share one array, in
which `deactivate` swaps while `delete` shifts; `delete(find(..))` is called
without a look at -1; two subscriptions may share a channel; a `Send` may wait for
ever on a subscriber, and nobody else may wait with it.

*Correct means.* Each `Send` reaches every subscription once, in the order of the
Sends, unless the subscription ends first; nothing is sent to what has ended; no
case is lost or left behind; `nsent` counts the deliveries; `Unsubscribe` always
returns.

### Range lists (`fec/util.go`)

*State.* None that outlives a call. A list of inclusive ranges is *normal* if it
is in order with a gap between neighbours; `UnmarshalText` and the operations make
normal lists.

*Operations.* `Intersection`, `Subtract`, `Union`, `InplaceUnion`, `Contains`,
`Missing`, `flatten`, `Count`.

*Hard.* Each is a loop that walks two lists at once by the position of the two
current ranges. `InplaceUnion` inserts into and deletes from the list it walks;
`Subtract` calls itself; `Union` must append the right rest.

*Correct means.* They compute the set operation, return normal lists, end, and
never leave their lists.

### Blocking structure (`fec/blocking.go`)

*State.* `N`, `I`, `A`, `ASmall`, `TransferLen` as atomics; `MaxSbLen`, `ESLen`,
`NumEsPerGroup`, `MaxNumEs`, `Codepoint` as plain fields.

*Operations.* `NewBlockingStructure5052`, `UpdateBlockingStructure5052`,
`recompute`, `UpdateLength`; `SrcOffset`, `SrcBlockSize`, `NumSrcSym`,
`SourceSBN`, `RprOffset`, `RprBlockSize`, `RepairSBN`.

*Hard.* No lock: a query loads the atomics one by one, some of them several times,
while an update stores them one by one. A failed update has already stored some of
them; a successful one may leave the `I` of an earlier one.

*Correct means.* At rest the blocks partition the object, `SourceSBN` inverts
`SrcOffset`, and `NumSrcSym` counts the symbols; during an update no query panics,
and while a live stream grows the answers about what was there stay right.

### Symbol ranges (`fec/util.go`)

*State.* None; an `ESIRange` maps block numbers to lists of symbols.

*Operations.* `ESIRangeFromRangeList`, `ESRangeListForSBNFromRangeList`,
`GetMissingESIs`, `ToRangeList`, `MarshalText`, `UnmarshalText`,
`ToMBMSRawQuery`, `NewESIRangeFromMBMSQuery`.

*Interaction.* They combine range lists with the queries of a blocking structure.
A receiver turns the bytes it lacks into symbols, takes off what repair symbols
stand in for, and turns the rest into a request for bytes.

*Hard.* Short last symbols, small and large blocks, inclusive or not, unsigned
arithmetic.

*Correct means.* No byte it needs is left out of a request, none it has is in it.

### Texts of ranges (`fec/util.go`)

*Operations.* `Range.MarshalText`, `UnmarshalText`, `StringHTTP`; `RangeList.String`,
`StringHTTP`, `UnmarshalText`; `ParseContentRange`.

*Hard.* A range without an end is -1 in memory and nothing in the text; a list is
read into one that may hold something already, and put in order only if all of it
could be read; a header gives several ranges, of which some are dropped.

*Correct means.* A peer finds the offsets that were written, and only those.

### Database codecs (`delivery.go`, `3gpp/models/db.go`, `dvb/models`)

*State.* A row of fields; `Scan` stores them one by one.

*Operations.* `Value` and `Scan` of `Name`, `HLSComponentIdentifierType`,
`DASHComponentIdentifierType`, `PresentationManifestLocator`, `BitRateType`,
`MulticastEndpointAddressType`, `FECParamType`; `Key`, `ChannelDesc`.

*Interaction.* PostgreSQL reads what `Value` writes as a composite type and writes
it in its own way, with quotes and doubled quotes; that is what `Scan` gets.
FEC parameters hold an array of endpoints: a row in an array in a row.

*Hard.* Each level quotes what the levels inside have quoted; missing values.

*Correct means.* What was stored is read back; two channels have two names.

### Times, durations, recurrences (`time.go`)

*Operations.* `String`, `MarshalJSON`, `UnmarshalJSON`, `Value`, `Scan` of `TimeZ`,
`Duration`, `RRuleSet`; `RRuleSet.RRuleSet` and `RRule.RRule`, which hand a
recurrence to `rrule-go`.

*Hard.* A duration comes as `1m30s`, as `00:01:30` from the database, in quotes and
in escaped quotes; times in several layouts; a set is scanned into one that holds
an older recurrence.

*Correct means.* Written and read again they are the same; a recurrence is that of
the set.

### XML documents (`3gpp/models`, `dvb/models`)

*State.* The value that is decoded into, and an overlay: a struct that embeds the
value and shadows some fields by pointers.

*Operations.* `UnmarshalXML` and `MarshalXML` of 74 types, by `encoding/xml`.

*Hard.* The pointer in the overlay may be one to the field or a copy of a pointer,
which may be nil; a type may inherit the codec of another one it embeds; a
document may end in an error half-way, and a value may be decoded into again.

*Correct means.* What is in the document and has a field is in the value.

### The rest

`AtomicUint32` (one atomic operation per method), `types.go`, `enums.go`,
`blockcast.go` (records and names), `interfaces.go`, `locker.go` (interfaces
without an implementation here). `PROJECT.json` lists each with the reason why it
is not modelled.

## 2. Modules

```
Feed ──refines──> FeedBroadcast            Ranges ──> RangeOps <── MCRangeOps
  ├─ MCFeed                                   │          └─ RangeOpsProofs
  └─ FeedProofs ── FeedRefinement             ├─────> Missing ──┐
                                              ├─────> Symbols ──┴─> Receiver <── MCReceiver
                                              │         └─ SymbolsProofs ─┴─ ReceiverProofs
                                           Blocking ────┘  └─> BlockingShared ── BlockingProofs
DocumentTypes ──> Documents ──┐
Ranges ──> RangeText ─────────┼──> Conversions <── MCConversions
Rows, Times ──────────────────┘         └─ ConversionsProofs

Results: the results of functions that may fail
```

`ListLemmas` has the facts about lists of ranges and about sequences that the
proofs share.

### Feed

The state is that of the code; what a goroutine holds in local variables is a
function of `Threads`. Code that holds `mu` and cannot block is one step, but for the
section that gives both locks back, `sendLock` before `mu`: it takes `mu` and deletes
(`UnsubDelete`), puts the token back (`UnsubHandOff`) and frees `mu` (`UnsubUnlock`), and
a `Send` may come in between.

| code | actions |
|---|---|
| `Subscribe` | `Subscribe` |
| `Unsubscribe`, `remove` | `Unsubscribe` (to the end of the look at the inbox), then `UnsubTakeLock`, `UnsubDelete`, `UnsubHandOff`, `UnsubUnlock` or `SelectRemove` with a `Send`, then `UnsubClose`; `UnsubscribeAgain`, `OnceReturn` for a second caller in `errOnce.Do` |
| `Send` | `SendCall`, `SendAcquire`, `SendMerge`, `TrySend`/`TrySendFull`/`TryDone` (the fast path, a case at a time), `SelectSend`, `SelectRemove`, `SendDrop`, `SendRelease` |
| a subscriber (external) | `Receive` |

`sendCases` starts at 1 where the code starts at 0. As in the code the prefix
`cases` is a length, not a copy: it shares the array. A parked receiver makes room
for one value more, so that unbuffered channels are covered by `Room`.
`SelectRemove` is the rendezvous on `removeSub`, one step of two goroutines.

`FeedBroadcast` is what a feed promises: a set of members per channel, the current
value and whom it is still owed to; `Deliver` once to each, `Leave` at any time,
`Begin` only when nothing is owed. It knows no locks, no lists and no goroutines.
The mapping of `Feed` is at its end: a member is a case in either list unless its
`Unsubscribe` has met a `Send`, and a value is owed to the cases in the prefix.

### Ranges, RangeOps, Missing

`Ranges` has the operators on single ranges and positions, and `Flatten`, which
is the code's sort followed by its loop over neighbours: `Sorted` puts at each
place the range with that many before it, `Merged` is the loop, from the right, as
a function of the place. Neither is a fold, so that proofs can expand them.
`RangeOps` has one action per iteration of each loop, with an index into each of
the two lists; `Subtract` keeps the frames of the calls it makes of itself.
`Missing` has the loop of `Missing`, apart because a receiver goes through it.

### Blocking, BlockingShared

`Blocking` has the arithmetic of a structure at rest, with the widths of the code
(`U32`, `U64` wrap at the constants `Max32` and `Max64`), and what an update does,
as the list of its stores in their order. `BlockingShared` takes these one at a
time (`Store`) and runs a query beside them, one load at a time (`Load`): the
operators `...Loads` give the fields a query reads in the order of Go's
evaluation, given what it has read so far, and `...Seen` its answer. Other
updates than `UpdateLength` write plain fields too; concurrent with a query they
would be data races of the caller, and happen only when the structure is idle.

### Symbols, Receiver

`Symbols` has one action per function, which calls it with any of its arguments;
the results of the set operations it calls are taken to be exact (`ListOf`), as
`RangeOps`, `RangeOpsProofs` and `ReceiverProofs` show for what they are called with;
that every finite set of numbers has such a list is proved (`ListOfIs`).
A text is a sequence of its parts between semicolons, a query the same parts with other
separators; other programs may write a range in a query as its start and how far
it goes (`120+10`), and `Counted` is such a program. Offsets of symbols in a block are
cut to 32 bits where the code does (`FirstWholeSymbol`, `LastWholeSymbol`).

`Receiver` composes `Missing` and `Symbols` as
`TestESIRangeFromRangeListBorderCase` does: the walk of `Missing` over the bytes
a receiver has, one range at a time, and when it has returned, `CallRequest` turns
its result into symbols, takes off what repair symbols stand in for, and turns
the rest into the bytes to ask for.

### RangeText, Rows, Times, Documents, Conversions

These are functions of the code as operators; `Conversions` has an action that
calls each of them, and the properties say what one function makes of the answer
of the other.

* `RangeText`: a text is a sequence of pieces between commas; a piece has a first
  number, a dash, a last number and a length, any of which may be absent, or a star, behind
  which the code takes the leftmost digits for a range (`Leftmost`). What the
  regular expressions skip is left out. `MaxInt` stands for the largest `int64`.
* `Rows`: a text is a sequence of characters, where a number or an address counts
  as one. `ReadField` and `WriteField` are by kind of field, `ReadRow` stores the
  fields up to the first that fails. A slice of endpoints may be nil, which is written
  `<nil>` and not `{}`, and an empty last column leaves it as it was. `RecordIn`,
  `RecordOut`, `ArrayIn` and `ArrayOut` are the database and `pq` (external), modelled for
  what `Value` writes, with columns that take any text: `StoredRow` is what comes back of a row.
* `Times`: a duration is a number of whole milliseconds and its text a sequence of
  numbers with units; a time has seconds, milliseconds and the offset of its zone.
  `RuleOptions` and `Expand` are what is handed to `rrule-go`, which is not in the
  repository: it may return an error, and given no rule it may as well panic.
* `DocumentTypes` has a record for each type: which fields are plain, pointers or
  lists, written when empty or not, shadowed by an alias or by a copied pointer,
  or not bound at all. `Documents` decodes a document an item at a time
  (`Decode`, `ReadNext`, `Finish`), where any item may be refused, into a fresh or
  a used value, and then encodes the value and decodes that (`EncodeAgain`). A
  nested element is one value, and there is at most one run of characters. That
  any field may be refused is more than can happen to a string. The
  decoder itself is `encoding/xml` (external).

## 3. Runs

Each of the 12 takes about two minutes at most. Eight pass, four show a
disagreement.

| run | question | instance |
|---|---|---|
| `feed_shared` | `TypeOK`, `LockDiscipline`, `CasesAccounted`, `RemovalFindsCase`, `NSentExact`, `NoDeliveryAfterLeave`; `ImplementsBroadcast`: refinement of `FeedBroadcast` | 3 goroutines, 3 subscriptions, two of them on one unbuffered channel, one on a channel with room for one value, 2 Sends; 566,606 states |
| `feed_order` | `ConsecutiveDelivery` | 3 goroutines, 2 subscriptions on channels of their own, 3 Sends; 383,536 |
| `feed_live` | `UnsubscribeReturns`, `SendReturnsIfAllLeave`, `SendReturns` | 3 goroutines, 2 subscriptions of one unbuffered channel, 2 Sends, no symmetry; 57,378 |
| `ranges` | what the set operations compute, indexes, ends | all pairs of lists over 0..3 with touching ranges, of normal lists over 0..5, and open-ended lists for `Union`; 148,950 |
| `ranges_subtract` | `SubtractExact` fails | normal lists |
| `ranges_union` | `UnionExact` fails | normal lists |
| `blocking` | `PartitionAtRest`, `LookupAtRest`, `SymbolsAtRest` | any sequence of updates with lengths 1, 9, 13, maxima 0, 2, 3, symbols of 0, 1, 2 bytes, groups 0, 1, files and streams; 19,165 |
| `blocking_queries` | `QueriesDoNotPanic`, `StreamQueriesExact` | lengths 3, 5, 9, all four queries with all arguments, one update during a query, every order of loads and stores; 726,000 |
| `blocking_grow` | `NumSrcSymWithinMaximum` fails | the same |
| `receiver` | `MissingExact`, `MissingNormal`, `FromListExact`, `ForSBNComplete`, `MissingBalanced`, `ToListExact`, `RequestSuffices`, `TextInRunsExact` | `Missing` on all lists over 0..7 with all bounds; four objects, all lists of their bytes, all sets of their symbols; 161,183 |
| `conversions` | `RangeTextExact`, `RowsExact`, `TimesExact`, `RecurrenceExact`, `DocumentsExact` | lists and texts of up to 3 ranges, rows of 8 texts in each field, FEC parameters with no slice of endpoints or up to 2 of them, texts of durations of up to 3 numbers, all 74 types with documents of up to 3 items; 472,801 |
| `xml_kept` | `XmlKept` fails | `ReoccurenceStartStop` |

*Why these bounds.* The feed: what `Send`, `Unsubscribe` and `Subscribe` do to
each other takes three goroutines, one in each; two subscriptions of one channel
and a third on another are the smallest case where a removal can hit the wrong
case, or one in the middle of the prefix; a second Send shows what the first one
left behind in the array. In `feed_order` a third Send makes it possible to skip
one. Range lists: the loops compare the ends of two ranges, and over six offsets
there are lists of three ranges in every position to each other, with ranges of
one offset, touching ranges and gaps of one. Blocking: the lengths give one
block and several, all of one size or of two sizes, a short last block and a short
last symbol, and zero among the arguments gives the updates that fail. A length of 9
with blocks of 2 symbols of 2 bytes has both sizes. One update during a query
already gives every mixture of old and new values. `Max32` and `Max64` are 256 and
65536: no product of the sizes above reaches them unless the code has wrapped.
Symbols: nine bytes in symbols of two bytes are three blocks, the last of one symbol
of one byte, small in a file and short in a stream; eight bytes in symbols of three
are a large and a small block with a short symbol; two repair symbols per block are
as many as its source symbols, or more. Conversions: three ranges are one that is
nested and one behind, or two and an open one; the texts of fields have every
character that some level quotes, alone and with others; two endpoints are the
first array with a comma between rows; a document of three items has a field twice
and another one before, between or after, and a value that was decoded into before
(`Filled`) stands for all earlier documents.

*Deadlock* is checked in every run. A feed may rest only when every call has
returned, every subscription has ended and every receiver is parked (`Quiescent`).

*Fairness.* `Feed!FairSpec` is weak fairness of each goroutine's step inside a
call: the Go scheduler runs a goroutine that can run. Sends are bounded, and a
goroutine waiting on a Go channel is in a FIFO queue, so strong fairness is not
needed for the lock. A *receiver* owes nothing: that subscribers keep receiving
is the premise of `SendReturns` alone, and `UnsubscribeReturns` and
`SendReturnsIfAllLeave` hold without it. `RangeOps!FairSpec` is that a loop goes on.

Every property of a passing run has a mutant in `PROJECT.json`: a plausible slip
in an operator (the "faulty variants" of each module) by which TLC refutes it.

## 4. What the code does not do

Four runs have a counterexample.

* **`Subtract` leaves numbers in** (`fec/util.go:308`, `ranges_subtract`):
  {1-2} minus {0, 2} is {1-2}. If a range of the argument reaches into a range of
  the receiver from the front, the rest of it is kept whole, although the next range
  of the argument may cut it again. If what is subtracted is a part of the
  receiver it is exact (`SubtractPartExact`).
* **`Union` loses a rest** (`fec/util.go:460`, `ranges_union`): {0, 2, 4} union
  {1-3} is {0-3}. On lists with nothing in common it is exact (`UnionDisjointExact`).
* **`NumSrcSym` exceeds the maximum** (`fec/blocking.go:133`, `blocking_grow`): it
  loads the transfer length twice; a stream that grows in between makes it answer 5
  where a block has at most 2 symbols.
* **A stop time is lost** (`3gpp/models/schedule.go:135`, `xml_kept`): the overlay
  of `ReoccurenceStartStop` copies the pointer `ReoccurenceStopTime`. In a fresh
  value it is nil, so the decoder makes a time that only the overlay points to. The
  same happens to `DASHQoESamplePercentage` (`apd.go:65`) and to `MediaData16` and
  `MediaData64` (`dvb/models/session_config.go:709-710`).

Modelling showed more, which the models reproduce and the properties state or
leave open:

* *Symbols.* `ESRangeListForSBNFromRangeList`
  calls a sorted list unsorted if a range begins with the block (`fec/util.go:573`)
  and may name symbols that are not in the list (`:582`); in a block of 2^32 bytes or more,
  whose offsets it cuts to 32 bits, it misses symbols (`:577`); `ESIRangeFromRangeList`
  counts symbols from the length of a range, so that inclusive bytes 1-2 with symbols
  of 2 bytes give symbol 0 and not 1 (`:667`); `MarshalText` of {0, 1:3} is 1:3, and
  of {1, 3} is 1-3 (`:791`); and `UnmarshalText` counts the blocks of a range in
  32 bits up to its end, which never comes if that is 2^32 - 1 (`:754`).
* *Texts of ranges.* `ParseContentRange` does not find the range 0-0 (`:195`);
  `flatten` leaves a list of three alone in which one range is nested in another
  that the third touches (`:546`).
* *Rows.* An endpoint without a source, a group or a session id, and FEC parameters
  with such an endpoint, with two, or with a nil slice of them, are never read back
  (`delivery.go:148`, `:160`, `:199`, `:221`). `Instance` of FEC parameters is never
  written. A locator with a comma in its location or its manifest id is read back as another
  one: `scanFromString` splits at the first two commas before it unquotes the fields
  (`session_config.go:1157`), although the comment at line 1148 speaks of "handling
  escaped commas". `RowsExact` has exactly these locators come back changed.
* *Times.* `5m` is read as 5 milliseconds, `1:30` as 1h30s, and an empty text panics
  (`time.go:114`). The excluded dates of a set of recurrences are appended to the wrong
  list, so that none is excluded (`time.go:293`); no text or test of the repository says that
  they are, so that no property is refuted by it. A set without a rule hands a nil one to
  `rrule-go` (`time.go:282`).
* *Documents.* `Schedule` embeds `ScheduleDescription` and inherits its codec, which
  ignores `ScheduleDescriptionURI` (`usd.go:211`).

Reading the rest of the code showed these, outside the models:
`JSONStruct.UnmarshalJSON` calls itself without end (`types.go:95`);
`TransmissionModeType.Enum` lacks `Chunked` (`enums.go:39`); `Name.UnmarshalJSON`
takes for granted that the list has two texts (`3gpp/models/db.go:47`).

## 5. Proofs

TLAPS proves these for every value of the constants that meets the named
assumptions of the modules and the hypotheses given here.

### The feed

All from `FeedAssumption`: finitely many goroutines and subscriptions;
`RemoveSub`, `NoThread` and `NoSub` are none of the channels, goroutines and
subscriptions. The number of goroutines, channels, subscriptions and Sends and who
shares a channel are free.

**`FeedProofs`**: `TypeCorrect`, `LockSafe`, `CasesSafe`, `RemovalSafe`,
`NoLateDelivery`, hence `TypeOK`, `LockDiscipline`, `CasesAccounted`,
`RemovalFindsCase` and `NoDeliveryAfterLeave`. None of them is inductive. The
inductive invariant is `Inv1 /\ Inv2`:

* `Inv1`: `TypeOK`, `LockDiscipline`, and `PlacesOK`: what each place in the code
  says of the local variables, above all that the prefix `cases` holds the case of
  `removeSub` and lies within `sendCases`, and that the fast path starts behind it.
* `Inv2`: `EndingOK` (one goroutine ends a
  subscription, and `status` says how far it is),
  `CasesAccounted`, and `CasesEnough`: the subscriptions whose case is about to be
  deleted from `sendCases` have as many cases there; the inbox cannot have them.

They are intertwined: that a deletion shortens the list, which `Inv1` needs for its
prefix, holds because `find` succeeds, which is `CasesEnough`; that this is kept
rests on the locks. `NoDeliveryAfterLeave` follows: a case in the prefix is one of
`CasesAccounted`, thus has a subscription that is not over, or else `SendDrop` would
be under way, and then no delivery is. The module begins with what `Delete`,
`Deactivate`, `Find` and counting do to a list of cases.

**`FeedRefinement`** first adds what a running `Send` knows.

* `SendInvariance`: `SendOK`, each case of the prefix but that of `removeSub`
  carries the value, and `Send` returns when only that one is left. It needs the
  locks: a second `Send` would write its own value into the cases.
* `NSentSafe`, hence `NSentExact`: added to that, `ValuesOK` (each Send has a value
  of its own, in no channel before it came into the log) and `CountOK` (`nsent` is
  the number of places in the channels that hold the value, at every moment and
  not only on return).
* `OrderSafe`, hence `ConsecutiveDelivery`, under `OwnChannels` (no two
  subscriptions share a channel, as in the run): `Streams` says that a channel with
  a case in `sendCases` holds the values of the log from its first one to the
  last, or to the last but one while the prefix still has its case (`Late`), and
  that one whose case is in the inbox holds none.

Its second part is `Implements`, hence `ImplementsBroadcast`. Initial states
map to initial states, and each action to one of `FeedBroadcast` or to a stutter;
there is one lemma per action that shows. `MembersAreLive`, `SenderView` and
`NoSenderView` say what the mapping is worth, so that the steps are about numbers
and not about how they were counted. The step that is hard is `SelectRemove`: the
case that is deleted is that of a channel, not of a subscription, and may lie
behind the prefix, where nothing is owed.

### Range lists

From `ListsAssumption`: lists in order; the lists of the runs for `Union` alone may
be open at the end. `OffsetsAssumption` says that no range starts below 0.

In **`ReceiverProofs`**: `Invariance`, `Exact` and `NormalResult`, hence `MissingExact`
and `MissingNormal`, for all bounds. The loop invariant: what is in `ret` is what
the list lacks of the offsets before `cur`, `ret` is normal and ends before `cur`
with a gap, and no range before `i` reaches `cur`.

**`RangeOpsProofs`**:

* `IndexesSafe`, hence `IndexesInRange`, of all five loops. `IndexInv` adds that a
  call of `Subtract` that waits will go on within its own lists (`FrameOK`).
* `ContainsIsInclusion`, hence `ContainsExact`. `Walk`: the ranges of the argument
  before `j` lie in ranges of the receiver, and those of the receiver before `i` do
  not hold range `j`. That an uncovered range is not covered by two of them
  together is where the receiver has to be normal.
* `IntersectionIsExact`, hence `IntersectionExact`: `out` is normal and what the two
  lists have in common of the ranges that one of them has passed (`Met`).
* `SubtractPartIsExact`, hence `SubtractPartExact`. The call that runs and each that
  waits satisfy `Level`: what it kept lies in the ranges it has passed, and, if what is
  subtracted is part of the receiver, each range still to come of the argument lies
  within one of the receiver or apart from all (`Nested`), and what the argument
  has no more lies before all that is still to come of the receiver (`Passed`).
  `Waits` joins a call to the one it waits for, `NothingLost` says that each offset
  is to be subtracted, kept by some call, or still before some call. It is `Nested`
  that fails where `Subtract` leaves numbers in (section 4).

The second part of **`RangeOpsProofs`** is about the two unions. First
`InplaceUnionIsExact`, hence `InplaceUnionExact`, for any two lists. While the loop runs
the receiver is neither normal nor in order: range `i` may have grown over those behind it (`Shape`), and after a removal the index goes
one back. `Below` says that no range before `i` reaches behind the current one of
the argument, so that going back loses nothing, and the receiver together with
what is still to come of the argument (`Coming`) is the union. The end is
`flatten`, of which `ListLemmas` shows that it makes a normal list with the same
offsets of one in which neither starts nor ends go back (`Stairs`); to these it is
applied here, and its sort changes nothing of them.

Then `UnionDisjointIsExact`, hence `UnionDisjointExact`. That nothing is
invented holds for lists in any order and with any ranges in them, so `ListLemmas`
shows of `flatten` without a hypothesis that it keeps the offsets: `Sorted` is a
permutation (`SortedIs`, from the ranks of a finite strict order), and `MergeFront`
keeps the offsets of a list that does not start before the range (`FlattenOffsets`).
The loop invariant, `UnionInv`, has two parts: what is in `out`, and in `toAdd`
unless it is still the empty range it was declared with, is in one of the lists
(`Added`); and of normal lists with nothing in common, what is in `out` lies before
all that is still to come of both and is the union together with it (`InTurn`). The
second needs `OffsetsAssumption`: `Union` drops a range that ends below 0.

### Symbols and the receiver

From `StructuresAssumption`: a structure that is called with is `AtRest`, which is
that `Partition`, `Lookup` and `Symbols` hold of it, as `BlockingProofs` shows of
every structure that updates make, that the products of its fields fit, and that a block is
shorter than 2^32 bytes (by a symbol, so that the end of the last one fits): beyond that
`ESRangeListForSBNFromRangeList` does miss symbols; from
`BytesAssumption`, that no offset is below 0; and from `TextsAssumption`, that the
lists of an ESIRange are normal and that its blocks are below 2^32 - 1, as `AtRest`
has it of every object. TLC evaluates all three for the values of the run.

**`SymbolsProofs`** says what the functions return. The code goes through lists and
blocks in loops that `Symbols` has as folds, which are recursive functions chosen by
`CHOOSE`; so each proof begins by showing that such a function exists (`FoldSolves`,
`JoinedSolves`, `LeftSolves`), and goes on with an induction over its steps. In
order: `ListOf` of a finite set is a normal list of it (`ListOfIs`); `CountOf` of a
list in order is the number of its offsets, and `FirstOf` has as many as are asked
for (`CountOfApart`, `FirstOfApart`), hence `GetMissingIs`; the bytes of a block lie
in a row, each in one symbol (`BlockIs`, `SymbolOf`), and `SBNOf` finds its block
(`SBNOfIs`); `WholeSymbols` in the arithmetic of 32 bits has every symbol that is
covered (`WholeSymbolsIs`), hence `ForSBNIs`; `ToRangeList` has the bytes of each
symbol and of no other, in whatever order the map gives its blocks (`ToRangeListIs`,
`AllBytesIs`).

**`ReceiverProofs`** goes on with `ESIRangeFromRangeList`: what the part of a range
in a block names, in terms of the products that the code divides (`NamedIs`,
`NamesIs`), block by block (`RangeAddedIs`) and range by range (`FromListIs`). Then
the loop of `Missing`, as above, and the calls of the receiver:

* `MissingIsBalanced`, `ForSBNIsComplete`, `ToListIsExact`, `FromListIsExact`, hence
  `MissingBalanced`, `ForSBNComplete`, `ToListExact` and `FromListExact`.
* `TextInRunsIsExact`, hence `TextInRunsExact`. `MarshalText` walks over the blocks and
  decides at each one, by its neighbours, whether it ends a range. `Waiting` is what
  is known before each: which blocks are in the text, that the others have no list
  and follow one another up to this one, and that `start` is the first of them, or
  behind this one if they have been written (`BlockPast`). A block that is written
  later is read later and changes nothing else (`ReadAppend`); a normal list is what
  `flatten` makes of it (`FlattenNormal`), and ends that are moved back and forth by
  their starts are where they were (`EndsMovedBack`).
* `RequestIsSufficient`, hence `RequestSuffices`. It is about two calls of
  which the second takes what the first left, so it needs the invariant of the
  loop (`ReceiverInvariance`: no other call disturbs it). Bytes that were made of
  symbols cut no symbol, and neither do the bytes that are missing (`Aligned`,
  `BytesAligned`, `RestAligned`); on such lists `ESIRangeFromRangeList` names all
  symbols it touches (`AlignedIs`), even without `inclusive`, as a repair symbol is
  never short. So what it names are the symbols that are not had, `GetMissingESIs`
  takes off no more than the repair symbols that there are, and `ToRangeList`
  asks for the rest (`RequestIs`).

### The blocking structure

**`BlockingProofs`**, from `WidthAssumption` and
`ArgumentAssumption` and under `Fits`: a product of two
32-bit sizes fits into 64 bits, and the arguments of the updates make fewer than
2^32 blocks and no sum beyond 64 bits. `Fits` is about the arguments only; beyond
it the code cuts the number of blocks off. The run's sizes meet it.

* `PartitionSafe`, `LookupSafe`, `SymbolsSafe`, hence `PartitionAtRest`,
  `LookupAtRest` and `SymbolsAtRest`. They are arithmetic about a structure that is
  `Cut`, and that every sequence of updates makes such: `WillBeCut`, the structure
  is cut, or will be when the stores that are left are done, together with the
  range of its fields (`Stored32`), whose arguments are in use (`InUse`), and that
  only a usable structure is updated (`Updating`). `SymbolsSafe` has one more
  hypothesis: a block is shorter than 2^32 bytes, for `NumSrcSym` computes its
  length in 32 bits.
* `NoPanic`, hence `QueriesDoNotPanic`: no store that is left, of an update that
  succeeds or fails, stores a block size of zero (`NeverZero`), and a query has
  loaded none (`Loaded`).
* `StreamQueriesSafe`, hence `StreamQueriesExact`, for any number of updates during
  a query: while a stream grows every field, and every store that is left, is
  at least what it was when the query was asked (`Growing`, `Watching`), so each
  load gave at least that (`SeenGrown`), and at least that is enough to go the way of a
  large block that is not the last, on which the answer does not depend on
  how much the stream has grown.

### Conversions

**`ConversionsProofs`**, from `TimesAssumption`: durations are whole milliseconds that
are not negative, the texts of durations sequences of numbers and units, and the
others records of the types that `Times` gives them. And from `TypesAssumption`: each
field is bound to the document in one way, at most one to the text, and `Items` takes
what no other field takes; TLC evaluates it for all 74 types. And from
`RangesAssumption`: a list that is written has ranges of numbers that fit, whose end,
if any, is not before the start; what is read into, and the texts, are only of their
types.

* `TimesIsExact`, hence `TimesExact`. A text of a duration is parsed part by part, so
  the fold of `time.ParseDuration` is solved first (`ParseSteps`, from `LeftSolves`) and
  then worth what one, two or three parts add up to. `DurationText` divides, and what
  it shows of each part adds up to the duration again (`ScanTexts`); `hh:mm:ss` loses
  its colons one after the other (`ScanThree`); and a text that no `s` is appended to
  is parsed as it is, which leaves those that end in minutes and hours (`ScanParsed`).
* `RecurrenceIsExact`, hence `RecurrenceExact`. A JSON text leaves out what is empty,
  and reading it leaves what the receiver has in these fields: `WriteSetIs` and
  `ReadSetIs` say so field by field, of the set and of its rule (`RuleReadBack`), whence
  both scanning into a fresh set and into one that was used before.
* `DocumentsIsExact`, hence `DocumentsExact`, for documents of any length. What is
  invariant while a document is read (`HasRead`) is that every field, of the value or
  reached through a pointer of the overlay, holds what the items so far have for it
  (`SoFar`), and that the pointers of the overlay are those it began with; a refused
  item disturbs its own field only (`BoundReads`). `EncodedIs` solves the fold over
  the fields, in whatever order, and `DecodedIs` the fold over what it wrote.

* `RangeTextIsExact`, hence `RangeTextExact`, for lists and texts of any length. A piece
  that was written is read as its range (`ReadWritten`), so that the fold over the
  pieces appends the list itself (`ReadAllIs`), and what is left is what `flatten`
  makes of a list in any order. `ListLemmas` solves it from the right: each range of
  the list lies in one of the result (`FlattenEncloses`), the result is normal unless
  a range lies within one that meets a third (`FlattenNested`), and an open range
  behind the others meets none of them (`FlattenOpen`). A header is a fold again:
  `HeaderIs` has what it keeps so far of any text, `HeaderWritten` that it keeps all
  of a list in order but for a first range it takes for none.

### Only model-checked

`RowsExact`: bounded inputs. *Beyond the prover*: liveness
(`feed_live`, `CallsReturn`), and what functions over sequences of characters compute
for all texts, the readers above all: the induction theorems of the library cannot be
used.
Where the proofs have a fold or a recursive function all the same (`Merged`,
`CountOf`, `ToRangeList`), they get by with its equation and the least place at
which a claim would fail.

## 6. Left out

* `Size` of the feed: nothing calls it, it changes no state, and its data race with
  `Send` (`util.go:182`) is listed as a hazard without a property. Values are numbers of Sends, so
  that the check of the value's type by reflection does not occur.
* Misuse by which the feed panics, such as closing a subscribed channel.
* The number `InplaceUnion` returns, and `MakeRandRangeList`, a helper of tests.
* Two slices that share an array: `Subtract` with nothing to subtract returns its
  receiver itself.
* Numbers: their digits, block numbers from 2^32 - 1 on in texts, and that a number
  too large for its field in a row is cut (`delivery.go:136`). A redundancy is
  written with six decimals.
* Names of XML elements and their name spaces; types of documents without a codec
  of their own, which are `encoding/xml` alone; the values of attributes that are
  enumerations; that defaults of the schema are never filled in.
* The expansion of a recurrence, which is `rrule-go`'s, and time zones by name.
* Arrays of rows other than those in FEC parameters, which only hand over to `pq`;
  `AtomicUint32`, `JSONStruct`, `URL`, `MD5`, enumerations and reports.

## 7. Plan

What is left, in this order:

1. The other round trips of `Conversions` as theorems, as far as the equation of a
   fold is enough.
2. Aliasing of range lists: `Subtract` followed by `InplaceUnion`, as the fuzz test
   does it.
