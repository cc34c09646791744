------------------------------ MODULE Receiver ------------------------------
(***************************************************************************)
(* A receiver of an object, as TestESIRangeFromRangeListBorderCase has it: *)
(* Missing walks over the bytes it has, and what it returns goes through   *)
(* the functions of Symbols and becomes the bytes it asks for.  Missing    *)
(* and the functions may be called with other arguments, too.              *)
(***************************************************************************)
EXTENDS Missing, Symbols

ReceiverInit == Init /\ SymbolsInit

\* Missing is called, or goes on.
Walk ==
  /\ call = "none"
  /\ \/ pc = "idle" /\ \E h \in HasLists, s \in Starts, e \in Ends : Call(h, s, e)
     \/ Finish \/ Behind \/ Ahead \/ Return
  /\ UNCHANGED symbolVars

\* The symbols of which the receiver has all bytes.
SymbolsHad(b) ==
  LET had(sbn) == Covered(b, sbn, has, TRUE)
  IN  [sbn \in {s \in Blocks(b) : had(s) # {}} |-> ListOf(had(sbn))]

\* Missing has gone through all of an object of which the receiver has some
\* symbols, and repair symbols besides.
CallRequest ==
  /\ pc = "done" /\ call = "none" /\ start = 0
  /\ \E b \in Structures :
        /\ end = b.TransferLen - 1
        /\ has = ListOf(BytesOfESIs(b, SymbolsHad(b), TRUE))
        /\ \E repair \in ESIRanges(b, FALSE) :
              Called("Request", b, [has |-> SymbolsHad(b), hasRepair |-> repair],
                     Request(b, ret, ListOf(BytesOfESIs(b, repair, FALSE))))
  /\ UNCHANGED vars

CallSymbols == pc = "idle" /\ SymbolsCall /\ UNCHANGED vars

ReturnSymbols == SymbolsReturn /\ UNCHANGED vars

ReceiverNext == Walk \/ CallRequest \/ CallSymbols \/ ReturnSymbols

ReceiverSpec == ReceiverInit /\ [][ReceiverNext]_<<vars, symbolVars>>

-----------------------------------------------------------------------------
(* Properties *)

\* What a receiver asks for is enough: with it, the symbols it has and the
\* repair symbols, every block has as many symbols as it takes to decode it;
\* and it asks for no byte it has.
RequestSuffices ==
  call = "Request" =>
     \A sbn \in Blocks(bs) :
        LET asked == Covered(bs, sbn, answer, TRUE)
            had == Listed(args.has, sbn)
        IN  /\ asked \cap had = {}
            /\ Touched(bs, sbn, answer, TRUE) = asked
            /\ Cardinality(asked) + Cardinality(had) + Cardinality(Listed(args.hasRepair, sbn))
                 >= NumSrcSym(bs, sbn)

=============================================================================
