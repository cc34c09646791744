-------------------------------- MODULE Feed --------------------------------
(***************************************************************************)
(* FeedOf[T] of util.go: a one-to-many event feed over Go channels.  Any   *)
(* goroutine may call Subscribe, Unsubscribe or Send at any time.          *)
(*                                                                         *)
(* Two locks protect the feed.  `mu` is a mutex over the inbox of new      *)
(* subscriptions.  `sendLock` is a channel with a buffer of one token; a   *)
(* goroutine holds the lock while the token is out, and only the holder    *)
(* touches sendCases.  sendCases[1] (index 0 in Go) is the receive case of *)
(* the removeSub channel, through which Unsubscribe interrupts a Send that *)
(* is blocked in reflect.Select; the others are one send case per          *)
(* subscription.  A running Send owns a prefix `cases` of sendCases: the   *)
(* channels that still have to get the value.  A channel that got it is    *)
(* swapped to the end of the prefix, which then shrinks by one.            *)
(*                                                                         *)
(* Critical sections of `mu` that cannot block are one step.  The section  *)
(* of remove() that puts the token back while holding `mu` is three.       *)
(***************************************************************************)
EXTENDS Integers, Sequences, SequencesExt, FiniteSets

CONSTANTS
  Threads,    \* goroutines that call the feed
  Subs,       \* subscriptions, one per call of Subscribe
  Channels,   \* user channels
  ChanOf,     \* the channel each subscription is made with
  Cap,        \* the buffer size of each channel
  RemoveSub,  \* the channel of sendCases[0] in the code
  NoThread,   \* the value of mu while it is free
  NoSub,      \* the argument of a goroutine that is not in Unsubscribe
  MaxSends    \* bound on the number of calls of Send

ASSUME FeedAssumption ==
  /\ IsFiniteSet(Threads)
  /\ IsFiniteSet(Subs)
  /\ ChanOf \in [Subs -> Channels]
  /\ Cap \in [Channels -> Nat]
  /\ RemoveSub \notin Channels
  /\ NoThread \notin Threads
  /\ NoSub \notin Subs
  /\ MaxSends \in Nat

VARIABLES
  sendLock,   \* tokens in the sendLock channel: 1 when free, 0 when held
  sendCases,  \* the active select cases; <<>> before once.Do(init)
  mu,         \* the goroutine in a critical section of mu
  inbox,      \* cases of new subscriptions, not yet in sendCases
  status,     \* progress of each subscription
  pc,         \* control state of each goroutine
  sub,        \* Unsubscribe: the subscription
  value,      \* Send: the value
  idx,        \* Send: i, the next case of the fast path
  cases,      \* Send: len(cases)
  nsent,      \* Send: nsent
  recv,       \* Send: the channel received from removeSub
  out,        \* everything sent into each channel so far
  taken,      \* receive operations started on each channel
  calls,      \* number of calls of Send; call k sends the value k
  log         \* values in the order in which their Sends took effect

sendVars == <<value, idx, cases, nsent, recv>>
feedVars == <<sendLock, sendCases, mu, inbox>>
userVars == <<out, taken, log>>
vars == <<feedVars, status, pc, sub, sendVars, userVars, calls>>

-----------------------------------------------------------------------------
NoValue == 0

Case(c) == [ch |-> c, send |-> NoValue]

\* Position of the first case of channel c, 0 when there is none.
Find(cs, c) == SelectInSeq(cs, LAMBDA x : x.ch = c)

-----------------------------------------------------------------------------
(* Faulty variants of the operators that follow: changes somebody could    *)
(* make to the code, which the properties tell apart from it.              *)

InitEveryTime == sendCases' = <<Case(RemoveSub)>> /\ sendLock' = 1
DeletePrevious(cs, c) == RemoveAt(cs, Find(cs, c) - 1)
DeleteLast(cs, c) == SubSeq(cs, 1, Len(cs) - 1)
DeleteNothing(cs, c) == cs
DeactivateInPlace(cs, k, n) == cs
WithSendIfUnset(cs, v) ==
  [k \in DOMAIN cs |-> IF k = 1 \/ cs[k].send # NoValue
                       THEN cs[k] ELSE [cs[k] EXCEPT !.send = v]]
InInboxNever(s) == 0
ShrunkAlways(n, k) == n - 1
AllSentIncludingRemoveSub(t) == cases[t] = 0
SelectRemoveNever(t, u) == FALSE

-----------------------------------------------------------------------------
(* Select cases and case lists *)

\* delete(find(c))
Delete(cs, c) == RemoveAt(cs, Find(cs, c))

\* The case at position k moves to the end of the prefix of length n.
Deactivate(cs, k, n) == [cs EXCEPT ![k] = cs[n], ![n] = cs[k]]

\* Length of a prefix of n cases after the case at position k is deleted.
Shrunk(n, k) == IF k <= n THEN n - 1 ELSE n

WithSend(cs, v) ==
  [k \in DOMAIN cs |-> IF k = 1 THEN cs[k] ELSE [cs[k] EXCEPT !.send = v]]

-----------------------------------------------------------------------------
(* User channels.  A goroutine parked in a receive is a receive operation  *)
(* started before its value is there: it makes room for one more value,    *)
(* also on an unbuffered channel.                                          *)

Room(c) == Len(out[c]) < taken[c] + Cap[c]

Receive(c) ==
  /\ taken[c] <= Len(out[c])
  /\ taken' = [taken EXCEPT ![c] = @ + 1]
  /\ UNCHANGED <<feedVars, status, pc, sub, sendVars, out, calls, log>>

-----------------------------------------------------------------------------
(* Subscribe *)

\* f.once.Do(f.init)
InitOnce ==
  IF sendCases = <<>>
  THEN /\ sendCases' = <<Case(RemoveSub)>>
       /\ sendLock' = 1
  ELSE UNCHANGED <<sendCases, sendLock>>

Subscribe(t, s) ==
  /\ pc[t] = "idle"
  /\ status[s] = "new"
  /\ mu = NoThread
  /\ InitOnce
  /\ inbox' = Append(inbox, Case(ChanOf[s]))
  /\ status' = [status EXCEPT ![s] = "live"]
  /\ UNCHANGED <<mu, pc, sub, sendVars, userVars, calls>>

-----------------------------------------------------------------------------
(* Unsubscribe *)

InInbox(s) == Find(inbox, ChanOf[s])

\* errOnce is entered; remove() looks for the channel in the inbox.
Unsubscribe(t, s) ==
  /\ pc[t] = "idle"
  /\ status[s] = "live"
  /\ mu = NoThread
  /\ sub' = [sub EXCEPT ![t] = s]
  /\ IF InInbox(s) # 0
     THEN /\ inbox' = RemoveAt(inbox, InInbox(s))
          /\ status' = [status EXCEPT ![s] = "left"]
          /\ pc' = [pc EXCEPT ![t] = "close"]
     ELSE /\ status' = [status EXCEPT ![s] = "leaving"]
          /\ pc' = [pc EXCEPT ![t] = "unselect"]
          /\ UNCHANGED inbox
  /\ UNCHANGED <<sendLock, sendCases, mu, sendVars, userVars, calls>>

\* A second call waits inside errOnce.Do for the first one to finish.
UnsubscribeAgain(t, s) ==
  /\ pc[t] = "idle"
  /\ status[s] \in {"leaving", "left"}
  /\ sub' = [sub EXCEPT ![t] = s]
  /\ pc' = [pc EXCEPT ![t] = "once"]
  /\ UNCHANGED <<feedVars, status, sendVars, userVars, calls>>

OnceReturn(t) ==
  /\ pc[t] = "once"
  /\ status[sub[t]] = "closed"
  /\ sub' = [sub EXCEPT ![t] = NoSub]
  /\ pc' = [pc EXCEPT ![t] = "idle"]
  /\ UNCHANGED <<feedVars, status, sendVars, userVars, calls>>

\* case <-f.sendLock: no Send is in progress.
UnsubTakeLock(t) ==
  /\ pc[t] = "unselect"
  /\ sendLock = 1
  /\ sendLock' = 0
  /\ pc' = [pc EXCEPT ![t] = "unlist"]
  /\ UNCHANGED <<sendCases, mu, inbox, status, sub, sendVars, userVars, calls>>

\* f.mu.Lock(); f.sendCases = f.sendCases.delete(f.sendCases.find(sub.channel))
UnsubDelete(t) ==
  /\ pc[t] = "unlist"
  /\ mu = NoThread
  /\ mu' = t
  /\ sendCases' = Delete(sendCases, ChanOf[sub[t]])
  /\ status' = [status EXCEPT ![sub[t]] = "left"]
  /\ pc' = [pc EXCEPT ![t] = "handoff"]
  /\ UNCHANGED <<sendLock, inbox, sub, sendVars, userVars, calls>>

\* f.sendLock <- struct{}{}
UnsubHandOff(t) ==
  /\ pc[t] = "handoff"
  /\ sendLock = 0
  /\ sendLock' = 1
  /\ pc' = [pc EXCEPT ![t] = "unlock"]
  /\ UNCHANGED <<sendCases, mu, inbox, status, sub, sendVars, userVars, calls>>

\* f.mu.Unlock(), when a Send may have taken the token already.
UnsubUnlock(t) ==
  /\ pc[t] = "unlock"
  /\ mu' = NoThread
  /\ pc' = [pc EXCEPT ![t] = "close"]
  /\ UNCHANGED <<sendLock, sendCases, inbox, status, sub, sendVars, userVars, calls>>

\* close(sub.err), and errOnce is done.
UnsubClose(t) ==
  /\ pc[t] = "close"
  /\ status' = [status EXCEPT ![sub[t]] = "closed"]
  /\ sub' = [sub EXCEPT ![t] = NoSub]
  /\ pc' = [pc EXCEPT ![t] = "idle"]
  /\ UNCHANGED <<feedVars, sendVars, userVars, calls>>

-----------------------------------------------------------------------------
(* Send *)

SendCall(t) ==
  /\ pc[t] = "idle"
  /\ calls < MaxSends
  /\ calls' = calls + 1
  /\ value' = [value EXCEPT ![t] = calls + 1]
  /\ InitOnce
  /\ pc' = [pc EXCEPT ![t] = "acquire"]
  /\ UNCHANGED <<mu, inbox, status, sub, idx, cases, nsent, recv, userVars>>

SendAcquire(t) ==
  /\ pc[t] = "acquire"
  /\ sendLock = 1
  /\ sendLock' = 0
  /\ pc' = [pc EXCEPT ![t] = "merge"]
  /\ UNCHANGED <<sendCases, mu, inbox, status, sub, sendVars, userVars, calls>>

\* The inbox moves to sendCases and every case gets the value.
SendMerge(t) ==
  /\ pc[t] = "merge"
  /\ mu = NoThread
  /\ sendCases' = WithSend(sendCases \o inbox, value[t])
  /\ inbox' = <<>>
  /\ cases' = [cases EXCEPT ![t] = Len(sendCases) + Len(inbox)]
  /\ idx' = [idx EXCEPT ![t] = 2]
  /\ log' = Append(log, value[t])
  /\ pc' = [pc EXCEPT ![t] = "try"]
  /\ UNCHANGED <<sendLock, mu, status, sub, value, nsent, recv, out, taken, calls>>

\* Value v goes into the channel of the case at position k, which is deactivated.
Deliver(t, k, v) ==
  /\ Room(sendCases[k].ch)
  /\ out' = [out EXCEPT ![sendCases[k].ch] = Append(@, v)]
  /\ sendCases' = Deactivate(sendCases, k, cases[t])
  /\ cases' = [cases EXCEPT ![t] = @ - 1]
  /\ nsent' = [nsent EXCEPT ![t] = @ + 1]
  /\ UNCHANGED <<sendLock, mu, inbox, status, sub, value, recv, taken, log, calls>>

\* Fast path: TrySend succeeds; i stays, a swapped case is there now.
TrySend(t) ==
  /\ pc[t] = "try"
  /\ idx[t] <= cases[t]
  /\ Deliver(t, idx[t], value[t])
  /\ UNCHANGED <<pc, idx>>

\* Fast path: the channel would block.
TrySendFull(t) ==
  /\ pc[t] = "try"
  /\ idx[t] <= cases[t]
  /\ ~Room(sendCases[idx[t]].ch)
  /\ idx' = [idx EXCEPT ![t] = @ + 1]
  /\ UNCHANGED <<feedVars, status, pc, sub, value, cases, nsent, recv, userVars, calls>>

\* Only removeSub is left in the prefix.
AllSent(t) == cases[t] = 1

\* End of the fast path: every channel has the value, or Select must wait.
TryDone(t) ==
  /\ pc[t] = "try"
  /\ idx[t] > cases[t]
  /\ pc' = [pc EXCEPT ![t] = IF AllSent(t) THEN "release" ELSE "select"]
  /\ UNCHANGED <<feedVars, status, sub, sendVars, userVars, calls>>

\* reflect.Select chose a channel with room.
SelectSend(t) ==
  /\ pc[t] = "select"
  /\ \E k \in 2..cases[t] : Deliver(t, k, sendCases[k].send)
  /\ idx' = [idx EXCEPT ![t] = 2]
  /\ pc' = [pc EXCEPT ![t] = "try"]

\* reflect.Select chose removeSub: rendezvous with goroutine u in remove().
SelectRemove(t, u) ==
  /\ pc[t] = "select"
  /\ pc[u] = "unselect"
  /\ recv' = [recv EXCEPT ![t] = ChanOf[sub[u]]]
  /\ status' = [status EXCEPT ![sub[u]] = "left"]
  /\ pc' = [pc EXCEPT ![t] = "drop", ![u] = "close"]
  /\ UNCHANGED <<feedVars, sub, value, idx, cases, nsent, userVars, calls>>

\* Send deletes the case; the prefix shrinks if the case was in it.
SendDrop(t) ==
  /\ pc[t] = "drop"
  /\ sendCases' = Delete(sendCases, recv[t])
  /\ cases' = [cases EXCEPT ![t] = Shrunk(@, Find(sendCases, recv[t]))]
  /\ recv' = [recv EXCEPT ![t] = RemoveSub]
  /\ idx' = [idx EXCEPT ![t] = 2]
  /\ pc' = [pc EXCEPT ![t] = "try"]
  /\ UNCHANGED <<sendLock, mu, inbox, status, sub, value, nsent, userVars, calls>>

\* The value is forgotten and the lock handed off; Send returns nsent.
SendRelease(t) ==
  /\ pc[t] = "release"
  /\ sendLock = 0
  /\ sendLock' = 1
  /\ sendCases' = WithSend(sendCases, NoValue)
  /\ value' = [value EXCEPT ![t] = NoValue]
  /\ cases' = [cases EXCEPT ![t] = 0]
  /\ idx' = [idx EXCEPT ![t] = 0]
  /\ nsent' = [nsent EXCEPT ![t] = 0]
  /\ pc' = [pc EXCEPT ![t] = "idle"]
  /\ UNCHANGED <<mu, inbox, status, sub, recv, userVars, calls>>

-----------------------------------------------------------------------------
Init ==
  /\ sendLock = 0
  /\ sendCases = <<>>
  /\ mu = NoThread
  /\ inbox = <<>>
  /\ status = [s \in Subs |-> "new"]
  /\ pc = [t \in Threads |-> "idle"]
  /\ sub = [t \in Threads |-> NoSub]
  /\ value = [t \in Threads |-> NoValue]
  /\ idx = [t \in Threads |-> 0]
  /\ cases = [t \in Threads |-> 0]
  /\ nsent = [t \in Threads |-> 0]
  /\ recv = [t \in Threads |-> RemoveSub]
  /\ out = [c \in Channels |-> <<>>]
  /\ taken = [c \in Channels |-> 0]
  /\ calls = 0
  /\ log = <<>>

\* A step of a goroutine inside a call.
Step(t) ==
  \/ OnceReturn(t) \/ UnsubTakeLock(t) \/ UnsubDelete(t) \/ UnsubHandOff(t)
  \/ UnsubUnlock(t) \/ UnsubClose(t) \/ SendAcquire(t) \/ SendMerge(t) \/ TrySend(t)
  \/ TrySendFull(t) \/ TryDone(t) \/ SelectSend(t) \/ SendDrop(t)
  \/ SendRelease(t)
  \/ \E u \in Threads : SelectRemove(t, u)

\* Every call returned, every subscription ended, every receiver parked.
Quiescent ==
  /\ \A t \in Threads : pc[t] = "idle"
  /\ \A s \in Subs : status[s] = "closed"
  /\ \A c \in Channels : taken[c] = Len(out[c]) + 1
  /\ calls = MaxSends
  /\ UNCHANGED vars

Next ==
  \/ \E t \in Threads, s \in Subs :
        Subscribe(t, s) \/ Unsubscribe(t, s) \/ UnsubscribeAgain(t, s)
  \/ \E t \in Threads : SendCall(t) \/ Step(t)
  \/ \E c \in Channels : Receive(c)
  \/ Quiescent

Spec == Init /\ [][Next]_vars

\* The scheduler runs a goroutine that can run.  Receivers owe nothing.
FairSpec == Spec /\ \A t \in Threads : WF_vars(Step(t))

\* Subscribers that keep receiving.
FairReceivers == \A c \in Channels : WF_vars(Receive(c))

-----------------------------------------------------------------------------
(* Properties *)

Holding == {"unlist", "handoff", "merge", "try", "select", "drop", "release"}
Sending == {"try", "select", "drop", "release"}
Places == Holding \cup {"idle", "once", "unselect", "unlock", "close", "acquire"}

Cases == {[ch |-> c, send |-> v] : c \in Channels, v \in 0..MaxSends}

\* The shape of sendCases after once.Do(init).
IsCaseList(cs) ==
  /\ cs \in Seq(Cases \cup {Case(RemoveSub)})
  /\ Len(cs) >= 1
  /\ cs[1] = Case(RemoveSub)
  /\ \A k \in 2..Len(cs) : cs[k] \in Cases

ListsOK ==
  /\ inbox \in Seq({Case(c) : c \in Channels})
  /\ sendCases = <<>> \/ IsCaseList(sendCases)

UsersOK ==
  /\ status \in [Subs -> {"new", "live", "leaving", "left", "closed"}]
  /\ out \in [Channels -> Seq(0..MaxSends)]
  /\ taken \in [Channels -> Nat]
  /\ calls \in 0..MaxSends
  /\ log \in Seq(0..MaxSends)

ThreadsOK ==
  /\ pc \in [Threads -> Places]
  /\ sub \in [Threads -> Subs \cup {NoSub}]
  /\ value \in [Threads -> 0..MaxSends]
  /\ idx \in [Threads -> Nat]
  /\ cases \in [Threads -> Nat]
  /\ nsent \in [Threads -> Nat]
  /\ recv \in [Threads -> Channels \cup {RemoveSub}]

\* Types, and the shape of sendCases: once initialised, its first case is
\* the one of removeSub and all the others are user channels (removeSub is
\* found by its index 0 in Send, never by its channel).
TypeOK ==
  /\ sendLock \in {0, 1}
  /\ mu \in Threads \cup {NoThread}
  /\ ListsOK
  /\ UsersOK
  /\ ThreadsOK

\* "sendLock has a one-element buffer and is empty when held. It protects
\* sendCases" (util.go:42): the token is out exactly while one goroutine is
\* in a section of remove() or Send that owns sendCases, the fast path and
\* the select included; mu is held across steps only by a remove() that puts
\* the token back, and until after that, also if a Send has the token by then.
LockDiscipline ==
  /\ \A t, u \in Threads : pc[t] \in Holding /\ pc[u] \in Holding => t = u
  /\ (sendLock = 1) <=> (sendCases # <<>> /\ \A t \in Threads : pc[t] \notin Holding)
  /\ \A t \in Threads : mu = t <=> pc[t] \in {"handoff", "unlock"}

CountIn(cs, c) == Cardinality({k \in DOMAIN cs : cs[k].ch = c})

With(c, ss) == {s \in Subs : ChanOf[s] = c /\ status[s] \in ss}

\* Subscriptions of c whose case Send has taken over to delete, not yet done.
Dropping(c) == {t \in Threads : pc[t] = "drop" /\ recv[t] = c}

\* No case is lost and none is left behind: the cases of a channel in the
\* two lists are its subscriptions, less the ones that ended, whatever
\* Subscribe, Send and Unsubscribe are doing to the lists.
CasesAccounted ==
  \A c \in Channels :
     CountIn(inbox, c) + CountIn(sendCases, c)
       = Cardinality(With(c, {"live", "leaving"})) + Cardinality(Dropping(c))

\* remove() and Send delete the case that find() returns without a check for
\* -1 (util.go:94, 141): it is there, although remove() looked at the inbox,
\* let go of mu, and waited for the lock or for a Send since.
RemovalFindsCase ==
  \A t \in Threads :
     /\ pc[t] = "unlist" => Find(sendCases, ChanOf[sub[t]]) # 0
     /\ pc[t] = "drop" => Find(sendCases, recv[t]) # 0

DeliveriesOf(v) ==
  LET at(c) == {<<c, k>> : k \in {j \in DOMAIN out[c] : out[c][j] = v}}
  IN  Cardinality(UNION {at(c) : c \in Channels})

\* Send "returns the number of subscribers that the value was sent to"
\* (util.go:101): when it lets go of the lock, nsent counts the deliveries,
\* those of the fast path and of Select, across the cases that left.
NSentExact ==
  \A t \in Threads : pc[t] = "release" => nsent[t] = DeliveriesOf(value[t])

\* "The Unsubscribe method cancels the sending of events" (util.go:28): a
\* value goes into a channel only if one of its subscriptions is not over,
\* also when the Unsubscribe met a Send in progress.
NoDeliveryAfterLeave ==
  [][\A c \in Channels :
        out'[c] # out[c] => With(c, {"live", "leaving"}) # {}]_vars

\* Where every subscription has its own channel, what a subscriber gets is a
\* run of consecutive Sends in the order in which they took effect: nothing
\* twice, nothing skipped, nothing out of order.
ConsecutiveDelivery ==
  \A c \in Channels :
     \E n \in 0..(Len(log) - Len(out[c])) : out[c] = SubSeq(log, n + 1, n + Len(out[c]))

\* Unsubscribe returns although Send may be blocked on subscribers that
\* never receive again: that is what removeSub is for.
UnsubscribeReturns ==
  \A t \in Threads : pc[t] \in {"unselect", "once"} ~> pc[t] = "idle"

\* Send returns once every subscription it could wait for has ended, whether
\* or not anybody receives.
SendReturnsIfAllLeave ==
  (\A s \in Subs : <>[](status[s] \in {"new", "left", "closed"}))
     => \A t \in Threads : pc[t] = "acquire" ~> pc[t] = "idle"

\* Send returns if the subscribers keep receiving; none has to leave.
SendReturns ==
  FairReceivers => \A t \in Threads : pc[t] = "acquire" ~> pc[t] = "idle"

-----------------------------------------------------------------------------
(* The feed implements FeedBroadcast *)

Current ==
  IF \E t \in Threads : pc[t] \in Sending
  THEN value[CHOOSE t \in Threads : pc[t] \in Sending]
  ELSE NoValue

\* A subscription is over as soon as Unsubscribe and Send have met.
Members ==
  [c \in Channels |-> CountIn(inbox, c) + CountIn(sendCases, c)
                        - Cardinality(Dropping(c))]

Owed(c) ==
  Cardinality({k \in DOMAIN sendCases :
                  /\ sendCases[k].ch = c
                  /\ \E t \in Threads : pc[t] \in Sending /\ k <= cases[t]})

Pending ==
  [c \in Channels |-> IF Dropping(c) # {} /\ Owed(c) > 0
                      THEN Owed(c) - 1 ELSE Owed(c)]

Broadcast == INSTANCE FeedBroadcast WITH
  Values <- 1..MaxSends,
  members <- Members,
  pending <- Pending,
  current <- Current,
  delivered <- out

\* Every step of the feed is a step of FeedBroadcast or invisible in it.
ImplementsBroadcast == Broadcast!Spec

=============================================================================
