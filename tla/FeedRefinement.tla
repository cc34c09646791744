--------------------------- MODULE FeedRefinement ---------------------------
(***************************************************************************)
(* What a running Send of Feed knows: its value, the cases it still has to *)
(* serve, the number of deliveries it made and its place in the log.  On   *)
(* this rests that Feed implements FeedBroadcast: each step of a goroutine *)
(* is a join, a leave, a step of the broadcast in progress, or invisible.  *)
(***************************************************************************)
EXTENDS FeedProofs

-----------------------------------------------------------------------------
(* The prefix of a running Send *)

\* Places of a Send that has its value.
Valued == {"acquire", "merge"} \cup Sending

\* Every case of the prefix but the one of removeSub carries the value, and
\* Send returns only when that one is left.
SendOK ==
  \A t \in Threads :
     /\ pc[t] \in Valued => value[t] \in 1..MaxSends
     /\ pc[t] \in Sending => \A k \in 2..cases[t] : sendCases[k].send = value[t]
     /\ pc[t] = "release" => cases[t] = 1

LEMMA InitSendOK == Init => SendOK
BY DEF Init, SendOK, Valued, Sending

\* Steps that leave running Sends and their prefixes alone.
LEMMA SameSendOK ==
  ASSUME SendOK, UNCHANGED <<value, cases>>,
         sendCases' = sendCases \/ \A t \in Threads : pc[t] \notin Sending,
         \A t \in Threads : /\ pc'[t] \in Valued => pc[t] \in Valued
                            /\ pc'[t] \in Sending => pc[t] \in Sending
                            /\ pc'[t] = "release" => pc[t] = "release"
  PROVE  SendOK'
BY DEF SendOK

\* The goroutine in Sending is the only one that holds the lock.
LEMMA OneSender ==
  ASSUME Inv1, NEW t \in Threads, pc[t] \in Holding
  PROVE  /\ \A u \in Threads : u # t => pc[u] \notin Holding /\ pc[u] \notin Sending
         /\ IsCaseList(sendCases) /\ Len(sendCases) \in Nat
         /\ pc[t] \in Sending => cases[t] \in 1..Len(sendCases)
<1>1. Sending \subseteq Holding
  BY DEF Sending, Holding
<1>2. IsCaseList(sendCases)
  BY DEF Inv1, TypeOK, ListsOK, PlacesOK
<1> QED BY <1>1, <1>2 DEF Inv1, LockDiscipline, PlacesOK, IsCaseList

LEMMA SendCallSendOK ==
  ASSUME Inv, SendOK, NEW t \in Threads, SendCall(t)
  PROVE  SendOK'
<1>1. /\ pc'[t] = "acquire" /\ value'[t] = calls + 1 /\ calls + 1 \in 1..MaxSends
      /\ \A u \in Threads : u # t => pc'[u] = pc[u] /\ value'[u] = value[u]
      /\ cases' = cases
  BY FeedAssumption DEF SendCall, Inv, Inv1, TypeOK, ThreadsOK, UsersOK
<1>2. sendCases' = sendCases \/ \A u \in Threads : pc[u] \notin Sending
  BY DEF SendCall, InitOnce, Inv, Inv1, PlacesOK, Holding, Sending
<1> QED BY <1>1, <1>2 DEF SendOK, Valued, Sending

LEMMA SendMergeSendOK ==
  ASSUME Inv, SendOK, NEW t \in Threads, SendMerge(t)
  PROVE  SendOK'
<1>1. pc[t] = "merge" /\ pc[t] \in Holding /\ pc[t] \in Valued
  BY DEF SendMerge, Holding, Valued
<1>2. /\ IsCaseList(sendCases) /\ Len(sendCases) \in Nat
      /\ \A u \in Threads : u # t => pc[u] \notin Sending
  BY <1>1, OneSender DEF Inv
<1>3. IsCaseList(sendCases \o inbox) /\ Len(sendCases \o inbox) = Len(sendCases) + Len(inbox)
  BY <1>2, MergeCase DEF Inv, Inv1, TypeOK, ListsOK
<1>4. /\ value' = value /\ cases'[t] = Len(sendCases \o inbox) /\ pc'[t] = "try"
      /\ sendCases' = WithSend(sendCases \o inbox, value[t])
      /\ \A u \in Threads : u # t => pc'[u] = pc[u] /\ cases'[u] = cases[u]
  BY <1>3 DEF SendMerge, Inv, Inv1, TypeOK, ThreadsOK
<1>5. \A k \in 2..Len(sendCases \o inbox) : sendCases'[k].send = value[t]
  <2> DEFINE cs == sendCases \o inbox
  <2> HIDE DEF cs
  <2> SUFFICES ASSUME NEW k \in 2..Len(cs) PROVE WithSend(cs, value[t])[k].send = value[t]
    BY <1>4 DEF cs
  <2>1. k \in DOMAIN cs /\ k # 1 /\ cs[k] \in Cases
    BY <1>3 DEF IsCaseList, cs
  <2> QED BY <2>1 DEF WithSend, Cases
<1> QED BY <1>1, <1>2, <1>4, <1>5 DEF SendOK, Valued, Sending

\* The prefix that is left after a delivery.
LEMMA DeliverSendOK ==
  ASSUME Inv, SendOK, NEW t \in Threads, pc[t] \in {"try", "select"}, pc'[t] = "try",
         \A u \in Threads : u # t => pc'[u] = pc[u],
         NEW k \in 2..cases[t], NEW v, Deliver(t, k, v)
  PROVE  SendOK'
<1>1. pc[t] \in Sending /\ pc[t] \in Holding
  BY DEF Sending, Holding
<1>2. /\ IsCaseList(sendCases) /\ Len(sendCases) \in Nat /\ cases[t] \in 1..Len(sendCases)
      /\ \A u \in Threads : u # t => pc[u] \notin Sending
  BY <1>1, OneSender DEF Inv
<1>3. /\ value' = value /\ cases'[t] = cases[t] - 1
      /\ sendCases' = Deactivate(sendCases, k, cases[t])
      /\ \A u \in Threads : u # t => cases'[u] = cases[u]
  BY DEF Deliver, Inv, Inv1, TypeOK, ThreadsOK
<1>4. \A j \in 2..(cases[t] - 1) : sendCases'[j].send = value[t]
  <2> SUFFICES ASSUME NEW j \in 2..(cases[t] - 1) PROVE sendCases'[j].send = value[t]
    OBVIOUS
  <2>1. \A i \in 2..cases[t] : sendCases[i].send = value[t]
    BY <1>1 DEF SendOK
  <2>2. sendCases'[j] = IF j = k THEN sendCases[cases[t]] ELSE sendCases[j]
    BY <1>2, <1>3 DEF Deactivate, IsCaseList
  <2>3. cases[t] \in 2..cases[t] /\ j \in 2..cases[t]
    BY <1>2
  <2> QED BY <2>1, <2>2, <2>3
<1> QED BY <1>1, <1>2, <1>3, <1>4 DEF SendOK, Valued, Sending

LEMMA TrySendSendOK ==
  ASSUME Inv, SendOK, NEW t \in Threads, TrySend(t)
  PROVE  SendOK'
<1>1. /\ idx[t] \in 2..cases[t] /\ pc[t] = "try" /\ pc'[t] = "try"
      /\ \A u \in Threads : u # t => pc'[u] = pc[u]
      /\ Deliver(t, idx[t], value[t])
  BY DEF TrySend, Inv, Inv1, TypeOK, ThreadsOK, PlacesOK
<1> QED BY <1>1, DeliverSendOK

LEMMA SelectSendSendOK ==
  ASSUME Inv, SendOK, NEW t \in Threads, SelectSend(t)
  PROVE  SendOK'
<1>1. PICK k \in 2..cases[t] : Deliver(t, k, sendCases[k].send)
  BY DEF SelectSend
<1>2. /\ pc[t] = "select" /\ pc'[t] = "try"
      /\ \A u \in Threads : u # t => pc'[u] = pc[u]
  BY DEF SelectSend, Inv, Inv1, TypeOK, ThreadsOK
<1> QED BY <1>1, <1>2, DeliverSendOK

LEMMA TryDoneSendOK ==
  ASSUME Inv, SendOK, NEW t \in Threads, TryDone(t)
  PROVE  SendOK'
<1>1. /\ pc[t] = "try" /\ pc'[t] \in {"select", "release"}
      /\ pc'[t] = "release" => cases[t] = 1
      /\ \A u \in Threads : u # t => pc'[u] = pc[u]
  BY DEF TryDone, AllSent, Inv, Inv1, TypeOK, ThreadsOK
<1>2. UNCHANGED <<value, cases, sendCases>>
  BY DEF TryDone, feedVars, sendVars
<1> QED BY <1>1, <1>2 DEF SendOK, Valued, Sending

LEMMA SendDropSendOK ==
  ASSUME Inv, SendOK, NEW t \in Threads, SendDrop(t)
  PROVE  SendOK'
<1> DEFINE k == Find(sendCases, recv[t])
<1>1. pc[t] = "drop" /\ pc[t] \in Sending /\ pc[t] \in Holding /\ recv[t] \in Channels
  BY DEF SendDrop, Sending, Holding, Inv, Inv1, PlacesOK
<1>2. /\ IsCaseList(sendCases) /\ Len(sendCases) \in Nat /\ cases[t] \in 1..Len(sendCases)
      /\ \A u \in Threads : u # t => pc[u] \notin Sending
  BY <1>1, OneSender DEF Inv
<1>3. k \in 2..Len(sendCases)
  <2>1. k # 0
    BY <1>1, FindsCase DEF Inv, RemovalFindsCase
  <2>2. k \in 0..Len(sendCases)
    BY <1>2, FindIsCase DEF IsCaseList
  <2> QED BY <1>1, <1>2, <2>1, <2>2, DeleteCase
<1>4. /\ pc'[t] = "try" /\ value' = value /\ cases'[t] = Shrunk(cases[t], k)
      /\ sendCases' = Delete(sendCases, recv[t])
      /\ \A u \in Threads : u # t => pc'[u] = pc[u] /\ cases'[u] = cases[u]
  BY DEF SendDrop, Inv, Inv1, TypeOK, ThreadsOK
<1>5. \A j \in 1..(Len(sendCases) - 1) :
        sendCases'[j] = IF j < k THEN sendCases[j] ELSE sendCases[j + 1]
  <2>1. k \in 1..Len(sendCases) /\ sendCases \in Seq(Cases \cup {Case(RemoveSub)})
    BY <1>2, <1>3 DEF IsCaseList
  <2> QED BY <1>4, <2>1, RemoveAtProperties DEF Delete
<1>6. \A j \in 2..Shrunk(cases[t], k) : sendCases'[j].send = value[t]
  <2> SUFFICES ASSUME NEW j \in 2..Shrunk(cases[t], k) PROVE sendCases'[j].send = value[t]
    OBVIOUS
  <2>1. \A i \in 2..cases[t] : sendCases[i].send = value[t]
    BY <1>1 DEF SendOK
  <2>2. j \in 1..(Len(sendCases) - 1) /\ (IF j < k THEN j ELSE j + 1) \in 2..cases[t]
    BY <1>2, <1>3 DEF Shrunk
  <2> QED BY <1>5, <2>1, <2>2
<1> QED BY <1>1, <1>2, <1>4, <1>6 DEF SendOK, Valued, Sending

LEMMA SendReleaseSendOK ==
  ASSUME Inv, SendOK, NEW t \in Threads, SendRelease(t)
  PROVE  SendOK'
<1>1. pc[t] = "release" /\ pc[t] \in Holding
  BY DEF SendRelease, Holding
<1>2. \A u \in Threads : u # t => pc[u] \notin Sending
  BY <1>1, OneSender DEF Inv
<1>3. /\ pc'[t] = "idle"
      /\ \A u \in Threads : u # t => pc'[u] = pc[u] /\ value'[u] = value[u]
  BY DEF SendRelease, Inv, Inv1, TypeOK, ThreadsOK
<1> QED BY <1>2, <1>3 DEF SendOK, Valued, Sending

\* The steps outside Send, and the ones of Send that only wait.
LEMMA OthersSendOK ==
  ASSUME Inv, SendOK, NEW t \in Threads,
         \/ OnceReturn(t) \/ UnsubTakeLock(t) \/ UnsubDelete(t) \/ UnsubHandOff(t)
         \/ UnsubUnlock(t) \/ UnsubClose(t) \/ SendAcquire(t) \/ TrySendFull(t)
         \/ \E s \in Subs : Subscribe(t, s) \/ Unsubscribe(t, s) \/ UnsubscribeAgain(t, s)
         \/ \E u \in Threads : SelectRemove(t, u)
  PROVE  SendOK'
<1> USE DEF Inv, Inv1, TypeOK, ThreadsOK, Valued, Sending
<1>1. CASE OnceReturn(t) \/ UnsubTakeLock(t) \/ UnsubHandOff(t) \/ UnsubUnlock(t) \/ UnsubClose(t)
  BY <1>1, SameSendOK
  DEF OnceReturn, UnsubTakeLock, UnsubHandOff, UnsubUnlock, UnsubClose, sendVars, feedVars
<1>2. CASE SendAcquire(t) \/ TrySendFull(t)
  BY <1>2, SameSendOK DEF SendAcquire, TrySendFull, sendVars, feedVars
<1>3. CASE UnsubDelete(t)
  <2>1. \A u \in Threads : pc[u] \notin Sending
    BY <1>3 DEF UnsubDelete, LockDiscipline, Holding
  <2> QED BY <1>3, <2>1, SameSendOK DEF UnsubDelete, sendVars
<1>4. ASSUME NEW s \in Subs, Subscribe(t, s) PROVE SendOK'
  <2>1. sendCases' = sendCases \/ \A u \in Threads : pc[u] \notin Sending
    BY <1>4 DEF Subscribe, InitOnce, PlacesOK, Holding
  <2> QED BY <1>4, <2>1, SameSendOK DEF Subscribe, sendVars
<1>5. ASSUME NEW s \in Subs, Unsubscribe(t, s) \/ UnsubscribeAgain(t, s) PROVE SendOK'
  BY <1>5, SameSendOK DEF Unsubscribe, UnsubscribeAgain, sendVars, feedVars
<1>6. ASSUME NEW u \in Threads, SelectRemove(t, u) PROVE SendOK'
  BY <1>6, SameSendOK DEF SelectRemove, feedVars
<1> QED BY <1>1, <1>2, <1>3, <1>4, <1>5, <1>6

LEMMA StepSendOK == Inv /\ SendOK /\ [Next]_vars => SendOK'
<1> SUFFICES ASSUME Inv, SendOK, [Next]_vars PROVE SendOK'
  OBVIOUS
<1>1. CASE \E t \in Threads, s \in Subs :
             Subscribe(t, s) \/ Unsubscribe(t, s) \/ UnsubscribeAgain(t, s)
  BY <1>1, OthersSendOK
<1>2. ASSUME NEW t \in Threads, SendCall(t) \/ Step(t) PROVE SendOK'
  BY <1>2, OthersSendOK, SendCallSendOK, SendMergeSendOK, TrySendSendOK, TryDoneSendOK,
     SelectSendSendOK, SendDropSendOK, SendReleaseSendOK DEF Step
<1>3. CASE \E c \in Channels : Receive(c)
  BY <1>3, SameSendOK DEF Receive, feedVars, sendVars
<1>4. CASE Quiescent \/ UNCHANGED vars
  BY <1>4, SameSendOK DEF Quiescent, vars, feedVars, sendVars
<1> QED BY <1>1, <1>2, <1>3, <1>4 DEF Next

\* A Send that delivers has a value of its own and cases that carry it.
THEOREM SendInvariance == Spec => [](Inv /\ SendOK)
<1>1. Init => SendOK
  BY InitSendOK
<1>2. Inv /\ SendOK /\ [Next]_vars => SendOK'
  BY StepSendOK
<1> QED BY <1>1, <1>2, Invariance, PTL DEF Spec

-----------------------------------------------------------------------------
(* Values and their deliveries *)

Unsent == {"acquire", "merge"}

Has(seq, v) == \E i \in DOMAIN seq : seq[i] = v

\* Each Send has a value of its own, which is the last of the log while it
\* delivers, and no channel got a value before it came into the log.
ValuesOK ==
  /\ \A t \in Threads : pc[t] \in Valued => value[t] \in 1..calls
  /\ \A t \in Threads : pc[t] \in Unsent => ~Has(log, value[t])
  /\ \A t, u \in Threads :
        pc[t] \in Unsent /\ pc[u] \in Unsent /\ value[t] = value[u] => t = u
  /\ \A i \in DOMAIN log : log[i] \in 1..calls
  /\ \A c \in Channels : \A k \in DOMAIN out[c] : Has(log, out[c][k])
  /\ \A t \in Threads : pc[t] \in Sending => Len(log) > 0 /\ log[Len(log)] = value[t]

\* The deliveries of v among the channels' contents o.
Deliveries(o, v) ==
  UNION {{<<c, k>> : k \in {j \in DOMAIN o[c] : o[c][j] = v}} : c \in Channels}

\* nsent is the number of deliveries at every moment of a Send.
CountOK ==
  \A t \in Threads :
     /\ pc[t] \in Sending =>
          IsFiniteSet(Deliveries(out, value[t])) /\ Cardinality(Deliveries(out, value[t])) = nsent[t]
     /\ pc[t] \notin Sending => nsent[t] = 0

LEMMA InitValuesOK == Init => ValuesOK /\ CountOK
<1> SUFFICES ASSUME Init PROVE ValuesOK /\ CountOK
  OBVIOUS
<1>1. \A t \in Threads : pc[t] \notin Valued /\ pc[t] \notin Sending /\ pc[t] \notin Unsent
  BY DEF Init, Valued, Sending, Unsent
<1>2. DOMAIN log = {} /\ \A c \in Channels : DOMAIN out[c] = {}
  BY DEF Init
<1>3. ValuesOK
  BY <1>1, <1>2 DEF ValuesOK
<1>4. CountOK
  BY <1>1 DEF Init, CountOK
<1> QED BY <1>3, <1>4

\* Steps that put nothing into the log or a channel.
LEMMA SameValuesOK ==
  ASSUME ValuesOK, CountOK, UNCHANGED <<log, out, calls, nsent>>,
         \A t \in Threads : /\ pc'[t] \in Valued => pc[t] \in Valued /\ value'[t] = value[t]
                            /\ pc'[t] \in Unsent => pc[t] \in Unsent
                            /\ pc'[t] \in Sending <=> pc[t] \in Sending
  PROVE  ValuesOK' /\ CountOK'
<1>1. \A t \in Threads : pc'[t] \in Sending \/ pc'[t] \in Unsent => value'[t] = value[t]
  BY DEF Valued, Unsent
<1>2. ValuesOK'
  BY <1>1 DEF ValuesOK, Has
<1>3. CountOK'
  BY <1>1 DEF CountOK
<1> QED BY <1>2, <1>3

LEMMA SendCallValuesOK ==
  ASSUME Inv, ValuesOK, CountOK, NEW t \in Threads, SendCall(t)
  PROVE  ValuesOK' /\ CountOK'
<1>1. /\ calls \in Nat /\ calls' = calls + 1 /\ value'[t] = calls + 1
      /\ pc[t] = "idle" /\ pc'[t] = "acquire"
      /\ \A u \in Threads : u # t => pc'[u] = pc[u] /\ value'[u] = value[u]
      /\ UNCHANGED <<log, out, nsent>>
  BY FeedAssumption DEF SendCall, Inv, Inv1, TypeOK, ThreadsOK, UsersOK, userVars
<1>2. \A v : Has(log', v) <=> Has(log, v)
  BY <1>1 DEF Has
<1>3. ~Has(log, calls + 1)
  BY <1>1 DEF Has, ValuesOK
<1>4. \A u \in Threads : pc[u] \in Valued => value[u] # calls + 1 /\ value[u] \in 1..(calls + 1)
  BY <1>1 DEF ValuesOK
<1>5. Unsent \subseteq Valued /\ Sending \subseteq Valued
  BY DEF Unsent, Valued
<1>6. pc'[t] \in Unsent /\ pc'[t] \in Valued /\ pc'[t] \notin Sending /\ pc[t] \notin Sending
  BY <1>1 DEF Unsent, Valued, Sending
<1>7. \A i \in DOMAIN log : log[i] \in 1..(calls + 1)
  BY <1>1 DEF ValuesOK
<1>8. ValuesOK'
  <2>1. \A u \in Threads : pc'[u] \in Valued => value'[u] \in 1..calls'
    BY <1>1, <1>4
  <2>2. \A u \in Threads : pc'[u] \in Unsent => ~Has(log', value'[u])
    BY <1>1, <1>2, <1>3 DEF ValuesOK
  <2>3. \A u, w \in Threads :
           pc'[u] \in Unsent /\ pc'[w] \in Unsent /\ value'[u] = value'[w] => u = w
    BY <1>1, <1>4, <1>5 DEF ValuesOK
  <2>4. \A u \in Threads : pc'[u] \in Sending => Len(log) > 0 /\ log[Len(log)] = value'[u]
    BY <1>1, <1>6 DEF ValuesOK
  <2>5. \A c \in Channels : \A k \in DOMAIN out[c] : Has(log, out[c][k])
    BY DEF ValuesOK
  <2> QED BY <1>1, <1>7, <2>1, <2>2, <2>3, <2>4, <2>5 DEF ValuesOK, Has
<1>9. CountOK'
  BY <1>1, <1>6 DEF CountOK
<1> QED BY <1>8, <1>9

\* A value comes into the log when its Send begins to deliver: no channel has
\* it, and nsent is 0.
LEMMA SendMergeValuesOK ==
  ASSUME Inv, ValuesOK, CountOK, NEW t \in Threads, SendMerge(t)
  PROVE  ValuesOK' /\ CountOK'
<1>1. /\ log \in Seq(0..MaxSends) /\ value[t] \in 0..MaxSends
      /\ log' = Append(log, value[t])
      /\ pc[t] = "merge" /\ pc'[t] = "try"
      /\ \A u \in Threads : u # t => pc'[u] = pc[u]
      /\ UNCHANGED <<value, out, nsent, calls>>
  BY DEF SendMerge, Inv, Inv1, TypeOK, ThreadsOK, UsersOK
<1>2. /\ pc[t] \in Unsent /\ pc[t] \in Valued /\ pc[t] \notin Sending /\ pc[t] \in Holding
      /\ pc'[t] \notin Unsent /\ pc'[t] \in Valued /\ pc'[t] \in Sending
  BY <1>1 DEF Unsent, Valued, Sending, Holding
<1>3. \A u \in Threads : u # t => pc[u] \notin Sending
  BY <1>2, OneSender DEF Inv
<1>4. /\ DOMAIN log' = DOMAIN log \cup {Len(log) + 1} /\ Len(log') = Len(log) + 1
      /\ log'[Len(log) + 1] = value[t] /\ Len(log) \in Nat
      /\ \A i \in DOMAIN log : log'[i] = log[i]
  BY <1>1
<1>5. \A v : Has(log', v) <=> Has(log, v) \/ v = value[t]
  BY <1>4 DEF Has
<1>6. ~Has(log, value[t]) /\ value[t] \in 1..calls
  BY <1>2 DEF ValuesOK
<1>7. ValuesOK'
  <2>1. \A u \in Threads : pc'[u] \in Valued => value[u] \in 1..calls
    BY <1>1, <1>6 DEF ValuesOK
  <2>2. \A u \in Threads : pc'[u] \in Unsent => ~Has(log', value[u])
    BY <1>1, <1>2, <1>5 DEF ValuesOK
  <2>3. \A u, w \in Threads :
           pc'[u] \in Unsent /\ pc'[w] \in Unsent /\ value[u] = value[w] => u = w
    BY <1>1, <1>2 DEF ValuesOK
  <2>4. \A i \in DOMAIN log' : log'[i] \in 1..calls
    BY <1>4, <1>6 DEF ValuesOK
  <2>5. \A c \in Channels : \A k \in DOMAIN out[c] : Has(log', out[c][k])
    BY <1>5 DEF ValuesOK
  <2>6. \A u \in Threads : pc'[u] \in Sending => Len(log') > 0 /\ log'[Len(log')] = value[u]
    BY <1>1, <1>3, <1>4
  <2> QED BY <1>1, <2>1, <2>2, <2>3, <2>4, <2>5, <2>6 DEF ValuesOK, Has
<1>8. CountOK'
  <2>1. Deliveries(out, value[t]) = {}
    BY <1>6 DEF Deliveries, ValuesOK
  <2>2. Deliveries(out', value[t]) = {}
    BY <1>1, <2>1
  <2>3. nsent[t] = 0 /\ IsFiniteSet({}) /\ Cardinality({}) = 0
    BY <1>2, FS_EmptySet DEF CountOK
  <2>4. ASSUME NEW u \in Threads, u # t
        PROVE  pc'[u] \notin Sending /\ nsent[u] = 0
    BY <1>1, <1>3, <2>4 DEF CountOK
  <2>5. IsFiniteSet(Deliveries(out', value[t])) /\ Cardinality(Deliveries(out', value[t])) = nsent[t]
    BY <2>2, <2>3
  <2>6. Deliveries(out', value'[t]) = Deliveries(out', value[t])
    BY <1>1 DEF Deliveries
  <2> QED BY <1>1, <1>2, <2>4, <2>5, <2>6 DEF CountOK
<1> QED BY <1>7, <1>8

LEMMA DeliverValuesOK ==
  ASSUME Inv, ValuesOK, CountOK, NEW t \in Threads, pc[t] \in {"try", "select"}, pc'[t] = "try",
         \A u \in Threads : u # t => pc'[u] = pc[u],
         NEW k \in 2..cases[t], Deliver(t, k, value[t])
  PROVE  ValuesOK' /\ CountOK'
<1> DEFINE c == sendCases[k].ch
           n == Len(out[c]) + 1
           v == value[t]
<1>1. pc[t] \in Sending /\ pc'[t] \in Sending /\ pc'[t] \notin Unsent /\ pc[t] \in Holding /\ pc[t] \in Valued
  BY DEF Sending, Unsent, Holding, Valued
<1>2. /\ \A u \in Threads : u # t => pc[u] \notin Sending
      /\ IsCaseList(sendCases) /\ k \in 2..Len(sendCases)
  BY <1>1, OneSender DEF Inv
<1>3. c \in Channels /\ out[c] \in Seq(0..MaxSends) /\ v \in 0..MaxSends
  BY <1>2, CaseListChannels DEF Inv, Inv1, TypeOK, UsersOK, ThreadsOK
<1>4. /\ out' = [out EXCEPT ![c] = Append(@, v)]
      /\ nsent' = [nsent EXCEPT ![t] = @ + 1]
      /\ UNCHANGED <<value, calls, log>>
  BY DEF Deliver
<1>5. /\ DOMAIN out'[c] = DOMAIN out[c] \cup {n} /\ n \notin DOMAIN out[c]
      /\ out'[c][n] = v /\ \A j \in DOMAIN out[c] : out'[c][j] = out[c][j]
      /\ \A d \in Channels : d # c => out'[d] = out[d]
  BY SMTT(30), <1>3, <1>4 DEF Inv, Inv1, TypeOK, UsersOK
<1>6. Has(log, v)
  <2>1. Len(log) > 0 /\ log[Len(log)] = v
    BY <1>1 DEF ValuesOK
  <2>2. Len(log) \in DOMAIN log
    BY <2>1 DEF Inv, Inv1, TypeOK, UsersOK
  <2> QED BY <2>1, <2>2 DEF Has
<1> HIDE DEF c, n, v
<1>7. ValuesOK'
  <2>1. \A d \in Channels : \A j \in DOMAIN out'[d] : Has(log, out'[d][j])
    BY <1>5, <1>6 DEF ValuesOK
  <2>2. \A u \in Threads : /\ pc'[u] \in Valued => pc[u] \in Valued
                           /\ pc'[u] \in Unsent => pc[u] \in Unsent
                           /\ pc'[u] \in Sending => pc[u] \in Sending
    BY <1>1
  <2> QED BY <1>4, <2>1, <2>2 DEF ValuesOK, Has
<1>8. CountOK'
  <2>1. /\ Deliveries(out', v) = Deliveries(out, v) \cup {<<c, n>>}
        /\ <<c, n>> \notin Deliveries(out, v)
    <3>1. ASSUME NEW p
          PROVE  p \in Deliveries(out', v) <=> p \in Deliveries(out, v) \/ p = <<c, n>>
      <4>1. p \in Deliveries(out, v) <=>
              \E d \in Channels : \E j \in DOMAIN out[d] : out[d][j] = v /\ p = <<d, j>>
        BY DEF Deliveries
      <4>2. p \in Deliveries(out', v) <=>
              \E d \in Channels : \E j \in DOMAIN out'[d] : out'[d][j] = v /\ p = <<d, j>>
        BY <1>4 DEF Deliveries, v
      <4>3. ASSUME NEW d \in Channels, NEW j \in DOMAIN out'[d], out'[d][j] = v, p = <<d, j>>
            PROVE  p \in Deliveries(out, v) \/ p = <<c, n>>
        BY <1>5, <4>1, <4>3
      <4>4. ASSUME NEW d \in Channels, NEW j \in DOMAIN out[d], out[d][j] = v, p = <<d, j>>
            PROVE  p \in Deliveries(out', v)
        <5>1. j \in DOMAIN out'[d] /\ out'[d][j] = v
          BY <1>5, <4>4
        <5> QED BY <4>2, <4>4, <5>1
      <4>5. p = <<c, n>> => p \in Deliveries(out', v)
        BY <1>3, <1>5, <4>2
      <4> QED BY <4>1, <4>2, <4>3, <4>4, <4>5
    <3>2. ~(<<c, n>> \in Deliveries(out, v))
      BY <1>5 DEF Deliveries
    <3> QED BY <3>1, <3>2
  <2>2. /\ IsFiniteSet(Deliveries(out, v)) /\ Cardinality(Deliveries(out, v)) = nsent[t]
    BY <1>1 DEF CountOK, v
  <2>3. /\ IsFiniteSet(Deliveries(out', v)) /\ Cardinality(Deliveries(out', v)) = nsent[t] + 1
    BY ZenonT(30), <2>1, <2>2, FS_AddElement
  <2>4. nsent'[t] = nsent[t] + 1 /\ \A u \in Threads : u # t => nsent'[u] = nsent[u]
    BY <1>4 DEF Inv, Inv1, TypeOK, ThreadsOK
  <2>5. Deliveries(out', value'[t]) = Deliveries(out', v)
    BY <1>4 DEF Deliveries, v
  <2>6. ASSUME NEW u \in Threads, u # t
        PROVE  pc'[u] \notin Sending /\ nsent'[u] = 0
    BY <1>2, <2>4, <2>6 DEF CountOK
  <2> QED BY <1>1, <2>3, <2>4, <2>5, <2>6 DEF CountOK
<1> QED BY <1>7, <1>8

LEMMA SendReleaseValuesOK ==
  ASSUME Inv, ValuesOK, CountOK, NEW t \in Threads, SendRelease(t)
  PROVE  ValuesOK' /\ CountOK'
<1>1. /\ pc[t] = "release" /\ pc'[t] = "idle" /\ nsent'[t] = 0
      /\ \A u \in Threads : u # t => pc'[u] = pc[u] /\ value'[u] = value[u] /\ nsent'[u] = nsent[u]
      /\ UNCHANGED <<log, out, calls>>
  BY DEF SendRelease, Inv, Inv1, TypeOK, ThreadsOK, userVars
<1>2. pc'[t] \notin Valued /\ pc'[t] \notin Sending /\ pc'[t] \notin Unsent
  BY <1>1 DEF Valued, Sending, Unsent
<1>3. ValuesOK'
  BY <1>1, <1>2 DEF ValuesOK, Has
<1>4. CountOK'
  <2> SUFFICES ASSUME NEW u \in Threads
               PROVE  /\ pc'[u] \in Sending => /\ IsFiniteSet(Deliveries(out', value'[u]))
                                               /\ Cardinality(Deliveries(out', value'[u])) = nsent'[u]
                      /\ pc'[u] \notin Sending => nsent'[u] = 0
    BY DEF CountOK
  <2>1. CASE u = t
    BY <1>1, <1>2, <2>1
  <2>2. CASE u # t
    <3>1. Deliveries(out', value'[u]) = Deliveries(out, value[u])
      BY <1>1, <2>2 DEF Deliveries
    <3> QED BY <1>1, <2>2, <3>1 DEF CountOK
  <2> QED BY <2>1, <2>2
<1> QED BY <1>3, <1>4

LEMMA OthersValuesOK ==
  ASSUME Inv, ValuesOK, CountOK, NEW t \in Threads,
         \/ OnceReturn(t) \/ UnsubTakeLock(t) \/ UnsubDelete(t) \/ UnsubHandOff(t)
         \/ UnsubUnlock(t) \/ UnsubClose(t) \/ SendAcquire(t) \/ TrySendFull(t) \/ TryDone(t) \/ SendDrop(t)
         \/ \E s \in Subs : Subscribe(t, s) \/ Unsubscribe(t, s) \/ UnsubscribeAgain(t, s)
         \/ \E u \in Threads : SelectRemove(t, u)
  PROVE  ValuesOK' /\ CountOK'
<1> USE DEF Inv, Inv1, TypeOK, ThreadsOK, Valued, Sending, Unsent
<1>1. CASE \/ OnceReturn(t) \/ UnsubTakeLock(t) \/ UnsubDelete(t) \/ UnsubHandOff(t)
           \/ UnsubUnlock(t) \/ UnsubClose(t)
  BY <1>1, SameValuesOK
     DEF OnceReturn, UnsubTakeLock, UnsubDelete, UnsubHandOff, UnsubUnlock, UnsubClose,
         sendVars, userVars
<1>2. CASE SendAcquire(t) \/ TrySendFull(t) \/ TryDone(t) \/ SendDrop(t)
  BY <1>2, SameValuesOK DEF SendAcquire, TrySendFull, TryDone, SendDrop, sendVars, userVars
<1>3. ASSUME NEW s \in Subs, Subscribe(t, s) \/ Unsubscribe(t, s) \/ UnsubscribeAgain(t, s)
      PROVE  ValuesOK' /\ CountOK'
  BY <1>3, SameValuesOK DEF Subscribe, Unsubscribe, UnsubscribeAgain, sendVars, userVars
<1>4. ASSUME NEW u \in Threads, SelectRemove(t, u) PROVE ValuesOK' /\ CountOK'
  BY <1>4, SameValuesOK DEF SelectRemove, userVars
<1> QED BY <1>1, <1>2, <1>3, <1>4

LEMMA StepValuesOK == Inv /\ SendOK /\ ValuesOK /\ CountOK /\ [Next]_vars => ValuesOK' /\ CountOK'
<1> SUFFICES ASSUME Inv, SendOK, ValuesOK, CountOK, [Next]_vars PROVE ValuesOK' /\ CountOK'
  OBVIOUS
<1>1. CASE \E t \in Threads, s \in Subs :
             Subscribe(t, s) \/ Unsubscribe(t, s) \/ UnsubscribeAgain(t, s)
  BY <1>1, OthersValuesOK
<1>2. ASSUME NEW t \in Threads, SendCall(t) \/ Step(t) PROVE ValuesOK' /\ CountOK'
  <2>1. CASE TrySend(t)
    <3>1. /\ idx[t] \in 2..cases[t] /\ pc[t] = "try" /\ pc' = pc
          /\ Deliver(t, idx[t], value[t])
      BY <2>1 DEF TrySend, Inv, Inv1, TypeOK, ThreadsOK, PlacesOK
    <3> QED BY <3>1, DeliverValuesOK
  <2>2. CASE SelectSend(t)
    <3>1. PICK k \in 2..cases[t] : Deliver(t, k, sendCases[k].send)
      BY <2>2 DEF SelectSend
    <3>2. /\ pc[t] = "select" /\ pc'[t] = "try"
          /\ \A u \in Threads : u # t => pc'[u] = pc[u]
      BY <2>2 DEF SelectSend, Inv, Inv1, TypeOK, ThreadsOK
    <3>3. sendCases[k].send = value[t]
      BY <3>2 DEF SendOK, Sending
    <3> QED BY <3>1, <3>2, <3>3, DeliverValuesOK
  <2> QED BY <1>2, <2>1, <2>2, OthersValuesOK, SendCallValuesOK, SendMergeValuesOK,
          SendReleaseValuesOK DEF Step
<1>3. CASE \E c \in Channels : Receive(c)
  BY <1>3, SameValuesOK DEF Receive, sendVars
<1>4. CASE Quiescent \/ UNCHANGED vars
  BY <1>4, SameValuesOK DEF Quiescent, vars, sendVars, userVars
<1> QED BY <1>1, <1>2, <1>3, <1>4 DEF Next

SendInv == Inv /\ SendOK /\ ValuesOK /\ CountOK

LEMMA SendInvInvariant == Spec => []SendInv
<1>1. Init => ValuesOK /\ CountOK
  BY InitValuesOK
<1>2. Inv /\ SendOK /\ ValuesOK /\ CountOK /\ [Next]_vars => ValuesOK' /\ CountOK'
  BY StepValuesOK
<1> QED BY <1>1, <1>2, SendInvariance, PTL DEF Spec, SendInv

\* Send returns the number of its deliveries, whatever part of them the fast
\* path made and whatever subscriptions ended meanwhile.
THEOREM NSentSafe == Spec => []NSentExact
<1>1. SendInv => NSentExact
  <2> SUFFICES ASSUME SendInv, NEW t \in Threads, pc[t] = "release"
               PROVE  nsent[t] = DeliveriesOf(value[t])
    BY DEF NSentExact
  <2>1. Cardinality(Deliveries(out, value[t])) = nsent[t]
    BY DEF SendInv, CountOK, Sending
  <2> QED BY <2>1 DEF Deliveries, DeliveriesOf
<1> QED BY <1>1, SendInvInvariant, PTL

-----------------------------------------------------------------------------
(* The order of deliveries *)

\* Every subscription has a channel of its own.
OwnChannels == \A r, s \in Subs : ChanOf[r] = ChanOf[s] => r = s

\* A subscription whose case Send is about to delete is over.
DropsOver ==
  \A t \in Threads : pc[t] = "drop" =>
     \E s \in Subs : ChanOf[s] = recv[t] /\ status[s] \in {"left", "closed"}

\* o holds the values of l that follow the first n, in their order.
IsRun(o, l, n) ==
  /\ n \in Nat
  /\ n + Len(o) <= Len(l)
  /\ \A i \in 1..Len(o) : o[i] = l[n + i]

LEMMA RunInLonger ==
  ASSUME NEW S, NEW o \in Seq(S), NEW l \in Seq(S), NEW v \in S, NEW n, IsRun(o, l, n)
  PROVE  IsRun(o, Append(l, v), n)
BY SMTT(30) DEF IsRun

\* The next value of the run comes.
LEMMA RunGrows ==
  ASSUME NEW S, NEW o \in Seq(S), NEW l \in Seq(S), Len(l) > 0,
         IsRun(o, l, Len(l) - Len(o) - 1)
  PROVE  IsRun(Append(o, l[Len(l)]), l, Len(l) - Len(o) - 1)
BY SMTT(30) DEF IsRun

\* A value of the running Send that c still has to get.
Late(c) ==
  IF \E t \in Threads : pc[t] \in Sending /\ CountIn(Prefix(sendCases, cases[t]), c) > 0
  THEN 1 ELSE 0

\* Nothing was sent to c yet.
Fresh(c) == CountIn(inbox, c) > 0 \/ With(c, {"new"}) # {}

\* While c has a case it got everything from its first value on, up to the
\* one it is owed now; then it stays as it is.
StreamOK(c) ==
  /\ \E n : IsRun(out[c], log, n)
  /\ Fresh(c) => Len(out[c]) = 0
  /\ CountIn(sendCases, c) > 0 => IsRun(out[c], log, Len(log) - Len(out[c]) - Late(c))

Streams == DropsOver /\ \A c \in Channels : StreamOK(c)

LEMMA InitStreams == Init => Streams
<1> SUFFICES ASSUME Init, NEW c \in Channels
             PROVE  StreamOK(c)
  BY DEF Init, Streams, DropsOver
<1>1. IsRun(out[c], log, 0) /\ Len(out[c]) = 0
  BY DEF Init, IsRun
<1>2. CountIn(sendCases, c) = 0
  BY CountEmpty DEF Init
<1> QED BY <1>1, <1>2 DEF StreamOK

\* A channel of its own has at most one case, and none before its
\* subscription begins.
LEMMA OneCase ==
  ASSUME Inv, DropsOver, OwnChannels, NEW c \in Channels
  PROVE  /\ CountIn(inbox, c) + CountIn(sendCases, c) <= 1
         /\ With(c, {"new"}) # {} => CountIn(sendCases, c) = 0
<1>1. /\ CountIn(inbox, c) \in Nat /\ CountIn(sendCases, c) \in Nat
      /\ CountIn(inbox, c) + CountIn(sendCases, c) = Live(c) + Drops(c)
      /\ Live(c) \in Nat /\ Drops(c) \in Nat
  BY Inv2Numbers, NumberTypes, CountTypes DEF Inv
<1>2. Cardinality({}) = 0
  BY FS_EmptySet
<1>3. Live(c) <= 1
  <2>1. CASE With(c, {"live", "leaving"}) = {}
    BY <1>2, <2>1 DEF Live
  <2>2. CASE With(c, {"live", "leaving"}) # {}
    <3>1. PICK s \in With(c, {"live", "leaving"}) : TRUE
      BY <2>2
    <3>2. With(c, {"live", "leaving"}) = {s}
      BY <3>1 DEF With, OwnChannels
    <3>3. Cardinality({s}) = 1
      BY FS_Singleton
    <3> QED BY <3>2, <3>3 DEF Live
  <2> QED BY <2>1, <2>2
<1>4. Drops(c) <= 1
  <2>1. CASE Dropping(c) = {}
    BY <1>2, <2>1 DEF Drops
  <2>2. CASE Dropping(c) # {}
    <3>1. PICK t \in Dropping(c) : TRUE
      BY <2>2
    <3>2. Dropping(c) = {t}
      BY <3>1 DEF Dropping, Inv, Inv1, LockDiscipline, Holding
    <3> QED BY <3>2, FS_Singleton DEF Drops
  <2> QED BY <2>1, <2>2
<1>5. ASSUME Dropping(c) # {} PROVE Live(c) = 0 /\ With(c, {"new"}) = {}
  <2>1. PICK t \in Dropping(c) : TRUE
    BY <1>5
  <2>2. PICK s \in Subs : ChanOf[s] = c /\ status[s] \in {"left", "closed"}
    BY <2>1 DEF Dropping, DropsOver
  <2>3. With(c, {"live", "leaving"}) = {} /\ With(c, {"new"}) = {}
    BY <2>2 DEF With, OwnChannels
  <2> QED BY <1>2, <2>3 DEF Live
<1>6. ASSUME With(c, {"new"}) # {} PROVE Live(c) = 0
  <2>1. PICK s \in Subs : ChanOf[s] = c /\ status[s] = "new"
    BY <1>6 DEF With
  <2>2. With(c, {"live", "leaving"}) = {}
    BY <2>1 DEF With, OwnChannels
  <2> QED BY <1>2, <2>2 DEF Live
<1>7. Drops(c) > 0 => Dropping(c) # {}
  BY <1>2 DEF Drops
<1> QED BY <1>1, <1>3, <1>4, <1>5, <1>6, <1>7

\* Steps that add nothing to the log, to c, or to what c is owed.
LEMMA SameStream ==
  ASSUME NEW c \in Channels, StreamOK(c), UNCHANGED <<log, out>>, Late(c)' = Late(c),
         CountIn(sendCases, c)' > 0 => CountIn(sendCases, c) > 0,
         Fresh(c)' => Fresh(c)
  PROVE  StreamOK(c)'
BY DEF StreamOK, IsRun

\* Late while t sends, and while nobody does.
LateView ==
  /\ \A t \in Threads, c \in Channels : pc[t] \in Sending =>
        Late(c) = IF CountIn(Prefix(sendCases, cases[t]), c) > 0 THEN 1 ELSE 0
  /\ (\A t \in Threads : pc[t] \notin Sending) => \A c \in Channels : Late(c) = 0

LEMMA LateIs == Inv => LateView
<1> SUFFICES ASSUME Inv, NEW t \in Threads, pc[t] \in Sending, NEW c
             PROVE  Late(c) = IF CountIn(Prefix(sendCases, cases[t]), c) > 0 THEN 1 ELSE 0
  BY DEF LateView, Late
<1>1. \A u \in Threads : u # t => pc[u] \notin Sending
  BY OneSender DEF Inv, Sending, Holding
<1> QED BY <1>1 DEF Late

LEMMA LateNext == Inv' => LateView'
BY LateIs, PTL

LEMMA LateSame ==
  ASSUME Inv, Inv', NEW c \in Channels, UNCHANGED cases,
         \A t \in Threads : /\ pc'[t] \in Sending <=> pc[t] \in Sending
                            /\ pc[t] \in Sending => sendCases' = sendCases
  PROVE  Late(c)' = Late(c)
<1>1. CASE \E t \in Threads : pc[t] \in Sending
  <2>1. PICK t \in Threads : pc[t] \in Sending
    BY <1>1
  <2> QED BY <2>1, LateIs, LateNext DEF LateView
<1>2. CASE ~\E t \in Threads : pc[t] \in Sending
  BY <1>2, LateIs, LateNext DEF LateView
<1> QED BY <1>1, <1>2

\* Subscriptions do not come back.
Onward ==
  \A s \in Subs : /\ status'[s] = "new" => status[s] = "new"
                  /\ status[s] \in {"left", "closed"} => status'[s] \in {"left", "closed"}

LEMMA QuietStreams ==
  ASSUME Inv, Inv', Streams, Onward, UNCHANGED <<cases, log, out>>,
         \A t \in Threads : /\ pc'[t] \in Sending <=> pc[t] \in Sending
                            /\ pc[t] \in Sending => sendCases' = sendCases
                            /\ pc'[t] = "drop" => pc[t] = "drop" /\ recv'[t] = recv[t],
         \A c \in Channels : /\ CountIn(sendCases, c)' > 0 => CountIn(sendCases, c) > 0
                             /\ CountIn(inbox, c)' > 0 => Fresh(c)
  PROVE  Streams'
<1>1. DropsOver'
  BY DEF Streams, DropsOver, Onward
<1>2. ASSUME NEW c \in Channels PROVE StreamOK(c)'
  <2>1. Late(c)' = Late(c)
    BY LateSame
  <2>2. Fresh(c)' => Fresh(c)
    BY DEF Fresh, With, Onward
  <2> QED BY <2>1, <2>2, SameStream DEF Streams
<1> QED BY <1>1, <1>2 DEF Streams

LEMMA SubscribeStreams ==
  ASSUME Inv, Inv', Streams, NEW t \in Threads, NEW s \in Subs, Subscribe(t, s)
  PROVE  Streams'
<1>1. /\ status[s] = "new" /\ status' = [status EXCEPT ![s] = "live"]
      /\ inbox' = Append(inbox, Case(ChanOf[s]))
      /\ UNCHANGED <<pc, cases, recv, log, out>>
  BY DEF Subscribe, sendVars, userVars
<1>2. Onward
  BY <1>1 DEF Onward, Inv, Inv1, TypeOK, UsersOK
<1>3. \A u \in Threads : pc[u] \in Sending => sendCases' = sendCases
  BY DEF Subscribe, InitOnce, Inv, Inv1, PlacesOK, Holding, Sending
<1>4. ASSUME NEW c \in Channels
      PROVE  /\ CountIn(sendCases, c)' = CountIn(sendCases, c)
             /\ CountIn(inbox, c)' > 0 => Fresh(c)
  <2>1. CountIn(sendCases, c)' = CountIn(sendCases, c)
    BY InitOnceCount DEF Subscribe
  <2>2. CountIn(Append(inbox, Case(ChanOf[s])), c)
          = CountIn(inbox, c) + (IF Case(ChanOf[s]).ch = c THEN 1 ELSE 0)
    <3> DEFINE S == {Case(d) : d \in Channels}
    <3>1. inbox \in Seq(S) /\ Case(ChanOf[s]) \in S
      BY FeedAssumption DEF Inv, Inv1, TypeOK, ListsOK
    <3> HIDE DEF S
    <3> QED BY <3>1, CountAppend
  <2>3. CountIn(inbox, c)' = CountIn(inbox', c)
    BY DEF CountIn
  <2>4. ChanOf[s] = c => With(c, {"new"}) # {}
    BY <1>1 DEF With
  <2>5. CountIn(inbox, c) \in Nat
    BY CountTypes DEF Inv
  <2> QED BY <1>1, <2>1, <2>2, <2>3, <2>4, <2>5 DEF Fresh, Case
<1> QED BY <1>1, <1>2, <1>3, <1>4, QuietStreams

LEMMA UnsubscribeStreams ==
  ASSUME Inv, Inv', Streams, NEW t \in Threads, NEW s \in Subs, Unsubscribe(t, s)
  PROVE  Streams'
<1>1. /\ status[s] = "live" /\ pc[t] = "idle" /\ pc'[t] \in {"close", "unselect"}
      /\ \A u \in Threads : u # t => pc'[u] = pc[u]
      /\ UNCHANGED <<sendCases, cases, recv, log, out>>
  BY DEF Unsubscribe, sendVars, userVars, Inv, Inv1, TypeOK, ThreadsOK
<1>2. Onward
  BY <1>1 DEF Unsubscribe, Onward, Inv, Inv1, TypeOK, UsersOK
<1>3. \A u \in Threads : /\ pc'[u] \in Sending <=> pc[u] \in Sending
                         /\ pc'[u] = "drop" => pc[u] = "drop"
  BY <1>1 DEF Sending
<1>4. ASSUME NEW c \in Channels
      PROVE  /\ CountIn(sendCases, c)' = CountIn(sendCases, c)
             /\ CountIn(inbox, c)' > 0 => CountIn(inbox, c) > 0
  <2>1. CountIn(sendCases, c)' = CountIn(sendCases, c)
    BY <1>1 DEF CountIn
  <2>2. CASE InInbox(s) = 0
    BY <2>1, <2>2 DEF Unsubscribe, CountIn
  <2>3. CASE InInbox(s) # 0
    <3> DEFINE S == {Case(d) : d \in Channels}
               k == InInbox(s)
    <3>1. inbox \in Seq(S) /\ k \in 1..Len(inbox)
      BY <2>3, FindIsCase DEF Inv, Inv1, TypeOK, ListsOK, InInbox
    <3>2. CountIn(RemoveAt(inbox, k), c) = CountIn(inbox, c) - (IF inbox[k].ch = c THEN 1 ELSE 0)
      <4> HIDE DEF S, k
      <4> QED BY <3>1, CountRemoveAt
    <3>3. CountIn(inbox, c)' = CountIn(RemoveAt(inbox, k), c)
      BY <2>3 DEF Unsubscribe, CountIn
    <3>4. CountIn(inbox, c) \in Nat
      BY CountTypes DEF Inv
    <3> QED BY <2>1, <3>2, <3>3, <3>4
  <2> QED BY <2>2, <2>3
<1> QED BY <1>1, <1>2, <1>3, <1>4, QuietStreams DEF Fresh

LEMMA UnsubDeleteStreams ==
  ASSUME Inv, Inv', Streams, NEW t \in Threads, UnsubDelete(t)
  PROVE  Streams'
<1> DEFINE d == ChanOf[sub[t]]
<1>1. /\ pc[t] = "unlist" /\ pc'[t] = "handoff" /\ sub[t] \in Subs /\ d \in Channels
      /\ \A u \in Threads : u # t => pc'[u] = pc[u]
      /\ sendCases' = Delete(sendCases, d)
      /\ status' = [status EXCEPT ![sub[t]] = "left"]
      /\ UNCHANGED <<inbox, cases, recv, log, out>>
  BY FeedAssumption
     DEF UnsubDelete, sendVars, userVars, Inv, Inv1, TypeOK, ThreadsOK, PlacesOK
<1>2. Onward
  BY <1>1 DEF Onward, Inv, Inv1, TypeOK, UsersOK
<1>3. /\ \A u \in Threads : pc'[u] \notin Sending /\ pc[u] \notin Sending
      /\ \A u \in Threads : pc'[u] # "drop"
      /\ IsCaseList(sendCases)
  <2>1. pc[t] \in Holding
    BY <1>1 DEF Holding
  <2> QED BY <1>1, <2>1, OneSender DEF Inv, Sending, Holding
<1>4. ASSUME NEW c \in Channels
      PROVE  /\ CountIn(sendCases, c)' > 0 => CountIn(sendCases, c) > 0
             /\ CountIn(inbox, c)' = CountIn(inbox, c)
  <2>1. Find(sendCases, d) # 0
    BY <1>1, FindsCase DEF Inv, RemovalFindsCase
  <2>2. CountIn(Delete(sendCases, d), c) = CountIn(sendCases, c) - (IF c = d THEN 1 ELSE 0)
    BY <1>1, <1>3, <2>1, CountDelete
  <2>3. /\ CountIn(sendCases, c)' = CountIn(Delete(sendCases, d), c)
        /\ CountIn(inbox, c)' = CountIn(inbox, c)
    BY <1>1 DEF CountIn
  <2>4. CountIn(sendCases, c) \in Nat
    BY CountTypes DEF Inv
  <2> QED BY <2>2, <2>3, <2>4
<1> QED BY <1>1, <1>2, <1>3, <1>4, QuietStreams DEF Fresh

\* Steps that change neither list, and no subscription but one that closes.
LEMMA OthersStreams ==
  ASSUME Inv, Inv', Streams, NEW t \in Threads,
         \/ OnceReturn(t) \/ UnsubTakeLock(t) \/ UnsubHandOff(t) \/ UnsubUnlock(t) \/ UnsubClose(t)
         \/ SendCall(t) \/ SendAcquire(t) \/ TrySendFull(t) \/ TryDone(t)
         \/ \E s \in Subs : UnsubscribeAgain(t, s)
  PROVE  Streams'
<1> USE DEF Inv, Inv1, TypeOK, ThreadsOK, UsersOK, Sending, Onward
<1>1. UNCHANGED <<cases, recv, log, out, inbox>> /\ Onward
  <2>1. UNCHANGED <<cases, recv, log, out, inbox>>
    BY DEF OnceReturn, UnsubTakeLock, UnsubHandOff, UnsubUnlock, UnsubClose, SendCall, SendAcquire,
           TrySendFull, TryDone, UnsubscribeAgain, sendVars, feedVars, userVars
  <2>2. ASSUME UnsubClose(t) PROVE Onward
    BY <2>2 DEF UnsubClose
  <2>3. ASSUME ~UnsubClose(t) PROVE Onward
    BY <2>3 DEF OnceReturn, UnsubTakeLock, UnsubHandOff, UnsubUnlock, SendCall, SendAcquire,
                TrySendFull, TryDone, UnsubscribeAgain
  <2> QED BY <2>1, <2>2, <2>3
<1>2. \A u \in Threads : /\ pc'[u] \in Sending <=> pc[u] \in Sending
                         /\ pc'[u] = "drop" => pc[u] = "drop"
  BY ZenonT(30)
  DEF OnceReturn, UnsubTakeLock, UnsubHandOff, UnsubUnlock, UnsubClose, SendCall, SendAcquire,
         TrySendFull, TryDone, UnsubscribeAgain
<1>3. /\ \A u \in Threads : pc[u] \in Sending => sendCases' = sendCases
      /\ \A c \in Channels : CountIn(sendCases, c)' = CountIn(sendCases, c)
  <2>1. CASE SendCall(t)
    BY <2>1, InitOnceCount DEF SendCall, InitOnce, PlacesOK, Holding
  <2>2. CASE ~SendCall(t)
    <3>1. sendCases' = sendCases
      BY <2>2 DEF OnceReturn, UnsubTakeLock, UnsubHandOff, UnsubUnlock, UnsubClose, SendAcquire,
                  TrySendFull, TryDone, UnsubscribeAgain, feedVars
    <3> QED BY <3>1 DEF CountIn
  <2> QED BY <2>1, <2>2
<1>4. \A c \in Channels : CountIn(inbox, c)' = CountIn(inbox, c)
  BY <1>1 DEF CountIn
<1> QED BY <1>1, <1>2, <1>3, <1>4, QuietStreams DEF Fresh

LEMMA SelectRemoveStreams ==
  ASSUME Inv, Inv', Streams, NEW t \in Threads, NEW u \in Threads, SelectRemove(t, u)
  PROVE  Streams'
<1>1. /\ pc[t] = "select" /\ pc[u] = "unselect" /\ t # u /\ sub[u] \in Subs
      /\ pc'[t] = "drop" /\ pc'[u] = "close" /\ recv'[t] = ChanOf[sub[u]]
      /\ \A w \in Threads : w # t /\ w # u => pc'[w] = pc[w] /\ recv'[w] = recv[w]
      /\ status' = [status EXCEPT ![sub[u]] = "left"]
      /\ UNCHANGED <<sendCases, inbox, cases, log, out>>
  BY DEF SelectRemove, feedVars, userVars, Inv, Inv1, TypeOK, ThreadsOK, PlacesOK
<1>2. Onward /\ status'[sub[u]] = "left"
  BY <1>1 DEF Onward, Inv, Inv1, TypeOK, UsersOK
<1>3. DropsOver'
  BY <1>1, <1>2 DEF Streams, DropsOver, Onward
<1>4. ASSUME NEW c \in Channels PROVE StreamOK(c)'
  <2>1. Late(c)' = Late(c)
    <3>1. \A w \in Threads : pc'[w] \in Sending <=> pc[w] \in Sending
      BY <1>1 DEF Sending
    <3> QED BY <1>1, <3>1, LateSame
  <2>2. /\ CountIn(sendCases, c)' = CountIn(sendCases, c)
        /\ Fresh(c)' => Fresh(c)
    BY <1>1, <1>2 DEF CountIn, Fresh, With, Onward
  <2> QED BY <1>1, <2>1, <2>2, SameStream DEF Streams
<1> QED BY <1>3, <1>4 DEF Streams

\* The log gets the value that the channels with a case are owed now.  Those
\* that come from the inbox begin with it.
LEMMA SendMergeStreams ==
  ASSUME Inv, Inv', Streams, NEW t \in Threads, SendMerge(t)
  PROVE  Streams'
<1>1. /\ pc[t] = "merge" /\ pc'[t] = "try"
      /\ \A u \in Threads : u # t => pc'[u] = pc[u]
      /\ log' = Append(log, value[t]) /\ inbox' = <<>>
      /\ sendCases' = WithSend(sendCases \o inbox, value[t])
      /\ cases'[t] = Len(sendCases) + Len(inbox)
      /\ UNCHANGED <<status, recv, out>>
  BY DEF SendMerge, Inv, Inv1, TypeOK, ThreadsOK
<1>2. /\ \A u \in Threads : pc[u] \notin Sending
      /\ IsCaseList(sendCases)
  BY <1>1, OneSender DEF Inv, Holding, Sending
<1>3. DropsOver'
  BY <1>1 DEF Streams, DropsOver
<1>4. ASSUME NEW c \in Channels PROVE StreamOK(c)'
  <2>1. /\ log \in Seq(0..MaxSends) /\ out[c] \in Seq(0..MaxSends)
        /\ value[t] \in 0..MaxSends
        /\ Len(log') = Len(log) + 1 /\ Len(log) \in Nat
    BY <1>1 DEF Inv, Inv1, TypeOK, UsersOK, ThreadsOK
  <2>2. \A n : IsRun(out[c], log, n) => IsRun(out[c], log', n)
    BY <1>1, <2>1, RunInLonger
  <2>3. /\ CountIn(sendCases, c)' = CountIn(sendCases, c) + CountIn(inbox, c)
        /\ CountIn(inbox, c)' = 0
    BY MergeCount DEF Inv
  <2>4. Fresh(c)' => Fresh(c)
    BY <1>1, <2>3 DEF Fresh, With
  <2>5. Late(c) = 0
    BY <1>2, LateIs DEF LateView
  <2>6. CountIn(sendCases, c)' > 0 => Late(c)' = 1
    <3>1. Len(sendCases') = cases'[t] /\ IsCaseList(sendCases')
      <4>1. /\ IsCaseList(sendCases \o inbox)
            /\ Len(sendCases \o inbox) = Len(sendCases) + Len(inbox)
        BY <1>2, MergeCase DEF Inv, Inv1, TypeOK, ListsOK
      <4> QED BY <1>1, <2>1, <4>1, WithSendCase
    <3>2. CountIn(Prefix(sendCases', cases'[t]), c) = CountIn(sendCases', c)
      BY <3>1, PrefixWhole
    <3>3. /\ CountIn(Prefix(sendCases, cases[t]), c)' = CountIn(Prefix(sendCases', cases'[t]), c)
          /\ CountIn(sendCases, c)' = CountIn(sendCases', c)
      BY DEF CountIn, Prefix
    <3>4. pc'[t] \in Sending
      BY <1>1 DEF Sending
    <3> QED BY <3>2, <3>3, <3>4, LateNext DEF LateView
  <2>7. CountIn(sendCases, c)' > 0 => IsRun(out[c], log', Len(log) - Len(out[c]))
    <3>1. CASE CountIn(sendCases, c) > 0
      <4>1. Len(log) - Len(out[c]) - Late(c) = Len(log) - Len(out[c])
        BY <2>1, <2>5
      <4> QED BY <2>2, <3>1, <4>1 DEF Streams, StreamOK
    <3>2. CASE CountIn(inbox, c) > 0
      <4>1. Len(out[c]) = 0
        BY <3>2 DEF Streams, StreamOK, Fresh
      <4> QED BY <1>1, <2>1, <4>1 DEF IsRun
    <3> QED BY <2>3, <3>1, <3>2, CountTypes DEF Inv
  <2>8. Len(log') - Len(out'[c]) - 1 = Len(log) - Len(out[c])
    BY <1>1, <2>1
  <2> QED BY <1>1, <2>2, <2>4, <2>6, <2>7, <2>8 DEF Streams, StreamOK
<1> QED BY <1>3, <1>4 DEF Streams

\* The channel of the case that leaves the prefix gets the value it is owed,
\* once, for the case is its only one.
LEMMA DeliverStreams ==
  ASSUME OwnChannels, Inv, Inv', ValuesOK, Streams,
         NEW t \in Threads, pc[t] \in {"try", "select"}, pc'[t] = "try",
         \A u \in Threads : u # t => pc'[u] = pc[u],
         NEW k \in 2..cases[t], Deliver(t, k, value[t])
  PROVE  Streams'
<1>0. PICK d, n : d = sendCases[k].ch /\ n = cases[t]
  OBVIOUS
<1>1. /\ pc[t] \in Sending /\ pc[t] \in Holding /\ pc'[t] \in Sending
  BY DEF Sending, Holding
<1>2. /\ IsCaseList(sendCases) /\ Len(sendCases) \in Nat /\ n \in 2..Len(sendCases)
      /\ k \in 2..Len(sendCases) /\ k \in 2..n /\ n \in 1..Len(sendCases)
  BY <1>0, <1>1, OneSender DEF Inv
<1>3. /\ out' = [out EXCEPT ![d] = Append(@, value[t])]
      /\ sendCases' = Deactivate(sendCases, k, n) /\ cases'[t] = n - 1
      /\ UNCHANGED <<inbox, status, recv, log>>
  BY <1>0 DEF Deliver, Inv, Inv1, TypeOK, ThreadsOK
<1>4. d \in Channels
  BY <1>0, <1>2, CaseListChannels
<1>5. log[Len(log)] = value[t] /\ Len(log) > 0 /\ log \in Seq(0..MaxSends)
  BY <1>1 DEF ValuesOK, Inv, Inv1, TypeOK, UsersOK
<1>6. DropsOver'
  BY <1>3 DEF Streams, DropsOver
<1>7. ASSUME NEW c \in Channels
      PROVE  /\ CountIn(sendCases, c)' = CountIn(sendCases, c)
             /\ Fresh(c)' <=> Fresh(c)
             /\ CountIn(Prefix(sendCases, n), c) \in Nat
             /\ CountIn(Prefix(sendCases, n), c) <= CountIn(sendCases, c)
             /\ CountIn(Prefix(sendCases, cases[t]), c)' \in Nat
             /\ CountIn(Prefix(sendCases, cases[t]), c)'
                  = CountIn(Prefix(sendCases, n), c) - (IF d = c THEN 1 ELSE 0)
             /\ CountIn(inbox, c) \in Nat /\ CountIn(sendCases, c) \in Nat
  <2>1. CountIn(Deactivate(sendCases, k, n), c) = CountIn(sendCases, c)
    BY <1>2, CountDeactivate
  <2>2. CountIn(Prefix(Deactivate(sendCases, k, n), n - 1), c)
          = CountIn(Prefix(sendCases, n), c) - (IF sendCases[k].ch = c THEN 1 ELSE 0)
    BY <1>2, PrefixDeactivate
  <2>3. /\ CountIn(sendCases, c)' = CountIn(Deactivate(sendCases, k, n), c)
        /\ CountIn(Prefix(sendCases, cases[t]), c)'
             = CountIn(Prefix(Deactivate(sendCases, k, n), n - 1), c)
    BY <1>3 DEF CountIn, Prefix
  <2>4. IsCaseList(Deactivate(sendCases, k, n)) /\ Len(Deactivate(sendCases, k, n)) = Len(sendCases)
    BY <1>2, DeactivateCase
  <2>5. CountIn(Prefix(Deactivate(sendCases, k, n), n - 1), c) \in Nat
    BY <1>2, <2>4, PrefixBound
  <2>6. Fresh(c)' <=> Fresh(c)
    BY <1>3 DEF Fresh, With, CountIn
  <2>7. CountIn(Prefix(sendCases, n), c) \in Nat /\ CountIn(Prefix(sendCases, n), c) <= CountIn(sendCases, c)
    BY <1>2, PrefixBound
  <2> QED BY <2>1, <2>2, <2>3, <2>5, <2>6, <2>7, <1>0, CountTypes DEF Inv
<1>8. ASSUME NEW c \in Channels
      PROVE  /\ Late(c) = IF CountIn(Prefix(sendCases, n), c) > 0 THEN 1 ELSE 0
             /\ Late(c)' = IF CountIn(Prefix(sendCases, cases[t]), c)' > 0 THEN 1 ELSE 0
  BY <1>0, <1>1, LateIs, LateNext DEF LateView
<1>9. StreamOK(d)'
  <2>1. /\ CountIn(inbox, d) + CountIn(sendCases, d) <= 1
        /\ With(d, {"new"}) # {} => CountIn(sendCases, d) = 0
    BY <1>4, OneCase DEF Streams
  <2>2. CountIn(sendCases, d) = 1 /\ CountIn(inbox, d) = 0 /\ Late(d) = 1 /\ Late(d)' = 0
    BY <1>4, <1>7, <1>8, <2>1
  <2>3. ~Fresh(d)
    BY <2>1, <2>2 DEF Fresh
  <2>4. IsRun(out[d], log, Len(log) - Len(out[d]) - 1)
    BY <1>4, <2>2 DEF Streams, StreamOK
  <2>5. /\ out[d] \in Seq(0..MaxSends) /\ value[t] \in 0..MaxSends
        /\ out'[d] = Append(out[d], value[t])
    BY <1>3, <1>4 DEF Inv, Inv1, TypeOK, UsersOK, ThreadsOK
  <2>6. IsRun(out'[d], log, Len(log) - Len(out[d]) - 1)
    BY <1>5, <2>4, <2>5, RunGrows
  <2>7. Len(log') - Len(out'[d]) - Late(d)' = Len(log) - Len(out[d]) - 1
    <3>1. Len(out'[d]) = Len(out[d]) + 1 /\ Len(out[d]) \in Nat
      BY <2>5
    <3>2. log' = log /\ Len(log) \in Nat
      BY <1>3, <1>5
    <3>3. Late(d)' = 0
      BY <2>2
    <3> QED BY <3>1, <3>2, <3>3
  <2> QED BY <1>3, <1>4, <1>7, <2>3, <2>6, <2>7 DEF StreamOK
<1>10. ASSUME NEW c \in Channels, c # d PROVE StreamOK(c)'
  <2>1. out'[c] = out[c] /\ log' = log
    BY <1>3, <1>10
  <2>2. Late(c)' = Late(c)
    BY <1>7, <1>8, <1>10
  <2> QED BY <1>7, <2>1, <2>2 DEF Streams, StreamOK
<1> QED BY <1>6, <1>9, <1>10 DEF Streams

\* The channel of the deleted case has no other one.
LEMMA SendDropStreams ==
  ASSUME OwnChannels, Inv, Inv', Streams, NEW t \in Threads, SendDrop(t)
  PROVE  Streams'
<1> DEFINE d == recv[t]
           n == cases[t]
<1>1. /\ pc[t] = "drop" /\ pc[t] \in Sending /\ pc[t] \in Holding
      /\ pc'[t] = "try" /\ pc'[t] \in Sending
      /\ sendCases' = Delete(sendCases, d) /\ cases'[t] = Shrunk(n, Find(sendCases, d))
      /\ UNCHANGED <<inbox, status, out, log>>
  BY DEF SendDrop, userVars, Sending, Holding, Inv, Inv1, TypeOK, ThreadsOK
<1>2. /\ IsCaseList(sendCases) /\ n \in 1..Len(sendCases)
      /\ \A u \in Threads : u # t => pc[u] \notin Sending
  BY <1>1, OneSender DEF Inv
<1>3. d \in Channels /\ Find(sendCases, d) # 0
  BY <1>1, FindsCase DEF Inv, Inv1, PlacesOK, RemovalFindsCase
<1>4. DropsOver'
  <2>1. \A u \in Threads : pc'[u] # "drop"
    BY <1>1, <1>2 DEF SendDrop, Sending, Inv, Inv1, TypeOK, ThreadsOK
  <2> QED BY <2>1 DEF DropsOver
<1>5. ASSUME NEW c \in Channels PROVE StreamOK(c)'
  <2>1. CountIn(Delete(sendCases, d), c) = CountIn(sendCases, c) - (IF c = d THEN 1 ELSE 0)
    BY <1>2, <1>3, CountDelete
  <2>2. CountIn(Prefix(Delete(sendCases, d), Shrunk(n, Find(sendCases, d))), c)
          = CountIn(Prefix(sendCases, n), c)
              - (IF c = d /\ CountIn(Prefix(sendCases, n), d) > 0 THEN 1 ELSE 0)
    BY <1>2, <1>3, PrefixDelete
  <2>3. /\ CountIn(sendCases, c)' = CountIn(Delete(sendCases, d), c)
        /\ CountIn(Prefix(sendCases, cases[t]), c)'
             = CountIn(Prefix(Delete(sendCases, d), Shrunk(n, Find(sendCases, d))), c)
        /\ CountIn(inbox, c)' = CountIn(inbox, c)
    BY <1>1 DEF CountIn, Prefix
  <2>4. Fresh(c)' => Fresh(c)
    BY <1>1, <2>3 DEF Fresh, With
  <2>5. /\ CountIn(inbox, c) + CountIn(sendCases, c) <= 1
        /\ CountIn(inbox, c) \in Nat /\ CountIn(sendCases, c) \in Nat
        /\ CountIn(Prefix(sendCases, n), c) \in Nat
    BY <1>2, OneCase, CountTypes, PrefixBound DEF Streams, Inv
  <2>6. CASE c = d
    <3>1. ~(CountIn(sendCases, c)' > 0)
      BY <2>1, <2>3, <2>5, <2>6
    <3> QED BY <1>1, <2>4, <3>1 DEF Streams, StreamOK
  <2>7. CASE c # d
    <3>1. Late(c)' = Late(c)
      <4>1. CountIn(Prefix(sendCases, cases[t]), c)' = CountIn(Prefix(sendCases, cases[t]), c)
        BY <2>2, <2>3, <2>5, <2>7
      <4> QED BY <1>1, <4>1, LateIs, LateNext DEF LateView
    <3>2. CountIn(sendCases, c)' = CountIn(sendCases, c)
      BY <2>1, <2>3, <2>5, <2>7
    <3> QED BY <1>1, <2>4, <3>1, <3>2, SameStream DEF Streams
  <2> QED BY <2>6, <2>7
<1> QED BY <1>4, <1>5 DEF Streams

\* When Send lets go of the lock it owes nothing.
LEMMA SendReleaseStreams ==
  ASSUME Inv, Inv', SendOK, Streams, NEW t \in Threads, SendRelease(t)
  PROVE  Streams'
<1>1. /\ pc[t] = "release" /\ pc[t] \in Sending /\ pc[t] \in Holding /\ cases[t] = 1
      /\ pc'[t] = "idle" /\ \A u \in Threads : u # t => pc'[u] = pc[u]
      /\ sendCases' = WithSend(sendCases, NoValue)
      /\ UNCHANGED <<inbox, status, recv, out, log>>
  BY DEF SendRelease, SendOK, userVars, Sending, Holding, Inv, Inv1, TypeOK, ThreadsOK
<1>2. IsCaseList(sendCases) /\ \A u \in Threads : pc'[u] \notin Sending /\ pc'[u] # "drop"
  BY <1>1, OneSender DEF Inv, Sending
<1>3. ASSUME NEW c \in Channels PROVE StreamOK(c)'
  <2>1. CountIn(Prefix(sendCases, cases[t]), c) = 0
    BY <1>1, <1>2, PrefixOfOne
  <2>2. Late(c) = 0 /\ Late(c)' = 0
    BY <1>1, <1>2, <2>1, LateIs, LateNext DEF LateView
  <2>3. CountIn(WithSend(sendCases, NoValue), c) = CountIn(sendCases, c)
    <3>1. NoValue \in 0..MaxSends
      BY FeedAssumption DEF NoValue
    <3> QED BY <1>2, <3>1, CountWithSend
  <2>4. /\ CountIn(sendCases, c)' = CountIn(WithSend(sendCases, NoValue), c)
        /\ Fresh(c)' => Fresh(c)
    BY <1>1 DEF CountIn, Fresh, With
  <2> QED BY <1>1, <2>2, <2>3, <2>4, SameStream DEF Streams
<1> QED BY <1>2, <1>3 DEF Streams, DropsOver

LEMMA StepStreams ==
  ASSUME OwnChannels, SendInv, Inv', Streams, [Next]_vars
  PROVE  Streams'
<1>0. Inv /\ SendOK /\ ValuesOK
  BY DEF SendInv
<1>1. CASE \E t \in Threads, s \in Subs :
             Subscribe(t, s) \/ Unsubscribe(t, s) \/ UnsubscribeAgain(t, s)
  BY <1>0, <1>1, SubscribeStreams, UnsubscribeStreams, OthersStreams
<1>2. ASSUME NEW t \in Threads, SendCall(t) \/ Step(t) PROVE Streams'
  <2>1. CASE TrySend(t)
    <3>1. /\ idx[t] \in 2..cases[t] /\ pc[t] = "try" /\ pc' = pc
          /\ Deliver(t, idx[t], value[t])
      BY <1>0, <2>1 DEF TrySend, Inv, Inv1, TypeOK, ThreadsOK, PlacesOK
    <3> QED BY <1>0, <3>1, DeliverStreams
  <2>2. CASE SelectSend(t)
    <3>1. PICK k \in 2..cases[t] : Deliver(t, k, sendCases[k].send)
      BY <2>2 DEF SelectSend
    <3>2. /\ pc[t] = "select" /\ pc'[t] = "try"
          /\ \A u \in Threads : u # t => pc'[u] = pc[u]
      BY <1>0, <2>2 DEF SelectSend, Inv, Inv1, TypeOK, ThreadsOK
    <3>3. sendCases[k].send = value[t]
      BY <1>0, <3>2 DEF SendOK, Sending
    <3> QED BY <1>0, <3>1, <3>2, <3>3, DeliverStreams
  <2> QED BY <1>0, <1>2, <2>1, <2>2, OthersStreams, UnsubDeleteStreams, SendMergeStreams,
          SelectRemoveStreams, SendDropStreams, SendReleaseStreams DEF Step
<1>3. CASE (\E c \in Channels : Receive(c)) \/ Quiescent \/ UNCHANGED vars
  <2>1. UNCHANGED <<status, pc, sendCases, inbox, cases, recv, log, out>>
    BY <1>3 DEF Receive, Quiescent, vars, feedVars, sendVars, userVars
  <2>2. Onward
    BY <2>1 DEF Onward
  <2>3. ASSUME NEW c \in Channels
        PROVE  /\ CountIn(sendCases, c)' = CountIn(sendCases, c)
               /\ CountIn(inbox, c)' = CountIn(inbox, c)
    BY <2>1 DEF CountIn
  <2> QED BY <1>0, <2>1, <2>2, <2>3, QuietStreams DEF Fresh
<1> QED BY <1>1, <1>2, <1>3 DEF Next

\* A subscriber with a channel of its own gets every Send from its first one
\* on, in the order in which they took effect, whatever Unsubscribes reorder
\* and shorten the list of cases meanwhile.
THEOREM OrderSafe == OwnChannels /\ Spec => []ConsecutiveDelivery
<1>1. OwnChannels => []OwnChannels
  <2>1. OwnChannels => OwnChannels'
    OBVIOUS
  <2> QED BY <2>1, PTL
<1>2. OwnChannels /\ SendInv /\ SendInv' /\ Streams /\ [Next]_vars => Streams'
  BY StepStreams DEF SendInv
<1>3. SendInv /\ Streams => ConsecutiveDelivery
  <2> SUFFICES ASSUME SendInv, Streams, NEW c \in Channels
               PROVE  \E n \in 0..(Len(log) - Len(out[c])) :
                         out[c] = SubSeq(log, n + 1, n + Len(out[c]))
    BY DEF ConsecutiveDelivery
  <2>1. PICK n : IsRun(out[c], log, n)
    BY DEF Streams, StreamOK
  <2>2. log \in Seq(0..MaxSends) /\ out[c] \in Seq(0..MaxSends)
    BY DEF SendInv, Inv, Inv1, TypeOK, UsersOK
  <2>3. n \in 0..(Len(log) - Len(out[c]))
    BY <2>1, <2>2 DEF IsRun
  <2>4. out[c] = SubSeq(log, n + 1, n + Len(out[c]))
    BY <2>1, <2>2 DEF IsRun
  <2> QED BY <2>3, <2>4
<1> QED BY <1>1, <1>2, <1>3, InitStreams, SendInvInvariant, PTL DEF Spec

-----------------------------------------------------------------------------
(* What the refinement mapping shows *)

\* The subscriptions that are not over are the members.
LEMMA MembersAreLive == Inv => Members = [c \in Channels |-> Live(c)]
<1> SUFFICES ASSUME Inv PROVE Members = [c \in Channels |-> Live(c)]
  OBVIOUS
<1>1. ASSUME NEW c \in Channels
      PROVE  CountIn(inbox, c) + CountIn(sendCases, c) - Drops(c) = Live(c)
  BY Inv2Numbers, NumberTypes, CountTypes DEF Inv
<1> QED BY <1>1 DEF Members, Drops

\* What is on the way, owed and about to be dropped for channel c.
View(v, owed, dropping, c) ==
  Current = v /\ Owed(c) = owed /\ Dropping(c) = dropping

\* While t sends, its value is on the way and its prefix is what is owed.
SenderView ==
  \A t \in Threads, c \in Channels : pc[t] \in Sending =>
     View(value[t], CountIn(Prefix(sendCases, cases[t]), c),
          IF pc[t] = "drop" /\ recv[t] = c THEN {t} ELSE {}, c)

\* While nobody sends, nothing is on the way and nothing is owed.
NoSenderView ==
  (\A t \in Threads : pc[t] \notin Sending) => \A c \in Channels : View(NoValue, 0, {}, c)

LEMMA Sender == Inv => SenderView
<1> SUFFICES ASSUME Inv, NEW t \in Threads, pc[t] \in Sending
             PROVE  /\ Current = value[t]
                    /\ \A c : Owed(c) = CountIn(Prefix(sendCases, cases[t]), c)
                    /\ \A c : Dropping(c) = IF pc[t] = "drop" /\ recv[t] = c THEN {t} ELSE {}
  BY DEF SenderView, View
<1>1. /\ \A u \in Threads : u # t => pc[u] \notin Sending
      /\ IsCaseList(sendCases) /\ cases[t] \in 1..Len(sendCases) /\ Len(sendCases) \in Nat
  BY OneSender DEF Inv, Sending, Holding
<1>2. Current = value[t]
  <2>1. (CHOOSE u \in Threads : pc[u] \in Sending) = t
    BY <1>1
  <2> QED BY <2>1 DEF Current
<1>3. ASSUME NEW c PROVE Owed(c) = CountIn(Prefix(sendCases, cases[t]), c)
  <2>1. /\ DOMAIN sendCases = 1..Len(sendCases)
        /\ DOMAIN Prefix(sendCases, cases[t]) = 1..cases[t]
        /\ \A j \in 1..cases[t] : Prefix(sendCases, cases[t])[j] = sendCases[j]
    BY <1>1, PrefixCase DEF IsCaseList
  <2>2. {k \in DOMAIN sendCases : /\ sendCases[k].ch = c
                                  /\ \E u \in Threads : pc[u] \in Sending /\ k <= cases[u]}
          = {k \in DOMAIN Prefix(sendCases, cases[t]) : Prefix(sendCases, cases[t])[k].ch = c}
    BY <1>1, <2>1
  <2> QED BY <2>2 DEF Owed, CountIn
<1>4. ASSUME NEW c PROVE Dropping(c) = IF pc[t] = "drop" /\ recv[t] = c THEN {t} ELSE {}
  BY <1>1 DEF Dropping, Sending
<1> QED BY <1>2, <1>3, <1>4

LEMMA NoSender == NoSenderView
<1> SUFFICES ASSUME \A t \in Threads : pc[t] \notin Sending
             PROVE  Current = NoValue /\ \A c : Owed(c) = 0 /\ Dropping(c) = {}
  BY DEF NoSenderView, View
<1>1. ASSUME NEW c PROVE Owed(c) = 0
  <2>1. {k \in DOMAIN sendCases : /\ sendCases[k].ch = c
                                  /\ \E t \in Threads : pc[t] \in Sending /\ k <= cases[t]} = {}
    OBVIOUS
  <2> QED BY <2>1, FS_EmptySet DEF Owed
<1>2. ASSUME NEW c PROVE Dropping(c) = {}
  BY DEF Dropping, Sending
<1> QED BY <1>1, <1>2 DEF Current

\* The same after a step.
LEMMA ViewsNext ==
  Inv' => /\ SenderView' /\ NoSenderView'
          /\ Members' = [c \in Channels |-> Live(c)']
<1>1. Inv' => SenderView'
  BY Sender, PTL
<1>2. NoSenderView'
  BY NoSender, PTL
<1>3. Inv' => (Members = [c \in Channels |-> Live(c)])'
  BY MembersAreLive, PTL
<1> QED BY <1>1, <1>2, <1>3

PendingAt(c) == IF Dropping(c) # {} /\ Owed(c) > 0 THEN Owed(c) - 1 ELSE Owed(c)

LEMMA PendingIs == Pending = [c \in Channels |-> PendingAt(c)]
BY DEF Pending, PendingAt

\* Never is more owed to a channel than it has subscriptions in sendCases.
LEMMA PendingBound ==
  ASSUME Inv, NEW c \in Channels
  PROVE  /\ PendingAt(c) \in Nat
         /\ PendingAt(c) <= Live(c)
         /\ CountIn(inbox, c) > 0 => PendingAt(c) < Live(c)
<1>1. /\ CountIn(inbox, c) \in Nat /\ CountIn(sendCases, c) \in Nat
      /\ CountIn(inbox, c) + CountIn(sendCases, c) = Live(c) + Drops(c)
      /\ CountIn(sendCases, c) >= Leaving(c) + Drops(c)
      /\ Live(c) \in Nat /\ Leaving(c) \in Nat /\ Drops(c) \in Nat
  BY Inv2Numbers, NumberTypes, CountTypes DEF Inv
<1>2. CASE \E t \in Threads : pc[t] \in Sending
  <2>1. PICK t \in Threads : pc[t] \in Sending
    BY <1>2
  <2>2. /\ Owed(c) = CountIn(Prefix(sendCases, cases[t]), c)
        /\ Dropping(c) = IF pc[t] = "drop" /\ recv[t] = c THEN {t} ELSE {}
    BY <2>1, Sender DEF SenderView, View
  <2>3. Owed(c) \in Nat /\ Owed(c) <= CountIn(sendCases, c)
    <3>1. IsCaseList(sendCases) /\ cases[t] \in 1..Len(sendCases)
      BY <2>1, OneSender DEF Inv, Sending, Holding
    <3> QED BY <2>2, <3>1, PrefixBound
  <2>4. Drops(c) = IF Dropping(c) # {} THEN 1 ELSE 0
    BY <2>2, FS_EmptySet, FS_Singleton DEF Drops
  <2> QED BY <1>1, <2>3, <2>4 DEF PendingAt
<1>3. CASE ~\E t \in Threads : pc[t] \in Sending
  <2>1. Owed(c) = 0 /\ Dropping(c) = {} /\ Drops(c) = 0
    BY <1>3, NoSender, FS_EmptySet DEF NoSenderView, View, Drops
  <2> QED BY <1>1, <2>1 DEF PendingAt
<1> QED BY <1>2, <1>3

\* Steps that no broadcast in progress notices.
LEMMA QuietStep ==
  ASSUME Inv, Inv', UNCHANGED <<cases, recv>>,
         \A t \in Threads :
            /\ pc'[t] \in Sending <=> pc[t] \in Sending
            /\ pc'[t] = "drop" <=> pc[t] = "drop"
            /\ pc[t] \in Sending => value'[t] = value[t] /\ sendCases' = sendCases
  PROVE  Current' = Current /\ Pending' = Pending
<1>1. ASSUME NEW c \in Channels
      PROVE  Current' = Current /\ Owed(c)' = Owed(c) /\ Dropping(c)' = Dropping(c)
  <2>1. CASE \E t \in Threads : pc[t] \in Sending
    <3>1. PICK t \in Threads : pc[t] \in Sending
      BY <2>1
    <3> QED BY SMTT(30), <3>1, Sender, ViewsNext DEF SenderView, View
  <2>2. CASE ~\E t \in Threads : pc[t] \in Sending
    BY <2>2, NoSender, ViewsNext DEF NoSenderView, View
  <2> QED BY <2>1, <2>2
<1>2. Current' = Current
  <2>1. CASE \E t \in Threads : pc[t] \in Sending
    <3>1. PICK t \in Threads : pc[t] \in Sending
      BY <2>1
    <3>2. \A u \in Threads : pc[u] \in Sending => u = t
      BY <3>1, OneSender DEF Inv, Sending, Holding
    <3>3. Current = value[t] /\ Current' = value'[t]
      BY <3>1, <3>2 DEF Current
    <3> QED BY <3>1, <3>3
  <2>2. CASE ~\E t \in Threads : pc[t] \in Sending
    BY <2>2 DEF Current
  <2> QED BY <2>1, <2>2
<1>3. \A c \in Channels : PendingAt(c)' = PendingAt(c)
  BY <1>1 DEF PendingAt
<1> QED BY <1>2, <1>3 DEF Pending, PendingAt

\* A subscription that changes its status.
LEMMA MembersMove ==
  ASSUME Inv, Inv', NEW s \in Subs, NEW v, status' = [status EXCEPT ![s] = v]
  PROVE  LET c == ChanOf[s]
             before == status[s] \in {"live", "leaving"}
             after == v \in {"live", "leaving"}
         IN  /\ (before <=> after) => Members' = Members
             /\ ~before /\ after => Members' = [Members EXCEPT ![c] = @ + 1]
             /\ before /\ ~after => Members' = [Members EXCEPT ![c] = @ - 1] /\ Live(c) > 0
<1> DEFINE c == ChanOf[s]
           before == status[s] \in {"live", "leaving"}
           after == v \in {"live", "leaving"}
<1>1. /\ Members = [d \in Channels |-> Live(d)]
      /\ Members' = [d \in Channels |-> Live(d)']
  BY MembersAreLive, ViewsNext
<1>2. ASSUME NEW d \in Channels
      PROVE  /\ Live(d) \in Nat
             /\ Live(d)' = Live(d) - (IF c = d /\ before THEN 1 ELSE 0)
                                   + (IF c = d /\ after THEN 1 ELSE 0)
  BY LiveChange, NumberTypes DEF Inv, StatusMoves
<1>3. before => Live(c) > 0
  <2>1. before => s \in With(c, {"live", "leaving"})
    BY DEF With
  <2>2. IsFiniteSet(With(c, {"live", "leaving"}))
    <3>1. With(c, {"live", "leaving"}) \in SUBSET Subs
      BY DEF With
    <3> QED BY <3>1, FeedAssumption, FS_Subset
  <2> QED BY <2>1, <2>2, NumberTypes, FS_EmptySet DEF Live
<1> HIDE DEF c, before, after
<1>4. /\ (before <=> after) => Members' = Members
      /\ ~before /\ after => Members' = [Members EXCEPT ![c] = @ + 1]
      /\ before /\ ~after => Members' = [Members EXCEPT ![c] = @ - 1]
  <2>1. CASE before <=> after
    <3>1. \A d \in Channels : Live(d)' = Live(d)
      BY <1>2, <2>1
    <3> QED BY <1>1, <2>1, <3>1
  <2>2. CASE ~before /\ after
    <3>1. \A d \in Channels : Live(d)' = IF d = c THEN Live(d) + 1 ELSE Live(d)
      BY <1>2, <2>2
    <3> QED BY <1>1, <2>2, <3>1
  <2>3. CASE before /\ ~after
    <3>1. \A d \in Channels : Live(d)' = IF d = c THEN Live(d) - 1 ELSE Live(d)
      BY <1>2, <2>3
    <3> QED BY <1>1, <2>3, <3>1
  <2> QED BY <2>1, <2>2, <2>3
<1> QED BY <1>3, <1>4 DEF c, before, after

\* A subscription that is over.
LEMMA MembersLeave ==
  ASSUME Inv, Inv', NEW s \in Subs, status[s] \in {"live", "leaving"},
         status' = [status EXCEPT ![s] = "left"], NEW c, c = ChanOf[s]
  PROVE  Members' = [Members EXCEPT ![c] = @ - 1] /\ Live(c) > 0
<1>1. "left" \notin {"live", "leaving"}
  OBVIOUS
<1> QED BY <1>1, MembersMove

LEMMA MembersStay ==
  ASSUME Inv, Inv', UNCHANGED status
  PROVE  Members' = Members
<1>1. \A d \in Channels : Live(d)' = Live(d)
  BY SameStatus
<1> QED BY <1>1, MembersAreLive, ViewsNext

-----------------------------------------------------------------------------
(* Every step of Feed is a step of FeedBroadcast *)

\* A step that FeedBroadcast does not see.
Invisible == UNCHANGED <<Members, Pending, Current, out>>

\* Subscribe joins, also while a broadcast is in progress, which owes the new
\* subscription nothing.
LEMMA SubscribeJoins ==
  ASSUME Inv, Inv', NEW t \in Threads, NEW s \in Subs, Subscribe(t, s)
  PROVE  Broadcast!Join(ChanOf[s])
<1>1. \A u \in Threads : pc[u] \in Sending => sendCases' = sendCases
  BY DEF Subscribe, InitOnce, Inv, Inv1, PlacesOK, Holding, Sending
<1>2. Current' = Current /\ Pending' = Pending
  BY <1>1, QuietStep DEF Subscribe, sendVars
<1>3. Members' = [Members EXCEPT ![ChanOf[s]] = @ + 1]
  BY MembersMove DEF Subscribe
<1> QED BY <1>2, <1>3 DEF Broadcast!Join, Subscribe, userVars

\* A subscription that is still in the inbox leaves at once.
LEMMA UnsubscribeLeaves ==
  ASSUME Inv, Inv', NEW t \in Threads, NEW s \in Subs, Unsubscribe(t, s)
  PROVE  Broadcast!Leave(ChanOf[s]) \/ Invisible
<1> DEFINE c == ChanOf[s]
<1>1. c \in Channels /\ status[s] = "live"
  BY FeedAssumption DEF Unsubscribe
<1>2. Current' = Current /\ Pending' = Pending
  <2>1. \A u \in Threads : /\ pc'[u] \in Sending <=> pc[u] \in Sending
                           /\ pc'[u] = "drop" <=> pc[u] = "drop"
    BY DEF Unsubscribe, Inv, Inv1, TypeOK, ThreadsOK, Sending
  <2> QED BY <2>1, QuietStep DEF Unsubscribe, sendVars
<1>3. CASE InInbox(s) # 0
  <2>1. status' = [status EXCEPT ![s] = "left"]
    BY <1>3 DEF Unsubscribe
  <2>2. Members' = [Members EXCEPT ![c] = @ - 1] /\ Live(c) > 0
    BY <1>1, <2>1, MembersLeave
  <2>3. PendingAt(c) < Live(c)
    BY <1>1, <1>3, CountTypes, PendingBound DEF InInbox, Inv
  <2>4. Members[c] = Live(c) /\ Pending[c] = PendingAt(c)
    BY <1>1, MembersAreLive, PendingIs
  <2> QED BY <1>2, <2>2, <2>3, <2>4 DEF Broadcast!Leave, Unsubscribe, userVars
<1>4. CASE InInbox(s) = 0
  <2>1. status' = [status EXCEPT ![s] = "leaving"]
    BY <1>4 DEF Unsubscribe
  <2>2. Members' = Members
    BY <1>1, <2>1, MembersMove
  <2> QED BY <1>2, <2>2 DEF Invisible, Unsubscribe, userVars
<1> QED BY <1>3, <1>4

\* remove() has the lock: no broadcast is in progress.
LEMMA UnsubDeleteLeaves ==
  ASSUME Inv, Inv', NEW t \in Threads, UnsubDelete(t)
  PROVE  Broadcast!Leave(ChanOf[sub[t]])
<1> DEFINE s == sub[t]
           c == ChanOf[s]
<1>1. /\ pc[t] = "unlist" /\ s \in Subs /\ c \in Channels /\ status[s] = "leaving"
      /\ \A u \in Threads : pc[u] \notin Sending
      /\ \A u \in Threads : pc'[u] \notin Sending
  BY SMTT(30),
     FeedAssumption DEF UnsubDelete, Inv, Inv1, TypeOK, ThreadsOK, LockDiscipline, PlacesOK,
     Inv2, EndingOK, Ending, Holding, Sending
<1>2. Current' = Current /\ Pending' = Pending
  <2>1. \A u \in Threads : pc'[u] = "drop" <=> pc[u] = "drop"
    BY <1>1 DEF Sending
  <2> QED BY <1>1, <2>1, QuietStep DEF UnsubDelete, sendVars
<1>3. Members' = [Members EXCEPT ![c] = @ - 1] /\ Live(c) > 0
  <2>1. status' = [status EXCEPT ![s] = "left"]
    BY DEF UnsubDelete
  <2> QED BY <1>1, <2>1, MembersLeave
<1>4. Members[c] = Live(c) /\ Pending[c] = 0
  <2>1. PendingAt(c) = 0
    BY <1>1, NoSender DEF NoSenderView, View, PendingAt
  <2> QED BY <1>1, <2>1, MembersAreLive, PendingIs
<1> QED BY <1>3, <1>2, <1>4 DEF Broadcast!Leave, UnsubDelete, userVars

\* The broadcast in progress takes note: it owes one delivery less if it had
\* not served all subscriptions of the channel.
LEMMA SelectRemoveLeaves ==
  ASSUME Inv, Inv', NEW t \in Threads, NEW u \in Threads, SelectRemove(t, u)
  PROVE  Broadcast!Leave(ChanOf[sub[u]])
<1> DEFINE s == sub[u]
           c == ChanOf[s]
<1>1. /\ pc[t] = "select" /\ pc[u] = "unselect" /\ t # u
      /\ s \in Subs /\ c \in Channels /\ status[s] = "leaving"
      /\ pc'[t] = "drop" /\ recv'[t] = c
  BY FeedAssumption DEF SelectRemove, Inv, Inv1, TypeOK, ThreadsOK, PlacesOK, Inv2, EndingOK, Ending
<1>2. UNCHANGED <<value, cases, sendCases, out>>
  BY DEF SelectRemove, feedVars, userVars
<1>3. Members' = [Members EXCEPT ![c] = @ - 1] /\ Live(c) > 0
  <2>1. status' = [status EXCEPT ![s] = "left"]
    BY DEF SelectRemove
  <2> QED BY <1>1, <2>1, MembersLeave
<1>4. pc[t] \in Sending /\ pc'[t] \in Sending
  BY <1>1 DEF Sending
<1>5. ASSUME NEW d \in Channels
      PROVE  /\ Current' = Current /\ Owed(d)' = Owed(d)
             /\ Dropping(d) = {}
             /\ Dropping(d)' = IF c = d THEN {t} ELSE {}
  BY <1>1, <1>2, <1>4, Sender, ViewsNext DEF SenderView, View
<1>6. \A d \in Channels : PendingAt(d)' = IF d = c /\ Owed(c) > 0 THEN PendingAt(d) - 1 ELSE PendingAt(d)
  BY <1>5 DEF PendingAt
<1>7. Owed(c) = PendingAt(c) /\ PendingAt(c) \in Nat
  BY <1>1, <1>5, PendingBound DEF PendingAt
<1>8. /\ Members[c] = Live(c) /\ Pending[c] = PendingAt(c)
      /\ Pending = [d \in Channels |-> PendingAt(d)]
      /\ Pending' = [d \in Channels |-> PendingAt(d)']
  BY <1>1, MembersAreLive, PendingIs DEF Pending, PendingAt
<1>9. Current' = Current
  BY <1>1, <1>5
<1> HIDE DEF c, s
<1>10. CASE PendingAt(c) > 0
  <2>1. Pending' = [Pending EXCEPT ![c] = @ - 1]
    BY <1>6, <1>7, <1>8, <1>10
  <2> QED BY <1>2, <1>3, <1>8, <1>9, <1>10, <2>1 DEF Broadcast!Leave, c, s
<1>11. CASE PendingAt(c) = 0
  <2>1. Pending' = Pending
    BY <1>6, <1>7, <1>8, <1>11
  <2> QED BY <1>2, <1>3, <1>8, <1>9, <1>11, <2>1 DEF Broadcast!Leave, c, s
<1> QED BY <1>7, <1>10, <1>11

\* The merge of the inbox begins the broadcast: it owes the value once to
\* each subscription there is.
LEMMA SendMergeBegins ==
  ASSUME Inv, Inv', SendOK, NEW t \in Threads, SendMerge(t)
  PROVE  value[t] \in 1..MaxSends /\ Broadcast!Begin(value[t])
<1>1. pc[t] = "merge" /\ pc[t] \in Holding /\ pc[t] \in Valued /\ pc[t] \notin Sending
  BY DEF SendMerge, Holding, Valued, Sending
<1>2. value[t] \in 1..MaxSends /\ value' = value
  BY <1>1 DEF SendOK, SendMerge
<1>3. /\ \A u \in Threads : pc[u] \notin Sending
      /\ IsCaseList(sendCases)
  BY <1>1, OneSender DEF Inv
<1>4. /\ pc'[t] = "try" /\ pc'[t] \in Sending
      /\ cases'[t] = Len(sendCases) + Len(inbox)
      /\ sendCases' = WithSend(sendCases \o inbox, value[t])
  BY DEF SendMerge, Inv, Inv1, TypeOK, ThreadsOK, Sending
<1>5. inbox \in Seq({Case(d) : d \in Channels})
  BY DEF Inv, Inv1, TypeOK, ListsOK
<1>6. /\ IsCaseList(sendCases \o inbox) /\ IsCaseList(sendCases')
      /\ Len(sendCases') = cases'[t]
  <2>1. /\ IsCaseList(sendCases \o inbox)
        /\ Len(sendCases \o inbox) = Len(sendCases) + Len(inbox)
    BY <1>3, <1>5, MergeCase
  <2>2. value[t] \in 0..MaxSends
    BY <1>2
  <2> QED BY <1>4, <2>1, <2>2, WithSendCase
<1>7. ASSUME NEW d \in Channels
      PROVE  Current = NoValue /\ Current' = value[t] /\ PendingAt(d)' = Live(d)
  <2>1. Current = NoValue /\ Dropping(d) = {} /\ Drops(d) = 0
    BY <1>3, NoSender, FS_EmptySet DEF NoSenderView, View, Drops
  <2>2. /\ Current' = value[t] /\ Dropping(d)' = {}
        /\ Owed(d)' = CountIn(Prefix(sendCases', Len(sendCases')), d)
    BY <1>2, <1>4, <1>6, ViewsNext DEF SenderView, View
  <2>3. CountIn(Prefix(sendCases', Len(sendCases')), d) = CountIn(sendCases', d)
    BY <1>6, PrefixWhole
  <2>4. CountIn(WithSend(sendCases \o inbox, value[t]), d) = CountIn(sendCases \o inbox, d)
    BY <1>2, <1>6, CountWithSend
  <2>5. CountIn(sendCases \o inbox, d) = CountIn(sendCases, d) + CountIn(inbox, d)
    <3> DEFINE S == Cases \cup {Case(RemoveSub)} \cup {Case(e) : e \in Channels}
    <3>1. sendCases \in Seq(S) /\ inbox \in Seq(S)
      BY <1>3, <1>5 DEF IsCaseList
    <3> HIDE DEF S
    <3> QED BY <3>1, CountConcat
  <2>6. CountIn(sendCases', d) = CountIn(inbox, d) + CountIn(sendCases, d)
    BY <1>4, <2>4, <2>5, CountTypes DEF Inv
  <2>7. CountIn(inbox, d) + CountIn(sendCases, d) = Live(d)
    BY <2>1, Inv2Numbers, NumberTypes DEF Inv
  <2> QED BY <2>1, <2>2, <2>3, <2>6, <2>7 DEF PendingAt
<1>8. Pending' = Members
  <2>1. Pending' = [d \in Channels |-> PendingAt(d)']
    BY DEF Pending, PendingAt
  <2> QED BY <1>7, <2>1, MembersAreLive
<1>9. Members' = Members
  BY MembersStay DEF SendMerge
<1>10. Current = NoValue /\ Current' = value[t]
  <2>1. Current = NoValue
    BY <1>3 DEF Current
  <2>2. \A u \in Threads : pc'[u] \in Sending => u = t
    BY <1>3, <1>4 DEF SendMerge, Inv, Inv1, TypeOK, ThreadsOK
  <2> QED BY <1>2, <1>4, <2>1, <2>2 DEF Current
<1> QED BY <1>2, <1>8, <1>9, <1>10 DEF Broadcast!Begin, SendMerge

\* A delivery, in the fast path or after Select, is one that is owed, and it
\* is owed no more.
LEMMA DeliverDelivers ==
  ASSUME Inv, Inv', SendOK, NEW t \in Threads, pc[t] \in {"try", "select"}, pc'[t] = "try",
         NEW k \in 2..cases[t], Deliver(t, k, value[t])
  PROVE  sendCases[k].ch \in Channels /\ Broadcast!Deliver(sendCases[k].ch)
<1> DEFINE c == sendCases[k].ch
           n == cases[t]
<1>1. /\ pc[t] \in Sending /\ pc[t] # "drop" /\ pc'[t] \in Sending /\ pc'[t] # "drop"
      /\ pc[t] \in Holding /\ pc[t] \in Valued
  BY DEF Sending, Holding, Valued
<1>2. IsCaseList(sendCases) /\ Len(sendCases) \in Nat /\ n \in 2..Len(sendCases)
  BY <1>1, OneSender DEF Inv
<1>3. c \in Channels
  <2>1. k \in 2..Len(sendCases)
    BY <1>2
  <2> QED BY <1>2, <2>1, CaseListChannels
<1>4. /\ value' = value /\ cases'[t] = n - 1
      /\ sendCases' = Deactivate(sendCases, k, n)
      /\ out' = [out EXCEPT ![c] = Append(@, value[t])]
  BY DEF Deliver, Inv, Inv1, TypeOK, ThreadsOK
<1>5. value[t] # NoValue
  BY <1>1 DEF SendOK, NoValue
<1> HIDE DEF c
<1>6. ASSUME NEW d \in Channels
      PROVE  /\ Current = value[t] /\ Current' = value[t]
             /\ PendingAt(d) = CountIn(Prefix(sendCases, n), d)
             /\ PendingAt(d)' = PendingAt(d) - (IF d = c THEN 1 ELSE 0)
             /\ d = c => PendingAt(d) > 0
  <2>1. /\ Current = value[t] /\ Dropping(d) = {}
        /\ Owed(d) = CountIn(Prefix(sendCases, n), d)
    BY <1>1, Sender DEF SenderView, View
  <2>2. /\ Current' = value[t] /\ Dropping(d)' = {}
        /\ Owed(d)' = CountIn(Prefix(Deactivate(sendCases, k, n), n - 1), d)
    BY <1>1, <1>4, ViewsNext DEF SenderView, View
  <2>3. CountIn(Prefix(Deactivate(sendCases, k, n), n - 1), d)
          = CountIn(Prefix(sendCases, n), d) - (IF d = c THEN 1 ELSE 0)
    BY <1>2, PrefixDeactivate DEF c
  <2>4. d = c => CountIn(Prefix(sendCases, n), d) > 0
    <3>1. /\ IsCaseList(Prefix(sendCases, n)) /\ Len(Prefix(sendCases, n)) = n
          /\ Prefix(sendCases, n)[k] = sendCases[k]
      <4>1. n \in 1..Len(sendCases) /\ k \in 1..n
        BY <1>2
      <4> QED BY <1>2, <4>1, PrefixCase
    <3>2. Prefix(sendCases, n) \in Seq(Cases \cup {Case(RemoveSub)}) /\ k \in 1..Len(Prefix(sendCases, n))
      BY <3>1 DEF IsCaseList
    <3> QED BY <3>1, <3>2, CountType DEF c
  <2> QED BY <2>1, <2>2, <2>3, <2>4 DEF PendingAt
<1>7. /\ Pending = [d \in Channels |-> PendingAt(d)]
      /\ Pending' = [d \in Channels |-> PendingAt(d)']
  BY DEF Pending, PendingAt
<1>8. Pending' = [Pending EXCEPT ![c] = @ - 1] /\ Pending[c] > 0
  <2>1. ASSUME NEW d \in Channels
        PROVE  PendingAt(d)' = IF d = c THEN PendingAt(d) - 1 ELSE PendingAt(d)
    BY <1>6, PendingBound
  <2> QED BY <1>3, <1>6, <1>7, <2>1
<1>9. Members' = Members
  BY MembersStay DEF Deliver
<1>10. Current = value[t] /\ Current' = value[t]
  BY <1>3, <1>6
<1>11. out' = [out EXCEPT ![c] = Append(@, Current)]
  BY <1>4, <1>10
<1> QED BY <1>3, <1>5, <1>8, <1>9, <1>10, <1>11 DEF Broadcast!Deliver, c

LEMMA TrySendDelivers ==
  ASSUME Inv, Inv', SendOK, NEW t \in Threads, TrySend(t)
  PROVE  \E c \in Channels : Broadcast!Deliver(c)
<1>1. /\ idx[t] \in 2..cases[t] /\ pc[t] = "try" /\ pc'[t] = "try"
      /\ Deliver(t, idx[t], value[t])
  BY DEF TrySend, Inv, Inv1, TypeOK, ThreadsOK, PlacesOK
<1> QED BY <1>1, DeliverDelivers

\* Select sends what the case carries: the value of this Send.
LEMMA SelectSendDelivers ==
  ASSUME Inv, Inv', SendOK, NEW t \in Threads, SelectSend(t)
  PROVE  \E c \in Channels : Broadcast!Deliver(c)
<1>1. PICK k \in 2..cases[t] : Deliver(t, k, sendCases[k].send)
  BY DEF SelectSend
<1>2. pc[t] = "select" /\ pc'[t] = "try"
  BY DEF SelectSend, Inv, Inv1, TypeOK, ThreadsOK
<1>3. sendCases[k].send = value[t]
  BY <1>2 DEF SendOK, Sending
<1> QED BY <1>1, <1>2, <1>3, DeliverDelivers

\* The case of a subscription that is over is deleted, from the prefix too if
\* it is owed the value: what is owed was reduced when the subscription left.
LEMMA SendDropInvisible ==
  ASSUME Inv, Inv', NEW t \in Threads, SendDrop(t)
  PROVE  Invisible
<1> DEFINE c == recv[t]
           n == cases[t]
           m == Shrunk(n, Find(sendCases, c))
<1>1. /\ pc[t] = "drop" /\ pc[t] \in Sending /\ pc[t] \in Holding /\ c \in Channels
      /\ pc'[t] = "try" /\ pc'[t] \in Sending
  BY DEF SendDrop, Sending, Holding, Inv, Inv1, TypeOK, ThreadsOK, PlacesOK
<1>2. IsCaseList(sendCases) /\ n \in 1..Len(sendCases)
  BY <1>1, OneSender DEF Inv
<1>3. Find(sendCases, c) # 0
  BY <1>1, FindsCase DEF Inv, RemovalFindsCase
<1>4. /\ value' = value /\ cases'[t] = m
      /\ sendCases' = Delete(sendCases, c) /\ out' = out /\ status' = status
  BY DEF SendDrop, Inv, Inv1, TypeOK, ThreadsOK, userVars
<1> HIDE DEF m
<1>5. ASSUME NEW d \in Channels
      PROVE  Current' = Current /\ PendingAt(d)' = PendingAt(d)
  <2>1. /\ Current = value[t] /\ Dropping(d) = IF d = c THEN {t} ELSE {}
        /\ Owed(d) = CountIn(Prefix(sendCases, n), d)
    BY <1>1, Sender DEF SenderView, View
  <2>2. /\ Current' = value[t] /\ Dropping(d)' = {}
        /\ Owed(d)' = CountIn(Prefix(Delete(sendCases, c), m), d)
    BY <1>1, <1>4, ViewsNext DEF SenderView, View
  <2>3. CountIn(Prefix(Delete(sendCases, c), m), d)
          = CountIn(Prefix(sendCases, n), d)
              - (IF d = c /\ CountIn(Prefix(sendCases, n), c) > 0 THEN 1 ELSE 0)
    BY <1>1, <1>2, <1>3, PrefixDelete DEF m
  <2>4. CountIn(Prefix(sendCases, n), d) \in Nat
    BY <1>2, PrefixBound
  <2> QED BY <2>1, <2>2, <2>3, <2>4 DEF PendingAt
<1>6. Pending' = Pending
  <2>1. /\ Pending = [d \in Channels |-> PendingAt(d)]
        /\ Pending' = [d \in Channels |-> PendingAt(d)']
    BY DEF Pending, PendingAt
  <2> QED BY <1>5, <2>1
<1> QED BY <1>1, <1>4, <1>5, <1>6, MembersStay DEF Invisible

\* Send returns when nothing is owed any more.
LEMMA SendReleaseEnds ==
  ASSUME Inv, Inv', SendOK, NEW t \in Threads, SendRelease(t)
  PROVE  Broadcast!End
<1>1. /\ pc[t] = "release" /\ pc[t] \in Sending /\ pc[t] \in Holding /\ pc[t] \in Valued
      /\ pc'[t] = "idle"
  BY DEF SendRelease, Sending, Holding, Valued, Inv, Inv1, TypeOK, ThreadsOK
<1>2. /\ IsCaseList(sendCases)
      /\ \A u \in Threads : u # t => pc[u] \notin Sending
  BY <1>1, OneSender DEF Inv
<1>3. \A u \in Threads : pc'[u] \notin Sending
  BY <1>1, <1>2 DEF SendRelease, Inv, Inv1, TypeOK, ThreadsOK, Sending
<1>4. value[t] # NoValue /\ cases[t] = 1
  BY <1>1 DEF SendOK, NoValue
<1>5. Current = value[t] /\ Current' = NoValue
  <2>1. (CHOOSE u \in Threads : pc[u] \in Sending) = t
    BY <1>1, <1>2
  <2> QED BY <1>1, <1>3, <2>1 DEF Current
<1>6. ASSUME NEW d \in Channels
      PROVE  PendingAt(d) = 0 /\ PendingAt(d)' = 0
  <2>1. Dropping(d) = {} /\ Owed(d) = CountIn(Prefix(sendCases, 1), d)
    BY <1>1, <1>4, Sender DEF SenderView, View
  <2>2. Dropping(d)' = {} /\ Owed(d)' = 0
    BY <1>3, ViewsNext DEF NoSenderView, View
  <2> QED BY <1>2, <2>1, <2>2, PrefixOfOne DEF PendingAt
<1>7. /\ \A d \in Channels : Pending[d] = 0
      /\ Pending' = Pending
  <2>1. /\ Pending = [d \in Channels |-> PendingAt(d)]
        /\ Pending' = [d \in Channels |-> PendingAt(d)']
    BY DEF Pending, PendingAt
  <2> QED BY <1>6, <2>1
<1>8. Members' = Members
  BY MembersStay DEF SendRelease
<1> QED BY <1>4, <1>5, <1>7, <1>8 DEF Broadcast!End, SendRelease, userVars

\* Locks, waiting and calls are invisible.
LEMMA OthersInvisible ==
  ASSUME Inv, Inv', NEW t \in Threads,
         \/ OnceReturn(t) \/ UnsubTakeLock(t) \/ UnsubHandOff(t) \/ UnsubUnlock(t) \/ UnsubClose(t)
         \/ SendCall(t) \/ SendAcquire(t) \/ TrySendFull(t) \/ TryDone(t)
         \/ \E s \in Subs : UnsubscribeAgain(t, s)
  PROVE  Invisible
<1> USE DEF Inv, Inv1, TypeOK, ThreadsOK, Sending, Invisible
<1>1. CASE OnceReturn(t) \/ UnsubTakeLock(t) \/ UnsubHandOff(t) \/ UnsubUnlock(t) \/ SendAcquire(t)
  <2>1. UNCHANGED <<status, out, cases, recv, value, sendCases>>
    BY <1>1
    DEF OnceReturn, UnsubTakeLock, UnsubHandOff, UnsubUnlock, SendAcquire, sendVars, feedVars, userVars
  <2>2. \A u \in Threads : /\ pc'[u] \in Sending <=> pc[u] \in Sending
                           /\ pc'[u] = "drop" <=> pc[u] = "drop"
    BY <1>1 DEF OnceReturn, UnsubTakeLock, UnsubHandOff, UnsubUnlock, SendAcquire
  <2> QED BY <2>1, <2>2, QuietStep, MembersStay
<1>2. CASE TrySendFull(t) \/ TryDone(t)
  <2>1. UNCHANGED <<status, out, cases, recv, value, sendCases>>
    BY <1>2 DEF TrySendFull, TryDone, sendVars, feedVars, userVars
  <2>2. \A u \in Threads : /\ pc'[u] \in Sending <=> pc[u] \in Sending
                           /\ pc'[u] = "drop" <=> pc[u] = "drop"
    BY <1>2 DEF TrySendFull, TryDone
  <2> QED BY <2>1, <2>2, QuietStep, MembersStay
<1>3. CASE SendCall(t)
  <2>1. UNCHANGED <<status, out, cases, recv>>
    BY <1>3 DEF SendCall, userVars
  <2>2. \A u \in Threads : /\ pc'[u] \in Sending <=> pc[u] \in Sending
                           /\ pc'[u] = "drop" <=> pc[u] = "drop"
                           /\ pc[u] \in Sending => value'[u] = value[u] /\ sendCases' = sendCases
    BY <1>3 DEF SendCall, InitOnce, PlacesOK, Holding
  <2> QED BY <2>1, <2>2, QuietStep, MembersStay
<1>4. ASSUME NEW s \in Subs, UnsubscribeAgain(t, s) PROVE Invisible
  <2>1. UNCHANGED <<status, out, cases, recv, value, sendCases>>
    BY <1>4 DEF UnsubscribeAgain, sendVars, feedVars, userVars
  <2>2. \A u \in Threads : /\ pc'[u] \in Sending <=> pc[u] \in Sending
                           /\ pc'[u] = "drop" <=> pc[u] = "drop"
    BY <1>4 DEF UnsubscribeAgain
  <2> QED BY <2>1, <2>2, QuietStep, MembersStay
<1>5. CASE UnsubClose(t)
  <2>1. sub[t] \in Subs /\ status[sub[t]] = "left" /\ status' = [status EXCEPT ![sub[t]] = "closed"]
    BY <1>5 DEF UnsubClose, PlacesOK, Inv2, EndingOK, Ending
  <2>2. "left" \notin {"live", "leaving"} /\ "closed" \notin {"live", "leaving"}
    OBVIOUS
  <2>3. Members' = Members
    BY <2>1, <2>2, MembersMove
  <2>4. UNCHANGED <<out, cases, recv, value, sendCases>>
    BY <1>5 DEF UnsubClose, sendVars, feedVars, userVars
  <2>5. \A u \in Threads : /\ pc'[u] \in Sending <=> pc[u] \in Sending
                           /\ pc'[u] = "drop" <=> pc[u] = "drop"
    BY <1>5 DEF UnsubClose
  <2> QED BY <2>3, <2>4, <2>5, QuietStep
<1> QED BY <1>1, <1>2, <1>3, <1>4, <1>5

\* Receivers, and steps that change nothing.
LEMMA ReceiveInvisible ==
  ASSUME Inv, Inv', UNCHANGED <<pc, status, out, value, cases, recv, sendCases>>
  PROVE  Invisible
BY QuietStep, MembersStay DEF Invisible

LEMMA StepRefines ==
  Inv /\ Inv' /\ SendOK /\ [Next]_vars => [Broadcast!Next]_(Broadcast!vars)
<1> SUFFICES ASSUME Inv, Inv', SendOK, [Next]_vars
             PROVE  Broadcast!Next \/ Invisible
  BY DEF Invisible, Broadcast!vars
<1>1. ASSUME NEW t \in Threads, NEW s \in Subs,
             Subscribe(t, s) \/ Unsubscribe(t, s) \/ UnsubscribeAgain(t, s)
      PROVE  Broadcast!Next \/ Invisible
  <2>1. ChanOf[s] \in Channels
    BY FeedAssumption
  <2> QED BY <1>1, <2>1, SubscribeJoins, UnsubscribeLeaves, OthersInvisible DEF Broadcast!Next
<1>2. ASSUME NEW t \in Threads, SendCall(t) \/ Step(t)
      PROVE  Broadcast!Next \/ Invisible
  <2>1. CASE UnsubDelete(t)
    <3>1. ChanOf[sub[t]] \in Channels
      BY <2>1, FeedAssumption DEF UnsubDelete, Inv, Inv1, PlacesOK
    <3> QED BY <2>1, <3>1, UnsubDeleteLeaves DEF Broadcast!Next
  <2>2. ASSUME NEW u \in Threads, SelectRemove(t, u)
        PROVE  Broadcast!Next
    <3>1. ChanOf[sub[u]] \in Channels
      BY <2>2, FeedAssumption DEF SelectRemove, Inv, Inv1, PlacesOK
    <3> QED BY <2>2, <3>1, SelectRemoveLeaves DEF Broadcast!Next
  <2>3. CASE SendMerge(t)
    BY <2>3, SendMergeBegins DEF Broadcast!Next
  <2>4. CASE TrySend(t) \/ SelectSend(t)
    BY <2>4, TrySendDelivers, SelectSendDelivers DEF Broadcast!Next
  <2>5. CASE SendDrop(t)
    BY <2>5, SendDropInvisible
  <2>6. CASE SendRelease(t)
    BY <2>6, SendReleaseEnds DEF Broadcast!Next
  <2> QED BY <1>2, <2>1, <2>2, <2>3, <2>4, <2>5, <2>6, OthersInvisible DEF Step
<1>3. CASE \E c \in Channels : Receive(c)
  BY <1>3, ReceiveInvisible DEF Receive, feedVars, sendVars
<1>4. CASE Quiescent \/ UNCHANGED vars
  BY <1>4, ReceiveInvisible DEF Quiescent, vars, feedVars, sendVars, userVars
<1> QED BY <1>1, <1>2, <1>3, <1>4 DEF Next

LEMMA InitRefines == Init => Broadcast!Init
<1> SUFFICES ASSUME Init PROVE Broadcast!Init
  OBVIOUS
<1>1. \A t \in Threads : pc[t] \notin Sending
  BY DEF Init, Sending
<1>2. Current = NoValue
  BY <1>1 DEF Current
<1>3. ASSUME NEW c \in Channels
      PROVE  /\ Owed(c) = 0 /\ Dropping(c) = {} /\ Drops(c) = 0
             /\ CountIn(inbox, c) = 0 /\ CountIn(sendCases, c) = 0
  BY <1>1, NoSender, CountEmpty, FS_EmptySet DEF NoSenderView, View, Drops, Init
<1>4. Members = [c \in Channels |-> 0]
  BY <1>3 DEF Members, Drops
<1>5. Pending = [c \in Channels |-> 0]
  BY <1>3 DEF Pending
<1> QED BY <1>2, <1>4, <1>5 DEF Init, Broadcast!Init

-----------------------------------------------------------------------------
(* The theorem *)

\* Whatever its goroutines do, the feed behaves as FeedBroadcast: a Send
\* delivers its value once for each subscription it began with, unless that
\* one ends first, to no other, and returns when nothing is owed; a
\* subscription that ends while its Send is under way takes with it one
\* delivery its channel is still owed, if there is one.
THEOREM Implements == Spec => ImplementsBroadcast
<1>1. Init => Broadcast!Init
  BY InitRefines
<1>2. Inv /\ Inv' /\ SendOK /\ [Next]_vars => [Broadcast!Next]_(Broadcast!vars)
  BY StepRefines
<1> QED BY <1>1, <1>2, SendInvariance, PTL DEF Spec, ImplementsBroadcast, Broadcast!Spec

=============================================================================
