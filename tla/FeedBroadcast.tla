--------------------------- MODULE FeedBroadcast ---------------------------
(***************************************************************************)
(* What FeedOf[T] promises, without its locks, its lists and its select:   *)
(* a bag of subscribed channels and one broadcast at a time.  A broadcast  *)
(* takes the bag as it is when it begins and delivers its value once for   *)
(* every subscription in it.  A channel may join while a broadcast is in   *)
(* progress without being owed its value, and a channel that leaves is     *)
(* owed nothing any more.                                                  *)
(***************************************************************************)
EXTENDS Naturals, Sequences

CONSTANTS
  Channels,   \* user channels
  Values,     \* values that are sent
  NoValue     \* the value of current between two broadcasts

VARIABLES
  members,    \* subscriptions of each channel
  pending,    \* deliveries each channel is owed by the current broadcast
  current,    \* value of the current broadcast
  delivered   \* everything delivered to each channel so far

vars == <<members, pending, current, delivered>>

Init ==
  /\ members = [c \in Channels |-> 0]
  /\ pending = [c \in Channels |-> 0]
  /\ current = NoValue
  /\ delivered = [c \in Channels |-> <<>>]

Join(c) ==
  /\ members' = [members EXCEPT ![c] = @ + 1]
  /\ UNCHANGED <<pending, current, delivered>>

\* One subscription of c ends: one that is still owed the value, if any is
\* left, or one that is not.
Leave(c) ==
  /\ members[c] > 0
  /\ members' = [members EXCEPT ![c] = @ - 1]
  /\ \/ /\ pending[c] > 0
        /\ pending' = [pending EXCEPT ![c] = @ - 1]
     \/ /\ pending[c] < members[c]
        /\ UNCHANGED pending
  /\ UNCHANGED <<current, delivered>>

Begin(v) ==
  /\ current = NoValue
  /\ current' = v
  /\ pending' = members
  /\ UNCHANGED <<members, delivered>>

Deliver(c) ==
  /\ current # NoValue
  /\ pending[c] > 0
  /\ delivered' = [delivered EXCEPT ![c] = Append(@, current)]
  /\ pending' = [pending EXCEPT ![c] = @ - 1]
  /\ UNCHANGED <<members, current>>

End ==
  /\ current # NoValue
  /\ \A c \in Channels : pending[c] = 0
  /\ current' = NoValue
  /\ UNCHANGED <<members, pending, delivered>>

Next ==
  \/ \E c \in Channels : Join(c) \/ Leave(c) \/ Deliver(c)
  \/ \E v \in Values : Begin(v)
  \/ End

Spec == Init /\ [][Next]_vars

=============================================================================
