------------------------------ MODULE Delivery ------------------------------
(***************************************************************************)
(* What the notification service promises the channels of the messages in  *)
(* the stream, without deliveries, buffers, acks in flight, broken links   *)
(* or restarts: each is shown to every channel at least once before it is  *)
(* done with, and to none more than MaxDeliver times.                      *)
(***************************************************************************)
EXTENDS Naturals, Sequences

CONSTANTS Channels, MaxMsgs, Malformed, MaxDeliver

VARIABLES
  stored,  \* messages 1..stored are in the stream
  shown,   \* message -> channel -> how often it was shown
  done     \* the messages that need no more showing

Init ==
  /\ stored = 0
  /\ shown = [m \in 1..MaxMsgs |-> [i \in 1..Len(Channels) |-> 0]]
  /\ done = {}

Publish ==
  /\ stored < MaxMsgs
  /\ stored' = stored + 1
  /\ UNCHANGED <<shown, done>>

\* A channel is shown what is in the stream and can be read.
Show(m, i) ==
  /\ m <= stored /\ m \notin Malformed /\ shown[m][i] < MaxDeliver
  /\ shown' = [shown EXCEPT ![m][i] = @ + 1]
  /\ UNCHANGED <<stored, done>>

\* Only what nobody can read is done with unseen.
Retire(m) ==
  /\ m <= stored
  /\ m \in Malformed \/ \A i \in 1..Len(Channels) : shown[m][i] > 0
  /\ done' = done \cup {m}
  /\ UNCHANGED <<stored, shown>>

Next ==
  \/ Publish
  \/ \E m \in 1..MaxMsgs : Retire(m) \/ \E i \in 1..Len(Channels) : Show(m, i)

Spec == Init /\ [][Next]_<<stored, shown, done>>
=============================================================================
