---------------------------- MODULE Notification ----------------------------
(***************************************************************************)
(* The notification service: the durable JetStream consumer of pkg/events  *)
(* and the dispatcher of services/notification, from the stream ITSM to    *)
(* the delivery channels.                                                  *)
(*                                                                         *)
(* The server hands a message to the client's buffer and counts a delivery *)
(* (tries); it hands it out again once its AckWait has passed or a nak has *)
(* come, until tries reaches MaxDeliver.  The process handles one message  *)
(* at a time, channel after channel, then acks it or naks it.              *)
(*                                                                         *)
(* The NATS connection breaks and comes back; nats.Connect as called here  *)
(* tries that sixty times, two seconds apart, and closes it for good.      *)
(***************************************************************************)
EXTENDS Naturals, Sequences, FiniteSets

CONSTANTS
  Channels,    \* the configured notifiers, in the order of buildNotifiers
  MaxMsgs,     \* bound on the messages of the stream
  Malformed,   \* those whose payload is not JSON
  MaxDeliver,  \* the consumer's redelivery cap
  MaxBuffer,   \* messages the client fetches ahead
  MaxCrashes,  \* bound on the crashes and restarts
  None         \* no message

\* The notifiers that can fail or panic: all but the log.
Fallible == {"webhook", "smtp"}

Msgs == 1..MaxMsgs
Positions == 1..Len(Channels)

ASSUME CapAssumption == MaxDeliver \in Nat /\ MaxDeliver > 0
ASSUME BufferAssumption == MaxBuffer \in Nat /\ MaxBuffer > 0
ASSUME MsgAssumption == MaxMsgs \in Nat /\ Malformed \subseteq Msgs /\ None \notin Msgs
ASSUME ChannelAssumption == Channels \in Seq({"log"} \cup Fallible)
ASSUME CrashAssumption == MaxCrashes \in Nat

VARIABLES
  stored,    \* messages 1..stored are in the stream
  tries,     \* deliveries the server has counted
  pending,   \* messages whose AckWait is running
  acked,     \* messages the server has an ack for
  buffer,    \* messages fetched by the client and not handled yet
  handling,  \* the message the callback is at, or None
  next,      \* position of the channel to notify next
  failed,    \* firstErr # nil
  link,      \* the NATS connection
  notified,  \* notifications each channel has accepted: the channel's own state
  crashes    \* crashes so far

server == <<tries, pending, acked>>
callback == <<handling, next, failed>>
client == <<buffer, callback, link>>
vars == <<stored, server, client, notified, crashes>>

TypeOK ==
  /\ stored \in 0..MaxMsgs
  /\ tries \in [Msgs -> 0..MaxDeliver]
  /\ pending \subseteq Msgs
  /\ acked \subseteq Msgs
  /\ buffer \in Seq(Msgs) /\ Len(buffer) <= MaxBuffer
  /\ handling \in Msgs \cup {None}
  /\ next \in 1..(Len(Channels) + 1)
  /\ failed \in BOOLEAN
  /\ link \in {"up", "down", "closed"}
  /\ notified \in [Msgs -> [Positions -> 0..MaxDeliver]]
  /\ crashes \in 0..MaxCrashes

-----------------------------------------------------------------------------
(* The JetStream server *)

Init ==
  /\ stored = 0
  /\ tries = [m \in Msgs |-> 0]
  /\ pending = {} /\ acked = {}
  /\ buffer = <<>> /\ handling = None /\ next = 1 /\ failed = FALSE /\ link = "up"
  /\ notified = [m \in Msgs |-> [i \in Positions |-> 0]]
  /\ crashes = 0

\* A publisher's message reaches the stream.
Store ==
  /\ stored < MaxMsgs
  /\ stored' = stored + 1
  /\ UNCHANGED <<server, client, notified, crashes>>

\* Messages the server may hand out: one whose delivery has expired or was
\* nak'ed, or the next of the stream.
Deliverable ==
  {m \in 1..stored : /\ m \notin pending \cup acked
                     /\ tries[m] < MaxDeliver
                     /\ tries[m] > 0 \/ \A k \in 1..(m - 1) : tries[k] > 0}

Send(m) ==
  /\ link = "up" /\ m \in Deliverable /\ Len(buffer) < MaxBuffer
  /\ tries' = [tries EXCEPT ![m] = @ + 1]
  /\ pending' = pending \cup {m}
  /\ UNCHANGED <<stored, acked, callback, notified, crashes>>

Deliver(m) == Send(m) /\ buffer' = Append(buffer, m) /\ UNCHANGED link

\* The connection breaks under a delivery, which counts all the same.
Lose(m) == Send(m) /\ link' = "down" /\ UNCHANGED buffer

\* AckWait passes, whether the message waits in the buffer, is being handled by
\* a slow channel, or its ack or nak was lost.
Expire(m) ==
  /\ m \in pending
  /\ pending' = pending \ {m}
  /\ UNCHANGED <<stored, tries, acked, client, notified, crashes>>

-----------------------------------------------------------------------------
(* The connection *)

Disconnect ==
  /\ link = "up" /\ link' = "down"
  /\ UNCHANGED <<stored, server, buffer, callback, notified, crashes>>

Reconnect ==
  /\ link = "down" /\ link' = "up"
  /\ UNCHANGED <<stored, server, buffer, callback, notified, crashes>>

\* The client is out of attempts: it drops what it has fetched and stays deaf.
\* Nothing in the process looks at it, and its readiness has no check.
GiveUp ==
  /\ link = "down" /\ link' = "closed" /\ buffer' = <<>>
  /\ UNCHANGED <<stored, server, callback, notified, crashes>>

-----------------------------------------------------------------------------
(* The consumer callback and Dispatcher.Handle *)

\* Mutant: the nak of a late copy takes the ack of an earlier one back.
SettledRevoking(m, ack) ==
  /\ \/ link # "closed" /\ acked' = (IF ack THEN acked \cup {m} ELSE acked \ {m}) /\ pending' = pending \ {m}
     \/ UNCHANGED <<acked, pending>>
  /\ handling' = None /\ next' = 1 /\ failed' = FALSE
  /\ UNCHANGED <<tries, link>>

\* The callback is done with m: what it sends the server arrives (if need be once
\* the connection is back, before anything else is delivered), or is lost.
Settled(m, ack) ==
  /\ \/ link # "closed" /\ acked' = (IF ack THEN acked \cup {m} ELSE acked) /\ pending' = pending \ {m}
     \/ UNCHANGED <<acked, pending>>
  /\ handling' = None /\ next' = 1 /\ failed' = FALSE
  /\ UNCHANGED <<tries, link>>

\* A malformed payload is dropped: logged and acked, so never redelivered.
DropMalformed ==
  /\ handling = None /\ buffer # <<>> /\ Head(buffer) \in Malformed
  /\ buffer' = Tail(buffer)
  /\ Settled(Head(buffer), TRUE)
  /\ UNCHANGED <<stored, notified, crashes>>

Start ==
  /\ handling = None /\ buffer # <<>> /\ Head(buffer) \notin Malformed
  /\ buffer' = Tail(buffer)
  /\ handling' = Head(buffer)
  /\ UNCHANGED <<stored, server, next, failed, link, notified, crashes>>

\* One channel is notified.  It may accept the message and still report an
\* error (an answer that timed out); an error does not stop the loop.
Notify(accepts, err) ==
  /\ handling # None /\ next <= Len(Channels)
  /\ accepts \/ err
  /\ err => Channels[next] \in Fallible
  /\ notified' = IF accepts THEN [notified EXCEPT ![handling][next] = @ + 1] ELSE notified
  /\ failed' = (failed \/ err)
  /\ next' = next + 1
  /\ UNCHANGED <<stored, server, buffer, handling, link, crashes>>

\* Mutants: the panicking handler starts over in place; the panic is not recovered
\* and the callback never comes back.
PanicRestarts ==
  /\ handling # None /\ next <= Len(Channels) /\ Channels[next] \in Fallible
  /\ next' = 1 /\ failed' = FALSE
  /\ UNCHANGED <<stored, server, buffer, handling, link, notified, crashes>>

PanicUnrecovered ==
  /\ handling # None /\ next <= Len(Channels) /\ Channels[next] \in Fallible
  /\ next' = Len(Channels) + 2
  /\ UNCHANGED <<stored, server, buffer, handling, failed, link, notified, crashes>>

\* A channel panics: Handle recovers, leaves the loop and returns an error.
Panic ==
  /\ handling # None /\ next <= Len(Channels) /\ Channels[next] \in Fallible
  /\ Settled(handling, FALSE)
  /\ UNCHANGED <<stored, buffer, notified, crashes>>

\* Mutant: the message is acked whatever Handle returned.
FinishAlwaysAcking ==
  /\ handling # None /\ next = Len(Channels) + 1
  /\ Settled(handling, TRUE)
  /\ UNCHANGED <<stored, buffer, notified, crashes>>

\* The loop is done: ack, or nak on the first error.
Finish ==
  /\ handling # None /\ next = Len(Channels) + 1
  /\ Settled(handling, ~failed)
  /\ UNCHANGED <<stored, buffer, notified, crashes>>

\* The process crashes, or stops (ConsumeContext.Stop discards the buffer), and
\* is restarted; the durable consumer stays with the server.
Crash ==
  /\ crashes < MaxCrashes
  /\ crashes' = crashes + 1
  /\ buffer' = <<>> /\ handling' = None /\ next' = 1 /\ failed' = FALSE /\ link' = "up"
  /\ UNCHANGED <<stored, server, notified>>

Consume ==
  \/ DropMalformed \/ Start \/ Panic \/ Finish
  \/ \E accepts, err \in BOOLEAN : Notify(accepts, err)

Next ==
  \/ Store \/ Disconnect \/ Reconnect \/ GiveUp \/ Consume \/ Crash
  \/ \E m \in Msgs : Deliver(m) \/ Lose(m) \/ Expire(m)

Spec == Init /\ [][Next]_vars

\* The server delivers and its timers run; attempts to reconnect succeed or run
\* out; the process handles what it has fetched, which supposes that no channel
\* keeps a call for ever (the webhook has a timeout, SMTP none but TCP's).
Fairness ==
  /\ \A m \in Msgs : SF_vars(Deliver(m)) /\ WF_vars(Expire(m))
  /\ WF_vars(Reconnect \/ GiveUp)
  /\ WF_vars(Consume)

FairSpec == Spec /\ Fairness

-----------------------------------------------------------------------------
(* Properties *)

Copies(m) == {k \in 1..Len(buffer) : buffer[k] = m}

\* The server has stopped delivering m and the process is rid of it.
GivenUp(m) ==
  /\ tries[m] = MaxDeliver /\ m \notin acked \cup pending
  /\ handling # m /\ Copies(m) = {}

\* An ack means done: an acked message was accepted by every channel at least
\* once, whatever failures, panics, crashes and redeliveries it went through, or
\* it was malformed and no channel saw it (events.go:145-149, notifier.go:123-141).
AckedIsNotified ==
  \A m \in acked, i \in Positions : m \in Malformed <=> notified[m][i] = 0

\* Duplicates are bounded: what a channel accepted, what it is still to be given
\* by the running loop and what waits in the buffer never exceed the deliveries
\* the server counted, so no channel is notified more than MaxDeliver times
\* (events.go:109-111, notifier.go:111-112).
DuplicatesBounded ==
  \A m \in Msgs, i \in Positions :
    notified[m][i] + Cardinality(Copies(m))
      + (IF handling = m /\ next <= i THEN 1 ELSE 0) <= tries[m]

\* Through every loss, panic, restart and redelivery, the service shows messages to
\* channels and retires them as its promise says: nothing is shown that is not in
\* the stream, nothing acked is taken back, nobody is shown more than the cap
\* (events.go:109-150, notifier.go:112-142).
Promise == INSTANCE Delivery WITH shown <- notified, done <- acked

ImplementsDelivery == Promise!Spec

\* Every stored message comes to rest, acked with no copy left or given up, however
\* often the connection breaks and panics strike; only a connection closed for good
\* keeps the rest of the stream waiting (events.go:112, 140-149).
MessagesSettle ==
  \A m \in Msgs :
    (m <= stored) ~> \/ GivenUp(m)
                     \/ m \in acked /\ handling # m /\ Copies(m) = {}
                     \/ link = "closed"

\* "redelivery cap before a poison message is dropped" (events.go:95): a message
\* the server gives up has at least been handled, so that the log, the first
\* channel and one that cannot fail, shows it.
OnlyPoisonDropped ==
  \A m \in Msgs \ Malformed : GivenUp(m) => notified[m][1] > 0
=============================================================================
