-------------------------- MODULE NotificationProofs --------------------------
(***************************************************************************)
(* Theorems about Notification, for any channels, stream, delivery cap and *)
(* buffer.                                                                 *)
(***************************************************************************)
EXTENDS Notification, FunctionTheorems, FiniteSetTheorems, TLAPS

\* TypeOK without the bound on the notifications, which is DuplicatesBounded's.
Typed ==
  /\ stored \in 0..MaxMsgs
  /\ tries \in [Msgs -> 0..MaxDeliver]
  /\ pending \subseteq Msgs
  /\ acked \subseteq Msgs
  /\ buffer \in Seq(Msgs) /\ Len(buffer) <= MaxBuffer
  /\ handling \in Msgs \cup {None}
  /\ next \in 1..(Len(Channels) + 1)
  /\ failed \in BOOLEAN
  /\ link \in {"up", "down", "closed"}
  /\ notified \in [Msgs -> [Positions -> Nat]]
  /\ crashes \in 0..MaxCrashes

\* The callback: it rests at the first channel; a malformed message never gets to
\* the channels; without an error so far, every channel passed has accepted.
Callback ==
  /\ handling = None => next = 1 /\ ~failed
  /\ handling # None => handling \notin Malformed
  /\ \A m \in Malformed, i \in Positions : notified[m][i] = 0
  /\ handling # None /\ ~failed =>
       \A i \in Positions : i < next => notified[handling][i] > 0

DeliveryInv == Typed /\ Callback /\ AckedIsNotified /\ DuplicatesBounded

-----------------------------------------------------------------------------
(* The buffer *)

\* A message has finitely many copies in the buffer.
LEMMA CopiesFinite ==
  ASSUME buffer \in Seq(Msgs), NEW m
  PROVE  IsFiniteSet(Copies(m)) /\ Cardinality(Copies(m)) \in Nat
<1>1. Len(buffer) \in Nat /\ Copies(m) \subseteq 1..Len(buffer)
  BY DEF Copies
<1>2. IsFiniteSet(1..Len(buffer))
  BY <1>1, FS_Interval
<1> QED
  BY <1>1, <1>2, FS_Subset, FS_CardinalityType

\* A message delivered has one more copy, any other as many as before.
LEMMA CopiesAppend ==
  ASSUME buffer \in Seq(Msgs), NEW x \in Msgs, buffer' = Append(buffer, x), NEW m
  PROVE  Cardinality(Copies(m)') = Cardinality(Copies(m)) + (IF m = x THEN 1 ELSE 0)
<1>1. /\ Len(buffer) \in Nat /\ Len(buffer') = Len(buffer) + 1
      /\ buffer'[Len(buffer) + 1] = x
      /\ \A k \in 1..Len(buffer) : buffer'[k] = buffer[k]
  OBVIOUS
<1>2. IsFiniteSet(Copies(m)) /\ Cardinality(Copies(m)) \in Nat
  BY CopiesFinite
<1>3. CASE m = x
  <2>1. Copies(m)' = Copies(m) \cup {Len(buffer) + 1} /\ Len(buffer) + 1 \notin Copies(m)
    BY <1>1, <1>3 DEF Copies
  <2> QED
    BY <1>2, <1>3, <2>1, FS_AddElement
<1>4. CASE m # x
  <2>1. Copies(m)' = Copies(m)
    BY <1>1, <1>4 DEF Copies
  <2> QED
    BY <1>2, <1>4, <2>1
<1> QED
  BY <1>3, <1>4

\* A message taken from the buffer has one copy less, any other as many as before.
LEMMA CopiesTail ==
  ASSUME buffer \in Seq(Msgs), buffer # <<>>, buffer' = Tail(buffer), NEW m
  PROVE  Cardinality(Copies(m)') = Cardinality(Copies(m)) - (IF m = Head(buffer) THEN 1 ELSE 0)
<1>1. /\ Len(buffer) \in Nat /\ Len(buffer) >= 1 /\ Len(buffer') = Len(buffer) - 1
      /\ buffer[1] = Head(buffer) /\ buffer' \in Seq(Msgs)
      /\ \A k \in 1..Len(buffer') : buffer'[k] = buffer[k + 1]
  OBVIOUS
<1>2. IsFiniteSet(Copies(m)) /\ Cardinality(Copies(m)) \in Nat
  BY CopiesFinite
<1> DEFINE rest == Copies(m) \ {1}
<1> DEFINE shift == [k \in rest |-> k - 1]
<1>3. IsFiniteSet(rest) /\ Cardinality(rest) = Cardinality(Copies(m)) - (IF m = Head(buffer) THEN 1 ELSE 0)
  <2>1. 1 \in Copies(m) <=> m = Head(buffer)
    BY <1>1 DEF Copies
  <2>2. /\ IsFiniteSet(rest)
        /\ Cardinality(rest) = IF 1 \in Copies(m) THEN Cardinality(Copies(m)) - 1 ELSE Cardinality(Copies(m))
    BY <1>2, FS_RemoveElement
  <2> QED
    BY <1>2, <2>1, <2>2
<1>4. Copies(m)' = {k \in 1..(Len(buffer) - 1) : buffer[k + 1] = m}
  BY <1>1 DEF Copies
<1>5. rest = {k \in 2..Len(buffer) : buffer[k] = m}
  BY <1>1 DEF Copies
<1>6. shift \in Bijection(rest, Copies(m)')
  <2>1. shift \in [rest -> Copies(m)']
    BY <1>1, <1>4, <1>5
  <2>2. \A a, b \in rest : shift[a] = shift[b] => a = b
    BY <1>1, <1>5
  <2>3. \A k \in Copies(m)' : \E a \in rest : shift[a] = k
    <3>1. ASSUME NEW k \in Copies(m)' PROVE \E a \in rest : shift[a] = k
      <4>1. k + 1 \in rest
        BY <1>1, <1>4, <1>5
      <4>2. shift[k + 1] = k
        BY <1>1, <1>4, <4>1
      <4> QED
        BY <4>1, <4>2
    <3> QED
      BY <3>1
  <2> QED
    BY <2>1, <2>2, <2>3, Fun_IsBij
<1>7. Cardinality(Copies(m)') = Cardinality(rest)
  <2>1. ExistsBijection(rest, Copies(m)')
    BY <1>6 DEF ExistsBijection
  <2> QED
    BY <1>3, <2>1, FS_Bijection
<1> QED
  BY <1>3, <1>7

\* An empty buffer has no copies.
LEMMA CopiesEmpty ==
  ASSUME buffer' = <<>>, NEW m
  PROVE  Cardinality(Copies(m)') = 0
<1>1. Copies(m)' = {}
  BY DEF Copies
<1> QED
  BY <1>1, FS_EmptySet
-----------------------------------------------------------------------------
(* The invariant *)

LEMMA DeliveryInvInit == Init => DeliveryInv
<1> SUFFICES ASSUME Init PROVE DeliveryInv
  OBVIOUS
<1>1. Len(Channels) \in Nat
  BY ChannelAssumption
<1>2. Typed
  <2>1. tries \in [Msgs -> 0..MaxDeliver] /\ notified \in [Msgs -> [Positions -> Nat]]
    BY CapAssumption DEF Init
  <2>2. failed \in BOOLEAN
    BY Zenon DEF Init
  <2>3. /\ stored \in 0..MaxMsgs /\ crashes \in 0..MaxCrashes /\ next \in 1..(Len(Channels) + 1)
        /\ buffer \in Seq(Msgs) /\ Len(buffer) <= MaxBuffer
    BY <1>1, MsgAssumption, CrashAssumption, BufferAssumption DEF Init
  <2> QED
    BY <2>1, <2>2, <2>3 DEF Typed, Init
<1>3. Callback /\ AckedIsNotified
  BY MsgAssumption DEF Init, Callback, AckedIsNotified
<1>4. ASSUME NEW m \in Msgs PROVE Cardinality(Copies(m)) = 0
  <2>1. Copies(m) = {}
    BY DEF Copies, Init
  <2> QED
    BY <2>1, FS_EmptySet
<1>5. DuplicatesBounded
  BY <1>4, MsgAssumption DEF DuplicatesBounded, Init
<1> QED
  BY <1>2, <1>3, <1>5 DEF DeliveryInv

\* Steps that leave the buffer, the callback and the channels alone.
LEMMA QuietSteps ==
  ASSUME DeliveryInv,
         Store \/ Disconnect \/ Reconnect \/ \E m \in Msgs : Expire(m)
  PROVE  DeliveryInv'
<1> USE DEF DeliveryInv
<1>1. UNCHANGED <<buffer, handling, next, failed, notified, tries, acked, crashes>>
  BY DEF Store, Disconnect, Reconnect, Expire, server, client, callback
<1>2. Typed'
  BY <1>1, MsgAssumption DEF Typed, Store, Disconnect, Reconnect, Expire, server, client
<1>3. Callback' /\ AckedIsNotified' /\ DuplicatesBounded'
  BY <1>1 DEF Callback, AckedIsNotified, DuplicatesBounded, Copies
<1> QED
  BY <1>2, <1>3

\* Steps that empty the buffer: a connection given up, a crash.
LEMMA EmptyingSteps ==
  ASSUME DeliveryInv, GiveUp \/ Crash
  PROVE  DeliveryInv'
<1> USE DEF DeliveryInv
<1>1. /\ buffer' = <<>> /\ UNCHANGED <<stored, tries, pending, acked, notified>>
      /\ \/ UNCHANGED <<handling, next, failed>>
         \/ handling' = None /\ next' = 1 /\ failed' = FALSE
  BY DEF GiveUp, Crash, server, callback
<1>2. Typed'
  <2>1. crashes' \in 0..MaxCrashes
    BY CrashAssumption DEF Typed, GiveUp, Crash
  <2>2. buffer' \in Seq(Msgs) /\ Len(buffer') <= MaxBuffer
    BY <1>1, BufferAssumption
  <2>3. link' \in {"up", "down", "closed"}
    BY DEF GiveUp, Crash
  <2>4. next' \in 1..(Len(Channels) + 1)
    BY <1>1, ChannelAssumption DEF Typed
  <2>5. failed' \in BOOLEAN /\ handling' \in Msgs \cup {None}
    BY <1>1 DEF Typed
  <2> QED
    BY <1>1, <2>1, <2>2, <2>3, <2>4, <2>5 DEF Typed
<1>3. Callback' /\ AckedIsNotified'
  BY <1>1 DEF Callback, AckedIsNotified
<1>4. DuplicatesBounded'
  <2>1. ASSUME NEW m \in Msgs, NEW i \in Positions
        PROVE  notified'[m][i] + Cardinality(Copies(m)')
                 + (IF handling' = m /\ next' <= i THEN 1 ELSE 0) <= tries'[m]
    <3>1. Cardinality(Copies(m)') = 0
      BY <1>1, CopiesEmpty
    <3>2. Cardinality(Copies(m)) \in Nat
      BY CopiesFinite DEF Typed
    <3>3. /\ notified[m][i] \in Nat /\ tries[m] \in Nat
          /\ notified[m][i] + Cardinality(Copies(m))
               + (IF handling = m /\ next <= i THEN 1 ELSE 0) <= tries[m]
      BY CapAssumption DEF Typed, DuplicatesBounded
    <3>4. handling' = m => handling = m /\ next' = next
      BY <1>1, MsgAssumption
    <3> QED
      BY <1>1, <3>1, <3>2, <3>3, <3>4
  <2> QED
    BY <2>1 DEF DuplicatesBounded
<1> QED
  BY <1>2, <1>3, <1>4

\* A delivery adds a copy, or none if it is lost, and is counted.
LEMMA SendSteps ==
  ASSUME DeliveryInv, NEW x \in Msgs, Deliver(x) \/ Lose(x)
  PROVE  DeliveryInv'
<1> USE DEF DeliveryInv
<1>1. /\ UNCHANGED <<stored, acked, handling, next, failed, notified, crashes>>
      /\ tries' = [tries EXCEPT ![x] = @ + 1] /\ tries[x] < MaxDeliver
      /\ pending' = pending \cup {x} /\ Len(buffer) < MaxBuffer
      /\ \/ buffer' = Append(buffer, x) /\ link' = link
         \/ buffer' = buffer /\ link' = "down"
  BY DEF Deliver, Lose, Send, Deliverable, callback
<1>2. Typed'
  <2>1. tries' \in [Msgs -> 0..MaxDeliver]
    BY <1>1, CapAssumption DEF Typed
  <2>2. buffer' \in Seq(Msgs) /\ Len(buffer') <= MaxBuffer
    <3>1. buffer \in Seq(Msgs) /\ Len(buffer) \in Nat
      BY DEF Typed
    <3>2. CASE buffer' = Append(buffer, x)
      <4>1. buffer' \in Seq(Msgs) /\ Len(buffer') = Len(buffer) + 1
        BY <3>1, <3>2
      <4> QED
        BY <1>1, <3>1, <4>1, BufferAssumption
    <3>3. CASE buffer' = buffer
      BY <3>3 DEF Typed
    <3> QED
      BY <1>1, <3>2, <3>3
  <2> QED
    BY <1>1, <2>1, <2>2 DEF Typed
<1>3. Callback' /\ AckedIsNotified'
  BY <1>1 DEF Callback, AckedIsNotified
<1>4. DuplicatesBounded'
  <2>1. ASSUME NEW m \in Msgs, NEW i \in Positions
        PROVE  notified'[m][i] + Cardinality(Copies(m)')
                 + (IF handling' = m /\ next' <= i THEN 1 ELSE 0) <= tries'[m]
    <3>1. Cardinality(Copies(m)) \in Nat
      BY CopiesFinite DEF Typed
    <3>2. \/ Cardinality(Copies(m)') = Cardinality(Copies(m)) + (IF m = x THEN 1 ELSE 0)
          \/ Cardinality(Copies(m)') = Cardinality(Copies(m))
      <4>1. CASE buffer' = Append(buffer, x)
        BY <4>1, CopiesAppend DEF Typed
      <4>2. CASE buffer' = buffer
        BY <4>2 DEF Copies
      <4> QED
        BY <1>1, <4>1, <4>2
    <3>3. /\ notified[m][i] \in Nat /\ tries[m] \in Nat
          /\ notified[m][i] + Cardinality(Copies(m))
               + (IF handling = m /\ next <= i THEN 1 ELSE 0) <= tries[m]
      BY CapAssumption DEF Typed, DuplicatesBounded
    <3>4. tries'[m] = tries[m] + (IF m = x THEN 1 ELSE 0)
      BY <1>1, <3>3 DEF Typed
    <3> QED
      BY <1>1, <3>1, <3>2, <3>3, <3>4
  <2> QED
    BY <2>1 DEF DuplicatesBounded
<1> QED
  BY <1>2, <1>3, <1>4

\* Taking a message from the buffer: it is handled, or acked if malformed.
LEMMA TakeSteps ==
  ASSUME DeliveryInv, Start \/ DropMalformed
  PROVE  DeliveryInv'
<1> USE DEF DeliveryInv
<1> DEFINE x == Head(buffer)
<1>1. /\ handling = None /\ buffer # <<>> /\ buffer' = Tail(buffer)
      /\ UNCHANGED <<stored, tries, link, notified, crashes>>
      /\ next = 1 /\ ~failed /\ next' = 1 /\ ~failed'
      /\ \/ x \notin Malformed /\ handling' = x /\ acked' = acked /\ pending' = pending
         \/ /\ x \in Malformed /\ handling' = None
            /\ acked' \in {acked, acked \cup {x}} /\ pending' \subseteq pending
  BY DEF Start, DropMalformed, Settled, Callback, server
<1>2. x \in Msgs /\ buffer' \in Seq(Msgs) /\ Len(buffer') <= MaxBuffer
  BY <1>1, BufferAssumption DEF Typed
<1>3. Typed'
  <2>1. failed' \in BOOLEAN
    BY DEF Start, DropMalformed, Settled, Typed
  <2>2. next' \in 1..(Len(Channels) + 1)
    BY <1>1 DEF Typed
  <2> QED
    BY <1>1, <1>2, <2>1, <2>2 DEF Typed
<1>4. Callback'
  BY <1>1, <1>2, MsgAssumption DEF Callback, Positions
<1>5. AckedIsNotified'
  BY <1>1 DEF AckedIsNotified, Callback
<1>6. DuplicatesBounded'
  <2>1. ASSUME NEW m \in Msgs, NEW i \in Positions
        PROVE  notified'[m][i] + Cardinality(Copies(m)')
                 + (IF handling' = m /\ next' <= i THEN 1 ELSE 0) <= tries'[m]
    <3>1. /\ Cardinality(Copies(m)) \in Nat
          /\ Cardinality(Copies(m)') = Cardinality(Copies(m)) - (IF m = x THEN 1 ELSE 0)
      BY <1>1, CopiesFinite, CopiesTail DEF Typed
    <3>2. /\ notified[m][i] \in Nat /\ tries[m] \in Nat
          /\ notified[m][i] + Cardinality(Copies(m))
               + (IF handling = m /\ next <= i THEN 1 ELSE 0) <= tries[m]
      BY CapAssumption DEF Typed, DuplicatesBounded
    <3>3. handling # m /\ (handling' = m => m = x)
      BY <1>1, MsgAssumption
    <3> QED
      BY <1>1, <3>1, <3>2, <3>3
  <2> QED
    BY <2>1 DEF DuplicatesBounded
<1> QED
  BY <1>3, <1>4, <1>5, <1>6

\* One channel: what was due to it is given, or reported as failed.
LEMMA NotifyStep ==
  ASSUME DeliveryInv, NEW accepts \in BOOLEAN, NEW err \in BOOLEAN, Notify(accepts, err)
  PROVE  DeliveryInv'
<1> USE DEF DeliveryInv
<1>1. /\ handling \in Msgs /\ handling \notin Malformed
      /\ next \in Positions /\ next' = next + 1 /\ Len(Channels) \in Nat
  BY ChannelAssumption DEF Notify, Callback, Typed, Positions
<1>2. UNCHANGED <<stored, tries, pending, acked, buffer, handling, link, crashes>>
  BY DEF Notify, server
<1>3. /\ notified' \in [Msgs -> [Positions -> Nat]]
      /\ \A m \in Msgs, i \in Positions :
           \/ notified'[m][i] = notified[m][i]
           \/ m = handling /\ i = next /\ accepts /\ notified'[m][i] = notified[m][i] + 1
      /\ accepts => notified'[handling][next] = notified[handling][next] + 1
  <2>1. CASE accepts
    <3>1. notified' = [notified EXCEPT ![handling][next] = @ + 1]
      BY <2>1 DEF Notify
    <3>2. /\ notified'[handling] = [notified[handling] EXCEPT ![next] = @ + 1]
          /\ notified[handling] \in [Positions -> Nat]
          /\ \A m \in Msgs : m # handling => notified'[m] = notified[m]
          /\ notified' \in [Msgs -> [Positions -> Nat]]
      BY <1>1, <3>1 DEF Typed
    <3> QED
      BY <1>1, <2>1, <3>2
  <2>2. CASE ~accepts
    BY <2>2 DEF Notify, Typed
  <2> QED
    BY <2>1, <2>2
<1>4. Typed'
  <2>1. failed' \in BOOLEAN
    BY Zenon DEF Notify
  <2>2. next' \in 1..(Len(Channels) + 1)
    BY <1>1 DEF Positions
  <2> QED
    BY <1>2, <1>3, <2>1, <2>2 DEF Typed
<1>5. Callback'
  <2>1. ~failed' => ~failed /\ accepts
    BY DEF Notify
  <2>2. ASSUME NEW m \in Malformed, NEW i \in Positions
        PROVE  notified'[m][i] = 0
    <3>1. m \in Msgs /\ m # handling /\ notified[m][i] = 0
      BY <1>1, MsgAssumption DEF Callback
    <3> QED
      BY <1>3, <3>1
  <2>3. ASSUME ~failed', NEW i \in Positions, i < next'
        PROVE  notified'[handling][i] > 0
    <3>1. CASE i = next
      <4>1. notified'[handling][next] = notified[handling][next] + 1
        BY <1>3, <2>1, <2>3
      <4>2. notified[handling][next] \in Nat
        BY <1>1 DEF Typed
      <4> QED
        BY <3>1, <4>1, <4>2
    <3>2. CASE i < next
      <4>1. notified[handling][i] > 0 /\ notified[handling][i] \in Nat
        BY <1>1, <2>1, <2>3, <3>2, MsgAssumption DEF Typed, Callback
      <4> QED
        BY <1>1, <1>3, <4>1
    <3> QED
      BY <1>1, <2>3, <3>1, <3>2 DEF Positions
  <2> QED
    BY <1>1, <1>2, <2>2, <2>3, MsgAssumption DEF Callback
<1>6. AckedIsNotified'
  <2>1. ASSUME NEW m \in acked, NEW i \in Positions
        PROVE  m \in Malformed <=> notified'[m][i] = 0
    <3>1. /\ m \in Msgs /\ notified[m][i] \in Nat
          /\ m \in Malformed <=> notified[m][i] = 0
      BY DEF Typed, AckedIsNotified
    <3> QED
      BY <1>1, <1>3, <3>1
  <2> QED
    BY <1>2, <2>1 DEF AckedIsNotified
<1>7. DuplicatesBounded'
  <2>1. ASSUME NEW m \in Msgs, NEW i \in Positions
        PROVE  notified'[m][i] + Cardinality(Copies(m)')
                 + (IF handling' = m /\ next' <= i THEN 1 ELSE 0) <= tries'[m]
    <3>1. Cardinality(Copies(m)) \in Nat /\ Copies(m)' = Copies(m)
      BY <1>2, CopiesFinite DEF Typed, Copies
    <3>2. notified[m][i] \in Nat /\ tries[m] \in Nat /\ i \in Nat /\ next \in Nat
      BY CapAssumption DEF Typed, Positions
    <3>3. notified[m][i] + Cardinality(Copies(m))
            + (IF handling = m /\ next <= i THEN 1 ELSE 0) <= tries[m]
      BY DEF DuplicatesBounded
    <3>4. CASE m = handling /\ i = next
      BY <1>1, <1>2, <1>3, <3>1, <3>2, <3>3, <3>4
    <3>5. CASE m = handling /\ i # next
      <4>1. notified'[m][i] = notified[m][i] /\ (next' <= i <=> next <= i)
        BY <1>1, <1>3, <3>2, <3>5
      <4> QED
        BY <1>1, <1>2, <3>1, <3>3, <3>5, <4>1
    <3>6. CASE m # handling
      <4>1. notified'[m][i] = notified[m][i]
        BY <1>3, <3>6
      <4> QED
        BY <1>1, <1>2, <3>1, <3>3, <3>6, <4>1
    <3> QED
      BY <3>4, <3>5, <3>6
  <2> QED
    BY <2>1 DEF DuplicatesBounded
<1> QED
  BY <1>4, <1>5, <1>6, <1>7

\* The callback is done: it acks only what every channel has accepted.
LEMMA SettleSteps ==
  ASSUME DeliveryInv, Panic \/ Finish
  PROVE  DeliveryInv'
<1> USE DEF DeliveryInv
<1>1. /\ handling \in Msgs /\ handling \notin Malformed
      /\ handling' = None /\ next' = 1 /\ failed' = FALSE
      /\ UNCHANGED <<stored, tries, buffer, link, notified, crashes>>
      /\ pending' \subseteq pending
      /\ \/ acked' = acked
         \/ acked' = acked \cup {handling} /\ ~failed /\ next = Len(Channels) + 1
  BY DEF Panic, Finish, Settled, Callback, Typed
<1>2. Typed'
  <2>1. next' \in 1..(Len(Channels) + 1)
    BY <1>1, ChannelAssumption
  <2>2. failed' \in BOOLEAN
    BY <1>1
  <2> QED
    BY <1>1, <2>1, <2>2 DEF Typed
<1>3. Callback'
  BY <1>1 DEF Callback
<1>4. AckedIsNotified'
  <2>1. CASE acked' = acked
    BY <1>1, <2>1 DEF AckedIsNotified
  <2>2. CASE acked' = acked \cup {handling} /\ ~failed /\ next = Len(Channels) + 1
    <3>1. \A i \in Positions : notified[handling][i] > 0
      BY <1>1, <2>2, ChannelAssumption, MsgAssumption DEF Callback, Positions
    <3>2. \A i \in Positions : notified[handling][i] # 0
      BY <1>1, <3>1 DEF Typed
    <3> QED
      BY <1>1, <2>2, <3>2 DEF AckedIsNotified
  <2> QED
    BY <1>1, <2>1, <2>2
<1>5. DuplicatesBounded'
  <2>1. ASSUME NEW m \in Msgs, NEW i \in Positions
        PROVE  notified'[m][i] + Cardinality(Copies(m)')
                 + (IF handling' = m /\ next' <= i THEN 1 ELSE 0) <= tries'[m]
    <3>1. Cardinality(Copies(m)) \in Nat /\ Copies(m)' = Copies(m)
      BY <1>1, CopiesFinite DEF Typed, Copies
    <3>2. /\ notified[m][i] \in Nat /\ tries[m] \in Nat
          /\ notified[m][i] + Cardinality(Copies(m))
               + (IF handling = m /\ next <= i THEN 1 ELSE 0) <= tries[m]
      BY CapAssumption DEF Typed, DuplicatesBounded
    <3>3. handling' # m
      BY <1>1, MsgAssumption
    <3> QED
      BY <1>1, <3>1, <3>2, <3>3
  <2> QED
    BY <2>1 DEF DuplicatesBounded
<1> QED
  BY <1>2, <1>3, <1>4, <1>5

LEMMA DeliveryInvNext == DeliveryInv /\ [Next]_vars => DeliveryInv'
<1> SUFFICES ASSUME DeliveryInv, [Next]_vars PROVE DeliveryInv'
  OBVIOUS
<1>1. CASE UNCHANGED vars
  BY <1>1 DEF DeliveryInv, Typed, Callback, AckedIsNotified, DuplicatesBounded, Copies,
              vars, server, client, callback
<1>2. CASE Next
  BY <1>2, QuietSteps, EmptyingSteps, SendSteps, TakeSteps, NotifyStep, SettleSteps
     DEF Next, Consume
<1> QED
  BY <1>1, <1>2

-----------------------------------------------------------------------------
(* Theorems *)

\* The inductive invariant holds in every reachable state.
THEOREM DeliveryInvAlways == Spec => []DeliveryInv
<1> QED
  BY DeliveryInvInit, DeliveryInvNext, PTL DEF Spec

\* No channel is notified of a message more often than the server has counted
\* deliveries of it (events.go:109-111).
THEOREM DuplicatesCounted == Spec => []DuplicatesBounded
<1>1. DeliveryInv => DuplicatesBounded
  BY DEF DeliveryInv
<1> QED
  BY <1>1, DeliveryInvAlways, PTL

\* An ack means that every channel has accepted the message (events.go:145-149).
THEOREM AckMeansNotified == Spec => []AckedIsNotified
<1>1. DeliveryInv => AckedIsNotified
  BY DEF DeliveryInv
<1> QED
  BY <1>1, DeliveryInvAlways, PTL

\* The state is well formed; in particular no channel's count passes MaxDeliver.
THEOREM DeliveryTypeCorrect == Spec => []TypeOK
<1>1. ASSUME DeliveryInv PROVE TypeOK
  <2>1. ASSUME NEW m \in Msgs, NEW i \in Positions
        PROVE  notified[m][i] \in 0..MaxDeliver
    <3>1. Cardinality(Copies(m)) \in Nat
      BY <1>1, CopiesFinite DEF DeliveryInv, Typed
    <3>2. /\ notified[m][i] \in Nat /\ tries[m] \in 0..MaxDeliver
          /\ notified[m][i] + Cardinality(Copies(m))
               + (IF handling = m /\ next <= i THEN 1 ELSE 0) <= tries[m]
      BY <1>1 DEF DeliveryInv, Typed, DuplicatesBounded
    <3> QED
      BY <3>1, <3>2, CapAssumption
  <2>2. notified \in [Msgs -> [Positions -> 0..MaxDeliver]]
    BY <1>1, <2>1 DEF DeliveryInv, Typed
  <2> QED
    BY <1>1, <2>2 DEF DeliveryInv, Typed, TypeOK
<1> QED
  BY <1>1, DeliveryInvAlways, PTL

-----------------------------------------------------------------------------
(***************************************************************************)
(* The service implements the promised delivery.  Beside DeliveryInv this  *)
(* takes that whatever the process has at hand is in the stream.           *)
(***************************************************************************)
InStream ==
  /\ \A k \in 1..Len(buffer) : buffer[k] <= stored
  /\ handling # None => handling <= stored

LEMMA InStreamNext ==
  ASSUME DeliveryInv, InStream, [Next]_vars
  PROVE  InStream'
<1>0. stored \in Nat /\ buffer \in Seq(Msgs) /\ Len(buffer) \in Nat
      /\ \A k \in 1..Len(buffer) : buffer[k] \in Nat
  <2>1. stored \in Nat /\ buffer \in Seq(Msgs)
    BY DEF DeliveryInv, Typed
  <2>2. Len(buffer) \in Nat /\ \A k \in 1..Len(buffer) : buffer[k] \in Msgs
    BY <2>1
  <2>3. \A m \in Msgs : m \in Nat
    BY MsgAssumption DEF Msgs
  <2> QED
    BY <2>1, <2>2, <2>3
<1>1. ASSUME stored' \in {stored, stored + 1}, buffer' \in {buffer, <<>>},
             handling' \in {handling, None}
      PROVE  InStream'
  <2>1. handling # None => handling \in Nat
    BY MsgAssumption DEF DeliveryInv, Typed, Msgs
  <2> QED
    BY <1>0, <1>1, <2>1 DEF InStream
<1>2. CASE Store \/ Disconnect \/ Reconnect \/ GiveUp \/ Panic \/ Finish \/ Crash \/ UNCHANGED vars
  <2>1. stored' \in {stored, stored + 1} /\ buffer' \in {buffer, <<>>} /\ handling' \in {handling, None}
    BY <1>2 DEF Store, Disconnect, Reconnect, GiveUp, Panic, Finish, Settled, Crash, client, callback, vars
  <2> QED
    BY <1>1, <2>1
<1>3. ASSUME NEW m \in Msgs, Deliver(m) \/ Lose(m) \/ Expire(m) PROVE InStream'
  <2>1. CASE Deliver(m)
    <3>1. /\ stored' = stored /\ handling' = handling /\ m <= stored
          /\ buffer' = Append(buffer, m)
      BY <2>1 DEF Deliver, Send, Deliverable, callback
    <3>2. /\ Len(buffer') = Len(buffer) + 1 /\ buffer'[Len(buffer) + 1] = m
          /\ \A k \in 1..Len(buffer) : buffer'[k] = buffer[k]
      BY <1>0, <3>1
    <3> QED
      BY <1>0, <3>1, <3>2 DEF InStream
  <2>2. CASE Lose(m) \/ Expire(m)
    <3>1. stored' = stored /\ buffer' = buffer /\ handling' = handling
      BY <2>2 DEF Lose, Send, Expire, client, callback
    <3> QED
      BY <1>1, <3>1
  <2> QED
    BY <1>3, <2>1, <2>2
<1>4. CASE DropMalformed \/ Start
  <2>1. /\ stored' = stored /\ buffer # <<>> /\ buffer' = Tail(buffer)
        /\ handling' \in {None, Head(buffer)}
    BY <1>4 DEF DropMalformed, Start, Settled
  <2>2. /\ Len(buffer) > 0 /\ Head(buffer) = buffer[1] /\ Len(buffer') = Len(buffer) - 1
        /\ \A k \in 1..Len(buffer') : buffer'[k] = buffer[k + 1]
    BY <1>0, <2>1
  <2> QED
    BY <1>0, <2>1, <2>2 DEF InStream
<1>5. ASSUME NEW accepts, NEW err, Notify(accepts, err) PROVE InStream'
  BY <1>1, <1>5 DEF Notify
<1> QED
  BY <1>2, <1>3, <1>4, <1>5 DEF Next, Consume

\* A channel that accepts is shown the message once more, within the cap.
LEMMA NotifyShows ==
  ASSUME DeliveryInv, InStream, NEW accepts \in BOOLEAN, NEW err \in BOOLEAN, Notify(accepts, err)
  PROVE  \/ \E m \in Msgs, i \in Positions : Promise!Show(m, i)
         \/ UNCHANGED <<stored, notified, acked>>
<1>1. UNCHANGED <<stored, acked>> /\ (~accepts => notified' = notified)
  BY DEF Notify, server
<1>2. CASE accepts
  <2>1. /\ handling \in Msgs /\ handling \notin Malformed /\ handling <= stored
        /\ next \in Positions
    BY DEF Notify, DeliveryInv, Typed, Callback, InStream, Positions
  <2>2. notified[handling][next] < MaxDeliver
    <3>1. notified[handling][next] + Cardinality(Copies(handling)) + 1 <= tries[handling]
      BY <2>1 DEF DeliveryInv, DuplicatesBounded, Positions
    <3>2. /\ Cardinality(Copies(handling)) \in Nat /\ notified[handling][next] \in Nat
          /\ tries[handling] \in 0..MaxDeliver
      BY <2>1, CopiesFinite DEF DeliveryInv, Typed
    <3> QED
      BY <3>1, <3>2, CapAssumption
  <2>3. notified' = [notified EXCEPT ![handling][next] = @ + 1]
    BY <1>2 DEF Notify
  <2>4. Promise!Show(handling, next)
    BY <1>1, <2>1, <2>2, <2>3 DEF Promise!Show
  <2> QED
    BY <2>1, <2>4
<1> QED
  BY <1>1, <1>2

\* What an ack retires was shown to every channel, or is malformed.
LEMMA AcksRetire ==
  ASSUME DeliveryInv, InStream, DropMalformed \/ Panic \/ Finish
  PROVE  \/ \E m \in Msgs : Promise!Retire(m)
         \/ UNCHANGED <<stored, notified, acked>>
<1>1. UNCHANGED <<stored, notified>>
  BY DEF DropMalformed, Panic, Finish
<1>2. CASE DropMalformed
  <2>1. PICK m : m = Head(buffer)
    OBVIOUS
  <2>2. buffer # <<>> /\ m \in Malformed /\ acked' \in {acked, acked \cup {m}}
    BY <1>2, <2>1 DEF DropMalformed, Settled
  <2>3. m \in Msgs /\ m <= stored
    <3>1. buffer \in Seq(Msgs) /\ Len(buffer) \in Nat /\ m = buffer[1] /\ 1 \in 1..Len(buffer)
      BY <2>1, <2>2 DEF DeliveryInv, Typed
    <3> QED
      BY <3>1 DEF InStream
  <2> QED
    BY <1>1, <2>2, <2>3 DEF Promise!Retire
<1>3. CASE Panic \/ Finish
  <2>1. /\ handling # None
        /\ acked' = acked \/ (acked' = acked \cup {handling} /\ ~failed /\ next = Len(Channels) + 1)
    BY <1>3 DEF Panic, Finish, Settled
  <2>2. CASE acked' = acked \cup {handling} /\ ~failed /\ next = Len(Channels) + 1
    <3>1. handling \in Msgs /\ handling <= stored
      BY <2>1 DEF DeliveryInv, Typed, InStream
    <3>2. \A i \in 1..Len(Channels) : notified[handling][i] > 0
      BY <2>1, <2>2, ChannelAssumption DEF DeliveryInv, Callback, Positions
    <3> QED
      BY <1>1, <2>2, <3>1, <3>2 DEF Promise!Retire
  <2> QED
    BY <1>1, <2>1, <2>2
<1> QED
  BY <1>2, <1>3

\* Whatever is lost, delayed, repeated or restarted, the channels see the stream at
\* least once and a bounded number of times (events.go:109-150, notifier.go:112-142).
THEOREM ServiceImplementsDelivery == Spec => ImplementsDelivery
<1>1. Init => Promise!Init
  BY DEF Init, Promise!Init, Msgs, Positions
<1>2. Init => InStream
  BY DEF Init, InStream
<1>3. Spec => []InStream
  BY <1>2, InStreamNext, DeliveryInvAlways, PTL DEF Spec
<1>4. DeliveryInv /\ InStream /\ [Next]_vars => [Promise!Next]_<<stored, notified, acked>>
  <2> SUFFICES ASSUME DeliveryInv, InStream, [Next]_vars, ~UNCHANGED <<stored, notified, acked>>
               PROVE  Promise!Next
    OBVIOUS
  <2>1. CASE Store
    BY <2>1 DEF Store, server, Promise!Publish, Promise!Next
  <2>2. CASE \E accepts, err \in BOOLEAN : Notify(accepts, err)
    <3>1. PICK m \in Msgs, i \in Positions : Promise!Show(m, i)
      BY <2>2, NotifyShows
    <3> QED
      BY <3>1 DEF Promise!Next, Msgs, Positions
  <2>3. CASE DropMalformed \/ Panic \/ Finish
    <3>1. PICK m \in Msgs : Promise!Retire(m)
      BY <2>3, AcksRetire
    <3> QED
      BY <3>1 DEF Promise!Next, Msgs
  <2>4. ~(Disconnect \/ Reconnect \/ GiveUp \/ Start \/ Crash \/ UNCHANGED vars)
    BY DEF Disconnect, Reconnect, GiveUp, Start, Crash, server, vars
  <2>5. \A m \in Msgs : ~(Deliver(m) \/ Lose(m) \/ Expire(m))
    BY DEF Deliver, Lose, Send, Expire
  <2> QED
    BY <2>1, <2>2, <2>3, <2>4, <2>5 DEF Next, Consume
<1> QED
  BY <1>1, <1>3, <1>4, DeliveryInvAlways, PTL DEF Spec, ImplementsDelivery, Promise!Spec
=============================================================================
