----------------------------- MODULE IpcProofs -----------------------------
(***************************************************************************)
(* Proofs about the two ways processes talk, for any number of them, and   *)
(* about the way one of them, the network stack, talks to a TCP server.    *)
(*                                                                         *)
(* Rendezvous, the handshake of send() and receive(): SendConfirmed alone  *)
(* is not inductive; that the receiver's answer reaches the sender whose   *)
(* message it took rests on the endpoint belonging to the one sender that  *)
(* waits (Handover).                                                       *)
(*                                                                         *)
(* Service, requests to a serving process: the ring is shown to be a queue *)
(* first (EnqueueAppends, DequeueTakesFirst), and the invariant speaks of  *)
(* that queue.  Accounted needs to know that the ring holds an id once     *)
(* (RingTrue), and which messages a dead server leaves behind (LostTrue);  *)
(* AnswersMatch, that a message and the data fetched for it belong to the  *)
(* request they name (MessageTrue, HandTrue).                              *)
(*                                                                         *)
(* Tcp, the stack's client: StreamTrue needs to know where the stack's     *)
(* counters stand in the peer's stream (ConnOK) and what every segment on  *)
(* the wire, old or new, says of that stream (SegmentOK).                  *)
(***************************************************************************)
EXTENDS Rendezvous, Service, Tcp, SequenceTheorems, TLAPS

\* Two facts of arithmetic, named for the places that count bytes.
LEMMA CountsOn == \A i, g, d \in Nat : (i + 1 + g) + d = i + 1 + (g + d)
  OBVIOUS

LEMMA NoMore == \A k \in Nat : k <= k
  OBVIOUS

\* The initial state: an idle endpoint nobody waits at.
LEMMA InitHandshake == RInit => RInv
  BY SendsBounded DEF RInit, RInv, RTypeOK, SendConfirmed, Handover, NoMsg, Messages

\* send() up to its second wait: the endpoint was idle, so nobody else waits.
LEMMA DepositStep == ASSUME RInv, NEW s \in Senders, Deposit(s) PROVE RInv'
<1>1. waiting = {} /\ waiting' = {s}
  BY Zenon DEF RInv, Handover, Deposit, RTypeOK
<1>2. sent[s] \in Nat /\ sent[s] + 1 \in 1..MaxSends
  BY SendsBounded DEF RInv, RTypeOK, Deposit
<1>3. RTypeOK'
  BY <1>1, <1>2, SendsBounded DEF RInv, RTypeOK, Deposit, Messages
<1>4. SendConfirmed'
  BY <1>1, <1>2, SendsBounded DEF RInv, RTypeOK, SendConfirmed, Deposit
<1>5. Handover'
  BY <1>1, <1>2, SendsBounded DEF RInv, RTypeOK, Handover, Deposit
<1> QED BY Zenon, <1>3, <1>4, <1>5 DEF RInv

\* send() after its second wait: it was this sender's message that was taken.
LEMMA ConfirmStep == ASSUME RInv, NEW s \in Senders, Confirm(s) PROVE RInv'
<1>1. waiting = {s} /\ waiting' = {}
  BY Zenon DEF RInv, RTypeOK, Handover, Confirm
<1>2. received[s] = sent[s] /\ sent[s] = done[s] + 1 /\ sent[s] \in 0..MaxSends /\ done[s] \in 0..MaxSends
  BY Zenon, <1>1 DEF RInv, RTypeOK, SendConfirmed, Handover, Confirm
<1>3. RTypeOK'
  BY Zenon, <1>1, <1>2, SendsBounded DEF RInv, RTypeOK, Confirm
<1>4. SendConfirmed'
  BY <1>1, <1>2, SendsBounded DEF RInv, RTypeOK, SendConfirmed, Confirm
<1>5. Handover'
  BY Zenon, <1>1, <1>2, SendsBounded DEF RInv, RTypeOK, Handover, Confirm
<1> QED BY Zenon, <1>3, <1>4, <1>5 DEF RInv

\* receive() sees a pending message, and copies it: nobody can replace it.
LEMMA LoadStep == ASSUME RInv, Load PROVE RInv'
  BY Zenon, SendsBounded DEF RInv, RTypeOK, SendConfirmed, Handover, Load

LEMMA CopyStep == ASSUME RInv, Copy PROVE RInv'
  BY Zenon, SendsBounded DEF RInv, RTypeOK, SendConfirmed, Handover, Copy

\* receive() returns the message of the one sender that waits.
LEMMA StoreStep == ASSUME RInv, Store PROVE RInv'
<1>1. PICK s \in Senders : waiting = {s}
  BY DEF RInv, RTypeOK, Handover, Store
<1>2. held = <<s, sent[s]>> /\ held[1] = s /\ held[2] = sent[s] /\ sent[s] \in 0..MaxSends
  BY <1>1 DEF RInv, RTypeOK, Handover, Store
<1>3. received' = [received EXCEPT ![s] = sent[s]]
  BY Zenon, <1>2 DEF Store
<1>4. RTypeOK'
  BY Zenon, <1>1, <1>2, <1>3 DEF RInv, RTypeOK, Store
<1>5. SendConfirmed'
  BY <1>1, <1>2, <1>3, SendsBounded DEF RInv, RTypeOK, SendConfirmed, Store
<1>6. Handover'
  BY Zenon, <1>1, <1>2, <1>3, SendsBounded DEF RInv, RTypeOK, Handover, Store
<1> QED BY Zenon, <1>4, <1>5, <1>6 DEF RInv

\* For every set of senders and every number of messages: send() returns only after
\* receive() has returned that very message, and the receiver gets each sender's
\* messages once and in order (ipc.rs, send: "a sender knows delivery genuinely
\* happened").
THEOREM HandshakeSafe == RSpec => []RInv
<1>1. RInv /\ [RNext]_rvars => RInv'
  <2> SUFFICES ASSUME RInv, [RNext]_rvars PROVE RInv'
    BY Zenon
  <2>1. CASE \E s \in Senders : Deposit(s) \/ Confirm(s)
    BY Zenon, <2>1, DepositStep, ConfirmStep
  <2>2. CASE Receiver
    BY Zenon, <2>2, LoadStep, CopyStep, StoreStep DEF Receiver
  <2>3. CASE UNCHANGED rvars
    BY Zenon, <2>3 DEF RInv, RTypeOK, SendConfirmed, Handover, rvars
  <2> QED BY Zenon, <2>1, <2>2, <2>3 DEF RNext
<1> QED BY <1>1, InitHandshake, PTL DEF RSpec

-----------------------------------------------------------------------------
(* The ring of an endpoint: what try_send and try_receive do to the        *)
(* sequence of messages that head, tail and length stand for.              *)

Positions == 0..(QueueDepth - 1)

RingOK(r) ==
    /\ r \in [head : Positions, tail : Positions, len : 0..QueueDepth, slots : [Positions -> Message]]
    /\ r.head = (r.tail + r.len) % QueueDepth

\* Positions advance by one, or wrap.
LEMMA Wraps ==
    \A x \in 0..(2 * QueueDepth - 1) :
        x % QueueDepth = IF x < QueueDepth THEN x ELSE x - QueueDepth
  BY Sizes

\* Advancing by n + 1 is advancing by n and then by one, or by one and then by n;
\* fewer than QueueDepth steps never come back to where they started.
LEMMA Advances ==
    ASSUME NEW t \in Positions, NEW n \in 0..(QueueDepth - 1)
    PROVE  /\ (t + n) % QueueDepth \in Positions /\ (t + (n + 1)) % QueueDepth \in Positions
           /\ (((t + n) % QueueDepth) + 1) % QueueDepth = (t + (n + 1)) % QueueDepth
           /\ (((t + 1) % QueueDepth) + n) % QueueDepth = (t + (n + 1)) % QueueDepth
           /\ \A k \in 0..(n - 1) : (t + k) % QueueDepth # (t + n) % QueueDepth
<1> USE Sizes DEF Positions
<1>1. (t + n) % QueueDepth = IF t + n < QueueDepth THEN t + n ELSE t + n - QueueDepth
  <2>1. t + n \in 0..(2 * QueueDepth - 1)
    OBVIOUS
  <2> QED BY <2>1, Wraps
<1>2. (t + (n + 1)) % QueueDepth
        = IF t + n + 1 < QueueDepth THEN t + n + 1 ELSE t + n + 1 - QueueDepth
  <2>1. t + (n + 1) \in 0..(2 * QueueDepth - 1)
    OBVIOUS
  <2> QED BY <2>1, Wraps
<1>3. (t + 1) % QueueDepth = IF t + 1 < QueueDepth THEN t + 1 ELSE 0
  <2>1. t + 1 \in 0..(2 * QueueDepth - 1)
    OBVIOUS
  <2> QED BY <2>1, Wraps
<1>4. (t + n) % QueueDepth \in Positions /\ (t + (n + 1)) % QueueDepth \in Positions
  BY <1>1, <1>2
<1>5. (((t + n) % QueueDepth) + 1) % QueueDepth = (t + (n + 1)) % QueueDepth
  <2> DEFINE u == (t + n) % QueueDepth
  <2>1. u \in Int /\ u + 1 \in 0..(2 * QueueDepth - 1)
    BY <1>4
  <2> HIDE DEF u
  <2>2. (u + 1) % QueueDepth = IF u + 1 < QueueDepth THEN u + 1 ELSE u + 1 - QueueDepth
    BY <2>1, Wraps
  <2> QED BY <1>1, <1>2, <2>2 DEF u
<1>6. (((t + 1) % QueueDepth) + n) % QueueDepth = (t + (n + 1)) % QueueDepth
  <2> DEFINE u == (t + 1) % QueueDepth
  <2>1. u \in Int /\ u + n \in 0..(2 * QueueDepth - 1)
    BY <1>3
  <2> HIDE DEF u
  <2>2. (u + n) % QueueDepth = IF u + n < QueueDepth THEN u + n ELSE u + n - QueueDepth
    BY <2>1, Wraps
  <2> QED BY <1>2, <1>3, <2>2 DEF u
<1>7. ASSUME NEW k \in 0..(n - 1) PROVE (t + k) % QueueDepth # (t + n) % QueueDepth
  <2>1. t + k \in 0..(2 * QueueDepth - 1)
    OBVIOUS
  <2>2. (t + k) % QueueDepth = IF t + k < QueueDepth THEN t + k ELSE t + k - QueueDepth
    BY <2>1, Wraps
  <2> QED BY <1>1, <2>2
<1> QED BY Zenon, <1>4, <1>5, <1>6, <1>7

\* What is waiting in a ring is a sequence of messages.
LEMMA QueueType ==
    ASSUME NEW r, RingOK(r)
    PROVE  /\ Queue(r) \in Seq(Message)
           /\ Len(Queue(r)) = r.len
           /\ \A i \in 1..r.len : /\ (r.tail + i - 1) % QueueDepth \in Positions
                                  /\ Queue(r)[i] = r.slots[(r.tail + i - 1) % QueueDepth]
                                  /\ Queue(r)[i] \in Message
<1>1. \A i \in 1..r.len : (r.tail + i - 1) % QueueDepth \in Positions
  BY Sizes DEF RingOK, Positions
<1>2. Queue(r) \in [1..r.len -> Message] /\ r.len \in Nat
  BY <1>1, Sizes DEF RingOK, Queue
<1>3. Queue(r) \in Seq(Message) /\ Len(Queue(r)) = r.len
  BY <1>2, IsASeq, LenProperties
<1> QED BY Zenon, <1>1, <1>2, <1>3 DEF Queue

\* The empty ring is a ring and holds nothing.
LEMMA EmptyRingOK == RingOK(EmptyRing) /\ Queue(EmptyRing) = <<>>
<1>1. NoMessage \in Message
  BY Sizes DEF NoMessage, Message
<1>2. RingOK(EmptyRing)
  BY <1>1, Wraps, Sizes DEF RingOK, EmptyRing, Positions
<1>3. EmptyRing.len = 0
  BY Zenon DEF EmptyRing
<1> QED BY Zenon, <1>2, <1>3, QueueType, EmptySeq

\* try_send below the limit appends at the end, whatever the wrap-around.
LEMMA EnqueueAppends ==
    ASSUME NEW r, RingOK(r), ~Full(r), NEW m \in Message
    PROVE  RingOK(Enqueue(r, m)) /\ Queue(Enqueue(r, m)) = Append(Queue(r), m)
<1> DEFINE e == Enqueue(r, m)
<1>1. /\ r.head \in Positions /\ r.tail \in Positions /\ r.len \in 0..(QueueDepth - 1)
      /\ r.slots \in [Positions -> Message]
  BY Sizes DEF RingOK, Full
<1>2. /\ e.head = (r.head + 1) % QueueDepth /\ e.tail = r.tail /\ e.len = r.len + 1
      /\ e.slots = [r.slots EXCEPT ![r.head] = m]
  BY Zenon DEF Enqueue, RingOK
<1>r. ASSUME NEW h \in Positions, NEW n \in 0..QueueDepth, NEW sl \in [Positions -> Message]
      PROVE  [r EXCEPT !.slots = sl, !.head = h, !.len = n]
               \in [head : Positions, tail : Positions, len : 0..QueueDepth, slots : [Positions -> Message]]
  BY Zenon DEF RingOK
<1>e. e = [r EXCEPT !.slots = [r.slots EXCEPT ![r.head] = m],
                    !.head = (r.head + 1) % QueueDepth, !.len = r.len + 1]
  BY Zenon DEF Enqueue
<1> HIDE DEF e
<1>3. e.slots \in [Positions -> Message]
  BY Zenon, <1>1, <1>2
<1>4. e.head \in Positions /\ e.head = (e.tail + e.len) % QueueDepth
  <2>1. r.head = (r.tail + r.len) % QueueDepth
    BY Zenon DEF RingOK
  <2> QED BY <1>1, <1>2, <2>1, Advances
<1>5. RingOK(e)
  <2>1. /\ (r.head + 1) % QueueDepth \in Positions /\ r.len + 1 \in 0..QueueDepth
        /\ [r.slots EXCEPT ![r.head] = m] \in [Positions -> Message]
    BY <1>1, <1>2, <1>3, <1>4, Sizes
  <2> QED BY Zenon, <1>4, <1>r, <1>e, <2>1 DEF RingOK
<1>6. \A i \in 1..r.len : (r.tail + i - 1) % QueueDepth # r.head
  <2>1. r.head = (r.tail + r.len) % QueueDepth
    BY Zenon DEF RingOK
  <2>2. \A i \in 1..r.len : i - 1 \in 0..(r.len - 1) /\ r.tail + i - 1 = r.tail + (i - 1)
    BY <1>1 DEF Positions
  <2> QED BY <1>1, <2>1, <2>2, Advances
<1>7. \A i \in 1..r.len : Queue(e)[i] = Queue(r)[i]
  <2>1. \A i \in 1..r.len : i \in 1..e.len
    BY <1>1, <1>2
  <2> QED BY <1>1, <1>2, <1>5, <1>6, <2>1, QueueType
<1>8. Queue(e)[r.len + 1] = m
  <2>1. (e.tail + (r.len + 1) - 1) % QueueDepth = r.head
    BY <1>1, <1>2 DEF RingOK
  <2>2. r.len + 1 \in 1..e.len
    BY <1>1, <1>2
  <2> QED BY <1>1, <1>2, <1>5, <2>1, <2>2, QueueType
<1>9. /\ Append(Queue(r), m) \in Seq(Message) /\ Len(Append(Queue(r), m)) = r.len + 1
      /\ \A i \in 1..r.len : Append(Queue(r), m)[i] = Queue(r)[i]
      /\ Append(Queue(r), m)[r.len + 1] = m
  BY QueueType, AppendProperties
<1>10. Queue(e) \in Seq(Message) /\ Len(Queue(e)) = r.len + 1
  BY Zenon, <1>2, <1>5, QueueType
<1>11. \A i \in 1..(r.len + 1) : Queue(e)[i] = Append(Queue(r), m)[i]
  BY <1>1, <1>7, <1>8, <1>9
<1>12. Queue(e) = Append(Queue(r), m)
  BY Zenon, <1>9, <1>10, <1>11, SeqEqual
<1> QED BY Zenon, <1>5, <1>12 DEF e

\* try_receive takes the first message and leaves the others in their order.
LEMMA DequeueTakesFirst ==
    ASSUME NEW r, RingOK(r), r.len > 0
    PROVE  /\ RingOK(Dequeue(r))
           /\ Queue(r) # <<>> /\ Oldest(r) = Queue(r)[1] /\ Oldest(r) \in Message
           /\ Queue(Dequeue(r)) = Tail(Queue(r))
<1> DEFINE d == Dequeue(r)
<1>1. /\ r.head \in Positions /\ r.tail \in Positions /\ r.len \in 1..QueueDepth
      /\ r.slots \in [Positions -> Message]
  BY Sizes DEF RingOK
<1>2. /\ d.head = r.head /\ d.tail = (r.tail + 1) % QueueDepth /\ d.len = r.len - 1
      /\ d.slots = r.slots
  BY Zenon DEF Dequeue, RingOK
<1>r. ASSUME NEW h \in Positions, NEW n \in 0..QueueDepth
      PROVE  [r EXCEPT !.tail = h, !.len = n]
               \in [head : Positions, tail : Positions, len : 0..QueueDepth, slots : [Positions -> Message]]
  BY Zenon DEF RingOK
<1>e. d = [r EXCEPT !.tail = (r.tail + 1) % QueueDepth, !.len = r.len - 1]
  BY Zenon DEF Dequeue
<1> HIDE DEF d
<1>3. d.tail \in Positions /\ d.head = (d.tail + d.len) % QueueDepth
  <2>1. r.head = (r.tail + r.len) % QueueDepth
    BY Zenon DEF RingOK
  <2>2. r.len - 1 \in 0..(QueueDepth - 1) /\ r.len - 1 + 1 = r.len /\ 1 \in 0..QueueDepth
    BY <1>1, Sizes
  <2>3. (r.tail + 1) % QueueDepth \in Positions
    BY <1>1, Sizes DEF Positions
  <2> QED BY <1>1, <1>2, <2>1, <2>2, <2>3, Advances
<1>4. RingOK(d)
  <2>1. (r.tail + 1) % QueueDepth \in Positions /\ r.len - 1 \in 0..QueueDepth
    BY <1>1, <1>2, <1>3, Sizes
  <2> QED BY Zenon, <1>3, <1>r, <1>e, <2>1 DEF RingOK
<1>5. Oldest(r) = Queue(r)[1] /\ Oldest(r) \in Message
  <2>1. (r.tail + 1 - 1) % QueueDepth = r.tail
    <3>1. r.tail \in 0..(2 * QueueDepth - 1) /\ r.tail < QueueDepth /\ r.tail + 1 - 1 = r.tail
      BY <1>1, Sizes DEF Positions
    <3> QED BY Zenon, <3>1, Wraps
  <2> QED BY <1>1, <2>1, QueueType DEF Oldest
<1>6. Queue(r) \in Seq(Message) /\ Len(Queue(r)) = r.len /\ Queue(r) # <<>>
  BY <1>1, QueueType, EmptySeq
<1>7. \A i \in 1..(r.len - 1) : Queue(d)[i] = Queue(r)[i + 1]
  <2>1. \A i \in 1..(r.len - 1) :
            (d.tail + i - 1) % QueueDepth = (r.tail + (i + 1) - 1) % QueueDepth
    <3>1. \A i \in 1..(r.len - 1) :
              /\ i - 1 \in 0..(QueueDepth - 1) /\ i - 1 + 1 = i
              /\ d.tail + i - 1 = d.tail + (i - 1) /\ r.tail + (i + 1) - 1 = r.tail + i
      BY <1>1, <1>3, Sizes DEF Positions
    <3> QED BY <1>1, <1>2, <3>1, Advances
  <2>2. \A i \in 1..(r.len - 1) : i \in 1..d.len /\ i + 1 \in 1..r.len
    BY <1>1, <1>2
  <2>3. \A i \in 1..(r.len - 1) :
            /\ Queue(d)[i] = d.slots[(d.tail + i - 1) % QueueDepth]
            /\ Queue(r)[i + 1] = r.slots[(r.tail + (i + 1) - 1) % QueueDepth]
    BY Zenon, <1>4, <2>2, QueueType
  <2> QED BY Zenon, <1>2, <2>1, <2>3
<1>8. /\ Tail(Queue(r)) \in Seq(Message) /\ Len(Tail(Queue(r))) = r.len - 1
      /\ \A i \in 1..(r.len - 1) : Tail(Queue(r))[i] = Queue(r)[i + 1]
  BY Zenon, <1>6, HeadTailProperties
<1>9. Queue(d) \in Seq(Message) /\ Len(Queue(d)) = r.len - 1
  BY Zenon, <1>2, <1>4, QueueType
<1>10. \A i \in 1..(r.len - 1) : Queue(d)[i] = Tail(Queue(r))[i]
  BY Zenon, <1>7, <1>8
<1>11. Queue(d) = Tail(Queue(r))
  BY Zenon, <1>8, <1>9, <1>10, SeqEqual
<1> QED BY Zenon, <1>4, <1>5, <1>6, <1>11 DEF d
-----------------------------------------------------------------------------
(* The messages and the request ids of a queue.                            *)

MessagesIn(q) == {q[i] : i \in 1..Len(q)}
IdsIn(q) == {q[i].id : i \in 1..Len(q)}
Increasing(q) == \A i, j \in 1..Len(q) : i < j => q[i].id < q[j].id

LEMMA EmptyQueue == MessagesIn(<<>>) = {} /\ IdsIn(<<>>) = {} /\ Increasing(<<>>)
<1>1. Len(<<>>) = 0
  BY Zenon, EmptySeq
<1> QED BY <1>1 DEF MessagesIn, IdsIn, Increasing

LEMMA AppendedQueue ==
    ASSUME NEW q \in Seq(Message), NEW m \in Message
    PROVE  /\ MessagesIn(Append(q, m)) = MessagesIn(q) \cup {m}
           /\ IdsIn(Append(q, m)) = IdsIn(q) \cup {m.id}
           /\ Increasing(q) /\ (\A x \in IdsIn(q) : x < m.id) => Increasing(Append(q, m))
<1> DEFINE a == Append(q, m)
<1>1. /\ Len(q) \in Nat /\ Len(a) = Len(q) + 1
      /\ \A i \in 1..Len(q) : a[i] = q[i]
      /\ a[Len(q) + 1] = m
  BY AppendProperties, LenProperties
<1> HIDE DEF a
<1>2. \A i : i \in 1..Len(a) <=> i \in 1..Len(q) \/ i = Len(q) + 1
  BY <1>1
<1>3. MessagesIn(a) = MessagesIn(q) \cup {m}
  BY Zenon, <1>1, <1>2 DEF MessagesIn
<1>4. IdsIn(a) = IdsIn(q) \cup {m.id}
  BY Zenon, <1>1, <1>2 DEF IdsIn
<1>5. ASSUME Increasing(q), \A x \in IdsIn(q) : x < m.id PROVE Increasing(a)
  <2>1. \A i \in 1..Len(q) : q[i].id < m.id
    BY Zenon, <1>5 DEF IdsIn
  <2> QED BY <1>1, <1>2, <1>5, <2>1 DEF Increasing
<1> QED BY Zenon, <1>3, <1>4, <1>5 DEF a

LEMMA TailedQueue ==
    ASSUME NEW q \in Seq(Message), q # <<>>, Increasing(q)
    PROVE  /\ q[1] \in MessagesIn(q) /\ q[1].id \in IdsIn(q)
           /\ MessagesIn(Tail(q)) \subseteq MessagesIn(q)
           /\ IdsIn(Tail(q)) = IdsIn(q) \ {q[1].id}
           /\ Increasing(Tail(q))
<1> DEFINE t == Tail(q)
<1>1. /\ Len(q) \in Nat \ {0} /\ Len(t) = Len(q) - 1
      /\ \A i \in 1..Len(t) : t[i] = q[i + 1]
  BY Zenon, HeadTailProperties, EmptySeq
<1>2. \A i \in 1..Len(q) : q[i].id \in Nat
  <2>1. \A m \in Message : m.id \in Nat
    BY Sizes DEF Message
  <2> QED BY Zenon, <2>1, ElementOfSeq
<1> HIDE DEF t
<1>3. /\ \A i \in 1..Len(t) : i + 1 \in 1..Len(q)
      /\ \A i \in 1..Len(q) : i # 1 => i - 1 \in 1..Len(t) /\ t[i - 1] = q[i]
      /\ 1 \in 1..Len(q)
  BY <1>1
<1>4. MessagesIn(t) \subseteq MessagesIn(q) /\ q[1] \in MessagesIn(q) /\ q[1].id \in IdsIn(q)
  BY <1>1, <1>3 DEF MessagesIn, IdsIn
<1>5. \A i \in 1..Len(q) : i # 1 => q[i].id # q[1].id
  BY <1>1, <1>2, <1>3 DEF Increasing
<1>6. IdsIn(t) = IdsIn(q) \ {q[1].id}
  <2>1. \A i \in 1..Len(t) : t[i].id \in IdsIn(q) /\ t[i].id # q[1].id
    <3> TAKE i \in 1..Len(t)
    <3>1. i + 1 \in 1..Len(q) /\ i + 1 # 1 /\ t[i] = q[i + 1]
      BY <1>1, <1>3
    <3> QED BY Zenon, <1>5, <3>1 DEF IdsIn
  <2>2. \A i \in 1..Len(q) : q[i].id # q[1].id => q[i].id \in IdsIn(t)
    BY Zenon, <1>3 DEF IdsIn
  <2> QED BY Zenon, <2>1, <2>2 DEF IdsIn
<1>7. Increasing(t)
  <2>1. \A i, j \in 1..Len(t) : i < j => i + 1 < j + 1
    BY <1>1
  <2> QED BY Zenon, <1>1, <1>3, <2>1 DEF Increasing
<1> QED BY Zenon, <1>4, <1>6, <1>7 DEF t
-----------------------------------------------------------------------------
(* The inductive invariant of the request protocol.                        *)

AnyOp == Ops.file \cup Ops.net
RequestType ==
    [op : AnyOp \cup {"gone"}, obj : Objects \cup {NoObject}, max : Nat, ready : BOOLEAN,
     answer : [op : AnyOp \cup {"none"}, obj : Objects \cup {NoObject}, n : Nat], len : Nat]

Working == {"fetch", "serve"}

STypeOK ==
    /\ kind \in {"file", "net"}
    /\ RingOK(ring)
    /\ reqs \in Seq(RequestType)
    /\ nextId = Len(reqs) + 1 /\ nextId <= MaxRequests + 1
    /\ server \in [at : {"none", "dead", "ready"} \cup Working, msg : Message]
    /\ fetched \in [obj : Objects \cup {NoObject}, n : Nat]
    /\ client \in [Clients -> 0..Len(reqs)]
    /\ lost \subseteq 1..Len(reqs)

\* A request of the table is one of this service, about its own object.
TableTrue ==
    \A id \in 1..Len(reqs) :
        reqs[id] = Gone \/ (reqs[id].op \in Ops[kind] /\ reqs[id].obj = id)

\* A message names a request that was made and asks what the request asks.
MessageTrue(m) ==
    /\ m.id \in 1..Len(reqs)
    /\ m.op \in Ops[kind]
    /\ m.obj = IF m.op \in {"read", "write"} THEN m.id ELSE NoObject
    /\ InTable(m.id) => reqs[m.id].op = m.op

\* The ring holds every request at most once, oldest first.
RingTrue ==
    /\ \A m \in MessagesIn(Queue(ring)) : MessageTrue(m)
    /\ Increasing(Queue(ring))

\* What the server works on has left the ring, and a path it has fetched is the
\* path of that request.
HandTrue ==
    server.at \in Working =>
        /\ MessageTrue(server.msg)
        /\ server.msg.id \notin Unread \cup lost
        /\ server.at = "serve" /\ server.msg.op \in {"lookup", "named"}
              => fetched.obj \in {server.msg.id, NoObject}

\* A message in the ring of a living server will be read; in that of a dead one
\* it will not.
LostTrue ==
    /\ server.at = "none" => sendCap = FALSE /\ Unread = {}
    /\ server.at = "dead" => Unread \subseteq lost
    /\ server.at \in {"ready"} \cup Working => Unread \cap lost = {}

SomewhereTrue ==
    \A id \in 1..Len(reqs) :
        InTable(id) /\ ~reqs[id].ready => id \in Unread \cup InHand \cup lost

RepliesTrue ==
    \A id \in 1..Len(reqs) :
        reqs[id].ready =>
            /\ reqs[id].answer.op = reqs[id].op
            /\ reqs[id].answer.obj \in {reqs[id].obj, NoObject}
            /\ reqs[id].op = "write" => reqs[id].len = reqs[id].answer.n

SInv == /\ STypeOK /\ TableTrue /\ RingTrue /\ HandTrue /\ LostTrue
        /\ SomewhereTrue /\ RepliesTrue
LEMMA UnreadIsIds ==
    RingOK(ring) => /\ Unread = IdsIn(Queue(ring)) /\ Queue(ring) \in Seq(Message)
                    /\ Len(Queue(ring)) = ring.len
  BY Zenon, QueueType DEF Unread, IdsIn

LEMMA UnreadIsIdsNext ==
    RingOK(ring') => /\ Unread' = IdsIn(Queue(ring')) /\ Queue(ring') \in Seq(Message)
                     /\ Len(Queue(ring')) = ring'.len
  BY Zenon, QueueType DEF Unread, IdsIn

LEMMA GoneIs ==
    /\ Gone \in RequestType /\ Gone.op = "gone" /\ Gone.ready = FALSE
    /\ "gone" \notin AnyOp /\ \A k \in {"file", "net"} : Ops[k] \subseteq AnyOp
  BY Zenon DEF Gone, NewRequest, RequestType, AnyOp, Ops, WriteOps, NoAnswer, Objects, NoObject, Ids

LEMMA MinOfTwo == \A a, b \in Nat : Min({a, b}) = IF a <= b THEN a ELSE b
<1> SUFFICES ASSUME NEW a \in Nat, NEW b \in Nat PROVE Min({a, b}) = IF a <= b THEN a ELSE b
  BY Zenon
<1>1. \E x \in {a, b} : \A y \in {a, b} : x =< y
  OBVIOUS
<1>2. Min({a, b}) \in {a, b} /\ \A y \in {a, b} : Min({a, b}) =< y
  BY Zenon, <1>1 DEF Min
<1> QED BY <1>2

LEMMA NewRequestIs ==
    ASSUME NEW op \in AnyOp, NEW id \in Ids, NEW len \in Nat, NEW max \in Nat,
           NEW r, r = NewRequest(op, id, len, max)
    PROVE  r \in RequestType /\ r.op = op /\ r.obj = id /\ r.ready = FALSE
<1>1. Min({len, MaxBytes}) \in Nat
  BY Zenon, MinOfTwo, Sizes
<1> QED BY Zenon, <1>1 DEF NewRequest, RequestType, NoAnswer, Objects, NoObject

LEMMA AnswerIs ==
    ASSUME NEW r \in RequestType, NEW op \in AnyOp, NEW obj \in Objects \cup {NoObject}, NEW n \in Nat,
           NEW a, a = Answer(r, op, obj, n)
    PROVE  /\ a \in RequestType /\ a.op = r.op /\ a.obj = r.obj /\ a.max = r.max
           /\ a.ready = TRUE /\ a.len = n
           /\ a.answer.op = op /\ a.answer.obj = obj /\ a.answer.n = n
  BY Zenon DEF Answer, RequestType

\* What a client may ask for is within the sizes.
LEMMA AskedSizes ==
    ASSUME NEW k \in {"file", "net"}, NEW op \in Ops[k]
    PROVE  DataLengths(op) \subseteq Nat /\ BufSizes(op) \subseteq Nat /\ op \in AnyOp
  BY Sizes DEF DataLengths, BufSizes, Ops, WriteOps, AnyOp
\* How a step may change the table: new entries at the end, an entry gone, an
\* entry that still asks what it asked.
TableSteps ==
    /\ kind' = kind
    /\ reqs' \in Seq(RequestType) /\ Len(reqs) <= Len(reqs')
    /\ \A id \in 1..Len(reqs) :
          \/ reqs'[id] = Gone
          \/ reqs[id] # Gone /\ reqs'[id].op = reqs[id].op /\ reqs'[id].obj = reqs[id].obj

LEMMA SameTable == STypeOK /\ UNCHANGED <<kind, reqs>> => TableSteps
<1> SUFFICES ASSUME STypeOK, UNCHANGED <<kind, reqs>> PROVE TableSteps
  BY Zenon
<1>1. Len(reqs) \in Nat
  BY Zenon, LenProperties DEF STypeOK
<1> QED BY <1>1 DEF STypeOK, TableSteps

LEMMA MessagesStayTrue ==
    ASSUME STypeOK, TableSteps, NEW m, MessageTrue(m)
    PROVE  MessageTrue(m)'
<1>1. /\ Len(reqs) \in Nat /\ Len(reqs') \in Nat /\ DOMAIN reqs = 1..Len(reqs)
      /\ DOMAIN reqs' = 1..Len(reqs')
  BY Zenon, LenProperties DEF STypeOK, TableSteps
<1>2. m.id \in 1..Len(reqs) /\ m.id \in 1..Len(reqs')
  BY <1>1 DEF MessageTrue, TableSteps
<1>3. InTable(m.id)' => InTable(m.id) /\ reqs'[m.id].op = reqs[m.id].op
  BY Zenon, <1>1, <1>2 DEF InTable, TableSteps
<1> QED BY Zenon, <1>2, <1>3 DEF MessageTrue, TableSteps

\* SYS_IPC_TRY_SEND of a request: the newest id goes to the end of the ring, or
\* the message is dropped.
LEMMA RequestStep ==
    ASSUME SInv, NEW c \in Clients, NEW op \in Ops[kind],
           NEW len \in DataLengths(op), NEW max \in BufSizes(op), Request(c, op, len, max)
    PROVE  SInv'
<1>0. PICK id : id = nextId
  BY Zenon
<1>r. PICK r : r = NewRequest(op, id, len, max)
  BY Zenon
<1> DEFINE m == Pack(id, op, id)
           kept == ~Full(ring)
           q == Queue(ring)
<1>1. /\ kind \in {"file", "net"} /\ op \in AnyOp /\ len \in Nat /\ max \in Nat
      /\ Len(reqs) \in Nat /\ id = Len(reqs) + 1 /\ id \in Ids /\ id \in Nat
      /\ DOMAIN reqs = 1..Len(reqs)
  <2>1. kind \in {"file", "net"}
    BY Zenon DEF SInv, STypeOK
  <2>2. Len(reqs) \in Nat /\ DOMAIN reqs = 1..Len(reqs)
    BY Zenon, LenProperties DEF SInv, STypeOK
  <2> QED BY <1>0, <2>1, <2>2, AskedSizes, Sizes DEF SInv, STypeOK, Request, Ids
<1>2. r \in RequestType /\ r.op = op /\ r.obj = id /\ r.ready = FALSE /\ r # Gone
  <2>0. op \in AnyOp /\ id \in Ids /\ len \in Nat /\ max \in Nat
    BY Zenon, <1>1
  <2>1. r \in RequestType
    BY ONLY <1>r, <2>0, NewRequestIs
  <2>2. r.op = op
    BY Zenon, <1>r DEF NewRequest
  <2>4. r.obj = id
    BY Zenon, <1>r DEF NewRequest
  <2>3. r.ready = FALSE
    BY ONLY <1>r, <2>0, NewRequestIs
  <2> QED BY Zenon, <1>1, <2>1, <2>2, <2>3, <2>4, GoneIs
<1>3. /\ reqs' = Append(reqs, r) /\ nextId' = id + 1 /\ client' = [client EXCEPT ![c] = id]
      /\ ring' = IF kept THEN Enqueue(ring, m) ELSE ring
      /\ lost' = IF kept /\ server.at # "dead" THEN lost ELSE lost \cup {id}
      /\ kind' = kind /\ sendCap' = sendCap /\ server' = server /\ fetched' = fetched
      /\ sendCap
  BY Zenon, <1>0, <1>r DEF Request
<1>4. /\ m \in Message /\ m.id = id /\ m.op = op
      /\ m.obj = IF op \in {"read", "write"} THEN id ELSE NoObject
  <2>1. id % IdSpace = id /\ id \in 0..(IdSpace - 1)
    BY <1>1, Sizes DEF Ids
  <2> QED BY Zenon, <1>1, <2>1 DEF Pack, Message, AnyOp, Objects, NoObject
<1> HIDE DEF m
<1>5. /\ reqs' \in Seq(RequestType) /\ Len(reqs') = Len(reqs) + 1
      /\ \A i \in 1..Len(reqs) : reqs'[i] = reqs[i]
      /\ reqs'[id] = r /\ DOMAIN reqs' = 1..Len(reqs')
  BY <1>1, <1>2, <1>3, AppendProperties, LenProperties DEF SInv, STypeOK
<1>6. TableSteps
  BY <1>1, <1>3, <1>5 DEF TableSteps
<1>7. RingOK(ring) /\ Unread = IdsIn(q) /\ q \in Seq(Message)
  BY Zenon, UnreadIsIds DEF SInv, STypeOK
<1>8. RingOK(ring') /\ Queue(ring') = IF kept THEN Append(q, m) ELSE q
  BY Zenon, <1>3, <1>4, <1>7, EnqueueAppends
<1>9. STypeOK'
  <2>1. client' \in [Clients -> 0..Len(reqs')]
    BY <1>1, <1>3, <1>5 DEF SInv, STypeOK
  <2>2. lost' \subseteq 1..Len(reqs')
    <3>1. lost \subseteq 1..Len(reqs) /\ lost' \subseteq lost \cup {id}
      BY Zenon, <1>3 DEF SInv, STypeOK
    <3>2. 1..Len(reqs) \cup {id} \subseteq 1..Len(reqs')
      BY <1>1, <1>5
    <3> QED BY Zenon, <3>1, <3>2
  <2>3. nextId' = Len(reqs') + 1 /\ nextId' <= MaxRequests + 1
    BY <1>1, <1>3, <1>5, Sizes DEF Ids
  <2> QED BY Zenon, <1>3, <1>5, <1>8, <2>1, <2>2, <2>3 DEF SInv, STypeOK
<1>10. Unread' = IF kept THEN Unread \cup {id} ELSE Unread
  BY Zenon, <1>4, <1>7, <1>8, AppendedQueue, UnreadIsIdsNext
<1>11. Unread \subseteq 1..Len(reqs)
  BY Zenon, <1>7 DEF SInv, RingTrue, MessageTrue, IdsIn, MessagesIn
<1>12. TableTrue'
  BY <1>1, <1>2, <1>3, <1>5 DEF SInv, TableTrue
<1>13. MessageTrue(m)'
  BY SMTT(40), <1>1, <1>2, <1>3, <1>4, <1>5 DEF MessageTrue
<1>14. RingTrue'
  <2>1. \A x \in MessagesIn(q) : MessageTrue(x)'
    BY Zenon, <1>6, MessagesStayTrue DEF SInv, RingTrue
  <2>2. \A x \in IdsIn(q) : x < m.id
    BY <1>1, <1>4, <1>7, <1>11
  <2>3. MessagesIn(Queue(ring')) \subseteq MessagesIn(q) \cup {m} /\ Increasing(Queue(ring'))
    BY <1>4, <1>7, <1>8, <2>2, AppendedQueue DEF SInv, RingTrue
  <2> QED BY Zenon, <1>13, <2>1, <2>3 DEF RingTrue
<1>15. HandTrue'
  <2> SUFFICES ASSUME server.at \in Working PROVE HandTrue'
    BY Zenon, <1>3 DEF HandTrue
  <2>1. MessageTrue(server.msg) /\ server.msg.id \notin Unread \cup lost
    BY Zenon DEF SInv, HandTrue
  <2>2. MessageTrue(server.msg)'
    BY Zenon, <1>3, <1>6, <2>1, MessagesStayTrue DEF SInv, MessageTrue
  <2>3. server.msg.id # id
    BY <1>1, <2>1 DEF MessageTrue
  <2> QED BY Zenon, <1>3, <1>10, <2>1, <2>2, <2>3 DEF SInv, HandTrue
<1>16. LostTrue'
  <2>1. id \notin Unread /\ id \notin lost
    BY <1>1, <1>11 DEF SInv, STypeOK
  <2> QED BY Zenon, <1>3, <1>10, <2>1 DEF SInv, LostTrue, Working
<1>17. SomewhereTrue'
  <2>1. InHand' = InHand
    BY Zenon, <1>3 DEF InHand
  <2>2. ASSUME NEW i \in 1..Len(reqs), InTable(i)', ~reqs'[i].ready
        PROVE  i \in Unread \cup InHand \cup lost
    BY Zenon, <1>1, <1>5, <2>2 DEF SInv, SomewhereTrue, InTable
  <2>3. id \in Unread' \cup lost'
    BY Zenon, <1>3, <1>10
  <2>4. \A i \in 1..Len(reqs') : i \in 1..Len(reqs) \/ i = id
    BY <1>1, <1>5
  <2> QED BY Zenon, <1>3, <1>10, <2>1, <2>2, <2>3, <2>4 DEF SomewhereTrue
<1>18. RepliesTrue'
  BY SMTT(40), <1>1, <1>2, <1>5 DEF SInv, RepliesTrue
<1> QED BY Zenon, <1>9, <1>12, <1>14, <1>15, <1>16, <1>17, <1>18 DEF SInv
\* Steps that leave the ring, the server and the lost requests alone.
LEMMA ServerSideKept ==
    ASSUME SInv, TableSteps, UNCHANGED <<ring, sendCap, server, fetched, lost>>
    PROVE  /\ RingTrue' /\ HandTrue' /\ LostTrue'
           /\ Unread' = Unread /\ InHand' = InHand
<1>1. Unread' = Unread /\ InHand' = InHand
  BY Zenon DEF Unread, InHand
<1>2. RingTrue'
  BY Zenon, MessagesStayTrue DEF SInv, RingTrue
<1>3. HandTrue'
  BY Zenon, <1>1, MessagesStayTrue DEF SInv, HandTrue
<1>4. LostTrue'
  BY Zenon, <1>1 DEF SInv, LostTrue
<1> QED BY Zenon, <1>1, <1>2, <1>3, <1>4

\* poll_reply: an answered request leaves the table.
LEMMA PollStep == ASSUME SInv, NEW c \in Clients, Poll(c) PROVE SInv'
<1>0. PICK id : id = client[c]
  BY Zenon
<1>1. /\ Len(reqs) \in Nat /\ DOMAIN reqs = 1..Len(reqs) /\ reqs \in Seq(RequestType)
      /\ id \in 1..Len(reqs)
  <2>1. Len(reqs) \in Nat /\ DOMAIN reqs = 1..Len(reqs)
    BY Zenon, LenProperties DEF SInv, STypeOK
  <2> QED BY <1>0, <2>1 DEF SInv, STypeOK, Poll
<1>2. /\ reqs' = [reqs EXCEPT ![id] = Gone] /\ client' = [client EXCEPT ![c] = 0]
      /\ UNCHANGED <<kind, ring, sendCap, nextId, server, fetched, lost, crashes>>
  BY Zenon, <1>0 DEF Poll
<1>3. /\ reqs' \in Seq(RequestType) /\ Len(reqs') = Len(reqs) /\ DOMAIN reqs' = DOMAIN reqs
      /\ \A i \in 1..Len(reqs) : reqs'[i] = IF i = id THEN Gone ELSE reqs[i]
  BY Zenon, <1>1, <1>2, GoneIs, ExceptSeq
<1>4. TableSteps
  BY <1>1, <1>2, <1>3 DEF TableSteps
<1>5. STypeOK'
  BY <1>1, <1>2, <1>3 DEF SInv, STypeOK
<1>6. TableTrue'
  BY <1>2, <1>3 DEF SInv, TableTrue
<1>7. SomewhereTrue'
  BY Zenon, <1>1, <1>2, <1>3, <1>4, ServerSideKept DEF SInv, SomewhereTrue, InTable
<1>8. RepliesTrue'
  BY Zenon, <1>3, GoneIs DEF SInv, RepliesTrue
<1> QED BY Zenon, <1>2, <1>4, <1>5, <1>6, <1>7, <1>8, ServerSideKept DEF SInv

\* A client that stops polling changes nothing but its own state.
LEMMA GiveUpStep == ASSUME SInv, NEW c \in Clients, GiveUp(c) PROVE SInv'
<1>1. Len(reqs) \in Nat
  BY Zenon, LenProperties DEF SInv, STypeOK
<1>2. UNCHANGED <<kind, ring, sendCap, reqs, nextId, server, fetched, lost>>
  BY Zenon DEF GiveUp
<1>3. STypeOK'
  BY <1>1, <1>2 DEF SInv, STypeOK, GiveUp
<1>4. TableSteps
  BY Zenon, <1>2, SameTable DEF SInv
<1>5. TableTrue' /\ RepliesTrue'
  BY Zenon, <1>2 DEF SInv, TableTrue, RepliesTrue
<1>6. SomewhereTrue'
  BY Zenon, <1>2, <1>4, ServerSideKept DEF SInv, SomewhereTrue, InTable
<1> QED BY Zenon, <1>2, <1>3, <1>4, <1>5, <1>6, ServerSideKept DEF SInv

\* register_server: the new endpoint is empty, and what was in the old one was
\* lost when its server died.
LEMMA RegisterStep == ASSUME SInv, Register PROVE SInv'
<1>1. /\ ring' = EmptyRing /\ server' = Ready /\ UNCHANGED <<kind, reqs, nextId, fetched, client, lost>>
      /\ server = None \/ server = Dead
  BY Zenon DEF Register
<1>2. RingOK(ring') /\ Queue(ring') = <<>>
  BY Zenon, <1>1, EmptyRingOK
<1>3. Unread' = {} /\ InHand' = {} /\ InHand = {}
  BY <1>1, <1>2, EmptyQueue, UnreadIsIdsNext DEF InHand, Ready, None, Dead
<1>4. Unread \subseteq lost
  BY <1>1 DEF SInv, LostTrue, None, Dead
<1>5. Ready \in [at : {"none", "dead", "ready"} \cup Working, msg : Message] /\ Ready.at = "ready"
  BY Sizes DEF Ready, NoMessage, Message
<1>6. STypeOK'
  BY Zenon, <1>1, <1>2, <1>5 DEF SInv, STypeOK
<1>7. TableTrue' /\ RepliesTrue'
  BY Zenon, <1>1 DEF SInv, TableTrue, RepliesTrue
<1>8. RingTrue'
  BY Zenon, <1>2, EmptyQueue DEF RingTrue
<1>9. HandTrue' /\ LostTrue'
  BY Zenon, <1>1, <1>3, <1>5 DEF HandTrue, LostTrue, Working
<1>10. SomewhereTrue'
  BY Zenon, <1>1, <1>3, <1>4 DEF SInv, SomewhereTrue, InTable
<1> QED BY Zenon, <1>6, <1>7, <1>8, <1>9, <1>10 DEF SInv

\* The server dies: all it had before it is lost, and nothing else is.
LEMMA CrashStep == ASSUME SInv, Crash PROVE SInv'
<1>1. /\ server' = Dead /\ fetched' = NoData /\ lost' = lost \cup Unread \cup InHand
      /\ UNCHANGED <<kind, ring, sendCap, reqs, nextId, client>>
      /\ server.at \notin {"none", "dead"}
  BY Zenon DEF Crash
<1>2. Unread' = Unread /\ InHand' = {}
  BY Zenon, <1>1 DEF Unread, InHand, Dead
<1>3. Unread \subseteq 1..Len(reqs) /\ InHand \subseteq 1..Len(reqs)
  <2>1. Unread \subseteq 1..Len(reqs)
    <3>1. \A m \in MessagesIn(Queue(ring)) : m.id \in 1..Len(reqs)
      BY Zenon DEF SInv, RingTrue, MessageTrue
    <3>2. IdsIn(Queue(ring)) \subseteq 1..Len(reqs)
      BY Zenon, <3>1 DEF IdsIn, MessagesIn
    <3> QED BY Zenon, <3>2, UnreadIsIds DEF SInv, STypeOK
  <2>2. InHand \subseteq 1..Len(reqs)
    BY Zenon DEF SInv, STypeOK, HandTrue, MessageTrue, InHand, Working
  <2> QED BY Zenon, <2>1, <2>2
<1>4. /\ Dead \in [at : {"none", "dead", "ready"} \cup Working, msg : Message] /\ Dead.at = "dead"
      /\ NoData \in [obj : Objects \cup {NoObject}, n : Nat]
  BY Sizes DEF Dead, NoMessage, Message, NoData
<1>5. STypeOK'
  BY Zenon, <1>1, <1>3, <1>4 DEF SInv, STypeOK
<1>6. TableTrue' /\ RepliesTrue'
  BY Zenon, <1>1 DEF SInv, TableTrue, RepliesTrue
<1>7. TableSteps
  BY Zenon, <1>1, SameTable DEF SInv
<1>8. RingTrue'
  BY Zenon, <1>1, <1>7, MessagesStayTrue DEF SInv, RingTrue
<1>9. HandTrue' /\ LostTrue'
  BY Zenon, <1>1, <1>2, <1>4 DEF HandTrue, LostTrue, Working
<1>10. SomewhereTrue'
  BY Zenon, <1>1, <1>2 DEF SInv, SomewhereTrue, InTable
<1> QED BY Zenon, <1>5, <1>6, <1>8, <1>9, <1>10 DEF SInv
\* SYS_IPC_TRY_RECEIVE: the oldest message passes from the ring to the server.
LEMMA ReceiveStep == ASSUME SInv, Receive PROVE SInv'
<1> DEFINE q == Queue(ring)
<1>0. PICK m : m = Oldest(ring)
  BY Zenon
<1>1. /\ RingOK(ring) /\ ring.len > 0 /\ q \in Seq(Message) /\ Unread = IdsIn(q)
      /\ server = Ready /\ ring' = Dequeue(ring)
      /\ UNCHANGED <<kind, sendCap, reqs, nextId, fetched, client, lost>>
  BY Zenon, UnreadIsIds DEF SInv, STypeOK, Receive
<1>2. /\ RingOK(ring') /\ q # <<>> /\ m = q[1] /\ m \in Message /\ Queue(ring') = Tail(q)
  BY Zenon, <1>0, <1>1, DequeueTakesFirst
<1>3. /\ m \in MessagesIn(q) /\ m.id \in IdsIn(q) /\ MessagesIn(Queue(ring')) \subseteq MessagesIn(q)
      /\ IdsIn(Queue(ring')) = IdsIn(q) \ {m.id} /\ Increasing(Queue(ring'))
  BY Zenon, <1>1, <1>2, TailedQueue DEF SInv, RingTrue
<1>4. Unread' = Unread \ {m.id} /\ m.id \in Unread
  BY Zenon, <1>1, <1>2, <1>3, UnreadIsIdsNext
<1>5. PICK a \in Working : server' = [at |-> a, msg |-> m] /\ (a = "serve" <=> m.op \notin WriteOps)
  <2>1. server' = At(IF m.op \in WriteOps THEN "fetch" ELSE "serve", m)
    BY Zenon, <1>0 DEF Receive
  <2> QED BY Zenon, <2>1 DEF At, Working
<1>6. server'.at = a /\ server'.msg = m
  BY Zenon, <1>5
<1>7. STypeOK'
  BY Zenon, <1>1, <1>2, <1>5 DEF SInv, STypeOK
<1>8. TableTrue' /\ RepliesTrue'
  BY Zenon, <1>1 DEF SInv, TableTrue, RepliesTrue
<1>9. TableSteps
  BY Zenon, <1>1, SameTable DEF SInv
<1>10. RingTrue'
  BY Zenon, <1>1, <1>3, <1>9, MessagesStayTrue DEF SInv, RingTrue
<1>11. server.at = "ready" /\ Unread \cap lost = {}
  BY Zenon, <1>1 DEF SInv, LostTrue, Ready
<1>12. HandTrue'
  <2>1. MessageTrue(m)'
    BY Zenon, <1>3, <1>9, MessagesStayTrue DEF SInv, RingTrue
  <2>2. MessageTrue(server.msg)'
    BY Zenon, <1>6, <2>1 DEF MessageTrue, InTable
  <2>3. server'.msg.id \notin Unread' \cup lost'
    BY Zenon, <1>1, <1>4, <1>6, <1>11
  <2>4. ~(server'.at = "serve" /\ server'.msg.op \in {"lookup", "named"})
    BY Zenon, <1>5, <1>6 DEF WriteOps
  <2> QED BY Zenon, <2>2, <2>3, <2>4 DEF HandTrue
<1>13. LostTrue'
  BY Zenon, <1>1, <1>4, <1>6, <1>11 DEF LostTrue, Working
<1>14. SomewhereTrue'
  <2>1. InHand = {} /\ InHand' = {m.id}
    BY Zenon, <1>6, <1>11 DEF InHand, Working
  <2> QED BY Zenon, <1>1, <1>4, <2>1 DEF SInv, SomewhereTrue, InTable
<1> QED BY Zenon, <1>7, <1>8, <1>10, <1>12, <1>13, <1>14 DEF SInv

\* server_get_write_data: the server has the path or the data of the request it
\* works on, or the request is lost.
LEMMA FetchStep == ASSUME SInv, Fetch PROVE SInv'
<1>0. PICK id, n, drop :
         /\ id = server.msg.id
         /\ n = IF InTable(id) THEN Min({reqs[id].len, FetchMax}) ELSE 0
         /\ drop = (n = 0 /\ server.msg.op # "named")
  BY Zenon
<1>1. /\ server.at = "fetch"
      /\ server' = IF drop THEN Ready ELSE At("serve", server.msg)
      /\ fetched' = IF drop THEN NoData
                    ELSE [obj |-> IF n = 0 THEN NoObject ELSE reqs[id].obj, n |-> n]
      /\ lost' = IF drop THEN lost \cup {id} ELSE lost
      /\ UNCHANGED <<kind, ring, sendCap, reqs, nextId, client, crashes>>
  BY Zenon, <1>0 DEF Fetch
<1>2. /\ Len(reqs) \in Nat /\ DOMAIN reqs = 1..Len(reqs)
      /\ \A i \in 1..Len(reqs) : reqs[i] \in RequestType
  BY Zenon, LenProperties, ElementOfSeq DEF SInv, STypeOK
<1>3. MessageTrue(server.msg) /\ id \notin Unread \cup lost /\ id \in 1..Len(reqs)
  BY Zenon, <1>0, <1>1 DEF SInv, HandTrue, MessageTrue, Working
<1>4. n \in Nat
  <2>1. reqs[id].len \in Nat
    BY Zenon, <1>2, <1>3 DEF RequestType
  <2>2. FetchMax \in Nat
    BY Sizes
  <2> QED BY Zenon, <1>0, <2>1, <2>2, MinOfTwo
<1>5. n # 0 => reqs[id].obj = id
  BY Zenon, <1>0, <1>3 DEF SInv, TableTrue, InTable
<1>6. id \in Objects
  BY <1>2, <1>3, Sizes DEF SInv, STypeOK, Objects, Ids
<1>7. /\ server'.at = (IF drop THEN "ready" ELSE "serve")
      /\ ~drop => server'.msg = server.msg
      /\ server' \in [at : {"none", "dead", "ready"} \cup Working, msg : Message]
  <2>1. server.msg \in Message /\ NoMessage \in Message
    BY Sizes DEF SInv, STypeOK, NoMessage, Message
  <2> QED BY Zenon, <1>1, <2>1 DEF Ready, At, Working
<1>8. fetched' \in [obj : Objects \cup {NoObject}, n : Nat]
  BY Zenon, <1>1, <1>4, <1>5, <1>6 DEF NoData
<1>9. lost' \subseteq 1..Len(reqs)
  BY Zenon, <1>1, <1>3 DEF SInv, STypeOK
<1>10. STypeOK'
  BY Zenon, <1>1, <1>7, <1>8, <1>9 DEF SInv, STypeOK
<1>11. TableTrue' /\ RepliesTrue'
  BY Zenon, <1>1 DEF SInv, TableTrue, RepliesTrue
<1>12. TableSteps
  BY Zenon, <1>1, SameTable DEF SInv
<1>13. RingTrue'
  BY Zenon, <1>1, <1>12, MessagesStayTrue DEF SInv, RingTrue
<1>14. Unread' = Unread /\ Unread \cap lost = {}
  BY Zenon, <1>1 DEF SInv, LostTrue, Unread, Working
<1>15. HandTrue'
  <2> SUFFICES ASSUME ~drop PROVE HandTrue'
    BY Zenon, <1>7 DEF HandTrue, Working
  <2>1. MessageTrue(server.msg)'
    BY Zenon, <1>1, <1>3, <1>7 DEF MessageTrue, InTable
  <2>2. fetched'.obj \in {id, NoObject}
    BY Zenon, <1>1, <1>5
  <2>3. server'.msg.id \notin Unread' \cup lost'
    BY Zenon, <1>0, <1>1, <1>3, <1>7, <1>14
  <2> QED BY Zenon, <1>0, <1>7, <2>1, <2>2, <2>3 DEF HandTrue
<1>16. LostTrue'
  BY Zenon, <1>1, <1>3, <1>7, <1>14 DEF LostTrue, Working
<1>17. SomewhereTrue'
  <2>1. InHand = {id} /\ InHand' = IF drop THEN {} ELSE {id}
    BY Zenon, <1>0, <1>1, <1>7 DEF InHand
  <2> QED BY Zenon, <1>1, <1>14, <2>1 DEF SInv, SomewhereTrue, InTable
<1> QED BY Zenon, <1>10, <1>11, <1>13, <1>15, <1>16, <1>17 DEF SInv
\* server_reply: the entry of the id that the server was given gets the answer.
LEMMA ReplyStep == ASSUME SInv, NEW n \in Outcomes, Reply(n) PROVE SInv'
<1>0. PICK id, op, about, refused, known :
         /\ id = server.msg.id /\ op = server.msg.op
         /\ refused = (n = Silent \/ (kind = "net" /\ n = 0))
         /\ about = IF op \in {"lookup", "named"} THEN fetched.obj ELSE server.msg.obj
         /\ known = (InTable(id) /\ ~refused)
  BY Zenon
<1>1. /\ server.at = "serve"
      /\ reqs' = IF known THEN [reqs EXCEPT ![id] = Answer(@, op, about, n)] ELSE reqs
      /\ server' = Ready /\ fetched' = NoData
      /\ lost' = IF refused THEN lost \cup {id} ELSE lost
      /\ UNCHANGED <<kind, ring, sendCap, nextId, client, crashes>>
  BY Zenon, <1>0 DEF Reply
<1>2. /\ Len(reqs) \in Nat /\ DOMAIN reqs = 1..Len(reqs) /\ reqs \in Seq(RequestType)
      /\ \A i \in 1..Len(reqs) : reqs[i] \in RequestType
  BY Zenon, LenProperties, ElementOfSeq DEF SInv, STypeOK
<1>3. MessageTrue(server.msg) /\ id \notin Unread \cup lost /\ id \in 1..Len(reqs)
  BY Zenon, <1>0, <1>1 DEF SInv, HandTrue, MessageTrue, Working
<1>4. kind \in {"file", "net"} /\ op \in Ops[kind] /\ op \in AnyOp /\ id \in Objects
  BY <1>0, <1>2, <1>3, GoneIs, Sizes DEF SInv, STypeOK, MessageTrue, Objects, Ids
<1>5. about \in {id, NoObject}
  BY Zenon, <1>0, <1>1, <1>3 DEF SInv, HandTrue, MessageTrue, Working
<1>6. n \in Nat
  BY <1>0, <1>4, Sizes DEF Outcomes, Silent, SInv, STypeOK
<1>7. PICK a : a = Answer(reqs[id], op, about, n)
  BY Zenon
<1>8. /\ a \in RequestType /\ a.op = reqs[id].op /\ a.obj = reqs[id].obj
      /\ a.len = n /\ a.answer.op = op /\ a.answer.obj = about /\ a.answer.n = n
  <2>1. reqs[id] \in RequestType /\ about \in Objects \cup {NoObject}
    BY Zenon, <1>2, <1>3, <1>4, <1>5
  <2> QED BY Zenon, <1>4, <1>6, <1>7, <2>1 DEF Answer, RequestType
<1>9. a.ready
  BY Zenon, <1>2, <1>3, <1>7 DEF Answer, RequestType
<1>10. /\ reqs' \in Seq(RequestType) /\ Len(reqs') = Len(reqs) /\ DOMAIN reqs' = DOMAIN reqs
       /\ \A i \in 1..Len(reqs) : reqs'[i] = IF known /\ i = id THEN a ELSE reqs[i]
  <2>1. reqs' = IF known THEN [reqs EXCEPT ![id] = a] ELSE reqs
    BY Zenon, <1>1, <1>7
  <2> QED BY Zenon, <1>2, <1>3, <1>8, <2>1, ExceptSeq
<1>11. known => /\ reqs[id] # Gone /\ reqs[id].op = op /\ reqs[id].obj = id
  BY Zenon, <1>0, <1>3 DEF SInv, TableTrue, InTable, MessageTrue
<1>12. a # Gone
  BY Zenon, <1>8, <1>9, GoneIs
<1>13. TableSteps
  BY <1>1, <1>2, <1>8, <1>10, <1>11 DEF TableSteps
<1>14. /\ Ready \in [at : {"none", "dead", "ready"} \cup Working, msg : Message] /\ Ready.at = "ready"
       /\ NoData \in [obj : Objects \cup {NoObject}, n : Nat]
  BY Sizes DEF Ready, NoMessage, Message, NoData
<1>15. STypeOK'
  BY Zenon, <1>1, <1>3, <1>10, <1>14 DEF SInv, STypeOK
<1>16. TableTrue'
  BY <1>1, <1>3, <1>4, <1>8, <1>10, <1>11 DEF SInv, TableTrue
<1>17. RingTrue'
  BY Zenon, <1>1, <1>13, MessagesStayTrue DEF SInv, RingTrue
<1>18. Unread' = Unread /\ Unread \cap lost = {}
  BY Zenon, <1>1 DEF SInv, LostTrue, Unread, Working
<1>19. HandTrue' /\ LostTrue'
  BY Zenon, <1>1, <1>3, <1>14, <1>18 DEF HandTrue, LostTrue, Working
<1>20. SomewhereTrue'
  <2>1. InHand = {id} /\ InHand' = {}
    BY Zenon, <1>0, <1>1, <1>14 DEF InHand
  <2>2. ASSUME NEW i \in 1..Len(reqs), InTable(i)', ~reqs'[i].ready PROVE i \in Unread \cup lost'
    <3>1. CASE i # id
      BY Zenon, <1>1, <1>2, <1>10, <2>1, <2>2, <3>1 DEF SInv, SomewhereTrue, InTable
    <3>2. CASE i = id
      <4>1. ~known
        BY Zenon, <1>9, <1>10, <2>2, <3>2
      <4>2. InTable(id)
        BY Zenon, <1>10, <2>2, <3>2, <4>1 DEF InTable
      <4> QED BY Zenon, <1>0, <1>1, <3>2, <4>1, <4>2
    <3> QED BY Zenon, <3>1, <3>2
  <2> QED BY Zenon, <1>10, <1>18, <2>1, <2>2 DEF SomewhereTrue
<1>21. RepliesTrue'
  <2>1. ASSUME NEW i \in 1..Len(reqs), reqs'[i].ready
        PROVE  /\ reqs'[i].answer.op = reqs'[i].op
               /\ reqs'[i].answer.obj \in {reqs'[i].obj, NoObject}
               /\ reqs'[i].op = "write" => reqs'[i].len = reqs'[i].answer.n
    <3>1. CASE known /\ i = id
      <4>1. reqs'[i] = a /\ a.answer.op = a.op /\ a.len = a.answer.n
        BY Zenon, <1>8, <1>10, <1>11, <3>1
      <4>2. a.answer.obj \in {a.obj, NoObject}
        BY Zenon, <1>5, <1>8, <1>11, <3>1
      <4> QED BY Zenon, <4>1, <4>2
    <3>2. CASE ~(known /\ i = id)
      BY Zenon, <1>10, <2>1, <3>2 DEF SInv, RepliesTrue
    <3> QED BY Zenon, <3>1, <3>2
  <2> QED BY Zenon, <1>10, <2>1 DEF RepliesTrue
<1> QED BY Zenon, <1>15, <1>16, <1>17, <1>19, <1>20, <1>21 DEF SInv
-----------------------------------------------------------------------------
\* An idle kernel: no server, an empty table.
LEMMA ServiceInit == Init => SInv
<1> SUFFICES ASSUME Init PROVE SInv
  BY Zenon
<1>1. RingOK(ring) /\ Queue(ring) = <<>>
  BY Zenon, EmptyRingOK DEF Init
<1>2. reqs \in Seq(RequestType) /\ Len(reqs) = 0
  BY Zenon, EmptySeq DEF Init
<1>3. /\ None \in [at : {"none", "dead", "ready"} \cup Working, msg : Message] /\ None.at = "none"
      /\ NoData \in [obj : Objects \cup {NoObject}, n : Nat]
  BY Sizes DEF None, NoMessage, Message, NoData
<1>4. STypeOK
  BY <1>1, <1>2, <1>3, Sizes DEF Init, STypeOK
<1>5. TableTrue /\ SomewhereTrue /\ RepliesTrue
  BY <1>2 DEF TableTrue, SomewhereTrue, RepliesTrue
<1>6. Unread = {} /\ RingTrue
  BY Zenon, <1>1, EmptyQueue, UnreadIsIds DEF RingTrue
<1>7. HandTrue /\ LostTrue
  BY Zenon, <1>3, <1>6 DEF Init, HandTrue, LostTrue, Working
<1> QED BY Zenon, <1>4, <1>5, <1>6, <1>7 DEF SInv

LEMMA ServiceStep == SInv /\ [Next]_svars => SInv'
<1> SUFFICES ASSUME SInv, [Next]_svars PROVE SInv'
  BY Zenon
<1>1. CASE \E c \in Clients :
             \/ \E op \in Ops[kind] :
                   \E len \in DataLengths(op), max \in BufSizes(op) : Request(c, op, len, max)
             \/ Poll(c)
             \/ GiveUp(c)
  BY Zenon, <1>1, RequestStep, PollStep, GiveUpStep
<1>2. CASE Register \/ Crash
  BY Zenon, <1>2, RegisterStep, CrashStep
<1>3. CASE Serve
  BY Zenon, <1>3, ReceiveStep, FetchStep, ReplyStep DEF Serve
<1>4. CASE UNCHANGED svars
  <2>1. UNCHANGED <<kind, ring, sendCap, reqs, nextId, server, fetched, client, lost>>
    BY Zenon, <1>4 DEF svars
  <2>2. TableSteps
    BY Zenon, <2>1, SameTable DEF SInv
  <2>3. STypeOK' /\ TableTrue' /\ RepliesTrue'
    BY Zenon, <2>1 DEF SInv, STypeOK, TableTrue, RepliesTrue
  <2>4. SomewhereTrue'
    BY Zenon, <2>1, <2>2, ServerSideKept DEF SInv, SomewhereTrue, InTable
  <2> QED BY Zenon, <2>1, <2>2, <2>3, <2>4, ServerSideKept DEF SInv
<1> QED BY Zenon, <1>1, <1>2, <1>3, <1>4 DEF Next

\* The relations between the request table, the ring, the server's hands and the
\* lost requests hold in every reachable state.
THEOREM ServiceInvariant == Spec => []SInv
  BY ServiceInit, ServiceStep, PTL DEF Spec

\* For every number of clients, every ring size and every number of requests and
\* server deaths: a request that waits for its answer is in exactly one of the
\* ring, the server's hands and the lost ones (file_service.rs, net_service.rs).
THEOREM RequestsAccounted == Spec => []Accounted
<1>1. SInv => Accounted
  <2> SUFFICES ASSUME SInv, NEW id \in DOMAIN reqs, InTable(id), ~reqs[id].ready
               PROVE  \E place \in Places : \A p \in Places : IsAt(id, p) <=> p = place
    BY Zenon DEF Accounted
  <2>1. id \in Unread \cup InHand \cup lost
    <3>1. id \in 1..Len(reqs)
      BY Zenon, LenProperties DEF SInv, STypeOK
    <3> QED BY Zenon, <3>1 DEF SInv, SomewhereTrue
  <2>2. InHand \cap (Unread \cup lost) = {}
    BY Zenon DEF SInv, STypeOK, HandTrue, InHand
  <2> QED BY Zenon, <2>1, <2>2 DEF IsAt, Places
<1> QED BY <1>1, ServiceInvariant, PTL

\* For the same parameters: a reply answers the operation and the object its
\* request asked about, and a writer is told the length the server reported.
THEOREM RepliesMatch == Spec => []AnswersMatch
<1>1. SInv => AnswersMatch
  <2> SUFFICES ASSUME SInv, NEW id \in DOMAIN reqs, reqs[id].ready
               PROVE  /\ reqs[id].answer.op = reqs[id].op
                      /\ reqs[id].answer.obj \in {reqs[id].obj, NoObject}
                      /\ reqs[id].op = "write" => PollValue(reqs[id]) = reqs[id].answer.n
    BY Zenon DEF AnswersMatch
  <2>1. id \in 1..Len(reqs) /\ reqs[id] \in RequestType
    BY LenProperties, ElementOfSeq DEF SInv, STypeOK
  <2>2. /\ reqs[id].answer.op = reqs[id].op
        /\ reqs[id].answer.obj \in {reqs[id].obj, NoObject}
        /\ reqs[id].op = "write" => reqs[id].len = reqs[id].answer.n
    BY Zenon, <2>1 DEF SInv, RepliesTrue
  <2>3. ASSUME reqs[id].op = "write" PROVE PollValue(reqs[id]) = reqs[id].len
    <3>1. kind = "file"
      <4>1. reqs[id].op \in Ops[kind] /\ kind \in {"file", "net"}
        BY Zenon, <2>1, <2>3, GoneIs DEF SInv, TableTrue, STypeOK
      <4> QED BY <2>3, <4>1 DEF Ops
    <3>2. reqs[id].len \in Nat /\ reqs[id].max \in Nat
      BY Zenon, <2>1 DEF RequestType
    <3>3. Min({reqs[id].len, reqs[id].max})
            = IF reqs[id].len <= reqs[id].max THEN reqs[id].len ELSE reqs[id].max
      BY Zenon, <3>2, MinOfTwo
    <3> QED BY <2>3, <3>1, <3>2, <3>3 DEF PollValue, WriteOps
  <2> QED BY Zenon, <2>2, <2>3
<1> QED BY <1>1, ServiceInvariant, PTL

\* The ring with its wrapping head and tail implements the bounded first-in
\* first-out queue its users count on, for every queue depth: no message is
\* overwritten, skipped, repeated or reordered (ipc.rs, try_send, try_receive).
THEOREM RingImplementsMailbox == Spec => Fifo
<1>1. Init => FifoQueue!Init
  BY Zenon, EmptyRingOK DEF Init, FifoQueue!Init
<1>2. SInv /\ [Next]_svars => [FifoQueue!Put \/ FifoQueue!Take \/ FifoQueue!Renew]_(Queue(ring))
  <2> SUFFICES ASSUME SInv, [Next]_svars
               PROVE  \/ FifoQueue!Put \/ FifoQueue!Take \/ FifoQueue!Renew
                      \/ Queue(ring)' = Queue(ring)
    BY Zenon
  <2>0. RingOK(ring) /\ Queue(ring) \in Seq(Message) /\ Len(Queue(ring)) = ring.len
    BY Zenon, UnreadIsIds DEF SInv, STypeOK
  <2>1. ASSUME NEW c \in Clients, NEW op \in Ops[kind],
               NEW len \in DataLengths(op), NEW max \in BufSizes(op), Request(c, op, len, max)
        PROVE  FifoQueue!Put \/ Queue(ring)' = Queue(ring)
    <3>1. CASE Full(ring)
      BY Zenon, <2>1, <3>1 DEF Request
    <3>2. CASE ~Full(ring)
      <4>1. PICK m : m = Pack(nextId, op, nextId)
        BY Zenon
      <4>2. m \in Message
        <5>1. kind \in {"file", "net"} /\ nextId \in Ids
          <6>1. Len(reqs) \in Nat
            BY Zenon, LenProperties DEF SInv, STypeOK
          <6> QED BY <2>1, <6>1, Sizes DEF SInv, STypeOK, Request, Ids
        <5>2. op \in AnyOp /\ nextId % IdSpace \in 0..(IdSpace - 1)
          BY <5>1, AskedSizes, Sizes DEF Ids
        <5> QED BY Zenon, <4>1, <5>1, <5>2 DEF Pack, Message, AnyOp, Objects, NoObject
      <4>3. ring' = Enqueue(ring, m)
        BY Zenon, <2>1, <3>2, <4>1 DEF Request
      <4>4. Queue(ring)' = Append(Queue(ring), m)
        BY Zenon, <2>0, <3>2, <4>2, <4>3, EnqueueAppends
      <4>5. Len(Queue(ring)') = Len(Queue(ring)) + 1 /\ SubSeq(Queue(ring)', 1, Len(Queue(ring))) = Queue(ring)
        <5>1. \A q \in Seq(Message) : Len(Append(q, m)) = Len(q) + 1 /\ SubSeq(Append(q, m), 1, Len(q)) = q
          BY <4>2
        <5> QED BY Zenon, <2>0, <4>4, <5>1
      <4>6. Len(Queue(ring)) < QueueDepth
        BY <2>0, <3>2, Sizes DEF Full, RingOK
      <4> QED BY Zenon, <4>5, <4>6 DEF FifoQueue!Put
    <3> QED BY Zenon, <3>1, <3>2
  <2>2. ASSUME Receive PROVE FifoQueue!Take
    <3>1. ring.len > 0 /\ ring' = Dequeue(ring)
      BY Zenon, <2>2 DEF Receive
    <3> QED BY Zenon, <2>0, <3>1, DequeueTakesFirst DEF FifoQueue!Take
  <2>3. ASSUME Register PROVE FifoQueue!Renew
    BY Zenon, <2>3, EmptyRingOK DEF Register, FifoQueue!Renew
  <2>4. ASSUME ring' = ring PROVE Queue(ring)' = Queue(ring)
    BY Zenon, <2>4
  <2>5. ASSUME \/ \E c \in Clients : Poll(c) \/ GiveUp(c)
               \/ Crash \/ Fetch \/ (\E n \in Outcomes : Reply(n)) \/ UNCHANGED svars
        PROVE  ring' = ring
    BY Zenon, <2>5 DEF Poll, GiveUp, Crash, Fetch, Reply, svars
  <2> QED BY Zenon, <2>1, <2>2, <2>3, <2>4, <2>5 DEF Next, Serve
<1> QED BY <1>1, <1>2, ServiceInvariant, PTL DEF Spec, Fifo, FifoQueue!Spec


-----------------------------------------------------------------------------
(* The TCP client.  Sequence numbers are compared with nothing but the     *)
(* stack's own counters, so the invariant says where those counters stand  *)
(* in the peer's stream, and what every segment the peer ever sent in the  *)
(* current connection says about it.  All of it lapses with `crossed'.     *)

UnitSet == Nat \X Nat
Data == Seq(UnitSet)

FlagSets == SUBSET {"SYN", "ACK", "PSH", "FIN", "RST"}

SegmentType == [to : {"stack", "peer"}, flags : SUBSET {"SYN", "ACK", "PSH", "FIN", "RST"},
                seq : Nat, ack : Nat, data : Data, era : Nat]

Stages == {"idle", "arp", "syn", "send", "recv", "reply", "close", "finwait", "drain"}
Ends == {"none", "reset", "full", "fin", "overtaken", "timeout"}

ConnType == [at : Stages, tries : Nat, sendNext : Nat, recvNext : Nat, open : BOOLEAN, era : Nat,
             end : Ends]

PeerType == [era : Nat, state : {"listen", "asked", "done"}, rcvNxt : Nat, sent : Nat, len : Nat]

\* The peer p in its current connection.
PeerOK(p) ==
  /\ p \in PeerType
  /\ p.sent <= p.len
  /\ p.state = "listen" => p.len = 0

\* What a segment of the peer's current connection tells of the peer.
FromPeer(m, p) ==
  /\ m.ack <= p.rcvNxt
  /\ "SYN" \in m.flags => m.seq = PeerIsn(m.era)
  /\ m.data # <<>> =>
       /\ m.seq > PeerIsn(m.era)
       /\ m.data = Units(m.era, m.seq - PeerIsn(m.era), m.seq - PeerIsn(m.era) + Len(m.data) - 1)
       /\ m.seq - PeerIsn(m.era) + Len(m.data) - 1 <= p.sent
       /\ p.state # "listen"
  /\ "FIN" \in m.flags =>
       /\ m.seq + Len(m.data) = PeerIsn(m.era) + 1 + p.len
       /\ p.sent = p.len /\ p.state = "done"

SegmentOK(m, p, era) ==
  /\ m \in SegmentType
  /\ m.era <= era
  /\ m.to = "stack" => m.era <= p.era /\ (m.era = p.era => FromPeer(m, p))

\* Where the stack's counters stand.
ConnOK(c, g, p) ==
  /\ c \in ConnType /\ g \in Data
  /\ p.era <= c.era
  /\ c.at \notin {"recv", "reply"} => g = <<>>
  /\ c.at \in {"syn", "send"} => c.sendNext = Isn + 1
  /\ c.at \in {"send", "recv", "reply"} => p.era = c.era
  /\ c.at \in {"send", "recv"} => c.recvNext = PeerIsn(c.era) + 1 + Len(g)
  /\ c.at \in {"recv", "reply"} => p.rcvNxt > Isn + 1 /\ g = Units(c.era, 1, Len(g))
  /\ c.at = "recv" => Len(g) < BufLen
  /\ c.at = "reply" /\ c.end \in {"fin", "full"} =>
       Len(g) = Least2(BufLen, p.len) /\ p.state # "listen"

Standing ==
  /\ ConnOK(conn, got, peer)
  /\ PeerOK(peer)
  /\ \A m \in wire : SegmentOK(m, peer, conn.era)

TcpInv == ~crossed => Standing

LEMMA UnitsAre ==
  ASSUME NEW e \in Nat, NEW a \in Nat, NEW b \in Nat, a > 0, a <= b + 1
  PROVE  /\ Units(e, a, b) \in Data
         /\ Len(Units(e, a, b)) = b + 1 - a
         /\ \A k \in 1..(b + 1 - a) : Units(e, a, b)[k] = Unit(e, a - 1 + k)
  <1> DEFINE n == b + 1 - a
             u == [k \in 1..n |-> Unit(e, a - 1 + k)]
  <1>1. Units(e, a, b) = u
    BY Zenon DEF Units
  <1>2. n \in Nat
    OBVIOUS
  <1> HIDE DEF n
  <1>3. \A k \in 1..n : Unit(e, a - 1 + k) \in UnitSet
    BY <1>2 DEF Unit, UnitSet
  <1>4. u \in Seq(UnitSet)
    BY <1>2, <1>3
  <1>5. Len(u) = n
    BY <1>2
  <1>6. \A k \in 1..n : u[k] = Unit(e, a - 1 + k)
    BY Zenon
  <1> QED BY Zenon, <1>1, <1>4, <1>5, <1>6 DEF Data, n

LEMMA StreamIs ==
  ASSUME NEW e \in Nat, NEW n \in Nat
  PROVE  /\ Units(e, 1, n) \in Data /\ Len(Units(e, 1, n)) = n
         /\ \A k \in 1..n : Units(e, 1, n)[k] = Unit(e, k)
  <1>1. 1 \in Nat /\ 1 > 0 /\ 1 <= n + 1
    OBVIOUS
  <1>2. /\ Units(e, 1, n) \in Data /\ Len(Units(e, 1, n)) = n + 1 - 1
        /\ \A k \in 1..(n + 1 - 1) : Units(e, 1, n)[k] = Unit(e, 1 - 1 + k)
    BY ZenonT(40), <1>1, UnitsAre
  <1>3. n + 1 - 1 = n /\ \A k \in 1..n : 1 - 1 + k = k
    OBVIOUS
  <1> QED BY Zenon, <1>2, <1>3

\* The next units of the stream, as many as are taken, continue it.
LEMMA UnitsJoin ==
  ASSUME NEW e \in Nat, NEW n \in Nat, NEW l \in Nat, NEW r \in 0..l
  PROVE  /\ Units(e, 1, n) \o SubSeq(Units(e, n + 1, n + l), 1, r) = Units(e, 1, n + r)
         /\ Len(Units(e, 1, n) \o SubSeq(Units(e, n + 1, n + l), 1, r)) = n + r
  <1> DEFINE g == Units(e, 1, n)
             d == Units(e, n + 1, n + l)
  <1>1. g \in Data /\ Len(g) = n /\ \A k \in 1..n : g[k] = Unit(e, k)
    BY Zenon, StreamIs
  <1>2. d \in Data /\ Len(d) = l /\ \A k \in 1..l : d[k] = Unit(e, n + k)
    <2>1. PICK a \in Nat, b \in Nat : a = n + 1 /\ b = n + l
      OBVIOUS
    <2>2. a > 0 /\ a <= b + 1 /\ b + 1 - a = l /\ \A k \in 1..l : a - 1 + k = n + k
      BY <2>1
    <2>3. d = Units(e, a, b)
      BY Zenon, <2>1
    <2>4. a > 0 /\ a <= b + 1
      BY Zenon, <2>2
    <2>5. /\ Units(e, a, b) \in Data /\ Len(Units(e, a, b)) = b + 1 - a
          /\ \A k \in 1..(b + 1 - a) : Units(e, a, b)[k] = Unit(e, a - 1 + k)
      BY ZenonT(40), <2>4, UnitsAre
    <2> QED BY Zenon, <2>2, <2>3, <2>5
  <1> DEFINE u == Units(e, 1, n + r)
             s == SubSeq(d, 1, r)
             w == g \o s
  <1>3. u \in Data /\ Len(u) = n + r /\ \A k \in 1..(n + r) : u[k] = Unit(e, k)
    <2>1. n + r \in Nat
      OBVIOUS
    <2> QED BY Zenon, <2>1, StreamIs
  <1>4. s \in Data /\ Len(s) = r /\ \A k \in 1..r : s[k] = d[k]
    BY <1>2 DEF Data
  <1> HIDE DEF u, s, g, d
  <1>5. w \in Seq(UnitSet)
    BY <1>1, <1>4 DEF Data
  <1>6. Len(w) = n + r /\ \A k \in 1..(n + r) : w[k] = IF k <= n THEN g[k] ELSE s[k - n]
    <2>1. g \in Seq(UnitSet) /\ s \in Seq(UnitSet) /\ Len(g) = n /\ Len(s) = r
      BY Zenon, <1>1, <1>4 DEF Data
    <2>2. Len(w) = n + r
      BY <2>1
    <2>3. ASSUME NEW k \in 1..(n + r) PROVE w[k] = IF k <= n THEN g[k] ELSE s[k - n]
      BY <2>1
    <2> QED BY Zenon, <2>2, <2>3
  <1> HIDE DEF w
  <1>7. \A k \in 1..(n + r) : w[k] = Unit(e, k)
    <2> SUFFICES ASSUME NEW k \in 1..(n + r) PROVE w[k] = Unit(e, k)
      BY Zenon
    <2>0. w[k] = IF k <= n THEN g[k] ELSE s[k - n]
      BY Zenon, <1>6
    <2>1. CASE k <= n
      <3>1. k \in 1..n
        BY <2>1
      <3> QED BY Zenon, <1>1, <2>0, <2>1, <3>1
    <2>2. CASE ~(k <= n)
      <3>1. k - n \in 1..r /\ k - n \in 1..l /\ n + (k - n) = k
        BY <2>2
      <3>2. s[k - n] = d[k - n] /\ d[k - n] = Unit(e, n + (k - n))
        BY Zenon, <1>2, <1>4, <3>1
      <3> QED BY Zenon, <2>0, <2>2, <3>1, <3>2
    <2> QED BY Zenon, <2>1, <2>2
  <1>8. w = u
    BY <1>3, <1>5, <1>6, <1>7 DEF Data
  <1> QED BY Zenon, <1>6, <1>8 DEF u, s, w, g, d

LEMMA IsnNat == \A e \in Nat : PeerIsn(e) \in Nat
  BY DEF PeerIsn

LEMMA TcpInitial == TcpInit => TcpInv
  BY SMTT(40) DEF TcpInit, TcpInv, Standing, ConnOK, ConnType, Stages, Ends, Data, PeerOK, PeerType, NoConn

\* A step of the stack: the peer does not move, and what is put on the wire is
\* for the peer and of the stack's own connection.
LEMMA StackSends ==
  ASSUME NEW w, NEW x, NEW p, NEW E \in Nat, NEW F \in Nat, E <= F,
         \A m \in w : SegmentOK(m, p, E),
         \A m \in x \ w : m \in SegmentType /\ m.to = "peer" /\ m.era <= F
  PROVE  \A m \in x : SegmentOK(m, p, F)
  <1> SUFFICES ASSUME NEW m \in x PROVE SegmentOK(m, p, F)
    BY Zenon
  <1>1. CASE m \in w
    <2>1. SegmentOK(m, p, E)
      BY Zenon, <1>1
    <2>2. m.era \in Nat
      BY Zenon, <2>1 DEF SegmentOK, SegmentType
    <2> QED BY <2>1, <2>2 DEF SegmentOK
  <1>2. CASE m \notin w
    <2>1. m \in SegmentType /\ m.to = "peer" /\ m.era <= F
      BY Zenon, <1>2
    <2>2. "peer" # "stack"
      BY Zenon
    <2> QED BY Zenon, <2>1, <2>2 DEF SegmentOK
  <1> QED BY Zenon, <1>1, <1>2

\* How the peer moves within a connection.
Moves(p, q) ==
  /\ q.era = p.era /\ q.rcvNxt >= p.rcvNxt /\ q.sent >= p.sent
  /\ p.state # "listen" => q.state # "listen" /\ q.len = p.len
  /\ p.state = "done" => q.state = "done" /\ q.sent = p.sent

LEMMA SegmentsKept ==
  ASSUME NEW p \in PeerType, NEW q \in PeerType, Moves(p, q), NEW E \in Nat,
         NEW m, SegmentOK(m, p, E)
  PROVE  SegmentOK(m, q, E)
  <1>1. m \in SegmentType
    BY Zenon DEF SegmentOK
  <1>2. PeerIsn(m.era) \in Nat
    BY Zenon, <1>1, IsnNat DEF SegmentType
  <1>3. ASSUME m.to = "stack", m.era = p.era, FromPeer(m, p) PROVE FromPeer(m, q)
    <2>1. m.ack <= q.rcvNxt
      BY <1>1, <1>3 DEF FromPeer, Moves, SegmentType, PeerType
    <2>2. ASSUME m.data # <<>> PROVE /\ m.seq - PeerIsn(m.era) + Len(m.data) - 1 <= q.sent
                                     /\ q.state # "listen"
      <3>1. Len(m.data) \in Nat /\ m.seq \in Nat
        BY <1>1 DEF SegmentType, Data
      <3>2. m.seq - PeerIsn(m.era) + Len(m.data) - 1 <= p.sent /\ p.state # "listen"
        BY Zenon, <1>3, <2>2 DEF FromPeer
      <3>3. q.sent >= p.sent /\ q.state # "listen"
        BY Zenon, <3>2 DEF Moves
      <3>4. p.sent \in Nat /\ q.sent \in Nat
        BY Zenon DEF PeerType
      <3> QED BY <1>2, <3>1, <3>2, <3>3, <3>4
    <2>3. ASSUME "FIN" \in m.flags PROVE /\ m.seq + Len(m.data) = PeerIsn(m.era) + 1 + q.len
                                         /\ q.sent = q.len /\ q.state = "done"
      <3>1. /\ m.seq + Len(m.data) = PeerIsn(m.era) + 1 + p.len
            /\ p.sent = p.len /\ p.state = "done" /\ p.state # "listen"
        BY Zenon, <1>3, <2>3 DEF FromPeer
      <3> QED BY Zenon, <3>1 DEF Moves
    <2> QED BY Zenon, <1>3, <2>1, <2>2, <2>3 DEF FromPeer
  <1> QED BY Zenon, <1>3 DEF SegmentOK, Moves

LEMMA ConnKept ==
  ASSUME NEW c, NEW g, NEW p \in PeerType, NEW q \in PeerType, Moves(p, q), ConnOK(c, g, p)
  PROVE  ConnOK(c, g, q)
  <1>1. q.era = p.era
    BY Zenon DEF Moves
  <1>2. p.rcvNxt > Isn + 1 => q.rcvNxt > Isn + 1
    BY DEF Moves, PeerType, Isn
  <1>3. p.state # "listen" => q.state # "listen" /\ q.len = p.len
    BY Zenon DEF Moves
  <1> QED BY Zenon, <1>1, <1>2, <1>3 DEF ConnOK

LEMMA StackStands ==
  ASSUME Standing, peer' = peer, conn'.era \in Nat, conn.era <= conn'.era,
         ConnOK(conn', got', peer),
         \A m \in wire' \ wire : m \in SegmentType /\ m.to = "peer" /\ m.era <= conn'.era
  PROVE  Standing'
  <1>1. conn.era \in Nat
    BY Zenon DEF Standing, ConnOK, ConnType
  <1>2. \A m \in wire : SegmentOK(m, peer, conn.era)
    BY Zenon DEF Standing
  <1>3. \A m \in wire' : SegmentOK(m, peer, conn'.era)
    BY Zenon, <1>1, <1>2, StackSends
  <1>4. ConnOK(conn', got', peer') /\ \A m \in wire' : SegmentOK(m, peer', conn'.era)
    BY Zenon, <1>3
  <1>5. PeerOK(peer')
    BY Zenon DEF Standing
  <1> QED BY Zenon, <1>4, <1>5 DEF Standing

\* The steps that take no segment.
LEMMA StackAlone ==
  ASSUME Standing,
         \/ TakeRequest \/ ArpResolve \/ SynAttempt \/ SynGivenUp \/ SendAttempt \/ SendGivenUp
         \/ RecvTimeout \/ SendReply \/ CloseFin
  PROVE  Standing'
  <1>0. /\ conn \in ConnType /\ got \in Data /\ peer.era <= conn.era /\ <<>> \in Data
        /\ peer.era \in Nat
    BY DEF Standing, ConnOK, PeerOK, PeerType, Data
  <1>a. ConnOK(conn, got, peer)
    BY Zenon DEF Standing
  <1>b. "none" \in Ends /\ "timeout" \in Ends /\ "idle" \in Stages /\ "arp" \in Stages /\ "syn" \in Stages
    BY Zenon DEF Ends, Stages
  <1>c. "close" \in Stages /\ "reply" \in Stages /\ "finwait" \in Stages /\ "drain" \in Stages
    BY Zenon DEF Ends, Stages
  <1>d. Isn + 1 \in Nat /\ 0 \in Nat
    BY DEF Isn
  <1>e. conn.era + 1 \in Nat /\ conn.sendNext + 1 \in Nat
    BY <1>0 DEF ConnType
  <1>1. CASE TakeRequest
    <2>1. conn' \in ConnType /\ conn'.at = "arp" /\ conn'.era = conn.era + 1 /\ conn.at = "idle"
      <3>1. conn' = [conn EXCEPT !.at = "arp", !.era = @ + 1] /\ conn.at = "idle"
        BY Zenon, <1>1 DEF TakeRequest
      <3>2. conn' = [conn EXCEPT !.at = "arp", !.era = conn.era + 1]
        BY Zenon, <1>0, <3>1 DEF ConnType
      <3> QED BY Zenon, <1>0, <1>b, <1>e, <3>1, <3>2 DEF ConnType
    <2>2. got' = got /\ peer' = peer /\ wire' = wire
      BY Zenon, <1>1 DEF TakeRequest
    <2>3. conn.era \in Nat /\ peer.era <= conn'.era /\ conn'.era \in Nat /\ conn.era <= conn'.era
      BY <1>0, <1>b, <1>c, <2>1 DEF ConnType
    <2>4. ConnOK(conn', got', peer)
      BY Zenon, <1>0, <1>a, <2>1, <2>2, <2>3 DEF ConnOK
    <2> QED BY Zenon, <2>2, <2>3, <2>4, StackStands
  <1>2. ASSUME ConnectFailed, conn.at \in {"arp", "syn"} PROVE Standing'
    <2>1. conn' \in ConnType /\ conn'.at = "idle" /\ conn'.era = conn.era
      BY Zenon, <1>0, <1>b, <1>2 DEF ConnectFailed, NoConn, ConnType
    <2>2. got' = got /\ peer' = peer /\ wire' = wire /\ got = <<>>
      BY Zenon, <1>a, <1>2 DEF ConnectFailed, ConnOK
    <2>3. conn.era \in Nat /\ conn'.era \in Nat /\ conn.era <= conn'.era
      BY <1>0, <1>b, <1>c, <2>1 DEF ConnType
    <2>4. ConnOK(conn', got', peer)
      BY Zenon, <1>0, <1>a, <2>1, <2>2, <2>3 DEF ConnOK
    <2> QED BY Zenon, <2>2, <2>3, <2>4, StackStands
  <1>3. CASE SynGivenUp
    BY Zenon, <1>2, <1>3 DEF SynGivenUp
  <1>4. CASE ArpResolve
    <2>1. CASE ConnectFailed
      BY Zenon, <1>2, <1>4, <2>1 DEF ArpResolve
    <2>2. CASE ~ConnectFailed
      <3>1. conn' = [conn EXCEPT !.at = "syn", !.tries = 0, !.sendNext = Isn + 1,
                                 !.recvNext = 0, !.open = TRUE]
            /\ got' = got /\ peer' = peer /\ wire' = wire /\ conn.at = "arp"
        BY Zenon, <1>4, <2>2 DEF ArpResolve
      <3>2. conn' \in ConnType /\ conn'.at = "syn" /\ conn'.era = conn.era /\ conn'.sendNext = Isn + 1
        BY Zenon, <1>0, <1>b, <1>d, <3>1 DEF ConnType
      <3>3. conn.era \in Nat /\ conn'.era \in Nat /\ conn.era <= conn'.era
        BY <1>0, <3>2 DEF ConnType
      <3>4. ConnOK(conn', got', peer)
        BY Zenon, <1>0, <1>a, <3>1, <3>2, <3>3 DEF ConnOK
      <3> QED BY Zenon, <3>1, <3>3, <3>4, StackStands
    <2> QED BY Zenon, <2>1, <2>2
  <1>5. CASE SynAttempt \/ SendAttempt
    <2>1. /\ conn' = [conn EXCEPT !.tries = @ + 1]
          /\ got' = got /\ peer' = peer /\ conn.at \in {"syn", "send"}
      BY Zenon, <1>5 DEF SynAttempt, SendAttempt
    <2>2. /\ conn' \in ConnType /\ conn'.at = conn.at /\ conn'.era = conn.era
          /\ conn'.sendNext = conn.sendNext /\ conn'.recvNext = conn.recvNext
      BY <1>0, <1>b, <1>c, <2>1 DEF ConnType
    <2>3. conn.era \in Nat /\ conn'.era \in Nat /\ conn.era <= conn'.era
      BY <1>0, <2>2 DEF ConnType
    <2>4. ConnOK(conn', got', peer)
      BY Zenon, <1>0, <1>a, <2>1, <2>2, <2>3 DEF ConnOK
    <2>5. \E m : wire' = wire \cup {m} /\ m \in SegmentType /\ m.to = "peer" /\ m.era = conn.era
      <3>1. CASE SynAttempt
        <4>1. Segment("peer", {"SYN"}, Isn, 0, <<>>, conn.era) \in SegmentType
          BY Zenon, <1>0, <2>3 DEF Segment, SegmentType, Isn
        <4>2. /\ Segment("peer", {"SYN"}, Isn, 0, <<>>, conn.era).to = "peer"
              /\ Segment("peer", {"SYN"}, Isn, 0, <<>>, conn.era).era = conn.era
          BY Zenon DEF Segment
        <4> QED BY Zenon, <3>1, <4>1, <4>2 DEF SynAttempt, Sent
      <3>2. CASE SendAttempt
        <4>1. <<Unit(conn.era, 0)>> \in Data
          BY <2>3 DEF Data, Unit, UnitSet
        <4>2. conn.sendNext \in Nat /\ conn.recvNext \in Nat
          BY Zenon, <1>0 DEF ConnType
        <4>3. Out({"PSH", "ACK"}, conn, <<Unit(conn.era, 0)>>) \in SegmentType
          BY Zenon, <2>3, <4>1, <4>2 DEF Out, Segment, SegmentType
        <4>4. /\ Out({"PSH", "ACK"}, conn, <<Unit(conn.era, 0)>>).to = "peer"
              /\ Out({"PSH", "ACK"}, conn, <<Unit(conn.era, 0)>>).era = conn.era
          BY Zenon DEF Segment, Out
        <4> QED BY Zenon, <3>2, <4>3, <4>4 DEF SendAttempt, Sent
      <3> QED BY Zenon, <1>5, <3>1, <3>2
    <2>6. \A m \in wire' \ wire : m \in SegmentType /\ m.to = "peer" /\ m.era <= conn'.era
      BY Zenon, <2>2, <2>3, <2>5
    <2> QED BY Zenon, <2>1, <2>3, <2>4, <2>6, StackStands
  <1>6. CASE SendGivenUp
    <2>1. /\ conn' = [conn EXCEPT !.at = "close"] /\ conn.at = "send"
          /\ got' = got /\ peer' = peer /\ wire' = wire
      BY Zenon, <1>6 DEF SendGivenUp
    <2>2. conn' \in ConnType /\ conn'.at = "close" /\ conn'.era = conn.era /\ got' = <<>>
      BY Zenon, <1>0, <1>a, <1>c, <2>1 DEF ConnType, ConnOK
    <2>3. conn.era \in Nat /\ conn'.era \in Nat /\ conn.era <= conn'.era
      BY <1>0, <2>2 DEF ConnType
    <2>4. ConnOK(conn', got', peer)
      BY Zenon, <1>0, <2>2, <2>3 DEF ConnOK
    <2> QED BY Zenon, <2>1, <2>3, <2>4, StackStands
  <1>7. CASE RecvTimeout
    <2>1. /\ conn' = [conn EXCEPT !.at = "reply", !.end = "timeout"] /\ conn.at = "recv"
          /\ got' = got /\ peer' = peer /\ wire' = wire
      BY Zenon, <1>7 DEF RecvTimeout
    <2>2. conn' \in ConnType /\ conn'.at = "reply" /\ conn'.era = conn.era /\ conn'.end = "timeout"
      BY Zenon, <1>0, <1>b, <1>c, <2>1 DEF ConnType
    <2>3. conn.era \in Nat /\ conn'.era \in Nat /\ conn.era <= conn'.era
      BY <1>0, <2>2 DEF ConnType
    <2>4. ConnOK(conn', got', peer)
      BY Zenon, <1>0, <1>a, <2>1, <2>2, <2>3 DEF ConnOK
    <2> QED BY Zenon, <2>1, <2>3, <2>4, StackStands
  <1>8. CASE SendReply
    <2>1. /\ conn' = IF conn.open THEN [conn EXCEPT !.at = "close", !.end = "none"] ELSE NoConn(conn.era)
          /\ got' = <<>> /\ peer' = peer /\ wire' = wire
      BY Zenon, <1>8 DEF SendReply
    <2>2. conn' \in ConnType /\ conn'.at \in {"close", "idle"} /\ conn'.era = conn.era
      BY Zenon, <1>0, <1>b, <1>c, <2>1 DEF ConnType, NoConn
    <2>3. conn.era \in Nat /\ conn'.era \in Nat /\ conn.era <= conn'.era
      BY <1>0, <2>2 DEF ConnType
    <2>4. ConnOK(conn', got', peer)
      BY Zenon, <1>0, <1>a, <2>1, <2>2, <2>3 DEF ConnOK
    <2> QED BY Zenon, <2>1, <2>3, <2>4, StackStands
  <1>9. CASE CloseFin
    <2>1. /\ conn.at = "close" /\ got' = got /\ peer' = peer
          /\ \/ /\ wire' = wire \cup {Out({"FIN", "ACK"}, conn, <<>>)}
                /\ conn' = [conn EXCEPT !.at = "finwait", !.sendNext = @ + 1]
             \/ conn' = [conn EXCEPT !.at = "drain"] /\ wire' = wire
      BY Zenon, <1>9 DEF CloseFin, Sent
    <2>2. conn' \in ConnType /\ conn'.at \in {"finwait", "drain"} /\ conn'.era = conn.era /\ got' = <<>>
      <3>1. got' = <<>>
        BY Zenon, <1>a, <2>1 DEF ConnOK
      <3>2. CASE conn' = [conn EXCEPT !.at = "finwait", !.sendNext = @ + 1]
        <4>1. conn' = [conn EXCEPT !.at = "finwait", !.sendNext = conn.sendNext + 1]
          BY Zenon, <1>0, <3>2 DEF ConnType
        <4> QED BY Zenon, <1>0, <1>c, <1>e, <3>1, <4>1 DEF ConnType
      <3>3. CASE conn' = [conn EXCEPT !.at = "drain"]
        BY Zenon, <1>0, <1>c, <3>1, <3>3 DEF ConnType
      <3> QED BY Zenon, <2>1, <3>2, <3>3
    <2>3. conn.era \in Nat /\ conn'.era \in Nat /\ conn.era <= conn'.era
      BY <1>0, <2>2 DEF ConnType
    <2>4. ConnOK(conn', got', peer)
      BY Zenon, <1>0, <2>2, <2>3 DEF ConnOK
    <2>5. \A m \in wire' \ wire : m \in SegmentType /\ m.to = "peer" /\ m.era <= conn'.era
      <3>1. conn.sendNext \in Nat /\ conn.recvNext \in Nat
        BY Zenon, <1>0 DEF ConnType
      <3> QED BY <1>0, <2>1, <2>2, <2>3, <3>1 DEF Out, Segment, SegmentType
    <2> QED BY Zenon, <2>1, <2>3, <2>4, <2>5, StackStands
  <1> QED BY Zenon, <1>1, <1>3, <1>4, <1>5, <1>6, <1>7, <1>8, <1>9

\* A segment the stack takes without crossing connections is one the peer sent
\* in the connection both are in.
LEMMA TakenOwn ==
  ASSUME Standing, NEW m, Take(m), ~crossed'
  PROVE  m \in SegmentType /\ m.era = conn.era /\ peer.era = conn.era /\ FromPeer(m, peer)
  <1>1. m \in wire /\ m.to = "stack" /\ m.era = conn.era
    BY Zenon DEF Take, Arrived
  <1>2. SegmentOK(m, peer, conn.era) /\ ConnOK(conn, got, peer) /\ PeerOK(peer)
    BY Zenon, <1>1 DEF Standing
  <1>3. m \in SegmentType /\ m.era <= peer.era /\ (m.era = peer.era => FromPeer(m, peer))
    BY Zenon, <1>1, <1>2 DEF SegmentOK
  <1>4. peer.era \in Nat /\ conn.era \in Nat /\ peer.era <= conn.era
    BY Zenon, <1>2 DEF ConnOK, ConnType, PeerOK, PeerType
  <1>5. peer.era = conn.era
    BY <1>1, <1>3, <1>4
  <1> QED BY Zenon, <1>1, <1>3, <1>5

LEMMA SynAckedStep ==
  ASSUME Standing, NEW m, SynAcked(m), ~crossed'
  PROVE  Standing'
  <1>1. m \in SegmentType /\ m.era = conn.era /\ peer.era = conn.era /\ FromPeer(m, peer)
    BY Zenon, TakenOwn DEF SynAcked
  <1>2. conn \in ConnType /\ got \in Data /\ ConnOK(conn, got, peer)
    BY Zenon DEF Standing, ConnOK
  <1>3. /\ conn.at = "syn" /\ "SYN" \in m.flags /\ got' = got /\ peer' = peer
        /\ conn' = [conn EXCEPT !.at = "send", !.tries = 0, !.recvNext = m.seq + 1]
        /\ wire' = wire \cup {Out({"ACK"}, conn', <<>>)}
    BY Zenon DEF SynAcked, Sent
  <1>4. m.seq = PeerIsn(conn.era) /\ m.seq + 1 \in Nat /\ 0 \in Nat
    BY <1>1, <1>3 DEF FromPeer, SegmentType
  <1>5. "send" \in Stages
    BY Zenon DEF Stages
  <1>6. /\ conn' \in ConnType /\ conn'.at = "send" /\ conn'.era = conn.era
        /\ conn'.recvNext = m.seq + 1 /\ conn'.sendNext = conn.sendNext
    BY Zenon, <1>2, <1>3, <1>4, <1>5 DEF ConnType
  <1>7. got = <<>> /\ conn.sendNext = Isn + 1
    BY Zenon, <1>2, <1>3 DEF ConnOK
  <1>8. conn.era \in Nat /\ conn'.era \in Nat /\ conn.era <= conn'.era /\ PeerIsn(conn.era) \in Nat
    BY <1>2, <1>6, IsnNat DEF ConnType
  <1>9. ConnOK(conn', got', peer)
    <2>1. conn'.recvNext = PeerIsn(conn'.era) + 1 + Len(got')
      BY <1>3, <1>4, <1>6, <1>7, <1>8
    <2> QED BY Zenon, <1>1, <1>2, <1>3, <1>6, <1>7, <1>8, <2>1 DEF ConnOK
  <1>10. \A x \in wire' \ wire : x \in SegmentType /\ x.to = "peer" /\ x.era <= conn'.era
    <2>1. conn'.sendNext \in Nat /\ conn'.recvNext \in Nat /\ <<>> \in Data
      BY <1>6 DEF ConnType, Data
    <2>2. Out({"ACK"}, conn', <<>>) \in SegmentType
      BY Zenon, <1>8, <2>1 DEF Out, Segment, SegmentType
    <2>3. Out({"ACK"}, conn', <<>>).to = "peer" /\ Out({"ACK"}, conn', <<>>).era = conn'.era
      BY Zenon DEF Out, Segment
    <2>4. conn'.era <= conn'.era
      BY <1>8
    <2> QED BY Zenon, <1>3, <2>2, <2>3, <2>4
  <1> QED BY Zenon, <1>3, <1>8, <1>9, <1>10, StackStands

LEMMA SendAckedStep ==
  ASSUME Standing, NEW m, SendAcked(m), ~crossed'
  PROVE  Standing'
  <1>1. m \in SegmentType /\ m.era = conn.era /\ peer.era = conn.era /\ FromPeer(m, peer)
    BY Zenon, TakenOwn DEF SendAcked
  <1>2. conn \in ConnType /\ got \in Data /\ ConnOK(conn, got, peer) /\ peer \in PeerType
    BY Zenon DEF Standing, ConnOK, PeerOK
  <1>3. /\ conn.at = "send" /\ m.ack = conn.sendNext + 1 /\ got' = got /\ peer' = peer /\ wire' = wire
        /\ conn' = [conn EXCEPT !.at = "recv", !.sendNext = @ + 1]
    BY Zenon DEF SendAcked, AckOfRequest
  <1>4. "recv" \in Stages /\ conn.sendNext + 1 \in Nat
    BY <1>2 DEF Stages, ConnType
  <1>5. /\ conn' \in ConnType /\ conn'.at = "recv" /\ conn'.era = conn.era
        /\ conn'.recvNext = conn.recvNext
    <2>1. conn' = [conn EXCEPT !.at = "recv", !.sendNext = conn.sendNext + 1]
      BY Zenon, <1>2, <1>3 DEF ConnType
    <2> QED BY Zenon, <1>2, <1>4, <2>1 DEF ConnType
  <1>6. got = <<>> /\ conn.sendNext = Isn + 1 /\ conn.recvNext = PeerIsn(conn.era) + 1 + Len(got)
    BY Zenon, <1>2, <1>3 DEF ConnOK
  <1>7. peer.rcvNxt > Isn + 1
    <2>1. m.ack <= peer.rcvNxt /\ peer.rcvNxt \in Nat
      BY Zenon, <1>1, <1>2 DEF FromPeer, PeerType
    <2> QED BY <1>3, <1>6, <2>1 DEF Isn
  <1>8. conn.era \in Nat /\ conn'.era \in Nat /\ conn.era <= conn'.era
    BY <1>2, <1>5 DEF ConnType
  <1>9. got = Units(conn.era, 1, Len(got)) /\ Len(got) < BufLen
    <2>1. Len(got) = 0 /\ Len(got) < BufLen
      BY <1>6, TcpAssumption
    <2>2. 0 \in Nat
      BY Zenon
    <2>3. Units(conn.era, 1, 0) \in Data /\ Len(Units(conn.era, 1, 0)) = 0
      BY Zenon, <1>8, <2>2, StreamIs
    <2>4. Units(conn.era, 1, 0) = <<>>
      BY <2>3 DEF Data
    <2> QED BY Zenon, <1>6, <2>1, <2>4
  <1>10. ConnOK(conn', got', peer)
    BY Zenon, <1>1, <1>2, <1>3, <1>5, <1>6, <1>7, <1>8, <1>9 DEF ConnOK
  <1> QED BY Zenon, <1>3, <1>8, <1>10, StackStands

\* What tcp_recv leaves and sends for a segment.
LEMMA ReceivedIs ==
  ASSUME Standing, NEW m, m \in SegmentType
  PROVE  /\ Received(m) \in ConnType /\ Received(m).at = conn.at /\ Received(m).era = conn.era
         /\ Received(m).end = conn.end
         /\ IsNextData(m) => Received(m).recvNext = conn.recvNext + Len(m.data)
         /\ Out({"ACK"}, Received(m), <<>>) \in SegmentType
         /\ Out({"ACK"}, Received(m), <<>>).to = "peer"
         /\ Out({"ACK"}, Received(m), <<>>).era = conn.era
  <1>1. conn \in ConnType
    BY Zenon DEF Standing, ConnOK
  <1>2. Len(m.data) \in Nat /\ m.seq + 1 \in Nat
    BY DEF SegmentType, Data
  <1> DEFINE next == IF IsNextData(m) THEN conn.recvNext + Len(m.data)
                     ELSE IF IsFin(m) THEN m.seq + 1 ELSE conn.recvNext
             still == conn.open /\ IsNextData(m)
  <1>3. conn.recvNext \in Nat /\ conn.recvNext + Len(m.data) \in Nat /\ conn.open \in BOOLEAN
    BY <1>1, <1>2 DEF ConnType
  <1>4. next \in Nat
    BY Zenon, <1>2, <1>3
  <1>5. still \in BOOLEAN
    BY Zenon
  <1>6. Received(m) = [conn EXCEPT !.recvNext = next, !.open = still]
    BY Zenon, <1>1 DEF Received, ConnType
  <1>7. IsNextData(m) => next = conn.recvNext + Len(m.data)
    BY Zenon
  <1> HIDE DEF next, still
  <1>8. /\ Received(m) \in ConnType /\ Received(m).at = conn.at /\ Received(m).era = conn.era
        /\ Received(m).end = conn.end /\ Received(m).recvNext = next
    BY Zenon, <1>1, <1>4, <1>5, <1>6 DEF ConnType
  <1>9. Received(m).sendNext \in Nat /\ Received(m).recvNext \in Nat /\ Received(m).era \in Nat
    BY Zenon, <1>8 DEF ConnType
  <1>10. <<>> \in Data
    BY DEF Data
  <1>11. /\ Out({"ACK"}, Received(m), <<>>) \in SegmentType
         /\ Out({"ACK"}, Received(m), <<>>).to = "peer"
         /\ Out({"ACK"}, Received(m), <<>>).era = Received(m).era
    BY Zenon, <1>9, <1>10 DEF Out, Segment, SegmentType
  <1> QED BY Zenon, <1>7, <1>8, <1>11

\* The bytes copied out of the next segment continue the stream.
LEMMA CopiedContinues ==
  ASSUME Standing, NEW m \in SegmentType, m.era = conn.era, peer.era = conn.era, FromPeer(m, peer),
         conn.at = "recv", IsNextData(m)
  PROVE  /\ got \o Copied(m) = Units(conn.era, 1, Len(got \o Copied(m)))
         /\ got \o Copied(m) \in Data
         /\ Len(got \o Copied(m)) <= BufLen
         /\ Len(got \o Copied(m)) <= peer.len
         /\ Len(got \o Copied(m)) < BufLen => Len(got \o Copied(m)) = Len(got) + Len(m.data)
  <1> DEFINE n == Len(got)
             l == Len(m.data)
             room == BufLen - n
             r == IF l < room THEN l ELSE room
             e == conn.era
             d == m.data
  <1>1. /\ conn \in ConnType /\ got \in Data /\ peer \in PeerType /\ peer.sent <= peer.len
        /\ conn.recvNext = PeerIsn(e) + 1 + n /\ got = Units(e, 1, n) /\ n < BufLen
    BY Zenon DEF Standing, ConnOK, PeerOK
  <1>a. e \in Nat /\ n \in Nat /\ l \in Nat
    BY <1>1 DEF ConnType, Data, SegmentType
  <1>b. BufLen \in Nat
    BY Zenon, TcpAssumption
  <1>2. e \in Nat /\ n \in Nat /\ l \in Nat /\ BufLen \in Nat /\ PeerIsn(e) \in Nat
    BY Zenon, <1>a, <1>b, IsnNat
  <1>3. /\ m.seq = conn.recvNext /\ m.data # <<>>
        /\ m.data = Units(m.era, m.seq - PeerIsn(m.era), m.seq - PeerIsn(m.era) + l - 1)
        /\ m.seq - PeerIsn(m.era) + l - 1 <= peer.sent
    BY Zenon DEF IsNextData, FromPeer
  <1>c. m.seq = PeerIsn(m.era) + 1 + n /\ PeerIsn(m.era) \in Nat
    BY Zenon, <1>1, <1>2, <1>3
  <1> HIDE DEF n, l
  <1>4. m.seq - PeerIsn(m.era) = n + 1
    BY <1>2, <1>c
  <1>5. m.seq - PeerIsn(m.era) + l - 1 = n + l
    BY <1>2, <1>4
  <1>6. d = Units(e, n + 1, n + l)
    BY Zenon, <1>3, <1>4, <1>5
  <1>7. n + l <= peer.sent /\ peer.sent \in Nat /\ peer.len \in Nat
    BY Zenon, <1>1, <1>3, <1>5 DEF PeerType
  <1>8. r \in 0..l /\ n + r <= BufLen /\ n + r <= peer.len /\ (n + r < BufLen => r = l)
    BY <1>1, <1>2, <1>7
  <1>9. Copied(m) = SubSeq(d, 1, r)
    BY Zenon DEF Copied, n, l
  <1> HIDE DEF r, e, d
  <1>d. r \in 0..l
    BY Zenon, <1>8
  <1>e. /\ Units(e, 1, n) \o SubSeq(Units(e, n + 1, n + l), 1, r) = Units(e, 1, n + r)
        /\ Len(Units(e, 1, n) \o SubSeq(Units(e, n + 1, n + l), 1, r)) = n + r
    BY ZenonT(40), <1>2, <1>d, UnitsJoin
  <1>f. got = Units(e, 1, n)
    BY Zenon, <1>1
  <1>10. got \o SubSeq(d, 1, r) = Units(e, 1, n + r) /\ Len(got \o SubSeq(d, 1, r)) = n + r
    BY Zenon, <1>6, <1>e, <1>f
  <1>11. n + r \in Nat
    BY <1>2, <1>8
  <1>12. Units(e, 1, n + r) \in Data
    BY Zenon, <1>2, <1>11, StreamIs
  <1> QED BY Zenon, <1>8, <1>9, <1>10, <1>12 DEF n, l, e

LEMMA RecvStep ==
  ASSUME Standing, NEW m, RecvLoop(m), ~crossed'
  PROVE  Standing'
  <1> DEFINE more == IsNextData(m) /\ Len(got') < BufLen
             place == IF more THEN "recv" ELSE "reply"
             why == IF more THEN conn.end ELSE EndOf(m)
  <1>1. /\ conn.at = "recv" /\ Take(m) /\ peer' = peer
        /\ got' = IF IsNextData(m) THEN got \o Copied(m) ELSE got
        /\ IsReset(m) \/ IsNextData(m) \/ IsFin(m)
        /\ wire' = IF IsReset(m) THEN wire ELSE wire \cup {Out({"ACK"}, Received(m), <<>>)}
    BY Zenon DEF RecvLoop, RecvSegment
  <1>2. conn' = [Received(m) EXCEPT !.at = place, !.end = IF more THEN @ ELSE EndOf(m)]
    BY Zenon DEF RecvLoop, RecvSegment
  <1>3. m \in SegmentType /\ m.era = conn.era /\ peer.era = conn.era /\ FromPeer(m, peer)
    BY Zenon, <1>1, TakenOwn
  <1>4. /\ Received(m) \in ConnType /\ Received(m).at = conn.at /\ Received(m).era = conn.era
        /\ Received(m).end = conn.end
        /\ IsNextData(m) => Received(m).recvNext = conn.recvNext + Len(m.data)
    BY Zenon, <1>3, ReceivedIs
  <1>5. /\ conn \in ConnType /\ got \in Data /\ peer \in PeerType /\ conn.era \in Nat
        /\ conn.recvNext = PeerIsn(conn.era) + 1 + Len(got) /\ got = Units(conn.era, 1, Len(got))
        /\ Len(got) < BufLen /\ peer.rcvNxt > Isn + 1
    BY Zenon, <1>1 DEF Standing, ConnOK, PeerOK, ConnType
  <1>6. place \in Stages /\ EndOf(m) \in Ends /\ conn.end \in Ends
    BY Zenon, <1>5 DEF Stages, Ends, EndOf, ConnType
  <1>7. why \in Ends /\ place \in {"recv", "reply"} /\ (place = "recv" <=> more)
    BY Zenon, <1>6
  <1>8. conn' = [Received(m) EXCEPT !.at = place, !.end = why]
    BY Zenon, <1>2, <1>4 DEF ConnType
  <1> HIDE DEF place, why
  <1>9. /\ conn' \in ConnType /\ conn'.at = place /\ conn'.era = conn.era /\ conn'.end = why
        /\ conn'.recvNext = Received(m).recvNext
    BY Zenon, <1>4, <1>6, <1>7, <1>8 DEF ConnType
  <1>10. /\ got' \in Data /\ got' = Units(conn.era, 1, Len(got')) /\ Len(got') \in Nat
         /\ more => conn'.recvNext = PeerIsn(conn.era) + 1 + Len(got')
         /\ ~more /\ IsNextData(m) => Len(got') = Least2(BufLen, peer.len) /\ peer.state # "listen"
    <2>1. CASE IsNextData(m)
      <3>1. /\ got' = Units(conn.era, 1, Len(got')) /\ got' \in Data
            /\ Len(got') <= BufLen /\ Len(got') <= peer.len
            /\ Len(got') < BufLen => Len(got') = Len(got) + Len(m.data)
        BY Zenon, <1>1, <1>3, <2>1, CopiedContinues
      <3>2. Len(got') \in Nat /\ Len(got) \in Nat /\ Len(m.data) \in Nat /\ BufLen \in Nat /\ peer.len \in Nat
        BY <1>3, <1>5, <3>1, TcpAssumption DEF Data, SegmentType, PeerType
      <3>3. PeerIsn(conn.era) \in Nat
        BY Zenon, <1>5, IsnNat
      <3>4. more => conn'.recvNext = PeerIsn(conn.era) + 1 + Len(got')
        <4>1. conn'.recvNext = (PeerIsn(conn.era) + 1 + Len(got)) + Len(m.data)
          BY Zenon, <1>4, <1>5, <1>9, <2>1
        <4>2. ASSUME Len(got') = Len(got) + Len(m.data)
              PROVE  conn'.recvNext = PeerIsn(conn.era) + 1 + Len(got')
          <5>1. (PeerIsn(conn.era) + 1 + Len(got)) + Len(m.data) = PeerIsn(conn.era) + 1 + (Len(got) + Len(m.data))
            BY Zenon, <3>2, <3>3, CountsOn
          <5> QED BY Zenon, <4>1, <4>2, <5>1
        <4> QED BY Zenon, <3>1, <4>2
      <3>5. ~more => Len(got') = Least2(BufLen, peer.len)
        BY <2>1, <3>1, <3>2 DEF Least2
      <3>6. peer.state # "listen"
        BY Zenon, <1>3, <2>1 DEF FromPeer, IsNextData
      <3> QED BY Zenon, <3>1, <3>2, <3>4, <3>5, <3>6
    <2>2. CASE ~IsNextData(m)
      <3>1. Len(got) \in Nat
        BY <1>5 DEF Data
      <3> QED BY Zenon, <1>1, <1>5, <2>2, <3>1
    <2> QED BY Zenon, <2>1, <2>2
  <1>11. ~more /\ ~IsNextData(m) /\ why \in {"fin", "full"} =>
           Len(got') = Least2(BufLen, peer.len) /\ peer.state # "listen"
    <2> SUFFICES ASSUME ~more, ~IsNextData(m), why \in {"fin", "full"}
                 PROVE  Len(got') = Least2(BufLen, peer.len) /\ peer.state # "listen"
      BY Zenon
    <2>1. why = EndOf(m) /\ got' = got
      BY Zenon, <1>1 DEF why
    <2>2. ~IsReset(m) /\ m.seq + Len(m.data) = conn.recvNext
      BY Zenon, <2>1 DEF EndOf
    <2>3. "FIN" \in m.flags
      BY Zenon, <1>1, <2>2 DEF IsFin
    <2>4. m.seq + Len(m.data) = PeerIsn(conn.era) + 1 + peer.len /\ peer.state = "done"
      BY Zenon, <1>3, <2>3 DEF FromPeer
    <2>5. PeerIsn(conn.era) \in Nat /\ peer.len \in Nat /\ Len(got) \in Nat /\ BufLen \in Nat
      <3>1. PeerIsn(conn.era) \in Nat
        BY Zenon, <1>5, IsnNat
      <3>2. peer.len \in Nat /\ Len(got) \in Nat
        BY <1>5 DEF PeerType, Data
      <3>3. BufLen \in Nat
        BY Zenon, TcpAssumption
      <3> QED BY Zenon, <3>1, <3>2, <3>3
    <2>6. Len(got) = peer.len
      BY <1>5, <2>2, <2>4, <2>5
    <2>7. Len(got') = Least2(BufLen, peer.len)
      BY <1>5, <2>1, <2>5, <2>6 DEF Least2
    <2> QED BY Zenon, <2>4, <2>7
  <1>12. more => Len(got') < BufLen
    BY Zenon
  <1> HIDE DEF more
  <1>13. conn'.era \in Nat /\ conn.era <= conn'.era
    BY <1>5, <1>9
  <1>14. ConnOK(conn', got', peer)
    <2>1. peer.era <= conn'.era /\ peer.era = conn'.era
      BY Zenon, <1>3, <1>9, <1>13
    <2>2. conn'.at \in {"recv", "reply"} /\ conn'.at # "syn" /\ conn'.at # "send"
      BY Zenon, <1>7, <1>9
    <2>3. conn'.at = "recv" => more
      BY Zenon, <1>7, <1>9
    <2>4. conn'.at = "reply" => ~more
      BY Zenon, <1>7, <1>9
    <2> QED BY Zenon, <1>5, <1>9, <1>10, <1>11, <1>12, <2>1, <2>2, <2>3, <2>4 DEF ConnOK
  <1>15. \A x \in wire' \ wire : x \in SegmentType /\ x.to = "peer" /\ x.era <= conn'.era
    <2>1. /\ Out({"ACK"}, Received(m), <<>>) \in SegmentType
          /\ Out({"ACK"}, Received(m), <<>>).to = "peer"
          /\ Out({"ACK"}, Received(m), <<>>).era = conn.era
      BY Zenon, <1>3, ReceivedIs
    <2> QED BY Zenon, <1>1, <1>13, <2>1
  <1> QED BY Zenon, <1>1, <1>13, <1>14, <1>15, StackStands

LEMMA CloseSteps ==
  ASSUME Standing, CloseAck \/ CloseDrain, ~crossed'
  PROVE  Standing'
  <1>0. /\ conn \in ConnType /\ got \in Data /\ ConnOK(conn, got, peer) /\ conn.era \in Nat
        /\ peer.era <= conn.era /\ conn.era <= conn.era
    BY DEF Standing, ConnOK, ConnType
  <1>a. "drain" \in Stages /\ "idle" \in Stages /\ "none" \in Ends
    BY Zenon DEF Stages, Ends
  <1>1. CASE CloseAck
    <2>1. /\ conn' = [conn EXCEPT !.at = "drain"] /\ got' = got /\ peer' = peer /\ wire' = wire
          /\ conn.at = "finwait"
      BY Zenon, <1>1 DEF CloseAck
    <2>2. conn' \in ConnType /\ conn'.at = "drain" /\ conn'.era = conn.era
      BY Zenon, <1>0, <1>a, <2>1 DEF ConnType
    <2>3. got' = <<>>
      BY Zenon, <1>0, <2>1 DEF ConnOK
    <2>4. ConnOK(conn', got', peer)
      BY Zenon, <1>0, <2>1, <2>2, <2>3 DEF ConnOK
    <2> QED BY Zenon, <1>0, <2>1, <2>2, <2>4, StackStands
  <1>2. CASE CloseDrain
    <2>1. conn.at = "drain" /\ got' = got /\ peer' = peer /\ conn' = NoConn(conn.era)
      BY Zenon, <1>2 DEF CloseDrain, RecvSegment
    <2>2. conn' \in ConnType /\ conn'.at = "idle" /\ conn'.era = conn.era
      BY Zenon, <1>0, <1>a, <2>1 DEF ConnType, NoConn
    <2>3. got' = <<>>
      BY Zenon, <1>0, <2>1 DEF ConnOK
    <2>4. ConnOK(conn', got', peer)
      BY Zenon, <1>0, <2>1, <2>2, <2>3 DEF ConnOK
    <2>5. \A x \in wire' \ wire : x \in SegmentType /\ x.to = "peer" /\ x.era <= conn'.era
      <3>1. CASE wire' = wire
        BY Zenon, <3>1
      <3>2. ASSUME NEW m \in Arrived, RecvSegment(m, NoConn(conn.era))
            PROVE  \A x \in wire' \ wire : x \in SegmentType /\ x.to = "peer" /\ x.era <= conn'.era
        <4>1. m \in SegmentType
          BY Zenon, <3>2, TakenOwn DEF RecvSegment
        <4>2. /\ Out({"ACK"}, Received(m), <<>>) \in SegmentType
              /\ Out({"ACK"}, Received(m), <<>>).to = "peer"
              /\ Out({"ACK"}, Received(m), <<>>).era = conn.era
          BY Zenon, <4>1, ReceivedIs
        <4> QED BY Zenon, <1>0, <2>2, <3>2, <4>2 DEF RecvSegment
      <3> QED BY Zenon, <1>2, <3>1, <3>2 DEF CloseDrain
    <2> QED BY Zenon, <1>0, <2>1, <2>2, <2>4, <2>5, StackStands
  <1> QED BY Zenon, <1>1, <1>2

\* A step of the peer within its connection.
LEMMA PeerStands ==
  ASSUME Standing, conn' = conn, got' = got, PeerOK(peer'), Moves(peer, peer'),
         \A m \in wire' \ wire : SegmentOK(m, peer', conn.era)
  PROVE  Standing'
  <1>1. /\ ConnOK(conn, got, peer) /\ peer \in PeerType /\ peer' \in PeerType
        /\ \A m \in wire : SegmentOK(m, peer, conn.era)
    BY Zenon DEF Standing, PeerOK
  <1>2. conn.era \in Nat
    BY Zenon, <1>1 DEF ConnOK, ConnType
  <1>3. ConnOK(conn, got, peer')
    BY Zenon, <1>1, ConnKept
  <1>4. \A m \in wire : SegmentOK(m, peer', conn.era)
    BY Zenon, <1>1, <1>2, SegmentsKept
  <1>5. ConnOK(conn', got', peer') /\ \A m \in wire' : SegmentOK(m, peer', conn'.era)
    BY Zenon, <1>3, <1>4
  <1> QED BY Zenon, <1>5 DEF Standing

\* The type of what the peer sends.
LEMMA PeerOutIs ==
  ASSUME NEW p \in PeerType, NEW flags \in FlagSets,
         NEW data \in Data, NEW k \in Nat
  PROVE  /\ PeerOut(flags, p, data, k) \in SegmentType
         /\ PeerOut(flags, p, data, k).to = "stack" /\ PeerOut(flags, p, data, k).flags = flags
         /\ PeerOut(flags, p, data, k).seq = PeerIsn(p.era) + k
         /\ PeerOut(flags, p, data, k).ack = p.rcvNxt
         /\ PeerOut(flags, p, data, k).data = data
         /\ PeerOut(flags, p, data, k).era = p.era
  <1>1. p.era \in Nat /\ p.rcvNxt \in Nat
    BY Zenon DEF PeerType
  <1>2. PeerIsn(p.era) + k \in Nat
    BY <1>1 DEF PeerIsn
  <1> QED BY Zenon, <1>1, <1>2 DEF PeerOut, Segment, SegmentType, FlagSets

\* A segment without data.
LEMMA BareSegmentOK ==
  ASSUME NEW p \in PeerType, NEW q \in PeerType, p.era = q.era, p.rcvNxt <= q.rcvNxt,
         NEW flags \in FlagSets, NEW k \in Nat,
         NEW era \in Nat, p.era <= era,
         "SYN" \in flags => k = 0,
         "FIN" \in flags => k = 1 + q.len /\ q.sent = q.len /\ q.state = "done"
  PROVE  SegmentOK(PeerOut(flags, p, <<>>, k), q, era)
  <1> DEFINE m == PeerOut(flags, p, <<>>, k)
  <1>1. <<>> \in Data
    BY DEF Data
  <1>2. /\ m \in SegmentType /\ m.to = "stack" /\ m.flags = flags /\ m.seq = PeerIsn(p.era) + k
        /\ m.ack = p.rcvNxt /\ m.data = <<>> /\ m.era = p.era
    BY SMT, <1>1, PeerOutIs
  <1> HIDE DEF m
  <1>3. p.era \in Nat /\ q.len \in Nat /\ p.era <= q.era
    BY DEF PeerType
  <1>4. PeerIsn(p.era) \in Nat
    BY Zenon, <1>3, IsnNat
  <1>5. "SYN" \in m.flags => m.seq = PeerIsn(m.era)
    BY <1>2, <1>4
  <1>6. "FIN" \in m.flags => /\ m.seq + Len(m.data) = PeerIsn(m.era) + 1 + q.len
                             /\ q.sent = q.len /\ q.state = "done"
    BY <1>2, <1>3, <1>4
  <1>7. FromPeer(m, q)
    BY Zenon, <1>2, <1>5, <1>6 DEF FromPeer
  <1> QED BY Zenon, <1>2, <1>3, <1>7 DEF SegmentOK, m

LEMMA PeerRequestStep ==
  ASSUME Standing, NEW m, PeerRequest(m)
  PROVE  Standing'
  <1>0. /\ PeerOK(peer) /\ peer \in PeerType /\ conn.era \in Nat /\ peer.era <= conn.era
    BY Zenon DEF Standing, ConnOK, ConnType, PeerOK
  <1>1. PICK len \in RespLens :
          /\ peer.state = "listen" /\ conn' = conn /\ got' = got
          /\ peer' = [peer EXCEPT !.state = "asked", !.rcvNxt = @ + 1, !.len = len]
          /\ wire' = wire \cup {PeerOut({"ACK"}, peer', <<>>, 1)}
    BY Zenon DEF PeerRequest, Sent
  <1>2. len \in Nat /\ peer.rcvNxt + 1 \in Nat
    BY <1>0, TcpAssumption DEF PeerType
  <1>3. peer.sent = 0
    BY <1>0, <1>1 DEF PeerOK, PeerType
  <1>4. /\ peer' \in PeerType /\ peer'.era = peer.era /\ peer'.state = "asked" /\ peer'.len = len
        /\ peer'.rcvNxt = peer.rcvNxt + 1 /\ peer'.sent = peer.sent
    <2>1. peer' = [peer EXCEPT !.state = "asked", !.rcvNxt = peer.rcvNxt + 1, !.len = len]
      BY Zenon, <1>0, <1>1 DEF PeerType
    <2> QED BY Zenon, <1>0, <1>2, <2>1 DEF PeerType
  <1>5. PeerOK(peer') /\ Moves(peer, peer')
    BY <1>0, <1>1, <1>2, <1>3, <1>4 DEF PeerOK, Moves, PeerType
  <1>6. SegmentOK(PeerOut({"ACK"}, peer', <<>>, 1), peer', conn.era)
    <2>1. /\ peer'.era = peer'.era /\ peer'.rcvNxt <= peer'.rcvNxt /\ peer'.era <= conn.era /\ 1 \in Nat
          /\ {"ACK"} \in FlagSets /\ "SYN" \notin {"ACK"} /\ "FIN" \notin {"ACK"}
      BY <1>0, <1>4 DEF PeerType, FlagSets
    <2> QED BY Zenon, <1>0, <1>4, <2>1, BareSegmentOK
  <1>7. \A x \in wire' \ wire : SegmentOK(x, peer', conn.era)
    BY Zenon, <1>1, <1>6
  <1> QED BY Zenon, <1>1, <1>5, <1>7, PeerStands

LEMMA PeerDataStep ==
  ASSUME Standing, PeerData
  PROVE  Standing'
  <1>0. /\ PeerOK(peer) /\ peer \in PeerType /\ conn.era \in Nat /\ peer.era <= conn.era
    BY Zenon DEF Standing, ConnOK, ConnType, PeerOK
  <1>1. PICK n \in 1..2, fin \in SUBSET {"FIN"} :
          /\ peer.sent + n <= peer.len
          /\ fin # {} => peer.sent + n = peer.len
          /\ peer' = [peer EXCEPT !.sent = @ + n, !.state = IF fin = {} THEN @ ELSE "done"]
          /\ wire' = wire \cup {PeerOut({"ACK"} \cup fin, peer,
                                        Units(peer.era, peer.sent + 1, peer.sent + n), peer.sent + 1)}
    BY Zenon DEF PeerData, Sent
  <1>2. peer.state = "asked" /\ conn' = conn /\ got' = got
    BY Zenon DEF PeerData
  <1> DEFINE data == Units(peer.era, peer.sent + 1, peer.sent + n)
             m == PeerOut({"ACK"} \cup fin, peer, data, peer.sent + 1)
             to == IF fin = {} THEN "asked" ELSE "done"
  <1>3. /\ peer.era \in Nat /\ peer.sent \in Nat /\ peer.sent + 1 \in Nat /\ peer.sent + n \in Nat
        /\ peer.len \in Nat /\ peer.sent + 1 > 0 /\ peer.sent + 1 <= (peer.sent + n) + 1
        /\ (peer.sent + n) + 1 - (peer.sent + 1) = n /\ n > 0
    BY <1>0 DEF PeerType
  <1>4. data \in Data /\ Len(data) = n /\ data # <<>>
    <2>1. PICK a \in Nat, b \in Nat : a = peer.sent + 1 /\ b = peer.sent + n
      BY Zenon, <1>3
    <2>2. a > 0 /\ a <= b + 1 /\ b + 1 - a = n
      BY Zenon, <1>3, <2>1
    <2>5. peer.era \in Nat /\ a > 0 /\ a <= b + 1
      BY Zenon, <1>3, <2>2
    <2>3. /\ Units(peer.era, a, b) \in Data /\ Len(Units(peer.era, a, b)) = b + 1 - a
          /\ \A k \in 1..(b + 1 - a) : Units(peer.era, a, b)[k] = Unit(peer.era, a - 1 + k)
      BY Zenon, <2>5, UnitsAre
    <2>4. data \in Data /\ Len(data) = n
      BY Zenon, <2>1, <2>2, <2>3
    <2> HIDE DEF data
    <2> QED BY <1>3, <2>4
  <1>5. /\ peer' \in PeerType /\ peer'.era = peer.era /\ peer'.state = to /\ peer'.len = peer.len
        /\ peer'.rcvNxt = peer.rcvNxt /\ peer'.sent = peer.sent + n
    <2>1. peer' = [peer EXCEPT !.sent = peer.sent + n, !.state = to]
      BY Zenon, <1>0, <1>1, <1>2 DEF PeerType
    <2>2. to \in {"listen", "asked", "done"}
      BY Zenon
    <2> HIDE DEF to
    <2> QED BY Zenon, <1>0, <1>3, <2>1, <2>2 DEF PeerType
  <1>6. to # "listen" /\ (fin # {} => to = "done")
    BY Zenon
  <1>7. PeerOK(peer') /\ Moves(peer, peer')
    <2> HIDE DEF to
    <2> QED BY <1>0, <1>1, <1>2, <1>3, <1>5, <1>6 DEF PeerOK, Moves, PeerType
  <1>8. /\ m \in SegmentType /\ m.to = "stack" /\ m.flags = {"ACK"} \cup fin
        /\ m.seq = PeerIsn(peer.era) + (peer.sent + 1)
        /\ m.ack = peer.rcvNxt /\ m.data = data /\ m.era = peer.era
    <2>1. {"ACK"} \cup fin \in FlagSets
      BY Zenon DEF FlagSets
    <2> HIDE DEF data
    <2>2. PICK k \in Nat : k = peer.sent + 1
      BY Zenon, <1>3
    <2>3. m = PeerOut({"ACK"} \cup fin, peer, data, k)
      BY Zenon, <2>2
    <2>4. PICK flags \in FlagSets : flags = {"ACK"} \cup fin
      BY Zenon, <2>1
    <2>5. m = PeerOut(flags, peer, data, k)
      BY Zenon, <2>3, <2>4
    <2>6. peer \in PeerType /\ data \in Data
      BY Zenon, <1>0, <1>4
    <2> HIDE DEF m
    <2>7. /\ m \in SegmentType /\ m.to = "stack" /\ m.flags = flags
          /\ m.seq = PeerIsn(peer.era) + k
          /\ m.ack = peer.rcvNxt /\ m.data = data /\ m.era = peer.era
      BY SMT, <2>5, <2>6, PeerOutIs
    <2> QED BY Zenon, <2>2, <2>4, <2>7
  <1> HIDE DEF m, to, data
  <1>9. SegmentOK(m, peer', conn.era)
    <2>1. PeerIsn(m.era) \in Nat /\ PeerIsn(m.era) = PeerIsn(peer.era)
      BY Zenon, <1>3, <1>8, IsnNat
    <2>2. m.ack <= peer'.rcvNxt
      BY <1>0, <1>5, <1>8 DEF PeerType
    <2>3. "SYN" \notin m.flags
      BY Zenon, <1>8
    <2>4. Len(m.data) = n /\ m.seq = PeerIsn(m.era) + (peer.sent + 1)
      BY Zenon, <1>4, <1>8, <2>1
    <2>5. /\ m.seq > PeerIsn(m.era) /\ m.seq - PeerIsn(m.era) = peer.sent + 1
          /\ m.seq - PeerIsn(m.era) + Len(m.data) - 1 = peer.sent + n
      <3>1. PICK i \in Nat, k \in Nat : i = PeerIsn(m.era) /\ k = peer.sent
        BY Zenon, <1>3, <2>1
      <3>2. m.seq = i + (k + 1) /\ Len(m.data) = n
        BY Zenon, <2>4, <3>1
      <3>3. m.seq > i /\ m.seq - i = k + 1 /\ m.seq - i + Len(m.data) - 1 = k + n
        BY <3>2
      <3> QED BY Zenon, <3>1, <3>3
    <2>6. m.data = Units(m.era, m.seq - PeerIsn(m.era), m.seq - PeerIsn(m.era) + Len(m.data) - 1)
      BY Zenon, <1>8, <2>5 DEF data
    <2>7. peer.sent + n <= peer'.sent /\ peer'.state # "listen"
      BY Zenon, <1>3, <1>5, <1>6, NoMore
    <2>8. "FIN" \in m.flags => /\ m.seq + Len(m.data) = PeerIsn(m.era) + 1 + peer'.len
                               /\ peer'.sent = peer'.len /\ peer'.state = "done"
      <3> SUFFICES ASSUME "FIN" \in m.flags
                   PROVE  /\ m.seq + Len(m.data) = PeerIsn(m.era) + 1 + peer'.len
                          /\ peer'.sent = peer'.len /\ peer'.state = "done"
        BY Zenon
      <3>1. fin # {}
        BY Zenon, <1>8
      <3>2. peer.sent + n = peer.len /\ peer'.state = "done"
        BY Zenon, <1>1, <1>5, <1>6, <3>1
      <3>3. PICK i \in Nat, k \in Nat : i = PeerIsn(m.era) /\ k = peer.sent
        BY Zenon, <1>3, <2>1
      <3>4. m.seq = i + (k + 1) /\ Len(m.data) = n /\ peer'.len = k + n /\ peer'.sent = k + n
        BY Zenon, <1>5, <2>4, <3>2, <3>3
      <3>5. m.seq + Len(m.data) = i + 1 + peer'.len /\ peer'.sent = peer'.len
        BY <3>4
      <3> QED BY Zenon, <3>2, <3>3, <3>5
    <2>9. FromPeer(m, peer')
      BY Zenon, <2>2, <2>3, <2>5, <2>6, <2>7, <2>8 DEF FromPeer
    <2>10. m.era <= conn.era /\ m.era <= peer'.era
      BY SMTT(40), <1>0, <1>3, <1>5, <1>8
    <2> QED BY Zenon, <1>8, <2>9, <2>10 DEF SegmentOK
  <1>10. \A x \in wire' \ wire : SegmentOK(x, peer', conn.era)
    BY Zenon, <1>1, <1>9 DEF m, data
  <1> QED BY Zenon, <1>2, <1>7, <1>10, PeerStands

LEMMA PeerEndStep ==
  ASSUME Standing, PeerFin \/ PeerReset
  PROVE  Standing'
  <1>0. /\ PeerOK(peer) /\ peer \in PeerType /\ conn.era \in Nat /\ peer.era <= conn.era
    BY Zenon DEF Standing, ConnOK, ConnType, PeerOK
  <1>1. PICK k \in Nat, flags \in FlagSets :
          /\ k = peer.sent + 1 /\ "SYN" \notin flags /\ ("FIN" \in flags => peer.sent = peer.len)
          /\ wire' = wire \cup {PeerOut(flags, peer, <<>>, k)}
    <2>1. PICK k \in Nat : k = peer.sent + 1
      BY <1>0 DEF PeerType
    <2>2. {"FIN", "ACK"} \in FlagSets /\ {"RST"} \in FlagSets
      BY Zenon DEF FlagSets
    <2>3. "SYN" \notin {"FIN", "ACK"} /\ "SYN" \notin {"RST"} /\ "FIN" \notin {"RST"}
      BY Zenon
    <2>4. CASE PeerFin
      <3>1. /\ wire' = wire \cup {PeerOut({"FIN", "ACK"}, peer, <<>>, k)} /\ peer.sent = peer.len
        BY Zenon, <2>1, <2>4 DEF PeerFin, Sent
      <3> QED BY Zenon, <2>1, <2>2, <2>3, <3>1
    <2>5. CASE PeerReset
      <3>1. /\ wire' = wire \cup {PeerOut({"RST"}, peer, <<>>, k)}
        BY Zenon, <2>1, <2>5 DEF PeerReset, Sent
      <3> QED BY Zenon, <2>1, <2>2, <2>3, <3>1
    <2> QED BY Zenon, <2>4, <2>5
  <1>2. /\ conn' = conn /\ got' = got /\ peer' = [peer EXCEPT !.state = "done"] /\ peer.state # "done"
    BY Zenon DEF PeerFin, PeerReset
  <1>3. /\ peer' \in PeerType /\ peer'.era = peer.era /\ peer'.state = "done" /\ peer'.len = peer.len
        /\ peer'.rcvNxt = peer.rcvNxt /\ peer'.sent = peer.sent
    BY Zenon, <1>0, <1>2 DEF PeerType
  <1>4. PeerOK(peer') /\ Moves(peer, peer')
    BY <1>0, <1>2, <1>3 DEF PeerOK, Moves, PeerType
  <1>5. SegmentOK(PeerOut(flags, peer, <<>>, k), peer', conn.era)
    <2>1. /\ peer.rcvNxt <= peer'.rcvNxt
          /\ "FIN" \in flags => k = 1 + peer'.len /\ peer'.sent = peer'.len
      BY <1>0, <1>1, <1>3 DEF PeerType
    <2> QED BY Zenon, <1>0, <1>1, <1>3, <2>1, BareSegmentOK
  <1>6. \A x \in wire' \ wire : SegmentOK(x, peer', conn.era)
    BY Zenon, <1>1, <1>5
  <1> QED BY Zenon, <1>2, <1>4, <1>6, PeerStands

LEMMA PeerAcksFinStep ==
  ASSUME Standing, NEW m, PeerAcksFin(m)
  PROVE  Standing'
  <1>0. /\ PeerOK(peer) /\ peer \in PeerType /\ conn.era \in Nat /\ peer.era <= conn.era
    BY Zenon DEF Standing, ConnOK, ConnType, PeerOK
  <1>1. PICK k \in Nat : k = peer.sent + 1
    BY <1>0 DEF PeerType
  <1>2. /\ conn' = conn /\ got' = got /\ peer' = [peer EXCEPT !.rcvNxt = peer.rcvNxt + 1]
        /\ wire' = wire \cup {PeerOut({"ACK"}, peer', <<>>, k)}
    BY Zenon, <1>0, <1>1 DEF PeerAcksFin, Sent, PeerType
  <1>3. /\ peer' \in PeerType /\ peer'.era = peer.era /\ peer'.state = peer.state /\ peer'.len = peer.len
        /\ peer'.rcvNxt = peer.rcvNxt + 1 /\ peer'.sent = peer.sent
    BY <1>0, <1>2 DEF PeerType
  <1>4. PeerOK(peer') /\ Moves(peer, peer')
    BY <1>0, <1>2, <1>3 DEF PeerOK, Moves, PeerType
  <1>5. SegmentOK(PeerOut({"ACK"}, peer', <<>>, k), peer', conn.era)
    <2>1. /\ peer'.era = peer'.era /\ peer'.rcvNxt <= peer'.rcvNxt /\ peer'.era <= conn.era
          /\ {"ACK"} \in FlagSets /\ "SYN" \notin {"ACK"} /\ "FIN" \notin {"ACK"}
      BY <1>0, <1>3 DEF PeerType, FlagSets
    <2> QED BY Zenon, <1>0, <1>1, <1>3, <2>1, BareSegmentOK
  <1>6. \A x \in wire' \ wire : SegmentOK(x, peer', conn.era)
    BY Zenon, <1>2, <1>5
  <1> QED BY Zenon, <1>2, <1>4, <1>6, PeerStands

\* A new connection of the peer: what it sent before is of an earlier one, and
\* the stack, whose SYN has just arrived, has no segment of this one.
LEMMA PeerSynStep ==
  ASSUME Standing, NEW m \in wire, PeerSyn(m)
  PROVE  Standing'
  <1> DEFINE q == [era |-> m.era, state |-> "listen", rcvNxt |-> m.seq + 1, sent |-> 0, len |-> 0]
  <1>0. /\ ConnOK(conn, got, peer) /\ peer \in PeerType /\ conn \in ConnType /\ conn.era \in Nat
        /\ peer.era <= conn.era /\ peer.era \in Nat /\ \A w \in wire : SegmentOK(w, peer, conn.era)
    BY Zenon DEF Standing, ConnOK, ConnType, PeerOK, PeerType
  <1>1. m \in SegmentType /\ m.era <= conn.era /\ m.era \in Nat /\ m.seq \in Nat
    BY Zenon, <1>0 DEF SegmentOK, SegmentType
  <1>2. /\ conn' = conn /\ got' = got /\ peer' = q /\ m.era > peer.era
        /\ wire' = {w \in wire : w.to = "stack" \/ w.era = m.era}
                   \cup {PeerOut({"SYN", "ACK"}, peer', <<>>, 0)}
    BY Zenon DEF PeerSyn
  <1>3. /\ q \in PeerType /\ q.era = m.era /\ q.sent = 0 /\ q.len = 0 /\ q.rcvNxt = m.seq + 1
        /\ q.state = "listen"
    BY SMTT(40), <1>1 DEF PeerType
  <1> HIDE DEF q
  <1>4. PeerOK(q)
    BY <1>3 DEF PeerOK
  <1>5. ConnOK(conn, got, q)
    <2>1. conn.at \notin {"send", "recv", "reply"}
      <3>1. peer.era # conn.era
        BY <1>0, <1>1, <1>2
      <3> QED BY Zenon, <1>0, <3>1 DEF ConnOK
    <2>2. /\ conn \in ConnType /\ got \in Data /\ (conn.at \notin {"recv", "reply"} => got = <<>>)
          /\ (conn.at \in {"syn", "send"} => conn.sendNext = Isn + 1)
      BY Zenon, <1>0 DEF ConnOK
    <2>3. conn.at # "send" /\ conn.at # "recv" /\ conn.at # "reply" /\ q.era <= conn.era
      BY Zenon, <1>1, <1>3, <2>1
    <2> QED BY Zenon, <2>2, <2>3 DEF ConnOK
  <1>6. \A w \in wire : SegmentOK(w, q, conn.era)
    <2> SUFFICES ASSUME NEW w \in wire PROVE SegmentOK(w, q, conn.era)
      BY Zenon
    <2>1. w \in SegmentType /\ w.era \in Nat /\ w.era <= conn.era /\ (w.to = "stack" => w.era <= peer.era)
      BY Zenon, <1>0 DEF SegmentOK, SegmentType
    <2>2. w.to = "stack" => w.era <= q.era /\ w.era # q.era
      BY <1>0, <1>1, <1>2, <1>3, <2>1
    <2> QED BY Zenon, <2>1, <2>2 DEF SegmentOK
  <1>7. SegmentOK(PeerOut({"SYN", "ACK"}, q, <<>>, 0), q, conn.era)
    <2>1. /\ q.era = q.era /\ q.rcvNxt <= q.rcvNxt /\ q.era <= conn.era /\ 0 \in Nat
          /\ {"SYN", "ACK"} \in FlagSets /\ "FIN" \notin {"SYN", "ACK"}
      BY <1>1, <1>3 DEF FlagSets
    <2> QED BY Zenon, <1>0, <1>3, <2>1, BareSegmentOK
  <1>8. \A w \in wire' : SegmentOK(w, q, conn.era)
    BY Zenon, <1>2, <1>6, <1>7
  <1>9. ConnOK(conn', got', peer') /\ PeerOK(peer') /\ \A w \in wire' : SegmentOK(w, peer', conn'.era)
    BY Zenon, <1>2, <1>4, <1>5, <1>8
  <1> QED BY Zenon, <1>9 DEF Standing

LEMMA TcpStep == TcpInv /\ [TcpNext]_tcpVars => TcpInv'
  <1> SUFFICES ASSUME TcpInv, [TcpNext]_tcpVars, ~crossed' PROVE Standing'
    BY Zenon DEF TcpInv
  <1>1. CASE UNCHANGED tcpVars
    <2>1. conn' = conn /\ got' = got /\ peer' = peer /\ wire' = wire /\ crossed' = crossed
      BY Zenon, <1>1 DEF tcpVars
    <2> QED BY Zenon, <2>1 DEF TcpInv, Standing
  <1>2. CASE PeerStep
    <2>1. crossed' = crossed
      BY Zenon, <1>2 DEF PeerStep, PeerData, PeerFin, PeerReset, PeerSyn, PeerRequest, PeerAcksFin
    <2>2. Standing
      BY Zenon, <2>1 DEF TcpInv
    <2> QED BY Zenon, <1>2, <2>2, PeerDataStep, PeerEndStep, PeerSynStep, PeerRequestStep, PeerAcksFinStep
            DEF PeerStep
  <1>3. CASE StackStep
    <2>1. CASE \/ TakeRequest \/ ArpResolve \/ SynAttempt \/ SynGivenUp \/ SendAttempt \/ SendGivenUp
               \/ RecvTimeout \/ SendReply \/ CloseFin
      <3>1. crossed' = crossed
        BY Zenon, <2>1 DEF TakeRequest, ArpResolve, SynAttempt, SynGivenUp, SendAttempt, SendGivenUp,
                           RecvTimeout, SendReply, CloseFin, ConnectFailed
      <3>2. Standing
        BY Zenon, <3>1 DEF TcpInv
      <3> QED BY Zenon, <2>1, <3>2, StackAlone
    <2>2. CASE CloseAck \/ CloseDrain
      <3>1. ~crossed
        BY Zenon, <2>2 DEF CloseAck, CloseDrain, Take, RecvSegment
      <3> QED BY Zenon, <2>2, <3>1, CloseSteps DEF TcpInv
    <2>3. ASSUME NEW m \in Arrived, SynAcked(m) \/ SendAcked(m) \/ RecvLoop(m) PROVE Standing'
      <3>1. ~crossed
        BY Zenon, <2>3 DEF SynAcked, SendAcked, RecvLoop, RecvSegment, Take
      <3> QED BY Zenon, <2>3, <3>1, SynAckedStep, SendAckedStep, RecvStep DEF TcpInv
    <2> QED BY Zenon, <1>3, <2>1, <2>2, <2>3 DEF StackStep
  <1> QED BY Zenon, <1>1, <1>2, <1>3 DEF TcpNext

LEMMA StandingTrue == TcpInv => StreamTrue
  <1> SUFFICES ASSUME Standing
               PROVE  /\ got = Units(conn.era, 1, Len(got))
                      /\ conn.at \in {"recv", "reply"} => peer.era = conn.era /\ peer.rcvNxt > Isn + 1
                      /\ conn.at = "reply" /\ conn.end \in {"fin", "full"} =>
                           Len(got) = Least2(BufLen, peer.len)
    BY Zenon DEF TcpInv, StreamTrue
  <1>1. ConnOK(conn, got, peer) /\ conn.era \in Nat
    BY Zenon DEF Standing, ConnOK, ConnType
  <1>2. CASE conn.at \in {"recv", "reply"}
    <2>1. conn.at \in {"send", "recv", "reply"}
      BY Zenon, <1>2
    <2> QED BY Zenon, <1>1, <1>2, <2>1 DEF ConnOK
  <1>3. CASE conn.at \notin {"recv", "reply"}
    <2>1. got = <<>> /\ conn.at # "reply"
      BY Zenon, <1>1, <1>3 DEF ConnOK
    <2>2. <<>> = Units(conn.era, 1, 0) /\ Len(<<>>) = 0
      BY <1>1 DEF Units
    <2> QED BY Zenon, <1>3, <2>1, <2>2
  <1> QED BY Zenon, <1>2, <1>3

\* Whatever the wire loses, repeats or reorders, however long the responses,
\* the buffer and the number of attempts: until the stack takes a segment of an
\* earlier connection, the response buffer holds the first bytes of the
\* response to this request, each once and in order, and a reply sent for a
\* full buffer or a FIN in its place holds all of it that fits.
THEOREM StreamTrueAlways == TcpSpec => []StreamTrue
  <1>1. TcpInit => TcpInv
    BY Zenon, TcpInitial
  <1>2. TcpInv /\ [TcpNext]_tcpVars => TcpInv'
    BY Zenon, TcpStep
  <1>3. TcpInv => StreamTrue
    BY Zenon, StandingTrue
  <1> QED BY <1>1, <1>2, <1>3, PTL DEF TcpSpec
=============================================================================
