--------------------------- MODULE DeliveryProofs ---------------------------
(***************************************************************************)
(* Theorems about Delivery, and about Notifications at its end, for any    *)
(* number of rows, messages, deliveries, sequence numbers, lapses, late    *)
(* requests and notifications.                                             *)
(***************************************************************************)
EXTENDS Notifications, FiniteSetTheorems, TLAPS

USE NoRowAssumption, BusAssumption, MsgOfAssumption
USE DEF NoRowAssumption, BusAssumption, MsgOfAssumption

StreamTypeOK ==
    /\ last \in 0..MaxSeq
    /\ stream \in [Seqs -> MsgIds \cup {NoMsg}]
    /\ aged \in 0..MaxSeq
    /\ dedup \in SUBSET MsgIds
    /\ lapses \in [MsgIds -> Nat]

(* Storing a message keeps the stream well-formed (Publish on the server).  *)
LEMMA StoreType ==
    ASSUME BusTypeOK, NEW m \in MsgIds, Store(m)
    PROVE  StreamTypeOK'
<1>1. CASE m \in dedup
  BY <1>1 DEF BusTypeOK, StreamTypeOK, Store, streamVars
<1>2. CASE m \notin dedup
  <2>1. last + 1 \in Seqs /\ last' \in 0..MaxSeq
    BY <1>2, SMTT(30) DEF BusTypeOK, Store, Seqs, streamVars
  <2>2. stream' \in [Seqs -> MsgIds \cup {NoMsg}]
    BY <1>2, <2>1 DEF BusTypeOK, Store, streamVars
  <2> QED
    BY <1>2, <2>1, <2>2 DEF BusTypeOK, StreamTypeOK, Store, streamVars
<1> QED
  BY <1>1, <1>2

(* Type correctness of the event path: outbox, relay, stream, durable       *)
(* consumer and requests stay in the sets their comments name, and the      *)
(* relay holds a document exactly while it publishes or marks one.          *)
THEOREM TypeCorrect == Spec => []TypeOK
<1>1. Init => TypeOK
  BY DEF Init, OutboxInit, BusInit, TypeOK, OutboxTypeOK, BusTypeOK,
         ProducerStates, RowStates, RelayPcs, Seqs
<1>2. TypeOK /\ [Next]_vars => TypeOK'
  <2> SUFFICES ASSUME TypeOK, [Next]_vars
               PROVE  TypeOK'
    OBVIOUS
  <2> USE DEF TypeOK, OutboxTypeOK, BusTypeOK, ProducerStates, RowStates, RelayPcs, Seqs
  <2>1. ASSUME NEW r \in Rows, Commit(r) PROVE TypeOK'
    BY <2>1 DEF Commit, outboxVars, busVars, publishVars, streamVars, serverVars, clientVars
  <2>2. ASSUME NEW r \in Rows, Enqueue(r) PROVE TypeOK'
    BY <2>2 DEF Enqueue, StoreEnqueue, busVars, publishVars, streamVars, serverVars, clientVars
  <2>3. ASSUME NEW r \in Rows, EnqueueErr(r) PROVE TypeOK'
    BY <2>3 DEF EnqueueErr, outboxVars, busVars, publishVars, streamVars, serverVars, clientVars
  <2>4. ASSUME NEW r \in Rows, Publish(r) PROVE TypeOK'
    BY <2>4 DEF Publish, RelayPublish, PublishStart, streamVars, serverVars, clientVars
  <2>5. CASE ProducerCrash
    <3>1. late' \in [MsgIds -> Nat]
      <4>1. CASE UNCHANGED late
        BY <4>1
      <4>2. CASE late' = [late EXCEPT ![request] = @ + 1] /\ progress = "sent"
        <5>1. request \in MsgIds
          BY <4>2
        <5> QED
          BY <4>2, <5>1
      <4> QED
        BY <2>5, <4>1, <4>2 DEF ProducerCrash, PublishAbandoned
    <3>2. producer' \in [Rows -> ProducerStates]
      BY <2>5 DEF ProducerCrash
    <3> QED
      BY <2>5, <3>1, <3>2 DEF ProducerCrash, RelayCrash, PublishAbandoned,
                              streamVars, serverVars, clientVars
  <2>6. CASE Poll
    BY <2>6 DEF Poll, RelayPoll, Unpublished, busVars, publishVars, streamVars, serverVars, clientVars
  <2>7. CASE Received
    <3>1. request \in MsgIds
      BY <2>7 DEF Received, PublishReceived
    <3>2. StreamTypeOK'
      BY <2>7, <3>1, StoreType DEF Received, PublishReceived
    <3> QED
      BY <2>7, <3>2 DEF Received, PublishReceived, StreamTypeOK, outboxVars, serverVars, clientVars
  <2>8. CASE PublishReturnsOk
    BY <2>8 DEF PublishReturnsOk, RelayPublishOk, PublishOk, streamVars, serverVars, clientVars
  <2>9. CASE PublishReturnsErr
    <3>1. late' \in [MsgIds -> Nat]
      BY <2>9 DEF PublishReturnsErr, PublishErr, PublishAbandoned
    <3> QED
      BY <2>9, <3>1 DEF PublishReturnsErr, RelayPublishErr, PublishErr, PublishAbandoned,
                        streamVars, serverVars, clientVars
  <2>10. CASE Mark
    BY <2>10 DEF Mark, RelayMark, busVars, publishVars, streamVars, serverVars, clientVars
  <2>11. CASE MarkErr
    BY <2>11 DEF MarkErr, RelayMarkErr, busVars, publishVars, streamVars, serverVars, clientVars
  <2>12. CASE PassEnds
    BY <2>12 DEF PassEnds, RelayPassEnds, busVars, publishVars, streamVars, serverVars, clientVars
  <2>13. CASE BusNext /\ UNCHANGED <<producer, outboxVars>>
    <3> USE DEF outboxVars, publishVars, streamVars, serverVars, clientVars
    <3>1. ASSUME NEW m \in MsgIds, DedupLapse(m) PROVE BusTypeOK'
      <4>1. lapses' \in [MsgIds -> Nat]
        BY <3>1 DEF DedupLapse
      <4> QED
        BY <3>1, <4>1 DEF DedupLapse
    <3>2. ASSUME NEW m \in MsgIds, LateArrives(m) PROVE BusTypeOK'
      <4>1. late' \in [MsgIds -> Nat]
        BY <3>2 DEF LateArrives
      <4>2. StreamTypeOK'
        BY <3>2, StoreType DEF LateArrives
      <4> QED
        BY <3>2, <4>1, <4>2 DEF LateArrives, StreamTypeOK
    <3>3. ASSUME NEW m \in MsgIds, LateLost(m) PROVE BusTypeOK'
      <4>1. late' \in [MsgIds -> Nat]
        BY <3>3 DEF LateLost
      <4> QED
        BY <3>3, <4>1 DEF LateLost
    <3>4. ASSUME AgeOut PROVE BusTypeOK'
      <4>1. aged' \in 0..MaxSeq
        BY <3>4 DEF AgeOut
      <4> QED
        BY <3>4, <4>1 DEF AgeOut
    <3>5. ASSUME NEW s \in Seqs, Deliver(s) PROVE BusTypeOK'
      <4>1. deliveries' \in [Seqs -> Nat]
        BY <3>5, SMTT(30) DEF Deliver
      <4>2. buffer' \in [Seqs -> Nat]
        BY <3>5, SMTT(30) DEF Deliver
      <4> QED
        BY <3>5, <4>1, <4>2 DEF Deliver
    <3>6. ASSUME NEW s \in Seqs, AckWaitExpires(s) PROVE BusTypeOK'
      BY <3>6 DEF AckWaitExpires
    <3>7. ASSUME NEW s \in Seqs, HandlerStart(s) PROVE BusTypeOK'
      <4>1. buffer' \in [Seqs -> Nat]
        BY <3>7, SMTT(30) DEF HandlerStart
      <4>2. handling' \in 0..MaxSeq
        BY <3>7 DEF HandlerStart
      <4> QED
        BY <3>7, <4>1, <4>2 DEF HandlerStart
    <3>8. ASSUME NEW s \in Seqs, AckArrives(s) PROVE BusTypeOK'
      BY <3>8 DEF AckArrives
    <3>9. ASSUME NEW s \in Seqs, AckLost(s) PROVE BusTypeOK'
      BY <3>9 DEF AckLost
    <3>10. ASSUME HandlerOk PROVE BusTypeOK'
      <4>1. runs' \in [Seqs -> Nat]
        BY <3>10, SMTT(30) DEF HandlerOk
      <4>2. ackWire' \in SUBSET Seqs
        BY <3>10, SMTT(30) DEF HandlerOk
      <4>3. handling' \in 0..MaxSeq
        BY <3>10 DEF HandlerOk
      <4> QED
        BY <3>10, <4>1, <4>2, <4>3 DEF HandlerOk
    <3>11. ASSUME HandlerErr PROVE BusTypeOK'
      <4>1. waiting' \in SUBSET Seqs
        BY <3>11 DEF HandlerErr
      <4>2. handling' \in 0..MaxSeq
        BY <3>11 DEF HandlerErr
      <4> QED
        BY <3>11, <4>1, <4>2 DEF HandlerErr
    <3>12. ASSUME ConsumerCrash PROVE BusTypeOK'
      <4>1. buffer' \in [Seqs -> Nat]
        BY <3>12 DEF ConsumerCrash
      <4>2. handling' \in 0..MaxSeq
        BY <3>12 DEF ConsumerCrash
      <4> QED
        BY <3>12, <4>1, <4>2 DEF ConsumerCrash
    <3>13. BusTypeOK'
      BY <2>13, <3>1, <3>2, <3>3, <3>4, <3>5, <3>6, <3>7, <3>8, <3>9, <3>10,
         <3>11, <3>12 DEF BusNext
    <3> QED
      BY <2>13, <3>13
  <2>14. CASE UNCHANGED vars
    BY <2>14 DEF vars, outboxVars, busVars, publishVars, streamVars, serverVars, clientVars
  <2> QED
    BY <2>1, <2>2, <2>3, <2>4, <2>5, <2>6, <2>7, <2>8, <2>9, <2>10, <2>11, <2>12,
       <2>13, <2>14 DEF Next, ProducerNext
<1> QED
  BY <1>1, <1>2, PTL DEF Spec

-----------------------------------------------------------------------------
(* No enqueued event goes missing between the outbox and the stream *)

(* The relay and its Publish agree, and its cursor is not stale. *)
RelayInv ==
    /\ relayPc = "publishing" <=> progress # "none"
    /\ relayPc = "publishing" => request = MsgOf[cur]
    /\ cur \notin batch
    /\ NeverRepublishMarked

(* Whatever the server, the relay or the outbox counts as stored is. *)
StoredInv ==
    /\ \A m \in dedup : Copies(m) # {}
    /\ progress = "stored" => Copies(request) # {}
    /\ relayPc = "mark" => Copies(MsgOf[cur]) # {}
    /\ PublishedWasStored

(* Nothing but the relay's own steps touches what RelayInv is about: a bus  *)
(* step leaves the relay, the outbox and the outstanding request alone,     *)
(* except for the request's progress from "sent" to "stored".               *)
LEMMA BusLeavesRequest ==
    ASSUME BusNext
    PROVE  UNCHANGED <<request, progress>>
BY DEF BusNext, DedupLapse, LateArrives, LateLost, AgeOut, Deliver, AckWaitExpires,
       HandlerStart, AckArrives, AckLost, HandlerOk, HandlerErr, ConsumerCrash, publishVars

(* Every step preserves the agreement of relay, request and cursor.         *)
LEMMA RelayStep ==
    ASSUME TypeOK, RelayInv, [Next]_vars
    PROVE  RelayInv'
<1> USE DEF TypeOK, OutboxTypeOK, RelayInv, NeverRepublishMarked, RelayPcs, RowStates
<1>1. ASSUME NEW r \in Rows, Commit(r) PROVE RelayInv'
  BY <1>1 DEF Commit, outboxVars, busVars, publishVars
<1>2. ASSUME NEW r \in Rows, Enqueue(r) PROVE RelayInv'
  BY <1>2 DEF Enqueue, StoreEnqueue, busVars, publishVars
<1>3. ASSUME NEW r \in Rows, EnqueueErr(r) PROVE RelayInv'
  BY <1>3 DEF EnqueueErr, outboxVars, busVars, publishVars
<1>4. ASSUME NEW r \in Rows, Publish(r) PROVE RelayInv'
  BY <1>4 DEF Publish, RelayPublish, PublishStart
<1>5. CASE ProducerCrash
  BY <1>5 DEF ProducerCrash, RelayCrash, PublishAbandoned
<1>6. CASE Poll
  BY <1>6 DEF Poll, RelayPoll, Unpublished, busVars, publishVars
<1>7. CASE Received
  BY <1>7 DEF Received, PublishReceived, outboxVars
<1>8. CASE PublishReturnsOk
  BY <1>8 DEF PublishReturnsOk, RelayPublishOk, PublishOk
<1>9. CASE PublishReturnsErr
  BY <1>9 DEF PublishReturnsErr, RelayPublishErr, PublishErr, PublishAbandoned
<1>10. CASE Mark
  BY <1>10 DEF Mark, RelayMark, busVars, publishVars
<1>11. CASE MarkErr
  BY <1>11 DEF MarkErr, RelayMarkErr, busVars, publishVars
<1>12. CASE PassEnds
  BY <1>12 DEF PassEnds, RelayPassEnds, busVars, publishVars
<1>13. CASE BusNext /\ UNCHANGED <<producer, outboxVars>>
  BY <1>13, BusLeavesRequest DEF outboxVars
<1>14. CASE UNCHANGED vars
  BY <1>14 DEF vars, outboxVars, busVars, publishVars
<1> QED
  BY <1>1, <1>2, <1>3, <1>4, <1>5, <1>6, <1>7, <1>8, <1>9, <1>10, <1>11, <1>12,
     <1>13, <1>14 DEF Next, ProducerNext

(* A step that leaves the stream alone leaves every message's copies alone. *)
LEMMA CopiesKept ==
    ASSUME UNCHANGED <<last, stream>>, NEW m
    PROVE  Copies(m)' = Copies(m)
BY DEF Copies, Seqs

(* Storing a message removes no copy and leaves one of that message.        *)
LEMMA StoreCopies ==
    ASSUME BusTypeOK, NEW m \in MsgIds, Store(m), m \in dedup => Copies(m) # {}
    PROVE  /\ Copies(m)' # {}
           /\ \A n : Copies(n) \subseteq Copies(n)'
           /\ dedup' \subseteq dedup \cup {m}
<1>1. CASE m \in dedup
  BY <1>1, CopiesKept DEF Store, streamVars
<1>2. CASE m \notin dedup
  <2>1. /\ last' = last + 1
        /\ last + 1 \in Seqs
        /\ stream' = [stream EXCEPT ![last + 1] = m]
        /\ dedup' = dedup \cup {m}
    BY <1>2, SMTT(30) DEF Store, BusTypeOK, Seqs, streamVars
  <2>2. last + 1 \in Copies(m)'
    BY <2>1 DEF Copies, BusTypeOK
  <2>3. ASSUME NEW n PROVE Copies(n) \subseteq Copies(n)'
    <3>1. ASSUME NEW s \in Copies(n) PROVE s \in Copies(n)'
      <4>1. s \in Seqs /\ s <= last /\ stream[s] = n
        BY DEF Copies
      <4>2. s # last + 1 /\ s <= last'
        BY <2>1, <4>1 DEF BusTypeOK, Seqs
      <4>3. stream'[s] = n
        BY <2>1, <4>1, <4>2 DEF BusTypeOK
      <4> QED
        BY <4>1, <4>2, <4>3 DEF Copies, Seqs
    <3> QED
      BY <3>1
  <2> QED
    BY <2>1, <2>2, <2>3
<1> QED
  BY <1>1, <1>2

(* Every step preserves "what counts as stored is stored".                  *)
LEMMA StoredStep ==
    ASSUME TypeOK, RelayInv, StoredInv, [Next]_vars
    PROVE  StoredInv'
<1> USE DEF StoredInv, PublishedWasStored
<1>1. ASSUME UNCHANGED <<last, stream>> PROVE \A m : Copies(m)' = Copies(m)
  BY <1>1, CopiesKept
<1>2. ASSUME NEW r \in Rows, Commit(r) \/ EnqueueErr(r) PROVE StoredInv'
  BY <1>1, <1>2 DEF Commit, EnqueueErr, outboxVars, busVars, publishVars, streamVars
<1>3. ASSUME NEW r \in Rows, Enqueue(r) PROVE StoredInv'
  BY <1>1, <1>3 DEF Enqueue, StoreEnqueue, busVars, publishVars, streamVars,
                    TypeOK, OutboxTypeOK
<1>4. ASSUME NEW r \in Rows, Publish(r) PROVE StoredInv'
  BY <1>1, <1>4 DEF Publish, RelayPublish, PublishStart, streamVars
<1>5. CASE ProducerCrash
  BY <1>1, <1>5 DEF ProducerCrash, RelayCrash, PublishAbandoned, streamVars
<1>6. CASE Poll
  BY <1>1, <1>6 DEF Poll, RelayPoll, busVars, publishVars, streamVars
<1>7. CASE Received
  <2>1. PICK m \in MsgIds : request = m
    BY <1>7 DEF Received, PublishReceived, TypeOK, BusTypeOK
  <2>2. /\ Copies(m)' # {}
        /\ \A n : Copies(n) \subseteq Copies(n)'
        /\ dedup' \subseteq dedup \cup {m}
    BY <1>7, <2>1, StoreCopies DEF TypeOK, Received, PublishReceived
  <2>3. request' = m
    BY <1>7, <2>1 DEF Received, PublishReceived
  <2> QED
    BY <1>7, <2>2, <2>3 DEF Received, PublishReceived, outboxVars
<1>8. CASE PublishReturnsOk
  BY <1>1, <1>8 DEF PublishReturnsOk, RelayPublishOk, PublishOk, streamVars, RelayInv
<1>9. CASE PublishReturnsErr
  BY <1>1, <1>9 DEF PublishReturnsErr, RelayPublishErr, PublishErr, PublishAbandoned, streamVars
<1>10. CASE Mark
  BY <1>1, <1>10 DEF Mark, RelayMark, busVars, publishVars, streamVars, TypeOK, OutboxTypeOK
<1>11. CASE MarkErr
  BY <1>1, <1>11 DEF MarkErr, RelayMarkErr, busVars, publishVars, streamVars
<1>12. CASE PassEnds
  BY <1>1, <1>12 DEF PassEnds, RelayPassEnds, busVars, publishVars, streamVars
<1>13. CASE BusNext /\ UNCHANGED <<producer, outboxVars>>
  <2>1. UNCHANGED <<request, progress>>
    BY <1>13, BusLeavesRequest
  <2>2. ASSUME NEW m \in MsgIds, LateArrives(m) PROVE StoredInv'
    <3>1. /\ \A n : Copies(n) \subseteq Copies(n)'
          /\ Copies(m)' # {}
          /\ dedup' \subseteq dedup \cup {m}
      BY <2>2, StoreCopies DEF LateArrives, TypeOK
    <3> QED
      BY <1>13, <2>1, <3>1 DEF outboxVars
  <2>3. CASE UNCHANGED <<last, stream>> /\ dedup' \subseteq dedup
    BY <1>1, <1>13, <2>1, <2>3 DEF outboxVars
  <2> QED
    BY <1>13, <2>2, <2>3 DEF BusNext, DedupLapse, LateLost, AgeOut, Deliver,
       AckWaitExpires, HandlerStart, AckArrives, AckLost, HandlerOk, HandlerErr,
       ConsumerCrash, streamVars
<1>14. CASE UNCHANGED vars
  BY <1>1, <1>14 DEF vars, outboxVars, busVars, publishVars, streamVars
<1> QED
  BY <1>2, <1>3, <1>4, <1>5, <1>6, <1>7, <1>8, <1>9, <1>10, <1>11, <1>12,
     <1>13, <1>14 DEF Next, ProducerNext

(* An event whose outbox document has published_at set is on the stream,    *)
(* and a document the relay holds is still unpublished, in every behaviour  *)
(* of the code: RelayOnce loses no event to a failed, late or repeated      *)
(* publish, to a failed mark or to a crash, and never republishes a marked  *)
(* one.                                                                     *)
THEOREM OutboxLosesNothing == Spec => [](PublishedWasStored /\ NeverRepublishMarked)
<1>1. Init => RelayInv /\ StoredInv
  BY DEF Init, OutboxInit, BusInit, RelayInv, StoredInv, PublishedWasStored,
         NeverRepublishMarked
<1>2. TypeOK /\ RelayInv /\ StoredInv /\ [Next]_vars => (RelayInv /\ StoredInv)'
  BY RelayStep, StoredStep
<1>3. RelayInv /\ StoredInv => PublishedWasStored /\ NeverRepublishMarked
  BY DEF RelayInv, StoredInv
<1> QED
  BY <1>1, <1>2, <1>3, TypeCorrect, PTL DEF Spec

(* The relay never works on a document that is already marked, whatever      *)
(* failed before (RelayOnce).                                                *)
THEOREM MarkedIsLeftAlone == Spec => []NeverRepublishMarked
  BY OutboxLosesNothing, PTL

-----------------------------------------------------------------------------
(* The durable consumer *)

(* Every delivery is in the client's hands, has been handled, or is spent;  *)
(* what is or will be acknowledged has been handled.                        *)
ConsumerInv ==
    /\ \A s \in Seqs :
          /\ runs[s] + buffer[s] <= deliveries[s]
          /\ handling = s => runs[s] + buffer[s] < deliveries[s]
          /\ deliveries[s] <= MaxDeliver
    /\ \A s \in acked \cup ackWire : runs[s] > 0

(* The producing process never touches the durable consumer.                *)
LEMMA ProducerLeavesConsumer ==
    ASSUME ProducerNext
    PROVE  UNCHANGED <<serverVars, clientVars>>
BY DEF ProducerNext, Commit, Enqueue, EnqueueErr, Publish, PublishStart, ProducerCrash,
       PublishAbandoned, Poll, Received, PublishReceived, PublishReturnsOk, PublishOk,
       PublishReturnsErr, PublishErr, Mark, MarkErr, PassEnds, busVars

(* Every step preserves the accounting of deliveries.                       *)
LEMMA ConsumerStep ==
    ASSUME TypeOK, ConsumerInv, [Next]_vars
    PROVE  ConsumerInv'
<1> USE DEF TypeOK, BusTypeOK, ConsumerInv, Seqs
<1>1. CASE UNCHANGED <<deliveries, acked, buffer, handling, ackWire, runs>>
  BY <1>1
<1>2. CASE ProducerNext
  BY <1>1, <1>2, ProducerLeavesConsumer DEF serverVars, clientVars
<1>3. ASSUME NEW m \in MsgIds, DedupLapse(m) \/ LateArrives(m) \/ LateLost(m)
      PROVE  ConsumerInv'
  BY <1>1, <1>3 DEF DedupLapse, LateArrives, LateLost, serverVars, clientVars
<1>4. CASE AgeOut
  BY <1>1, <1>4 DEF AgeOut, clientVars
<1>5. ASSUME NEW s \in Seqs, Deliver(s) PROVE ConsumerInv'
  <2>1. /\ deliveries'[s] = deliveries[s] + 1
        /\ buffer'[s] = buffer[s] + 1
        /\ \A t \in Seqs \ {s} : deliveries'[t] = deliveries[t] /\ buffer'[t] = buffer[t]
    BY <1>5 DEF Deliver
  <2>2. deliveries[s] < MaxDeliver /\ UNCHANGED <<acked, handling, ackWire, runs>>
    BY <1>5 DEF Deliver
  <2>3. ASSUME NEW t \in Seqs
        PROVE  /\ runs'[t] + buffer'[t] <= deliveries'[t]
               /\ handling' = t => runs'[t] + buffer'[t] < deliveries'[t]
               /\ deliveries'[t] <= MaxDeliver
    <3>1. /\ t # 0
          /\ runs[t] \in Nat /\ buffer[t] \in Nat /\ deliveries[t] \in Nat
          /\ runs[t] + buffer[t] <= deliveries[t]
          /\ handling = t => runs[t] + buffer[t] < deliveries[t]
          /\ deliveries[t] <= MaxDeliver
      OBVIOUS
    <3> HIDE DEF TypeOK, BusTypeOK, ConsumerInv, Seqs
    <3>2. CASE t = s
      BY <2>1, <2>2, <3>1, <3>2
    <3>3. CASE t # s
      BY <2>1, <2>2, <3>1, <3>3
    <3> QED
      BY <3>2, <3>3
  <2> QED
    BY <2>2, <2>3
<1>6. ASSUME NEW s \in Seqs, AckWaitExpires(s) PROVE ConsumerInv'
  BY <1>1, <1>6 DEF AckWaitExpires, clientVars
<1>7. ASSUME NEW s \in Seqs, HandlerStart(s) PROVE ConsumerInv'
  <2>1. /\ buffer'[s] = buffer[s] - 1
        /\ \A t \in Seqs \ {s} : buffer'[t] = buffer[t]
    BY <1>7 DEF HandlerStart
  <2>2. handling = 0 /\ handling' = s /\ buffer[s] > 0
    BY <1>7 DEF HandlerStart
  <2>3. UNCHANGED <<deliveries, acked, ackWire, runs>>
    BY <1>7 DEF HandlerStart, serverVars
  <2>4. ASSUME NEW t \in Seqs
        PROVE  /\ runs'[t] + buffer'[t] <= deliveries'[t]
               /\ handling' = t => runs'[t] + buffer'[t] < deliveries'[t]
               /\ deliveries'[t] <= MaxDeliver
    <3>1. /\ t # 0
          /\ runs[t] \in Nat /\ buffer[t] \in Nat /\ deliveries[t] \in Nat
          /\ runs[t] + buffer[t] <= deliveries[t]
          /\ handling = t => runs[t] + buffer[t] < deliveries[t]
          /\ deliveries[t] <= MaxDeliver
      OBVIOUS
    <3> HIDE DEF TypeOK, BusTypeOK, ConsumerInv, Seqs
    <3>2. CASE t = s
      BY <2>1, <2>2, <2>3, <3>1, <3>2
    <3>3. CASE t # s
      BY <2>1, <2>2, <2>3, <3>1, <3>3
    <3> QED
      BY <3>2, <3>3
  <2> QED
    BY <2>3, <2>4
<1>8. ASSUME NEW s \in Seqs, AckArrives(s) \/ AckLost(s) PROVE ConsumerInv'
  BY <1>8 DEF AckArrives, AckLost, serverVars
<1>9. CASE HandlerOk
  <2>1. handling \in Seqs /\ handling' = 0
    BY <1>9 DEF HandlerOk
  <2>2. /\ runs'[handling] = runs[handling] + 1
        /\ \A t \in Seqs \ {handling} : runs'[t] = runs[t]
    BY <1>9, <2>1 DEF HandlerOk
  <2>3. ackWire' = ackWire \cup {handling} /\ UNCHANGED <<deliveries, acked, buffer>>
    BY <1>9 DEF HandlerOk, serverVars
  <2>4. ASSUME NEW t \in Seqs
        PROVE  /\ runs'[t] + buffer'[t] <= deliveries'[t]
               /\ handling' = t => runs'[t] + buffer'[t] < deliveries'[t]
               /\ deliveries'[t] <= MaxDeliver
    <3>1. /\ t # 0
          /\ runs[t] \in Nat /\ buffer[t] \in Nat /\ deliveries[t] \in Nat
          /\ runs[t] + buffer[t] <= deliveries[t]
          /\ handling = t => runs[t] + buffer[t] < deliveries[t]
          /\ deliveries[t] <= MaxDeliver
      OBVIOUS
    <3> HIDE DEF TypeOK, BusTypeOK, ConsumerInv, Seqs
    <3>2. CASE t = handling
      BY <2>1, <2>2, <2>3, <3>1, <3>2
    <3>3. CASE t # handling
      BY <2>1, <2>2, <2>3, <3>1, <3>3
    <3> QED
      BY <3>2, <3>3
  <2>5. ASSUME NEW t \in acked' \cup ackWire' PROVE runs'[t] > 0
    <3>1. t \in Seqs /\ runs[t] \in Nat /\ (t # handling => runs[t] > 0)
      BY <2>1, <2>3
    <3> HIDE DEF TypeOK, BusTypeOK, ConsumerInv, Seqs
    <3>2. CASE t = handling
      BY <2>2, <3>1, <3>2
    <3>3. CASE t # handling
      BY <2>2, <3>1, <3>3
    <3> QED
      BY <3>2, <3>3
  <2> QED
    BY <2>4, <2>5
<1>10. CASE HandlerErr
  BY <1>10 DEF HandlerErr
<1>11. CASE ConsumerCrash
  <2>1. (\A t \in Seqs : buffer'[t] = 0) /\ handling' = 0
    BY <1>11 DEF ConsumerCrash
  <2>2. UNCHANGED <<deliveries, acked, ackWire, runs>>
    BY <1>11 DEF ConsumerCrash, serverVars
  <2> QED
    BY <2>1, <2>2, SMTT(30)
<1>12. CASE UNCHANGED vars
  BY <1>1, <1>12 DEF vars, busVars, serverVars, clientVars
<1> QED
  BY <1>2, <1>3, <1>4, <1>5, <1>6, <1>7, <1>8, <1>9, <1>10, <1>11, <1>12
     DEF Next, BusNext

(* A message is acknowledged only after a successful run of its handler,    *)
(* and the handler succeeds at most MaxDeliver times for it, through naks,  *)
(* lost and late acks, expired AckWaits and crashes of the consumer         *)
(* (Subscribe).                                                             *)
THEOREM ConsumerSafe == Spec => [](AckedWasHandled /\ RunsWithinMaxDeliver)
<1>1. Init => ConsumerInv
  BY DEF Init, BusInit, ConsumerInv, Seqs
<1>2. TypeOK /\ ConsumerInv /\ [Next]_vars => ConsumerInv'
  BY ConsumerStep
<1>3. TypeOK /\ ConsumerInv => AckedWasHandled /\ RunsWithinMaxDeliver
  <2> SUFFICES ASSUME TypeOK, ConsumerInv
               PROVE  AckedWasHandled /\ RunsWithinMaxDeliver
    OBVIOUS
  <2>1. ASSUME NEW s \in Seqs
        PROVE  /\ runs[s] + buffer[s] <= MaxDeliver
               /\ handling = s => runs[s] + buffer[s] < MaxDeliver
    <3>1. runs[s] \in Nat /\ buffer[s] \in Nat /\ deliveries[s] \in Nat
      BY DEF TypeOK, BusTypeOK
    <3> QED
      BY <3>1 DEF ConsumerInv
  <2> QED
    BY <2>1 DEF ConsumerInv, AckedWasHandled, RunsWithinMaxDeliver
<1> QED
  BY <1>1, <1>2, <1>3, TypeCorrect, PTL DEF Spec

(* The handler of a message succeeds at most MaxDeliver times (Subscribe).    *)
THEOREM HandlingIsBounded == Spec => []RunsWithinMaxDeliver
  BY ConsumerSafe, PTL

-----------------------------------------------------------------------------
(* De-duplication *)

(* Storing a message that is not in the window adds one copy of it and none *)
(* of any other.                                                            *)
LEMMA StoreAddsOneCopy ==
    ASSUME BusTypeOK, NEW m \in MsgIds, Store(m), m \notin dedup
    PROVE  /\ Cardinality(Copies(m))' = Cardinality(Copies(m)) + 1
           /\ \A n \in MsgIds \ {m} : Copies(n)' = Copies(n)
           /\ dedup' = dedup \cup {m} /\ lapses' = lapses
<1>1. /\ last' = last + 1 /\ last \in Nat
      /\ last + 1 \in Seqs
      /\ stream' = [stream EXCEPT ![last + 1] = m]
      /\ dedup' = dedup \cup {m}
      /\ lapses' = lapses
  BY SMTT(30) DEF Store, BusTypeOK, Seqs, streamVars
<1>2. \A t \in Seqs : t # last + 1 => stream'[t] = stream[t]
  BY <1>1 DEF BusTypeOK
<1>3. stream'[last + 1] = m
  BY <1>1 DEF BusTypeOK
<1>4. \A t \in Seqs : t <= last' <=> (t <= last \/ t = last + 1)
  BY <1>1 DEF Seqs
<1>5. Copies(m)' = Copies(m) \cup {last + 1}
  BY <1>1, <1>2, <1>3, <1>4 DEF Copies, Seqs
<1>6. \A n \in MsgIds \ {m} : Copies(n)' = Copies(n)
  <2> TAKE n \in MsgIds \ {m}
  <2>1. \A t \in Seqs : t = last + 1 => ~(t <= last) /\ stream'[t] # n
    BY <1>1, <1>3
  <2>2. \A t \in Seqs : (t <= last' /\ stream'[t] = n) <=> (t <= last /\ stream[t] = n)
    BY <1>2, <1>4, <2>1
  <2> QED
    BY <2>2 DEF Copies, Seqs
<1>7. IsFiniteSet(Copies(m))
  BY FS_Interval, FS_Subset, 1 \in Int, MaxSeq \in Int DEF Copies, Seqs
<1>8. last + 1 \notin Copies(m)
  BY <1>1 DEF Copies
<1>9. Cardinality(Copies(m) \cup {last + 1}) = Cardinality(Copies(m)) + 1
  BY <1>7, <1>8, FS_AddElement
<1> QED
  BY <1>1, <1>5, <1>6, <1>9

(* A store keeps the count of copies and windows.                           *)
LEMMA StoreCount ==
    ASSUME BusTypeOK, OneCopyPerWindow, NEW m \in MsgIds, Store(m)
    PROVE  OneCopyPerWindow'
<1>1. CASE m \in dedup
  BY <1>1, CopiesKept DEF Store, streamVars, OneCopyPerWindow
<1>2. CASE m \notin dedup
  BY <1>2, StoreAddsOneCopy DEF OneCopyPerWindow
<1> QED
  BY <1>1, <1>2

(* Every step keeps the count of copies and windows.                        *)
LEMMA CountStep ==
    ASSUME TypeOK, OneCopyPerWindow, [Next]_vars
    PROVE  OneCopyPerWindow'
<1>1. ASSUME UNCHANGED <<last, stream, dedup, lapses>> PROVE OneCopyPerWindow'
  BY <1>1, CopiesKept DEF OneCopyPerWindow
<1>2. CASE Received
  <2>1. PICK m \in MsgIds : request = m
    BY <1>2 DEF Received, PublishReceived, TypeOK, BusTypeOK
  <2> QED
    BY <1>2, <2>1, StoreCount DEF Received, PublishReceived, TypeOK
<1>3. ASSUME NEW m \in MsgIds, LateArrives(m) PROVE OneCopyPerWindow'
  BY <1>3, StoreCount DEF LateArrives, TypeOK
<1>4. ASSUME NEW m \in MsgIds, DedupLapse(m) PROVE OneCopyPerWindow'
  <2>1. \A n : Copies(n)' = Copies(n)
    BY <1>4, CopiesKept DEF DedupLapse
  <2>2. /\ m \in dedup /\ dedup' = dedup \ {m}
        /\ lapses'[m] = lapses[m] + 1
        /\ \A n \in MsgIds \ {m} : lapses'[n] = lapses[n]
    BY <1>4 DEF DedupLapse, TypeOK, BusTypeOK
  <2> QED
    BY <2>1, <2>2 DEF OneCopyPerWindow
<1>5. CASE ProducerNext /\ ~Received
  BY <1>1, <1>5 DEF ProducerNext, Commit, Enqueue, EnqueueErr, Publish, PublishStart,
     ProducerCrash, PublishAbandoned, Poll, PublishReturnsOk, PublishOk,
     PublishReturnsErr, PublishErr, Mark, MarkErr, PassEnds, busVars, streamVars
<1>6. CASE BusNext
  BY <1>1, <1>3, <1>4, <1>6 DEF BusNext, LateLost, AgeOut, Deliver, AckWaitExpires,
     HandlerStart, AckArrives, AckLost, HandlerOk, HandlerErr, ConsumerCrash, streamVars
<1>7. CASE UNCHANGED vars
  BY <1>1, <1>7 DEF vars, busVars, streamVars
<1> QED
  BY <1>2, <1>5, <1>6, <1>7 DEF Next

(* An event is on the stream once for every time its id was in the window:  *)
(* retries, late requests and crashes add a copy only after a lapse         *)
(* (Publish with msgID).                                                    *)
THEOREM DedupExact == Spec => []OneCopyPerWindow
<1>1. Init => OneCopyPerWindow
  <2> SUFFICES ASSUME Init, NEW m \in MsgIds
               PROVE  Cardinality(Copies(m)) = 0 /\ lapses[m] = 0 /\ m \notin dedup
    BY DEF OneCopyPerWindow
  <2>1. Copies(m) = {}
    BY DEF Init, BusInit, Copies, Seqs
  <2> QED
    BY <2>1, FS_EmptySet DEF Init, BusInit
<1>2. TypeOK /\ OneCopyPerWindow /\ [Next]_vars => OneCopyPerWindow'
  BY CountStep
<1> QED
  BY <1>1, <1>2, TypeCorrect, PTL DEF Spec

-----------------------------------------------------------------------------
(* The promise: refinement of AtLeastOnce *)

(* Whatever is under way or on the stream comes from an enqueued row, and   *)
(* only stored messages have been delivered or have aged.                   *)
OriginInv ==
    /\ \A r \in Rows : outbox[r] # "absent" => producer[r] = "enqueued"
    /\ request # NoMsg => request \in Promise!Accepted
    /\ \A m \in MsgIds : late[m] > 0 => m \in Promise!Accepted
    /\ \A s \in Seqs : s <= last => stream[s] \in Promise!Accepted
    /\ \A s \in Seqs : deliveries[s] > 0 => s <= last
    /\ aged <= last

(* An accepted message stays accepted.                                      *)
LEMMA AcceptedGrows ==
    ASSUME TypeOK, [Next]_vars
    PROVE  Promise!Accepted \subseteq Promise!Accepted'
<1>1. \A r \in Rows : producer[r] = "enqueued" => producer'[r] = "enqueued"
  BY DEF TypeOK, Next, ProducerNext, Commit, Enqueue, EnqueueErr, ProducerCrash, Publish,
     Poll, Received, PublishReturnsOk, PublishReturnsErr, Mark, MarkErr, PassEnds, vars
<1> QED
  BY <1>1 DEF Promise!Accepted

(* Storing an accepted message keeps the stream made of accepted messages.  *)
LEMMA StoreOrigin ==
    ASSUME TypeOK, OriginInv, NEW m \in Promise!Accepted, Store(m), UNCHANGED producer
    PROVE  /\ \A s \in Seqs : s <= last' => stream'[s] \in Promise!Accepted'
           /\ last' \in Nat /\ last <= last' /\ aged' = aged
<1>1. Promise!Accepted' = Promise!Accepted
  BY DEF Promise!Accepted
<1>2. CASE UNCHANGED streamVars
  BY <1>1, <1>2 DEF OriginInv, streamVars, TypeOK, BusTypeOK
<1>3. CASE last' = last + 1 /\ stream' = [stream EXCEPT ![last + 1] = m] /\ aged' = aged
  <2>1. ASSUME NEW s \in Seqs, s <= last + 1 PROVE stream'[s] \in Promise!Accepted
    <3>1. CASE s = last + 1
      BY <1>3, <3>1 DEF TypeOK, BusTypeOK
    <3>2. CASE s # last + 1
      <4>1. s <= last
        BY <2>1, <3>2 DEF TypeOK, BusTypeOK, Seqs
      <4> QED
        BY <1>3, <3>2, <4>1 DEF OriginInv, TypeOK, BusTypeOK
    <3> QED
      BY <3>1, <3>2
  <2> QED
    BY <1>1, <1>3, <2>1 DEF TypeOK, BusTypeOK
<1> QED
  BY <1>2, <1>3 DEF Store

(* An abandoned Publish leaves at most its own accepted message behind.     *)
LEMMA AbandonedOrigin ==
    ASSUME TypeOK, OriginInv, PublishAbandoned
    PROVE  /\ request' = NoMsg
           /\ \A m \in MsgIds : late'[m] > 0 => m \in Promise!Accepted
<1>1. CASE UNCHANGED late
  BY <1>1 DEF OriginInv, PublishAbandoned
<1>2. CASE progress = "sent" /\ late' = [late EXCEPT ![request] = @ + 1]
  <2>1. request \in MsgIds /\ request \in Promise!Accepted
    BY <1>2 DEF TypeOK, BusTypeOK, OriginInv
  <2>2. \A m \in MsgIds \ {request} : late'[m] = late[m]
    BY <1>2 DEF TypeOK, BusTypeOK
  <2> QED
    BY <2>1, <2>2 DEF OriginInv, PublishAbandoned
<1> QED
  BY <1>1, <1>2 DEF PublishAbandoned

(* Every step preserves where messages come from.                           *)
LEMMA OriginStep ==
    ASSUME TypeOK, RelayInv, OriginInv, [Next]_vars
    PROVE  OriginInv'
<1>1. Promise!Accepted \subseteq Promise!Accepted'
  BY AcceptedGrows
<1>2. ASSUME \A r \in Rows : outbox'[r] # "absent" => producer'[r] = "enqueued",
             request' # NoMsg => request' \in Promise!Accepted,
             \A m \in MsgIds : late'[m] > 0 => m \in Promise!Accepted,
             UNCHANGED <<last, stream, aged, deliveries>>
      PROVE  OriginInv'
  BY <1>1, <1>2 DEF OriginInv
<1>3. ASSUME NEW r \in Rows, Commit(r) \/ EnqueueErr(r) \/ Enqueue(r) PROVE OriginInv'
  <2>1. \A q \in Rows : outbox'[q] # "absent" => producer'[q] = "enqueued"
    BY <1>3 DEF OriginInv, TypeOK, OutboxTypeOK, Commit, EnqueueErr, Enqueue, StoreEnqueue,
                outboxVars
  <2> QED
    BY <1>2, <1>3, <2>1 DEF OriginInv, Commit, EnqueueErr, Enqueue, busVars, publishVars,
                            streamVars, serverVars
<1>4. ASSUME NEW r \in Rows, Publish(r) PROVE OriginInv'
  <2>1. producer[r] = "enqueued"
    BY <1>4 DEF Publish, RelayPublish, RelayInv, NeverRepublishMarked, OriginInv
  <2>2. MsgOf[r] \in Promise!Accepted
    BY <2>1 DEF Promise!Accepted
  <2> QED
    BY <1>2, <1>4, <2>2 DEF OriginInv, Publish, RelayPublish, PublishStart, streamVars, serverVars
<1>5. CASE ProducerCrash
  <2>1. \A q \in Rows : outbox'[q] # "absent" => producer'[q] = "enqueued"
    BY <1>5 DEF OriginInv, TypeOK, OutboxTypeOK, ProducerCrash, RelayCrash
  <2> QED
    BY <1>2, <1>5, <2>1, AbandonedOrigin DEF ProducerCrash, PublishAbandoned,
                                             streamVars, serverVars
<1>6. CASE PublishReturnsErr
  BY <1>2, <1>6, AbandonedOrigin DEF PublishReturnsErr, PublishErr, RelayPublishErr,
     PublishAbandoned, streamVars, serverVars, OriginInv
<1>7. CASE PublishReturnsOk
  BY <1>2, <1>7 DEF PublishReturnsOk, PublishOk, RelayPublishOk, streamVars, serverVars, OriginInv
<1>8. CASE Mark
  <2>1. producer[cur] = "enqueued"
    BY <1>8 DEF Mark, RelayMark, TypeOK, OutboxTypeOK, RelayInv, NeverRepublishMarked, OriginInv
  <2>2. \A q \in Rows : outbox'[q] # "absent" => producer'[q] = "enqueued"
    BY <1>8, <2>1 DEF Mark, RelayMark, TypeOK, OutboxTypeOK, OriginInv
  <2> QED
    BY <1>2, <1>8, <2>2 DEF Mark, busVars, publishVars, streamVars, serverVars, OriginInv
<1>9. CASE Poll \/ MarkErr \/ PassEnds
  BY <1>2, <1>9 DEF Poll, RelayPoll, MarkErr, RelayMarkErr, PassEnds, RelayPassEnds,
     busVars, publishVars, streamVars, serverVars, OriginInv
<1>10. CASE Received
  <2>1. PICK m \in Promise!Accepted : request = m
    BY <1>10 DEF Received, PublishReceived, OriginInv, TypeOK, BusTypeOK
  <2>2. /\ \A s \in Seqs : s <= last' => stream'[s] \in Promise!Accepted'
        /\ last' \in Nat /\ last <= last' /\ aged' = aged
    BY <1>10, <2>1, StoreOrigin DEF Received, PublishReceived
  <2>3. UNCHANGED <<outbox, producer, request, late, deliveries>>
    BY <1>10 DEF Received, PublishReceived, outboxVars, serverVars
  <2>4. last \in Int /\ last' \in Int /\ aged' \in Int /\ Seqs \subseteq Int
    BY <2>2 DEF TypeOK, BusTypeOK, Seqs
  <2>5. aged' <= last' /\ \A s \in Seqs : deliveries'[s] > 0 => s <= last'
    BY <2>2, <2>3, <2>4 DEF OriginInv, TypeOK, BusTypeOK
  <2>6. /\ \A r \in Rows : outbox'[r] # "absent" => producer'[r] = "enqueued"
        /\ request' # NoMsg => request' \in Promise!Accepted'
        /\ \A n \in MsgIds : late'[n] > 0 => n \in Promise!Accepted'
    BY <1>1, <2>3 DEF OriginInv
  <2> QED
    BY <2>2, <2>5, <2>6 DEF OriginInv
<1>11. CASE BusNext /\ UNCHANGED <<producer, outboxVars>>
  <2>1. ASSUME NEW m \in MsgIds, LateArrives(m) PROVE OriginInv'
    <3>1. m \in Promise!Accepted
      BY <2>1 DEF LateArrives, OriginInv
    <3>2. /\ \A s \in Seqs : s <= last' => stream'[s] \in Promise!Accepted'
          /\ last' \in Nat /\ last <= last' /\ aged' = aged
      BY <1>11, <2>1, <3>1, StoreOrigin DEF LateArrives
    <3>3. \A n \in MsgIds : late'[n] > 0 => late[n] > 0
      BY <2>1 DEF LateArrives, TypeOK, BusTypeOK
    <3>4. UNCHANGED <<outbox, producer, request, deliveries>>
      BY <1>11, <2>1 DEF LateArrives, outboxVars, serverVars
    <3>5. aged' <= last' /\ \A s \in Seqs : deliveries'[s] > 0 => s <= last'
      BY <3>2, <3>4 DEF OriginInv, TypeOK, BusTypeOK, Seqs
    <3>6. /\ \A r \in Rows : outbox'[r] # "absent" => producer'[r] = "enqueued"
          /\ request' # NoMsg => request' \in Promise!Accepted'
          /\ \A n \in MsgIds : late'[n] > 0 => n \in Promise!Accepted'
      BY <1>1, <3>3, <3>4 DEF OriginInv
    <3> QED
      BY ONLY <3>2, <3>5, <3>6 DEF OriginInv
  <2>2. ASSUME NEW m \in MsgIds, LateLost(m) PROVE OriginInv'
    <3>1. \A n \in MsgIds : late'[n] > 0 => late[n] > 0
      BY <2>2 DEF LateLost, TypeOK, BusTypeOK
    <3> QED
      BY <1>2, <1>11, <2>2, <3>1 DEF LateLost, outboxVars, streamVars, serverVars, OriginInv
  <2>3. ASSUME AgeOut PROVE OriginInv'
    <3>1. aged' <= last'
      BY <2>3 DEF AgeOut, TypeOK, BusTypeOK
    <3> QED
      BY <1>1, <1>11, <2>3, <3>1 DEF AgeOut, OriginInv, outboxVars, publishVars
  <2>4. ASSUME NEW s \in Seqs, Deliver(s) PROVE OriginInv'
    <3>1. \A t \in Seqs : deliveries'[t] > 0 => t <= last
      <4>1. s <= last /\ \A t \in Seqs \ {s} : deliveries'[t] = deliveries[t]
        BY <2>4 DEF Deliver, TypeOK, BusTypeOK
      <4> QED
        BY <4>1 DEF OriginInv
    <3> QED
      BY <1>1, <1>11, <2>4, <3>1 DEF Deliver, OriginInv, outboxVars, publishVars, streamVars
  <2>5. CASE UNCHANGED <<request, late, last, stream, aged, deliveries>>
    BY <1>2, <1>11, <2>5 DEF OriginInv, outboxVars
  <2> QED
    BY <1>11, <2>1, <2>2, <2>3, <2>4, <2>5 DEF BusNext, DedupLapse, AckWaitExpires,
       HandlerStart, AckArrives, AckLost, HandlerOk, HandlerErr, ConsumerCrash,
       publishVars, streamVars, serverVars
<1>12. CASE UNCHANGED vars
  BY <1>2, <1>12 DEF vars, outboxVars, busVars, publishVars, streamVars, serverVars, OriginInv
<1> QED
  BY <1>3, <1>4, <1>5, <1>6, <1>7, <1>8, <1>9, <1>10, <1>11, <1>12 DEF Next, ProducerNext

(* What has been handled and what has been given up depends only on which   *)
(* messages have run and which are abandoned.                               *)
LEMMA SameMsgs ==
    ASSUME \A t \in Seqs : runs'[t] > 0 <=> runs[t] > 0,
           \A t \in Seqs : Abandoned(t)' <=> Abandoned(t),
           \A t \in Seqs : runs[t] > 0 \/ Abandoned(t) => stream'[t] = stream[t]
    PROVE  HandledMsgs' = HandledMsgs /\ DroppedMsgs' = DroppedMsgs
<1>1. HandledMsgs' = HandledMsgs
  BY DEF HandledMsgs, Seqs
<1>2. DroppedMsgs' = DroppedMsgs
  BY DEF DroppedMsgs, Seqs
<1> QED
  BY <1>1, <1>2

(* A stored message has not been delivered, so storing it neither handles   *)
(* nor gives up anything.                                                   *)
LEMMA StoreKeepsMsgs ==
    ASSUME TypeOK, ConsumerInv, OriginInv, NEW m, Store(m),
           UNCHANGED <<serverVars, clientVars>>
    PROVE  HandledMsgs' = HandledMsgs /\ DroppedMsgs' = DroppedMsgs
<1>1. CASE UNCHANGED streamVars
  BY <1>1, SameMsgs DEF Abandoned, streamVars, serverVars, clientVars
<1>2. CASE last' = last + 1 /\ stream' = [stream EXCEPT ![last + 1] = m] /\ aged' = aged
  <2>1. ASSUME NEW t \in Seqs
        PROVE  /\ Abandoned(t)' <=> Abandoned(t)
               /\ runs[t] > 0 \/ Abandoned(t) => stream'[t] = stream[t]
    <3>1. /\ runs[t] \in Nat /\ buffer[t] \in Nat /\ deliveries[t] \in Nat
          /\ t \in Int /\ last \in Int /\ aged \in Int
      BY DEF TypeOK, BusTypeOK, Seqs
    <3>2. UNCHANGED <<runs, buffer, handling, deliveries, acked, waiting>>
      BY DEF serverVars, clientVars
    <3>3. CASE t = last + 1
      <4>1. deliveries[t] = 0 /\ runs[t] = 0 /\ ~(t <= aged)
        BY <3>1, <3>3 DEF OriginInv, ConsumerInv
      <4> QED
        BY <1>2, <3>1, <3>2, <3>3, <4>1 DEF Abandoned
    <3>4. CASE t # last + 1
      <4>1. stream'[t] = stream[t]
        BY <1>2, <3>4 DEF TypeOK, BusTypeOK
      <4>2. t <= last' <=> t <= last
        BY <1>2, <3>1, <3>4
      <4> QED
        BY <1>2, <3>2, <4>1, <4>2 DEF Abandoned
    <3> QED
      BY <3>3, <3>4
  <2> QED
    BY <2>1, SameMsgs DEF clientVars
<1> QED
  BY <1>1, <1>2 DEF Store

(* A step of the server or the consumer that only gives up messages.        *)
LEMMA GivesUp ==
    ASSUME TypeOK, OriginInv, UNCHANGED <<producer, last, stream, runs>>,
           \A t \in Seqs : Abandoned(t) => Abandoned(t)'
    PROVE  Promise!GiveUp
<1>1. HandledMsgs' = HandledMsgs
  BY DEF HandledMsgs, Seqs
<1>2. DroppedMsgs \subseteq DroppedMsgs'
  BY DEF DroppedMsgs, Seqs
<1>3. DroppedMsgs' \subseteq Promise!Accepted
  <2>1. \A t \in Seqs : Abandoned(t)' => t <= last
    BY DEF Abandoned
  <2>2. \A t \in Seqs : Abandoned(t)' => stream'[t] \in Promise!Accepted
    BY <2>1 DEF OriginInv
  <2> QED
    BY <2>2 DEF DroppedMsgs, Seqs
<1> QED
  BY <1>1, <1>2, <1>3 DEF Promise!GiveUp

(* The producer's writes, inserts and losses are the promise's, and the     *)
(* relay's steps are invisible to it.                                       *)
LEMMA ProducerRefines ==
    ASSUME TypeOK, ConsumerInv, OriginInv, ProducerNext
    PROVE  [Promise!PromiseNext]_(Promise!promiseVars)
<1> USE DEF Promise!PromiseNext, Promise!promiseVars
<1>1. CASE Received
  <2>1. PICK m \in MsgIds : request = m
    BY <1>1 DEF Received, PublishReceived, TypeOK, BusTypeOK
  <2>2. Store(m) /\ UNCHANGED <<producer, serverVars, clientVars>>
    BY <1>1, <2>1 DEF Received, PublishReceived
  <2> QED
    BY <2>2, StoreKeepsMsgs
<1>2. CASE ~Received
  <2>1. UNCHANGED <<streamVars, serverVars, clientVars>>
    BY <1>2, ProducerLeavesConsumer DEF ProducerNext, Commit, Enqueue, EnqueueErr, Publish,
       PublishStart, ProducerCrash, PublishAbandoned, Poll, PublishReturnsOk, PublishOk,
       PublishReturnsErr, PublishErr, Mark, MarkErr, PassEnds, busVars
  <2>2. UNCHANGED <<HandledMsgs, DroppedMsgs>>
    BY <2>1, SameMsgs DEF Abandoned, streamVars, serverVars, clientVars
  <2>3. ASSUME NEW r \in Rows, Commit(r) PROVE Promise!Write(r)
    BY <2>2, <2>3 DEF Commit, Promise!Write
  <2>4. ASSUME NEW r \in Rows, Enqueue(r) PROVE Promise!Accept(r)
    BY <2>2, <2>4 DEF Enqueue, Promise!Accept
  <2>5. ASSUME NEW r \in Rows, EnqueueErr(r) PROVE Promise!Lose
    BY <2>2, <2>5 DEF EnqueueErr, Promise!Lose, TypeOK
  <2>6. ASSUME ProducerCrash PROVE Promise!Lose
    BY <2>2, <2>6 DEF ProducerCrash, Promise!Lose, TypeOK
  <2>7. CASE UNCHANGED producer
    BY <2>2, <2>7
  <2> QED
    BY <1>2, <2>3, <2>4, <2>5, <2>6, <2>7 DEF ProducerNext, Publish, Poll,
       PublishReturnsOk, PublishReturnsErr, Mark, MarkErr, PassEnds
<1> QED
  BY <1>1, <1>2

(* A successful handler is the promise's Handle; what ends a message's last *)
(* delivery is its GiveUp; deliveries, acks and the window are invisible.   *)
LEMMA BusRefines ==
    ASSUME TypeOK, ConsumerInv, OriginInv, BusNext, UNCHANGED producer
    PROVE  [Promise!PromiseNext]_(Promise!promiseVars)
<1> USE DEF Promise!PromiseNext, Promise!promiseVars
<1>1. CASE UNCHANGED <<HandledMsgs, DroppedMsgs>>
  BY <1>1
<1>2. ASSUME NEW m \in MsgIds, DedupLapse(m) \/ LateLost(m)
      PROVE  UNCHANGED <<HandledMsgs, DroppedMsgs>>
  BY <1>2, SameMsgs DEF DedupLapse, LateLost, Abandoned, streamVars, serverVars, clientVars
<1>3. ASSUME NEW m \in MsgIds, LateArrives(m)
      PROVE  UNCHANGED <<HandledMsgs, DroppedMsgs>>
  BY <1>3, StoreKeepsMsgs DEF LateArrives
<1>4. ASSUME AgeOut PROVE Promise!GiveUp
  <2>1. \A t \in Seqs : Abandoned(t) => Abandoned(t)'
    BY <1>4 DEF AgeOut, Abandoned, clientVars, TypeOK, BusTypeOK, Seqs
  <2> QED
    BY <1>4, <2>1, GivesUp DEF AgeOut, clientVars
<1>5. ASSUME NEW s \in Seqs, Deliver(s)
      PROVE  UNCHANGED <<HandledMsgs, DroppedMsgs>>
  <2>1. ~Abandoned(s) /\ ~Abandoned(s)'
    BY <1>5 DEF Deliver, Abandoned, streamVars, TypeOK, BusTypeOK, Seqs
  <2>2. \A t \in Seqs \ {s} : deliveries'[t] = deliveries[t] /\ buffer'[t] = buffer[t]
                              /\ (t \in waiting' <=> t \in waiting)
    BY <1>5 DEF Deliver, TypeOK, BusTypeOK
  <2>3. \A t \in Seqs \ {s} : Abandoned(t)' <=> Abandoned(t)
    BY <1>5, <2>2 DEF Deliver, Abandoned, streamVars
  <2> QED
    BY <1>5, <2>1, <2>3, SameMsgs DEF Deliver, streamVars
<1>6. ASSUME NEW s \in Seqs, AckWaitExpires(s) PROVE Promise!GiveUp
  <2>1. \A t \in Seqs : Abandoned(t) => Abandoned(t)'
    BY <1>6 DEF AckWaitExpires, Abandoned, streamVars, clientVars
  <2> QED
    BY <1>6, <2>1, GivesUp DEF AckWaitExpires, streamVars, clientVars
<1>7. ASSUME NEW s \in Seqs, HandlerStart(s)
      PROVE  UNCHANGED <<HandledMsgs, DroppedMsgs>>
  <2>1. ~Abandoned(s) /\ ~Abandoned(s)'
    BY <1>7 DEF HandlerStart, Abandoned, TypeOK, BusTypeOK
  <2>2. \A t \in Seqs \ {s} : buffer'[t] = buffer[t] /\ handling # t /\ handling' # t
    BY <1>7 DEF HandlerStart, TypeOK, BusTypeOK, Seqs
  <2>3. \A t \in Seqs \ {s} : Abandoned(t)' <=> Abandoned(t)
    BY <1>7, <2>2 DEF HandlerStart, Abandoned, streamVars, serverVars
  <2> QED
    BY <1>7, <2>1, <2>3, SameMsgs DEF HandlerStart, streamVars
<1>8. ASSUME NEW s \in Seqs, AckArrives(s)
      PROVE  UNCHANGED <<HandledMsgs, DroppedMsgs>>
  <2>1. runs[s] # 0
    BY <1>8 DEF AckArrives, ConsumerInv, TypeOK, BusTypeOK
  <2>2. \A t \in Seqs : Abandoned(t)' <=> Abandoned(t)
    BY <1>8, <2>1 DEF AckArrives, Abandoned, streamVars
  <2> QED
    BY <1>8, <2>2, SameMsgs DEF AckArrives, streamVars
<1>9. ASSUME NEW s \in Seqs, AckLost(s)
      PROVE  UNCHANGED <<HandledMsgs, DroppedMsgs>>
  BY <1>9, SameMsgs DEF AckLost, Abandoned, streamVars, serverVars
<1>10. ASSUME HandlerOk
       PROVE  \E m \in MsgIds : Promise!Handle(m)
  <2>1. handling \in Seqs
    BY <1>10 DEF HandlerOk, TypeOK, BusTypeOK, Seqs
  <2>2. deliveries[handling] > 0
    BY <2>1 DEF ConsumerInv, TypeOK, BusTypeOK
  <2>3. stream[handling] \in Promise!Accepted
    BY <2>1, <2>2 DEF OriginInv
  <2>4. Promise!Accepted \subseteq MsgIds
    BY DEF Promise!Accepted
  <2>5. \A t \in Seqs : runs'[t] > 0 <=> (runs[t] > 0 \/ t = handling)
    <3>1. runs'[handling] > 0
      BY <1>10, <2>1 DEF HandlerOk, TypeOK, BusTypeOK
    <3>2. \A t \in Seqs : t # handling => runs'[t] = runs[t]
      BY <1>10 DEF HandlerOk, TypeOK, BusTypeOK
    <3> QED
      BY <3>1, <3>2
  <2>6. HandledMsgs' = HandledMsgs \cup {stream[handling]}
    BY <1>10, <2>1, <2>5 DEF HandledMsgs, HandlerOk, streamVars, Seqs
  <2>7. DroppedMsgs' = DroppedMsgs
    <3>1. ~Abandoned(handling)
      BY DEF Abandoned
    <3>2. \A t \in Seqs : t = handling => ~Abandoned(t)'
      BY <2>5 DEF Abandoned, TypeOK, BusTypeOK
    <3>3. \A t \in Seqs : t # handling => runs'[t] = runs[t] /\ handling' # t
      BY <1>10 DEF HandlerOk, TypeOK, BusTypeOK, Seqs
    <3>4. \A t \in Seqs : t # handling => (Abandoned(t)' <=> Abandoned(t))
      BY <1>10, <3>3 DEF HandlerOk, Abandoned, streamVars, serverVars
    <3> QED
      BY <1>10, <3>1, <3>2, <3>4 DEF DroppedMsgs, HandlerOk, streamVars, Seqs
  <2> QED
    BY <2>3, <2>4, <2>6, <2>7 DEF Promise!Handle
<1>11. ASSUME HandlerErr PROVE Promise!GiveUp
  <2>1. \A t \in Seqs : Abandoned(t) => Abandoned(t)'
    BY <1>11 DEF HandlerErr, Abandoned, streamVars, Seqs
  <2> QED
    BY <1>11, <2>1, GivesUp DEF HandlerErr, streamVars
<1>12. ASSUME ConsumerCrash PROVE Promise!GiveUp
  <2>1. \A t \in Seqs : Abandoned(t) => Abandoned(t)'
    BY <1>12 DEF ConsumerCrash, Abandoned, streamVars, serverVars, Seqs
  <2> QED
    BY <1>12, <2>1, GivesUp DEF ConsumerCrash, streamVars
<1> QED
  BY <1>1, <1>2, <1>3, <1>4, <1>5, <1>6, <1>7, <1>8, <1>9, <1>10, <1>11, <1>12 DEF BusNext

(* The relay, the deliveries and the origin of every message stay as the    *)
(* three parts of the invariant say.                                        *)
THEOREM PathInvariants == Spec => [](RelayInv /\ ConsumerInv /\ OriginInv)
<1>1. Init => RelayInv /\ ConsumerInv /\ OriginInv
  BY DEF Init, OutboxInit, BusInit, RelayInv, NeverRepublishMarked, ConsumerInv, OriginInv, Seqs
<1>2. TypeOK /\ RelayInv /\ ConsumerInv /\ OriginInv /\ [Next]_vars
      => (RelayInv /\ ConsumerInv /\ OriginInv)'
  BY RelayStep, ConsumerStep, OriginStep
<1> QED
  BY <1>1, <1>2, TypeCorrect, PTL DEF Spec

(* The code path from the domain write to the consumer's handler implements *)
(* at-least-once delivery: an enqueued event is only ever handled or given  *)
(* up at the end of its deliveries or of its MaxAge, and nothing else is    *)
(* handled (Enqueue, RelayOnce, Publish, Subscribe).                        *)
THEOREM PathKeepsPromise == Spec => ImplementsAtLeastOnce
<1>1. Init => Promise!PromiseInit
  <2> SUFFICES ASSUME Init PROVE Promise!PromiseInit
    OBVIOUS
  <2> USE DEF Init, OutboxInit, BusInit
  <2>1. HandledMsgs = {}
    BY DEF HandledMsgs
  <2>2. DroppedMsgs = {}
    BY DEF DroppedMsgs, Abandoned, Seqs
  <2> QED
    BY <2>1, <2>2 DEF Promise!PromiseInit
<1>2. TypeOK /\ ConsumerInv /\ OriginInv /\ [Next]_vars
      => [Promise!PromiseNext]_(Promise!promiseVars)
  <2> SUFFICES ASSUME TypeOK, ConsumerInv, OriginInv, [Next]_vars
               PROVE  [Promise!PromiseNext]_(Promise!promiseVars)
    OBVIOUS
  <2>1. CASE ProducerNext
    BY <2>1, ProducerRefines
  <2>2. CASE BusNext /\ UNCHANGED <<producer, outboxVars>>
    BY <2>2, BusRefines
  <2>3. CASE UNCHANGED vars
    <3>1. UNCHANGED <<HandledMsgs, DroppedMsgs>>
      BY <2>3, SameMsgs DEF Abandoned, vars, busVars, streamVars, serverVars, clientVars
    <3> QED
      BY <2>3, <3>1 DEF vars, Promise!promiseVars
  <2> QED
    BY <2>1, <2>2, <2>3 DEF Next
<1> QED
  BY <1>1, <1>2, PathInvariants, TypeCorrect, PTL
     DEF Spec, ImplementsAtLeastOnce, Promise!PromiseSpec

-----------------------------------------------------------------------------
(* Notifications *)

NoteDocs == [state : {"free", "unread", "read"}, seq : 0..MaxSeq, user : NoteUsers \cup {NoUser}]

(* The copy that the callback works on, until it has inserted. *)
Open(s) == IF handling = s /\ inserted = "no" THEN 1 ELSE 0

(* Notifications are within the deliveries, those of acknowledged messages  *)
(* that decode are there, and so is the one that the callback has inserted. *)
NoteInv ==
    /\ notes \in [Notes -> NoteDocs]
    /\ inserted \in {"yes", "no"}
    /\ inserted = "yes" => Decodes /\ NotesOf(handling) # {}
    /\ AckedIsNotified
    /\ \A s \in Seqs : /\ IsFiniteSet(NotesOf(s))
                       /\ Cardinality(NotesOf(s)) + buffer[s] + Open(s) <= deliveries[s]

(* A step of notification-service is one of the event path or leaves it     *)
(* alone, and which payloads decode never changes.                          *)
LEMMA NoteStepIsStep ==
    ASSUME [NoteNext]_allVars
    PROVE  [Next]_vars /\ UNCHANGED malformed
<1>1. CASE Path
  <2>1. Next
    BY <1>1, Zenon DEF Path, Next, BusNext
  <2> QED
    BY <1>1, <2>1 DEF Path, noteVars
<1>2. ASSUME NEW n \in Notes, HandleBudgetOverspent(n) PROVE UNCHANGED <<malformed, vars>>
  BY <1>2 DEF HandleBudgetOverspent
<1>3. ASSUME NEW n \in Notes, CallbackUnanswered(n) PROVE Next /\ UNCHANGED malformed
  BY <1>3, Zenon DEF CallbackUnanswered, Next, BusNext
<1>4. CASE CallbackOk \/ CallbackErr \/ CallbackDiscard \/ ServiceCrash
  <2>1. Next
    BY <1>4, Zenon DEF CallbackOk, CallbackErr, CallbackDiscard, ServiceCrash, Next, BusNext
  <2> QED
    BY <1>4, <2>1 DEF CallbackOk, CallbackErr, CallbackDiscard, ServiceCrash, noteVars
<1>5. ASSUME NEW u \in NoteUsers, NEW n \in Notes, CreateNote(u, n) \/ MarkRead(u, n)
      PROVE  UNCHANGED <<malformed, vars>>
  BY <1>5 DEF CreateNote, MarkRead
<1>6. CASE UNCHANGED allVars
  BY <1>6 DEF allVars, noteVars
<1> QED
  BY <1>1, <1>2, <1>3, <1>4, <1>5, <1>6 DEF NoteNext

(* Only a new sequence number is written: a message that was delivered once *)
(* keeps its place in the stream.                                           *)
LEMMA DeliveredStays ==
    ASSUME TypeOK, OriginInv, [Next]_vars, NEW s \in Seqs, deliveries[s] > 0
    PROVE  stream'[s] = stream[s]
<1>1. ASSUME NEW m, Store(m) PROVE stream'[s] = stream[s]
  <2>1. s # last + 1
    BY DEF OriginInv, TypeOK, BusTypeOK, Seqs
  <2>2. stream \in [Seqs -> MsgIds \cup {NoMsg}]
    BY DEF TypeOK, BusTypeOK
  <2> QED
    BY <1>1, <2>1, <2>2 DEF Store, streamVars
<1>2. CASE Received
  BY <1>1, <1>2 DEF Received, PublishReceived
<1>3. ASSUME NEW m \in MsgIds, LateArrives(m) PROVE stream'[s] = stream[s]
  BY <1>1, <1>3 DEF LateArrives
<1>4. CASE ProducerNext /\ ~Received
  BY <1>4 DEF ProducerNext, Commit, Enqueue, EnqueueErr, Publish, PublishStart, ProducerCrash,
       PublishAbandoned, Poll, PublishReturnsOk, PublishOk, PublishReturnsErr, PublishErr, Mark,
       MarkErr, PassEnds, busVars, streamVars
<1>5. CASE BusNext /\ ~\E m \in MsgIds : LateArrives(m)
  BY <1>5 DEF BusNext, DedupLapse, LateLost, AgeOut, Deliver, AckWaitExpires, HandlerStart,
       AckArrives, AckLost, HandlerOk, HandlerErr, ConsumerCrash, streamVars
<1>6. CASE UNCHANGED vars
  BY <1>6 DEF vars, busVars, streamVars
<1> QED
  BY <1>2, <1>3, <1>4, <1>5, <1>6 DEF Next

(* The callback that inserts a notification is a handler of Delivery, and    *)
(* requests touch nothing of it: whatever Delivery guarantees holds of the   *)
(* path to notification-service.                                             *)
THEOREM HandlerKeepsDelivery == NoteSpec => Spec
<1>1. NoteInit => Init
  BY DEF NoteInit
<1> QED
  BY <1>1, NoteStepIsStep, PTL DEF NoteSpec, Spec

(* a notification is inserted: one more of its message *)
LEMMA NoteInserted ==
    ASSUME notes \in [Notes -> NoteDocs], NEW n \in Notes, NEW s \in 0..MaxSeq,
           NEW u \in NoteUsers, InsertNote(n, s, u)
    PROVE  /\ notes' \in [Notes -> NoteDocs]
           /\ n \notin NotesOf(s) /\ NotesOf(s)' = NotesOf(s) \cup {n}
           /\ \A t \in 0..MaxSeq : t # s => NotesOf(t)' = NotesOf(t)
<1> DEFINE d == [state |-> "unread", seq |-> s, user |-> u]
<1>1. notes[n].state = "free" /\ notes' = [notes EXCEPT ![n] = d]
  BY DEF InsertNote
<1>2. d \in NoteDocs /\ d.state = "unread" /\ d.seq = s
  BY DEF NoteDocs
<1> HIDE DEF d
<1>3. notes' \in [Notes -> NoteDocs] /\ notes'[n] = d /\ \A m \in Notes \ {n} : notes'[m] = notes[m]
  BY <1>1, <1>2
<1>4. n \notin NotesOf(s) /\ NotesOf(s)' = NotesOf(s) \cup {n}
  BY <1>1, <1>2, <1>3 DEF NotesOf
<1>5. ASSUME NEW t \in 0..MaxSeq, t # s PROVE NotesOf(t)' = NotesOf(t)
  BY <1>1, <1>2, <1>3, <1>5 DEF NotesOf
<1> QED
  BY <1>3, <1>4, <1>5

(* The count of one message after such an insert. *)
LEMMA OneMoreNote ==
    ASSUME NEW S, NEW n, IsFiniteSet(S), n \notin S
    PROVE  /\ IsFiniteSet(S \cup {n}) /\ Cardinality(S \cup {n}) = Cardinality(S) + 1
           /\ Cardinality(S) \in Nat
<1>1. /\ IsFiniteSet(S \cup {n})
      /\ Cardinality(S \cup {n}) = IF n \in S THEN Cardinality(S) ELSE Cardinality(S) + 1
  BY FS_AddElement, Zenon
<1>2. Cardinality(S) \in Nat
  BY FS_CardinalityType
<1> QED
  BY <1>1, <1>2

(* Every step keeps the account of notifications. *)
LEMMA NoteStep ==
    ASSUME TypeOK, ConsumerInv, OriginInv, NoteInv, [NoteNext]_allVars
    PROVE  NoteInv'
<1> DEFINE Within(s) == /\ IsFiniteSet(NotesOf(s))
                        /\ Cardinality(NotesOf(s)) + buffer[s] + Open(s) <= deliveries[s]
<1>0. /\ \A s \in Seqs : /\ buffer[s] \in Nat /\ deliveries[s] \in Nat
                         /\ Cardinality(NotesOf(s)) \in Nat
      /\ buffer \in [Seqs -> Nat] /\ deliveries \in [Seqs -> Nat]
      /\ handling \in 0..MaxSeq /\ acked \in SUBSET Seqs /\ ackWire \in SUBSET Seqs
      /\ Seqs \subseteq 0..MaxSeq /\ 0 \notin Seqs /\ (handling # 0 => handling \in Seqs)
  <2>1. ASSUME NEW s \in Seqs PROVE Cardinality(NotesOf(s)) \in Nat
    BY FS_CardinalityType DEF NoteInv
  <2>2. /\ buffer \in [Seqs -> Nat] /\ deliveries \in [Seqs -> Nat]
        /\ handling \in 0..MaxSeq /\ acked \in SUBSET Seqs /\ ackWire \in SUBSET Seqs
    BY DEF TypeOK, BusTypeOK
  <2>3. Seqs \subseteq 0..MaxSeq /\ 0 \notin Seqs /\ (handling # 0 => handling \in Seqs)
    BY <2>2 DEF Seqs
  <2> QED
    BY <2>1, <2>2, <2>3
<1>m. /\ malformed' = malformed
      /\ \A s \in acked \cup ackWire : stream'[s] = stream[s]
      /\ handling # 0 => stream'[handling] = stream[handling]
  <2>1. ASSUME NEW s \in Seqs, s \in acked \cup ackWire \/ handling = s PROVE deliveries[s] > 0
    <3>1. runs[s] \in Nat /\ buffer[s] \in Nat /\ deliveries[s] \in Nat
      BY DEF TypeOK, BusTypeOK
    <3>2. CASE s \in acked \cup ackWire
      BY <3>1, <3>2 DEF ConsumerInv
    <3>3. CASE handling = s
      BY <3>1, <3>3 DEF ConsumerInv
    <3> QED
      BY <2>1, <3>2, <3>3
  <2> QED
    BY <1>0, <2>1, NoteStepIsStep, DeliveredStays
<1>1. ASSUME UNCHANGED <<notes, inserted, deliveries, buffer, handling, acked, ackWire>>
      PROVE  NoteInv'
  BY <1>m, <1>1 DEF NoteInv, AckedIsNotified, NotesOf, Open, Decodes
<1>2. CASE Path
  <2>0. UNCHANGED noteVars
    BY <1>2 DEF Path
  <2>1. CASE ProducerNext
    BY <1>1, <2>0, <2>1, ProducerLeavesConsumer DEF serverVars, clientVars, noteVars
  <2>2. ASSUME NEW m \in MsgIds, DedupLapse(m) \/ LateArrives(m) \/ LateLost(m) PROVE NoteInv'
    BY <1>1, <2>0, <2>2 DEF DedupLapse, LateArrives, LateLost, serverVars, clientVars, noteVars
  <2>3. CASE AgeOut
    BY <1>1, <2>0, <2>3 DEF AgeOut, clientVars, noteVars
  <2>4. ASSUME NEW s \in Seqs, AckWaitExpires(s) PROVE NoteInv'
    BY <1>1, <2>0, <2>4 DEF AckWaitExpires, clientVars, noteVars
  <2>5. ASSUME NEW s \in Seqs, Deliver(s) PROVE NoteInv'
    <3>1. /\ UNCHANGED <<notes, inserted, handling, acked, ackWire>>
          /\ deliveries'[s] = deliveries[s] + 1 /\ buffer'[s] = buffer[s] + 1
          /\ \A t \in Seqs \ {s} : deliveries'[t] = deliveries[t] /\ buffer'[t] = buffer[t]
      BY <1>0, <2>0, <2>5 DEF Deliver, noteVars
    <3>2. \A t : NotesOf(t)' = NotesOf(t) /\ Open(t)' = Open(t) /\ Open(t) \in {0, 1}
      BY <3>1 DEF NotesOf, Open
    <3>3. ASSUME NEW t \in Seqs PROVE Within(t)'
      BY <1>0, <3>1, <3>2 DEF NoteInv
    <3> QED
      BY <1>m, <3>1, <3>2, <3>3 DEF NoteInv, AckedIsNotified, Decodes
  <2>6. ASSUME NEW s \in Seqs, HandlerStart(s) PROVE NoteInv'
    <3>1. /\ UNCHANGED <<notes, inserted, deliveries, acked, ackWire>>
          /\ handling = 0 /\ handling' = s /\ buffer[s] > 0 /\ buffer'[s] = buffer[s] - 1
          /\ \A t \in Seqs \ {s} : buffer'[t] = buffer[t]
      BY <1>0, <2>0, <2>6 DEF HandlerStart, noteVars, serverVars
    <3>2. /\ inserted = "no" /\ inserted' = "no"
          /\ \A t \in Seqs : /\ NotesOf(t)' = NotesOf(t) /\ Open(t) = 0
                             /\ Open(t)' = IF t = s THEN 1 ELSE 0
      BY <1>0, <3>1 DEF NoteInv, NotesOf, Open, Decodes
    <3>3. ASSUME NEW t \in Seqs PROVE Within(t)'
      BY <1>0, <3>1, <3>2 DEF NoteInv
    <3> QED
      BY <1>0, <1>m, <3>1, <3>2, <3>3 DEF NoteInv, AckedIsNotified, Decodes
  <2>7. ASSUME NEW s \in Seqs, AckArrives(s) \/ AckLost(s) PROVE NoteInv'
    <3>1. /\ UNCHANGED <<notes, inserted, deliveries, buffer, handling>>
          /\ \A t \in acked' \cup ackWire' : t \in acked \cup ackWire
      BY <2>0, <2>7 DEF AckArrives, AckLost, serverVars, noteVars
    <3>2. \A t : NotesOf(t)' = NotesOf(t) /\ Open(t)' = Open(t)
      BY <3>1 DEF NotesOf, Open
    <3>3. AckedIsNotified'
      BY <1>m, <3>1, <3>2 DEF NoteInv, AckedIsNotified
    <3>4. inserted' = "yes" => Decodes' /\ NotesOf(handling)' # {}
      BY <1>m, <3>1, <3>2 DEF NoteInv, Decodes, NotesOf
    <3>5. ASSUME NEW t \in Seqs PROVE Within(t)'
      BY <3>1, <3>2 DEF NoteInv
    <3> QED
      BY <3>1, <3>3, <3>4, <3>5 DEF NoteInv
  <2> QED
    BY <1>2, <2>1, <2>2, <2>3, <2>4, <2>5, <2>6, <2>7, Zenon DEF Path
<1>3. ASSUME NEW n \in Notes, HandleBudgetOverspent(n) PROVE NoteInv'
  <2>1. /\ handling \in Seqs /\ inserted = "no" /\ inserted' = "yes"
        /\ InsertNote(n, handling, Recipient) /\ Decodes
        /\ UNCHANGED <<deliveries, buffer, handling, acked, ackWire>>
    BY <1>0, <1>3 DEF HandleBudgetOverspent, Decodes, vars, busVars, serverVars, clientVars
  <2> PICK h \in Seqs : h = handling
    BY <2>1
  <2>2. /\ notes' \in [Notes -> NoteDocs] /\ n \notin NotesOf(h)
        /\ NotesOf(h)' = NotesOf(h) \cup {n}
        /\ \A t \in Seqs : t # h => NotesOf(t)' = NotesOf(t)
    BY <1>0, <2>1, NoteInserted, NotesAssumption DEF NoteInv, NotesAssumption
  <2>3. Open(h) = 1 /\ \A t \in Seqs : Open(t)' = 0 /\ Open(t) \in {0, 1}
    BY <2>1 DEF Open
  <2>4. ASSUME NEW t \in Seqs PROVE Within(t)'
    <3>1. CASE t = h
      <4>1. /\ IsFiniteSet(NotesOf(h)) /\ IsFiniteSet(NotesOf(h) \cup {n})
            /\ Cardinality(NotesOf(h) \cup {n}) = Cardinality(NotesOf(h)) + 1
        BY <2>2, OneMoreNote DEF NoteInv
      <4>2. IsFiniteSet(NotesOf(h)') /\ Cardinality(NotesOf(h)') = Cardinality(NotesOf(h)) + 1
        BY <2>2, <4>1
      <4>3. Cardinality(NotesOf(h)) + buffer[h] + 1 <= deliveries[h]
        BY <2>3 DEF NoteInv
      <4> QED
        BY <1>0, <2>1, <2>3, <3>1, <4>2, <4>3
    <3>2. CASE t # h
      BY <1>0, <2>1, <2>2, <2>3, <3>2 DEF NoteInv
    <3> QED
      BY <3>1, <3>2
  <2>5. AckedIsNotified'
    BY <1>0, <1>m, <2>1, <2>2 DEF NoteInv, AckedIsNotified, Decodes
  <2> QED
    BY <1>0, <1>m, <2>1, <2>2, <2>4, <2>5 DEF NoteInv, Decodes
<1>4. ASSUME NEW n \in Notes, CallbackUnanswered(n) PROVE NoteInv'
  <2>1. /\ handling \in Seqs /\ inserted = "no" /\ inserted' = "no" /\ handling' = 0
        /\ InsertNote(n, handling, Recipient)
        /\ UNCHANGED <<deliveries, buffer, acked, ackWire>>
    BY <1>0, <1>4 DEF CallbackUnanswered, Decodes, HandlerErr
  <2> PICK h \in Seqs : h = handling
    BY <2>1
  <2>2. /\ notes' \in [Notes -> NoteDocs] /\ n \notin NotesOf(h)
        /\ NotesOf(h)' = NotesOf(h) \cup {n}
        /\ \A t \in Seqs : t # h => NotesOf(t)' = NotesOf(t)
    BY <1>0, <2>1, NoteInserted, NotesAssumption DEF NoteInv, NotesAssumption
  <2>3. Open(h) = 1 /\ \A t \in Seqs : Open(t)' = 0 /\ Open(t) \in {0, 1}
    BY <1>0, <2>1 DEF Open
  <2>4. ASSUME NEW t \in Seqs PROVE Within(t)'
    <3>1. CASE t = h
      <4>1. /\ IsFiniteSet(NotesOf(h)) /\ IsFiniteSet(NotesOf(h) \cup {n})
            /\ Cardinality(NotesOf(h) \cup {n}) = Cardinality(NotesOf(h)) + 1
        BY <2>2, OneMoreNote DEF NoteInv
      <4>2. IsFiniteSet(NotesOf(h)') /\ Cardinality(NotesOf(h)') = Cardinality(NotesOf(h)) + 1
        BY <2>2, <4>1
      <4>3. Cardinality(NotesOf(h)) + buffer[h] + 1 <= deliveries[h]
        BY <2>3 DEF NoteInv
      <4> QED
        BY <1>0, <2>1, <2>3, <3>1, <4>2, <4>3
    <3>2. CASE t # h
      BY <1>0, <2>1, <2>2, <2>3, <3>2 DEF NoteInv
    <3> QED
      BY <3>1, <3>2
  <2>5. AckedIsNotified'
    BY <1>0, <1>m, <2>1, <2>2 DEF NoteInv, AckedIsNotified, Decodes
  <2> QED
    BY <1>0, <1>m, <2>1, <2>2, <2>4, <2>5 DEF NoteInv, Decodes
<1>5. CASE CallbackOk
  <2>1. /\ handling \in Seqs /\ inserted = "yes" /\ inserted' = "no" /\ handling' = 0
        /\ ackWire' = ackWire \cup {handling}
        /\ UNCHANGED <<notes, deliveries, buffer, acked>>
    BY <1>0, <1>5 DEF CallbackOk, HandlerOk, serverVars
  <2>2. \A t \in Seqs : NotesOf(t)' = NotesOf(t) /\ Open(t)' = 0 /\ Open(t) = 0
    BY <1>0, <2>1 DEF NotesOf, Open
  <2> QED
    BY <1>0, <1>m, <2>1, <2>2 DEF NoteInv, AckedIsNotified, Decodes
<1>d. CASE CallbackDiscard
  <2>1. /\ handling \in Seqs /\ UNCHANGED inserted /\ handling' = 0
        /\ ackWire' = ackWire \cup {handling} /\ stream[handling] \in malformed
        /\ UNCHANGED <<notes, deliveries, buffer, acked>>
    BY <1>0, <1>d DEF CallbackDiscard, Decodes, HandlerOk, serverVars, noteVars
  <2>2. \A t \in Seqs : NotesOf(t)' = NotesOf(t) /\ Open(t)' = 0 /\ Open(t) \in {0, 1}
    BY <1>0, <2>1 DEF NotesOf, Open
  <2>3. ASSUME NEW t \in Seqs PROVE Within(t)'
    BY <1>0, <2>1, <2>2 DEF NoteInv
  <2>4. AckedIsNotified'
    BY <1>0, <1>m, <2>1, <2>2 DEF NoteInv, AckedIsNotified, Decodes
  <2>5. inserted = "no"
    BY <2>1 DEF NoteInv, Decodes
  <2> QED
    BY <1>0, <2>1, <2>2, <2>3, <2>4, <2>5 DEF NoteInv
<1>6. CASE CallbackErr \/ ServiceCrash
  <2>1. /\ inserted' = "no" /\ handling' = 0
        /\ UNCHANGED <<notes, deliveries, acked, ackWire>>
        /\ \A t \in Seqs : buffer'[t] \in {0, buffer[t]}
    BY <1>0, <1>6 DEF CallbackErr, HandlerErr, ServiceCrash, ConsumerCrash, serverVars, noteVars
  <2>2. \A t \in Seqs : NotesOf(t)' = NotesOf(t) /\ Open(t)' = 0 /\ Open(t) \in {0, 1}
    BY <1>0, <2>1 DEF NotesOf, Open
  <2>3. ASSUME NEW t \in Seqs PROVE Within(t)'
    BY <1>0, <2>1, <2>2 DEF NoteInv
  <2> QED
    BY <1>0, <1>m, <2>1, <2>2, <2>3 DEF NoteInv, AckedIsNotified, Decodes
<1>7. ASSUME NEW u \in NoteUsers, NEW n \in Notes, CreateNote(u, n) \/ MarkRead(u, n)
      PROVE  NoteInv'
  <2>1. UNCHANGED <<inserted, deliveries, buffer, handling, acked, ackWire>>
    BY <1>7 DEF CreateNote, MarkRead, vars, busVars, serverVars, clientVars
  <2>2. notes' \in [Notes -> NoteDocs] /\ \A t \in Seqs : NotesOf(t)' = NotesOf(t)
    <3>1. CASE CreateNote(u, n)
      BY <1>0, <3>1, NoteInserted DEF CreateNote, NoteInv
    <3>2. CASE MarkRead(u, n)
      <4> DEFINE d == [notes[n] EXCEPT !.state = "read"]
      <4>1. notes' = [notes EXCEPT ![n] = d] /\ notes[n].state # "free"
        BY <3>2 DEF MarkRead
      <4>2. d \in NoteDocs /\ d.state = "read" /\ d.seq = notes[n].seq
        BY DEF NoteInv, NoteDocs
      <4> HIDE DEF d
      <4>3. /\ notes' \in [Notes -> NoteDocs] /\ notes'[n] = d
            /\ \A m \in Notes \ {n} : notes'[m] = notes[m]
        BY <4>1, <4>2 DEF NoteInv
      <4> QED
        BY <4>1, <4>2, <4>3 DEF NotesOf
    <3> QED
      BY <1>7, <3>1, <3>2
  <2>3. \A t : Open(t)' = Open(t)
    BY <2>1 DEF Open
  <2> QED
    BY <1>0, <1>m, <2>1, <2>2, <2>3 DEF NoteInv, AckedIsNotified, Decodes
<1>8. CASE UNCHANGED allVars
  BY <1>1, <1>8 DEF allVars, noteVars, vars, busVars, serverVars, clientVars
<1> QED
  BY <1>2, <1>3, <1>4, <1>5, <1>d, <1>6, <1>7, <1>8, Zenon DEF NoteNext

(* The account holds along the whole path. *)
THEOREM NotesAreAccounted == NoteSpec => []NoteInv
<1>1. NoteInit => NoteInv
  <2> SUFFICES ASSUME NoteInit PROVE NoteInv
    OBVIOUS
  <2>1. notes \in [Notes -> NoteDocs] /\ \A n \in Notes : notes[n].state = "free"
    BY DEF NoteInit, NoteDocs
  <2>2. \A s \in Seqs : NotesOf(s) = {} /\ buffer[s] = 0 /\ deliveries[s] = 0 /\ Open(s) = 0
    BY <2>1 DEF NotesOf, NoteInit, Init, BusInit, Open, Seqs
  <2>3. acked \cup ackWire = {} /\ inserted = "no"
    BY DEF NoteInit, Init, BusInit
  <2>4. IsFiniteSet({}) /\ Cardinality({}) = 0
    BY FS_EmptySet
  <2>5. ASSUME NEW s \in Seqs
        PROVE  /\ IsFiniteSet(NotesOf(s))
               /\ Cardinality(NotesOf(s)) + buffer[s] + Open(s) <= deliveries[s]
    BY <2>2, <2>4
  <2> QED
    BY <2>1, <2>3, <2>5 DEF NoteInv, AckedIsNotified, Decodes
<1> QED
  BY <1>1, NoteStep, HandlerKeepsDelivery, TypeCorrect, PathInvariants, PTL DEF NoteSpec

(* A message that is acknowledged has left a notification behind, whatever     *)
(* failed, was repeated or crashed on the way, unless its payload does not     *)
(* decode and the callback discarded it.                                       *)
THEOREM AckLeavesNotification == NoteSpec => []AckedIsNotified
<1>1. NoteInv => AckedIsNotified
  BY DEF NoteInv
<1> QED
  BY <1>1, NotesAreAccounted, PTL

(* One message never becomes more notifications than it was delivered, less    *)
(* the copies that are still in hand.                                          *)
THEOREM RepeatsWithinDeliveries == NoteSpec => []NotesWithinDeliveries
<1>1. NoteInv => NotesWithinDeliveries
  BY DEF NoteInv, NotesWithinDeliveries, Open
<1> QED
  BY <1>1, NotesAreAccounted, PTL

=============================================================================
