------------------------------ MODULE Delivery ------------------------------
(***************************************************************************)
(* The path of one kind of domain event from the service that writes it to *)
(* the handler of the service that consumes it: a request goroutine        *)
(* commits its write and enqueues an event (expense-service:               *)
(* transactionService.Create, publishCreated, OutboxPublisher), the outbox *)
(* relay publishes it (Outbox), JetStream stores and delivers it           *)
(* (EventBus).                                                             *)
(***************************************************************************)
EXTENDS Outbox, EventBus

CONSTANT MsgOf    \* [Rows -> MsgIds]: msg_id of the document (tx.ID)

ASSUME MsgOfAssumption == MsgOf \in [Rows -> MsgIds]

VARIABLE producer   \* [Rows -> ProducerStates]: the request behind each row

vars == <<producer, outboxVars, busVars>>

(* none: no request yet; written: the domain write is committed and the     *)
(* event is not enqueued yet; enqueued; lost: it never will be              *)
ProducerStates == {"none", "written", "enqueued", "lost"}

TypeOK ==
    /\ producer \in [Rows -> ProducerStates]
    /\ OutboxTypeOK
    /\ BusTypeOK

Init ==
    /\ producer = [r \in Rows |-> "none"]
    /\ OutboxInit
    /\ BusInit

-----------------------------------------------------------------------------
(* Request goroutines of the producing service *)

(* the transaction document is inserted *)
Commit(r) ==
    /\ producer[r] = "none"
    /\ producer' = [producer EXCEPT ![r] = "written"]
    /\ UNCHANGED <<outboxVars, busVars>>

(* publishCreated: the event is marshalled and inserted into the outbox.    *)
(* An insert that takes effect although its reply is lost is this step too. *)
Enqueue(r) ==
    /\ producer[r] = "written"
    /\ producer' = [producer EXCEPT ![r] = "enqueued"]
    /\ StoreEnqueue(r)
    /\ UNCHANGED busVars

(* publishCreated logs an error of the publisher and drops it *)
EnqueueErr(r) ==
    /\ producer[r] = "written"
    /\ producer' = [producer EXCEPT ![r] = "lost"]
    /\ UNCHANGED <<outboxVars, busVars>>

(* the process stops: requests between their two writes never finish, the   *)
(* relay and its outstanding Publish are gone                               *)
ProducerCrash ==
    /\ producer' = [r \in Rows |->
                       IF producer[r] = "written" THEN "lost" ELSE producer[r]]
    /\ RelayCrash
    /\ PublishAbandoned

-----------------------------------------------------------------------------
(* The relay and the bus *)

Poll == RelayPoll /\ UNCHANGED <<producer, busVars>>

Publish(r) ==
    /\ RelayPublish(r)
    /\ PublishStart(MsgOf[r])
    /\ UNCHANGED producer

Received == PublishReceived /\ UNCHANGED <<producer, outboxVars>>

PublishReturnsOk == RelayPublishOk /\ PublishOk /\ UNCHANGED producer

PublishReturnsErr == RelayPublishErr /\ PublishErr /\ UNCHANGED producer

Mark == RelayMark /\ UNCHANGED <<producer, busVars>>

MarkErr == RelayMarkErr /\ UNCHANGED <<producer, busVars>>

PassEnds == RelayPassEnds /\ UNCHANGED <<producer, busVars>>

ProducerNext ==
    \/ \E r \in Rows : Commit(r) \/ Enqueue(r) \/ EnqueueErr(r) \/ Publish(r)
    \/ ProducerCrash
    \/ Poll \/ Received \/ PublishReturnsOk \/ PublishReturnsErr
    \/ Mark \/ MarkErr \/ PassEnds

(* What the server and the consuming process do on their own *)
BusNext ==
    \/ \E m \in MsgIds : DedupLapse(m) \/ LateArrives(m) \/ LateLost(m)
    \/ AgeOut
    \/ \E s \in Seqs : \/ Deliver(s) \/ AckWaitExpires(s) \/ HandlerStart(s)
                       \/ AckArrives(s) \/ AckLost(s)
    \/ HandlerOk \/ HandlerErr \/ ConsumerCrash

Next ==
    \/ ProducerNext
    \/ BusNext /\ UNCHANGED <<producer, outboxVars>>

Spec == Init /\ [][Next]_vars

-----------------------------------------------------------------------------
(* Safety *)

(* The relay sets published_at only after the server has stored the event,  *)
(* whatever is lost, retried, repeated late or interrupted by a crash: no   *)
(* enqueued event goes missing between the outbox and the stream            *)
(* (outbox.go, Relay: "marking each published_at only after a successful    *)
(* publish").                                                               *)
PublishedWasStored ==
    \A r \in Rows : outbox[r] = "published" => Copies(MsgOf[r]) # {}

(* The relay's cursor never goes stale: a document it is going to publish   *)
(* or is publishing has not been marked published in the meantime, so no    *)
(* event is ever published again after its mark (RelayOnce).                *)
NeverRepublishMarked ==
    \A r \in batch \cup ({cur} \ {NoRow}) : outbox[r] = "queued"

(* The stream holds one copy of an event for each time its id was in the    *)
(* de-duplication window: however often Publish is retried and however late *)
(* a request lands, a further copy needs a further lapse of the window      *)
(* (eventbus.go, Publish with msgID).                                       *)
OneCopyPerWindow ==
    \A m \in MsgIds :
        /\ m \in dedup => Cardinality(Copies(m)) = lapses[m] + 1
        /\ m \notin dedup => Cardinality(Copies(m)) = lapses[m]

(* A message the server counts as acknowledged was handled successfully at  *)
(* least once: neither a nak, nor a crash, nor an expired AckWait retires   *)
(* an unhandled message (eventbus.go, Subscribe's callback).                *)
AckedWasHandled ==
    \A s \in acked : runs[s] > 0

(* The handler succeeds at most MaxDeliver times for one stored message,    *)
(* counting the copies that are still in the client's hands (eventbus.go,   *)
(* Subscribe, MaxDeliver).                                                  *)
RunsWithinMaxDeliver ==
    \A s \in Seqs :
        /\ runs[s] + buffer[s] <= MaxDeliver
        /\ handling = s => runs[s] + buffer[s] < MaxDeliver

-----------------------------------------------------------------------------
(* The promise of the whole path *)

(* message s will not be handled any more, and never was *)
Abandoned(s) ==
    /\ s <= last
    /\ s \notin acked \cup waiting
    /\ deliveries[s] = MaxDeliver \/ s <= aged
    /\ buffer[s] = 0
    /\ handling # s
    /\ runs[s] = 0

HandledMsgs == {stream[s] : s \in {t \in Seqs : runs[t] > 0}}

DroppedMsgs == {stream[s] : s \in {t \in Seqs : Abandoned(t)}}

Promise == INSTANCE AtLeastOnce WITH
    fate    <- producer,
    handled <- HandledMsgs,
    dropped <- DroppedMsgs

(* Producer, relay, stream and consumer together implement at-least-once    *)
(* delivery: an event is lost only before its outbox insert, only enqueued  *)
(* events are handled, a handled event stays handled and a message that was *)
(* given up is never delivered after all (outbox.go, eventbus.go).          *)
ImplementsAtLeastOnce == Promise!PromiseSpec

(* Every enqueued event is handled at least once or given up after its last *)
(* permitted delivery: none waits for ever, through lost publishes, failed  *)
(* marks, lost acks and crashes on both sides (Relay.Run, Subscribe).       *)
EnqueuedIsSettled == Promise!EventuallySettled

(* The relay's ticker fires for ever, and a call that is retried for ever   *)
(* is not unlucky for ever (strong fairness); the server delivers, times    *)
(* out and the callback returns (weak fairness).  Nothing is assumed about  *)
(* acks, errors, crashes, or the requests that are late.                    *)
Fairness ==
    /\ WF_vars(Poll) /\ WF_vars(PassEnds)
    /\ \A r \in Rows : SF_vars(Publish(r))
    /\ SF_vars(Received)
    /\ SF_vars(PublishReturnsOk)
    /\ SF_vars(Mark)
    /\ \A s \in Seqs :
          /\ WF_vars(Deliver(s) /\ UNCHANGED <<producer, outboxVars>>)
          /\ WF_vars(AckWaitExpires(s) /\ UNCHANGED <<producer, outboxVars>>)
          /\ SF_vars(HandlerStart(s) /\ UNCHANGED <<producer, outboxVars>>)
    /\ WF_vars((HandlerOk \/ HandlerErr) /\ UNCHANGED <<producer, outboxVars>>)

FairSpec == Spec /\ Fairness

=============================================================================
